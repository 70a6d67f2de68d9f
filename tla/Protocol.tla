------------------------------ MODULE Protocol ------------------------------
(***************************************************************************)
(* What the client makes of Symphony's messages, and what it asks for.     *)
(*                                                                         *)
(* The name of a metric is the sequence of the parts that the code puts    *)
(* together and takes apart, the number of a zone digit by digit.  A       *)
(* message is what its deserializers look at; a login answer is the        *)
(* sequence of the gateways of all its locations.                          *)
(***************************************************************************)
EXTENDS Naturals, SequencesExt

\* How a number of 8 bits is written.
Digit(k) == <<"0", "1", "2", "3", "4", "5", "6", "7", "8", "9">>[k + 1]

Digits(n) ==
  IF n < 10 THEN <<Digit(n)>>
  ELSE IF n < 100 THEN <<Digit(n \div 10), Digit(n % 10)>>
  ELSE <<Digit(n \div 100), Digit((n \div 10) % 10), Digit(n % 10)>>

\* DEFAULT_READ_RLIST, a name of each sort: most have nothing of a zone's, two begin alike.
DefaultMetrics == {<<"TStatRoomTemp">>, <<"iz2", "_", "dehumid_humid_sp">>}

RoomTemp == <<"roomtemp">>
ActiveSettings == <<"activesettings">>

\* What an activesettings object says of its zone, by two of its names.
SettingNames == {<<"call">>, <<"damper">>}

\* ZONE_RLIST_PREFIX, the zone, and a suffix up to its first word.
ZoneMetric(z, word) == <<"iz2", "_", "z">> \o Digits(z) \o <<"_">> \o word

\* The members of the activesettings object of a zone: each has the zone's prefix itself.
Settings(z) == {ZoneMetric(z, word) : word \in SettingNames}

MutantReadList(maxZones) ==
  DefaultMetrics \union {ZoneMetric(z, w) : z \in 1 .. (maxZones - 1), w \in {RoomTemp, ActiveSettings}}

\* What gateway_read asks for, by the number of zones of the gateway.
ReadList(maxZones) ==
  DefaultMetrics \union {ZoneMetric(z, w) : z \in 1 .. maxZones, w \in {RoomTemp, ActiveSettings}}

\* Symphony answers a read with a value for each name it was asked for, and the zone of the request.
Metrics(maxZones) == ReadList(maxZones) \union {<<"zone">>}
----------------------------------------------------------------------------
(* Messages.                                                               *)

\* tid: whether there is a number for it; err: text, a number, or nothing (absent, null, empty);
\* body: whether everything else that the response named by rsp needs is there.
Message ==
  [rsp : {"login", "read", "error"}, tid : BOOLEAN, err : {"none", "text", "number"}, body : BOOLEAN]

IsMeta(m) == m.tid /\ m.err # "number"

IsResponse(m) == IsMeta(m) /\ m.rsp \in {"login", "read"} /\ m.body

MutantReadResult(m) ==
  CASE IsResponse(m) /\ m.err = "none" /\ m.rsp = "read" -> "ok"
    [] IsResponse(m) /\ ~(m.err = "none" /\ m.rsp = "read") -> "ResponseError"
    [] ~IsResponse(m) -> "nothing"

\* What a message with its number brings a waiting gateway_read: the answer, an answer with err set
\* or of the wrong kind, a dropped sender, or nothing.
ReadResult(m) ==
  CASE IsResponse(m) /\ m.err = "none" /\ m.rsp = "read" -> "ok"
    [] IsResponse(m) /\ ~(m.err = "none" /\ m.rsp = "read") -> "ResponseError"
    [] ~IsResponse(m) /\ IsMeta(m) -> "CommandFailed"
    [] ~IsMeta(m) -> "nothing"
----------------------------------------------------------------------------
(* Login data.                                                             *)

\* Each gateway: its id, iz2_max_zones, and tstat_names: whether a key begins with z, the number
\* after it (above 255 for all that is none of 8 bits), and whether its value is a string.
ZoneName == [z : BOOLEAN, index : 0 .. 256, text : BOOLEAN]

\* zone_name_list: a key without z is passed over, one with z and no number fails the whole answer.
NamesParse(names) == \A n \in names : n.z => n.index < 256
ZoneNames(names) == {n.index : n \in {k \in names : k.z /\ k.text}}

LoginParses(login) == \A i \in DOMAIN login : NamesParse(login[i].names)

\* LoginData: zone_counts keeps the last gateway of an id.
Known(login) == {login[i].id : i \in DOMAIN login}

ZoneCount(login, gateway) ==
  LET last == CHOOSE i \in DOMAIN login :
                /\ login[i].id = gateway
                /\ \A j \in DOMAIN login : login[j].id = gateway => j <= i
  IN  login[last].maxZones
============================================================================
