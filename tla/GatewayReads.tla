---------------------------- MODULE GatewayReads ----------------------------
(***************************************************************************)
(* HTTP requests that the gateway has let in, the cache between its        *)
(* handlers and the client, and how old and how complete what they are     *)
(* told can be.                                                            *)
(*                                                                         *)
(* Time passes in steps of any length, at most up to the next deadline,    *)
(* and not while a request waits only for a lock: none is held for long.   *)
(* The client is down or logged in with the data of its last login; the    *)
(* errors of a read that Client details are Failed.  An answer is the one  *)
(* to the call's own request (see Client for when it is not).              *)
(***************************************************************************)
EXTENDS Handlers

CONSTANTS
  Requests,   \* HTTP requests
  Targets,    \* what they ask for
  Logins,     \* login answers of Symphony
  Ids,        \* gateway ids, known to Symphony or not
  Lifetime,   \* of a cache entry: 10 seconds
  ReadTime,   \* COMMAND_TIMEOUT
  MaxTime     \* bound: of the clock

ASSUME ReadsAssumption ==
  /\ Lifetime \in Nat \ {0}
  /\ ReadTime \in Nat
  /\ MaxTime \in Nat
  /\ Targets \subseteq [route : {"gateways", "zones", "read", "details"},
                        gateway : Ids \union {AnyGateway}, zone : 0 .. NoZone]
  /\ \A t \in Targets : t.route \in {"read", "details"} => t.gateway \in Ids
  /\ \A answer \in Logins : \A g \in Known(answer) : ZoneCount(answer, g) \in 0 .. 255

VARIABLES
  now,      \* the time
  ready,    \* Client::ready
  login,    \* Client::login_data
  renewed,  \* history: when login was stored
  cache,    \* the last good read of each gateway
  stage,    \* where each request is
  target,   \* what it asks for
  since,    \* when its present wait began
  maxZones, \* the zones in the read list it sent
  heard,    \* history: whether a message with its number, while it was listed, could be made out
  reply     \* what it was told

requestVars == <<stage, target, since, maxZones, heard, reply>>
clientVars == <<ready, login, renewed>>
vars == <<now, clientVars, cache, requestVars>>

\* A cache entry: when it was set, when Symphony took its values, and what it was asked for and when.
Entry ==
  [held : BOOLEAN, at : Nat, sampled : Nat, asked : Nat, maxZones : Nat, objects : BOOLEAN]
NoEntry == [held |-> FALSE, at |-> 0, sampled |-> 0, asked |-> 0, maxZones |-> 0, objects |-> FALSE]
NoReply == [status |-> "none", body |-> {}, age |-> 0]
NoTarget == [route |-> "none", gateway |-> AnyGateway, zone |-> NoZone]

Init ==
  /\ now = 0
  /\ ready = FALSE
  /\ login = <<>>
  /\ renewed = 0
  /\ cache = [g \in Ids |-> NoEntry]
  /\ stage = [r \in Requests |-> "new"]
  /\ target = [r \in Requests |-> NoTarget]
  /\ since = [r \in Requests |-> 0]
  /\ maxZones = [r \in Requests |-> 0]
  /\ heard = [r \in Requests |-> FALSE]
  /\ reply = [r \in Requests |-> NoReply]
----------------------------------------------------------------------------
\* A request ends; its wait and its read list are gone.
End(r, status, body, age) ==
  /\ stage' = [stage EXCEPT ![r] = "done"]
  /\ since' = [since EXCEPT ![r] = 0]
  /\ maxZones' = [maxZones EXCEPT ![r] = 0]
  /\ reply' = [reply EXCEPT ![r] = [status |-> status, body |-> body, age |-> age]]

\* gateway_read hands the metrics on, zone_details those of its zone.
ReadBody(t, zones, objects) ==
  IF t.route = "read" THEN Metrics(zones) ELSE ZoneDetails(Metrics(zones), objects, t.zone)

MutantFresh(g) == cache[g].held /\ now - cache[g].at <= Lifetime

\* TimedCache: an entry is given out while it is younger than its lifetime.
Fresh(g) == cache[g].held /\ now - cache[g].at < Lifetime

\* A read that the cache answers, whether the client is up or not.
CacheHit(r, t) ==
  /\ stage[r] = "new"
  /\ t.route \in {"read", "details"}
  /\ Fresh(t.gateway)
  /\ target' = [target EXCEPT ![r] = t]
  /\ LET e == cache[t.gateway] IN
       End(r, "200", ReadBody(t, e.maxZones, e.objects), now - e.sampled)
  /\ UNCHANGED <<now, clientVars, cache, heard>>

\* A read that goes to the client, past an entry whose time is over; or a list of its login data.
\* Nothing is held while it waits: other requests may miss as well.
Ask(r, t) ==
  /\ stage[r] = "new"
  /\ t.route \in {"read", "details"} => ~Fresh(t.gateway)
  /\ target' = [target EXCEPT ![r] = t]
  /\ stage' = [stage EXCEPT ![r] = "waiting"]
  /\ since' = [since EXCEPT ![r] = now]
  /\ cache' = (IF t.route \in {"read", "details"} THEN [cache EXCEPT ![t.gateway] = NoEntry] ELSE cache)
  /\ UNCHANGED <<now, clientVars, maxZones, heard, reply>>

\* wait_ready_timeout runs out.
WaitTimeout(r) ==
  /\ stage[r] = "waiting"
  /\ ~ready
  /\ now - since[r] = ReadTime
  /\ End(r, StatusOf("CommandTimeout"), {}, 0)
  /\ UNCHANGED <<now, clientVars, cache, target, heard>>

\* Ready; by the time the login data are read the client may be down again, or logged in anew.
PassReady(r) ==
  /\ stage[r] = "waiting"
  /\ ready
  /\ stage' = [stage EXCEPT ![r] = "passed"]
  /\ UNCHANGED <<now, clientVars, cache, target, since, maxZones, heard, reply>>

\* get_locations, for the two lists.
ListGateways(r) ==
  /\ stage[r] = "passed"
  /\ target[r].route = "gateways"
  /\ End(r, "200", Gateways(login), 0)
  /\ UNCHANGED <<now, clientVars, cache, target, heard>>

ListZones(r) ==
  /\ stage[r] = "passed"
  /\ target[r].route = "zones"
  /\ LET t == target[r]
         items == Zones(login, t.gateway, t.zone)
     IN  \/ t.gateway = AnyGateway /\ t.zone # NoZone /\ End(r, "400", {}, 0)
         \/ ~(t.gateway = AnyGateway /\ t.zone # NoZone) /\ items = {} /\ End(r, "404", {}, 0)
         \/ ~(t.gateway = AnyGateway /\ t.zone # NoZone) /\ items # {} /\ End(r, "200", items, 0)
  /\ UNCHANGED <<now, clientVars, cache, target, heard>>

\* gateway_read: a gateway that is not in the login data, or the read list by what they count.
UnknownGateway(r) ==
  /\ stage[r] = "passed"
  /\ target[r].route \in {"read", "details"}
  /\ target[r].gateway \notin Known(login)
  /\ End(r, StatusOf("UnknownGateway"), {}, 0)
  /\ UNCHANGED <<now, clientVars, cache, target, heard>>

BuildReadList(r) ==
  /\ stage[r] = "passed"
  /\ target[r].route \in {"read", "details"}
  /\ target[r].gateway \in Known(login)
  /\ stage' = [stage EXCEPT ![r] = "asking"]
  /\ since' = [since EXCEPT ![r] = now]
  /\ maxZones' = [maxZones EXCEPT ![r] = ZoneCount(login, target[r].gateway)]
  /\ UNCHANGED <<now, clientVars, cache, target, heard, reply>>

\* send(): the request goes to the channel, and only then into the list of transactions.
SendRead(r) ==
  /\ stage[r] = "asking"
  /\ stage' = [stage EXCEPT ![r] = "sent"]
  /\ UNCHANGED <<now, clientVars, cache, target, since, maxZones, heard, reply>>

\* Only a read that is listed hears its answer.
Insert(r) ==
  /\ \/ stage[r] = "sent" /\ stage' = [stage EXCEPT ![r] = "reading"]
     \/ stage[r] = "missed" /\ stage' = [stage EXCEPT ![r] = "lost"]
  /\ UNCHANGED <<now, clientVars, cache, target, since, maxZones, heard, reply>>

\* What can come with the number of a read: what it brings the call, and whether it can be made out.
Arrivals == {[result |-> ReadResult(m), meta |-> IsMeta(m)] : m \in Message}

\* The answer to a read, with values that Symphony took after it was asked and with activesettings
\* that are objects or not: the handler's cache entry is set, over one of a read that was faster.
Answered(r, a, sampled, objects) ==
  /\ stage[r] = "reading"
  /\ a.result = "ok"
  /\ heard' = [heard EXCEPT ![r] = TRUE]
  /\ cache' = [cache EXCEPT ![target[r].gateway] =
                 [held |-> TRUE, at |-> now, sampled |-> sampled, asked |-> since[r],
                  maxZones |-> maxZones[r], objects |-> objects]]
  /\ End(r, "200", ReadBody(target[r], maxZones[r], objects), now - sampled)
  /\ UNCHANGED <<now, clientVars, target>>

\* Errors are not cached.
Refused(r, a) ==
  /\ stage[r] = "reading"
  /\ a.result \in {"ResponseError", "CommandFailed"}
  /\ heard' = [heard EXCEPT ![r] = TRUE]
  /\ End(r, StatusOf(a.result), {}, 0)
  /\ UNCHANGED <<now, clientVars, cache, target>>

\* A message that says nothing to process_message: the call waits on.
Unreadable(r, a) ==
  /\ stage[r] = "reading"
  /\ a.result = "nothing"
  /\ heard' = [heard EXCEPT ![r] = @ \/ a.meta]
  /\ UNCHANGED <<now, clientVars, cache, stage, target, since, maxZones, reply>>

\* An answer that is faster than Insert belongs to no transaction and is dropped.
Overtaken(r, a) ==
  /\ stage[r] = "sent"
  /\ a.result # "nothing"
  /\ stage' = [stage EXCEPT ![r] = "missed"]
  /\ UNCHANGED <<now, clientVars, cache, target, since, maxZones, heard, reply>>

\* The other errors of send() and of the wait, at the Client's discretion.
Failed(r) ==
  /\ stage[r] \in {"asking", "reading", "lost"}
  /\ End(r, StatusOf("CommandFailed"), {}, 0)
  /\ UNCHANGED <<now, clientVars, cache, target, heard>>

ReadTimeout(r) ==
  /\ stage[r] \in {"reading", "lost"}
  /\ now - since[r] = ReadTime
  /\ End(r, StatusOf("CommandTimeout"), {}, 0)
  /\ UNCHANGED <<now, clientVars, cache, target, heard>>

\* The HTTP client is gone, and the handler's future is dropped where it waits.
HangUp(r) ==
  /\ stage[r] \notin {"new", "done"}
  /\ End(r, "none", {}, 0)
  /\ UNCHANGED <<now, clientVars, cache, target, heard>>
----------------------------------------------------------------------------
(* The client's session.                                                   *)

\* The session is renewed, lost or closed.  What was asked on it is not answered any more, but a
\* request that is still on the channel, with its entry to be inserted, survives a renewal.
SessionEnds ==
  /\ ready
  /\ ready' = FALSE
  /\ \E lost \in SUBSET {r \in Requests : stage[r] \in {"sent", "reading"}} :
       stage' = [r \in Requests |-> CASE r \in lost /\ stage[r] = "sent" -> "missed"
                                      [] r \in lost /\ stage[r] = "reading" -> "lost"
                                      [] r \notin lost -> stage[r]]
  /\ UNCHANGED <<now, login, renewed, cache, target, since, maxZones, heard, reply>>

\* The login answer of the next session; one that cannot be read ends connect() and changes nothing.
LoggedIn(answer) ==
  /\ ~ready
  /\ LoginParses(answer)
  /\ ready' = TRUE
  /\ login' = answer
  /\ renewed' = now
  /\ UNCHANGED <<now, cache, requestVars>>

\* Where a request waits for nothing but a lock.
Brief == {"passed", "asking", "sent", "missed"}

MutantTick ==
  /\ now < MaxTime
  /\ \A r \in Requests : stage[r] \notin Brief /\ (stage[r] = "waiting" => now - since[r] < ReadTime)
  /\ now' = now + 1
  /\ UNCHANGED <<clientVars, cache, requestVars>>

\* Time passes; every wait of a caller has its deadline.
Tick ==
  /\ now < MaxTime
  /\ \A r \in Requests :
       /\ stage[r] \notin Brief
       /\ stage[r] \in {"waiting", "reading", "lost"} => now - since[r] < ReadTime
  /\ now' = now + 1
  /\ UNCHANGED <<clientVars, cache, requestVars>>
----------------------------------------------------------------------------
Begin(r) == \E t \in Targets : CacheHit(r, t) \/ Ask(r, t)

Receive(r) ==
  \E a \in Arrivals :
    \/ \E sampled \in since[r] .. now, objects \in BOOLEAN : Answered(r, a, sampled, objects)
    \/ Refused(r, a) \/ Unreadable(r, a) \/ Overtaken(r, a)

Handle(r) ==
  \/ WaitTimeout(r) \/ PassReady(r) \/ ListGateways(r) \/ ListZones(r)
  \/ UnknownGateway(r) \/ BuildReadList(r) \/ SendRead(r) \/ Insert(r)
  \/ Receive(r) \/ Failed(r) \/ ReadTimeout(r) \/ HangUp(r)

Next ==
  \/ \E r \in Requests : Begin(r) \/ Handle(r)
  \/ SessionEnds \/ (\E answer \in Logins : LoggedIn(answer)) \/ Tick

Spec == Init /\ [][Next]_vars
----------------------------------------------------------------------------
\* Its read list is made.
Reading(r) == stage[r] \in {"asking", "sent", "missed", "reading", "lost"}

Stages == {"new", "waiting", "reading", "lost", "done"} \union Brief

ReplyOK(r) ==
  /\ reply[r].status \in {"none", "200", "400", "404", "502", "504"}
  /\ reply[r].age \in Nat

TypeOK ==
  /\ now \in Nat /\ renewed \in Nat
  /\ ready \in BOOLEAN
  /\ login \in Logins \union {<<>>}
  /\ cache \in [Ids -> Entry]
  /\ stage \in [Requests -> Stages]
  /\ target \in [Requests -> Targets \union {NoTarget}]
  /\ since \in [Requests -> Nat] /\ maxZones \in [Requests -> Nat]
  /\ heard \in [Requests -> BOOLEAN]
  /\ reply = [r \in Requests |-> reply[r]] /\ \A r \in Requests : ReplyOK(r)

\* What is served is never older than the lifetime of a cache entry and the deadline of a read
\* together, however reads, expiry and reconnections interleave.
BoundedAge == \A r \in Requests : reply[r].age < Lifetime + ReadTime

\* An answer that comes late and overwrites a newer one in the cache sets the readings back by no
\* more than the deadline of a read.
BoundedSetback ==
  [][\A g \in Ids : cache[g].held /\ cache'[g].held =>
       cache[g].sampled <= cache'[g].sampled + ReadTime]_vars

\* A zone that the login data name and count is found under its number, with its own room
\* temperature, its own settings if Symphony sent them as an object, and nothing of another zone, as
\* soon as an entry read with older login data can no longer be served.
NewZonesShow ==
  [][\A r \in Requests :
       LET t == target'[r] IN
       /\ stage[r] # "done" /\ stage'[r] = "done" /\ reply'[r].status = "200"
       /\ t.route = "details"
       /\ [gateway |-> t.gateway, zone |-> t.zone] \in NamedZones(login)
       /\ t.zone \in 1 .. ZoneCount(login, t.gateway)
       /\ now - renewed >= Lifetime + ReadTime
       => reply'[r].body =
            {RoomTemp} \union (IF cache'[t.gateway].objects THEN SettingNames ELSE {})]_vars

\* Once a read is listed only silence makes it time out: when a message with its number and no
\* unreadable error comes, it is answered at once, be it with an error.
TimeoutMeansSilence ==
  \A r \in Requests : heard[r] => stage[r] = "done" /\ reply[r].status # "504"

\* How the times of a read, of its entry and of the login data hang together.
ReadTimes ==
  \A r \in Requests :
    /\ stage[r] \notin {"new", "done"} => since[r] <= now /\ now <= since[r] + ReadTime
    /\ stage[r] # "new" => target[r] \in Targets
    /\ Reading(r) => target[r].route \in {"read", "details"}

EntryTimes ==
  \A g \in Ids : cache[g].held =>
    /\ cache[g].asked <= cache[g].sampled /\ cache[g].sampled <= cache[g].at /\ cache[g].at <= now
    /\ cache[g].at <= cache[g].asked + ReadTime

\* What was asked for after the login is what the login data count.
CountsCurrent ==
  /\ renewed <= now
  /\ \A r \in Requests : Reading(r) /\ renewed < since[r] =>
       /\ target[r].gateway \in Known(login)
       /\ maxZones[r] = ZoneCount(login, target[r].gateway)
  /\ \A g \in Ids : cache[g].held /\ renewed < cache[g].asked =>
       g \in Known(login) /\ cache[g].maxZones = ZoneCount(login, g)

IInv == TypeOK /\ ReadTimes /\ EntryTimes /\ BoundedAge /\ TimeoutMeansSilence /\ CountsCurrent
============================================================================
