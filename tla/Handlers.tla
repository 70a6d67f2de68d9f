------------------------------ MODULE Handlers ------------------------------
(***************************************************************************)
(* The bodies the HTTP handlers build, as the sets of what they hold, and  *)
(* the status codes of their errors.                                       *)
(***************************************************************************)
EXTENDS Protocol

NoZone == 256     \* a request for all zones of a gateway
AnyGateway == "*" \* a request for the zones of all gateways

\* gateways: the ids of all locations.
Gateways(login) == {login[i].id : i \in DOMAIN login}

\* zones: every named zone, before the filters.
NamedZones(login) ==
  UNION {{[gateway |-> login[i].id, zone |-> z] : z \in ZoneNames(login[i].names)} : i \in DOMAIN login}

\* zones: filtered by gateway and by zone.
Zones(login, gateway, zone) ==
  {item \in NamedZones(login) :
     (gateway = AnyGateway \/ item.gateway = gateway) /\ (zone = NoZone \/ item.zone = zone)}

\* "iz2_z{}_"
ZonePrefix(z) == <<"iz2", "_", "z">> \o Digits(z) \o <<"_">>

\* zone_details: the metrics with the zone's prefix; activesettings is taken out and, if it is an
\* object, its members put in; then only what has the prefix is kept, without it.
ZoneDetails(metrics, objects, z) ==
  LET prefix == ZonePrefix(z)
      own == {k \in metrics : IsPrefix(prefix, k)}
      settings == prefix \o ActiveSettings
      pulled == IF settings \in own /\ objects THEN Settings(z) ELSE {}
      stripped == {k \in (own \ {settings}) \union pulled : IsPrefix(prefix, k)}
  IN  {SubSeq(k, Len(prefix) + 1, Len(k)) : k \in stripped}

\* rejection
StatusOf(error) ==
  CASE error = "UnknownGateway" -> "404"
    [] error = "CommandTimeout" -> "504"
    [] error \in {"ResponseError", "CommandFailed"} -> "502"
============================================================================
