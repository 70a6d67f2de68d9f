--------------------------- MODULE MCGatewayReads ---------------------------
(* Requests for a gateway that has one zone, ten, or is gone, by the login.  *)
EXTENDS GatewayReads

Named(zones) == {[z |-> TRUE, index |-> z, text |-> TRUE] : z \in zones}

\* A key without z, a zone whose name is no string, a zone that is named but not counted.
Odd == {[z |-> FALSE, index |-> 1, text |-> TRUE], [z |-> TRUE, index |-> 1, text |-> FALSE]}

OneZone == <<[id |-> "g1", maxZones |-> 1, names |-> Named({1, 2})]>>
TenZones == <<[id |-> "g1", maxZones |-> 10, names |-> Named({1, 10}) \union Odd]>>
Elsewhere == <<[id |-> "g2", maxZones |-> 0, names |-> {}]>>
BadKey == <<[id |-> "g1", maxZones |-> 1, names |-> Named({1, 256})]>>

MCLogins == {OneZone, TenZones, Elsewhere, BadKey}

Target(route, gateway, zone) == [route |-> route, gateway |-> gateway, zone |-> zone]

MCTargets ==
  {Target("details", "g1", 1), Target("details", "g1", 10), Target("read", "g1", NoZone),
   Target("gateways", AnyGateway, NoZone), Target("zones", "g1", 10),
   Target("zones", AnyGateway, 1)}

Symmetry == Permutations(Requests)
============================================================================
