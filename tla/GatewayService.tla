-------------------------- MODULE GatewayService --------------------------
(***************************************************************************)
(* The Gateway implements the Service that its HTTP clients see.           *)
(***************************************************************************)
EXTENDS Gateway

\* A request is let in from check_ready to its status.
Seen(place) == IF place \in {"inside", "reading"} THEN "admitted" ELSE place

Request == [r \in Requests |-> Seen(request[r])]

\* run() goes on through its backoff and while it logs out.
Run == IF loop \in {"select", "backoff", "enabling", "logout"} THEN "on" ELSE loop

S == INSTANCE Service WITH enabled <- serving, request <- Request, run <- Run

\* Every step of the Gateway is a step of the Service or none: requests are let in only while the
\* routes are enabled and then get a status of a handler, run() switches the routes only while it
\* goes on, and it returns, with Ok or the error of its logout, only once the server is drained.
ImplementsService == S!Spec
============================================================================
