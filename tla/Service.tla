------------------------------ MODULE Service ------------------------------
(***************************************************************************)
(* What the gateway promises its HTTP clients and whoever runs it, with    *)
(* nothing of the client behind it: requests are let in only while the     *)
(* routes are enabled, each is answered once, and run() returns only when  *)
(* the server is drained of those it let in.                               *)
(***************************************************************************)
CONSTANT Requests   \* HTTP requests

VARIABLES
  enabled,   \* the routes are enabled
  server,    \* "running", "draining" (no new requests), "done"
  request,   \* each request: "new", "admitted", "gone" or its status code
  run        \* run(): "on", or how it ended: "ok", "ClientError", "panicked"

vars == <<enabled, server, request, run>>

Init ==
  /\ enabled = FALSE
  /\ server = "running"
  /\ request = [r \in Requests |-> "new"]
  /\ run = "on"

\* Only a run() that goes on switches the routes: what a panic leaves enabled stays so.
Switch ==
  /\ run = "on"
  /\ enabled' \in BOOLEAN
  /\ UNCHANGED <<server, request, run>>

Becomes(r, status) ==
  /\ request' = [request EXCEPT ![r] = status]
  /\ UNCHANGED <<enabled, server, run>>

Admit(r) ==
  /\ server = "running" /\ enabled
  /\ request[r] = "new"
  /\ Becomes(r, "admitted")

\* 503 is for a disabled gateway, and for nothing else.
Refuse(r) ==
  /\ server = "running" /\ ~enabled
  /\ request[r] = "new"
  /\ Becomes(r, "503")

\* No route: wrong path or wrong method.
Reject(r) ==
  /\ server = "running" /\ enabled
  /\ request[r] = "new"
  /\ \E status \in {"404", "500"} : Becomes(r, status)

\* Once let in, a request is answered whatever becomes of the routes, the client and run().
Reply(r) ==
  /\ request[r] = "admitted"
  /\ \E status \in {"200", "400", "404", "502", "504"} : Becomes(r, status)

HangUp(r) ==
  /\ request[r] = "admitted"
  /\ Becomes(r, "gone")

Shutdown ==
  /\ server = "running"
  /\ server' = "draining"
  /\ UNCHANGED <<enabled, request, run>>

Drained ==
  /\ server = "draining"
  /\ \A r \in Requests : request[r] # "admitted"
  /\ server' = "done"
  /\ UNCHANGED <<enabled, request, run>>

\* Nothing but a shutdown makes run() return.
Return ==
  /\ run = "on"
  /\ server = "done"
  /\ run' \in {"ok", "ClientError"}
  /\ UNCHANGED <<enabled, server, request>>

Panic ==
  /\ run = "on"
  /\ run' = "panicked"
  /\ UNCHANGED <<enabled, server, request>>

Next ==
  \/ Switch \/ Shutdown \/ Drained \/ Return \/ Panic
  \/ \E r \in Requests : Admit(r) \/ Refuse(r) \/ Reject(r) \/ Reply(r) \/ HangUp(r)

Spec == Init /\ [][Next]_vars
============================================================================
