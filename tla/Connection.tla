----------------------------- MODULE Connection -----------------------------
(***************************************************************************)
(* One task calling connect() again and again, as the Client's message     *)
(* loop and the Session's HTTP requests both must go through it: the way   *)
(* to the loop is by a connection alone, and connect() returns Ok only     *)
(* from a logout that a stop request began.                                *)
(***************************************************************************)

VARIABLES
  stage,     \* "idle", "connecting", "running", "closing" (to stop), "dead" (panicked)
  outcome    \* what the last connect() returned: "none", "ok", "err"

vars == <<stage, outcome>>

Init ==
  /\ stage = "idle"
  /\ outcome = "none"

Moves(from, to) ==
  /\ stage = from
  /\ stage' = to
  /\ UNCHANGED outcome

Begin == Moves("idle", "connecting")

Establish == Moves("connecting", "running")

\* A renewal logs out first, and connects again.
Renew == Moves("running", "connecting")

Stop == Moves("running", "closing")

Die == Moves("running", "dead")

Finish ==
  /\ stage = "closing"
  /\ stage' = "idle"
  /\ outcome' = "ok"

Fail ==
  /\ stage \in {"connecting", "running", "closing"}
  /\ stage' = "idle"
  /\ outcome' = "err"

Next == Begin \/ Establish \/ Renew \/ Stop \/ Die \/ Finish \/ Fail

Spec == Init /\ [][Next]_vars
============================================================================
