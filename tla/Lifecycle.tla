----------------------------- MODULE Lifecycle -----------------------------
(***************************************************************************)
(* What the owner of a Client sees of it, whatever goes over the wire:     *)
(* connect() runs until it fails or is told to stop, ready is up only      *)
(* while it runs, and logout() returns once the stop request was taken.    *)
(***************************************************************************)
EXTENDS Naturals

CONSTANTS
  Logouts,      \* calls of logout
  MaxConnects   \* bound: calls of connect()

VARIABLES
  conn,      \* connect(): "idle", "up", "stopping" (told to, not yet back), "crashed"
  outcome,   \* what the last connect() returned
  starts,    \* calls of connect() so far
  ready,     \* Client::ready
  stop,      \* a stop request is pending
  caller     \* each logout: "idle", "asked", "ok", "gaveUp"

vars == <<conn, outcome, starts, ready, stop, caller>>

Init ==
  /\ conn = "idle"
  /\ outcome = "none"
  /\ starts = 0
  /\ ready = FALSE
  /\ stop = FALSE
  /\ caller = [l \in Logouts |-> "idle"]

Start ==
  /\ conn = "idle"
  /\ starts < MaxConnects
  /\ conn' = "up"
  /\ starts' = starts + 1
  /\ UNCHANGED <<outcome, ready, stop, caller>>

BecomeReady ==
  /\ conn = "up"
  /\ ready' = TRUE
  /\ UNCHANGED <<conn, outcome, starts, stop, caller>>

BecomeUnready ==
  /\ conn = "up"
  /\ ready' = FALSE
  /\ UNCHANGED <<conn, outcome, starts, stop, caller>>

MutantFailStaysReady ==
  /\ conn = "up"
  /\ conn' = "idle"
  /\ outcome' = "err"
  /\ UNCHANGED <<starts, ready, stop, caller>>

\* connect() returns an error; a pending stop request stays pending.
Fail ==
  /\ conn = "up"
  /\ conn' = "idle"
  /\ outcome' = "err"
  /\ ready' = FALSE
  /\ UNCHANGED <<starts, stop, caller>>

\* The task dies; what it published stays.
Crash ==
  /\ conn = "up"
  /\ conn' = "crashed"
  /\ UNCHANGED <<outcome, starts, ready, stop, caller>>

\* A stop request is asked for; the caller waits for it to be taken, or gives up.
AskStop(l) ==
  /\ caller[l] = "idle"
  /\ stop' = TRUE
  /\ caller' = [caller EXCEPT ![l] = "asked"]
  /\ UNCHANGED <<conn, outcome, starts, ready>>

TakeStop ==
  /\ conn = "up"
  /\ stop
  /\ stop' = FALSE
  /\ conn' = "stopping"
  /\ UNCHANGED <<outcome, starts, ready, caller>>

StopAnswered(l) ==
  /\ caller[l] = "asked"
  /\ ~stop
  /\ caller' = [caller EXCEPT ![l] = "ok"]
  /\ UNCHANGED <<conn, outcome, starts, ready, stop>>

GiveUp(l) ==
  /\ caller[l] \in {"idle", "asked"}
  /\ caller' = [caller EXCEPT ![l] = "gaveUp"]
  /\ UNCHANGED <<conn, outcome, starts, ready, stop>>

Stopped ==
  /\ conn = "stopping"
  /\ conn' = "idle"
  /\ outcome' = "ok"
  /\ ready' = FALSE
  /\ UNCHANGED <<starts, stop, caller>>

Next ==
  \/ Start \/ BecomeReady \/ BecomeUnready \/ Fail \/ Crash \/ TakeStop \/ Stopped
  \/ \E l \in Logouts : AskStop(l) \/ StopAnswered(l) \/ GiveUp(l)

Spec == Init /\ [][Next]_vars
============================================================================
