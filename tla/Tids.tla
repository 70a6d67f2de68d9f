------------------------------- MODULE Tids -------------------------------
(***************************************************************************)
(* Transaction identifiers of the Symphony protocol.  The client numbers   *)
(* its requests 1..Tid::MAX (255, a u8; 0 is never used) and looks for the *)
(* next free number in ring order, starting after the last one it issued.  *)
(***************************************************************************)
EXTENDS Integers

CONSTANT MaxTid    \* Tid::MAX

ASSUME MaxTidAssumption == MaxTid \in Nat \ {0}

Tid == 1 .. MaxTid

\* The identifier after t in the ring.
Succ(t) == IF t < MaxTid THEN t + 1 ELSE 1

\* How many ring steps lead from last to t: 1 for its successor, MaxTid for last itself.
Distance(last, t) == IF t > last THEN t - last ELSE t - last + MaxTid

\* What next_transaction_id picks: the free identifier nearest after last.
IsNextTid(t, last, used) ==
  /\ t \in Tid \ used
  /\ \A u \in Tid : Distance(last, u) < Distance(last, t) => u \in used

\* The case it answers with ClientError::TooManyTransactions.
NoneFree(used) == Tid \subseteq used
===========================================================================
