------------------------------ MODULE TidLoop ------------------------------
(***************************************************************************)
(* The loop of Client::next_transaction_id, one iteration a step.  The     *)
(* lock on the transaction list is held from Begin to the loop's end, so   *)
(* the set of identifiers in use only changes between two searches.        *)
(***************************************************************************)
EXTENDS Tids

VARIABLES
  last,        \* transactions.last
  used,        \* the keys of transactions.list
  first,       \* first_candidate_tid
  candidate,   \* candidate_tid
  pc           \* "idle" (lock free) or "scan" (in the loop)

vars == <<last, used, first, candidate, pc>>

Init ==
  /\ last = MaxTid
  /\ used = {}
  /\ first = 1
  /\ candidate = 1
  /\ pc = "idle"

\* Senders insert and the message handler removes entries while the lock is free.
ListChanges ==
  /\ pc = "idle"
  /\ \E t \in Tid : used' \in {used \union {t}, used \ {t}}
  /\ UNCHANGED <<last, first, candidate, pc>>

\* reset_transactions: the list is emptied and the numbering starts over.
Reset ==
  /\ pc = "idle"
  /\ used' = {}
  /\ last' = MaxTid
  /\ UNCHANGED <<first, candidate, pc>>

MutantBeginPastMax ==
  /\ pc = "idle"
  /\ first' = (IF last <= MaxTid THEN last + 1 ELSE 1)
  /\ candidate' = first'
  /\ pc' = "scan"
  /\ UNCHANGED <<last, used>>

Begin ==
  /\ pc = "idle"
  /\ first' = Succ(last)
  /\ candidate' = first'
  /\ pc' = "scan"
  /\ UNCHANGED <<last, used>>

Found ==
  /\ pc = "scan"
  /\ candidate \notin used
  /\ last' = candidate
  /\ pc' = "idle"
  /\ UNCHANGED <<used, first, candidate>>

MutantTryNextNoStop ==
  /\ pc = "scan"
  /\ candidate \in used
  /\ candidate' = Succ(candidate)
  /\ UNCHANGED <<last, used, first, pc>>

TryNext ==
  /\ pc = "scan"
  /\ candidate \in used
  /\ candidate' = Succ(candidate)
  /\ candidate' # first
  /\ UNCHANGED <<last, used, first, pc>>

MutantTooManyEarly ==
  /\ pc = "scan"
  /\ candidate \in used
  /\ candidate = MaxTid
  /\ candidate' = 1
  /\ pc' = "idle"
  /\ UNCHANGED <<last, used, first>>

\* Back at the first candidate: Err(TooManyTransactions), last stays as it was.
TooMany ==
  /\ pc = "scan"
  /\ candidate \in used
  /\ candidate' = Succ(candidate)
  /\ candidate' = first
  /\ pc' = "idle"
  /\ UNCHANGED <<last, used, first>>

Scan == Found \/ TryNext \/ TooMany

Next == ListChanges \/ Reset \/ Begin \/ Scan

Spec == Init /\ [][Next]_vars

\* The loop contains no await: once entered it runs on.
FairSpec == Spec /\ WF_vars(Scan)
----------------------------------------------------------------------------
\* The candidate never leaves the range of a u8 (last + 1 cannot overflow) and 0 is never issued.
TypeOK ==
  /\ last \in Tid
  /\ used \in SUBSET Tid
  /\ first \in Tid
  /\ candidate \in Tid
  /\ pc \in {"idle", "scan"}

\* A search ends with the nearest free identifier after the last one issued, or with the error
\* and then no identifier at all is free: wrapping past Tid::MAX skips and repeats nothing.
PicksNearestFree ==
  [][pc = "scan" /\ pc' = "idle" =>
       \/ IsNextTid(last', last, used)
       \/ NoneFree(used) /\ last' = last]_vars

\* Every search ends, also when all identifiers are taken.
SearchEnds == pc = "scan" ~> pc = "idle"
============================================================================
