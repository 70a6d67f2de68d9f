--------------------------- MODULE TidLoopProofs ---------------------------
(* The search of next_transaction_id is right for every size of the ring. *)
EXTENDS TidLoop, TLAPS

\* Ring arithmetic: distances tell identifiers apart, and a step along the ring adds one to the
\* distance until it comes back to where the search began.
LEMMA DistanceFacts ==
  ASSUME NEW l \in Tid, NEW t \in Tid
  PROVE  /\ Succ(t) \in Tid
         /\ Distance(l, t) \in 1 .. MaxTid
         /\ Distance(l, l) = MaxTid
         /\ \A u \in Tid : Distance(l, u) = Distance(l, t) => u = t
         /\ t # l => Distance(l, Succ(t)) = Distance(l, t) + 1
         /\ Succ(t) = Succ(l) <=> t = l
         /\ Distance(l, Succ(l)) = 1
  BY MaxTidAssumption DEF Tid, Succ, Distance

\* While the search runs, everything between last and the candidate is taken.
Passed ==
  pc = "scan" =>
    /\ first = Succ(last)
    /\ \A u \in Tid : Distance(last, u) < Distance(last, candidate) => u \in used

\* The candidate stays within 1 .. Tid::MAX and 0 is never issued, whatever Tid::MAX is.
THEOREM TypeCorrect == FairSpec => []TypeOK
<1>1. Init => TypeOK
  BY MaxTidAssumption DEF Init, TypeOK, Tid
<1>2. TypeOK /\ [Next]_vars => TypeOK'
  <2> SUFFICES ASSUME TypeOK, [Next]_vars PROVE TypeOK'
    OBVIOUS
  <2> USE DEF TypeOK
  <2>1. CASE ListChanges
    BY <2>1 DEF ListChanges
  <2>2. CASE Reset
    BY <2>2, MaxTidAssumption DEF Reset, Tid
  <2>3. CASE Begin
    BY <2>3, DistanceFacts DEF Begin
  <2>4. CASE Found
    BY <2>4 DEF Found
  <2>5. CASE TryNext
    BY <2>5, DistanceFacts DEF TryNext
  <2>6. CASE TooMany
    BY <2>6, DistanceFacts DEF TooMany
  <2>7. CASE UNCHANGED vars
    BY <2>7 DEF vars
  <2> QED
    BY <2>1, <2>2, <2>3, <2>4, <2>5, <2>6, <2>7 DEF Next, Scan
<1> QED
  BY <1>1, <1>2, PTL DEF FairSpec, Spec

\* The invariant of the loop.
THEOREM PassedInvariant == FairSpec => []Passed
<1>1. Init => Passed
  BY DEF Init, Passed
<1>2. TypeOK /\ Passed /\ [Next]_vars => Passed'
  <2> SUFFICES ASSUME TypeOK, Passed, [Next]_vars, pc' = "scan"
               PROVE  /\ first' = Succ(last')
                      /\ \A u \in Tid : Distance(last', u) < Distance(last', candidate') => u \in used'
    BY DEF Passed
  <2>1. CASE Begin
    <3>1. Distance(last', candidate') = 1
      BY <2>1, DistanceFacts DEF Begin, TypeOK
    <3> QED
      BY <2>1, <3>1, DistanceFacts DEF Begin, TypeOK
  <2>2. CASE TryNext
    <3>1. candidate # last
      BY <2>2, DistanceFacts DEF TryNext, Passed
    <3>2. Distance(last, candidate') = Distance(last, candidate) + 1
      BY <2>2, <3>1, DistanceFacts DEF TryNext, TypeOK
    <3>3. ASSUME NEW u \in Tid, Distance(last, u) < Distance(last, candidate')
          PROVE  u \in used
      <4>1. \/ Distance(last, u) < Distance(last, candidate)
            \/ Distance(last, u) = Distance(last, candidate)
        BY <3>2, <3>3, DistanceFacts DEF TypeOK
      <4> QED
        BY <2>2, <4>1, DistanceFacts DEF TryNext, TypeOK, Passed
    <3> QED
      BY <2>2, <3>3 DEF TryNext, Passed
  <2>3. CASE UNCHANGED vars
    BY <2>3 DEF vars, Passed
  <2> QED
    BY <2>1, <2>2, <2>3 DEF Next, Scan, ListChanges, Reset, Found, TooMany
<1> QED
  BY <1>1, <1>2, TypeCorrect, PTL DEF FairSpec, Spec

\* A search picks the nearest free identifier, and fails only when none is free: a full turn of
\* the ring has then looked at all of them, for every Tid::MAX and every set in use.
THEOREM NearestFree == FairSpec => PicksNearestFree
<1>1. ASSUME TypeOK, Passed, [Next]_vars, pc = "scan", pc' = "idle"
      PROVE  \/ IsNextTid(last', last, used)
             \/ NoneFree(used) /\ last' = last
  <2>1. CASE Found
    BY <1>1, <2>1 DEF Found, Passed, TypeOK, IsNextTid
  <2>2. CASE TooMany
    <3>1. candidate = last
      <4>1. Succ(candidate) = Succ(last)
        BY <1>1, <2>2 DEF TooMany, Passed
      <4> QED
        BY <1>1, <4>1, DistanceFacts DEF TypeOK
    <3>2. ASSUME NEW u \in Tid PROVE u \in used
      <4>1. Distance(last, u) < Distance(last, last) \/ u = last
        BY <1>1, DistanceFacts DEF TypeOK
      <4> QED
        BY <1>1, <2>2, <3>1, <4>1 DEF Passed, TooMany
    <3> QED
      BY <2>2, <3>2 DEF NoneFree, TooMany
  <2> QED
    BY <1>1, <2>1, <2>2 DEF Next, Scan, ListChanges, Reset, Begin, TryNext, vars
<1> QED
  BY <1>1, TypeCorrect, PassedInvariant, PTL DEF FairSpec, Spec, PicksNearestFree
============================================================================
