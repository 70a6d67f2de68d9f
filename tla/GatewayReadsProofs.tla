------------------------- MODULE GatewayReadsProofs -------------------------
(* What the gateway serves is never too old, errors are told at once, and the *)
(* zones of a login show in time: for every lifetime, deadline and set of     *)
(* requests, gateways and login answers.                                      *)
EXTENDS GatewayReads, SequenceTheorems, TLAPS

LEMMA Times == Lifetime \in Nat \ {0} /\ ReadTime \in Nat /\ MaxTime \in Nat
  BY ReadsAssumption

LEMMA TargetFacts ==
  ASSUME NEW t \in Targets, t.route \in {"read", "details"}
  PROVE  t.gateway \in Ids
  BY ReadsAssumption

\* The parts of an entry.
LEMMA EntryFacts ==
  ASSUME TypeOK, NEW g \in Ids
  PROVE  /\ cache[g].held \in BOOLEAN /\ cache[g].at \in Nat /\ cache[g].sampled \in Nat
         /\ cache[g].asked \in Nat /\ cache[g].maxZones \in Nat
  BY DEF TypeOK, Entry

\* What ending a request does to the rest.
LEMMA EndEffect ==
  ASSUME TypeOK, NEW r \in Requests, NEW status \in {"none", "200", "400", "404", "502", "504"}, NEW body,
         NEW age \in Nat, age < Lifetime + ReadTime, BoundedAge, End(r, status, body, age)
  PROVE  /\ stage' \in [Requests -> Stages]
         /\ since' \in [Requests -> Nat] /\ maxZones' \in [Requests -> Nat]
         /\ reply' = [q \in Requests |-> reply'[q]] /\ \A q \in Requests : ReplyOK(q)'
         /\ BoundedAge'
         /\ stage'[r] = "done" /\ reply'[r].status = status
         /\ \A q \in Requests \ {r} : /\ stage'[q] = stage[q] /\ reply'[q] = reply[q]
                                      /\ since'[q] = since[q] /\ maxZones'[q] = maxZones[q]
<1>1. reply' = [reply EXCEPT ![r] = [status |-> status, body |-> body, age |-> age]]
  BY DEF End
<1>2. reply = [q \in Requests |-> reply[q]]
  BY DEF TypeOK
<1>3. reply'[r] = [status |-> status, body |-> body, age |-> age]
  BY <1>1, <1>2
<1>4. \A q \in Requests \ {r} : reply'[q] = reply[q]
  BY <1>1, <1>2
<1>5. reply' = [q \in Requests |-> reply'[q]]
  BY <1>1, <1>2
<1>6. \A q \in Requests : ReplyOK(q)'
  <2>1. ReplyOK(r)'
    BY <1>3 DEF ReplyOK
  <2>2. ASSUME NEW q \in Requests \ {r} PROVE ReplyOK(q)'
    BY <1>4 DEF ReplyOK, TypeOK
  <2> QED
    BY <2>1, <2>2
<1>7. BoundedAge'
  BY <1>3, <1>4, Times DEF BoundedAge
<1>8. /\ stage' \in [Requests -> Stages]
      /\ since' \in [Requests -> Nat] /\ maxZones' \in [Requests -> Nat]
      /\ stage'[r] = "done"
      /\ \A q \in Requests \ {r} : /\ stage'[q] = stage[q]
                                   /\ since'[q] = since[q] /\ maxZones'[q] = maxZones[q]
  BY DEF End, TypeOK, Stages
<1> QED
  BY <1>3, <1>4, <1>5, <1>6, <1>7, <1>8

\* A request that ends, with the cache, the login and the clock as they are.
LEMMA EndStep ==
  ASSUME IInv, NEW r \in Requests, NEW t, NEW status \in {"none", "200", "400", "404", "502", "504"}, NEW body,
         NEW age \in Nat, age < Lifetime + ReadTime, End(r, status, body, age),
         \/ target' = target /\ stage[r] # "new"
         \/ t \in Targets /\ target' = [target EXCEPT ![r] = t],
         UNCHANGED <<now, clientVars, cache>>,
         \/ UNCHANGED heard /\ (heard[r] => status # "504")
         \/ heard' = [heard EXCEPT ![r] = TRUE] /\ status # "504"
  PROVE  IInv'
<1> USE DEF IInv
<1>1. TypeOK /\ BoundedAge /\ TimeoutMeansSilence /\ ReadTimes /\ EntryTimes /\ CountsCurrent
  OBVIOUS
<1>2. /\ target' \in [Requests -> Targets \union {NoTarget}] /\ target'[r] \in Targets
      /\ \A q \in Requests \ {r} : target'[q] = target[q]
  BY <1>1 DEF TypeOK, ReadTimes
<1>3. TypeOK' /\ BoundedAge'
  BY <1>1, <1>2, EndEffect DEF TypeOK, clientVars
<1>4. TimeoutMeansSilence'
  <2>1. stage'[r] = "done" /\ reply'[r].status = status
    BY <1>1, EndEffect
  <2>2. ASSUME NEW q \in Requests \ {r}
        PROVE  heard'[q] = heard[q] /\ stage'[q] = stage[q] /\ reply'[q] = reply[q]
    BY <1>1, EndEffect DEF TypeOK
  <2>3. heard'[r] => status # "504"
    BY <1>1 DEF TypeOK
  <2> QED
    BY <1>1, <2>1, <2>2, <2>3 DEF TimeoutMeansSilence
<1>5. ReadTimes'
  BY <1>1, <1>2, EndEffect DEF ReadTimes, Reading
<1>6. EntryTimes'
  BY <1>1 DEF EntryTimes
<1>7. CountsCurrent'
  BY <1>1, <1>2, EndEffect DEF CountsCurrent, Reading, clientVars
<1> QED
  BY <1>3, <1>4, <1>5, <1>6, <1>7

\* The answer sets a new entry, which is as old as its read.
LEMMA AnsweredStep ==
  ASSUME IInv, NEW r \in Requests, NEW a \in Arrivals, NEW sampled \in since[r] .. now,
         NEW objects \in BOOLEAN, Answered(r, a, sampled, objects)
  PROVE  IInv'
<1>1. TypeOK /\ BoundedAge /\ TimeoutMeansSilence /\ ReadTimes /\ EntryTimes /\ CountsCurrent
  BY DEF IInv
<1>2. /\ since[r] \in Nat /\ now \in Nat /\ sampled \in Nat /\ since[r] <= sampled /\ sampled <= now
      /\ now <= since[r] + ReadTime /\ Reading(r)
      /\ target[r] \in Targets /\ target[r].route \in {"read", "details"}
  BY <1>1 DEF Answered, TypeOK, ReadTimes, Reading
<1> DEFINE g == target[r].gateway
           e == [held |-> TRUE, at |-> now, sampled |-> sampled, asked |-> since[r],
                 maxZones |-> maxZones[r], objects |-> objects]
<1>3. g \in Ids
  BY <1>2, TargetFacts
<1>4. e \in Entry
  BY <1>1, <1>2 DEF TypeOK, Entry
<1> HIDE DEF g
<1>5. /\ cache' \in [Ids -> Entry] /\ cache'[g] = e
      /\ \A i \in Ids \ {g} : cache'[i] = cache[i]
  BY <1>1, <1>3, <1>4 DEF Answered, TypeOK, g
<1>6. /\ now - sampled \in Nat /\ now - sampled < Lifetime + ReadTime
      /\ End(r, "200", ReadBody(target[r], maxZones[r], objects), now - sampled)
      /\ UNCHANGED <<now, clientVars, target>> /\ heard' = [heard EXCEPT ![r] = TRUE]
  BY <1>2, Times DEF Answered
<1>7. TypeOK' /\ BoundedAge'
  BY <1>1, <1>5, <1>6, EndEffect DEF TypeOK, clientVars
<1>8. TimeoutMeansSilence'
  <2>1. stage'[r] = "done" /\ reply'[r].status = "200"
    BY <1>1, <1>6, EndEffect
  <2>2. ASSUME NEW q \in Requests \ {r}
        PROVE  heard'[q] = heard[q] /\ stage'[q] = stage[q] /\ reply'[q] = reply[q]
    BY <1>1, <1>6, EndEffect DEF TypeOK
  <2> QED
    BY <1>1, <2>1, <2>2 DEF TimeoutMeansSilence
<1>9. ReadTimes'
  BY <1>1, <1>2, <1>6, EndEffect DEF ReadTimes, Reading
<1>10. EntryTimes'
  BY <1>1, <1>2, <1>5, <1>6, EntryFacts, Times DEF EntryTimes
<1>11. CountsCurrent'
  <2>1. renewed < since[r] => g \in Known(login) /\ maxZones[r] = ZoneCount(login, g)
    BY <1>1, <1>2 DEF CountsCurrent, g
  <2>2. \A q \in Requests : Reading(q)' =>
          Reading(q) /\ since'[q] = since[q] /\ maxZones'[q] = maxZones[q]
    BY <1>1, <1>6, EndEffect DEF Reading
  <2> QED
    BY <1>1, <1>5, <1>6, <2>1, <2>2 DEF CountsCurrent, clientVars
<1> QED
  BY <1>7, <1>8, <1>9, <1>10, <1>11 DEF IInv

\* A request goes on without being told anything.
Advances(q) ==
  \/ stage[q] = "waiting" /\ stage'[q] = "passed"
  \/ stage[q] = "asking" /\ stage'[q] = "sent"
  \/ stage[q] = "sent" /\ stage'[q] \in {"reading", "missed"}
  \/ stage[q] = "missed" /\ stage'[q] = "lost"
  \/ stage[q] = "reading" /\ stage'[q] = "lost"

\* The steps after which nobody is told anything.
LEMMA WaitStep ==
  ASSUME IInv, \/ \E r \in Requests : (\E t \in Targets : Ask(r, t)) \/ BuildReadList(r)
               \/ \E r \in Requests : PassReady(r) \/ SendRead(r) \/ Insert(r)
               \/ \E r \in Requests, a \in Arrivals : Unreadable(r, a) \/ Overtaken(r, a)
               \/ SessionEnds
               \/ \E answer \in Logins : LoggedIn(answer)
               \/ Tick
               \/ UNCHANGED vars
  PROVE  IInv'
<1>1. TypeOK /\ BoundedAge /\ TimeoutMeansSilence /\ ReadTimes /\ EntryTimes /\ CountsCurrent
  BY DEF IInv
<1> USE DEF clientVars, requestVars
<1>2. ASSUME NEW r \in Requests, NEW t \in Targets, Ask(r, t)
      PROVE  IInv'
  <2>1. /\ stage[r] = "new" /\ UNCHANGED <<now, clientVars, maxZones, heard, reply>>
        /\ stage' = [stage EXCEPT ![r] = "waiting"] /\ since' = [since EXCEPT ![r] = now]
        /\ target' = [target EXCEPT ![r] = t]
    BY <1>2 DEF Ask
  <2>2. cache' \in [Ids -> Entry] /\ \A g \in Ids : cache'[g].held => cache'[g] = cache[g]
    <3>1. NoEntry \in Entry /\ ~NoEntry.held
      BY DEF NoEntry, Entry
    <3> QED
      BY <1>1, <1>2, <3>1 DEF Ask, TypeOK
  <2>3. TypeOK'
    BY <1>1, <2>1, <2>2 DEF TypeOK, ReplyOK, Stages, Brief
  <2>4. ReadTimes' /\ TimeoutMeansSilence' /\ BoundedAge'
    BY <1>1, <2>1, Times DEF ReadTimes, Reading, TypeOK, TimeoutMeansSilence, BoundedAge
  <2>5. EntryTimes'
    BY <1>1, <2>1, <2>2 DEF EntryTimes
  <2>6. CountsCurrent'
    BY <1>1, <2>1, <2>2 DEF CountsCurrent, Reading, TypeOK
  <2> QED
    BY <2>3, <2>4, <2>5, <2>6 DEF IInv
<1>3. ASSUME NEW r \in Requests, BuildReadList(r)
      PROVE  IInv'
  <2>1. /\ stage[r] = "passed" /\ UNCHANGED <<now, clientVars, cache, target, heard, reply>>
        /\ stage' = [stage EXCEPT ![r] = "asking"] /\ since' = [since EXCEPT ![r] = now]
        /\ maxZones' = [maxZones EXCEPT ![r] = ZoneCount(login, target[r].gateway)]
        /\ target[r].route \in {"read", "details"} /\ target[r].gateway \in Known(login)
    BY <1>3 DEF BuildReadList
  <2>2. ZoneCount(login, target[r].gateway) \in Nat
    <3>1. login \in Logins
      BY <1>1, <2>1 DEF TypeOK, Known
    <3> QED
      BY <2>1, <3>1, ReadsAssumption
  <2>3. TypeOK'
    BY <1>1, <2>1, <2>2 DEF TypeOK, ReplyOK, Stages, Brief
  <2>4. ReadTimes' /\ TimeoutMeansSilence' /\ BoundedAge'
    BY <1>1, <2>1, Times DEF ReadTimes, Reading, TypeOK, TimeoutMeansSilence, BoundedAge
  <2>5. EntryTimes' /\ CountsCurrent'
    BY <1>1, <2>1 DEF EntryTimes, CountsCurrent, Reading, TypeOK
  <2> QED
    BY <2>3, <2>4, <2>5 DEF IInv
<1>4. ASSUME NEW r \in Requests, NEW a \in Arrivals, Unreadable(r, a)
      PROVE  IInv'
  <2>1. ~a.meta
    <3>1. PICK m \in Message : a = [result |-> ReadResult(m), meta |-> IsMeta(m)]
      BY DEF Arrivals
    <3>2. ReadResult(m) = "nothing"
      BY <1>4, <3>1 DEF Unreadable
    <3>3. IsMeta(m) => ReadResult(m) \in {"ok", "ResponseError", "CommandFailed"}
      BY DEF ReadResult, Message, IsResponse
    <3> QED
      BY <3>1, <3>2, <3>3
  <2>2. \A q \in Requests : heard'[q] = heard[q] /\ heard' \in [Requests -> BOOLEAN]
    BY <1>1, <1>4, <2>1 DEF Unreadable, TypeOK
  <2>3. UNCHANGED <<now, clientVars, cache, stage, target, since, maxZones, reply>>
    BY <1>4 DEF Unreadable
  <2> QED
    BY <1>1, <2>2, <2>3 DEF IInv, TypeOK, ReplyOK, BoundedAge, TimeoutMeansSilence, ReadTimes,
                            EntryTimes, CountsCurrent, Reading
<1>5. ASSUME UNCHANGED <<now, login, renewed, cache, target, since, maxZones, heard, reply>>,
             ready' \in BOOLEAN, stage' \in [Requests -> Stages],
             \A q \in Requests : stage'[q] = stage[q] \/ Advances(q)
      PROVE  IInv'
  <2>1. ASSUME NEW q \in Requests
        PROVE  /\ stage'[q] \in {"new", "done"} <=> stage[q] \in {"new", "done"}
               /\ stage[q] = "done" => stage'[q] = "done"
               /\ stage[q] = "new" <=> stage'[q] = "new"
               /\ Reading(q)' => Reading(q)
    BY <1>5 DEF Advances, Reading
  <2>2. TypeOK' /\ BoundedAge' /\ EntryTimes'
    BY <1>1, <1>5 DEF TypeOK, ReplyOK, BoundedAge, EntryTimes
  <2>3. TimeoutMeansSilence' /\ ReadTimes' /\ CountsCurrent'
    BY <1>1, <1>5, <2>1 DEF TimeoutMeansSilence, ReadTimes, CountsCurrent
  <2> QED
    BY <2>2, <2>3 DEF IInv
<1>9. ASSUME \/ \E r \in Requests : PassReady(r) \/ SendRead(r) \/ Insert(r)
             \/ \E r \in Requests, a \in Arrivals : Overtaken(r, a)
             \/ SessionEnds
      PROVE  IInv'
  <2>1. /\ UNCHANGED <<now, login, renewed, cache, target, since, maxZones, heard, reply>>
        /\ ready' \in BOOLEAN
    BY <1>1, <1>9 DEF PassReady, SendRead, Insert, Overtaken, SessionEnds, TypeOK
  <2>2. /\ stage' \in [Requests -> Stages]
        /\ \A q \in Requests : stage'[q] = stage[q] \/ Advances(q)
    <3>1. CASE SessionEnds
      BY <1>1, <3>1 DEF SessionEnds, TypeOK, Stages, Brief, Advances
    <3>2. CASE \/ \E r \in Requests : PassReady(r) \/ SendRead(r) \/ Insert(r)
               \/ \E r \in Requests, a \in Arrivals : Overtaken(r, a)
      BY <1>1, <3>2 DEF PassReady, SendRead, Insert, Overtaken, TypeOK, Stages, Brief, Advances
    <3> QED
      BY <1>9, <3>1, <3>2
  <2> QED
    BY <1>5, <2>1, <2>2
<1>6. ASSUME NEW answer \in Logins, LoggedIn(answer)
      PROVE  IInv'
  <2>1. /\ UNCHANGED <<now, cache, requestVars>>
        /\ ready' = TRUE /\ login' = answer /\ renewed' = now
    BY <1>6 DEF LoggedIn
  <2>2. CountsCurrent'
    <3>1. ASSUME NEW q \in Requests, Reading(q) PROVE ~(now < since[q])
      <4>1. now \in Nat /\ since[q] \in Nat
        BY <1>1 DEF TypeOK
      <4>2. since[q] <= now
        BY <1>1, <3>1 DEF ReadTimes, Reading
      <4> QED
        BY <4>1, <4>2
    <3>2. ASSUME NEW g \in Ids, cache[g].held PROVE ~(now < cache[g].asked)
      <4>1. /\ now \in Nat /\ cache[g].at \in Nat /\ cache[g].sampled \in Nat
            /\ cache[g].asked \in Nat
        BY <1>1, EntryFacts DEF TypeOK
      <4>2. cache[g].asked <= cache[g].sampled /\ cache[g].sampled <= cache[g].at /\ cache[g].at <= now
        BY <1>1, <3>2 DEF EntryTimes
      <4> QED
        BY <4>1, <4>2
    <3> QED
      BY <1>1, <2>1, <3>1, <3>2 DEF CountsCurrent, Reading, TypeOK
  <2> QED
    BY <1>1, <2>1, <2>2 DEF IInv, TypeOK, ReplyOK, BoundedAge, TimeoutMeansSilence, ReadTimes,
                            EntryTimes, Reading
<1>7. CASE Tick
  <2>1. /\ now' = now + 1 /\ UNCHANGED <<clientVars, cache, requestVars>>
        /\ \A q \in Requests : stage[q] \notin {"new", "done"} => now - since[q] < ReadTime
    BY <1>1, <1>7 DEF Tick, TypeOK, Stages
  <2>2. ReadTimes'
    BY <1>1, <2>1, Times DEF ReadTimes, Reading, TypeOK
  <2>3. EntryTimes'
    BY <1>1, <2>1, EntryFacts DEF EntryTimes, TypeOK
  <2> QED
    BY <1>1, <2>1, <2>2, <2>3 DEF IInv, TypeOK, ReplyOK, BoundedAge, TimeoutMeansSilence,
                                  CountsCurrent, Reading
<1>8. CASE UNCHANGED vars
  BY <1>1, <1>8 DEF vars, IInv, TypeOK, ReplyOK, BoundedAge, TimeoutMeansSilence, ReadTimes,
                    EntryTimes, CountsCurrent, Reading
<1> QED
  BY <1>2, <1>3, <1>4, <1>6, <1>7, <1>8, <1>9

LEMMA Initially == Init => IInv
<1> SUFFICES ASSUME Init PROVE IInv
  OBVIOUS
<1>1. TypeOK
  BY DEF Init, TypeOK, Stages, Entry, NoEntry, NoReply, NoTarget, ReplyOK
<1>2. BoundedAge
  BY Times DEF Init, BoundedAge, NoReply
<1> QED
  BY <1>1, <1>2 DEF Init, IInv, TimeoutMeansSilence, ReadTimes, EntryTimes, CountsCurrent, Reading,
                    NoEntry

LEMMA Preserved == IInv /\ [Next]_vars => IInv'
<1> SUFFICES ASSUME IInv, [Next]_vars PROVE IInv'
  OBVIOUS
<1>1. TypeOK /\ TimeoutMeansSilence /\ EntryTimes
  BY DEF IInv
<1>2. 0 \in Nat /\ 0 < Lifetime + ReadTime
  BY Times
<1>3. ASSUME NEW r \in Requests, NEW t \in Targets, CacheHit(r, t)
      PROVE  IInv'
  <2> DEFINE e == cache[t.gateway]
  <2>1. t.gateway \in Ids
    BY <1>3, TargetFacts DEF CacheHit
  <2>2. /\ now \in Nat /\ e.at \in Nat /\ e.sampled \in Nat /\ e.asked \in Nat
        /\ e.asked <= e.sampled /\ e.sampled <= e.at /\ e.at <= now /\ e.at <= e.asked + ReadTime
        /\ now - e.at < Lifetime
    BY <1>1, <1>3, <2>1, EntryFacts DEF CacheHit, Fresh, EntryTimes, TypeOK
  <2>3. now - e.sampled \in Nat /\ now - e.sampled < Lifetime + ReadTime
    BY <2>2, Times
  <2>4. ~heard[r]
    BY <1>1, <1>3 DEF CacheHit, TimeoutMeansSilence
  <2> QED
    BY <1>3, <2>3, <2>4, EndStep DEF CacheHit
<1>4. ASSUME NEW r \in Requests,
             \/ WaitTimeout(r) \/ ListGateways(r) \/ ListZones(r) \/ UnknownGateway(r)
             \/ Failed(r) \/ ReadTimeout(r) \/ HangUp(r)
      PROVE  IInv'
  <2>1. stage[r] \notin {"new", "done"} /\ UNCHANGED <<now, clientVars, cache, target, heard>>
    BY <1>4 DEF WaitTimeout, ListGateways, ListZones, UnknownGateway, Failed, ReadTimeout, HangUp
  <2>2. ~heard[r]
    BY <1>1, <2>1 DEF TimeoutMeansSilence
  <2>3. \E status \in {"none", "200", "400", "404", "502", "504"} : \E body : End(r, status, body, 0)
    BY <1>4 DEF WaitTimeout, ListGateways, ListZones, UnknownGateway, Failed, ReadTimeout, HangUp,
                   StatusOf
  <2> QED
    BY <1>2, <2>1, <2>2, <2>3, EndStep
<1>5. ASSUME NEW r \in Requests, NEW a \in Arrivals, Refused(r, a)
      PROVE  IInv'
  <2>1. StatusOf(a.result) = "502"
    BY <1>5 DEF Refused, StatusOf
  <2> QED
    BY <1>2, <1>5, <2>1, EndStep DEF Refused
<1>6. ASSUME NEW r \in Requests, NEW a \in Arrivals, NEW sampled \in since[r] .. now,
             NEW objects \in BOOLEAN, Answered(r, a, sampled, objects)
      PROVE  IInv'
  BY <1>6, AnsweredStep
<1> QED
  BY <1>3, <1>4, <1>5, <1>6, WaitStep DEF Next, Begin, Handle, Receive

\* The inductive invariant holds in every reachable state of every instance.
THEOREM Invariant == Spec => []IInv
  BY Initially, Preserved, PTL DEF Spec

\* Nothing served is as old as the lifetime of a cache entry and the deadline of a read together.
THEOREM AgeIsBounded == Spec => []BoundedAge
<1>1. IInv => BoundedAge
  BY DEF IInv
<1> QED
  BY Invariant, <1>1, PTL

\* A request runs into its timeout only if nothing was heard of it.
THEOREM OnlySilenceTimesOut == Spec => []TimeoutMeansSilence
<1>1. IInv => TimeoutMeansSilence
  BY DEF IInv
<1> QED
  BY Invariant, <1>1, PTL

\* A late answer sets the cached readings back by no more than the deadline of a read.
THEOREM SetbackIsBounded == Spec => BoundedSetback
<1> DEFINE Ordered == \A g \in Ids : cache[g].held /\ cache'[g].held =>
                        cache[g].sampled <= cache'[g].sampled + ReadTime
<1>1. ASSUME IInv, [Next]_vars PROVE Ordered
  <2>1. TypeOK /\ ReadTimes /\ EntryTimes
    BY <1>1 DEF IInv
  <2>2. ASSUME NEW r \in Requests, NEW a \in Arrivals, NEW sampled \in since[r] .. now,
               NEW objects \in BOOLEAN, Answered(r, a, sampled, objects),
               NEW g \in Ids, cache[g].held, cache'[g].held
        PROVE  cache[g].sampled <= cache'[g].sampled + ReadTime
    <3>1. /\ now \in Nat /\ cache[g].at \in Nat /\ cache[g].sampled \in Nat /\ since[r] \in Nat
          /\ sampled \in Nat /\ since[r] <= sampled /\ ReadTime \in Nat
      BY <2>1, EntryFacts, Times DEF TypeOK
    <3>2. cache[g].sampled <= cache[g].at /\ cache[g].at <= now /\ now <= since[r] + ReadTime
      BY <2>1, <2>2 DEF EntryTimes, ReadTimes, Answered
    <3>3. cache'[g].sampled = cache[g].sampled \/ cache'[g].sampled = sampled
      BY <2>1, <2>2 DEF Answered, TypeOK
    <3> QED
      BY <3>1, <3>2, <3>3
  <2>3. ASSUME \A g \in Ids : cache'[g].held => cache'[g] = cache[g]
        PROVE  Ordered
    BY <2>1, <2>3, EntryFacts, Times
  <2>4. ASSUME NEW r \in Requests, NEW t \in Targets, Ask(r, t)
        PROVE  \A g \in Ids : cache'[g].held => cache'[g] = cache[g]
    BY <2>1, <2>4 DEF Ask, TypeOK, NoEntry
  <2>5. ASSUME \/ \E r \in Requests : \/ \E t \in Targets : CacheHit(r, t)
                                      \/ WaitTimeout(r) \/ ListGateways(r) \/ ListZones(r)
                                      \/ UnknownGateway(r) \/ PassReady(r) \/ BuildReadList(r)
                                      \/ SendRead(r) \/ Insert(r)
                                      \/ Failed(r) \/ ReadTimeout(r) \/ HangUp(r)
                                      \/ \E a \in Arrivals : \/ Refused(r, a) \/ Unreadable(r, a)
                                                            \/ Overtaken(r, a)
               \/ SessionEnds \/ (\E answer \in Logins : LoggedIn(answer)) \/ Tick \/ UNCHANGED vars
        PROVE  UNCHANGED cache
    BY <2>5 DEF CacheHit, WaitTimeout, ListGateways, ListZones, UnknownGateway, PassReady, BuildReadList,
                SendRead, Insert, Failed, ReadTimeout, HangUp, Refused, Unreadable, Overtaken,
                SessionEnds, LoggedIn, Tick, vars
  <2> QED
    BY <1>1, <2>2, <2>3, <2>4, <2>5 DEF Next, Begin, Handle, Receive
<1>2. ASSUME IInv, [Next]_vars PROVE [Ordered]_vars
  BY <1>1, <1>2
<1> QED
  BY Invariant, <1>2, PTL DEF Spec, BoundedSetback
----------------------------------------------------------------------------
(* The names of metrics, and the details of a zone.                       *)

\* The digits, and all parts that the names of a zone's metrics are put together from.
DigitSet == {Digit(k) : k \in 0 .. 9}
Parts == DigitSet \union {"iz2", "_", "z", "roomtemp", "activesettings", "call", "damper"}

\* What begins with s has the elements of s in their places.
LEMMA PrefixByIndex ==
  ASSUME NEW S, NEW s \in Seq(S), NEW t \in Seq(S), IsPrefix(s, t)
  PROVE  Len(s) <= Len(t) /\ \A i \in 1 .. Len(s) : s[i] = t[i]
<1>1. Len(s) \in Nat /\ Len(t) \in Nat /\ Len(s) <= Len(t)
  BY LenProperties DEF IsPrefix
<1>2. \A i \in 1 .. Len(s) : s[i] \in S /\ t[i] \in S
  BY <1>1, ElementOfSeq
<1>3. SubSeq(s, 1, Len(s)) = SubSeq(t, 1, Len(s))
  BY DEF IsPrefix
<1>4. \A i \in 1 .. Len(s) : SubSeq(s, 1, Len(s))[i] = s[i]
  BY <1>1, <1>2, SubSeqProperties
<1>5. \A i \in 1 .. Len(s) : SubSeq(t, 1, Len(s))[i] = t[i]
  BY <1>1, <1>2, SubSeqProperties
<1> QED
  BY <1>1, <1>3, <1>4, <1>5

\* Short tuples as sequences.
LEMMA Tuples ==
  ASSUME NEW S, NEW a \in S, NEW b \in S, NEW c \in S
  PROVE  /\ <<a>> \in Seq(S) /\ Len(<<a>>) = 1
         /\ <<a, b>> \in Seq(S) /\ Len(<<a, b>>) = 2
         /\ <<a, b, c>> \in Seq(S) /\ Len(<<a, b, c>>) = 3
OBVIOUS

\* Tuples are equal only if their lengths and their elements are.
LEMMA SameTuples ==
  ASSUME NEW a, NEW b, NEW c, NEW d, NEW e, NEW f
  PROVE  /\ <<a>> # <<b, c>> /\ <<a>> # <<b, c, d>> /\ <<a, b>> # <<c, d, e>>
         /\ <<a>> = <<b>> => a = b
         /\ <<a, b>> = <<c, d>> => a = c /\ b = d
         /\ <<a, b, c>> = <<d, e, f>> => a = d /\ b = e /\ c = f
<1>1. <<a>> # <<b, c>> /\ <<a>> # <<b, c, d>> /\ <<a, b>> # <<c, d, e>>
  OBVIOUS
<1>2. <<a>> = <<b>> => a = b
  OBVIOUS
<1>3. <<a, b>> = <<c, d>> => a = c /\ b = d
  OBVIOUS
<1>4. <<a, b, c>> = <<d, e, f>> => a = d /\ b = e /\ c = f
  OBVIOUS
<1> QED
  BY <1>1, <1>2, <1>3, <1>4

\* No digit is the underscore that ends a number, and no two are the same.
LEMMA DigitFacts ==
  /\ \A k \in 0 .. 9 : Digit(k) # "_"
  /\ \A j, k \in 0 .. 9 : Digit(j) = Digit(k) => j = k
<1>1. /\ Digit(0) = "0" /\ Digit(1) = "1" /\ Digit(2) = "2" /\ Digit(3) = "3" /\ Digit(4) = "4"
      /\ Digit(5) = "5" /\ Digit(6) = "6" /\ Digit(7) = "7" /\ Digit(8) = "8" /\ Digit(9) = "9"
  BY DEF Digit
<1>2. ASSUME NEW k \in 0 .. 9
      PROVE  k = 0 \/ k = 1 \/ k = 2 \/ k = 3 \/ k = 4 \/ k = 5 \/ k = 6 \/ k = 7 \/ k = 8 \/ k = 9
  OBVIOUS
<1>3. ASSUME NEW k \in 0 .. 9 PROVE Digit(k) # "_"
  BY <1>1, <1>2
<1>4. ASSUME NEW j \in 0 .. 9, NEW k \in 0 .. 9, Digit(j) = Digit(k) PROVE j = k
  BY <1>4 DEF Digit
<1> QED
  BY <1>3, <1>4

\* A digit tells its value.
LEMMA SameDigit ==
  ASSUME NEW j \in 0 .. 9, NEW k \in 0 .. 9, Digit(j) = Digit(k)
  PROVE  j = k
BY DigitFacts

\* A number of 8 bits has one, two or three digits.
LEMMA Decimal ==
  ASSUME NEW n \in 0 .. 255
  PROVE  /\ n < 10 => Digits(n) = <<Digit(n)>> /\ n \in 0 .. 9
         /\ n >= 10 /\ n < 100 =>
              /\ Digits(n) = <<Digit(n \div 10), Digit(n % 10)>>
              /\ n \div 10 \in 0 .. 9 /\ n % 10 \in 0 .. 9
         /\ n >= 100 =>
              /\ Digits(n) = <<Digit(n \div 100), Digit((n \div 10) % 10), Digit(n % 10)>>
              /\ n \div 100 \in 0 .. 9 /\ (n \div 10) % 10 \in 0 .. 9 /\ n % 10 \in 0 .. 9
<1>1. CASE n < 10
  <2>1. Digits(n) = <<Digit(n)>>
    BY <1>1 DEF Digits
  <2> QED
    BY <1>1, <2>1
<1>2. CASE n >= 10 /\ n < 100
  <2>1. Digits(n) = <<Digit(n \div 10), Digit(n % 10)>>
    BY <1>2 DEF Digits
  <2>2. n \div 10 \in 0 .. 9 /\ n % 10 \in 0 .. 9
    BY <1>2
  <2> QED
    BY <1>2, <2>1, <2>2
<1>3. CASE n >= 100
  <2>1. Digits(n) = <<Digit(n \div 100), Digit((n \div 10) % 10), Digit(n % 10)>>
    BY <1>3 DEF Digits
  <2>2. n \div 100 \in 0 .. 9 /\ (n \div 10) % 10 \in 0 .. 9 /\ n % 10 \in 0 .. 9
    BY <1>3
  <2> QED
    BY <1>3, <2>1, <2>2
<1> QED
  BY <1>1, <1>2, <1>3

\* The number of a zone is written in one to three digits.
LEMMA DigitsFacts ==
  ASSUME NEW z \in 0 .. 255
  PROVE  Digits(z) \in Seq(DigitSet) /\ Len(Digits(z)) \in 1 .. 3
<1>1. \A k \in 0 .. 9 : Digit(k) \in DigitSet
  BY DEF DigitSet
<1>2. CASE z < 10
  <2>1. Digits(z) = <<Digit(z)>>
    BY <1>2, Decimal
  <2>2. z \in 0 .. 9
    BY <1>2
  <2> QED
    BY <1>1, <2>1, <2>2, Tuples
<1>3. CASE z >= 10 /\ z < 100
  <2>1. Digits(z) = <<Digit(z \div 10), Digit(z % 10)>>
    BY <1>3, Decimal
  <2>2. z \div 10 \in 0 .. 9 /\ z % 10 \in 0 .. 9
    BY <1>3
  <2> QED
    BY <1>1, <2>1, <2>2, Tuples
<1>4. CASE z >= 100
  <2>1. Digits(z) = <<Digit(z \div 100), Digit((z \div 10) % 10), Digit(z % 10)>>
    BY <1>4, Decimal
  <2>2. z \div 100 \in 0 .. 9 /\ (z \div 10) % 10 \in 0 .. 9 /\ z % 10 \in 0 .. 9
    BY <1>4
  <2> QED
    BY <1>1, <2>1, <2>2, Tuples
<1> QED
  BY <1>2, <1>3, <1>4

\* Two zones are never written alike.
LEMMA DigitsTell ==
  ASSUME NEW z \in 0 .. 255, NEW w \in 0 .. 255, Digits(z) = Digits(w)
  PROVE  z = w
<1>1. CASE z < 10 /\ w < 10
  <2>1. Digit(z) = Digit(w) /\ z \in 0 .. 9 /\ w \in 0 .. 9
    <3>1. Digits(z) = <<Digit(z)>> /\ Digits(w) = <<Digit(w)>> /\ z \in 0 .. 9 /\ w \in 0 .. 9
      BY <1>1, Decimal
    <3>2. <<Digit(z)>> = <<Digit(w)>>
      BY <3>1
    <3> QED
      BY <3>1, <3>2, SameTuples
  <2> QED
    BY <2>1, SameDigit
<1>2. CASE z >= 10 /\ z < 100 /\ w >= 10 /\ w < 100
  <2>1. /\ Digit(z \div 10) = Digit(w \div 10) /\ z \div 10 \in 0 .. 9 /\ w \div 10 \in 0 .. 9
        /\ Digit(z % 10) = Digit(w % 10) /\ z % 10 \in 0 .. 9 /\ w % 10 \in 0 .. 9
    <3>1. /\ Digits(z) = <<Digit(z \div 10), Digit(z % 10)>>
          /\ Digits(w) = <<Digit(w \div 10), Digit(w % 10)>>
      BY <1>2, Decimal
    <3>2. <<Digit(z \div 10), Digit(z % 10)>> = <<Digit(w \div 10), Digit(w % 10)>>
      BY <3>1
    <3>3. Digit(z \div 10) = Digit(w \div 10) /\ Digit(z % 10) = Digit(w % 10)
      BY <3>2, SameTuples
    <3> QED
      BY <1>2, <3>3, Decimal
  <2>2. z \div 10 = w \div 10 /\ z % 10 = w % 10
    BY <2>1, SameDigit
  <2> QED
    BY <2>2
<1>3. CASE z >= 100 /\ w >= 100
  <2>1. /\ Digit(z \div 100) = Digit(w \div 100) /\ z \div 100 \in 0 .. 9 /\ w \div 100 \in 0 .. 9
        /\ Digit((z \div 10) % 10) = Digit((w \div 10) % 10)
        /\ (z \div 10) % 10 \in 0 .. 9 /\ (w \div 10) % 10 \in 0 .. 9
        /\ Digit(z % 10) = Digit(w % 10) /\ z % 10 \in 0 .. 9 /\ w % 10 \in 0 .. 9
    <3>1. /\ Digits(z) = <<Digit(z \div 100), Digit((z \div 10) % 10), Digit(z % 10)>>
          /\ Digits(w) = <<Digit(w \div 100), Digit((w \div 10) % 10), Digit(w % 10)>>
      BY <1>3, Decimal
    <3>2. <<Digit(z \div 100), Digit((z \div 10) % 10), Digit(z % 10)>>
            = <<Digit(w \div 100), Digit((w \div 10) % 10), Digit(w % 10)>>
      BY <3>1
    <3>3. /\ Digit(z \div 100) = Digit(w \div 100) /\ Digit((z \div 10) % 10) = Digit((w \div 10) % 10)
          /\ Digit(z % 10) = Digit(w % 10)
      BY <3>2, SameTuples
    <3> QED
      BY <1>3, <3>3, Decimal
  <2>2. z \div 100 = w \div 100 /\ (z \div 10) % 10 = (w \div 10) % 10 /\ z % 10 = w % 10
    BY <2>1, SameDigit
  <2>3. (z \div 10) \div 10 = z \div 100 /\ (w \div 10) \div 10 = w \div 100
    OBVIOUS
  <2>4. z \div 10 = w \div 10
    BY <2>2, <2>3
  <2> QED
    BY <2>2, <2>4
<1>4. ASSUME NEW n \in 0 .. 255
      PROVE  \/ n < 10 /\ Len(Digits(n)) = 1
             \/ n >= 10 /\ n < 100 /\ Len(Digits(n)) = 2
             \/ n >= 100 /\ Len(Digits(n)) = 3
  <2>1. \A a, b, c : Len(<<a>>) = 1 /\ Len(<<a, b>>) = 2 /\ Len(<<a, b, c>>) = 3
    OBVIOUS
  <2>2. n < 10 \/ (n >= 10 /\ n < 100) \/ n >= 100
    OBVIOUS
  <2> QED
    BY <2>1, <2>2, Decimal
<1>5. \/ z < 10 /\ w < 10
      \/ z >= 10 /\ z < 100 /\ w >= 10 /\ w < 100
      \/ z >= 100 /\ w >= 100
  <2>1. Len(Digits(z)) = Len(Digits(w))
    OBVIOUS
  <2> QED
    <3>1. \/ z < 10 /\ Len(Digits(z)) = 1
          \/ z >= 10 /\ z < 100 /\ Len(Digits(z)) = 2
          \/ z >= 100 /\ Len(Digits(z)) = 3
      BY <1>4
    <3>2. \/ w < 10 /\ Len(Digits(w)) = 1
          \/ w >= 10 /\ w < 100 /\ Len(Digits(w)) = 2
          \/ w >= 100 /\ Len(Digits(w)) = 3
      BY <1>4
    <3> QED
      BY <2>1, <3>1, <3>2
<1> QED
  BY <1>1, <1>2, <1>3, <1>5

\* The prefix of a zone: the digits begin in its fourth place, an underscore ends it.
LEMMA ZonePrefixFacts ==
  ASSUME NEW z \in 0 .. 255
  PROVE  /\ ZonePrefix(z) \in Seq(Parts)
         /\ Len(ZonePrefix(z)) = Len(Digits(z)) + 4
         /\ \A i \in 1 .. Len(Digits(z)) : ZonePrefix(z)[3 + i] = Digits(z)[i]
         /\ ZonePrefix(z)[Len(Digits(z)) + 4] = "_"
<1> DEFINE h == <<"iz2", "_", "z">>
           d == Digits(z)
           u == <<"_">>
<1>1. h \in Seq(Parts) /\ Len(h) = 3 /\ u \in Seq(Parts) /\ Len(u) = 1 /\ u[1] = "_"
  <2>1. "iz2" \in Parts /\ "_" \in Parts /\ "z" \in Parts
    BY DEF Parts
  <2> QED
    BY <2>1, Tuples
<1>2. d \in Seq(Parts) /\ Len(d) \in 1 .. 3
  BY DigitsFacts, SeqMonotonic DEF Parts
<1>3. ZonePrefix(z) = (h \o d) \o u
  BY DEF ZonePrefix
<1> HIDE DEF h, d, u
<1>4. /\ h \o d \in Seq(Parts) /\ Len(h \o d) = 3 + Len(d)
      /\ \A i \in 1 .. 3 + Len(d) : (h \o d)[i] = IF i <= 3 THEN h[i] ELSE d[i - 3]
  <2>1. /\ h \o d \in Seq(Parts) /\ Len(h \o d) = Len(h) + Len(d)
        /\ \A i \in 1 .. Len(h) + Len(d) : (h \o d)[i] = IF i <= Len(h) THEN h[i] ELSE d[i - Len(h)]
    BY <1>1, <1>2, ConcatProperties
  <2> QED
    BY <1>1, <2>1
<1>5. /\ (h \o d) \o u \in Seq(Parts) /\ Len((h \o d) \o u) = 4 + Len(d)
      /\ \A i \in 1 .. 4 + Len(d) :
           ((h \o d) \o u)[i] = IF i <= 3 + Len(d) THEN (h \o d)[i] ELSE u[i - (3 + Len(d))]
  <2> DEFINE g == h \o d
  <2>1. g \in Seq(Parts) /\ Len(g) = 3 + Len(d)
    BY <1>4
  <2> HIDE DEF g
  <2>2. /\ g \o u \in Seq(Parts) /\ Len(g \o u) = Len(g) + Len(u)
        /\ \A i \in 1 .. Len(g) + Len(u) : (g \o u)[i] = IF i <= Len(g) THEN g[i] ELSE u[i - Len(g)]
    BY <1>1, <2>1, ConcatProperties
  <2>3. Len(g) + Len(u) = 4 + Len(d)
    <3>1. Len(u) = 1 /\ Len(d) \in 1 .. 3 /\ Len(g) = 3 + Len(d)
      BY <1>1, <1>2, <2>1
    <3> QED
      BY <3>1
  <2>4. /\ g \o u \in Seq(Parts) /\ Len(g \o u) = 4 + Len(d)
        /\ \A i \in 1 .. 4 + Len(d) : (g \o u)[i] = IF i <= 3 + Len(d) THEN g[i] ELSE u[i - (3 + Len(d))]
    BY <2>1, <2>2, <2>3
  <2> QED
    BY <2>4 DEF g
<1>6. \A i \in 1 .. Len(d) : ZonePrefix(z)[3 + i] = d[i]
  <2> TAKE i \in 1 .. Len(d)
  <2>1. 3 + i \in 1 .. 3 + Len(d) /\ 3 + i \in 1 .. 4 + Len(d) /\ ~(3 + i <= 3) /\ (3 + i) - 3 = i
    BY <1>2
  <2>2. (h \o d)[3 + i] = d[i]
    BY <1>4, <2>1
  <2> QED
    <3>1. ((h \o d) \o u)[3 + i] = IF 3 + i <= 3 + Len(d) THEN (h \o d)[3 + i] ELSE u[(3 + i) - (3 + Len(d))]
      BY <1>5, <2>1
    <3>2. 3 + i <= 3 + Len(d)
      BY <1>2
    <3> QED
      BY <1>3, <2>2, <3>1, <3>2
<1>7. ZonePrefix(z)[Len(d) + 4] = "_"
  <2>1. Len(d) + 4 \in 1 .. 4 + Len(d) /\ ~(Len(d) + 4 <= 3 + Len(d))
        /\ (Len(d) + 4) - (3 + Len(d)) = 1
    BY <1>2
  <2> QED
    BY <1>1, <1>3, <1>5, <2>1
<1>8. ZonePrefix(z) \in Seq(Parts) /\ Len(ZonePrefix(z)) = Len(d) + 4
  BY <1>2, <1>3, <1>5
<1> QED
  BY <1>6, <1>7, <1>8 DEF d

\* No name of another zone begins with the prefix of a zone: that of zone 1 is not in zone 12's.
LEMMA ZonesApart ==
  ASSUME NEW z \in 0 .. 255, NEW w \in 0 .. 255, NEW x \in Parts,
         IsPrefix(ZonePrefix(z), ZonePrefix(w) \o <<x>>)
  PROVE  z = w
<1> DEFINE p == ZonePrefix(z)
           q == ZonePrefix(w)
           t == q \o <<x>>
           a == Len(Digits(z))
           b == Len(Digits(w))
<1>1. /\ a \in 1 .. 3 /\ b \in 1 .. 3
      /\ \A i \in 1 .. a : Digits(z)[i] # "_"
      /\ \A i \in 1 .. b : Digits(w)[i] # "_"
  <2>1. \A c \in DigitSet : c # "_"
    BY DigitFacts DEF DigitSet
  <2>2. Digits(z) \in Seq(DigitSet) /\ Digits(w) \in Seq(DigitSet) /\ a \in 1 .. 3 /\ b \in 1 .. 3
    BY DigitsFacts
  <2>3. \A i \in 1 .. a : Digits(z)[i] \in DigitSet
    BY <2>2, ElementOfSeq
  <2>4. \A i \in 1 .. b : Digits(w)[i] \in DigitSet
    BY <2>2, ElementOfSeq
  <2> QED
    BY <2>1, <2>2, <2>3, <2>4
<1>0. a \in 1 .. 3 /\ b \in 1 .. 3
  BY <1>1
<1>2. /\ p \in Seq(Parts) /\ Len(p) = a + 4 /\ p[a + 4] = "_"
      /\ \A i \in 1 .. a : p[3 + i] = Digits(z)[i]
  BY ZonePrefixFacts
<1>3. /\ q \in Seq(Parts) /\ Len(q) = b + 4 /\ q[b + 4] = "_"
      /\ \A i \in 1 .. b : q[3 + i] = Digits(w)[i]
  BY ZonePrefixFacts
<1>4. IsPrefix(p, t)
  OBVIOUS
<1>5. (a = b /\ \A i \in 1 .. a : Digits(z)[i] = Digits(w)[i]) => Digits(z) = Digits(w)
  BY DigitsFacts, SeqEqual
<1>6. t = q \o <<x>>
  OBVIOUS
<1> HIDE DEF p, q, t, a, b
<1>7. t \in Seq(Parts) /\ \A i \in 1 .. b + 4 : t[i] = q[i]
  <2>1. <<x>> \in Seq(Parts) /\ Len(<<x>>) = 1
    BY Tuples
  <2>2. /\ q \o <<x>> \in Seq(Parts)
        /\ \A i \in 1 .. Len(q) + Len(<<x>>) :
             (q \o <<x>>)[i] = IF i <= Len(q) THEN q[i] ELSE <<x>>[i - Len(q)]
    BY <1>3, <2>1, ConcatProperties
  <2>4. Len(q) = b + 4
    BY <1>3
  <2>3. ASSUME NEW i \in 1 .. b + 4 PROVE t[i] = q[i]
    <3>1. i \in 1 .. Len(q) + Len(<<x>>) /\ i <= Len(q)
      BY <1>0, <2>1, <2>4
    <3> QED
      BY <1>6, <2>2, <3>1
  <2> QED
    BY <1>6, <2>2, <2>3
<1>8. \A i \in 1 .. a + 4 : p[i] = t[i]
  <2>1. \A i \in 1 .. Len(p) : p[i] = t[i]
    BY <1>2, <1>4, <1>7, PrefixByIndex
  <2> QED
    BY <1>2, <2>1
<1>9. a = b
  <2>1. ASSUME a < b PROVE FALSE
    <3>1. a + 4 = 3 + (a + 1) /\ a + 1 \in 1 .. b /\ a + 4 \in 1 .. b + 4 /\ a + 4 \in 1 .. a + 4
      BY <1>0, <2>1
    <3>2. q[a + 4] = Digits(w)[a + 1]
      BY <1>3, <3>1
    <3>3. p[a + 4] = q[a + 4]
      BY <1>7, <1>8, <3>1
    <3> QED
      BY <1>1, <1>2, <3>1, <3>2, <3>3
  <2>2. ASSUME b < a PROVE FALSE
    <3>1. b + 4 = 3 + (b + 1) /\ b + 1 \in 1 .. a /\ b + 4 \in 1 .. b + 4 /\ b + 4 \in 1 .. a + 4
      BY <1>0, <2>2
    <3>2. p[b + 4] = Digits(z)[b + 1]
      BY <1>2, <3>1
    <3>3. p[b + 4] = q[b + 4]
      BY <1>7, <1>8, <3>1
    <3> QED
      BY <1>1, <1>3, <3>1, <3>2, <3>3
  <2>3. a < b \/ b < a \/ a = b
    BY <1>0
  <2> QED
    BY <2>1, <2>2, <2>3
<1>10. ASSUME NEW i \in 1 .. a PROVE Digits(z)[i] = Digits(w)[i]
  <2>1. 3 + i \in 1 .. a + 4 /\ i \in 1 .. b /\ 3 + i \in 1 .. b + 4
    BY <1>0, <1>9
  <2>2. p[3 + i] = q[3 + i]
    BY <1>7, <1>8, <2>1
  <2> QED
    BY <1>2, <1>3, <2>1, <2>2
<1> QED
  BY <1>5, <1>9, <1>10, DigitsTell

\* Stripping the prefix from a name that was put together with it leaves the rest.
LEMMA OwnPrefix ==
  ASSUME NEW p \in Seq(Parts), NEW x \in Parts
  PROVE  IsPrefix(p, p \o <<x>>) /\ SubSeq(p \o <<x>>, Len(p) + 1, Len(p \o <<x>>)) = <<x>>
<1> DEFINE u == <<x>>
<1>1. u \in Seq(Parts) /\ Len(u) = 1
  BY Tuples
<1>2. Len(p) \in Nat
  BY LenProperties
<1> HIDE DEF u
<1>3. Len(p \o u) = Len(p) + 1
  <2>1. Len(p \o u) = Len(p) + Len(u)
    BY <1>1, ConcatProperties
  <2> QED
    BY <1>1, <2>1
<1>4. SubSeq(p \o u, 1, Len(p)) = p
  BY <1>1, SubSeqOfConcat1
<1>5. SubSeq(p, 1, Len(p)) = p
  BY SubSeqFull
<1>6. SubSeq(p \o u, Len(p) + 1, Len(p) + Len(u)) = u
  BY <1>1, SubSeqOfConcat2
<1>7. IsPrefix(p, p \o u)
  BY <1>2, <1>3, <1>4, <1>5 DEF IsPrefix
<1> QED
  BY <1>1, <1>3, <1>6, <1>7 DEF u

\* No name that is not a zone's begins with the prefix of a zone.
LEMMA OtherNames ==
  ASSUME NEW z \in 0 .. 255, NEW k \in DefaultMetrics \union {<<"zone">>}
  PROVE  ~IsPrefix(ZonePrefix(z), k)
<1>1. Len(k) \in 1 .. 3
  <2>1. \A a, b, c : Len(<<a>>) = 1 /\ Len(<<a, b, c>>) = 3
    OBVIOUS
  <2>2. \/ k = <<"TStatRoomTemp">> \/ k = <<"iz2", "_", "dehumid_humid_sp">>
        \/ k = <<"zone">>
    BY DEF DefaultMetrics
  <2>3. Len(k) = 1 \/ Len(k) = 3
    BY <2>1, <2>2, Zenon
  <2> QED
    BY <2>3
<1>2. Len(ZonePrefix(z)) > 3
  <2>1. Len(Digits(z)) \in 1 .. 3 /\ Len(ZonePrefix(z)) = Len(Digits(z)) + 4
    BY DigitsFacts, ZonePrefixFacts
  <2> QED
    BY <2>1
<1> QED
  BY <1>1, <1>2 DEF IsPrefix

\* What the details of a zone hold by whether its settings came as an object.
Details(objects) == {RoomTemp} \union (IF objects THEN SettingNames ELSE {})

\* They are one word each.
LEMMA Words ==
  ASSUME NEW word \in {RoomTemp, ActiveSettings} \union SettingNames
  PROVE  \E x \in Parts : word = <<x>>
<1>1. {"roomtemp", "activesettings", "call", "damper"} \subseteq Parts
  BY DEF Parts
<1>2. \/ word = <<"roomtemp">> \/ word = <<"activesettings">>
      \/ word = <<"call">> \/ word = <<"damper">>
  BY DEF RoomTemp, ActiveSettings, SettingNames
<1> QED
  BY <1>1, <1>2

\* The details of a zone that was asked for are its room temperature, with its settings if they came
\* as an object, and nothing else.
LEMMA OwnReadings ==
  ASSUME NEW n \in 0 .. 255, NEW z \in 1 .. n, NEW objects \in BOOLEAN
  PROVE  ZoneDetails(Metrics(n), objects, z) = Details(objects)
<1> DEFINE p == ZonePrefix(z)
           metrics == Metrics(n)
           own == {k \in metrics : IsPrefix(p, k)}
           settings == p \o ActiveSettings
           pulled == IF settings \in own /\ objects THEN Settings(z) ELSE {}
           stripped == {k \in (own \ {settings}) \union pulled : IsPrefix(p, k)}
           Strip(k) == SubSeq(k, Len(p) + 1, Len(k))
<1>1. z \in 0 .. 255 /\ p \in Seq(Parts)
  <2>1. z \in 0 .. 255
    OBVIOUS
  <2> QED
    BY <2>1, ZonePrefixFacts
<1>2. ASSUME NEW word \in {RoomTemp, ActiveSettings} \union SettingNames
      PROVE  IsPrefix(p, p \o word) /\ Strip(p \o word) = word
  <2>1. PICK x \in Parts : word = <<x>>
    BY Words
  <2> QED
    BY <1>1, <2>1, OwnPrefix
<1>3. p \o RoomTemp # settings
  <2>1. RoomTemp # ActiveSettings
    BY SameTuples DEF RoomTemp, ActiveSettings
  <2>2. Strip(p \o RoomTemp) = RoomTemp /\ Strip(settings) = ActiveSettings
    BY <1>2
  <2> QED
    BY <2>1, <2>2
<1>4. p \o RoomTemp \in metrics /\ settings \in metrics
  <2>1. p \o RoomTemp = ZoneMetric(z, RoomTemp) /\ settings = ZoneMetric(z, ActiveSettings)
    BY DEF ZoneMetric, ZonePrefix
  <2>2. ZoneMetric(z, RoomTemp) \in ReadList(n) /\ ZoneMetric(z, ActiveSettings) \in ReadList(n)
    BY DEF ReadList
  <2> QED
    BY <2>1, <2>2 DEF Metrics
<1>5. ASSUME NEW k \in metrics, IsPrefix(p, k) PROVE k = p \o RoomTemp \/ k = settings
  <2>1. k \notin DefaultMetrics \union {<<"zone">>}
    BY <1>1, <1>5, OtherNames
  <2>2. PICK w \in 1 .. n, word \in {RoomTemp, ActiveSettings} : k = ZoneMetric(w, word)
    BY <2>1 DEF Metrics, ReadList
  <2>3. k = ZonePrefix(w) \o word
    BY <2>2 DEF ZoneMetric, ZonePrefix
  <2>4. w \in 0 .. 255
    OBVIOUS
  <2>5. PICK x \in Parts : word = <<x>>
    BY Words
  <2>6. z = w
    BY <1>1, <1>5, <2>3, <2>4, <2>5, ZonesApart
  <2> QED
    BY <2>2, <2>3, <2>6
<1>6. own = {p \o RoomTemp, settings}
  <2> HIDE DEF p, settings, metrics
  <2>1. IsPrefix(p, p \o RoomTemp) /\ IsPrefix(p, p \o ActiveSettings)
    BY <1>2
  <2> QED
    BY <1>4, <1>5, <2>1 DEF settings
<1>7. Settings(z) = {p \o word : word \in SettingNames}
  BY DEF Settings, ZoneMetric, ZonePrefix
<1>8. stripped = {p \o word : word \in Details(objects)}
  <2>1. (own \ {settings}) \union pulled = {p \o word : word \in Details(objects)}
    <3>1. own \ {settings} = {p \o RoomTemp}
      BY <1>3, <1>6
    <3>2. pulled = IF objects THEN {p \o word : word \in SettingNames} ELSE {}
      BY <1>6, <1>7
    <3> HIDE DEF p, settings, own, pulled
    <3>3. CASE objects
      BY <3>1, <3>2, <3>3 DEF Details
    <3>4. CASE ~objects
      BY <3>1, <3>2, <3>4 DEF Details
    <3> QED
      BY <3>3, <3>4
  <2>2. \A word \in Details(objects) : IsPrefix(p, p \o word)
    BY <1>2 DEF Details
  <2> HIDE DEF p, settings, own, pulled
  <2> QED
    BY <2>1, <2>2
<1>9. {Strip(k) : k \in stripped} = Details(objects)
  <2>1. \A word \in Details(objects) : Strip(p \o word) = word
    BY <1>2 DEF Details
  <2> HIDE DEF p, stripped, Strip
  <2> QED
    BY <1>8, <2>1
<1>10. ZoneDetails(Metrics(n), objects, z) = {Strip(k) : k \in stripped}
  BY DEF ZoneDetails
<1> HIDE DEF stripped, Strip
<1> QED
  BY <1>9, <1>10
----------------------------------------------------------------------------
(* The details that a request is told.                                     *)

\* The number of zones of a known gateway has 8 bits.
LEMMA CountIsByte ==
  ASSUME TypeOK, NEW g \in Known(login)
  PROVE  ZoneCount(login, g) \in 0 .. 255
<1>1. login \in Logins
  BY DEF TypeOK, Known
<1> QED
  BY <1>1, ReadsAssumption

\* Details out of an entry that is young enough to be served are those of the present login data.
LEMMA CachedZoneShows ==
  ASSUME IInv, NEW r \in Requests, NEW t \in Targets, CacheHit(r, t), t.route = "details",
         t.zone \in 1 .. ZoneCount(login, t.gateway), now - renewed >= Lifetime + ReadTime
  PROVE  reply'[r].body = Details(cache'[t.gateway].objects)
<1> DEFINE g == t.gateway
           e == cache[g]
<1>1. TypeOK /\ EntryTimes /\ CountsCurrent
  BY DEF IInv
<1>2. g \in Ids
  BY TargetFacts
<1>3. /\ e.held /\ now - e.at < Lifetime
      /\ now \in Nat /\ renewed \in Nat /\ e.at \in Nat /\ e.asked \in Nat
      /\ e.at <= e.asked + ReadTime
  BY <1>1, <1>2, EntryFacts DEF CacheHit, Fresh, EntryTimes, TypeOK
<1>4. renewed < e.asked
  BY <1>3, Times
<1>5. g \in Known(login) /\ e.maxZones = ZoneCount(login, g)
  BY <1>1, <1>2, <1>3, <1>4 DEF CountsCurrent
<1>6. e.maxZones \in 0 .. 255
  BY <1>1, <1>5, CountIsByte
<1>7. reply'[r].body = ReadBody(t, e.maxZones, e.objects)
  BY <1>1 DEF CacheHit, End, TypeOK
<1>8. t.zone \in 1 .. e.maxZones
  BY <1>5
<1>9. ReadBody(t, e.maxZones, e.objects) = Details(e.objects)
  <2> DEFINE n == e.maxZones
             o == e.objects
  <2>1. n \in 0 .. 255 /\ t.zone \in 1 .. n /\ t.route = "details" /\ o \in BOOLEAN
    BY <1>1, <1>2, <1>6, <1>8 DEF TypeOK, Entry
  <2> HIDE DEF n, o
  <2>2. ReadBody(t, n, o) = Details(o)
    BY <2>1, OwnReadings DEF ReadBody
  <2> QED
    BY <2>2 DEF n, o
<1>10. UNCHANGED cache
  BY DEF CacheHit
<1> QED
  BY <1>7, <1>9, <1>10

\* Details out of an answer are, as it was asked for at most a deadline ago.
LEMMA AnsweredZoneShows ==
  ASSUME IInv, NEW r \in Requests, NEW a \in Arrivals, NEW sampled, NEW objects \in BOOLEAN,
         Answered(r, a, sampled, objects), target'[r].route = "details",
         target'[r].zone \in 1 .. ZoneCount(login, target'[r].gateway),
         now - renewed >= Lifetime + ReadTime
  PROVE  reply'[r].body = Details(cache'[target'[r].gateway].objects)
<1> DEFINE t == target[r]
           n == maxZones[r]
<1>1. TypeOK /\ ReadTimes /\ CountsCurrent
  BY DEF IInv
<1>2. target' = target
  BY DEF Answered
<1>3. /\ Reading(r) /\ now <= since[r] + ReadTime
      /\ now \in Nat /\ renewed \in Nat /\ since[r] \in Nat
  BY <1>1 DEF Answered, ReadTimes, Reading, TypeOK
<1>4. renewed < since[r]
  BY <1>3, Times
<1>5. t.gateway \in Known(login) /\ n = ZoneCount(login, t.gateway)
  BY <1>1, <1>3, <1>4 DEF CountsCurrent
<1>6. n \in 0 .. 255
  BY <1>1, <1>5, CountIsByte
<1>7. reply'[r].body = ReadBody(t, n, objects)
  BY <1>1 DEF Answered, End, TypeOK
<1>8. t.route = "details" /\ t.zone \in 1 .. n
  BY <1>2, <1>5
<1>9. cache'[t.gateway].objects = objects
  <2>1. t.gateway \in Ids
    BY <1>1, <1>3, TargetFacts DEF ReadTimes, Answered
  <2> QED
    BY <1>1, <2>1 DEF Answered, TypeOK
<1> HIDE DEF t, n
<1>10. ReadBody(t, n, objects) = Details(objects)
  BY <1>6, <1>8, OwnReadings DEF ReadBody
<1> QED
  BY <1>2, <1>7, <1>9, <1>10 DEF t

\* A zone that the login data name and count is found with its room temperature, its settings if they
\* came as an object, and nothing of another zone, whatever the number of zones, as soon as what was
\* read with older login data has run out.
THEOREM NewZones == Spec => NewZonesShow
<1> DEFINE Shows(r) ==
      LET t == target'[r] IN
      /\ stage[r] # "done" /\ stage'[r] = "done" /\ reply'[r].status = "200"
      /\ t.route = "details"
      /\ [gateway |-> t.gateway, zone |-> t.zone] \in NamedZones(login)
      /\ t.zone \in 1 .. ZoneCount(login, t.gateway)
      /\ now - renewed >= Lifetime + ReadTime
      => reply'[r].body = Details(cache'[t.gateway].objects)
<1>1. ASSUME IInv, [Next]_vars, NEW r \in Requests,
             stage[r] # "done", stage'[r] = "done", reply'[r].status = "200",
             target'[r].route = "details",
             target'[r].zone \in 1 .. ZoneCount(login, target'[r].gateway),
             now - renewed >= Lifetime + ReadTime
      PROVE  reply'[r].body = Details(cache'[target'[r].gateway].objects)
  <2>1. TypeOK
    BY <1>1 DEF IInv
  <2>2. ASSUME NEW q \in Requests, NEW status, NEW body, NEW age, End(q, status, body, age),
               status # "200" \/ target'[q].route # "details"
        PROVE  FALSE
    <3>1. q = r
      BY <1>1, <2>1, <2>2 DEF End, TypeOK
    <3>2. reply'[q].status = status
      BY <2>1, <2>2 DEF End, TypeOK
    <3> QED
      BY <1>1, <2>2, <3>1, <3>2
  <2>3. ASSUME NEW q \in Requests, NEW t \in Targets, CacheHit(q, t)
        PROVE  q = r /\ t = target'[r]
    <3>1. q = r
      BY <1>1, <2>1, <2>3 DEF CacheHit, End, TypeOK
    <3> QED
      BY <2>1, <2>3, <3>1 DEF CacheHit, TypeOK
  <2>4. ASSUME NEW q \in Requests, NEW a \in Arrivals, NEW sampled, NEW objects,
               Answered(q, a, sampled, objects)
        PROVE  q = r
    BY <1>1, <2>1, <2>4 DEF Answered, End, TypeOK
  <2>5. ASSUME NEW q \in Requests,
               \/ WaitTimeout(q) \/ ListGateways(q) \/ ListZones(q) \/ UnknownGateway(q)
               \/ Failed(q) \/ ReadTimeout(q) \/ HangUp(q)
               \/ \E a \in Arrivals : Refused(q, a)
        PROVE  FALSE
    <3>1. \E status, body, age :
            End(q, status, body, age) /\ (status # "200" \/ target[q].route # "details")
      BY <2>5 DEF WaitTimeout, ListGateways, ListZones, UnknownGateway, Failed, ReadTimeout, HangUp,
                  Refused, StatusOf
    <3>2. target' = target
      BY <2>5 DEF WaitTimeout, ListGateways, ListZones, UnknownGateway, Failed, ReadTimeout, HangUp,
                  Refused
    <3> QED
      BY <2>2, <3>1, <3>2
  <2>6. ASSUME \/ \E q \in Requests : \/ \E t \in Targets : Ask(q, t)
                                      \/ PassReady(q) \/ BuildReadList(q) \/ SendRead(q) \/ Insert(q)
                                      \/ \E a \in Arrivals : Unreadable(q, a) \/ Overtaken(q, a)
               \/ SessionEnds \/ (\E answer \in Logins : LoggedIn(answer)) \/ Tick \/ UNCHANGED vars
        PROVE  FALSE
    BY <1>1, <2>1, <2>6 DEF Ask, PassReady, BuildReadList, SendRead, Insert, Unreadable, Overtaken,
                            SessionEnds, LoggedIn, Tick, vars, requestVars, TypeOK
  <2>7. CASE \E q \in Requests, t \in Targets : CacheHit(q, t)
    BY <1>1, <2>3, <2>7, CachedZoneShows
  <2>8. CASE \E q \in Requests, a \in Arrivals : \E sampled \in since[q] .. now, objects \in BOOLEAN :
               Answered(q, a, sampled, objects)
    BY <1>1, <2>4, <2>8, AnsweredZoneShows
  <2> QED
    BY <1>1, <2>5, <2>6, <2>7, <2>8 DEF Next, Begin, Handle, Receive
<1>2. ASSUME IInv, [Next]_vars PROVE [\A r \in Requests : Shows(r)]_vars
  BY <1>1, <1>2
<1> QED
  BY Invariant, <1>2, PTL DEF Spec, NewZonesShow, Details
============================================================================
