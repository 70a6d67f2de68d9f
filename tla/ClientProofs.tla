---------------------------- MODULE ClientProofs ----------------------------
(* The safety properties of Client for every number of calls, sessions and   *)
(* identifiers: the inductive invariant of ClientInvariant and what follows. *)
EXTENDS ClientTableProofs

\* Calls keep to the code of their kind; get_locations finds the login data.
LEMMA CallStep == TypeOK /\ SessionInv /\ ReadyMeansLoggedIn /\ CallInv /\ [Next]_vars => CallInv'
<1> SUFFICES ASSUME TypeOK, SessionInv, ReadyMeansLoggedIn, CallInv, [Next]_vars
             PROVE  CallInv'
  OBVIOUS
<1> DEFINE Stays(c) == pc'[c] = pc[c]
           InLookup(p) == p \in {"idle", "waitReady", "CommandTimeout", "dropped", "ok"}
           InLogout(p) == p \in {"idle", "waitReady", "setShutdown", "waitUnready",
                                 "CommandTimeout", "dropped", "ok"}
           InSend(p) == p \notin {"setShutdown", "waitUnready"}
           Keeps == /\ \A s \in Senders : Stays(s) \/ InSend(pc'[s])
                    /\ \A k \in Lookups : Stays(k) \/ InLookup(pc'[k])
                    /\ \A l \in Logouts : Stays(l) \/ InLogout(pc'[l])
<1>0. ASSUME Keeps PROVE CallInv'
  BY <1>0 DEF CallInv
<1>1. ASSUME NEW c \in Callers, Call(c) \/ Cancel(c) \/ WaitTimeout(c)
      PROVE  Keeps
  <2>1. PICK p \in {"waitReady", "dropped", "CommandTimeout"} : pc' = [pc EXCEPT ![c] = p]
    BY <1>1 DEF Call, Cancel, WaitTimeout
  <2> QED
    BY <2>1, CallKinds DEF TypeOK
<1>2. ASSUME NEW c \in Callers, GetLocations(c)
      PROVE  Keeps
  <2>1. pc' = [pc EXCEPT ![c] = "ok"] /\ c \in Lookups
    BY <1>2 DEF GetLocations, SessionInv
  <2> QED
    BY <2>1, CallKinds DEF TypeOK
<1>3. ASSUME NEW c \in Callers, FindGateway(c)
      PROVE  Keeps
  <2>1. c \in Reads /\ \E p \in {"nextTid", "UnknownGateway"} : pc' = [pc EXCEPT ![c] = p]
    BY <1>3 DEF FindGateway
  <2> QED
    BY <2>1, CallKinds DEF TypeOK
<1>4. ASSUME NEW s \in Senders,
             \/ NextTransactionId(s) \/ SocketSend(s) \/ InsertTransaction(s)
             \/ ReadReturns(s) \/ LoginReturns(s)
      PROVE  Keeps
  <2>1. \E p \in {"socketSend", "insert", "await", "ok"} : pc' = [pc EXCEPT ![s] = p]
    BY <1>4 DEF NextTransactionId, SocketSend, InsertTransaction, ReadReturns, LoginReturns
  <2> QED
    BY <2>1, CallKinds DEF TypeOK
<1>5. ASSUME NEW s \in Sessions, NEW e \in Ended, pc' = [pc EXCEPT ![s] = e]
      PROVE  Keeps
  BY <1>5, CallKinds, PlaceNames DEF TypeOK
<1>6. ASSUME NEW s \in Senders,
             \/ TooManyTransactions(s) \/ SocketSendFails(s) \/ ResponseError(s)
             \/ CommandFailed(s) \/ CommandTimeout(s)
      PROVE  Keeps
  <2>1. pc[s] \in {"nextTid", "socketSend", "insert", "await"}
    BY <1>6 DEF TooManyTransactions, SocketSendFails, ResponseError, CommandFailed, CommandTimeout
  <2>2. PICK e \in Ended : Fail(s, e)
    BY <1>6, PlaceNames DEF TooManyTransactions, SocketSendFails, ResponseError, CommandFailed,
                            CommandTimeout
  <2>3. CASE s \in Sessions /\ ConnectFails(e)
    BY <1>5, <2>1, <2>3, LiveLogin DEF ConnectFails, Hangup
  <2>4. CASE s \in Reads /\ pc' = [pc EXCEPT ![s] = e]
    BY <2>4, CallKinds, PlaceNames DEF TypeOK
  <2> QED
    BY <2>2, <2>3, <2>4 DEF Fail
<1>7. ASSUME NEW l \in Logouts,
             LogoutWhenReady(l) \/ SetShutdown(l) \/ LogoutReturns(l) \/ LogoutTimeout(l)
      PROVE  Keeps
  <2>1. \E p \in {"setShutdown", "waitUnready", "ok", "CommandTimeout"} : pc' = [pc EXCEPT ![l] = p]
    BY <1>7 DEF LogoutWhenReady, SetShutdown, LogoutReturns, LogoutTimeout
  <2> QED
    BY <2>1, CallKinds DEF TypeOK
<1>8. ASSUME UNCHANGED pc PROVE Keeps
  BY <1>8
<1>9. ASSUME NEW r \in wire, NEW failed \in BOOLEAN,
             \/ CommitTransaction(r, failed) \/ IgnoreResponse(r, failed) \/ CancelTransaction(r)
      PROVE  UNCHANGED pc
  BY <1>9 DEF CommitTransaction, IgnoreResponse, CancelTransaction
<1>10. CASE \/ Connect \/ OpenFails \/ RenewLogout \/ SendNext \/ Sent
            \/ SessionTimeout \/ ShutdownRequested \/ UNCHANGED vars
  BY <1>0, <1>8, <1>10 DEF Connect, OpenFails, RenewLogout, SendNext, Sent, SessionTimeout,
                           ShutdownRequested, vars
<1>11. CASE \/ RenewFails \/ ConnectionLost \/ ClosingFails \/ LoggedOut \/ Terminated
            \/ \E r \in wire : PanicOnUnawaited(r)
  <2>1. phase \in Attached /\ pc' = [pc EXCEPT ![session] = LoginDropped]
    BY <1>11 DEF RenewFails, ConnectionLost, ClosingFails, LoggedOut, Terminated, ConnectFails,
                 Hangup, PanicOnUnawaited, Attached
  <2> QED
    BY <1>0, <1>5, <2>1, LoginDroppedEnded DEF SessionInv
<1>12. CASE Opened \/ Renewed
  <2>1. session + 1 \in Sessions /\ pc' = [pc EXCEPT ![session + 1] = "nextTid"]
    BY <1>12, NewLogin DEF Opened, Renewed
  <2> QED
    BY <1>0, <2>1, CallKinds DEF TypeOK
<1> QED
  BY Steps, <1>0, <1>1, <1>2, <1>3, <1>4, <1>6, <1>7, <1>8, <1>9, <1>10, <1>11, <1>12

----------------------------------------------------------------------------
\* A logout that waits, or has returned Ok, has its connect() still to be stopped, stopping or
\* over.
LEMMA ShutdownStep ==
  TypeOK /\ SessionInv /\ ReadyMeansLoggedIn /\ CallInv /\ ShutdownInv /\ LogoutEndsConnect /\ [Next]_vars
    => ShutdownInv' /\ LogoutEndsConnect'
<1> SUFFICES ASSUME TypeOK, SessionInv, ReadyMeansLoggedIn, CallInv, ShutdownInv, LogoutEndsConnect,
                    [Next]_vars, NEW x \in Logouts
             PROVE  /\ asked'[x] <= connects'
                    /\ pc'[x] = "waitUnready" =>
                         shutdown' \/ connects' > asked'[x] \/ phase' \in {"terminating", "idle"}
                    /\ pc'[x] = "ok" => connects' > asked'[x] \/ phase' \in {"terminating", "idle"}
  BY DEF ShutdownInv, LogoutEndsConnect
<1> DEFINE Goal == /\ asked'[x] <= connects'
                   /\ pc'[x] = "waitUnready" =>
                        shutdown' \/ connects' > asked'[x] \/ phase' \in {"terminating", "idle"}
                   /\ pc'[x] = "ok" => connects' > asked'[x] \/ phase' \in {"terminating", "idle"}
           Ending == {"terminating", "idle"}
<1>0. /\ x \in Calls /\ x \in Callers /\ x \notin Senders /\ x \notin Lookups
      /\ asked[x] \in Int /\ connects \in Int /\ asked[x] <= connects
      /\ pc[x] = "waitUnready" => shutdown \/ connects > asked[x] \/ phase \in {"terminating", "idle"}
      /\ pc[x] = "ok" => connects > asked[x] \/ phase \in {"terminating", "idle"}
  BY CallKinds, Bounds DEF ShutdownInv, LogoutEndsConnect, TypeOK, RareTypeOK
<1>1. ASSUME pc'[x] = pc[x] \/ pc'[x] \notin {"waitUnready", "ok"},
             UNCHANGED <<connects, asked, shutdown>>, phase \in Ending => phase' \in Ending
      PROVE  Goal
  BY <1>0, <1>1
<1>2. ASSUME NEW c \in Callers,
             \/ Call(c) \/ Cancel(c) \/ WaitTimeout(c) \/ GetLocations(c) \/ FindGateway(c)
      PROVE  Goal
  <2>1. UNCHANGED <<connects, asked, shutdown, phase>>
    BY <1>2 DEF Call, Cancel, WaitTimeout, GetLocations, FindGateway, rareVars, connVars
  <2>2. PICK p : pc' = [pc EXCEPT ![c] = p]
                 /\ (p \in {"waitReady", "dropped", "CommandTimeout"} \/ c \in Lookups \union Reads)
    BY <1>2 DEF Call, Cancel, WaitTimeout, GetLocations, FindGateway
  <2> QED
    BY <1>0, <1>1, <2>1, <2>2, CallKinds DEF TypeOK
<1>3. ASSUME NEW s \in Senders,
             \/ NextTransactionId(s) \/ SocketSend(s) \/ InsertTransaction(s)
             \/ ReadReturns(s) \/ LoginReturns(s)
      PROVE  Goal
  <2>1. UNCHANGED <<connects, asked, shutdown, phase>> /\ \E p : pc' = [pc EXCEPT ![s] = p]
    BY <1>3 DEF NextTransactionId, SocketSend, InsertTransaction, ReadReturns, LoginReturns,
                rareVars, connVars
  <2> QED
    BY <1>0, <1>1, <2>1 DEF TypeOK
<1>4. ASSUME NEW s \in Senders,
             \/ TooManyTransactions(s) \/ SocketSendFails(s) \/ ResponseError(s)
             \/ CommandFailed(s) \/ CommandTimeout(s)
      PROVE  Goal
  <2>1. /\ pc[s] \in {"nextTid", "socketSend", "insert", "await"}
        /\ UNCHANGED <<connects, asked, shutdown>>
    BY <1>4 DEF TooManyTransactions, SocketSendFails, ResponseError, CommandFailed, CommandTimeout,
                rareVars
  <2>2. PICK e \in Ended : Fail(s, e)
    BY <1>4, PlaceNames DEF TooManyTransactions, SocketSendFails, ResponseError, CommandFailed,
                            CommandTimeout
  <2>3. CASE s \in Sessions /\ ConnectFails(e)
    <3>1. session = s /\ phase' = "idle" /\ pc' = [pc EXCEPT ![session] = e]
      BY <2>1, <2>3, LiveLogin DEF ConnectFails, Hangup
    <3> QED
      BY <1>0, <1>1, <2>1, <3>1 DEF TypeOK
  <2>4. CASE s \in Reads /\ pc' = [pc EXCEPT ![s] = e] /\ UNCHANGED connVars
    BY <1>0, <1>1, <2>1, <2>4 DEF TypeOK, connVars
  <2> QED
    BY <2>2, <2>3, <2>4 DEF Fail
<1>5. ASSUME NEW l \in Logouts, LogoutWhenReady(l) \/ LogoutTimeout(l)
      PROVE  Goal
  <2>1. /\ UNCHANGED <<connects, asked, shutdown, phase>>
        /\ \E p \in {"setShutdown", "CommandTimeout"} : pc' = [pc EXCEPT ![l] = p]
    BY <1>5 DEF LogoutWhenReady, LogoutTimeout, rareVars, connVars
  <2> QED
    BY <1>0, <1>1, <2>1 DEF TypeOK
<1>6. ASSUME NEW l \in Logouts, SetShutdown(l)
      PROVE  Goal
  <2>1. /\ shutdown' = TRUE /\ asked' = [asked EXCEPT ![l] = connects] /\ connects' = connects
        /\ phase' = phase /\ pc' = [pc EXCEPT ![l] = "waitUnready"]
    BY <1>6 DEF SetShutdown, connVars
  <2>2. asked'[x] = asked[x] \/ asked'[x] = connects
    BY <2>1 DEF TypeOK, RareTypeOK
  <2>3. pc'[x] = "waitUnready" \/ (pc'[x] = pc[x] /\ x # l /\ asked'[x] = asked[x])
    BY <1>0, <2>1 DEF TypeOK, RareTypeOK
  <2> QED
    BY <1>0, <2>1, <2>2, <2>3
<1>7. ASSUME NEW l \in Logouts, LogoutReturns(l)
      PROVE  Goal
  <2>1. /\ ~shutdown /\ pc[l] = "waitUnready" /\ pc' = [pc EXCEPT ![l] = "ok"]
        /\ UNCHANGED <<connects, asked, shutdown, phase>>
    BY <1>7 DEF LogoutReturns, rareVars, connVars
  <2> QED
    BY <1>0, <2>1 DEF TypeOK
<1>8. ASSUME NEW r \in wire, NEW failed \in BOOLEAN,
             \/ CommitTransaction(r, failed) \/ IgnoreResponse(r, failed) \/ CancelTransaction(r)
      PROVE  Goal
  <2>1. UNCHANGED <<connects, asked, shutdown, phase, pc>>
    BY <1>8 DEF CommitTransaction, IgnoreResponse, CancelTransaction, rareVars, connVars
  <2> QED
    BY <1>1, <2>1
<1>9. CASE Connect
  BY <1>0, <1>9 DEF Connect
<1>10. CASE \/ OpenFails \/ RenewLogout \/ SendNext \/ Sent \/ SessionTimeout \/ ShutdownRequested
            \/ UNCHANGED vars
  <2>1. /\ UNCHANGED <<connects, asked, shutdown, pc>>
        /\ phase \in Ending => phase' \in Ending
    BY <1>10 DEF OpenFails, RenewLogout, SendNext, Sent, SessionTimeout, ShutdownRequested, vars,
                 rareVars, connVars
  <2> QED
    BY <1>1, <2>1
<1>11. CASE \/ RenewFails \/ ConnectionLost \/ ClosingFails \/ Terminated
            \/ \E r \in wire : PanicOnUnawaited(r)
  <2>1. /\ UNCHANGED <<connects, asked, shutdown>> /\ phase \in Attached
        /\ pc' = [pc EXCEPT ![session] = LoginDropped]
        /\ phase \in Ending => phase' \in Ending
    BY <1>11 DEF RenewFails, ConnectionLost, ClosingFails, Terminated, ConnectFails, Hangup,
                 PanicOnUnawaited, rareVars, Attached
  <2>2. session # x
    BY <1>0, <2>1 DEF SessionInv, Senders
  <2> QED
    BY <1>0, <1>1, <2>1, <2>2 DEF TypeOK
<1>12. CASE LoggedOut
  <2>1. /\ UNCHANGED <<connects, asked>> /\ phase \in Attached /\ phase' = "terminating"
        /\ pc' = [pc EXCEPT ![session] = LoginDropped]
    BY <1>12 DEF LoggedOut, Attached
  <2>2. session # x
    BY <1>0, <2>1 DEF SessionInv, Senders
  <2> QED
    BY <1>0, <2>1, <2>2 DEF TypeOK
<1>13. CASE Opened \/ Renewed
  <2>1. /\ UNCHANGED <<connects, asked, shutdown>> /\ phase \notin Ending
        /\ session + 1 \in Sessions /\ pc' = [pc EXCEPT ![session + 1] = "nextTid"]
    BY <1>13, NewLogin DEF Opened, Renewed
  <2>2. session + 1 # x
    BY <1>0, <2>1 DEF Senders
  <2> QED
    BY <1>0, <1>1, <2>1, <2>2 DEF TypeOK
<1> QED
  BY Steps, <1>2, <1>3, <1>4, <1>5, <1>6, <1>7, <1>8, <1>9, <1>10, <1>11, <1>12, <1>13
----------------------------------------------------------------------------
\* The flag stays up while the session is logged out.
LEMMA ClosingStep ==
  TypeOK /\ SessionInv /\ ReadyMeansLoggedIn /\ ClosingInv /\ [Next]_vars => ClosingInv'
<1> SUFFICES ASSUME TypeOK, SessionInv, ReadyMeansLoggedIn, ClosingInv, [Next]_vars,
                    phase' = "closing"
             PROVE  shutdown'
  BY DEF ClosingInv
<1>1. CASE UNCHANGED phase /\ (UNCHANGED shutdown \/ shutdown')
  BY <1>1 DEF ClosingInv
<1>2. ASSUME NEW c \in Callers,
             \/ Call(c) \/ Cancel(c) \/ WaitTimeout(c) \/ GetLocations(c) \/ FindGateway(c)
      PROVE  shutdown'
  BY <1>1, <1>2 DEF Call, Cancel, WaitTimeout, GetLocations, FindGateway, connVars, rareVars
<1>3. ASSUME NEW s \in Senders,
             \/ NextTransactionId(s) \/ SocketSend(s) \/ InsertTransaction(s)
             \/ ReadReturns(s) \/ LoginReturns(s)
      PROVE  shutdown'
  BY <1>1, <1>3 DEF NextTransactionId, SocketSend, InsertTransaction, ReadReturns, LoginReturns,
                    connVars, rareVars
<1>4. ASSUME NEW s \in Senders,
             \/ TooManyTransactions(s) \/ SocketSendFails(s) \/ ResponseError(s)
             \/ CommandFailed(s) \/ CommandTimeout(s)
      PROVE  shutdown'
  <2>1. UNCHANGED shutdown
    BY <1>4 DEF TooManyTransactions, SocketSendFails, ResponseError, CommandFailed, CommandTimeout,
                rareVars
  <2>2. \E e : Fail(s, e)
    BY <1>4 DEF TooManyTransactions, SocketSendFails, ResponseError, CommandFailed, CommandTimeout
  <2>3. UNCHANGED phase
    BY <2>2 DEF Fail, ConnectFails, connVars
  <2> QED
    BY <1>1, <2>1, <2>3
<1>5. ASSUME NEW l \in Logouts,
             LogoutWhenReady(l) \/ SetShutdown(l) \/ LogoutReturns(l) \/ LogoutTimeout(l)
      PROVE  shutdown'
  BY <1>1, <1>5 DEF LogoutWhenReady, SetShutdown, LogoutReturns, LogoutTimeout, connVars, rareVars
<1>6. ASSUME NEW r \in wire, NEW failed \in BOOLEAN,
             \/ CommitTransaction(r, failed) \/ IgnoreResponse(r, failed) \/ CancelTransaction(r)
      PROVE  shutdown'
  BY <1>1, <1>6 DEF CommitTransaction, IgnoreResponse, CancelTransaction, connVars, rareVars
<1>7. CASE ShutdownRequested
  BY <1>7 DEF ShutdownRequested, rareVars
<1>8. CASE SendNext \/ Sent \/ UNCHANGED vars
  BY <1>1, <1>8 DEF SendNext, Sent, vars, connVars, rareVars
<1>9. ASSUME \/ Connect \/ OpenFails \/ Opened \/ RenewLogout \/ RenewFails \/ Renewed
             \/ ClosingFails \/ LoggedOut \/ Terminated \/ ConnectionLost \/ SessionTimeout
             \/ \E r \in wire : PanicOnUnawaited(r)
      PROVE  FALSE
  BY <1>9 DEF Connect, OpenFails, Opened, RenewLogout, RenewFails, Renewed, ClosingFails, LoggedOut,
              Terminated, ConnectionLost, SessionTimeout, PanicOnUnawaited, StartSession,
              ConnectFails
<1> QED
  BY Steps, <1>2, <1>3, <1>4, <1>5, <1>6, <1>7, <1>8, <1>9

LEMMA Initially == Init => IInv
<1> SUFFICES ASSUME Init PROVE IInv
  OBVIOUS
<1>1. \A s \in Senders : s \in Calls /\ NoOne # s /\ slot[s] = Empty /\ tid[s] = 0 /\ lapOf[s] = 0
  BY CallKinds DEF Init
<1>2. \A c \in Calls : pc[c] = "idle"
  BY DEF Init
<1>3. TypeOK
  BY TypeInit
<1>4. SessionInv /\ ReadyMeansLoggedIn
  BY <1>1, <1>2, CallKinds DEF Init, SessionInv, ReadyMeansLoggedIn, Attached
<1>5. CallInv /\ LookupFindsData
  BY <1>2, CallKinds DEF CallInv, LookupFindsData
<1>6. LockHeldInWindow
  BY <1>1, <1>2 DEF Init, LockHeldInWindow
<1>7. TableInv /\ AwaitHasSender
  BY <1>1, <1>2 DEF Init, TableInv, AwaitHasSender
<1>8. SlotInv /\ ResultInv /\ HeldByWaitingOrGivenUp
  BY <1>1, <1>2 DEF Init, SlotInv, ResultInv, HeldByWaitingOrGivenUp, Empty
<1>9. NumberInv /\ RequestInv /\ LapInv
  BY <1>1, <1>2 DEF Init, NumberInv, RequestInv, LapInv
<1>10. AnswerInv /\ MisdeliveryCrossesLaps
  BY <1>1 DEF Init, AnswerInv, MisdeliveryCrossesLaps, Empty
<1>11. PanicNeedsGivenUp
  BY DEF Init, PanicNeedsGivenUp
<1>12. ClosingInv /\ ShutdownInv /\ LogoutEndsConnect
  BY <1>2, CallKinds DEF Init, ClosingInv, ShutdownInv, LogoutEndsConnect
<1> QED
  BY <1>3, <1>4, <1>5, <1>6, <1>7, <1>8, <1>9, <1>10, <1>11, <1>12 DEF IInv

LEMMA Preserved == IInv /\ [Next]_vars => IInv'
<1> SUFFICES ASSUME IInv, [Next]_vars PROVE IInv'
  OBVIOUS
<1>1. TypeOK'
  BY TypeStep DEF IInv
<1>2. SessionInv' /\ ReadyMeansLoggedIn'
  BY SessionStep DEF IInv
<1>3. CallInv'
  BY CallStep DEF IInv
<1>4. LookupFindsData'
  BY <1>3 DEF CallInv, LookupFindsData
<1>5. LockHeldInWindow'
  BY LockStep DEF IInv
<1>6. TableInv' /\ AwaitHasSender'
  BY TableStep, AwaitStep DEF IInv
<1>7. SlotInv' /\ ResultInv' /\ HeldByWaitingOrGivenUp'
  BY SlotStep, ResultStep, HeldStep DEF IInv
<1>8. NumberInv' /\ RequestInv' /\ LapInv'
  BY NumberStep, RequestStep, LapStep DEF IInv
<1>9. AnswerInv'
  BY AnswerStep DEF IInv
<1>10. MisdeliveryCrossesLaps'
  BY <1>1, <1>8, <1>9, AnswerLap, PTL
<1>11. PanicNeedsGivenUp'
  BY PanicStep DEF IInv
<1>12. ClosingInv' /\ ShutdownInv' /\ LogoutEndsConnect'
  BY ClosingStep, ShutdownStep DEF IInv
<1> QED
  BY <1>1, <1>2, <1>3, <1>4, <1>5, <1>6, <1>7, <1>8, <1>9, <1>10, <1>11, <1>12 DEF IInv

\* The inductive invariant holds in every reachable state of every instance.
THEOREM Invariant == Spec => []IInv
  BY Initially, Preserved, PTL DEF Spec

\* Type correctness.
THEOREM TypeCorrect == Spec => []TypeOK
<1>1. IInv => TypeOK
  BY DEF IInv
<1> QED
  BY Invariant, <1>1, PTL

\* Client::ready is up only on a live session whose login has succeeded.
THEOREM ReadyIsLoggedIn == Spec => []ReadyMeansLoggedIn
<1>1. IInv => ReadyMeansLoggedIn
  BY DEF IInv
<1> QED
  BY Invariant, <1>1, PTL

\* A get_locations let through by ready never fails for want of login data.
THEOREM LookupsSucceed == Spec => []LookupFindsData
<1>1. IInv => LookupFindsData
  BY DEF IInv
<1> QED
  BY Invariant, <1>1, PTL

\* Dropped calls leave no socket mutex locked, and two calls never hold it.
THEOREM LockReleased == Spec => []LockHeldInWindow
<1>1. IInv => LockHeldInWindow
  BY DEF IInv
<1> QED
  BY Invariant, <1>1, PTL

\* No waiting call loses its entry without being told.
THEOREM WaitersAreListed == Spec => []AwaitHasSender
<1>1. IInv => AwaitHasSender
  BY DEF IInv
<1> QED
  BY Invariant, <1>1, PTL

\* A number is only held by a call that waits for its answer or has given up waiting for it.
THEOREM OnlyGivingUpLeaves == Spec => []HeldByWaitingOrGivenUp
<1>1. IInv => HeldByWaitingOrGivenUp
  BY DEF IInv
<1> QED
  BY Invariant, <1>1, PTL

\* Within one lap of the ring every call gets its own answer.
THEOREM OwnAnswerWithinLap == Spec => []MisdeliveryCrossesLaps
<1>1. IInv => MisdeliveryCrossesLaps
  BY DEF IInv
<1> QED
  BY Invariant, <1>1, PTL

\* What ClientError::TooManyTransactions does mean: every number is held by a call that waits for its
\* answer or gave up waiting for it.
THEOREM TooManyMeansHeld ==
  Spec => [][\A s \in Senders : pc[s] = "nextTid" /\ pc'[s] = "TooManyTransactions" =>
               \A t \in Tid : pc[table[t]] \in {"await", "CommandTimeout", "dropped"}]_vars
<1> DEFINE Held == \A s \in Senders : pc[s] = "nextTid" /\ pc'[s] = "TooManyTransactions" =>
                     \A t \in Tid : pc[table[t]] \in {"await", "CommandTimeout", "dropped"}
<1>1. IInv /\ [Next]_vars => [Held]_vars
  <2> SUFFICES ASSUME IInv, [Next]_vars, NEW s \in Senders, NEW t \in Tid,
                      pc[s] = "nextTid", pc'[s] = "TooManyTransactions"
               PROVE  pc[table[t]] \in {"await", "CommandTimeout", "dropped"}
    OBVIOUS
  <2>1. t \in Used
    BY TooManyNoneFree DEF IInv, NoneFree
  <2> QED
    BY <2>1 DEF Used, IInv, HeldByWaitingOrGivenUp
<1> QED
  BY <1>1, Invariant, PTL DEF Spec

\* What tests/client.rs asserts holds until the numbering starts over: before the first renewal, and
\* as long as the numbers have not gone round, every read that succeeds returns its own answer.
THEOREM OwnReplyInFirstLap == Spec => [](lap <= 1 => OwnReply)
<1>1. IInv /\ lap <= 1 => OwnReply
  <2> SUFFICES ASSUME IInv, lap <= 1, NEW r \in Reads, pc[r] = "ok"
               PROVE  slot[r].from = r
    BY DEF OwnReply
  <2>1. r \in Senders
    BY DEF Senders
  <2>2. slot[r].from \in {NoOne, r} /\ slot[r].from # NoOne
    BY <2>1, FirstLap DEF IInv, ResultInv
  <2> QED
    BY <2>1, <2>2
<1> QED
  BY Invariant, <1>1, PTL

\* The task of connect() dies only of a call that timed out or was dropped.
THEOREM PanicsOnlyAfterGivingUp == Spec => []PanicNeedsGivenUp
<1>1. IInv => PanicNeedsGivenUp
  BY DEF IInv
<1> QED
  BY Invariant, <1>1, PTL

\* logout() does not return Ok while the connect() it was aimed at goes on.
THEOREM LogoutStops == Spec => []LogoutEndsConnect
<1>1. IInv => LogoutEndsConnect
  BY DEF IInv
<1> QED
  BY Invariant, <1>1, PTL
============================================================================
