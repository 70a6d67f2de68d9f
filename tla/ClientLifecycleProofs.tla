----------------------- MODULE ClientLifecycleProofs -----------------------
(* The Client implements the Lifecycle and the Connection, for every value *)
(* of the constants.                                                       *)
EXTENDS ClientProofs, ClientLifecycle

\* Only what a logout does to its own place shows in Caller.
LEMMA CallerMoves ==
  ASSUME TypeOK, NEW c, NEW p, pc' = [pc EXCEPT ![c] = p]
  PROVE  /\ c \notin Logouts => Caller' = Caller
         /\ c \in Logouts => Caller' = [Caller EXCEPT ![c] = Asking(p)]
  BY CallKinds DEF Caller, TypeOK

LEMMA AskingAt ==
  /\ \A p \in {"idle", "waitReady", "setShutdown"} : Asking(p) = "idle"
  /\ Asking("waitUnready") = "asked"
  /\ Asking("ok") = "ok"
  /\ \A p \in {"dropped", "CommandTimeout"} : Asking(p) = "gaveUp"
  BY DEF Asking

LEMMA CallerAt ==
  ASSUME NEW l \in Logouts
  PROVE  Caller[l] = Asking(pc[l])
  BY DEF Caller

\* A step that shows nowhere.
LEMMA Stutter ==
  ASSUME UNCHANGED <<Conn, outcome, ready, connects, shutdown, Caller>>
  PROVE  [L!Next]_(L!vars)
  BY DEF L!vars

\* A logout gives up before or after it has asked.
LEMMA GivesUp ==
  ASSUME TypeOK, NEW l \in Logouts, NEW p \in {"dropped", "CommandTimeout"},
         pc[l] \in {"waitReady", "setShutdown", "waitUnready"}, pc' = [pc EXCEPT ![l] = p],
         UNCHANGED <<phase, outcome, ready, connects, shutdown>>
  PROVE  [L!Next]_(L!vars)
<1>1. Caller[l] \in {"idle", "asked"}
  BY CallerAt, AskingAt
<1>3. Caller' = [Caller EXCEPT ![l] = "gaveUp"]
  <2>1. Caller' = [Caller EXCEPT ![l] = Asking(p)]
    BY CallerMoves
  <2> QED
    BY <2>1, AskingAt
<1>2. UNCHANGED Conn
  BY DEF Conn
<1>4. L!GiveUp(l)
  BY <1>1, <1>2, <1>3 DEF L!GiveUp
<1> QED
  BY <1>4 DEF L!Next

\* connect() returns an error.
LEMMA Fails ==
  ASSUME TypeOK, Conn = "up", phase' = "idle", outcome' = "err", ~ready', ready' \in BOOLEAN,
         UNCHANGED <<connects, shutdown, Caller>>
  PROVE  [L!Next]_(L!vars)
<1>1. Conn' = "idle" /\ ready' = FALSE
  BY DEF Conn
<1> QED
  BY <1>1 DEF L!Next, L!Fail

LEMMA UpPhases ==
  /\ phase \in {"opening", "running", "sending", "closing", "renewLogout", "renewOpen"} => Conn = "up"
  /\ phase = "idle" => Conn = "idle"
  /\ phase = "terminating" => Conn = "stopping"
  /\ phase = "panicked" => Conn = "crashed"
  BY DEF Conn

LEMMA RefinementStep == IInv /\ IInv' /\ [Next]_vars => [L!Next]_(L!vars)
<1> SUFFICES ASSUME IInv, IInv', [Next]_vars PROVE [L!Next]_(L!vars)
  OBVIOUS
<1>0. TypeOK /\ SessionInv /\ ReadyMeansLoggedIn /\ CallInv /\ ClosingInv /\ TypeOK'
  BY DEF IInv
<1>01. UNCHANGED phase => UNCHANGED Conn
  BY DEF Conn
<1>02. UNCHANGED pc => UNCHANGED Caller
  BY DEF Caller
<1>1. ASSUME NEW c \in Callers, Call(c) \/ GetLocations(c) \/ FindGateway(c)
      PROVE  [L!Next]_(L!vars)
  <2>1. UNCHANGED <<phase, outcome, ready, connects, shutdown>>
    BY <1>1 DEF Call, GetLocations, FindGateway, connVars, rareVars
  <2>2. \/ pc[c] = "idle" /\ pc' = [pc EXCEPT ![c] = "waitReady"]
        \/ c \in Lookups \union Reads /\ \E p : pc' = [pc EXCEPT ![c] = p]
    BY <1>1 DEF Call, GetLocations, FindGateway
  <2>3. UNCHANGED Caller
    <3>1. CASE c \in Logouts
      <4>1. Caller' = [Caller EXCEPT ![c] = "idle"] /\ Caller[c] = "idle"
        BY <1>0, <2>2, <3>1, CallKinds, CallerMoves, AskingAt DEF Caller
      <4> QED
        BY <4>1 DEF Caller
    <3>2. CASE c \notin Logouts
      BY <1>0, <2>2, <3>2, CallerMoves
    <3> QED
      BY <3>1, <3>2
  <2> QED
    BY <1>01, <2>1, <2>3, Stutter
<1>2. ASSUME NEW c \in Callers, Cancel(c) \/ WaitTimeout(c)
      PROVE  [L!Next]_(L!vars)
  <2>1. /\ UNCHANGED <<phase, outcome, ready, connects, shutdown>>
        /\ \E p \in {"dropped", "CommandTimeout"} : pc' = [pc EXCEPT ![c] = p]
        /\ pc[c] \notin Ended \union {"idle"}
    BY <1>2, PlaceNames DEF Cancel, WaitTimeout, connVars, rareVars
  <2>2. CASE c \in Logouts
    <3>1. pc[c] \in {"waitReady", "setShutdown", "waitUnready"}
      BY <1>0, <2>1, <2>2, PlaceNames DEF CallInv
    <3> QED
      BY <1>0, <2>1, <2>2, <3>1, GivesUp
  <2>3. CASE c \notin Logouts
    BY <1>0, <1>01, <2>1, <2>3, CallerMoves, Stutter
  <2> QED
    BY <2>2, <2>3
<1>3. ASSUME NEW s \in Senders,
             NextTransactionId(s) \/ SocketSend(s) \/ InsertTransaction(s) \/ ReadReturns(s)
      PROVE  [L!Next]_(L!vars)
  <2>1. /\ UNCHANGED <<phase, outcome, ready, connects, shutdown>>
        /\ \E p : pc' = [pc EXCEPT ![s] = p]
        /\ s \notin Logouts
    BY <1>3, CallKinds DEF NextTransactionId, SocketSend, InsertTransaction, ReadReturns,
                           connVars, rareVars
  <2> QED
    BY <1>0, <1>01, <2>1, CallerMoves, Stutter
<1>4. ASSUME NEW s \in Senders, LoginReturns(s)
      PROVE  [L!Next]_(L!vars)
  <2>1. s \in Sessions /\ pc[s] = "await"
    BY <1>4 DEF LoginReturns
  <2>2. Conn = "up" /\ UNCHANGED Conn
    BY <1>0, <1>01, <1>4, <2>1, LiveLogin, UpPhases DEF LoginReturns
  <2>3. /\ ready' = TRUE /\ UNCHANGED <<outcome, connects, shutdown>>
        /\ pc' = [pc EXCEPT ![s] = "ok"] /\ s \notin Logouts
    BY <1>4, <2>1, CallKinds DEF LoginReturns
  <2>4. UNCHANGED Caller
    BY <1>0, <2>3, CallerMoves
  <2> QED
    BY <2>2, <2>3, <2>4 DEF L!Next, L!BecomeReady
<1>5. ASSUME NEW s \in Senders,
             \/ TooManyTransactions(s) \/ SocketSendFails(s) \/ ResponseError(s)
             \/ CommandFailed(s) \/ CommandTimeout(s)
      PROVE  [L!Next]_(L!vars)
  <2>1. /\ pc[s] \in {"nextTid", "socketSend", "insert", "await"}
        /\ UNCHANGED <<connects, shutdown>>
    BY <1>5 DEF TooManyTransactions, SocketSendFails, ResponseError, CommandFailed, CommandTimeout,
                rareVars
  <2>2. PICK e : Fail(s, e)
    BY <1>5 DEF TooManyTransactions, SocketSendFails, ResponseError, CommandFailed, CommandTimeout
  <2>3. CASE s \in Sessions /\ ConnectFails(e)
    <3>1. Conn = "up" /\ s = session
      BY <1>0, <2>1, <2>3, LiveLogin, UpPhases
    <3>2. /\ phase' = "idle" /\ outcome' = "err" /\ ready' = FALSE
          /\ pc' = [pc EXCEPT ![s] = e] /\ s \notin Logouts
      BY <2>3, <3>1, CallKinds DEF ConnectFails, Hangup
    <3>3. UNCHANGED Caller
      BY <1>0, <3>2, CallerMoves
    <3> QED
      BY <1>0, <2>1, <3>1, <3>2, <3>3, Fails
  <2>4. CASE s \in Reads /\ pc' = [pc EXCEPT ![s] = e] /\ UNCHANGED connVars
    <3>1. s \notin Logouts
      BY <2>4, CallKinds
    <3> QED
      BY <1>0, <1>01, <2>1, <2>4, <3>1, CallerMoves, Stutter DEF connVars
  <2> QED
    BY <2>2, <2>3, <2>4 DEF Fail
<1>6. ASSUME NEW l \in Logouts, LogoutWhenReady(l)
      PROVE  [L!Next]_(L!vars)
  <2>1. /\ UNCHANGED <<phase, outcome, ready, connects, shutdown>>
        /\ pc[l] = "waitReady" /\ pc' = [pc EXCEPT ![l] = "setShutdown"]
    BY <1>6 DEF LogoutWhenReady, connVars, rareVars
  <2>2. Caller' = [Caller EXCEPT ![l] = "idle"] /\ Caller[l] = "idle"
    BY <1>0, <2>1, CallerMoves, AskingAt DEF Caller
  <2>3. UNCHANGED Caller
    BY <2>2 DEF Caller
  <2> QED
    BY <1>01, <2>1, <2>3, Stutter
<1>7. ASSUME NEW l \in Logouts, SetShutdown(l)
      PROVE  [L!Next]_(L!vars)
  <2>1. /\ UNCHANGED <<phase, outcome, ready, connects>> /\ shutdown' = TRUE
        /\ pc[l] = "setShutdown" /\ pc' = [pc EXCEPT ![l] = "waitUnready"]
    BY <1>7 DEF SetShutdown, connVars
  <2>2. Caller[l] = "idle"
    BY <2>1, CallerAt, AskingAt
  <2>3. Caller' = [Caller EXCEPT ![l] = Asking("waitUnready")]
    BY <1>0, <2>1, CallerMoves
  <2>4. L!AskStop(l)
    BY <1>01, <2>1, <2>2, <2>3, AskingAt DEF L!AskStop
  <2> QED
    BY <2>4 DEF L!Next
<1>8. ASSUME NEW l \in Logouts, LogoutReturns(l)
      PROVE  [L!Next]_(L!vars)
  <2>1. /\ UNCHANGED <<phase, outcome, ready, connects, shutdown>> /\ ~shutdown
        /\ pc[l] = "waitUnready" /\ pc' = [pc EXCEPT ![l] = "ok"]
    BY <1>8 DEF LogoutReturns, connVars, rareVars
  <2>2. Caller[l] = "asked"
    BY <2>1, CallerAt, AskingAt
  <2>3. Caller' = [Caller EXCEPT ![l] = Asking("ok")]
    BY <1>0, <2>1, CallerMoves
  <2>4. L!StopAnswered(l)
    BY <1>01, <2>1, <2>2, <2>3, AskingAt DEF L!StopAnswered
  <2> QED
    BY <2>4 DEF L!Next
<1>9. ASSUME NEW l \in Logouts, LogoutTimeout(l)
      PROVE  [L!Next]_(L!vars)
  BY <1>0, <1>9, GivesUp DEF LogoutTimeout, connVars, rareVars
<1>10. ASSUME NEW r \in wire, NEW failed \in BOOLEAN,
              \/ CommitTransaction(r, failed) \/ IgnoreResponse(r, failed) \/ CancelTransaction(r)
       PROVE  [L!Next]_(L!vars)
  <2>1. UNCHANGED <<phase, outcome, ready, connects, shutdown, pc>>
    BY <1>10 DEF CommitTransaction, IgnoreResponse, CancelTransaction, connVars, rareVars
  <2> QED
    BY <1>01, <1>02, <2>1, Stutter
<1>11. ASSUME pc' = [pc EXCEPT ![session] = LoginDropped], phase \in Attached
       PROVE  UNCHANGED Caller
  <2>1. session \notin Logouts
    BY <1>0, <1>11, CallKinds DEF SessionInv
  <2> QED
    BY <1>0, <1>11, <2>1, CallerMoves
<1>12. ASSUME NEW r \in wire, PanicOnUnawaited(r)
       PROVE  [L!Next]_(L!vars)
  <2>1. /\ phase = "running" /\ phase' = "panicked" /\ UNCHANGED <<outcome, ready, connects, shutdown>>
        /\ pc' = [pc EXCEPT ![session] = LoginDropped]
    BY <1>12 DEF PanicOnUnawaited, Hangup, rareVars
  <2>2. UNCHANGED Caller
    BY <1>11, <2>1 DEF Attached
  <2>3. Conn = "up" /\ Conn' = "crashed"
    BY <2>1 DEF Conn
  <2> QED
    BY <2>1, <2>2, <2>3 DEF L!Next, L!Crash
<1>13. CASE Connect
  <2>1. Conn = "idle" /\ Conn' = "up"
    BY <1>13 DEF Connect, Conn
  <2>2. UNCHANGED <<outcome, ready, shutdown, Caller>> /\ connects < MaxConnects /\ connects' = connects + 1
    BY <1>02, <1>13 DEF Connect
  <2> QED
    BY <2>1, <2>2 DEF L!Next, L!Start
<1>14. CASE OpenFails
  <2>1. /\ Conn = "up" /\ phase' = "idle" /\ outcome' = "err" /\ ~ready /\ UNCHANGED ready
        /\ UNCHANGED <<connects, shutdown, Caller>>
    BY <1>0, <1>02, <1>14, UpPhases DEF OpenFails, ReadyMeansLoggedIn, rareVars
  <2> QED
    BY <1>0, <2>1, Fails DEF TypeOK, ConnTypeOK
<1>15. CASE RenewFails
  <2>1. /\ Conn = "up" /\ phase' = "idle" /\ outcome' = "err" /\ ~ready /\ UNCHANGED ready
        /\ UNCHANGED <<connects, shutdown>>
    BY <1>0, <1>15, UpPhases DEF RenewFails, ReadyMeansLoggedIn, rareVars
  <2>2. UNCHANGED Caller
    BY <1>11, <1>15 DEF RenewFails, Hangup, Attached
  <2> QED
    BY <1>0, <2>1, <2>2, Fails DEF TypeOK, ConnTypeOK
<1>16. CASE ConnectionLost \/ ClosingFails
  <2>1. /\ Conn = "up" /\ phase' = "idle" /\ outcome' = "err" /\ ready' = FALSE
        /\ UNCHANGED <<connects, shutdown>>
    BY <1>16, UpPhases DEF ConnectionLost, ClosingFails, ConnectFails, rareVars
  <2>2. UNCHANGED Caller
    BY <1>11, <1>16 DEF ConnectionLost, ClosingFails, ConnectFails, Hangup, Attached
  <2> QED
    BY <1>0, <2>1, <2>2, Fails
<1>17. CASE Opened \/ Renewed
  <2>1. /\ UNCHANGED <<outcome, ready, connects, shutdown>> /\ phase \in {"opening", "renewOpen"}
        /\ StartSession
    BY <1>17 DEF Opened, Renewed
  <2>2. UNCHANGED Conn
    BY <2>1 DEF StartSession, Conn
  <2>3. UNCHANGED Caller
    BY <1>0, <2>1, NewLogin, CallKinds, CallerMoves
  <2> QED
    BY <2>1, <2>2, <2>3, Stutter
<1>18. CASE RenewLogout
  <2>1. UNCHANGED <<Conn, outcome, ready, connects, shutdown, Caller>>
    BY <1>02, <1>18 DEF RenewLogout, Conn, rareVars
  <2> QED
    BY <2>1, Stutter
<1>19. CASE LoggedOut
  <2>1. /\ phase = "closing" /\ Conn = "up" /\ Conn' = "stopping" /\ shutdown /\ shutdown' = FALSE
        /\ UNCHANGED <<outcome, ready, connects>>
    BY <1>0, <1>19 DEF LoggedOut, Conn, ClosingInv
  <2>2. UNCHANGED Caller
    BY <1>11, <1>19 DEF LoggedOut, Attached
  <2> QED
    BY <2>1, <2>2 DEF L!Next, L!TakeStop
<1>20. CASE Terminated
  <2>1. /\ phase = "terminating" /\ Conn = "stopping" /\ Conn' = "idle" /\ ready' = FALSE
        /\ outcome' = "ok" /\ UNCHANGED <<connects, shutdown>>
    BY <1>20 DEF Terminated, Conn, rareVars
  <2>2. UNCHANGED Caller
    BY <1>11, <1>20 DEF Terminated, Hangup, Attached
  <2> QED
    BY <2>1, <2>2 DEF L!Next, L!Stopped
<1>21. CASE SessionTimeout \/ ShutdownRequested
  <2>1. /\ Conn = "up" /\ Conn' = "up" /\ ready' = FALSE
        /\ UNCHANGED <<outcome, connects, shutdown, Caller>>
    BY <1>02, <1>21 DEF SessionTimeout, ShutdownRequested, Conn, rareVars
  <2> QED
    BY <2>1 DEF L!Next, L!BecomeUnready
<1>22. CASE SendNext \/ Sent
  <2>1. /\ Conn = "up" /\ Conn' = "up"
        /\ UNCHANGED <<outcome, ready, connects, shutdown, Caller>>
    BY <1>02, <1>22 DEF SendNext, Sent, Conn, rareVars
  <2> QED
    BY <2>1 DEF L!vars
<1>23. CASE UNCHANGED vars
  BY <1>01, <1>02, <1>23, Stutter DEF vars, connVars, rareVars
<1> QED
  BY Steps, <1>1, <1>2, <1>3, <1>4, <1>5, <1>6, <1>7, <1>8, <1>9, <1>10, <1>12, <1>13, <1>14, <1>15,
     <1>16, <1>17, <1>18, <1>19, <1>20, <1>21, <1>22, <1>23

\* Every behaviour of the Client is one of the Lifecycle: to its owner, connect() and logout()
\* keep the promises of that module whatever Symphony and the other calls do.
THEOREM Refinement == Spec => ImplementsLifecycle
<1>1. Init => L!Init
  <2> SUFFICES ASSUME Init PROVE L!Init
    OBVIOUS
  <2>1. Conn = "idle"
    BY DEF Init, Conn
  <2>2. Caller = [l \in Logouts |-> "idle"]
    BY AskingAt, CallKinds DEF Init, Caller
  <2> QED
    BY <2>1, <2>2 DEF Init, L!Init
<1> QED
  BY <1>1, Invariant, RefinementStep, PTL DEF Spec, L!Spec, ImplementsLifecycle
----------------------------------------------------------------------------
(* The stages of connect().                                                *)

\* An error ends connect() from wherever it has a connection or is about to have one.
LEMMA FailsStage ==
  ASSUME phase \in {"opening", "running", "sending", "closing", "renewLogout", "renewOpen"},
         phase' = "idle", outcome' = "err"
  PROVE  K!Next
<1>1. Stage \in {"connecting", "running", "closing"} /\ Stage' = "idle"
  BY DEF Stage
<1> QED
  BY <1>1 DEF K!Next, K!Fail

\* What leaves phase and outcome alone does not show.
LEMMA StageStays ==
  ASSUME UNCHANGED <<phase, outcome>>
  PROVE  UNCHANGED K!vars
  BY DEF Stage, K!vars

\* A call moves connect() only if it is the login and fails.
LEMMA CallsStage ==
  ASSUME IInv,
         \/ \E c \in Callers : \/ Call(c) \/ Cancel(c) \/ WaitTimeout(c)
                              \/ GetLocations(c) \/ FindGateway(c)
         \/ \E s \in Senders : \/ NextTransactionId(s) \/ TooManyTransactions(s)
                              \/ SocketSend(s) \/ SocketSendFails(s) \/ InsertTransaction(s)
                              \/ ReadReturns(s) \/ LoginReturns(s) \/ ResponseError(s)
                              \/ CommandFailed(s) \/ CommandTimeout(s)
         \/ \E l \in Logouts : \/ LogoutWhenReady(l) \/ SetShutdown(l)
                              \/ LogoutReturns(l) \/ LogoutTimeout(l)
  PROVE  [K!Next]_(K!vars)
<1>1. ASSUME NEW s \in Senders, NEW e, Fail(s, e),
             pc[s] \in {"nextTid", "socketSend", "insert", "await"}
      PROVE  [K!Next]_(K!vars)
  <2>1. CASE s \in Sessions /\ ConnectFails(e)
    <3>1. phase \in {"running", "sending", "closing"}
      BY <1>1, <2>1, LiveLogin DEF IInv
    <3>2. phase' = "idle" /\ outcome' = "err"
      BY <2>1 DEF ConnectFails
    <3> QED
      BY <3>1, <3>2, FailsStage
  <2>2. CASE UNCHANGED connVars
    BY <2>2, StageStays DEF connVars
  <2> QED
    BY <1>1, <2>1, <2>2 DEF Fail
<1>2. ASSUME NEW s \in Senders,
             \/ TooManyTransactions(s) \/ SocketSendFails(s) \/ ResponseError(s)
             \/ CommandFailed(s) \/ CommandTimeout(s)
      PROVE  [K!Next]_(K!vars)
  <2>1. pc[s] \in {"nextTid", "socketSend", "insert", "await"}
    BY <1>2 DEF TooManyTransactions, SocketSendFails, ResponseError, CommandFailed, CommandTimeout
  <2>2. \E e : Fail(s, e)
    BY <1>2 DEF TooManyTransactions, SocketSendFails, ResponseError, CommandFailed, CommandTimeout
  <2> QED
    BY <1>1, <2>1, <2>2
<1>3. ASSUME NEW c \in Callers,
             Call(c) \/ Cancel(c) \/ WaitTimeout(c) \/ GetLocations(c) \/ FindGateway(c)
      PROVE  [K!Next]_(K!vars)
  BY <1>3, StageStays DEF Call, Cancel, WaitTimeout, GetLocations, FindGateway, connVars
<1>4. ASSUME NEW s \in Senders,
             \/ NextTransactionId(s) \/ SocketSend(s) \/ InsertTransaction(s)
             \/ ReadReturns(s) \/ LoginReturns(s)
      PROVE  [K!Next]_(K!vars)
  BY <1>4, StageStays DEF NextTransactionId, SocketSend, InsertTransaction, ReadReturns, LoginReturns,
                          connVars
<1>5. ASSUME NEW l \in Logouts,
             LogoutWhenReady(l) \/ SetShutdown(l) \/ LogoutReturns(l) \/ LogoutTimeout(l)
      PROVE  [K!Next]_(K!vars)
  BY <1>5, StageStays DEF LogoutWhenReady, SetShutdown, LogoutReturns, LogoutTimeout, connVars
<1> QED
  BY <1>2, <1>3, <1>4, <1>5

\* connect() itself.
LEMMA LoopStage ==
  ASSUME \/ Connect \/ OpenFails \/ Opened \/ RenewLogout \/ RenewFails \/ Renewed
         \/ ClosingFails \/ LoggedOut \/ Terminated
         \/ SendNext \/ Sent \/ ConnectionLost \/ SessionTimeout \/ ShutdownRequested
         \/ \E r \in wire : PanicOnUnawaited(r)
  PROVE  [K!Next]_(K!vars)
<1>1. CASE OpenFails \/ RenewFails \/ ClosingFails \/ ConnectionLost
  <2>1. /\ phase \in {"opening", "running", "closing", "renewLogout", "renewOpen"}
        /\ phase' = "idle" /\ outcome' = "err"
    BY <1>1 DEF OpenFails, RenewFails, ClosingFails, ConnectionLost, ConnectFails
  <2> QED
    BY <2>1, FailsStage
<1>2. CASE Connect
  <2>1. Stage = "idle" /\ Stage' = "connecting" /\ UNCHANGED outcome
    BY <1>2 DEF Connect, Stage
  <2> QED
    BY <2>1 DEF K!Next, K!Begin, K!Moves
<1>3. CASE Opened \/ Renewed
  <2>1. phase \in {"opening", "renewOpen"} /\ phase' = "running" /\ UNCHANGED outcome
    BY <1>3 DEF Opened, Renewed, StartSession
  <2>2. Stage = "connecting" /\ Stage' = "running"
    BY <2>1 DEF Stage
  <2> QED
    BY <2>1, <2>2 DEF K!Next, K!Establish, K!Moves
<1>4. CASE SessionTimeout
  <2>1. Stage = "running" /\ Stage' = "connecting" /\ UNCHANGED outcome
    BY <1>4 DEF SessionTimeout, Stage
  <2> QED
    BY <2>1 DEF K!Next, K!Renew, K!Moves
<1>5. CASE ShutdownRequested
  <2>1. Stage = "running" /\ Stage' = "closing" /\ UNCHANGED outcome
    BY <1>5 DEF ShutdownRequested, Stage
  <2> QED
    BY <2>1 DEF K!Next, K!Stop, K!Moves
<1>6. CASE Terminated
  <2>1. Stage = "closing" /\ Stage' = "idle" /\ outcome' = "ok"
    BY <1>6 DEF Terminated, Stage
  <2> QED
    BY <2>1 DEF K!Next, K!Finish
<1>7. CASE RenewLogout \/ LoggedOut \/ SendNext \/ Sent
  <2>1. UNCHANGED outcome
    BY <1>7 DEF RenewLogout, LoggedOut, SendNext, Sent
  <2>2. UNCHANGED Stage
    BY <1>7 DEF RenewLogout, LoggedOut, SendNext, Sent, Stage
  <2> QED
    BY <2>1, <2>2 DEF K!vars
<1>8. ASSUME NEW r \in wire, PanicOnUnawaited(r)
      PROVE  [K!Next]_(K!vars)
  <2>1. Stage = "running" /\ Stage' = "dead" /\ UNCHANGED outcome
    BY <1>8 DEF PanicOnUnawaited, Stage
  <2> QED
    BY <2>1 DEF K!Next, K!Die, K!Moves
<1> QED
  BY <1>1, <1>2, <1>3, <1>4, <1>5, <1>6, <1>7, <1>8

\* The Client takes connect() through the stages of Connection, as the Session does (SessionProofs):
\* it runs only on a connection it has made since the last failure, and returns Ok only from the
\* logout of a stop request.
THEOREM Follows == Spec => ClientFollowsConnection
<1>1. Init => K!Init
  BY DEF Init, K!Init, Stage
<1>2. ASSUME IInv, [Next]_vars PROVE [K!Next]_(K!vars)
  <2>1. ASSUME NEW r \in wire, NEW failed \in BOOLEAN,
               \/ CommitTransaction(r, failed) \/ IgnoreResponse(r, failed) \/ CancelTransaction(r)
        PROVE  [K!Next]_(K!vars)
    BY <2>1, StageStays DEF CommitTransaction, IgnoreResponse, CancelTransaction, connVars
  <2>2. CASE UNCHANGED vars
    BY <2>2, StageStays DEF vars, connVars
  <2> QED
    BY <1>2, <2>1, <2>2, Steps, CallsStage, LoopStage
<1> QED
  BY <1>1, <1>2, Invariant, PTL DEF Spec, K!Spec, ClientFollowsConnection
============================================================================
