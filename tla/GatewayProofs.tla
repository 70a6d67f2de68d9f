--------------------------- MODULE GatewayProofs ---------------------------
(* The gateway's safety properties, for any requests and reconnections.    *)
EXTENDS GatewayService, TLAPS

LEMMA Initially == Init => IInv
<1> SUFFICES ASSUME Init PROVE IInv
  OBVIOUS
<1>1. caller \in [{"shutdown"} -> {"idle", "asked", "ok", "gaveUp"}] /\ caller["shutdown"] = "idle"
  BY DEF Init, Client!Init
<1>2. request \in [Requests -> Codes \union {"new", "inside", "reading", "gone"}]
  BY DEF Init
<1>3. starts \in 0 .. MaxConnects
  BY GatewayAssumption DEF Init, Client!Init
<1>5. server = "running" /\ loop = "select"
  BY DEF Init
<1>4. TypeOK
  BY <1>1, <1>2, <1>3 DEF Init, Client!Init, TypeOK, Over
<1> QED
  BY <1>1, <1>4, <1>5 DEF Init, Client!Init, IInv, CleanExit, DisabledDuringRetry

\* What the client does by itself.
LEMMA ClientKeeps == IInv /\ ClientSteps => IInv'
<1> SUFFICES ASSUME IInv, ClientSteps PROVE IInv'
  OBVIOUS
<1> USE DEF IInv, TypeOK, CleanExit, DisabledDuringRetry, Over, Inside, ClientSteps, loopVars, serverVars
<1>1. CASE Client!BecomeReady
  BY <1>1 DEF Client!BecomeReady
<1>6. CASE Client!BecomeUnready
  BY <1>6 DEF Client!BecomeUnready
<1>2. CASE Client!Fail
  BY <1>2 DEF Client!Fail
<1>3. CASE Client!Crash
  BY <1>3 DEF Client!Crash
<1>4. CASE Client!TakeStop
  BY <1>4 DEF Client!TakeStop
<1>5. CASE Client!Stopped
  BY <1>5 DEF Client!Stopped
<1> QED
  BY <1>1, <1>2, <1>3, <1>4, <1>5, <1>6

\* What the gateway's logout does to it.
LEMMA LogoutKeeps == IInv /\ LogoutSteps => IInv'
<1> SUFFICES ASSUME IInv, LogoutSteps PROVE IInv'
  OBVIOUS
<1> USE DEF IInv, TypeOK, CleanExit, DisabledDuringRetry, Over, Inside, LogoutSteps, loopVars, serverVars
<1>1. CASE Client!AskStop("shutdown")
  BY <1>1 DEF Client!AskStop
<1>2. CASE Client!StopAnswered("shutdown")
  BY <1>2 DEF Client!StopAnswered
<1>3. CASE Client!GiveUp("shutdown")
  BY <1>3 DEF Client!GiveUp
<1> QED
  BY <1>1, <1>2, <1>3

\* The loop.
LEMMA SelectKeeps == IInv /\ Select => IInv'
<1> SUFFICES ASSUME IInv, Select PROVE IInv'
  OBVIOUS
<1> USE DEF IInv, TypeOK, CleanExit, DisabledDuringRetry, Over, Inside, clientVars, serverVars
<1>1. CASE ConnectReturned
  BY <1>1 DEF ConnectReturned
<1>2. CASE Respawn
  BY <1>2 DEF Respawn
<1>3. CASE JoinFails
  BY <1>3 DEF JoinFails
<1>4. CASE ClientReadyAgain
  BY <1>4 DEF ClientReadyAgain
<1>5. CASE EnableRoutes
  BY <1>5 DEF EnableRoutes
<1>6. CASE PollsDeadHandle
  BY <1>6 DEF PollsDeadHandle
<1>7. CASE ServerReturned
  BY <1>7 DEF ServerReturned
<1>8. CASE LogoutReturned
  BY <1>8 DEF LogoutReturned
<1> QED
  BY <1>1, <1>2, <1>3, <1>4, <1>5, <1>6, <1>7, <1>8 DEF Select

\* Requests and the end of the server only touch their own state.
LEMMA ServerKeeps ==
  ASSUME IInv,
         \/ ShutdownSignal \/ Drained
         \/ \E r \in Requests : CheckReady(r) \/ Unrouted(r) \/ Handle(r) \/ HangUp(r)
  PROVE  IInv' /\ UNCHANGED <<clientVars, loopVars>>
<1> USE DEF clientVars, loopVars
<1>1. UNCHANGED <<clientVars, loopVars>>
  BY DEF ShutdownSignal, Drained, CheckReady, Handle, HangUp, Unrouted, GatewaysAnswered, ZonesAnswered,
         ReadBegins, ReadAnswered, ReadyTimedOut
<1>2. server' \in {"running", "draining", "done"}
  BY DEF ShutdownSignal, Drained, CheckReady, Handle, HangUp, Unrouted, GatewaysAnswered, ZonesAnswered,
         ReadBegins, ReadAnswered, ReadyTimedOut, IInv, TypeOK
<1>3. request' \in [Requests -> Codes \union {"new", "inside", "reading", "gone"}]
  BY DEF ShutdownSignal, Drained, CheckReady, Handle, HangUp, Unrouted, GatewaysAnswered, ZonesAnswered,
         ReadBegins, ReadAnswered, ReadyTimedOut, IInv, TypeOK, Codes
<1>4. server' = "done" => Inside' = {}
  <2>1. CASE ShutdownSignal
    BY <2>1 DEF ShutdownSignal
  <2>2. CASE Drained
    BY <2>2 DEF Drained, Inside
  <2>3. ASSUME NEW r \in Requests, CheckReady(r) \/ Unrouted(r) \/ Handle(r) \/ HangUp(r)
        PROVE  server' # "done"
    <3>1. server' = server /\ (server = "running" \/ r \in Inside)
      BY <2>3 DEF CheckReady, Unrouted, Handle, HangUp, GatewaysAnswered, ZonesAnswered, ReadBegins,
                  ReadAnswered, ReadyTimedOut, Inside
    <3> QED
      BY <3>1 DEF IInv
  <2> QED
    BY <2>1, <2>2, <2>3
<1>5. server = "done" => server' = "done"
  BY DEF ShutdownSignal, Drained, CheckReady, Handle, HangUp, Unrouted, GatewaysAnswered, ZonesAnswered,
         ReadBegins, ReadAnswered, ReadyTimedOut
<1> QED
  BY <1>1, <1>2, <1>3, <1>4, <1>5 DEF IInv, TypeOK, CleanExit, DisabledDuringRetry

LEMMA BeginKeeps == IInv /\ ConnectBegins => IInv'
  BY GatewayAssumption
  DEF IInv, TypeOK, CleanExit, DisabledDuringRetry, Over, Inside, ConnectBegins, Client!Start, serverVars

LEMMA Preserved == IInv /\ [Next]_vars => IInv'
<1> SUFFICES ASSUME IInv, [Next]_vars PROVE IInv'
  OBVIOUS
<1>1. CASE UNCHANGED vars
  BY <1>1 DEF vars, clientVars, loopVars, serverVars, IInv, TypeOK, CleanExit, DisabledDuringRetry,
               Inside
<1> QED
  BY <1>1, BeginKeeps, ClientKeeps, LogoutKeeps, SelectKeeps, ServerKeeps DEF Next, Quiet

\* The gateway's flags stay consistent with its client in every reachable state.
THEOREM Invariant == Spec => []IInv
  BY Initially, Preserved, PTL DEF Spec

\* run() returns Ok only after a clean stop of connect(), and never ClientGone.
THEOREM ExitsCleanly == Spec => []CleanExit
<1>1. IInv => CleanExit
  BY DEF IInv
<1> QED
  BY Invariant, <1>1, PTL

\* The routes are never enabled while the loop waits to retry, nor before the retried connect() runs,
\* even if they were enabled for a client that was down again: the loop takes the result of connect()
\* and disables them before it spawns another, which starts from an unready client.
THEOREM DisabledWhileRetrying == Spec => []DisabledDuringRetry
<1>1. IInv => DisabledDuringRetry
  BY DEF IInv
<1> QED
  BY Invariant, <1>1, PTL

\* A request that was let in is answered, or its HTTP client is gone, before the gateway logs its
\* client out, and before run() returns.
THEOREM DrainsFirst == Spec => []DrainedBeforeLogout
<1>1. IInv => DrainedBeforeLogout
  BY DEF IInv, TypeOK, CleanExit, Over, DrainedBeforeLogout
<1> QED
  BY Invariant, <1>1, PTL
\* run() panics only when the task of connect() has: joining it is the one thing that run() does not
\* survive, and it has panicked then (PanicsOnlyAfterGivingUp in ClientProofs says of what).
THEOREM PanicsOnlyAfterCrash == Spec => [](loop = "panicked" => conn = "crashed")
<1>1. IInv => (loop = "panicked" => conn = "crashed")
  BY DEF IInv
<1> QED
  BY Invariant, <1>1, PTL
----------------------------------------------------------------------------
(* The gateway and its client.                                             *)

\* The gateway does to its client only what the client's Lifecycle allows its owner: a step of the
\* gateway is one of the Lifecycle or leaves the client alone.  What the Client implements, the
\* gateway may count on.
THEOREM ClientHasLifecycle == Spec => Client!Spec
<1>1. Init => Client!Init
  BY DEF Init
<1>2. ASSUME IInv, [Next]_vars PROVE [Client!Next]_(Client!vars)
  <2>1. UNCHANGED clientVars => UNCHANGED Client!vars
    BY DEF clientVars, Client!vars
  <2>2. CASE ConnectBegins
    BY <2>2 DEF ConnectBegins, Client!Next
  <2>3. CASE ClientSteps
    BY <2>3 DEF ClientSteps, Client!Next
  <2>4. CASE LogoutSteps
    BY <2>4 DEF LogoutSteps, Client!Next
  <2>5. CASE Select
    BY <2>1, <2>5 DEF Select, ConnectReturned, Respawn, JoinFails, ClientReadyAgain, EnableRoutes,
                      PollsDeadHandle, ServerReturned, LogoutReturned
  <2>6. CASE \/ ShutdownSignal \/ Drained
             \/ \E r \in Requests : CheckReady(r) \/ Unrouted(r) \/ Handle(r) \/ HangUp(r)
    BY <1>2, <2>1, <2>6, ServerKeeps
  <2>7. CASE Quiet \/ UNCHANGED vars
    BY <2>1, <2>7 DEF Quiet, vars
  <2> QED
    BY <1>2, <2>2, <2>3, <2>4, <2>5, <2>6, <2>7 DEF Next
<1> QED
  BY <1>1, <1>2, Invariant, PTL DEF Spec, Client!Spec
----------------------------------------------------------------------------
(* The gateway and the Service it gives.                                   *)

\* One request moves on, as its HTTP client sees it.
LEMMA RequestMoves ==
  ASSUME TypeOK, NEW r \in Requests, NEW place, request' = [request EXCEPT ![r] = place],
         NEW seen, Seen(place) = seen
  PROVE  Request' = [Request EXCEPT ![r] = seen]
  BY DEF TypeOK, Request

LEMMA SeenPlaces ==
  /\ Seen("new") = "new" /\ Seen("gone") = "gone"
  /\ Seen("inside") = "admitted" /\ Seen("reading") = "admitted"
  /\ \A code \in Codes : Seen(code) = code
  BY DEF Seen, Codes

LEMMA RequestSeen ==
  ASSUME NEW r \in Requests
  PROVE  Request[r] = Seen(request[r])
  BY DEF Request

\* A step of the loop or the client shows at most in run().
LEMMA LoopShows ==
  ASSUME IInv, [Next]_vars, UNCHANGED serverVars
  PROVE  [S!Next]_(S!vars)
<1>1. UNCHANGED <<server, Request>>
  BY DEF serverVars, Request
<1>2. CASE UNCHANGED <<loop, serving>>
  BY <1>1, <1>2 DEF S!vars, Run
<1>3. CASE ConnectReturned
  <2>1. loop = "select" /\ outcome # "ok"
    BY <1>3 DEF ConnectReturned, IInv
  <2>2. Run = "on" /\ Run' = "on" /\ serving' \in BOOLEAN
    BY <1>3, <2>1 DEF ConnectReturned, Run
  <2> QED
    BY <1>1, <2>2 DEF S!Next, S!Switch
<1>4. CASE EnableRoutes
  <2>1. Run = "on" /\ Run' = "on" /\ serving' \in BOOLEAN
    BY <1>4 DEF EnableRoutes, Run
  <2> QED
    BY <1>1, <2>1 DEF S!Next, S!Switch
<1>5. CASE Respawn \/ ClientReadyAgain \/ ServerReturned
  <2>1. Run = "on" /\ Run' = "on" /\ UNCHANGED serving
    BY <1>5 DEF Respawn, ClientReadyAgain, ServerReturned, Run
  <2> QED
    BY <1>1, <2>1 DEF S!vars
<1>6. CASE PollsDeadHandle
  <2>1. Run = "on" /\ Run' = "panicked" /\ UNCHANGED serving
    BY <1>6 DEF PollsDeadHandle, Run
  <2> QED
    BY <1>1, <2>1 DEF S!Next, S!Panic
<1>7. CASE LogoutReturned
  <2>1. Run = "on" /\ Run' \in {"ok", "ClientError"} /\ UNCHANGED serving /\ server = "done"
    BY <1>7 DEF LogoutReturned, Run, IInv
  <2> QED
    BY <1>1, <2>1 DEF S!Next, S!Return
<1>8. ASSUME JoinFails \/ ConnectBegins \/ ClientSteps \/ LogoutSteps \/ Quiet \/ UNCHANGED vars
      PROVE  UNCHANGED <<loop, serving>>
  BY <1>8 DEF JoinFails, ConnectBegins, ClientSteps, LogoutSteps, Quiet, vars, loopVars
<1>9. ASSUME \/ ShutdownSignal \/ Drained
             \/ \E r \in Requests : CheckReady(r) \/ Unrouted(r) \/ Handle(r) \/ HangUp(r)
      PROVE  UNCHANGED <<loop, serving>>
  BY <1>9, ServerKeeps DEF loopVars
<1> QED
  BY <1>2, <1>3, <1>4, <1>5, <1>6, <1>7, <1>8, <1>9 DEF Next, Select

\* The server and its requests move as the Service says.
LEMMA ServerShows ==
  ASSUME IInv, \/ ShutdownSignal \/ Drained
               \/ \E r \in Requests : CheckReady(r) \/ Unrouted(r) \/ Handle(r) \/ HangUp(r)
  PROVE  [S!Next]_(S!vars)
<1>1. UNCHANGED <<serving, Run>>
  BY ServerKeeps DEF loopVars, Run
<1>2. TypeOK
  BY DEF IInv
<1>3. CASE ShutdownSignal
  <2>1. server = "running" /\ server' = "draining" /\ UNCHANGED Request
    BY <1>3 DEF ShutdownSignal, Request
  <2> QED
    BY <1>1, <2>1 DEF S!Next, S!Shutdown
<1>4. CASE Drained
  <2>1. server = "draining" /\ server' = "done" /\ UNCHANGED Request
    BY <1>4 DEF Drained, Request
  <2>2. ASSUME NEW r \in Requests PROVE Request[r] # "admitted"
    <3>1. request[r] \notin {"inside", "reading"} /\ request[r] # "admitted"
      BY <1>2, <1>4 DEF Drained, Inside, TypeOK, Codes
    <3> QED
      BY <3>1, RequestSeen DEF Seen
  <2> QED
    BY <1>1, <2>1, <2>2 DEF S!Next, S!Drained
<1>5. ASSUME NEW r \in Requests, CheckReady(r)
      PROVE  S!Next
  <2>1. server = "running" /\ UNCHANGED server /\ Request[r] = "new"
    BY <1>5, RequestSeen, SeenPlaces DEF CheckReady
  <2>2. CASE serving
    <3>1. request' = [request EXCEPT ![r] = "inside"]
      BY <1>5, <2>2 DEF CheckReady
    <3>2. Request' = [Request EXCEPT ![r] = "admitted"]
      BY <1>2, <3>1, RequestMoves, SeenPlaces
    <3> QED
      BY <1>1, <2>1, <2>2, <3>2 DEF S!Next, S!Admit, S!Becomes
  <2>3. CASE ~serving
    <3>1. request' = [request EXCEPT ![r] = "503"]
      BY <1>5, <2>3 DEF CheckReady
    <3>2. Seen("503") = "503"
      BY SeenPlaces DEF Codes
    <3>3. Request' = [Request EXCEPT ![r] = "503"]
      BY <1>2, <3>1, <3>2, RequestMoves
    <3> QED
      BY <1>1, <2>1, <2>3, <3>3 DEF S!Next, S!Refuse, S!Becomes
  <2> QED
    BY <2>2, <2>3
<1>6. ASSUME NEW r \in Requests, Unrouted(r)
      PROVE  S!Next
  <2>1. server = "running" /\ UNCHANGED server /\ serving /\ Request[r] = "new"
    BY <1>6, RequestSeen, SeenPlaces DEF Unrouted
  <2>2. PICK code \in {"404", "500"} : request' = [request EXCEPT ![r] = code]
    BY <1>6 DEF Unrouted
  <2>3. Seen(code) = code
    BY <2>2, SeenPlaces DEF Codes
  <2>4. Request' = [Request EXCEPT ![r] = code]
    BY <1>2, <2>2, <2>3, RequestMoves
  <2> QED
    BY <1>1, <2>1, <2>4 DEF S!Next, S!Reject, S!Becomes
<1>7. ASSUME NEW r \in Requests, ReadBegins(r)
      PROVE  [S!Next]_(S!vars)
  <2>1. UNCHANGED server /\ Request[r] = "admitted" /\ request' = [request EXCEPT ![r] = "reading"]
    BY <1>7, RequestSeen, SeenPlaces DEF ReadBegins
  <2>2. Request' = [Request EXCEPT ![r] = "admitted"]
    BY <1>2, <2>1, RequestMoves, SeenPlaces
  <2>3. Request' = Request
    BY <2>1, <2>2 DEF Request
  <2> QED
    BY <1>1, <2>1, <2>3 DEF S!vars
<1>8. ASSUME NEW r \in Requests,
             GatewaysAnswered(r) \/ ZonesAnswered(r) \/ ReadAnswered(r) \/ ReadyTimedOut(r)
      PROVE  S!Next
  <2>1. UNCHANGED server /\ Request[r] = "admitted"
    BY <1>8, RequestSeen, SeenPlaces DEF GatewaysAnswered, ZonesAnswered, ReadAnswered, ReadyTimedOut
  <2>2. PICK code \in {"200", "400", "404", "502", "504"} : request' = [request EXCEPT ![r] = code]
    BY <1>8 DEF GatewaysAnswered, ZonesAnswered, ReadAnswered, ReadyTimedOut
  <2>3. Seen(code) = code
    BY <2>2, SeenPlaces DEF Codes
  <2>4. Request' = [Request EXCEPT ![r] = code]
    BY <1>2, <2>2, <2>3, RequestMoves
  <2> QED
    BY <1>1, <2>1, <2>4 DEF S!Next, S!Reply, S!Becomes
<1>9. ASSUME NEW r \in Requests, HangUp(r)
      PROVE  S!Next
  <2>1. UNCHANGED server /\ Request[r] = "admitted" /\ request' = [request EXCEPT ![r] = "gone"]
    BY <1>9, RequestSeen, SeenPlaces DEF HangUp, Inside
  <2>2. Seen("gone") = "gone"
    BY SeenPlaces
  <2>3. Request' = [Request EXCEPT ![r] = "gone"]
    BY <1>2, <2>1, <2>2, RequestMoves
  <2> QED
    BY <1>1, <2>1, <2>3 DEF S!Next, S!HangUp, S!Becomes
<1> QED
  BY <1>3, <1>4, <1>5, <1>6, <1>7, <1>8, <1>9 DEF Handle

\* The Gateway implements the Service, for any requests, connections and failures of the client:
\* in particular run() never returns while a request that was let in is unanswered.
THEOREM Refinement == Spec => ImplementsService
<1>1. Init => S!Init
  <2> SUFFICES ASSUME Init PROVE S!Init
    OBVIOUS
  <2>1. Request = [r \in Requests |-> "new"] /\ Run = "on"
    BY SeenPlaces DEF Init, Request, Run
  <2> QED
    BY <2>1 DEF Init, S!Init
<1>2. ASSUME IInv, [Next]_vars PROVE [S!Next]_(S!vars)
  <2>1. CASE \/ ShutdownSignal \/ Drained
             \/ \E r \in Requests : CheckReady(r) \/ Unrouted(r) \/ Handle(r) \/ HangUp(r)
    BY <1>2, <2>1, ServerShows
  <2>2. CASE ConnectBegins \/ ClientSteps \/ LogoutSteps \/ Select \/ Quiet \/ UNCHANGED vars
    <3>1. UNCHANGED serverVars
      BY <2>2 DEF ConnectBegins, ClientSteps, LogoutSteps, Quiet, vars, Select, ConnectReturned, Respawn,
                  JoinFails, ClientReadyAgain, EnableRoutes, PollsDeadHandle, ServerReturned,
                  LogoutReturned
    <3> QED
      BY <1>2, <3>1, LoopShows
  <2> QED
    BY <1>2, <2>1, <2>2 DEF Next
<1> QED
  BY <1>1, <1>2, Invariant, PTL DEF Spec, S!Spec, ImplementsService
============================================================================
