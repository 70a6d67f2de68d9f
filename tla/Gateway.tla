------------------------------ MODULE Gateway ------------------------------
(***************************************************************************)
(* The HTTP gateway: a select loop over the task that runs connect(), the  *)
(* future that waits for the client to be ready, and the server task.  The *)
(* client is the one its owner sees, the Lifecycle, and every HTTP request *)
(* is a call on it that ends within its deadline.                          *)
(*                                                                         *)
(* The backoff is a delay of any length.  Answers from the read cache are  *)
(* left out: they do not ask the client.                                   *)
(***************************************************************************)
EXTENDS Naturals

CONSTANTS
  Requests,     \* HTTP requests
  MaxConnects   \* bound: calls of connect()

ASSUME GatewayAssumption == MaxConnects \in Nat

VARIABLES
  conn, outcome, starts, clientReady, stop, caller,   \* the client, see Lifecycle
  loop,        \* where run_incoming_with_client_graceful_shutdown is
  connectH,    \* connect_h: "spawned", "begun", "failed" (JoinError seen in this select!), "dead"
  readyH,      \* ready_h: "waiting" or "done", which a fused future stays
  serving,     \* the AtomicBool ready that check_ready reads
  server,      \* the server task: "running", "draining", "done"
  request      \* each request: "new", "inside", "reading", "gone" or its status code

clientVars == <<conn, outcome, starts, clientReady, stop, caller>>
loopVars == <<loop, connectH, readyH, serving>>
serverVars == <<server, request>>
vars == <<clientVars, loopVars, serverVars>>

\* The gateway's own logout is the only one.
Client == INSTANCE Lifecycle WITH Logouts <- {"shutdown"}, ready <- clientReady

Codes == {"200", "400", "404", "500", "502", "503", "504"}

\* run() has returned or panicked.
Over == {"ok", "ClientError", "ClientGone", "panicked"}

Init ==
  /\ Client!Init
  /\ loop = "select"
  /\ connectH = "spawned"
  /\ readyH = "waiting"
  /\ serving = FALSE
  /\ server = "running"
  /\ request = [r \in Requests |-> "new"]
----------------------------------------------------------------------------
(* The client's task, and the gateway's call of logout().                  *)

ConnectBegins ==
  /\ connectH = "spawned"
  /\ Client!Start
  /\ connectH' = "begun"
  /\ UNCHANGED <<loop, readyH, serving, serverVars>>

ClientSteps ==
  /\ \/ Client!BecomeReady \/ Client!BecomeUnready
     \/ Client!Fail \/ Client!Crash
     \/ Client!TakeStop \/ Client!Stopped
  /\ UNCHANGED <<loopVars, serverVars>>

LogoutSteps ==
  /\ loop = "logout"
  /\ \/ Client!AskStop("shutdown")
     \/ Client!StopAnswered("shutdown")
     \/ Client!GiveUp("shutdown")
  /\ UNCHANGED <<loopVars, serverVars>>
----------------------------------------------------------------------------
(* The branches of select!.                                                *)

MutantNoRetry ==
  /\ loop = "select"
  /\ connectH = "begun" /\ conn = "idle"
  /\ serving' = FALSE
  /\ connectH' = "failed"
  /\ UNCHANGED <<clientVars, loop, readyH, serverVars>>

MutantKeepsServing ==
  /\ loop = "select"
  /\ connectH = "begun" /\ conn = "idle"
  /\ loop' = (IF outcome = "ok" THEN "ClientGone" ELSE "backoff")
  /\ UNCHANGED <<clientVars, connectH, readyH, serving, serverVars>>

\* connect() has returned: stop serving, then give up or wait to retry.
ConnectReturned ==
  /\ loop = "select"
  /\ connectH = "begun" /\ conn = "idle"
  /\ serving' = FALSE
  /\ loop' = (IF outcome = "ok" THEN "ClientGone" ELSE "backoff")
  /\ UNCHANGED <<clientVars, connectH, readyH, serverVars>>

MutantRespawnKeepsReadyH ==
  /\ loop = "backoff"
  /\ connectH' = "spawned"
  /\ loop' = "select"
  /\ UNCHANGED <<clientVars, readyH, serving, serverVars>>

\* The delay is over; nothing else was polled meanwhile.
Respawn ==
  /\ loop = "backoff"
  /\ connectH' = "spawned"
  /\ readyH' = "waiting"
  /\ loop' = "select"
  /\ UNCHANGED <<clientVars, serving, serverVars>>

\* The connect task has panicked: its JoinError does not match Ok(r), so the branch is disabled
\* until the next round of the loop.
JoinFails ==
  /\ loop = "select"
  /\ connectH = "begun" /\ conn = "crashed"
  /\ connectH' = "failed"
  /\ UNCHANGED <<clientVars, loop, readyH, serving, serverVars>>

\* ready_h completes, once for each spawn; the client may be down again before the branch runs.
ClientReadyAgain ==
  /\ loop = "select"
  /\ readyH = "waiting"
  /\ clientReady
  /\ readyH' = "done"
  /\ loop' = "enabling"
  /\ UNCHANGED <<clientVars, connectH, serving, serverVars>>

\* The branch enables the routes, whatever the client is by now, and the loop goes round.
EnableRoutes ==
  /\ loop = "enabling"
  /\ serving' = TRUE
  /\ loop' = "select"
  /\ connectH' = (IF connectH = "failed" THEN "dead" ELSE connectH)
  /\ UNCHANGED <<clientVars, readyH, serverVars>>

\* A JoinHandle panics when it is polled after it has completed.
PollsDeadHandle ==
  /\ loop = "select"
  /\ connectH = "dead"
  /\ loop' = "panicked"
  /\ UNCHANGED <<clientVars, connectH, readyH, serving, serverVars>>

MutantLogoutOnSignal ==
  /\ loop = "select"
  /\ server # "running"
  /\ loop' = "logout"
  /\ UNCHANGED <<clientVars, connectH, readyH, serving, serverVars>>

\* The server task has ended: logout() is awaited in the branch, nothing else is polled.
ServerReturned ==
  /\ loop = "select"
  /\ server = "done"
  /\ loop' = "logout"
  /\ UNCHANGED <<clientVars, connectH, readyH, serving, serverVars>>

MutantLogoutErrorIgnored ==
  /\ loop = "logout"
  /\ caller["shutdown"] \in {"ok", "gaveUp"}
  /\ loop' = "ok"
  /\ UNCHANGED <<clientVars, connectH, readyH, serving, serverVars>>

LogoutReturned ==
  /\ loop = "logout"
  /\ \/ caller["shutdown"] = "ok" /\ loop' = "ok"
     \/ caller["shutdown"] = "gaveUp" /\ loop' = "ClientError"
  /\ UNCHANGED <<clientVars, connectH, readyH, serving, serverVars>>
----------------------------------------------------------------------------
(* The server task and its requests.                                       *)

\* The shutdown future completes: no new requests, those inside are finished.
ShutdownSignal ==
  /\ server = "running"
  /\ server' = "draining"
  /\ UNCHANGED <<clientVars, loopVars, request>>

Inside == {r \in Requests : request[r] \in {"inside", "reading"}}

Drained ==
  /\ server = "draining"
  /\ Inside = {}
  /\ server' = "done"
  /\ UNCHANGED <<clientVars, loopVars, request>>

MutantUnchecked(r) ==
  /\ server = "running"
  /\ request[r] = "new"
  /\ request' = [request EXCEPT ![r] = "inside"]
  /\ UNCHANGED <<clientVars, loopVars, server>>

\* check_ready lets the request in, to a handler, or rejects it with BackendUnavailable.
CheckReady(r) ==
  /\ server = "running"
  /\ request[r] = "new"
  /\ request' = [request EXCEPT ![r] = IF serving THEN "inside" ELSE "503"]
  /\ UNCHANGED <<clientVars, loopVars, server>>

\* No route has this path, or the method is not GET: the rejection of warp::get() is none of those
\* that rejection() knows.
Unrouted(r) ==
  /\ server = "running"
  /\ request[r] = "new"
  /\ serving
  /\ request' \in {[request EXCEPT ![r] = code] : code \in {"404", "500"}}
  /\ UNCHANGED <<clientVars, loopVars, server>>

\* gateways: get_locations.
GatewaysAnswered(r) ==
  /\ request[r] = "inside"
  /\ clientReady
  /\ request' = [request EXCEPT ![r] = "200"]
  /\ UNCHANGED <<clientVars, loopVars, server>>

\* zones: get_locations, then a zone of all gateways may not be asked for, and none may be found.
ZonesAnswered(r) ==
  /\ request[r] = "inside"
  /\ clientReady
  /\ request' \in {[request EXCEPT ![r] = code] : code \in {"200", "400", "404"}}
  /\ UNCHANGED <<clientVars, loopVars, server>>

\* gateway_read and zone_details: let through by the client's own ready check.
ReadBegins(r) ==
  /\ request[r] = "inside"
  /\ clientReady
  /\ request' = [request EXCEPT ![r] = "reading"]
  /\ UNCHANGED <<clientVars, loopVars, server>>

\* The read's result, by rejection: an unknown gateway, a timeout, any other error.
ReadAnswered(r) ==
  /\ request[r] = "reading"
  /\ request' \in {[request EXCEPT ![r] = code] : code \in {"200", "404", "502", "504"}}
  /\ UNCHANGED <<clientVars, loopVars, server>>

MutantWaitsForConnect(r) ==
  /\ request[r] = "inside"
  /\ ~clientReady /\ conn # "up"
  /\ request' = [request EXCEPT ![r] = "504"]
  /\ UNCHANGED <<clientVars, loopVars, server>>

\* The client is not ready within COMMAND_TIMEOUT.
ReadyTimedOut(r) ==
  /\ request[r] = "inside"
  /\ ~clientReady
  /\ request' = [request EXCEPT ![r] = "504"]
  /\ UNCHANGED <<clientVars, loopVars, server>>

\* The HTTP client is gone: the handler's future is dropped at its wait.
HangUp(r) ==
  /\ r \in Inside
  /\ request' = [request EXCEPT ![r] = "gone"]
  /\ UNCHANGED <<clientVars, loopVars, server>>

Handle(r) ==
  \/ GatewaysAnswered(r) \/ ZonesAnswered(r)
  \/ ReadBegins(r) \/ ReadAnswered(r) \/ ReadyTimedOut(r)

Select ==
  \/ ConnectReturned \/ Respawn \/ JoinFails \/ ClientReadyAgain \/ EnableRoutes
  \/ PollsDeadHandle \/ ServerReturned \/ LogoutReturned

\* run() is over.
Quiet ==
  /\ loop \in Over
  /\ UNCHANGED vars

Next ==
  \/ ConnectBegins \/ ClientSteps \/ LogoutSteps
  \/ Select
  \/ ShutdownSignal \/ Drained
  \/ \E r \in Requests : CheckReady(r) \/ Unrouted(r) \/ Handle(r) \/ HangUp(r)
  \/ Quiet

Spec == Init /\ [][Next]_vars

\* Tasks keep running: the spawned task starts, the loop takes a branch that stays ready and its
\* delay ends, calls on the client end within their deadlines.
FairSpec ==
  /\ Spec
  /\ WF_vars(ConnectBegins) /\ WF_vars(LogoutSteps)
  /\ WF_vars(Select) /\ WF_vars(Drained)
  /\ \A r \in Requests : WF_vars(Handle(r))
----------------------------------------------------------------------------
TypeOK ==
  /\ conn \in {"idle", "up", "stopping", "crashed"}
  /\ outcome \in {"none", "ok", "err"}
  /\ starts \in 0 .. MaxConnects
  /\ clientReady \in BOOLEAN /\ stop \in BOOLEAN /\ serving \in BOOLEAN
  /\ caller \in [{"shutdown"} -> {"idle", "asked", "ok", "gaveUp"}]
  /\ loop \in Over \union {"select", "backoff", "enabling", "logout"}
  /\ connectH \in {"spawned", "begun", "failed", "dead"}
  /\ readyH \in {"waiting", "done"}
  /\ server \in {"running", "draining", "done"}
  /\ request \in [Requests -> Codes \union {"new", "inside", "reading", "gone"}]

\* The routes are disabled from when the loop learns that connect() has failed until the retried
\* connect() runs: routes that were enabled too late, for a client that was down again, are disabled
\* before the retry, and a ready flag of the attempt before never enables them during it.
DisabledDuringRetry == serving => loop # "backoff" /\ connectH # "spawned"

\* run() returns Ok only after connect() has taken the stop request and gone down cleanly, and it
\* never returns ClientGone: nobody else asks its client to stop.
CleanExit ==
  /\ loop = "ok" => conn = "stopping" \/ (conn = "idle" /\ outcome = "ok")
  /\ loop # "ClientGone"

\* The client is asked to stop, and run() is over but for a panic, only when every request that was
\* let in has its answer or is gone: none is cut off by the logout.
DrainedBeforeLogout ==
  stop \/ caller["shutdown"] # "idle" \/ loop \in Over \ {"panicked"} =>
    server = "done" /\ Inside = {}

\* The inductive invariant behind them: how far connect_h, the loop, the stop request and the server
\* can be apart from the client and from each other.
IInv ==
  /\ TypeOK
  /\ clientReady => conn # "idle"
  /\ connectH = "spawned" => conn = "idle" /\ loop # "enabling"
  /\ connectH \in {"failed", "dead"} => conn = "crashed"
  /\ loop = "backoff" => conn = "idle" /\ connectH = "begun"
  /\ loop = "panicked" => connectH = "dead"
  /\ loop \in {"select", "backoff", "enabling", "panicked"} =>
       caller["shutdown"] = "idle" /\ ~stop /\ conn # "stopping" /\ outcome # "ok"
  /\ caller["shutdown"] \in {"asked", "ok"} /\ ~stop =>
       conn = "stopping" \/ (conn = "idle" /\ outcome = "ok" /\ connectH # "spawned")
  /\ caller["shutdown"] = "ok" => ~stop
  /\ loop = "ok" => caller["shutdown"] = "ok"
  /\ server = "done" => Inside = {}
  /\ loop \in {"logout", "ok", "ClientError"} => server = "done"
  /\ DisabledDuringRetry
  /\ CleanExit

\* After an error connect() is called again, unless the gateway is on its way out.
Reconnects ==
  conn = "idle" /\ connectH = "begun" /\ starts < MaxConnects
    ~> conn = "up" \/ loop \in Over \union {"logout"}

\* Routes that are enabled for a client that is down, be it that it went down before the loop enabled
\* them, do not stay so, unless the gateway is on its way out.
DownClientUnserved ==
  serving /\ conn = "idle" ~> ~serving \/ loop \in Over \union {"logout"}

\* A client that stays ready is served in the end, also after failures.
ServesAgain == <>[]clientReady => <>[](serving \/ loop \in Over \union {"logout"})

\* A shutdown of the server ends run(), whatever the client, the backoff and the requests do.
ShutdownEnds == server = "draining" ~> loop \in Over
----------------------------------------------------------------------------
(* What the code says of itself and does not keep.                         *)

\* The else branch of select! says that the loop panics when joining the connect task fails: it would
\* then not wait on with the routes enabled.
JoinFailurePanics == conn = "crashed" /\ serving ~> loop \in Over \union {"logout"}
============================================================================
