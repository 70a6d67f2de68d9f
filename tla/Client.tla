------------------------------- MODULE Client -------------------------------
(***************************************************************************)
(* The Symphony client: one task runs connect() (the WebSocket loop of     *)
(* handle_messages joined with the login future), any number of tasks call *)
(* gateway_read, get_locations and logout on the same Client.  They share  *)
(* the channel to the loop, the transaction list and two Waiters.          *)
(*                                                                         *)
(* A step is the code a task runs from one await (or one lock) to the next.*)
(* Deadlines are not timed: a COMMAND_TIMEOUT may strike at any moment of  *)
(* the wait it guards.  Symphony may answer the requests it has received   *)
(* in any order, with an error, or never.                                  *)
(***************************************************************************)
EXTENDS Tids, Sequences

CONSTANTS
  Reads,        \* calls of gateway_read, one per element
  Lookups,      \* calls of get_locations
  Logouts,      \* calls of logout
  MaxConnects,  \* bound: calls of connect(), one after the other
  MaxSessions,  \* bound: WebSocket sessions over all of them
  NoOne         \* no call: a free lock, an absent entry

Sessions == 1 .. MaxSessions     \* session n also names the login call made on it
Senders == Reads \union Sessions \* the calls that go through send()
Callers == Reads \union Lookups \union Logouts
Calls == Callers \union Sessions

ASSUME ClientAssumption ==
  /\ MaxConnects \in Nat
  /\ MaxSessions \in Nat
  /\ NoOne \notin Calls
  /\ Reads \intersect (Lookups \union Logouts \union Sessions) = {}
  /\ Lookups \intersect (Logouts \union Sessions) = {}
  /\ Logouts \intersect Sessions = {}

VARIABLES
  phase,       \* where connect() is
  outcome,     \* what the last finished connect() returned
  connects,    \* calls of connect() so far
  session,     \* WebSocket sessions so far; the newest one
  ready,       \* Client::ready
  shutdown,    \* Client::shutdown
  loginData,   \* whether Client::login_data is Some
  socket,      \* Client::socket: None, or a sender whose receiver lives or not
  socketLock,  \* the call that holds the socket mutex across an await
  queue,       \* the unbounded channel from send() to handle_messages
  wire,        \* requests Symphony got on this WebSocket and has not answered
  last,        \* transactions.last
  table,       \* transactions.list, NoOne where there is no entry
  pc,          \* where each call is
  tid,         \* the transaction id of each sender (0 before it has one)
  slot,        \* the oneshot channel of each sender
  lap,         \* history: how often the numbering has started over
  lapOf,       \* history: the lap in which each sender was numbered
  asked        \* history: connects at the time a logout set the flag

connVars == <<phase, outcome, ready>>
linkVars == <<socket, queue, wire, socketLock>>
tidVars  == <<last, tid, lap, lapOf>>
listVars == <<table, slot>>
rareVars == <<connects, session, shutdown, loginData, asked>>
vars == <<connVars, linkVars, tidVars, listVars, rareVars, pc>>

Request == [tid : Tid, from : Senders]

\* A oneshot: still open, sender dropped, or sent (an answer, or an answer with err set).
\* The answer carries the request Symphony answered.
Empty == [status |-> "empty", from |-> NoOne]
Dropped == [status |-> "dropped", from |-> NoOne]
Answer(r, failed) == [status |-> IF failed THEN "error" ELSE "reply", from |-> r.from]

Errors == {"CommandTimeout", "CommandFailed", "ResponseError", "TooManyTransactions",
           "SendError", "UnknownGateway"}
Ended == Errors \union {"ok", "dropped"}
Places == Ended \union {"idle", "waitReady", "nextTid", "socketSend", "insert", "await",
                        "setShutdown", "waitUnready"}

Used == {t \in Tid : table[t] # NoOne}

Init ==
  /\ phase = "idle"
  /\ outcome = "none"
  /\ connects = 0
  /\ session = 0
  /\ ready = FALSE
  /\ shutdown = FALSE
  /\ loginData = FALSE
  /\ socket = "none"
  /\ socketLock = NoOne
  /\ queue = <<>>
  /\ wire = {}
  /\ last = MaxTid
  /\ table = [t \in Tid |-> NoOne]
  /\ pc = [c \in Calls |-> "idle"]
  /\ tid = [s \in Senders |-> 0]
  /\ slot = [s \in Senders |-> Empty]
  /\ lap = 0
  /\ lapOf = [s \in Senders |-> 0]
  /\ asked = [l \in Logouts |-> 0]
----------------------------------------------------------------------------
(* Ending connect(): its locals are dropped.                               *)

\* The login future, if it still runs, is dropped with the rest.
LoginDropped == IF pc[session] \in Ended THEN pc[session] ELSE "dropped"

\* Dropping connect()'s future closes the WebSocket and the channel's receiver and releases
\* the socket mutex if the login held it; the transaction list and the flags stay as they are.
Hangup(loginEnd) ==
  /\ socket' = "closed"
  /\ queue' = <<>>
  /\ wire' = {}
  /\ socketLock' = (IF socketLock = session THEN NoOne ELSE socketLock)
  /\ pc' = [pc EXCEPT ![session] = loginEnd]

MutantConnectFailsStaysReady(loginEnd) ==
  /\ phase' = "idle"
  /\ outcome' = "err"
  /\ UNCHANGED ready
  /\ Hangup(loginEnd)

\* The error arm of try_join!: connect() clears ready and returns the error.
ConnectFails(loginEnd) ==
  /\ phase' = "idle"
  /\ outcome' = "err"
  /\ ready' = FALSE
  /\ Hangup(loginEnd)

\* A call ends with an error; the login's error is connect()'s.
Fail(s, error) ==
  \/ /\ s \in Sessions
     /\ ConnectFails(error)
  \/ /\ s \in Reads
     /\ pc' = [pc EXCEPT ![s] = error]
     /\ UNCHANGED <<connVars, linkVars>>

\* The oneshots of the calls in S after their senders are dropped.
DropSenders(S) ==
  [s \in Senders |-> IF s \in S /\ pc[s] = "await" THEN Dropped ELSE slot[s]]

MutantResetToZero ==
  /\ last' = 0
  /\ table' = [t \in Tid |-> NoOne]
  /\ slot' = DropSenders({table[t] : t \in Tid})

ResetTransactions ==
  /\ last' = MaxTid
  /\ table' = [t \in Tid |-> NoOne]
  /\ slot' = DropSenders({table[t] : t \in Tid})
----------------------------------------------------------------------------
(* Callers, up to the point where they differ.                             *)

Call(c) ==
  /\ c \in Callers
  /\ pc[c] = "idle"
  /\ pc' = [pc EXCEPT ![c] = "waitReady"]
  /\ UNCHANGED <<connVars, linkVars, tidVars, listVars, rareVars>>

\* wait_ready_timeout runs out.
WaitTimeout(c) ==
  /\ c \in Callers
  /\ pc[c] = "waitReady"
  /\ ~ready
  /\ pc' = [pc EXCEPT ![c] = "CommandTimeout"]
  /\ UNCHANGED <<connVars, linkVars, tidVars, listVars, rareVars>>

MutantCancelKeepsLock(c) ==
  /\ c \in Callers
  /\ pc[c] \notin Ended \union {"idle"}
  /\ pc' = [pc EXCEPT ![c] = "dropped"]
  /\ UNCHANGED <<connVars, linkVars, tidVars, listVars, rareVars>>

\* The caller's future is dropped at one of its awaits (an HTTP client that hangs up, a select):
\* its receiver goes, its lock guard too, its request and its entry do not.
Cancel(c) ==
  /\ c \in Callers
  /\ pc[c] \notin Ended \union {"idle"}
  /\ pc' = [pc EXCEPT ![c] = "dropped"]
  /\ socketLock' = (IF socketLock = c THEN NoOne ELSE socketLock)
  /\ UNCHANGED <<connVars, socket, queue, wire, tidVars, listVars, rareVars>>

\* get_locations, once ready: the locations, or CommandFailed if there is no login data.
GetLocations(c) ==
  /\ c \in Lookups
  /\ pc[c] = "waitReady"
  /\ ready
  /\ pc' = [pc EXCEPT ![c] = IF loginData THEN "ok" ELSE "CommandFailed"]
  /\ UNCHANGED <<connVars, linkVars, tidVars, listVars, rareVars>>

\* gateway_read, once ready: go on with a gateway of the login data, or UnknownGateway.
FindGateway(c) ==
  /\ c \in Reads
  /\ pc[c] = "waitReady"
  /\ ready
  /\ \E next \in (IF loginData THEN {"nextTid"} ELSE {}) \union {"UnknownGateway"} :
       pc' = [pc EXCEPT ![c] = next]
  /\ UNCHANGED <<connVars, linkVars, tidVars, listVars, rareVars>>
----------------------------------------------------------------------------
(* send(), by gateway_read and by login.                                   *)

MutantNextTransactionIdLostUpdate(s) ==
  /\ pc[s] = "nextTid"
  /\ \E t \in Tid :
       /\ IsNextTid(t, last, Used)
       /\ last' \in {t, last}
       /\ tid' = [tid EXCEPT ![s] = t]
       /\ lap' = (IF t <= last THEN lap + 1 ELSE lap)
       /\ lapOf' = [lapOf EXCEPT ![s] = lap']
  /\ pc' = [pc EXCEPT ![s] = "socketSend"]
  /\ UNCHANGED <<connVars, linkVars, listVars, rareVars>>

\* next_transaction_id finds a number; nothing reserves it before it is inserted.
NextTransactionId(s) ==
  /\ pc[s] = "nextTid"
  /\ \E t \in Tid :
       /\ IsNextTid(t, last, Used)
       /\ last' = t
       /\ tid' = [tid EXCEPT ![s] = t]
       /\ lap' = (IF t <= last THEN lap + 1 ELSE lap)
       /\ lapOf' = [lapOf EXCEPT ![s] = lap']
  /\ pc' = [pc EXCEPT ![s] = "socketSend"]
  /\ UNCHANGED <<connVars, linkVars, listVars, rareVars>>

TooManyTransactions(s) ==
  /\ pc[s] = "nextTid"
  /\ NoneFree(Used)
  /\ Fail(s, "TooManyTransactions")
  /\ UNCHANGED <<tidVars, listVars, rareVars>>

\* The socket is locked and the request put on the channel; the lock is kept.
SocketSend(s) ==
  /\ pc[s] = "socketSend"
  /\ socketLock = NoOne
  /\ socket = "open"
  /\ queue' = Append(queue, [tid |-> tid[s], from |-> s])
  /\ socketLock' = s
  /\ pc' = [pc EXCEPT ![s] = "insert"]
  /\ UNCHANGED <<connVars, socket, wire, tidVars, listVars, rareVars>>

\* No socket yet, or one whose receiver is gone.
SocketSendFails(s) ==
  /\ pc[s] = "socketSend"
  /\ socketLock = NoOne
  /\ socket # "open"
  /\ Fail(s, IF socket = "none" THEN "CommandFailed" ELSE "SendError")
  /\ UNCHANGED <<tidVars, listVars, rareVars>>

\* The entry is inserted, dropping a sender that was there, and the socket lock released.
InsertTransaction(s) ==
  /\ pc[s] = "insert"
  /\ table' = [table EXCEPT ![tid[s]] = s]
  /\ slot' = DropSenders({table[tid[s]]})
  /\ socketLock' = NoOne
  /\ pc' = [pc EXCEPT ![s] = "await"]
  /\ UNCHANGED <<connVars, socket, queue, wire, tidVars, rareVars>>
----------------------------------------------------------------------------
(* The receiving end of a call.                                            *)

\* Symphony answers a login with a login response and a read with a read response.
RightKind(s) == slot[s].from \in Reads <=> s \in Reads

ReadReturns(s) ==
  /\ s \in Reads
  /\ pc[s] = "await"
  /\ slot[s].status = "reply"
  /\ RightKind(s)
  /\ pc' = [pc EXCEPT ![s] = "ok"]
  /\ UNCHANGED <<connVars, linkVars, tidVars, listVars, rareVars>>

\* The login response is stored, then ready is set.
LoginReturns(s) ==
  /\ s \in Sessions
  /\ pc[s] = "await"
  /\ slot[s].status = "reply"
  /\ RightKind(s)
  /\ loginData' = TRUE
  /\ ready' = TRUE
  /\ pc' = [pc EXCEPT ![s] = "ok"]
  /\ UNCHANGED <<phase, outcome, linkVars, tidVars, listVars,
                 connects, session, shutdown, asked>>

\* An answer with err set, or of the other kind.
ResponseError(s) ==
  /\ pc[s] = "await"
  /\ \/ slot[s].status = "error"
     \/ slot[s].status = "reply" /\ ~RightKind(s)
  /\ Fail(s, "ResponseError")
  /\ UNCHANGED <<tidVars, listVars, rareVars>>

\* The sender was dropped: entry cancelled, overwritten or reset.
CommandFailed(s) ==
  /\ pc[s] = "await"
  /\ slot[s].status = "dropped"
  /\ Fail(s, "CommandFailed")
  /\ UNCHANGED <<tidVars, listVars, rareVars>>

MutantCommandTimeoutLoginOnly(s) ==
  /\ s \in Sessions
  /\ pc[s] = "await"
  /\ slot[s].status = "empty"
  /\ Fail(s, "CommandTimeout")
  /\ UNCHANGED <<tidVars, listVars, rareVars>>

\* COMMAND_TIMEOUT strikes; the entry stays in the list.
CommandTimeout(s) ==
  /\ pc[s] = "await"
  /\ slot[s].status = "empty"
  /\ Fail(s, "CommandTimeout")
  /\ UNCHANGED <<tidVars, listVars, rareVars>>
----------------------------------------------------------------------------
(* logout().                                                               *)

LogoutWhenReady(l) ==
  /\ l \in Logouts
  /\ pc[l] = "waitReady"
  /\ ready
  /\ pc' = [pc EXCEPT ![l] = "setShutdown"]
  /\ UNCHANGED <<connVars, linkVars, tidVars, listVars, rareVars>>

SetShutdown(l) ==
  /\ pc[l] = "setShutdown"
  /\ shutdown' = TRUE
  /\ asked' = [asked EXCEPT ![l] = connects]
  /\ pc' = [pc EXCEPT ![l] = "waitUnready"]
  /\ UNCHANGED <<connVars, linkVars, tidVars, listVars, connects, session, loginData>>

\* The wait sees the flag down: it looks at the current value, a short dip can be missed.
LogoutReturns(l) ==
  /\ pc[l] = "waitUnready"
  /\ ~shutdown
  /\ pc' = [pc EXCEPT ![l] = "ok"]
  /\ UNCHANGED <<connVars, linkVars, tidVars, listVars, rareVars>>

\* The flag stays up: only handle_messages takes it down.
LogoutTimeout(l) ==
  /\ pc[l] = "waitUnready"
  /\ shutdown
  /\ pc' = [pc EXCEPT ![l] = "CommandTimeout"]
  /\ UNCHANGED <<connVars, linkVars, tidVars, listVars, rareVars>>
----------------------------------------------------------------------------
(* connect() outside the message loop.                                     *)

Connect ==
  /\ phase = "idle"
  /\ connects < MaxConnects
  /\ phase' = "opening"
  /\ connects' = connects + 1
  /\ UNCHANGED <<outcome, ready, linkVars, tidVars, listVars, pc,
                 session, shutdown, loginData, asked>>

\* HTTP login, the WebSocket URI or the WebSocket itself fails: nothing to drop yet.
OpenFails ==
  /\ phase = "opening"
  /\ phase' = "idle"
  /\ outcome' = "err"
  /\ UNCHANGED <<ready, linkVars, tidVars, listVars, rareVars, pc>>

\* A new WebSocket: handle_messages and login start on it.
StartSession ==
  /\ session < MaxSessions
  /\ session' = session + 1
  /\ phase' = "running"
  /\ wire' = {}
  /\ pc' = [pc EXCEPT ![session + 1] = "nextTid"]

MutantOpenedReady ==
  /\ phase = "opening"
  /\ socketLock = NoOne
  /\ StartSession
  /\ socket' = "open"
  /\ queue' = <<>>
  /\ ready' = TRUE
  /\ UNCHANGED <<outcome, socketLock, tidVars, listVars,
                 connects, shutdown, loginData, asked>>

Opened ==
  /\ phase = "opening"
  /\ socketLock = NoOne
  /\ StartSession
  /\ socket' = "open"
  /\ queue' = <<>>
  /\ UNCHANGED <<outcome, ready, socketLock, tidVars, listVars,
                 connects, shutdown, loginData, asked>>

\* After the planned timeout: session.logout(), then reset_transactions.
RenewLogout ==
  /\ phase = "renewLogout"
  /\ ResetTransactions
  /\ phase' = "renewOpen"
  /\ UNCHANGED <<outcome, ready, linkVars, tid, lap, lapOf, rareVars, pc>>

\* An HTTP error during the renewal leaves through `?`; after a failed logout nothing was reset.
RenewFails ==
  /\ phase \in {"renewLogout", "renewOpen"}
  /\ phase' = "idle"
  /\ outcome' = "err"
  /\ Hangup(LoginDropped)
  /\ UNCHANGED <<ready, tidVars, listVars, rareVars>>

MutantRenewedClearsShutdown ==
  /\ phase = "renewOpen"
  /\ StartSession
  /\ shutdown' = FALSE
  /\ UNCHANGED <<outcome, ready, socket, queue, socketLock, tidVars, listVars,
                 connects, loginData, asked>>

\* The channel survives the renewal with whatever it holds.
Renewed ==
  /\ phase = "renewOpen"
  /\ StartSession
  /\ UNCHANGED <<outcome, ready, socket, queue, socketLock, tidVars, listVars,
                 connects, shutdown, loginData, asked>>
----------------------------------------------------------------------------
(* handle_messages: the branches of its select!.                           *)

MutantCommitKeepsEntry(r, failed) ==
  /\ phase = "running"
  /\ r \in wire
  /\ table[r.tid] # NoOne
  /\ pc[table[r.tid]] = "await"
  /\ slot' = [slot EXCEPT ![table[r.tid]] = Answer(r, failed)]
  /\ wire' = wire \ {r}
  /\ UNCHANGED <<connVars, socket, queue, socketLock, table, tidVars, rareVars, pc>>

\* An answer whose entry is in the list and whose call still waits.
CommitTransaction(r, failed) ==
  /\ phase = "running"
  /\ r \in wire
  /\ table[r.tid] # NoOne
  /\ pc[table[r.tid]] = "await"
  /\ slot' = [slot EXCEPT ![table[r.tid]] = Answer(r, failed)]
  /\ table' = [table EXCEPT ![r.tid] = NoOne]
  /\ wire' = wire \ {r}
  /\ UNCHANGED <<connVars, socket, queue, socketLock, tidVars, rareVars, pc>>

\* An answer nobody is listed for, or one whose call is gone: a warning.
IgnoreResponse(r, failed) ==
  /\ phase = "running"
  /\ r \in wire
  /\ \/ table[r.tid] = NoOne
     \/ table[r.tid] # NoOne /\ pc[table[r.tid]] # "await" /\ ~failed
  /\ table' = [table EXCEPT ![r.tid] = NoOne]
  /\ wire' = wire \ {r}
  /\ UNCHANGED <<connVars, socket, queue, socketLock, slot, tidVars, rareVars, pc>>

MutantPanicOnUnlisted(r) ==
  /\ phase = "running"
  /\ r \in wire
  /\ table[r.tid] # NoOne => pc[table[r.tid]] # "await"
  /\ table' = [table EXCEPT ![r.tid] = NoOne]
  /\ phase' = "panicked"
  /\ Hangup(LoginDropped)
  /\ UNCHANGED <<outcome, ready, slot, tidVars, rareVars>>

\* An answer with err set whose call is gone: the unwrap in the warning panics, and the
\* task dies without clearing ready.
PanicOnUnawaited(r) ==
  /\ phase = "running"
  /\ r \in wire
  /\ table[r.tid] # NoOne
  /\ pc[table[r.tid]] # "await"
  /\ table' = [table EXCEPT ![r.tid] = NoOne]
  /\ phase' = "panicked"
  /\ Hangup(LoginDropped)
  /\ UNCHANGED <<outcome, ready, slot, tidVars, rareVars>>

MutantCancelKeepsSender(r) ==
  /\ phase = "running"
  /\ r \in wire
  /\ table' = [table EXCEPT ![r.tid] = NoOne]
  /\ wire' = wire \ {r}
  /\ UNCHANGED <<connVars, socket, queue, socketLock, slot, tidVars, rareVars, pc>>

\* An answer that is no Response but has a transaction id: its sender is dropped.
CancelTransaction(r) ==
  /\ phase = "running"
  /\ r \in wire
  /\ table' = [table EXCEPT ![r.tid] = NoOne]
  /\ slot' = DropSenders({table[r.tid]})
  /\ wire' = wire \ {r}
  /\ UNCHANGED <<connVars, socket, queue, socketLock, tidVars, rareVars, pc>>

\* The next request of the channel goes out; if that fails it is lost with a log line.  The
\* branch waits for the network, without a deadline, and nothing else is selected meanwhile:
\* no answer, no shutdown, no session timeout.  Only the login runs on beside it.
SendNext ==
  /\ phase = "running"
  /\ queue # <<>>
  /\ queue' = Tail(queue)
  /\ wire' \in {wire \union {Head(queue)}, wire}
  /\ phase' = "sending"
  /\ UNCHANGED <<outcome, ready, socket, socketLock, tidVars, listVars, rareVars, pc>>

\* send_text returns.
Sent ==
  /\ phase = "sending"
  /\ phase' = "running"
  /\ UNCHANGED <<outcome, ready, linkVars, tidVars, listVars, rareVars, pc>>

\* The stream ends or fails.
ConnectionLost ==
  /\ phase = "running"
  /\ ConnectFails(LoginDropped)
  /\ UNCHANGED <<tidVars, listVars, rareVars>>

\* SESSION_TIMEOUT (25 minutes; the login is over after COMMAND_TIMEOUT, 30 seconds).
SessionTimeout ==
  /\ phase = "running"
  /\ pc[session] = "ok"
  /\ ready' = FALSE
  /\ phase' = "renewLogout"
  /\ UNCHANGED <<outcome, linkVars, tidVars, listVars, rareVars, pc>>

MutantShutdownClearedEarly ==
  /\ phase = "running"
  /\ shutdown
  /\ ready' = FALSE
  /\ shutdown' = FALSE
  /\ phase' = "closing"
  /\ UNCHANGED <<outcome, linkVars, tidVars, listVars, connects, session, loginData, asked, pc>>

\* The shutdown Waiter is up: session.logout() starts, the login future lives on beside it.
ShutdownRequested ==
  /\ phase = "running"
  /\ shutdown
  /\ ready' = FALSE
  /\ phase' = "closing"
  /\ UNCHANGED <<outcome, linkVars, tidVars, listVars, rareVars, pc>>

MutantClosingResumes ==
  /\ phase = "closing"
  /\ phase' = "running"
  /\ UNCHANGED <<outcome, ready, linkVars, tidVars, listVars, rareVars, pc>>

\* The logout fails: connect() returns the error and the shutdown flag stays up.
ClosingFails ==
  /\ phase = "closing"
  /\ ConnectFails(LoginDropped)
  /\ UNCHANGED <<tidVars, listVars, rareVars>>

MutantLoggedOutKeepsShutdown ==
  /\ phase = "closing"
  /\ ResetTransactions
  /\ phase' = "terminating"
  /\ socketLock' = (IF socketLock = session THEN NoOne ELSE socketLock)
  /\ pc' = [pc EXCEPT ![session] = LoginDropped]
  /\ UNCHANGED <<outcome, ready, socket, queue, wire, tid, lap, lapOf, rareVars>>

\* The logout is done: reset, flag down, ExpectedTermination drops the login.
LoggedOut ==
  /\ phase = "closing"
  /\ ResetTransactions
  /\ shutdown' = FALSE
  /\ phase' = "terminating"
  /\ socketLock' = (IF socketLock = session THEN NoOne ELSE socketLock)
  /\ pc' = [pc EXCEPT ![session] = LoginDropped]
  /\ UNCHANGED <<outcome, ready, socket, queue, wire, tid, lap, lapOf,
                 connects, session, loginData, asked>>

\* connect() returns Ok.
Terminated ==
  /\ phase = "terminating"
  /\ ready' = FALSE
  /\ phase' = "idle"
  /\ outcome' = "ok"
  /\ Hangup(LoginDropped)
  /\ UNCHANGED <<tidVars, listVars, rareVars>>
----------------------------------------------------------------------------
\* Every call is over and connect() is not running: nothing need happen any more.
Quiet ==
  /\ phase \in {"idle", "panicked"}
  /\ \A c \in Callers : pc[c] \in Ended
  /\ UNCHANGED vars

Send(s) ==
  \/ NextTransactionId(s) \/ TooManyTransactions(s)
  \/ SocketSend(s) \/ SocketSendFails(s) \/ InsertTransaction(s)

Receive(s) ==
  \/ ReadReturns(s) \/ LoginReturns(s)
  \/ ResponseError(s) \/ CommandFailed(s) \/ CommandTimeout(s)

Logout(l) ==
  \/ LogoutWhenReady(l) \/ SetShutdown(l) \/ LogoutReturns(l) \/ LogoutTimeout(l)

\* What a caller does by itself once it has made its call.
Advance(c) ==
  \/ WaitTimeout(c) \/ GetLocations(c) \/ FindGateway(c)
  \/ c \in Senders /\ (Send(c) \/ Receive(c))
  \/ c \in Logouts /\ Logout(c)

Deliver(r) ==
  \/ \E failed \in BOOLEAN : CommitTransaction(r, failed) \/ IgnoreResponse(r, failed)
  \/ CancelTransaction(r)
  \/ PanicOnUnawaited(r)

Opening == OpenFails \/ Opened

Renewing == RenewLogout \/ RenewFails \/ Renewed

Closing == ClosingFails \/ LoggedOut \/ Terminated

Next ==
  \/ \E c \in Callers : Call(c) \/ Cancel(c)
  \/ \E c \in Calls : Advance(c)
  \/ \E r \in wire : Deliver(r)
  \/ Connect \/ Opening \/ Renewing \/ Closing
  \/ SendNext \/ Sent \/ ConnectionLost \/ SessionTimeout \/ ShutdownRequested
  \/ Quiet

Spec == Init /\ [][Next]_vars

\* Tasks keep running: a deadline strikes if nothing else ends the wait, and select! draws among
\* its ready branches, so it takes one that stays ready.
Fairness ==
  /\ \A c \in Calls : WF_vars(Advance(c))
  /\ WF_vars(ShutdownRequested)

FairSpec == Spec /\ Fairness

\* What the code leaves to the network: HTTP requests have a deadline (HTTP_TIMEOUT), but the
\* WebSocket handshake, a request and the Close frame have none.
NetworkReturns ==
  WF_vars(Opening) /\ WF_vars(Renewing) /\ WF_vars(Closing) /\ WF_vars(Sent)
----------------------------------------------------------------------------
ConnTypeOK ==
  /\ phase \in {"idle", "opening", "running", "sending", "closing", "terminating",
                "renewLogout", "renewOpen", "panicked"}
  /\ outcome \in {"none", "ok", "err"}
  /\ ready \in BOOLEAN

LinkTypeOK ==
  /\ socket \in {"none", "open", "closed"}
  /\ socketLock \in Senders \union {NoOne}
  /\ queue \in Seq(Request)
  /\ wire \in SUBSET Request

TidTypeOK ==
  /\ last \in Tid
  /\ tid \in [Senders -> Tid \union {0}]
  /\ lap \in Nat
  /\ lapOf \in [Senders -> Nat]

ListTypeOK ==
  /\ table \in [Tid -> Senders \union {NoOne}]
  /\ slot \in [Senders -> [status : {"empty", "dropped", "reply", "error"},
                           from : Senders \union {NoOne}]]

RareTypeOK ==
  /\ connects \in 0 .. MaxConnects
  /\ session \in 0 .. MaxSessions
  /\ shutdown \in BOOLEAN
  /\ loginData \in BOOLEAN
  /\ asked \in [Logouts -> 0 .. MaxConnects]

TypeOK ==
  /\ ConnTypeOK /\ LinkTypeOK /\ TidTypeOK /\ ListTypeOK /\ RareTypeOK
  /\ pc \in [Calls -> Places]

\* Client::ready promises a finished login on the live session: every way out of the message
\* loop takes it down again, except the panic.
ReadyMeansLoggedIn ==
  ready /\ phase # "panicked" =>
    /\ phase \in {"running", "sending", "closing", "terminating"}
    /\ socket = "open"
    /\ loginData
    /\ pc[session] = "ok"

\* A caller let through by ready always finds the login data: get_locations cannot fail with
\* "no AWL login data found".
LookupFindsData == \A c \in Lookups : pc[c] # "CommandFailed"

\* The socket mutex is held exactly by the call between channel send and insert: no call that
\* was dropped in that window leaves it locked.
LockHeldInWindow == \A s \in Senders : socketLock = s <=> pc[s] = "insert"

\* A call that waits for its answer has its sender in the list under its own number, or its
\* oneshot is already resolved: no call is left to run into its timeout by a dropped entry.
AwaitHasSender ==
  \A s \in Senders :
    pc[s] = "await" /\ slot[s].status = "empty" => table[tid[s]] = s

\* Every entry of the list is a call's that still waits or that gave up waiting: the numbers that
\* TooManyTransactions finds in use are held by these, never by a call that was answered, refused or
\* told of a dropped sender.
HeldByWaitingOrGivenUp ==
  \A t \in Tid : table[t] # NoOne => pc[table[t]] \in {"await", "CommandTimeout", "dropped"}

\* The message loop only panics if some other call timed out or was dropped after it was given a
\* number: no answer, late, wrong or unasked for, takes it down otherwise.
PanicNeedsGivenUp ==
  phase = "panicked" =>
    \E s \in Senders : s # session /\ tid[s] # 0 /\ pc[s] \in {"CommandTimeout", "dropped"}

\* An answer given to the wrong call crosses a restart of the numbering: within one lap of the
\* ring a call only ever gets the answer to its own request.
MisdeliveryCrossesLaps ==
  \A s \in Senders :
    slot[s].from \notin {NoOne, s} => lapOf[slot[s].from] # lapOf[s]

\* logout() returns Ok only when the connect() it was aimed at has left the message loop.
LogoutEndsConnect ==
  \A l \in Logouts : pc[l] = "ok" =>
    connects > asked[l] \/ phase \in {"terminating", "idle"}

\* Every call ends, whatever Symphony, the connection and the other calls do, and also if
\* connect() hangs on the network for ever.
CallsEnd == \A c \in Callers : pc[c] = "waitReady" ~> pc[c] \in Ended

\* A raised shutdown flag ends connect() where the network returns, also if it was raised
\* during a renewal.
ShutdownHonoured ==
  NetworkReturns => (shutdown /\ phase # "idle" ~> phase \in {"idle", "panicked"})
----------------------------------------------------------------------------
(* What the tests and messages of the repository say, and the code does    *)
(* not keep: each is refuted by a run of its own.                          *)

\* tests/client.rs asserts that a read returns the gateway it asked for.
OwnReply == \A r \in Reads : pc[r] = "ok" => slot[r].from = r

\* commit_transaction logs "transaction was not awaited" and goes on.
UnawaitedIsLogged == phase # "panicked"

\* ClientError::TooManyTransactions says that Tid::MAX transactions are in progress.
TooManyMeansInProgress ==
  [][\A s \in Senders : pc[s] = "nextTid" /\ pc'[s] = "TooManyTransactions" =>
       \A t \in Tid : pc[table[t]] = "await"]_vars
============================================================================
