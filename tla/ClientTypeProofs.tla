-------------------------- MODULE ClientTypeProofs --------------------------
(* Types, and the part of the invariant about connect() and its logins: the *)
(* steps of Client preserve them for every value of the constants.          *)
EXTENDS ClientInvariant, TLAPS

\* The kinds of calls are disjoint, and no call is NoOne.
LEMMA CallKinds ==
  /\ Senders \subseteq Calls /\ Callers \subseteq Calls /\ Sessions \subseteq Calls
  /\ Reads \subseteq Callers /\ Lookups \subseteq Callers /\ Logouts \subseteq Callers
  /\ NoOne \notin Calls
  /\ Sessions \intersect Callers = {}
  /\ Senders \intersect Callers = Reads
  /\ Reads \intersect (Lookups \union Logouts) = {}
  /\ Lookups \intersect Logouts = {}
  BY ClientAssumption DEF Senders, Callers, Calls

LEMMA Bounds == MaxConnects \in Nat /\ MaxSessions \in Nat
  BY ClientAssumption

\* Every step is one of the actions below.
LEMMA Steps ==
  ASSUME [Next]_vars
  PROVE  \/ \E c \in Callers : \/ Call(c) \/ Cancel(c) \/ WaitTimeout(c)
                               \/ GetLocations(c) \/ FindGateway(c)
         \/ \E s \in Senders : \/ NextTransactionId(s) \/ TooManyTransactions(s)
                               \/ SocketSend(s) \/ SocketSendFails(s) \/ InsertTransaction(s)
                               \/ ReadReturns(s) \/ LoginReturns(s) \/ ResponseError(s)
                               \/ CommandFailed(s) \/ CommandTimeout(s)
         \/ \E l \in Logouts : \/ LogoutWhenReady(l) \/ SetShutdown(l)
                               \/ LogoutReturns(l) \/ LogoutTimeout(l)
         \/ \E r \in wire : \/ CancelTransaction(r) \/ PanicOnUnawaited(r)
                            \/ \E failed \in BOOLEAN : \/ CommitTransaction(r, failed)
                                                       \/ IgnoreResponse(r, failed)
         \/ Connect \/ OpenFails \/ Opened
         \/ RenewLogout \/ RenewFails \/ Renewed
         \/ ClosingFails \/ LoggedOut \/ Terminated
         \/ SendNext \/ Sent \/ ConnectionLost \/ SessionTimeout \/ ShutdownRequested
         \/ UNCHANGED vars
<1>1. ASSUME NEW c \in Calls, Advance(c)
      PROVE  \/ c \in Callers /\ (WaitTimeout(c) \/ GetLocations(c) \/ FindGateway(c))
             \/ c \in Senders /\ (Send(c) \/ Receive(c))
             \/ c \in Logouts /\ Logout(c)
  BY <1>1 DEF Advance, WaitTimeout, GetLocations, FindGateway, Callers
<1>2. ASSUME NEW r \in wire, Deliver(r)
      PROVE  \/ CancelTransaction(r) \/ PanicOnUnawaited(r)
             \/ \E failed \in BOOLEAN : CommitTransaction(r, failed) \/ IgnoreResponse(r, failed)
  BY <1>2 DEF Deliver
<1>3. CASE \E c \in Callers : Call(c) \/ Cancel(c)
  BY <1>3
<1>4. CASE \E c \in Calls : Advance(c)
  <2>1. PICK c \in Calls : Advance(c)
    BY <1>4
  <2>2. CASE c \in Callers /\ (WaitTimeout(c) \/ GetLocations(c) \/ FindGateway(c))
    BY <2>2
  <2>3. CASE c \in Senders /\ (Send(c) \/ Receive(c))
    BY <2>3 DEF Send, Receive
  <2>4. CASE c \in Logouts /\ Logout(c)
    BY <2>4 DEF Logout
  <2> QED
    BY <1>1, <2>1, <2>2, <2>3, <2>4
<1>5. CASE \E r \in wire : Deliver(r)
  BY <1>2, <1>5
<1> QED
  BY <1>3, <1>4, <1>5 DEF Next, Opening, Renewing, Closing, Quiet

\* The names of the places.
LEMMA PlaceNames ==
  /\ Errors \subseteq Ended /\ Ended \subseteq Places
  /\ {"ok", "dropped"} \subseteq Ended
  /\ {"CommandTimeout", "CommandFailed", "ResponseError", "TooManyTransactions", "SendError",
      "UnknownGateway"} \subseteq Errors
  /\ {"idle", "waitReady", "nextTid", "socketSend", "insert", "await", "setShutdown",
      "waitUnready"} \subseteq Places
  /\ \A p \in Ended : p \notin {"idle", "waitReady", "nextTid", "socketSend", "insert", "await",
                               "setShutdown", "waitUnready"}
  BY DEF Places, Ended, Errors

LEMMA TypeInit == Init => TypeOK
<1> SUFFICES ASSUME Init PROVE TypeOK
  OBVIOUS
<1> USE DEF Init
<1>1. ConnTypeOK
  BY DEF ConnTypeOK
<1>2. LinkTypeOK
  BY DEF LinkTypeOK
<1>3. TidTypeOK
  BY MaxTidAssumption DEF TidTypeOK, Tid
<1>4. ListTypeOK
  BY DEF ListTypeOK, Empty
<1>5. RareTypeOK
  <2>1. 0 \in 0 .. MaxConnects /\ 0 \in 0 .. MaxSessions
    BY Bounds
  <2> QED
    BY <2>1 DEF RareTypeOK
<1>6. pc \in [Calls -> Places]
  BY PlaceNames
<1> QED
  BY <1>1, <1>2, <1>3, <1>4, <1>5, <1>6 DEF TypeOK

\* What a step leaves alone keeps its type.
LEMMA SameTypes ==
  ASSUME TypeOK
  PROVE  /\ UNCHANGED connVars => ConnTypeOK'
         /\ UNCHANGED linkVars => LinkTypeOK'
         /\ UNCHANGED tidVars => TidTypeOK'
         /\ UNCHANGED listVars => ListTypeOK'
         /\ UNCHANGED rareVars => RareTypeOK'
  BY DEF TypeOK, ConnTypeOK, LinkTypeOK, TidTypeOK, ListTypeOK, RareTypeOK,
         connVars, linkVars, tidVars, listVars, rareVars

\* What the parts shared by several actions do to the types.
LEMMA HangupTypes ==
  ASSUME TypeOK, NEW e \in Ended, Hangup(e)
  PROVE  LinkTypeOK' /\ pc' \in [Calls -> Places]
<1>1. queue' \in Seq(Request) /\ wire' \in SUBSET Request /\ socket' = "closed"
  BY DEF Hangup
<1>2. socketLock' \in Senders \union {NoOne}
  BY DEF Hangup, TypeOK, LinkTypeOK
<1>3. pc' \in [Calls -> Places]
  BY PlaceNames DEF Hangup, TypeOK
<1> QED
  BY <1>1, <1>2, <1>3 DEF LinkTypeOK

LEMMA LoginDroppedEnded == LoginDropped \in Ended
  BY PlaceNames DEF LoginDropped

LEMMA ConnectFailsTypes ==
  ASSUME TypeOK, NEW e \in Ended, ConnectFails(e)
  PROVE  ConnTypeOK' /\ LinkTypeOK' /\ pc' \in [Calls -> Places]
  BY HangupTypes DEF ConnectFails, ConnTypeOK

LEMMA FailTypes ==
  ASSUME TypeOK, NEW s, NEW e \in Ended, Fail(s, e)
  PROVE  ConnTypeOK' /\ LinkTypeOK' /\ pc' \in [Calls -> Places]
<1>1. CASE ConnectFails(e)
  BY <1>1, ConnectFailsTypes
<1>2. CASE pc' = [pc EXCEPT ![s] = e] /\ UNCHANGED <<connVars, linkVars>>
  BY <1>2, SameTypes, PlaceNames DEF TypeOK
<1> QED
  BY <1>1, <1>2 DEF Fail

LEMMA DropSendersType ==
  ASSUME TypeOK, NEW S
  PROVE  DropSenders(S) \in [Senders -> [status : {"empty", "dropped", "reply", "error"},
                                          from : Senders \union {NoOne}]]
  BY DEF DropSenders, Dropped, TypeOK, ListTypeOK

LEMMA ResetTypes ==
  ASSUME TypeOK, ResetTransactions
  PROVE  last' \in Tid /\ ListTypeOK'
  BY DropSendersType, MaxTidAssumption DEF ResetTransactions, ListTypeOK, Tid

LEMMA StartSessionTypes ==
  ASSUME TypeOK, StartSession
  PROVE  /\ session' \in 0 .. MaxSessions
         /\ phase' = "running" /\ wire' = {}
         /\ pc' \in [Calls -> Places]
<1>1. session' \in 0 .. MaxSessions
  BY Bounds DEF StartSession, TypeOK, RareTypeOK
<1> QED
  BY <1>1, PlaceNames DEF StartSession, TypeOK

LEMMA TypeStep == TypeOK /\ NumberInv /\ [Next]_vars => TypeOK'
<1> SUFFICES ASSUME TypeOK, NumberInv, [Next]_vars PROVE TypeOK'
  OBVIOUS
<1>1. ASSUME NEW c \in Callers,
             \/ Call(c) \/ WaitTimeout(c) \/ GetLocations(c) \/ FindGateway(c)
      PROVE  TypeOK'
  <2>1. UNCHANGED <<connVars, linkVars, tidVars, listVars, rareVars>>
    BY <1>1 DEF Call, WaitTimeout, GetLocations, FindGateway
  <2>2. \E p \in Places : pc' = [pc EXCEPT ![c] = p]
    BY <1>1, PlaceNames DEF Call, WaitTimeout, GetLocations, FindGateway
  <2> QED
    BY <2>1, <2>2, SameTypes DEF TypeOK
<1>2. ASSUME NEW c \in Callers, Cancel(c)
      PROVE  TypeOK'
  <2>1. LinkTypeOK'
    BY <1>2 DEF Cancel, LinkTypeOK, TypeOK
  <2> QED
    BY <1>2, <2>1, SameTypes, PlaceNames DEF Cancel, TypeOK
<1>3. ASSUME NEW s \in Senders, NextTransactionId(s)
      PROVE  TypeOK'
  <2>1. PICK t \in Tid : /\ last' = t
                         /\ tid' = [tid EXCEPT ![s] = t]
                         /\ lap' = (IF t <= last THEN lap + 1 ELSE lap)
                         /\ lapOf' = [lapOf EXCEPT ![s] = lap']
    BY <1>3 DEF NextTransactionId
  <2>2. lap' \in Nat
    BY <2>1 DEF TypeOK, TidTypeOK
  <2>3. TidTypeOK'
    BY <2>1, <2>2 DEF TypeOK, TidTypeOK
  <2> QED
    BY <1>3, <2>3, SameTypes, PlaceNames DEF NextTransactionId, TypeOK
<1>4. ASSUME NEW s \in Senders,
             \/ TooManyTransactions(s) \/ SocketSendFails(s) \/ ResponseError(s)
             \/ CommandFailed(s) \/ CommandTimeout(s)
      PROVE  TypeOK'
  <2>1. UNCHANGED <<tidVars, listVars, rareVars>>
    BY <1>4 DEF TooManyTransactions, SocketSendFails, ResponseError, CommandFailed, CommandTimeout
  <2>2. PICK e \in Ended : Fail(s, e)
    BY <1>4, PlaceNames DEF TooManyTransactions, SocketSendFails, ResponseError, CommandFailed,
                            CommandTimeout
  <2> QED
    BY <2>1, <2>2, FailTypes, SameTypes DEF TypeOK
<1>5. ASSUME NEW s \in Senders, SocketSend(s)
      PROVE  TypeOK'
  <2>1. tid[s] # 0
    BY <1>5 DEF SocketSend, NumberInv
  <2>2. [tid |-> tid[s], from |-> s] \in Request
    BY <2>1 DEF TypeOK, TidTypeOK, Request
  <2>3. LinkTypeOK'
    BY <1>5, <2>2 DEF SocketSend, TypeOK, LinkTypeOK
  <2> QED
    BY <1>5, <2>3, SameTypes, PlaceNames DEF SocketSend, TypeOK
<1>6. ASSUME NEW s \in Senders, InsertTransaction(s)
      PROVE  TypeOK'
  <2>1. ListTypeOK'
    BY <1>6, DropSendersType DEF InsertTransaction, TypeOK, ListTypeOK
  <2>2. LinkTypeOK'
    BY <1>6 DEF InsertTransaction, TypeOK, LinkTypeOK
  <2> QED
    BY <1>6, <2>1, <2>2, SameTypes, PlaceNames DEF InsertTransaction, TypeOK
<1>7. ASSUME NEW s \in Senders, ReadReturns(s)
      PROVE  TypeOK'
  BY <1>7, SameTypes, PlaceNames DEF ReadReturns, TypeOK
<1>8. ASSUME NEW s \in Senders, LoginReturns(s)
      PROVE  TypeOK'
  <2>1. ConnTypeOK' /\ RareTypeOK'
    BY <1>8 DEF LoginReturns, TypeOK, ConnTypeOK, RareTypeOK
  <2> QED
    BY <1>8, <2>1, SameTypes, PlaceNames DEF LoginReturns, TypeOK
<1>9. ASSUME NEW l \in Logouts, LogoutWhenReady(l) \/ LogoutReturns(l) \/ LogoutTimeout(l)
      PROVE  TypeOK'
  BY <1>9, SameTypes, PlaceNames DEF LogoutWhenReady, LogoutReturns, LogoutTimeout, TypeOK
<1>10. ASSUME NEW l \in Logouts, SetShutdown(l)
       PROVE  TypeOK'
  <2>1. RareTypeOK'
    BY <1>10 DEF SetShutdown, TypeOK, RareTypeOK
  <2> QED
    BY <1>10, <2>1, SameTypes, PlaceNames DEF SetShutdown, TypeOK
<1>11. ASSUME NEW r \in wire, NEW failed \in BOOLEAN, CommitTransaction(r, failed)
       PROVE  TypeOK'
  <2>1. r \in Request
    BY DEF TypeOK, LinkTypeOK
  <2>2. Answer(r, failed) \in [status : {"empty", "dropped", "reply", "error"},
                               from : Senders \union {NoOne}]
    BY <2>1 DEF Answer, Request
  <2>3. ListTypeOK' /\ LinkTypeOK'
    BY <1>11, <2>2 DEF CommitTransaction, TypeOK, ListTypeOK, LinkTypeOK
  <2> QED
    BY <1>11, <2>3, SameTypes DEF CommitTransaction, TypeOK
<1>12. ASSUME NEW r \in wire, NEW failed \in BOOLEAN, IgnoreResponse(r, failed)
       PROVE  TypeOK'
  <2>1. ListTypeOK' /\ LinkTypeOK'
    BY <1>12 DEF IgnoreResponse, TypeOK, ListTypeOK, LinkTypeOK
  <2> QED
    BY <1>12, <2>1, SameTypes DEF IgnoreResponse, TypeOK
<1>13. ASSUME NEW r \in wire, CancelTransaction(r)
       PROVE  TypeOK'
  <2>1. ListTypeOK' /\ LinkTypeOK'
    BY <1>13, DropSendersType DEF CancelTransaction, TypeOK, ListTypeOK, LinkTypeOK
  <2> QED
    BY <1>13, <2>1, SameTypes DEF CancelTransaction, TypeOK
<1>14. ASSUME NEW r \in wire, PanicOnUnawaited(r)
       PROVE  TypeOK'
  <2>1. ListTypeOK' /\ ConnTypeOK'
    BY <1>14 DEF PanicOnUnawaited, TypeOK, ListTypeOK, ConnTypeOK
  <2> QED
    BY <1>14, <2>1, HangupTypes, LoginDroppedEnded, SameTypes DEF PanicOnUnawaited, TypeOK
<1>15. CASE Connect
  <2>1. ConnTypeOK' /\ RareTypeOK'
    BY <1>15, Bounds DEF Connect, TypeOK, ConnTypeOK, RareTypeOK
  <2> QED
    BY <1>15, <2>1, SameTypes DEF Connect, TypeOK
<1>16. CASE OpenFails \/ Sent \/ SessionTimeout \/ ShutdownRequested
  <2>1. ConnTypeOK'
    BY <1>16 DEF OpenFails, Sent, SessionTimeout, ShutdownRequested, TypeOK, ConnTypeOK
  <2> QED
    BY <1>16, <2>1, SameTypes DEF OpenFails, Sent, SessionTimeout, ShutdownRequested, TypeOK
<1>17. CASE Opened \/ Renewed
  <2>1. StartSession /\ UNCHANGED <<tidVars, listVars>>
    BY <1>17 DEF Opened, Renewed
  <2>2. (queue' = queue \/ queue' = <<>>) /\ socket' \in {socket, "open"} /\ UNCHANGED socketLock
    BY <1>17 DEF Opened, Renewed
  <2>3. LinkTypeOK'
    <3>1. queue \in Seq(Request) /\ <<>> \in Seq(Request) /\ socketLock \in Senders \union {NoOne}
      BY DEF TypeOK, LinkTypeOK
    <3>2. socket' \in {"none", "open", "closed"}
      BY <2>2 DEF TypeOK, LinkTypeOK
    <3> QED
      BY <2>1, <2>2, <3>1, <3>2, StartSessionTypes DEF LinkTypeOK
  <2>4. ConnTypeOK' /\ RareTypeOK'
    BY <1>17, <2>1, StartSessionTypes DEF Opened, Renewed, TypeOK, ConnTypeOK, RareTypeOK
  <2> QED
    BY <2>1, <2>3, <2>4, StartSessionTypes, SameTypes DEF TypeOK
<1>18. CASE RenewLogout
  <2>1. ConnTypeOK' /\ TidTypeOK'
    BY <1>18, ResetTypes DEF RenewLogout, TypeOK, ConnTypeOK, TidTypeOK
  <2> QED
    BY <1>18, <2>1, ResetTypes, SameTypes DEF RenewLogout, TypeOK
<1>19. CASE RenewFails \/ Terminated
  <2>1. ConnTypeOK'
    BY <1>19 DEF RenewFails, Terminated, TypeOK, ConnTypeOK
  <2> QED
    BY <1>19, <2>1, HangupTypes, LoginDroppedEnded, SameTypes DEF RenewFails, Terminated, TypeOK
<1>20. CASE ConnectionLost \/ ClosingFails
  BY <1>20, ConnectFailsTypes, LoginDroppedEnded, SameTypes DEF ConnectionLost, ClosingFails, TypeOK
<1>21. CASE LoggedOut
  <2>1. ConnTypeOK' /\ TidTypeOK' /\ RareTypeOK'
    BY <1>21, ResetTypes DEF LoggedOut, TypeOK, ConnTypeOK, TidTypeOK, RareTypeOK
  <2>2. LinkTypeOK'
    BY <1>21 DEF LoggedOut, TypeOK, LinkTypeOK
  <2>3. pc' \in [Calls -> Places]
    BY <1>21, LoginDroppedEnded, PlaceNames DEF LoggedOut, TypeOK
  <2> QED
    BY <1>21, <2>1, <2>2, <2>3, ResetTypes DEF LoggedOut, TypeOK
<1>22. CASE SendNext
  <2>1. queue' \in Seq(Request) /\ Head(queue) \in Request
    BY <1>22 DEF SendNext, TypeOK, LinkTypeOK
  <2>2. ConnTypeOK' /\ LinkTypeOK'
    BY <1>22, <2>1 DEF SendNext, TypeOK, ConnTypeOK, LinkTypeOK
  <2> QED
    BY <1>22, <2>2, SameTypes DEF SendNext, TypeOK
<1>23. CASE UNCHANGED vars
  BY <1>23, SameTypes DEF vars, TypeOK
<1> QED
  BY Steps, <1>1, <1>2, <1>3, <1>4, <1>5, <1>6, <1>7, <1>8, <1>9, <1>10, <1>11, <1>12, <1>13,
     <1>14, <1>15, <1>16, <1>17, <1>18, <1>19, <1>20, <1>21, <1>22, <1>23
----------------------------------------------------------------------------
\* A step that leaves the logins and connect() alone keeps the invariants about them.
LEMMA SessionFrame ==
  ASSUME SessionInv, ReadyMeansLoggedIn,
         UNCHANGED <<phase, ready, session, socket, loginData>>,
         \A n \in Sessions : pc'[n] = pc[n]
  PROVE  SessionInv' /\ ReadyMeansLoggedIn'
<1>1. phase \in Attached => pc'[session'] = pc[session]
  BY DEF SessionInv
<1>2. SessionInv'
  BY <1>1 DEF SessionInv, Attached
<1>3. ReadyMeansLoggedIn'
  BY <1>1 DEF ReadyMeansLoggedIn, Attached
<1> QED
  BY <1>2, <1>3

\* A login that has not ended is the one of the running loop, and ready is down.
LEMMA LiveLogin ==
  ASSUME SessionInv, ReadyMeansLoggedIn, NEW s \in Sessions,
         pc[s] \in {"nextTid", "socketSend", "insert", "await"}
  PROVE  s = session /\ phase \in {"running", "sending", "closing"} /\ ~ready
<1>1. pc[s] \notin Ended \union {"idle"} /\ pc[s] # "ok"
  BY PlaceNames
<1> QED
  BY <1>1 DEF SessionInv, ReadyMeansLoggedIn

\* Dropping connect() ends its login.
LEMMA SessionHangup ==
  ASSUME TypeOK, SessionInv, NEW e \in Ended, Hangup(e), phase \in Attached,
         phase' \in {"idle", "panicked"}, phase' = "idle" => ~ready', ready' => ready,
         UNCHANGED <<session, loginData>>
  PROVE  SessionInv' /\ ReadyMeansLoggedIn'
<1>1. pc'[session] = e /\ session \in Sessions
  BY CallKinds DEF Hangup, TypeOK, SessionInv
<1>2. \A n \in Sessions : n # session => pc'[n] = pc[n]
  BY CallKinds DEF Hangup, TypeOK
<1>3. \A n \in Sessions : pc'[n] \in Ended \union {"idle"}
  BY <1>1, <1>2 DEF SessionInv
<1>4. \A n \in Sessions : n > session => pc'[n] = "idle"
  BY <1>1, <1>2 DEF SessionInv, Sessions
<1> QED
  BY <1>3, <1>4 DEF SessionInv, ReadyMeansLoggedIn, Attached

\* A new session starts: its login is the only one, and ready is down.
LEMMA SessionStart ==
  ASSUME TypeOK, SessionInv, ReadyMeansLoggedIn, StartSession, phase \in {"opening", "renewOpen"},
         socket' = "open", UNCHANGED <<ready, loginData>>
  PROVE  SessionInv' /\ ReadyMeansLoggedIn'
<1>1. session' \in Sessions /\ session' = session + 1 /\ session \in 0 .. MaxSessions
  BY Bounds DEF StartSession, Sessions, TypeOK, RareTypeOK
<1>2. pc'[session'] = "nextTid" /\ \A n \in Sessions : n # session' => pc'[n] = pc[n]
  BY <1>1, CallKinds DEF StartSession, TypeOK
<1>3. \A n \in Sessions : n # session' => pc'[n] \in Ended \union {"idle"}
  BY <1>2 DEF SessionInv
<1>4. \A n \in Sessions : n > session' => pc'[n] = "idle"
  BY <1>1, <1>2 DEF SessionInv, Sessions
<1>5. phase' = "running" /\ ~ready'
  BY DEF StartSession, ReadyMeansLoggedIn
<1> QED
  BY <1>1, <1>2, <1>3, <1>4, <1>5 DEF SessionInv, ReadyMeansLoggedIn, Attached

\* A failing call either is a read, or ends connect() with its login.
LEMMA SessionFail ==
  ASSUME TypeOK, SessionInv, ReadyMeansLoggedIn, NEW s \in Senders, NEW e \in Ended, Fail(s, e),
         pc[s] \in {"nextTid", "socketSend", "insert", "await"}, UNCHANGED <<session, loginData>>
  PROVE  SessionInv' /\ ReadyMeansLoggedIn'
<1>1. CASE s \in Sessions /\ ConnectFails(e)
  BY <1>1, LiveLogin, SessionHangup DEF ConnectFails, Attached
<1>2. CASE s \in Reads /\ pc' = [pc EXCEPT ![s] = e] /\ UNCHANGED <<connVars, linkVars>>
  <2>1. \A n \in Sessions : pc'[n] = pc[n]
    BY <1>2, CallKinds DEF TypeOK
  <2> QED
    BY <1>2, <2>1, SessionFrame DEF connVars, linkVars
<1> QED
  BY <1>1, <1>2 DEF Fail

LEMMA SessionStep ==
  TypeOK /\ SessionInv /\ ReadyMeansLoggedIn /\ [Next]_vars => SessionInv' /\ ReadyMeansLoggedIn'
<1> SUFFICES ASSUME TypeOK, SessionInv, ReadyMeansLoggedIn, [Next]_vars
             PROVE  SessionInv' /\ ReadyMeansLoggedIn'
  OBVIOUS
<1> USE DEF connVars, linkVars, tidVars, listVars, rareVars
<1>1. ASSUME NEW c \in Callers,
             \/ Call(c) \/ Cancel(c) \/ WaitTimeout(c) \/ GetLocations(c) \/ FindGateway(c)
      PROVE  SessionInv' /\ ReadyMeansLoggedIn'
  <2>1. UNCHANGED <<phase, ready, session, socket, loginData>>
    BY <1>1 DEF Call, Cancel, WaitTimeout, GetLocations, FindGateway
  <2>2. \E p : pc' = [pc EXCEPT ![c] = p]
    BY <1>1 DEF Call, Cancel, WaitTimeout, GetLocations, FindGateway
  <2>3. \A n \in Sessions : pc'[n] = pc[n]
    BY <2>2, CallKinds DEF TypeOK
  <2> QED
    BY <2>1, <2>3, SessionFrame
<1>2. ASSUME NEW s \in Senders, NextTransactionId(s) \/ SocketSend(s) \/ InsertTransaction(s)
      PROVE  SessionInv' /\ ReadyMeansLoggedIn'
  <2>1. /\ UNCHANGED <<phase, ready, session, socket, loginData>>
        /\ pc[s] \in {"nextTid", "socketSend", "insert"}
        /\ \E p \in {"socketSend", "insert", "await"} : pc' = [pc EXCEPT ![s] = p]
    BY <1>2 DEF NextTransactionId, SocketSend, InsertTransaction
  <2>2. CASE s \in Sessions
    <3>1. s = session /\ phase \in {"running", "sending", "closing"} /\ ~ready
      BY <2>1, <2>2, LiveLogin
    <3>2. \A n \in Sessions : n # session => pc'[n] = pc[n]
      BY <2>1, <3>1, CallKinds DEF TypeOK
    <3>3. SessionInv'
      BY <2>1, <2>2, <3>1, <3>2 DEF SessionInv, Attached, Sessions
    <3> QED
      BY <2>1, <3>1, <3>3 DEF ReadyMeansLoggedIn
  <2>3. CASE s \notin Sessions
    <3>1. \A n \in Sessions : pc'[n] = pc[n]
      BY <2>1, <2>3, CallKinds DEF TypeOK
    <3> QED
      BY <2>1, <3>1, SessionFrame
  <2> QED
    BY <2>2, <2>3
<1>3. ASSUME NEW s \in Senders,
             \/ TooManyTransactions(s) \/ SocketSendFails(s) \/ ResponseError(s)
             \/ CommandFailed(s) \/ CommandTimeout(s)
      PROVE  SessionInv' /\ ReadyMeansLoggedIn'
  <2>1. /\ UNCHANGED <<session, loginData>>
        /\ pc[s] \in {"nextTid", "socketSend", "insert", "await"}
    BY <1>3 DEF TooManyTransactions, SocketSendFails, ResponseError, CommandFailed, CommandTimeout
  <2>2. PICK e \in Ended : Fail(s, e)
    BY <1>3, PlaceNames DEF TooManyTransactions, SocketSendFails, ResponseError, CommandFailed,
                            CommandTimeout
  <2> QED
    BY <2>1, <2>2, SessionFail
<1>4. ASSUME NEW s \in Senders, ReadReturns(s)
      PROVE  SessionInv' /\ ReadyMeansLoggedIn'
  <2>1. \A n \in Sessions : pc'[n] = pc[n]
    BY <1>4, CallKinds DEF ReadReturns, TypeOK
  <2> QED
    BY <1>4, <2>1, SessionFrame DEF ReadReturns
<1>5. ASSUME NEW s \in Senders, LoginReturns(s)
      PROVE  SessionInv' /\ ReadyMeansLoggedIn'
  <2>1. s = session /\ phase \in {"running", "sending", "closing"}
    BY <1>5, LiveLogin DEF LoginReturns
  <2>2. /\ pc'[session] = "ok"
        /\ \A n \in Sessions : n # session => pc'[n] = pc[n]
    BY <1>5, <2>1, CallKinds DEF LoginReturns, TypeOK
  <2>3. SessionInv'
    BY <1>5, <2>1, <2>2, PlaceNames DEF LoginReturns, SessionInv, Attached, Sessions
  <2> QED
    BY <1>5, <2>1, <2>2, <2>3 DEF LoginReturns, ReadyMeansLoggedIn, SessionInv, Attached
<1>6. ASSUME NEW l \in Logouts,
             LogoutWhenReady(l) \/ SetShutdown(l) \/ LogoutReturns(l) \/ LogoutTimeout(l)
      PROVE  SessionInv' /\ ReadyMeansLoggedIn'
  <2>1. UNCHANGED <<phase, ready, session, socket, loginData>>
    BY <1>6 DEF LogoutWhenReady, SetShutdown, LogoutReturns, LogoutTimeout
  <2>2. \E p : pc' = [pc EXCEPT ![l] = p]
    BY <1>6 DEF LogoutWhenReady, SetShutdown, LogoutReturns, LogoutTimeout
  <2>3. \A n \in Sessions : pc'[n] = pc[n]
    BY <2>2, CallKinds DEF TypeOK
  <2> QED
    BY <2>1, <2>3, SessionFrame
<1>7. ASSUME NEW r \in wire, NEW failed \in BOOLEAN,
             \/ CommitTransaction(r, failed) \/ IgnoreResponse(r, failed) \/ CancelTransaction(r)
      PROVE  SessionInv' /\ ReadyMeansLoggedIn'
  <2>1. UNCHANGED <<phase, ready, session, socket, loginData, pc>>
    BY <1>7 DEF CommitTransaction, IgnoreResponse, CancelTransaction
  <2> QED
    BY <2>1, SessionFrame
<1>8. ASSUME NEW r \in wire, PanicOnUnawaited(r)
      PROVE  SessionInv' /\ ReadyMeansLoggedIn'
  BY <1>8, SessionHangup, LoginDroppedEnded DEF PanicOnUnawaited, Attached
<1>9. CASE Connect \/ OpenFails
  <2>1. /\ phase \in {"idle", "opening"} /\ phase' \in {"idle", "opening"}
        /\ UNCHANGED <<ready, session, socket, loginData, pc>>
    BY <1>9 DEF Connect, OpenFails
  <2> QED
    BY <2>1 DEF SessionInv, ReadyMeansLoggedIn, Attached
<1>10. CASE Opened
  BY <1>10, SessionStart DEF Opened
<1>11. CASE Renewed
  BY <1>11, SessionStart DEF Renewed, SessionInv, Attached
<1>12. CASE RenewLogout
  <2>1. /\ phase = "renewLogout" /\ phase' = "renewOpen" /\ ~ready
        /\ UNCHANGED <<ready, session, socket, loginData, pc>>
    BY <1>12 DEF RenewLogout, ReadyMeansLoggedIn
  <2> QED
    BY <2>1 DEF SessionInv, ReadyMeansLoggedIn, Attached
<1>13. CASE RenewFails
  <2>1. ~ready
    BY <1>13 DEF RenewFails, ReadyMeansLoggedIn
  <2> QED
    BY <1>13, <2>1, SessionHangup, LoginDroppedEnded DEF RenewFails, Attached
<1>14. CASE ConnectionLost \/ ClosingFails
  BY <1>14, SessionHangup, LoginDroppedEnded DEF ConnectionLost, ClosingFails, ConnectFails, Attached
<1>15. CASE LoggedOut
  <2>1. /\ phase = "closing" /\ phase' = "terminating"
        /\ UNCHANGED <<ready, session, socket, loginData>>
        /\ pc' = [pc EXCEPT ![session] = LoginDropped]
    BY <1>15 DEF LoggedOut
  <2>2. session \in Sessions /\ socket = "open"
    BY <2>1 DEF SessionInv, Attached
  <2>3. /\ pc'[session] = LoginDropped
        /\ \A n \in Sessions : n # session => pc'[n] = pc[n]
    BY <2>1, <2>2, CallKinds DEF TypeOK
  <2>4. SessionInv'
    BY <2>1, <2>2, <2>3, LoginDroppedEnded DEF SessionInv, Attached, Sessions
  <2>5. pc[session] = "ok" => LoginDropped = "ok"
    BY PlaceNames DEF LoginDropped
  <2> QED
    BY <2>1, <2>2, <2>3, <2>4, <2>5 DEF ReadyMeansLoggedIn
<1>16. CASE Terminated
  BY <1>16, SessionHangup, LoginDroppedEnded DEF Terminated, Attached
<1>17. CASE SendNext \/ Sent
  <2>1. /\ phase \in {"running", "sending"} /\ phase' \in {"running", "sending"}
        /\ UNCHANGED <<ready, session, socket, loginData, pc>>
    BY <1>17 DEF SendNext, Sent
  <2>2. SessionInv'
    BY <2>1 DEF SessionInv, Attached
  <2> QED
    BY <2>1, <2>2 DEF ReadyMeansLoggedIn
<1>18. CASE SessionTimeout \/ ShutdownRequested
  <2>1. /\ phase = "running" /\ ~ready'
        /\ (phase' = "renewLogout" /\ pc[session] = "ok") \/ phase' = "closing"
        /\ UNCHANGED <<session, socket, loginData, pc>>
    BY <1>18 DEF SessionTimeout, ShutdownRequested
  <2>2. \A n \in Sessions : pc[n] \notin Ended \union {"idle"} => n = session
    BY DEF SessionInv
  <2>3. "ok" \in Ended
    BY PlaceNames
  <2> QED
    BY <2>1, <2>2, <2>3 DEF SessionInv, ReadyMeansLoggedIn, Attached
<1>19. CASE UNCHANGED vars
  BY <1>19, SessionFrame DEF vars
<1> QED
  BY Steps, <1>1, <1>2, <1>3, <1>4, <1>5, <1>6, <1>7, <1>8, <1>9, <1>10, <1>11, <1>12, <1>13,
     <1>14, <1>15, <1>16, <1>17, <1>18, <1>19
============================================================================
