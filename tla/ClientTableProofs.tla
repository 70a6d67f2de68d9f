------------------------- MODULE ClientTableProofs -------------------------
(* The socket mutex, the list of transactions and their numbers: the part of *)
(* the invariant about send() and the answers.                               *)
EXTENDS ClientTypeProofs

\* How a waiting call ends without an answer.
GivenUp == {"CommandTimeout", "dropped"}

\* A request on the wire has a number.
LEMMA RequestTids ==
  ASSUME TypeOK, NEW r \in wire
  PROVE  r.tid \in Tid
  BY DEF TypeOK, LinkTypeOK, Request

\* A step that only moves a call along, or ends it, or does none of this.
Plain ==
  /\ UNCHANGED <<linkVars, tidVars, listVars>>
  /\ \/ UNCHANGED pc
     \/ \E c \in Calls, p \in Places :
          /\ pc' = [pc EXCEPT ![c] = p]
          /\ pc[c] \notin Ended \union {"insert"}
          /\ p \notin {"idle", "socketSend", "insert", "await"}
          /\ p = "waitReady" => pc[c] = "idle"
          /\ p = "nextTid" => pc[c] = "waitReady"
          /\ pc[c] \in {"nextTid", "socketSend", "await"} => p \in Ended
          /\ pc[c] = "await" => p \in GivenUp \/ slot[c].status # "empty"

\* connect() goes down with its login; at most entries nobody waits for are removed.
Down ==
  /\ \E e \in Ended :
       /\ Hangup(e)
       /\ e \in GivenUp \/ e = pc[session] \/ pc[session] # "await" \/ slot[session].status # "empty"
       /\ pc[session] \in Ended => e = pc[session]
  /\ session \in Sessions
  /\ UNCHANGED <<tidVars, slot>>
  /\ \A t \in Tid : table'[t] = table[t] \/ (table'[t] = NoOne /\ pc[table[t]] # "await")

\* A session starts, on the old channel or on a new one.
Up ==
  /\ StartSession
  /\ UNCHANGED <<tidVars, listVars, socketLock>>
  /\ queue' = queue \/ queue' = <<>>

\* The list is reset; the login may be dropped.
Reset ==
  /\ ResetTransactions
  /\ UNCHANGED <<tid, lap, lapOf, queue, wire>>
  /\ \/ UNCHANGED <<pc, socketLock>>
     \/ /\ session \in Sessions
        /\ pc' = [pc EXCEPT ![session] = LoginDropped]
        /\ socketLock' = (IF socketLock = session THEN NoOne ELSE socketLock)

LEMMA FailEffect ==
  ASSUME TypeOK, SessionInv, ReadyMeansLoggedIn, NEW s \in Senders, NEW e \in Ended, Fail(s, e),
         pc[s] \in {"nextTid", "socketSend", "await"}, UNCHANGED <<tidVars, listVars>>,
         pc[s] = "await" => e \in GivenUp \/ slot[s].status # "empty"
  PROVE  Plain \/ Down
<1>1. CASE ConnectFails(e) /\ s \in Sessions
  <2>1. session \in Sessions /\ s = session /\ pc[s] \notin Ended
    BY <1>1, LiveLogin, PlaceNames
  <2> QED
    BY <1>1, <2>1 DEF ConnectFails, Down, tidVars, listVars
<1>2. CASE s \in Reads /\ pc' = [pc EXCEPT ![s] = e] /\ UNCHANGED <<connVars, linkVars>>
  <2>1. /\ s \in Calls /\ e \in Places /\ pc[s] \notin Ended \union {"insert"}
        /\ e \notin {"idle", "waitReady", "nextTid", "socketSend", "insert", "await"}
    BY PlaceNames, CallKinds
  <2> QED
    BY <1>2, <2>1 DEF Plain
<1> QED
  BY <1>1, <1>2 DEF Fail

\* What a step can do to the shared state of send() and the message loop.
LEMMA Effects ==
  ASSUME TypeOK, SessionInv, ReadyMeansLoggedIn, [Next]_vars
  PROVE  \/ Plain \/ Down \/ Up \/ Reset \/ SendNext
         \/ \E c \in Callers : Cancel(c)
         \/ \E s \in Senders : NextTransactionId(s) \/ SocketSend(s) \/ InsertTransaction(s)
         \/ \E r \in wire : \/ CancelTransaction(r)
                            \/ \E failed \in BOOLEAN : \/ CommitTransaction(r, failed)
                                                       \/ IgnoreResponse(r, failed)
<1>1. ASSUME NEW c \in Callers,
             Call(c) \/ WaitTimeout(c) \/ GetLocations(c) \/ FindGateway(c)
      PROVE  Plain
  <2>1. UNCHANGED <<linkVars, tidVars, listVars>>
    BY <1>1 DEF Call, WaitTimeout, GetLocations, FindGateway
  <2>2. PICK p \in Places : pc' = [pc EXCEPT ![c] = p]
                            /\ \/ pc[c] = "idle" /\ p = "waitReady"
                               \/ pc[c] = "waitReady" /\ p \in Ended \union {"nextTid"}
    BY <1>1, PlaceNames DEF Call, WaitTimeout, GetLocations, FindGateway
  <2>3. c \in Calls
    BY CallKinds
  <2>4. pc[c] \notin Ended \union {"insert"}
    BY <2>2, PlaceNames
  <2> QED
    BY <2>1, <2>2, <2>3, <2>4, PlaceNames DEF Plain
<1>2. ASSUME NEW s \in Senders,
             \/ TooManyTransactions(s) \/ SocketSendFails(s) \/ ResponseError(s)
             \/ CommandFailed(s) \/ CommandTimeout(s)
      PROVE  Plain \/ Down
  <2>1. UNCHANGED <<tidVars, listVars>> /\ pc[s] \in {"nextTid", "socketSend", "await"}
    BY <1>2 DEF TooManyTransactions, SocketSendFails, ResponseError, CommandFailed, CommandTimeout
  <2>2. PICK e \in Ended : /\ Fail(s, e)
                           /\ pc[s] = "await" => e \in GivenUp \/ slot[s].status # "empty"
    BY <1>2, PlaceNames DEF TooManyTransactions, SocketSendFails, ResponseError, CommandFailed,
                            CommandTimeout, GivenUp
  <2> QED
    BY <2>1, <2>2, FailEffect
<1>3. ASSUME NEW s \in Senders, ReadReturns(s) \/ LoginReturns(s)
      PROVE  Plain
  <2>1. /\ UNCHANGED <<linkVars, tidVars, listVars>> /\ pc[s] = "await" /\ pc' = [pc EXCEPT ![s] = "ok"]
        /\ slot[s].status # "empty"
    BY <1>3 DEF ReadReturns, LoginReturns
  <2>2. s \in Calls /\ "ok" \in Ended /\ "ok" \in Places /\ pc[s] \notin Ended \union {"insert"}
    BY <2>1, CallKinds, PlaceNames
  <2> QED
    BY <2>1, <2>2 DEF Plain
<1>4. ASSUME NEW l \in Logouts,
             LogoutWhenReady(l) \/ SetShutdown(l) \/ LogoutReturns(l) \/ LogoutTimeout(l)
      PROVE  Plain
  <2>1. UNCHANGED <<linkVars, tidVars, listVars>>
    BY <1>4 DEF LogoutWhenReady, SetShutdown, LogoutReturns, LogoutTimeout
  <2>2. PICK p \in Places : /\ pc' = [pc EXCEPT ![l] = p]
                            /\ pc[l] \in {"waitReady", "setShutdown", "waitUnready"}
                            /\ p \in Ended \union {"setShutdown", "waitUnready"}
    BY <1>4, PlaceNames DEF LogoutWhenReady, SetShutdown, LogoutReturns, LogoutTimeout
  <2>3. l \in Calls /\ pc[l] \notin Ended \union {"insert"}
    BY <2>2, CallKinds, PlaceNames
  <2> QED
    BY <2>1, <2>2, <2>3, PlaceNames DEF Plain
<1>5. ASSUME NEW r \in wire, PanicOnUnawaited(r)
      PROVE  Down
  <2>1. session \in Sessions
    BY <1>5 DEF PanicOnUnawaited, SessionInv, Attached
  <2>2. \A t \in Tid : table'[t] = table[t] \/ (table'[t] = NoOne /\ pc[table[t]] # "await")
    BY <1>5 DEF PanicOnUnawaited, TypeOK, ListTypeOK
  <2> QED
    BY <1>5, <2>1, <2>2, LoginDroppedEnded DEF PanicOnUnawaited, Down, LoginDropped, GivenUp
<1>6. CASE Connect \/ OpenFails \/ Sent \/ SessionTimeout \/ ShutdownRequested \/ UNCHANGED vars
  BY <1>6 DEF Connect, OpenFails, Sent, SessionTimeout, ShutdownRequested, vars, Plain
<1>7. CASE Opened \/ Renewed
  BY <1>7 DEF Opened, Renewed, Up
<1>8. CASE RenewLogout
  BY <1>8 DEF RenewLogout, Reset, linkVars
<1>9. CASE LoggedOut
  BY <1>9 DEF LoggedOut, Reset, SessionInv, Attached
<1>10. CASE RenewFails \/ ConnectionLost \/ ClosingFails \/ Terminated
  <2>1. Hangup(LoginDropped) /\ UNCHANGED <<tidVars, listVars>> /\ phase \in Attached
    BY <1>10 DEF RenewFails, ConnectionLost, ClosingFails, Terminated, ConnectFails, Attached
  <2> QED
    BY <2>1, LoginDroppedEnded DEF Down, SessionInv, listVars, LoginDropped, GivenUp
<1> QED
  BY Steps, <1>1, <1>2, <1>3, <1>4, <1>5, <1>6, <1>7, <1>8, <1>9, <1>10
----------------------------------------------------------------------------
\* A login starts from "idle".
LEMMA NewLogin ==
  ASSUME TypeOK, SessionInv, StartSession
  PROVE  /\ session + 1 \in Sessions
         /\ pc[session + 1] = "idle"
         /\ pc' = [pc EXCEPT ![session + 1] = "nextTid"]
<1>1. session + 1 \in Sessions
  BY Bounds DEF StartSession, Sessions, TypeOK, RareTypeOK
<1>2. pc[session + 1] = "idle"
  BY <1>1 DEF SessionInv, Sessions, TypeOK, RareTypeOK
<1> QED
  BY <1>1, <1>2 DEF StartSession

\* The socket mutex is held exactly between the channel send and the insert.
LEMMA LockStep ==
  TypeOK /\ SessionInv /\ ReadyMeansLoggedIn /\ LockHeldInWindow /\ [Next]_vars => LockHeldInWindow'
<1> SUFFICES ASSUME TypeOK, SessionInv, ReadyMeansLoggedIn, LockHeldInWindow, [Next]_vars,
                    NEW x \in Senders
             PROVE  socketLock' = x <=> pc'[x] = "insert"
  BY DEF LockHeldInWindow
<1>0. x \in Calls /\ x # NoOne /\ (socketLock = x <=> pc[x] = "insert")
  BY CallKinds DEF LockHeldInWindow
<1>1. CASE Plain
  BY <1>0, <1>1 DEF Plain, linkVars, TypeOK
<1>2. CASE Down
  BY <1>0, <1>2, PlaceNames DEF Down, Hangup, TypeOK
<1>3. CASE Up
  BY <1>0, <1>3, NewLogin DEF Up, TypeOK
<1>4. CASE Reset
  BY <1>0, <1>4, LoginDroppedEnded, PlaceNames DEF Reset, TypeOK
<1>5. CASE SendNext
  BY <1>0, <1>5 DEF SendNext
<1>6. ASSUME NEW c \in Callers, Cancel(c)
      PROVE  socketLock' = x <=> pc'[x] = "insert"
  BY <1>0, <1>6 DEF Cancel, TypeOK
<1>7. ASSUME NEW s \in Senders, NextTransactionId(s)
      PROVE  socketLock' = x <=> pc'[x] = "insert"
  BY <1>0, <1>7 DEF NextTransactionId, linkVars, TypeOK
<1>8. ASSUME NEW s \in Senders, SocketSend(s)
      PROVE  socketLock' = x <=> pc'[x] = "insert"
  BY <1>0, <1>8 DEF SocketSend, TypeOK
<1>9. ASSUME NEW s \in Senders, InsertTransaction(s)
      PROVE  socketLock' = x <=> pc'[x] = "insert"
  <2>1. socketLock = s
    BY <1>9 DEF InsertTransaction, LockHeldInWindow
  <2> QED
    BY <1>0, <1>9, <2>1 DEF InsertTransaction, TypeOK
<1>10. ASSUME NEW r \in wire, NEW failed \in BOOLEAN,
              \/ CommitTransaction(r, failed) \/ IgnoreResponse(r, failed) \/ CancelTransaction(r)
       PROVE  socketLock' = x <=> pc'[x] = "insert"
  BY <1>0, <1>10 DEF CommitTransaction, IgnoreResponse, CancelTransaction
<1> QED
  BY Effects, <1>1, <1>2, <1>3, <1>4, <1>5, <1>6, <1>7, <1>8, <1>9, <1>10
----------------------------------------------------------------------------
\* An entry carries its call's number, and its call has come to the end of send().
LEMMA TableStep ==
  TypeOK /\ SessionInv /\ ReadyMeansLoggedIn /\ TableInv /\ NumberInv /\ [Next]_vars => TableInv'
<1> SUFFICES ASSUME TypeOK, SessionInv, ReadyMeansLoggedIn, TableInv, NumberInv, [Next]_vars,
                    NEW t \in Tid, table'[t] # NoOne
             PROVE  tid'[table'[t]] = t /\ pc'[table'[t]] \in Ended \union {"await"}
  BY DEF TableInv
<1> DEFINE u == table[t]
<1>0. ASSUME u # NoOne
      PROVE  /\ u \in Senders /\ u \in Calls
             /\ tid[u] = t /\ pc[u] \in Ended \union {"await"}
             /\ pc[u] \notin {"idle", "waitReady", "nextTid", "socketSend", "insert"}
  <2>1. u \in Senders /\ u \in Calls
    BY <1>0, CallKinds DEF TypeOK, ListTypeOK
  <2>2. tid[u] = t /\ pc[u] \in Ended \union {"await"}
    BY <1>0 DEF TableInv
  <2> QED
    BY <2>1, <2>2, PlaceNames
<1>1. CASE Plain
  <2>1. table' = table /\ tid' = tid
    BY <1>1 DEF Plain, listVars, tidVars
  <2>2. pc'[u] \in Ended \union {"await"}
    BY <1>0, <1>1, <2>1 DEF Plain, TypeOK
  <2> QED
    BY <1>0, <2>1, <2>2
<1>2. CASE Down
  <2>1. table'[t] = u /\ tid' = tid
    BY <1>2 DEF Down, tidVars
  <2>2. pc'[u] \in Ended \union {"await"}
    BY <1>0, <1>2, <2>1 DEF Down, Hangup, TypeOK
  <2> QED
    BY <1>0, <2>1, <2>2
<1>3. CASE Up
  BY <1>0, <1>3, NewLogin DEF Up, tidVars, listVars, TypeOK
<1>4. CASE Reset
  BY <1>4 DEF Reset, ResetTransactions
<1>5. CASE SendNext
  BY <1>0, <1>5 DEF SendNext, tidVars, listVars
<1>6. ASSUME NEW c \in Callers, Cancel(c)
      PROVE  tid'[table'[t]] = t /\ pc'[table'[t]] \in Ended \union {"await"}
  BY <1>0, <1>6, PlaceNames DEF Cancel, tidVars, listVars, TypeOK
<1>7. ASSUME NEW s \in Senders, NextTransactionId(s)
      PROVE  tid'[table'[t]] = t /\ pc'[table'[t]] \in Ended \union {"await"}
  BY <1>0, <1>7 DEF NextTransactionId, listVars, TypeOK, TidTypeOK
<1>8. ASSUME NEW s \in Senders, SocketSend(s)
      PROVE  tid'[table'[t]] = t /\ pc'[table'[t]] \in Ended \union {"await"}
  BY <1>0, <1>8 DEF SocketSend, tidVars, listVars, TypeOK
<1>9. ASSUME NEW s \in Senders, InsertTransaction(s)
      PROVE  tid'[table'[t]] = t /\ pc'[table'[t]] \in Ended \union {"await"}
  <2>1. /\ pc[s] = "insert" /\ s \in Calls /\ tid' = tid
        /\ table' = [table EXCEPT ![tid[s]] = s] /\ pc' = [pc EXCEPT ![s] = "await"]
    BY <1>9, CallKinds DEF InsertTransaction, tidVars
  <2>2. CASE t = tid[s]
    BY <2>1, <2>2 DEF TypeOK, ListTypeOK
  <2>3. CASE t # tid[s]
    BY <1>0, <2>1, <2>3 DEF TypeOK, ListTypeOK
  <2> QED
    BY <2>2, <2>3
<1>10. ASSUME NEW r \in wire, NEW failed \in BOOLEAN,
              \/ CommitTransaction(r, failed) \/ IgnoreResponse(r, failed) \/ CancelTransaction(r)
       PROVE  tid'[table'[t]] = t /\ pc'[table'[t]] \in Ended \union {"await"}
  <2>1. table' = [table EXCEPT ![r.tid] = NoOne] /\ tid' = tid /\ pc' = pc
    BY <1>10 DEF CommitTransaction, IgnoreResponse, CancelTransaction, tidVars
  <2> QED
    BY <1>0, <2>1 DEF TypeOK, ListTypeOK
<1> QED
  BY Effects, <1>1, <1>2, <1>3, <1>4, <1>5, <1>6, <1>7, <1>8, <1>9, <1>10

\* Whoever waits with an open oneshot has its sender in the list under its own number.
LEMMA AwaitStep ==
  TypeOK /\ SessionInv /\ ReadyMeansLoggedIn /\ TableInv /\ NumberInv /\ AwaitHasSender /\ [Next]_vars
    => AwaitHasSender'
<1> SUFFICES ASSUME TypeOK, SessionInv, ReadyMeansLoggedIn, TableInv, NumberInv, AwaitHasSender,
                    [Next]_vars, NEW x \in Senders, pc'[x] = "await", slot'[x].status = "empty"
             PROVE  table'[tid'[x]] = x
  BY DEF AwaitHasSender
<1>0. /\ x \in Calls /\ x # NoOne
      /\ pc[x] = "await" => tid[x] \in Tid
      /\ pc[x] = "await" /\ slot[x].status = "empty" => table[tid[x]] = x
      /\ "await" \notin Ended
  BY CallKinds, PlaceNames DEF AwaitHasSender, NumberInv, TypeOK, TidTypeOK
<1>01. ASSUME NEW S, slot' = DropSenders(S), pc[x] = "await"
       PROVE  x \notin S /\ slot'[x] = slot[x]
  BY <1>01 DEF DropSenders, Dropped
<1>1. CASE Plain
  BY <1>0, <1>1 DEF Plain, tidVars, listVars, TypeOK
<1>2. CASE Down
  <2>1. pc[x] = "await" /\ slot' = slot /\ tid' = tid
    BY <1>0, <1>2 DEF Down, Hangup, TypeOK, tidVars
  <2>2. table[tid[x]] = x
    BY <1>0, <2>1
  <2> QED
    BY <1>0, <1>2, <2>1, <2>2 DEF Down
<1>3. CASE Up
  BY <1>0, <1>3, NewLogin DEF Up, tidVars, listVars, TypeOK
<1>4. CASE Reset
  <2>1. pc[x] = "await"
    BY <1>0, <1>4, LoginDroppedEnded DEF Reset, TypeOK
  <2>2. x \notin {table[t] : t \in Tid} /\ slot'[x] = slot[x]
    BY <1>4, <1>01, <2>1 DEF Reset, ResetTransactions
  <2> QED
    BY <1>0, <2>1, <2>2
<1>5. CASE SendNext
  BY <1>0, <1>5 DEF SendNext, tidVars, listVars
<1>6. ASSUME NEW c \in Callers, Cancel(c)
      PROVE  table'[tid'[x]] = x
  BY <1>0, <1>6 DEF Cancel, tidVars, listVars, TypeOK
<1>7. ASSUME NEW s \in Senders, NextTransactionId(s)
      PROVE  table'[tid'[x]] = x
  BY <1>0, <1>7 DEF NextTransactionId, listVars, TypeOK, TidTypeOK
<1>8. ASSUME NEW s \in Senders, SocketSend(s)
      PROVE  table'[tid'[x]] = x
  BY <1>0, <1>8 DEF SocketSend, tidVars, listVars, TypeOK
<1>9. ASSUME NEW s \in Senders, InsertTransaction(s)
      PROVE  table'[tid'[x]] = x
  <2>1. /\ pc[s] = "insert" /\ s \in Calls /\ tid' = tid
        /\ table' = [table EXCEPT ![tid[s]] = s] /\ pc' = [pc EXCEPT ![s] = "await"]
        /\ slot' = DropSenders({table[tid[s]]})
    BY <1>9, CallKinds DEF InsertTransaction, tidVars
  <2>2. tid[s] \in Tid
    BY <2>1 DEF NumberInv, TypeOK, TidTypeOK
  <2>3. CASE x = s
    BY <2>1, <2>2, <2>3 DEF TypeOK, ListTypeOK
  <2>4. CASE x # s
    <3>1. pc[x] = "await"
      BY <2>1, <2>4, <1>0 DEF TypeOK
    <3>2. x # table[tid[s]] /\ slot'[x] = slot[x]
      BY <1>01, <2>1, <3>1
    <3>3. tid[x] # tid[s]
      BY <1>0, <3>1, <3>2
    <3> QED
      BY <1>0, <2>1, <3>1, <3>2, <3>3 DEF TypeOK, ListTypeOK
  <2> QED
    BY <2>3, <2>4
<1>10. ASSUME NEW r \in wire, NEW failed \in BOOLEAN, CommitTransaction(r, failed)
       PROVE  table'[tid'[x]] = x
  <2>1. /\ table' = [table EXCEPT ![r.tid] = NoOne] /\ tid' = tid /\ pc' = pc
        /\ slot' = [slot EXCEPT ![table[r.tid]] = Answer(r, failed)]
    BY <1>10 DEF CommitTransaction, tidVars
  <2>2. x # table[r.tid]
    BY <2>1 DEF Answer, TypeOK, ListTypeOK
  <2>3. slot'[x] = slot[x] /\ tid[x] # r.tid
    BY <1>0, <2>1, <2>2 DEF TypeOK, ListTypeOK
  <2> QED
    BY <1>0, <2>1, <2>3 DEF TypeOK, ListTypeOK
<1>11. ASSUME NEW r \in wire, NEW failed \in BOOLEAN, IgnoreResponse(r, failed)
       PROVE  table'[tid'[x]] = x
  <2>1. /\ table' = [table EXCEPT ![r.tid] = NoOne] /\ tid' = tid /\ pc' = pc /\ slot' = slot
        /\ table[r.tid] = NoOne \/ pc[table[r.tid]] # "await"
    BY <1>11 DEF IgnoreResponse, tidVars
  <2>2. tid[x] # r.tid
    BY <1>0, <2>1
  <2> QED
    BY <1>0, <2>1, <2>2 DEF TypeOK, ListTypeOK
<1>12. ASSUME NEW r \in wire, CancelTransaction(r)
       PROVE  table'[tid'[x]] = x
  <2>1. /\ table' = [table EXCEPT ![r.tid] = NoOne] /\ tid' = tid /\ pc' = pc
        /\ slot' = DropSenders({table[r.tid]})
    BY <1>12 DEF CancelTransaction, tidVars
  <2>2. x # table[r.tid] /\ slot'[x] = slot[x]
    BY <1>01, <2>1
  <2>3. tid[x] # r.tid
    BY <1>0, <2>1, <2>2
  <2> QED
    BY <1>0, <2>1, <2>2, <2>3 DEF TypeOK, ListTypeOK
<1> QED
  BY Effects, <1>1, <1>2, <1>3, <1>4, <1>5, <1>6, <1>7, <1>8, <1>9, <1>10, <1>11, <1>12
----------------------------------------------------------------------------
\* A oneshot is resolved only for a call that waits, and its entry goes with it.
LEMMA SlotStep ==
  TypeOK /\ SessionInv /\ ReadyMeansLoggedIn /\ TableInv /\ NumberInv /\ SlotInv /\ [Next]_vars => SlotInv'
<1> SUFFICES ASSUME TypeOK, SessionInv, ReadyMeansLoggedIn, TableInv, NumberInv, SlotInv, [Next]_vars
             PROVE  SlotInv'
  OBVIOUS
<1> DEFINE Before(p) == p \notin Ended \union {"await"}
           Open(c) == slot[c].status = "empty"
<1>0. /\ \A x \in Senders : x \in Calls /\ x # NoOne /\ (Before(pc[x]) => Open(x))
      /\ \A t \in Tid : table[t] # NoOne => table[t] \in Senders /\ Open(table[t]) /\ tid[table[t]] = t
      /\ "await" \notin Ended /\ ~Before("await") /\ \A p \in Ended : ~Before(p)
  BY CallKinds, PlaceNames DEF SlotInv, TableInv, TypeOK, ListTypeOK
<1>1. ASSUME slot' = slot, \A t \in Tid : table'[t] \in {table[t], NoOne},
             \A x \in Senders : Before(pc'[x]) => Before(pc[x])
      PROVE  SlotInv'
  BY <1>0, <1>1 DEF SlotInv
<1>2. ASSUME NEW S, slot' = DropSenders(S)
      PROVE  \A x \in Senders : slot'[x] = slot[x] \/ (x \in S /\ pc[x] = "await")
  BY <1>2 DEF DropSenders
<1>3. ASSUME NEW S, slot' = DropSenders(S),
             \A t \in Tid : table'[t] # NoOne => table'[t] = table[t] /\ table[t] \notin S,
             \A x \in Senders : Before(pc'[x]) => Before(pc[x])
      PROVE  SlotInv'
  <2>1. \A x \in Senders : Before(pc'[x]) => slot'[x].status = "empty"
    BY <1>0, <1>2, <1>3
  <2>2. \A t \in Tid : table'[t] # NoOne => slot'[table'[t]].status = "empty"
    BY <1>0, <1>2, <1>3
  <2> QED
    BY <2>1, <2>2 DEF SlotInv
<1>4. CASE Plain
  <2>1. slot' = slot /\ table' = table
    BY <1>4 DEF Plain, listVars
  <2>2. \A x \in Senders : Before(pc'[x]) => Before(pc[x])
    BY <1>0, <1>4 DEF Plain, TypeOK
  <2> QED
    BY <1>1, <2>1, <2>2
<1>5. CASE Down
  <2>1. slot' = slot /\ \A t \in Tid : table'[t] \in {table[t], NoOne}
    BY <1>5 DEF Down
  <2>2. \A x \in Senders : Before(pc'[x]) => Before(pc[x])
    BY <1>0, <1>5 DEF Down, Hangup, TypeOK
  <2> QED
    BY <1>1, <2>1, <2>2
<1>6. CASE Up
  <2>1. slot' = slot /\ table' = table
    BY <1>6 DEF Up, listVars
  <2>2. \A x \in Senders : Before(pc'[x]) => Before(pc[x])
    BY <1>0, <1>6, NewLogin, PlaceNames DEF Up, TypeOK
  <2> QED
    BY <1>1, <2>1, <2>2
<1>7. CASE Reset
  <2>1. slot' = DropSenders({table[t] : t \in Tid}) /\ \A t \in Tid : table'[t] = NoOne
    BY <1>7 DEF Reset, ResetTransactions
  <2>2. \A x \in Senders : Before(pc'[x]) => Before(pc[x])
    BY <1>0, <1>7, LoginDroppedEnded DEF Reset, TypeOK
  <2> QED
    BY <1>3, <2>1, <2>2
<1>8. CASE SendNext
  BY <1>1, <1>8 DEF SendNext, listVars
<1>9. ASSUME NEW c \in Callers, Cancel(c)
      PROVE  SlotInv'
  <2>1. slot' = slot /\ table' = table /\ pc' = [pc EXCEPT ![c] = "dropped"]
    BY <1>9 DEF Cancel, listVars
  <2>2. \A x \in Senders : Before(pc'[x]) => Before(pc[x])
    BY <1>0, <2>1, PlaceNames DEF TypeOK
  <2> QED
    BY <1>1, <2>1, <2>2
<1>10. ASSUME NEW s \in Senders, NextTransactionId(s) \/ SocketSend(s)
       PROVE  SlotInv'
  <2>1. /\ slot' = slot /\ table' = table /\ pc[s] \in {"nextTid", "socketSend"}
        /\ \E p : pc' = [pc EXCEPT ![s] = p]
    BY <1>10 DEF NextTransactionId, SocketSend, listVars
  <2>2. \A x \in Senders : Before(pc'[x]) => Before(pc[x])
    BY <1>0, <2>1, PlaceNames DEF TypeOK
  <2> QED
    BY <1>1, <2>1, <2>2
<1>11. ASSUME NEW s \in Senders, InsertTransaction(s)
       PROVE  SlotInv'
  <2>1. /\ pc[s] = "insert" /\ table' = [table EXCEPT ![tid[s]] = s]
        /\ slot' = DropSenders({table[tid[s]]}) /\ pc' = [pc EXCEPT ![s] = "await"]
    BY <1>11 DEF InsertTransaction
  <2>0. \A x \in Senders : slot'[x] = slot[x] \/ (x = table[tid[s]] /\ pc[x] = "await")
    BY <1>2, <2>1
  <2>2. tid[s] \in Tid /\ Open(s) /\ slot'[s] = slot[s]
    <3>1. tid[s] \in Tid
      BY <2>1 DEF NumberInv, TypeOK, TidTypeOK
    <3>2. Before(pc[s])
      BY <2>1, PlaceNames
    <3> QED
      BY <1>0, <2>0, <2>1, <3>1, <3>2
  <2>3. \A x \in Senders : Before(pc'[x]) => Before(pc[x]) /\ pc[x] # "await"
    BY <1>0, <2>1 DEF TypeOK
  <2>4. \A x \in Senders : Before(pc'[x]) => slot'[x].status = "empty"
    BY <1>0, <2>0, <2>3
  <2>5. \A t \in Tid \ {tid[s]} : table'[t] = table[t] /\ (table[t] # NoOne => table[t] # table[tid[s]])
    BY <1>0, <2>1, <2>2 DEF TypeOK, ListTypeOK
  <2>6. table'[tid[s]] = s
    BY <2>1, <2>2 DEF TypeOK, ListTypeOK
  <2>7. ASSUME NEW t \in Tid, table'[t] # NoOne
        PROVE  slot'[table'[t]].status = "empty"
    <3>1. CASE t = tid[s]
      BY <2>2, <2>6, <3>1
    <3>2. CASE t # tid[s]
      BY <1>0, <2>0, <2>5, <2>7, <3>2
    <3> QED
      BY <3>1, <3>2
  <2> QED
    BY <2>4, <2>7 DEF SlotInv
<1>12. ASSUME NEW r \in wire, NEW failed \in BOOLEAN, CommitTransaction(r, failed)
       PROVE  SlotInv'
  <2>1. /\ table' = [table EXCEPT ![r.tid] = NoOne] /\ pc' = pc
        /\ table[r.tid] # NoOne /\ pc[table[r.tid]] = "await"
        /\ slot' = [slot EXCEPT ![table[r.tid]] = Answer(r, failed)]
    BY <1>12 DEF CommitTransaction
  <2>2. \A x \in Senders : x # table[r.tid] => slot'[x] = slot[x]
    BY <2>1 DEF TypeOK, ListTypeOK
  <2>3. \A t \in Tid : table'[t] # NoOne => table'[t] = table[t] /\ t # r.tid
    BY <2>1 DEF TypeOK, ListTypeOK
  <2>4. \A t \in Tid : table'[t] # NoOne => table[t] # table[r.tid]
    BY <1>0, <2>1, <2>3, RequestTids
  <2>5. \A x \in Senders : Before(pc'[x]) => slot'[x].status = "empty"
    BY <1>0, <2>1, <2>2
  <2>6. \A t \in Tid : table'[t] # NoOne => slot'[table'[t]].status = "empty"
    BY <1>0, <2>2, <2>3, <2>4
  <2> QED
    BY <2>5, <2>6 DEF SlotInv
<1>13. ASSUME NEW r \in wire, NEW failed \in BOOLEAN, IgnoreResponse(r, failed)
       PROVE  SlotInv'
  <2>1. table' = [table EXCEPT ![r.tid] = NoOne] /\ pc' = pc /\ slot' = slot
    BY <1>13 DEF IgnoreResponse
  <2>2. \A t \in Tid : table'[t] \in {table[t], NoOne}
    BY <2>1 DEF TypeOK, ListTypeOK
  <2> QED
    BY <1>1, <2>1, <2>2
<1>14. ASSUME NEW r \in wire, CancelTransaction(r)
       PROVE  SlotInv'
  <2>1. /\ table' = [table EXCEPT ![r.tid] = NoOne] /\ pc' = pc
        /\ slot' = DropSenders({table[r.tid]})
    BY <1>14 DEF CancelTransaction
  <2>2. \A t \in Tid : table'[t] # NoOne => table'[t] = table[t] /\ t # r.tid
    BY <2>1 DEF TypeOK, ListTypeOK
  <2>3. \A t \in Tid : table'[t] # NoOne => table[t] # table[r.tid]
    BY <1>0, <2>2, RequestTids
  <2> QED
    BY <1>3, <2>1, <2>2, <2>3
<1> QED
  BY Effects, <1>4, <1>5, <1>6, <1>7, <1>8, <1>9, <1>10, <1>11, <1>12, <1>13, <1>14

\* A oneshot is only resolved while its call waits.
LEMMA SlotMoves ==
  ASSUME TypeOK, SessionInv, ReadyMeansLoggedIn, [Next]_vars, NEW x \in Senders
  PROVE  \/ slot'[x] = slot[x]
         \/ pc[x] = "await" /\ (slot'[x] = Dropped \/ slot'[x].from # NoOne)
<1> DEFINE Goal == \/ slot'[x] = slot[x]
                   \/ pc[x] = "await" /\ (slot'[x] = Dropped \/ slot'[x].from # NoOne)
<1>1. ASSUME NEW S, slot' = DropSenders(S)
      PROVE  Goal
  BY <1>1 DEF DropSenders
<1>2. CASE slot' = slot
  BY <1>2
<1>3. ASSUME Plain \/ Down \/ Up \/ SendNext \/ \E c \in Callers : Cancel(c)
      PROVE  slot' = slot
  BY <1>3 DEF Plain, Down, Up, SendNext, Cancel, listVars
<1>4. CASE Reset
  BY <1>1, <1>4 DEF Reset, ResetTransactions
<1>5. ASSUME NEW s \in Senders, NextTransactionId(s) \/ SocketSend(s)
      PROVE  slot' = slot
  BY <1>5 DEF NextTransactionId, SocketSend, listVars
<1>6. ASSUME NEW s \in Senders, InsertTransaction(s)
      PROVE  Goal
  BY <1>1, <1>6 DEF InsertTransaction
<1>7. ASSUME NEW r \in wire, NEW failed \in BOOLEAN, IgnoreResponse(r, failed) \/ CancelTransaction(r)
      PROVE  Goal
  BY <1>1, <1>2, <1>7 DEF IgnoreResponse, CancelTransaction
<1>8. ASSUME NEW r \in wire, NEW failed \in BOOLEAN, CommitTransaction(r, failed)
      PROVE  Goal
  <2>1. pc[table[r.tid]] = "await" /\ slot' = [slot EXCEPT ![table[r.tid]] = Answer(r, failed)]
    BY <1>8 DEF CommitTransaction
  <2>2. Answer(r, failed).from # NoOne
    <3>1. r.from \in Senders
      BY DEF TypeOK, LinkTypeOK, Request
    <3> QED
      BY <3>1, CallKinds DEF Answer
  <2> QED
    BY <2>1, <2>2 DEF TypeOK, ListTypeOK
<1> QED
  BY Effects, <1>2, <1>3, <1>4, <1>5, <1>6, <1>7, <1>8

\* A call of send() returns Ok only with an answer.
LEMMA OkMoves ==
  ASSUME TypeOK, SessionInv, [Next]_vars, NEW x \in Senders, pc'[x] = "ok"
  PROVE  pc[x] = "ok" \/ (slot' = slot /\ slot[x].status = "reply")
<1>1. ASSUME NEW c, NEW p, pc' = [pc EXCEPT ![c] = p], p # "ok" \/ c # x
      PROVE  pc[x] = "ok"
  BY <1>1, CallKinds DEF TypeOK
<1>2. ASSUME NEW c \in Callers,
             \/ Call(c) \/ Cancel(c) \/ WaitTimeout(c) \/ GetLocations(c) \/ FindGateway(c)
      PROVE  pc[x] = "ok"
  <2>1. \E p : pc' = [pc EXCEPT ![c] = p] /\ (p # "ok" \/ c # x)
    BY <1>2, CallKinds DEF Call, Cancel, WaitTimeout, GetLocations, FindGateway
  <2> QED
    BY <1>1, <2>1
<1>3. ASSUME NEW s \in Senders, NextTransactionId(s) \/ SocketSend(s) \/ InsertTransaction(s)
      PROVE  pc[x] = "ok"
  <2>1. \E p : pc' = [pc EXCEPT ![s] = p] /\ p # "ok"
    BY <1>3 DEF NextTransactionId, SocketSend, InsertTransaction
  <2> QED
    BY <1>1, <2>1
<1>4. ASSUME NEW s \in Senders, ReadReturns(s) \/ LoginReturns(s)
      PROVE  pc[x] = "ok" \/ (slot' = slot /\ slot[x].status = "reply")
  <2>1. pc' = [pc EXCEPT ![s] = "ok"] /\ slot' = slot /\ slot[s].status = "reply"
    BY <1>4 DEF ReadReturns, LoginReturns, listVars
  <2> QED
    BY <1>1, <2>1
<1>5. ASSUME NEW s \in Senders,
             \/ TooManyTransactions(s) \/ SocketSendFails(s) \/ ResponseError(s)
             \/ CommandFailed(s) \/ CommandTimeout(s)
      PROVE  pc[x] = "ok"
  <2>1. PICK e \in Errors : Fail(s, e)
    BY <1>5, PlaceNames DEF TooManyTransactions, SocketSendFails, ResponseError, CommandFailed,
                            CommandTimeout
  <2>2. e # "ok"
    BY <2>1 DEF Errors
  <2>3. \E c : pc' = [pc EXCEPT ![c] = e]
    BY <2>1 DEF Fail, ConnectFails, Hangup
  <2> QED
    BY <1>1, <2>2, <2>3
<1>6. ASSUME NEW l \in Logouts,
             LogoutWhenReady(l) \/ SetShutdown(l) \/ LogoutReturns(l) \/ LogoutTimeout(l)
      PROVE  pc[x] = "ok"
  <2>1. l # x /\ \E p : pc' = [pc EXCEPT ![l] = p]
    BY <1>6, CallKinds DEF LogoutWhenReady, SetShutdown, LogoutReturns, LogoutTimeout
  <2> QED
    BY <1>1, <2>1
<1>7. ASSUME pc' = [pc EXCEPT ![session] = LoginDropped]
      PROVE  pc[x] = "ok"
  <2>1. CASE LoginDropped = pc[session]
    BY <1>7, <2>1, CallKinds DEF TypeOK
  <2>2. CASE LoginDropped = "dropped"
    BY <1>1, <1>7, <2>2
  <2> QED
    BY <2>1, <2>2 DEF LoginDropped
<1>8. ASSUME \/ RenewFails \/ ClosingFails \/ LoggedOut \/ Terminated \/ ConnectionLost
             \/ \E r \in wire : PanicOnUnawaited(r)
      PROVE  pc[x] = "ok"
  <2>1. pc' = [pc EXCEPT ![session] = LoginDropped]
    BY <1>8 DEF RenewFails, ClosingFails, LoggedOut, Terminated, ConnectionLost, PanicOnUnawaited,
                ConnectFails, Hangup
  <2> QED
    BY <1>7, <2>1
<1>9. ASSUME Opened \/ Renewed
      PROVE  pc[x] = "ok"
  <2>1. \E c : pc' = [pc EXCEPT ![c] = "nextTid"]
    BY <1>9 DEF Opened, Renewed, StartSession
  <2> QED
    BY <1>1, <2>1
<1>10. ASSUME \/ Connect \/ OpenFails \/ RenewLogout
              \/ SendNext \/ Sent \/ SessionTimeout \/ ShutdownRequested \/ UNCHANGED vars
              \/ \E r \in wire : \/ CancelTransaction(r)
                                 \/ \E failed \in BOOLEAN : \/ CommitTransaction(r, failed)
                                                            \/ IgnoreResponse(r, failed)
       PROVE  pc[x] = "ok"
  <2>1. pc' = pc
    BY <1>10 DEF Connect, OpenFails, RenewLogout, SendNext, Sent, SessionTimeout, ShutdownRequested, vars,
                 CancelTransaction, CommitTransaction, IgnoreResponse
  <2> QED
    BY <2>1
<1> QED
  BY Steps, <1>2, <1>3, <1>4, <1>5, <1>6, <1>8, <1>9, <1>10

LEMMA ResultStep ==
  TypeOK /\ SessionInv /\ ReadyMeansLoggedIn /\ ResultInv /\ [Next]_vars => ResultInv'
<1> SUFFICES ASSUME TypeOK, SessionInv, ReadyMeansLoggedIn, ResultInv, [Next]_vars, NEW x \in Senders
             PROVE  pc'[x] = "ok" \/ slot'[x].status \in {"reply", "error"} => slot'[x].from # NoOne
  BY DEF ResultInv
<1>1. slot'[x].status \in {"reply", "error"} => slot'[x].from # NoOne
  BY SlotMoves DEF ResultInv, Dropped
<1>2. pc'[x] = "ok" => slot'[x].from # NoOne
  BY SlotMoves, OkMoves DEF ResultInv
<1> QED
  BY <1>1, <1>2

\* A call is only refused a number when none is free.
LEMMA TooManyNoneFree ==
  ASSUME TypeOK, [Next]_vars, NEW x \in Senders, pc[x] = "nextTid", pc'[x] = "TooManyTransactions"
  PROVE  NoneFree(Used)
<1>1. ASSUME NEW c, NEW p, pc' = [pc EXCEPT ![c] = p], p # "TooManyTransactions"
      PROVE  FALSE
  BY <1>1, CallKinds DEF TypeOK
<1>2. ASSUME NEW c \in Callers,
             \/ Call(c) \/ Cancel(c) \/ WaitTimeout(c) \/ GetLocations(c) \/ FindGateway(c)
      PROVE  FALSE
  <2>1. \E p : pc' = [pc EXCEPT ![c] = p] /\ p # "TooManyTransactions"
    BY <1>2 DEF Call, Cancel, WaitTimeout, GetLocations, FindGateway
  <2> QED
    BY <1>1, <2>1
<1>3. ASSUME NEW s \in Senders,
             \/ NextTransactionId(s) \/ SocketSend(s) \/ InsertTransaction(s)
             \/ ReadReturns(s) \/ LoginReturns(s)
      PROVE  FALSE
  <2>1. \E p : pc' = [pc EXCEPT ![s] = p] /\ p # "TooManyTransactions"
    BY <1>3 DEF NextTransactionId, SocketSend, InsertTransaction, ReadReturns, LoginReturns
  <2> QED
    BY <1>1, <2>1
<1>4. ASSUME NEW s \in Senders,
             SocketSendFails(s) \/ ResponseError(s) \/ CommandFailed(s) \/ CommandTimeout(s)
      PROVE  FALSE
  <2>1. PICK e \in {"CommandFailed", "SendError", "ResponseError", "CommandTimeout"} : Fail(s, e)
    BY <1>4 DEF SocketSendFails, ResponseError, CommandFailed, CommandTimeout
  <2>2. \E c : pc' = [pc EXCEPT ![c] = e]
    BY <2>1 DEF Fail, ConnectFails, Hangup
  <2> QED
    BY <1>1, <2>1, <2>2
<1>5. ASSUME NEW l \in Logouts,
             LogoutWhenReady(l) \/ SetShutdown(l) \/ LogoutReturns(l) \/ LogoutTimeout(l)
      PROVE  FALSE
  <2>1. \E p : pc' = [pc EXCEPT ![l] = p] /\ p # "TooManyTransactions"
    BY <1>5 DEF LogoutWhenReady, SetShutdown, LogoutReturns, LogoutTimeout
  <2> QED
    BY <1>1, <2>1
<1>6. ASSUME \/ RenewFails \/ ClosingFails \/ LoggedOut \/ Terminated \/ ConnectionLost
             \/ \E r \in wire : PanicOnUnawaited(r)
      PROVE  FALSE
  <2>1. pc' = [pc EXCEPT ![session] = LoginDropped]
    BY <1>6 DEF RenewFails, ClosingFails, LoggedOut, Terminated, ConnectionLost, PanicOnUnawaited,
                ConnectFails, Hangup
  <2>2. x = session /\ LoginDropped = "TooManyTransactions"
    BY <2>1, CallKinds DEF TypeOK
  <2>3. pc[session] = "TooManyTransactions"
    BY <2>2 DEF LoginDropped
  <2> QED
    BY <2>2, <2>3
<1>7. ASSUME Opened \/ Renewed
      PROVE  FALSE
  <2>1. \E c : pc' = [pc EXCEPT ![c] = "nextTid"]
    BY <1>7 DEF Opened, Renewed, StartSession
  <2> QED
    BY <1>1, <2>1
<1>8. ASSUME \/ Connect \/ OpenFails \/ RenewLogout
             \/ SendNext \/ Sent \/ SessionTimeout \/ ShutdownRequested \/ UNCHANGED vars
             \/ \E r \in wire : \/ CancelTransaction(r)
                                \/ \E failed \in BOOLEAN : \/ CommitTransaction(r, failed)
                                                           \/ IgnoreResponse(r, failed)
      PROVE  FALSE
  <2>1. pc' = pc
    BY <1>8 DEF Connect, OpenFails, RenewLogout, SendNext, Sent, SessionTimeout, ShutdownRequested, vars,
                CancelTransaction, CommitTransaction, IgnoreResponse
  <2> QED
    BY <2>1
<1>9. \E s \in Senders : TooManyTransactions(s)
  BY Steps, <1>2, <1>3, <1>4, <1>5, <1>6, <1>7, <1>8
<1> QED
  BY <1>9 DEF TooManyTransactions

\* A call that ends other than by giving up has had its oneshot resolved, so its entry is gone.
LEMMA HeldStep ==
  TypeOK /\ SessionInv /\ ReadyMeansLoggedIn /\ NumberInv /\ SlotInv /\ HeldByWaitingOrGivenUp /\ [Next]_vars
    => HeldByWaitingOrGivenUp'
<1> SUFFICES ASSUME TypeOK, SessionInv, ReadyMeansLoggedIn, NumberInv, SlotInv, HeldByWaitingOrGivenUp,
                    [Next]_vars, NEW t \in Tid, table'[t] # NoOne
             PROVE  pc'[table'[t]] \in GivenUp \union {"await"}
  BY DEF HeldByWaitingOrGivenUp, GivenUp
<1> DEFINE u == table[t]
           Goal == pc'[table'[t]] \in GivenUp \union {"await"}
<1>0. /\ u # NoOne => /\ u \in Senders /\ u \in Calls
                      /\ pc[u] \in GivenUp \union {"await"} /\ slot[u].status = "empty"
                      /\ pc[u] # "await" => pc[u] \in Ended
      /\ GivenUp \subseteq Ended /\ "dropped" \in GivenUp /\ "await" \notin Ended
  BY CallKinds, PlaceNames DEF HeldByWaitingOrGivenUp, SlotInv, GivenUp, TypeOK, ListTypeOK
<1>1. CASE Plain
  <2>1. table' = table
    BY <1>1 DEF Plain, listVars
  <2>2. pc'[u] = pc[u] \/ pc'[u] \in GivenUp
    BY <1>0, <1>1, <2>1 DEF Plain, TypeOK
  <2> QED
    BY <1>0, <2>1, <2>2
<1>2. CASE Down
  <2>1. table'[t] = u
    BY <1>2 DEF Down
  <2>2. pc'[u] = pc[u] \/ pc'[u] \in GivenUp
    BY <1>0, <1>2, <2>1 DEF Down, Hangup, TypeOK
  <2> QED
    BY <1>0, <2>1, <2>2
<1>3. CASE Up
  <2>1. table' = table
    BY <1>3 DEF Up, listVars
  <2>2. u # session + 1
    BY <1>0, <1>3, <2>1, NewLogin, PlaceNames DEF Up
  <2> QED
    BY <1>0, <1>3, <2>1, <2>2, NewLogin DEF Up, TypeOK
<1>4. CASE Reset
  BY <1>4 DEF Reset, ResetTransactions
<1>5. CASE SendNext
  BY <1>0, <1>5 DEF SendNext, listVars
<1>6. ASSUME NEW c \in Callers, Cancel(c)
      PROVE  Goal
  BY <1>0, <1>6 DEF Cancel, listVars, TypeOK
<1>7. ASSUME NEW s \in Senders, NextTransactionId(s) \/ SocketSend(s)
      PROVE  Goal
  <2>1. table' = table /\ pc[s] \in {"nextTid", "socketSend"} /\ \E p : pc' = [pc EXCEPT ![s] = p]
    BY <1>7 DEF NextTransactionId, SocketSend, listVars
  <2>2. u # s
    BY <1>0, <2>1, PlaceNames
  <2> QED
    BY <1>0, <2>1, <2>2 DEF TypeOK
<1>8. ASSUME NEW s \in Senders, InsertTransaction(s)
      PROVE  Goal
  <2>1. /\ pc[s] = "insert" /\ s \in Calls
        /\ table' = [table EXCEPT ![tid[s]] = s] /\ pc' = [pc EXCEPT ![s] = "await"]
    BY <1>8, CallKinds DEF InsertTransaction
  <2>2. table'[t] \in {s, u}
    BY <2>1 DEF TypeOK, ListTypeOK
  <2> QED
    BY <1>0, <2>1, <2>2 DEF TypeOK
<1>9. ASSUME NEW r \in wire, NEW failed \in BOOLEAN,
             \/ CommitTransaction(r, failed) \/ IgnoreResponse(r, failed) \/ CancelTransaction(r)
      PROVE  Goal
  <2>1. table' = [table EXCEPT ![r.tid] = NoOne] /\ pc' = pc
    BY <1>9 DEF CommitTransaction, IgnoreResponse, CancelTransaction
  <2> QED
    BY <1>0, <2>1 DEF TypeOK, ListTypeOK
<1> QED
  BY Effects, <1>1, <1>2, <1>3, <1>4, <1>5, <1>6, <1>7, <1>8, <1>9
----------------------------------------------------------------------------
\* A call is numbered in next_transaction_id and not before.
LEMMA NumberStep ==
  TypeOK /\ SessionInv /\ ReadyMeansLoggedIn /\ NumberInv /\ [Next]_vars => NumberInv'
<1> SUFFICES ASSUME TypeOK, SessionInv, ReadyMeansLoggedIn, NumberInv, [Next]_vars,
                    NEW x \in Senders
             PROVE  /\ pc'[x] \in {"idle", "waitReady", "nextTid"} => tid'[x] = 0
                    /\ pc'[x] \in {"socketSend", "insert", "await"} => tid'[x] # 0
  BY DEF NumberInv
<1> DEFINE Goal == /\ pc'[x] \in {"idle", "waitReady", "nextTid"} => tid'[x] = 0
                   /\ pc'[x] \in {"socketSend", "insert", "await"} => tid'[x] # 0
<1>0. /\ x \in Calls
      /\ pc[x] \in {"idle", "waitReady", "nextTid"} => tid[x] = 0
      /\ pc[x] \in {"socketSend", "insert", "await"} => tid[x] # 0
  BY CallKinds DEF NumberInv
<1>1. CASE Plain
  <2>1. CASE UNCHANGED pc
    BY <1>0, <1>1, <2>1 DEF Plain, tidVars
  <2>2. ASSUME NEW c \in Calls, NEW p \in Places, pc' = [pc EXCEPT ![c] = p],
               p \notin {"idle", "socketSend", "insert", "await"},
               p = "waitReady" => pc[c] = "idle", p = "nextTid" => pc[c] = "waitReady"
        PROVE  Goal
    <3>1. CASE c = x
      BY <1>0, <1>1, <2>2, <3>1 DEF Plain, tidVars, TypeOK
    <3>2. CASE c # x
      BY <1>0, <1>1, <2>2, <3>2 DEF Plain, tidVars, TypeOK
    <3> QED
      BY <3>1, <3>2
  <2> QED
    BY <1>1, <2>1, <2>2 DEF Plain
<1>2. CASE Down
  BY <1>0, <1>2, PlaceNames DEF Down, Hangup, tidVars, TypeOK
<1>3. CASE Up
  BY <1>0, <1>3, NewLogin DEF Up, tidVars, TypeOK
<1>4. CASE Reset
  BY <1>0, <1>4, LoginDroppedEnded, PlaceNames DEF Reset, TypeOK
<1>5. CASE SendNext
  BY <1>0, <1>5 DEF SendNext, tidVars
<1>6. ASSUME NEW c \in Callers, Cancel(c)
      PROVE  Goal
  BY <1>0, <1>6 DEF Cancel, tidVars, TypeOK
<1>7. ASSUME NEW s \in Senders, NextTransactionId(s)
      PROVE  Goal
  BY <1>0, <1>7 DEF NextTransactionId, TypeOK, TidTypeOK, Tid
<1>8. ASSUME NEW s \in Senders, SocketSend(s) \/ InsertTransaction(s)
      PROVE  Goal
  BY <1>0, <1>8 DEF SocketSend, InsertTransaction, tidVars, TypeOK
<1>9. ASSUME NEW r \in wire, NEW failed \in BOOLEAN,
             \/ CommitTransaction(r, failed) \/ IgnoreResponse(r, failed) \/ CancelTransaction(r)
      PROVE  Goal
  BY <1>0, <1>9 DEF CommitTransaction, IgnoreResponse, CancelTransaction, tidVars
<1> QED
  BY Effects, <1>1, <1>2, <1>3, <1>4, <1>5, <1>6, <1>7, <1>8, <1>9

\* The requests in flight.
LEMMA QueueFacts ==
  ASSUME TypeOK
  PROVE  /\ \A i \in DOMAIN queue : queue[i] \in Request
         /\ \A r \in wire : r \in Request
         /\ \A r \in Request : r.tid \in Tid /\ r.from \in Senders
         /\ queue # <<>> => /\ Head(queue) = queue[1] /\ 1 \in DOMAIN queue
                            /\ \A i \in DOMAIN Tail(queue) : /\ i + 1 \in DOMAIN queue
                                                            /\ Tail(queue)[i] = queue[i + 1]
<1>1. queue \in Seq(Request) /\ wire \subseteq Request
  BY DEF TypeOK, LinkTypeOK
<1>2. \A i \in DOMAIN queue : queue[i] \in Request
  BY <1>1
<1>3. \A r \in Request : r.tid \in Tid /\ r.from \in Senders
  BY DEF Request
<1>4. ASSUME queue # <<>>
      PROVE  /\ Head(queue) = queue[1] /\ 1 \in DOMAIN queue
             /\ \A i \in DOMAIN Tail(queue) : i + 1 \in DOMAIN queue /\ Tail(queue)[i] = queue[i + 1]
  BY <1>1, <1>4
<1> QED
  BY <1>1, <1>2, <1>3, <1>4

\* A request carries its call's number.
LEMMA RequestStep ==
  TypeOK /\ SessionInv /\ ReadyMeansLoggedIn /\ NumberInv /\ RequestInv /\ [Next]_vars => RequestInv'
<1> SUFFICES ASSUME TypeOK, SessionInv, ReadyMeansLoggedIn, NumberInv, RequestInv, [Next]_vars
             PROVE  RequestInv'
  OBVIOUS
<1>1. ASSUME UNCHANGED <<queue, tid>>, wire' \subseteq wire
      PROVE  RequestInv'
  BY <1>1 DEF RequestInv
<1>2. CASE Plain
  BY <1>1, <1>2 DEF Plain, linkVars, tidVars
<1>3. CASE Down
  BY <1>3 DEF Down, Hangup, RequestInv
<1>4. CASE Up
  <2>1. wire' = {} /\ tid' = tid /\ (queue' = queue \/ queue' = <<>>)
    BY <1>4 DEF Up, StartSession, tidVars
  <2> QED
    BY <2>1 DEF RequestInv
<1>5. CASE Reset
  BY <1>1, <1>5 DEF Reset
<1>6. CASE SendNext
  <2>1. /\ queue # <<>> /\ queue' = Tail(queue) /\ tid' = tid
        /\ \A r \in wire' : r \in wire \/ r = Head(queue)
    BY <1>6 DEF SendNext, tidVars
  <2>2. \A i \in DOMAIN queue' : tid[queue'[i].from] = queue'[i].tid
    BY <2>1, QueueFacts DEF RequestInv
  <2>3. \A r \in wire' : tid[r.from] = r.tid
    BY <2>1, QueueFacts DEF RequestInv
  <2> QED
    BY <2>1, <2>2, <2>3 DEF RequestInv
<1>7. ASSUME NEW c \in Callers, Cancel(c)
      PROVE  RequestInv'
  BY <1>1, <1>7 DEF Cancel, tidVars
<1>8. ASSUME NEW s \in Senders, NextTransactionId(s)
      PROVE  RequestInv'
  <2>1. UNCHANGED <<queue, wire>> /\ \E t : tid' = [tid EXCEPT ![s] = t]
    BY <1>8 DEF NextTransactionId, linkVars
  <2>2. tid[s] = 0
    BY <1>8 DEF NextTransactionId, NumberInv
  <2>3. \A r \in Request : tid[r.from] = r.tid => tid'[r.from] = r.tid
    <3>1. 0 \notin Tid
      BY DEF Tid
    <3> QED
      BY <2>1, <2>2, <3>1, QueueFacts DEF TypeOK, TidTypeOK
  <2> QED
    BY <2>1, <2>3, QueueFacts DEF RequestInv
<1>9. ASSUME NEW s \in Senders, SocketSend(s)
      PROVE  RequestInv'
  <2> DEFINE new == [tid |-> tid[s], from |-> s]
  <2>1. queue' = Append(queue, new) /\ UNCHANGED <<wire, tid>>
    BY <1>9 DEF SocketSend, tidVars
  <2>2. queue \in Seq(Request) /\ new \in Request
    BY <1>9 DEF SocketSend, NumberInv, TypeOK, LinkTypeOK, TidTypeOK, Request
  <2>3. \A i \in DOMAIN queue' : (i \in DOMAIN queue /\ queue'[i] = queue[i]) \/ queue'[i] = new
    BY <2>1, <2>2
  <2>4. tid[new.from] = new.tid
    OBVIOUS
  <2> QED
    BY <2>1, <2>3, <2>4 DEF RequestInv
<1>10. ASSUME NEW s \in Senders, InsertTransaction(s)
       PROVE  RequestInv'
  BY <1>1, <1>10 DEF InsertTransaction, tidVars
<1>11. ASSUME NEW r \in wire, NEW failed \in BOOLEAN,
              \/ CommitTransaction(r, failed) \/ IgnoreResponse(r, failed) \/ CancelTransaction(r)
       PROVE  RequestInv'
  BY <1>1, <1>11 DEF CommitTransaction, IgnoreResponse, CancelTransaction, tidVars
<1> QED
  BY Effects, <1>2, <1>3, <1>4, <1>5, <1>6, <1>7, <1>8, <1>9, <1>10, <1>11

\* Numbers are not repeated within a lap: the search goes up the ring from last, and a reset or
\* a wrap starts a new lap.
LEMMA LapStep ==
  TypeOK /\ SessionInv /\ ReadyMeansLoggedIn /\ LapInv /\ [Next]_vars => LapInv'
<1> SUFFICES ASSUME TypeOK, SessionInv, ReadyMeansLoggedIn, LapInv, [Next]_vars
             PROVE  LapInv'
  OBVIOUS
<1>1. CASE UNCHANGED tidVars
  BY <1>1 DEF LapInv, tidVars
<1>2. CASE Reset
  <2>1. last' = MaxTid /\ UNCHANGED <<tid, lap, lapOf>>
    BY <1>2 DEF Reset, ResetTransactions
  <2>2. \A s \in Senders : tid[s] # 0 => tid[s] <= MaxTid
    BY MaxTidAssumption DEF TypeOK, TidTypeOK, Tid
  <2> QED
    BY <2>1, <2>2 DEF LapInv
<1>3. ASSUME NEW s \in Senders, NextTransactionId(s)
      PROVE  LapInv'
  <2>1. PICK t \in Tid : /\ last' = t
                         /\ tid' = [tid EXCEPT ![s] = t]
                         /\ lap' = (IF t <= last THEN lap + 1 ELSE lap)
                         /\ lapOf' = [lapOf EXCEPT ![s] = lap']
    BY <1>3 DEF NextTransactionId
  <2>2. /\ t \in Int /\ last \in Int /\ lap \in Int
        /\ \A x \in Senders : tid[x] \in Int /\ lapOf[x] \in Int
    BY MaxTidAssumption DEF TypeOK, TidTypeOK, Tid
  <2>3. /\ tid'[s] = t /\ lapOf'[s] = lap'
        /\ \A x \in Senders : x # s => tid'[x] = tid[x] /\ lapOf'[x] = lapOf[x]
    BY <2>1 DEF TypeOK, TidTypeOK
  <2>4. \A x \in Senders : x # s /\ tid[x] # 0 /\ lapOf[x] = lap' => tid[x] < t
    BY <2>1, <2>2 DEF LapInv
  <2>5. \A x \in Senders : lapOf'[x] <= lap' /\ (tid'[x] # 0 /\ lapOf'[x] = lap' => tid'[x] <= last')
    BY <2>1, <2>2, <2>3, <2>4 DEF LapInv
  <2>6. \A x, f \in Senders : tid'[x] # 0 /\ tid'[x] = tid'[f] /\ lapOf'[x] = lapOf'[f] => x = f
    BY <2>2, <2>3, <2>4 DEF LapInv
  <2>7. lap' # 0
    BY <2>1, <2>2 DEF LapInv, Tid, TypeOK, TidTypeOK
  <2>8. \A x \in Senders : tid'[x] # 0 => lapOf'[x] # 0
    BY <2>3, <2>7 DEF LapInv
  <2> QED
    BY <2>5, <2>6, <2>7, <2>8 DEF LapInv
<1>4. ASSUME NEW s \in Senders, SocketSend(s) \/ InsertTransaction(s)
      PROVE  UNCHANGED tidVars
  BY <1>4 DEF SocketSend, InsertTransaction
<1>5. ASSUME NEW r \in wire, NEW failed \in BOOLEAN,
             \/ CommitTransaction(r, failed) \/ IgnoreResponse(r, failed) \/ CancelTransaction(r)
      PROVE  UNCHANGED tidVars
  BY <1>5 DEF CommitTransaction, IgnoreResponse, CancelTransaction
<1>6. ASSUME Plain \/ Down \/ Up \/ SendNext \/ \E c \in Callers : Cancel(c)
      PROVE  UNCHANGED tidVars
  BY <1>6 DEF Plain, Down, Up, SendNext, Cancel
<1> QED
  BY Effects, <1>1, <1>2, <1>3, <1>4, <1>5, <1>6

\* Answers only pass between calls of the same number.
LEMMA AnswerStep ==
  TypeOK /\ SessionInv /\ ReadyMeansLoggedIn /\ TableInv /\ NumberInv /\ RequestInv /\ AnswerInv
    /\ [Next]_vars => AnswerInv'
<1> SUFFICES ASSUME TypeOK, SessionInv, ReadyMeansLoggedIn, TableInv, NumberInv, RequestInv, AnswerInv,
                    [Next]_vars, NEW x \in Senders, slot'[x].from # NoOne
             PROVE  tid'[x] # 0 /\ tid'[slot'[x].from] = tid'[x]
  BY DEF AnswerInv
<1> DEFINE Goal == tid'[x] # 0 /\ tid'[slot'[x].from] = tid'[x]
<1>1. ASSUME slot'[x] = slot[x], UNCHANGED tid
      PROVE  Goal
  BY <1>1 DEF AnswerInv
<1>2. ASSUME NEW S, slot' = DropSenders(S)
      PROVE  slot'[x] = slot[x]
  BY <1>2 DEF DropSenders, Dropped
<1>3. CASE Plain \/ Down \/ Up \/ SendNext
  BY <1>1, <1>3 DEF Plain, Down, Up, SendNext, listVars, tidVars
<1>4. CASE Reset
  BY <1>1, <1>2, <1>4 DEF Reset, ResetTransactions
<1>5. ASSUME NEW c \in Callers, Cancel(c)
      PROVE  Goal
  BY <1>1, <1>5 DEF Cancel, listVars, tidVars
<1>6. ASSUME NEW s \in Senders, NextTransactionId(s)
      PROVE  Goal
  <2>1. slot' = slot /\ pc[s] = "nextTid" /\ \E t : tid' = [tid EXCEPT ![s] = t]
    BY <1>6 DEF NextTransactionId, listVars
  <2>2. tid[s] = 0
    BY <2>1 DEF NumberInv
  <2>3. x # s /\ slot[x].from # s
    BY <2>1, <2>2 DEF AnswerInv
  <2>4. slot[x].from \in Senders
    BY <2>1 DEF TypeOK, ListTypeOK
  <2> QED
    BY <2>1, <2>3, <2>4 DEF AnswerInv, TypeOK, TidTypeOK
<1>7. ASSUME NEW s \in Senders, SocketSend(s)
      PROVE  Goal
  BY <1>1, <1>7 DEF SocketSend, listVars, tidVars
<1>8. ASSUME NEW s \in Senders, InsertTransaction(s)
      PROVE  Goal
  BY <1>1, <1>2, <1>8 DEF InsertTransaction, tidVars
<1>9. ASSUME NEW r \in wire, NEW failed \in BOOLEAN, CommitTransaction(r, failed)
      PROVE  Goal
  <2>1. /\ tid' = tid /\ table[r.tid] # NoOne
        /\ slot' = [slot EXCEPT ![table[r.tid]] = Answer(r, failed)]
    BY <1>9 DEF CommitTransaction, tidVars
  <2>2. CASE x # table[r.tid]
    BY <1>1, <2>1, <2>2 DEF TypeOK, ListTypeOK
  <2>3. CASE x = table[r.tid]
    <3>1. slot'[x].from = r.from
      BY <2>1, <2>3 DEF Answer, TypeOK, ListTypeOK
    <3>2. r.tid \in Tid /\ r.tid # 0
      BY QueueFacts DEF Tid
    <3>3. tid[x] = r.tid /\ tid[r.from] = r.tid
      BY <2>1, <2>3, <3>2 DEF TableInv, RequestInv
    <3> QED
      BY <2>1, <3>1, <3>2, <3>3
  <2> QED
    BY <2>2, <2>3
<1>10. ASSUME NEW r \in wire, NEW failed \in BOOLEAN,
              IgnoreResponse(r, failed) \/ CancelTransaction(r)
       PROVE  Goal
  BY <1>1, <1>2, <1>10 DEF IgnoreResponse, CancelTransaction, tidVars
<1> QED
  BY Effects, <1>3, <1>4, <1>5, <1>6, <1>7, <1>8, <1>9, <1>10

\* Hence an answer that reaches the wrong call was asked for in another lap.
LEMMA AnswerLap == TypeOK /\ AnswerInv /\ LapInv => MisdeliveryCrossesLaps
<1> SUFFICES ASSUME TypeOK, AnswerInv, LapInv, NEW s \in Senders, slot[s].from \notin {NoOne, s}
             PROVE  lapOf[slot[s].from] # lapOf[s]
  BY DEF MisdeliveryCrossesLaps
<1>1. slot[s].from \in Senders
  BY DEF TypeOK, ListTypeOK
<1> QED
  BY <1>1 DEF AnswerInv, LapInv

\* In the first lap there is no other.
LEMMA FirstLap == TypeOK /\ NumberInv /\ AnswerInv /\ LapInv /\ lap <= 1 =>
                    \A s \in Senders : slot[s].from \in {NoOne, s}
<1> SUFFICES ASSUME TypeOK, AnswerInv, LapInv, lap <= 1, NEW s \in Senders, slot[s].from # NoOne
             PROVE  slot[s].from = s
  OBVIOUS
<1> DEFINE f == slot[s].from
<1>1. f \in Senders
  BY DEF TypeOK, ListTypeOK
<1>2. tid[s] # 0 /\ tid[f] = tid[s]
  BY DEF AnswerInv
<1>3. /\ lap \in Nat /\ lapOf[s] \in Nat /\ lapOf[f] \in Nat
      /\ lapOf[s] # 0 /\ lapOf[f] # 0 /\ lapOf[s] <= lap /\ lapOf[f] <= lap
  BY <1>1, <1>2 DEF LapInv, TypeOK, TidTypeOK
<1>4. lapOf[s] = lapOf[f]
  BY <1>3
<1> QED
  BY <1>1, <1>2, <1>4 DEF LapInv
----------------------------------------------------------------------------
\* The message loop panics over the numbered entry of a call that has given up, which is not its login;
\* calls that have given up stay so and keep their number.
LEMMA PanicStep ==
  TypeOK /\ SessionInv /\ TableInv /\ HeldByWaitingOrGivenUp /\ PanicNeedsGivenUp /\ [Next]_vars
    => PanicNeedsGivenUp'
<1> SUFFICES ASSUME TypeOK, SessionInv, TableInv, HeldByWaitingOrGivenUp, PanicNeedsGivenUp,
                    [Next]_vars, phase' = "panicked"
             PROVE  \E s \in Senders : s # session' /\ tid'[s] # 0 /\ pc'[s] \in GivenUp
  BY DEF PanicNeedsGivenUp, GivenUp
<1>1. ASSUME NEW r \in wire, PanicOnUnawaited(r)
      PROVE  \E s \in Senders : s # session' /\ tid'[s] # 0 /\ pc'[s] \in GivenUp
  <2> DEFINE u == table[r.tid]
  <2>1. u \in Senders /\ pc[u] \in GivenUp
    BY <1>1, RequestTids DEF PanicOnUnawaited, HeldByWaitingOrGivenUp, GivenUp, TypeOK, ListTypeOK
  <2>2. u # session
    BY <1>1, <2>1 DEF PanicOnUnawaited, SessionInv, GivenUp
  <2>3. UNCHANGED <<session, tid>> /\ pc' = [pc EXCEPT ![session] = LoginDropped]
    BY <1>1 DEF PanicOnUnawaited, Hangup, rareVars, tidVars
  <2>4. pc'[u] = pc[u]
    BY <2>2, <2>3
  <2>5. tid[u] # 0
    <3>1. r.tid \in Tid /\ r.tid # 0 /\ table[r.tid] # NoOne
      BY <1>1, RequestTids DEF PanicOnUnawaited, Tid
    <3> QED
      BY <3>1 DEF TableInv
  <2> QED
    BY <2>1, <2>2, <2>3, <2>4, <2>5
<1>2. ASSUME phase = "panicked", UNCHANGED session,
             \A s \in Senders : pc[s] \in GivenUp => pc'[s] = pc[s] /\ tid'[s] = tid[s]
      PROVE  \E s \in Senders : s # session' /\ tid'[s] # 0 /\ pc'[s] \in GivenUp
  BY <1>2 DEF PanicNeedsGivenUp, GivenUp
<1>3. GivenUp \subseteq Ended
  BY PlaceNames DEF GivenUp
<1> DEFINE Keeps == phase = "panicked" /\ UNCHANGED session
                    /\ \A s \in Senders : pc[s] \in GivenUp => pc'[s] = pc[s] /\ tid'[s] = tid[s]
<1>4. ASSUME NEW c \in Calls, NEW p, pc' = [pc EXCEPT ![c] = p], pc[c] \notin Ended,
             UNCHANGED <<phase, session>>, \A s \in Senders \ {c} : tid'[s] = tid[s]
      PROVE  Keeps
  BY <1>3, <1>4, CallKinds DEF TypeOK
<1> USE DEF connVars, rareVars, tidVars
<1>5. ASSUME NEW c \in Callers,
             \/ Call(c) \/ Cancel(c) \/ WaitTimeout(c) \/ GetLocations(c) \/ FindGateway(c)
      PROVE  Keeps
  <2>1. c \in Calls /\ UNCHANGED <<phase, session, tid>> /\ \E p : pc' = [pc EXCEPT ![c] = p]
    BY <1>5, CallKinds DEF Call, Cancel, WaitTimeout, GetLocations, FindGateway
  <2>2. pc[c] \notin Ended
    BY <1>5, PlaceNames DEF Call, Cancel, WaitTimeout, GetLocations, FindGateway
  <2> QED
    BY <1>4, <2>1, <2>2
<1>6. ASSUME NEW s \in Senders,
             \/ NextTransactionId(s) \/ SocketSend(s) \/ InsertTransaction(s)
             \/ ReadReturns(s) \/ LoginReturns(s)
      PROVE  Keeps
  <2>1. s \in Calls /\ UNCHANGED <<phase, session>> /\ \E p : pc' = [pc EXCEPT ![s] = p]
    BY <1>6, CallKinds DEF NextTransactionId, SocketSend, InsertTransaction, ReadReturns, LoginReturns
  <2>2. pc[s] \notin Ended
    BY <1>6, PlaceNames DEF NextTransactionId, SocketSend, InsertTransaction, ReadReturns, LoginReturns
  <2>3. \A q \in Senders \ {s} : tid'[q] = tid[q]
    BY <1>6 DEF NextTransactionId, SocketSend, InsertTransaction, ReadReturns, LoginReturns, TypeOK, TidTypeOK
  <2> QED
    BY <1>4, <2>1, <2>2, <2>3
<1>7. ASSUME NEW s \in Senders,
             \/ TooManyTransactions(s) \/ SocketSendFails(s) \/ ResponseError(s)
             \/ CommandFailed(s) \/ CommandTimeout(s)
      PROVE  Keeps
  <2>1. UNCHANGED <<session, tid>> /\ pc[s] \in {"nextTid", "socketSend", "await"} /\ \E e : Fail(s, e)
    BY <1>7 DEF TooManyTransactions, SocketSendFails, ResponseError, CommandFailed, CommandTimeout
  <2>2. UNCHANGED phase /\ \E p : pc' = [pc EXCEPT ![s] = p]
    BY <2>1 DEF Fail, ConnectFails
  <2>3. s \in Calls /\ pc[s] \notin Ended
    BY <2>1, CallKinds, PlaceNames
  <2> QED
    BY <1>4, <2>1, <2>2, <2>3
<1>8. ASSUME NEW l \in Logouts,
             LogoutWhenReady(l) \/ SetShutdown(l) \/ LogoutReturns(l) \/ LogoutTimeout(l)
      PROVE  Keeps
  <2>1. l \in Calls /\ UNCHANGED <<phase, session, tid>> /\ \E p : pc' = [pc EXCEPT ![l] = p]
    BY <1>8, CallKinds DEF LogoutWhenReady, SetShutdown, LogoutReturns, LogoutTimeout
  <2>2. pc[l] \notin Ended
    BY <1>8, PlaceNames DEF LogoutWhenReady, SetShutdown, LogoutReturns, LogoutTimeout
  <2> QED
    BY <1>4, <2>1, <2>2
<1>9. ASSUME NEW r \in wire, NEW failed \in BOOLEAN,
             \/ CommitTransaction(r, failed) \/ IgnoreResponse(r, failed) \/ CancelTransaction(r)
      PROVE  Keeps
  BY <1>9 DEF CommitTransaction, IgnoreResponse, CancelTransaction
<1>10. ~ \/ Connect \/ OpenFails \/ Opened \/ RenewLogout \/ RenewFails \/ Renewed
         \/ ClosingFails \/ LoggedOut \/ Terminated
         \/ SendNext \/ Sent \/ ConnectionLost \/ SessionTimeout \/ ShutdownRequested
  BY DEF Connect, OpenFails, Opened, RenewLogout, RenewFails, Renewed, StartSession, ClosingFails,
         LoggedOut, Terminated, SendNext, Sent, ConnectionLost, ConnectFails, SessionTimeout,
         ShutdownRequested
<1>11. ASSUME UNCHANGED vars
       PROVE  Keeps
  BY <1>11 DEF vars
<1>12. Keeps \/ \E r \in wire : PanicOnUnawaited(r)
  <2> HIDE DEF Keeps
  <2> QED
    BY Steps, <1>5, <1>6, <1>7, <1>8, <1>9, <1>10, <1>11
<1> QED
  BY <1>1, <1>2, <1>12
============================================================================
