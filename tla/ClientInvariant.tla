-------------------------- MODULE ClientInvariant --------------------------
(***************************************************************************)
(* The inductive invariant behind the safety properties of Client.         *)
(***************************************************************************)
EXTENDS Client

\* connect() has a WebSocket or is about to renew it.
Attached == {"running", "sending", "closing", "terminating", "renewLogout", "renewOpen"}

\* A login runs only beside the message loop it belongs to.
SessionInv ==
  /\ phase \in Attached => session \in Sessions /\ socket = "open"
  /\ phase \in {"running", "sending", "closing"} =>
       pc[session] \in {"nextTid", "socketSend", "insert", "await", "ok"}
  /\ phase = "terminating" => pc[session] \in Ended
  /\ phase \in {"renewLogout", "renewOpen"} => pc[session] = "ok"
  /\ \A n \in Sessions :
       /\ n > session => pc[n] = "idle"
       /\ pc[n] \notin Ended \union {"idle"} => n = session /\ phase \in {"running", "sending", "closing"}
  /\ ready => loginData

\* Calls stay within the code of their kind.
CallInv ==
  /\ \A s \in Senders : pc[s] \notin {"setShutdown", "waitUnready"}
  /\ \A c \in Lookups : pc[c] \in {"idle", "waitReady", "CommandTimeout", "dropped", "ok"}
  /\ \A l \in Logouts :
       pc[l] \in {"idle", "waitReady", "setShutdown", "waitUnready", "CommandTimeout", "dropped", "ok"}

\* An entry of the list belongs to a call of that number that has come to the end of send().
TableInv ==
  \A t \in Tid : table[t] # NoOne =>
    /\ tid[table[t]] = t
    /\ pc[table[t]] \in Ended \union {"await"}

\* The oneshot of a call is open before it is listed, and as long as it is.
SlotInv ==
  /\ \A s \in Senders : pc[s] \notin Ended \union {"await"} => slot[s].status = "empty"
  /\ \A t \in Tid : table[t] # NoOne => slot[table[t]].status = "empty"

\* A oneshot that holds an answer holds somebody's, and a call is done once it has one.
ResultInv ==
  \A s \in Senders :
    pc[s] = "ok" \/ slot[s].status \in {"reply", "error"} => slot[s].from # NoOne

\* A call has a number from next_transaction_id on,
NumberInv ==
  \A s \in Senders :
    /\ pc[s] \in {"idle", "waitReady", "nextTid"} => tid[s] = 0
    /\ pc[s] \in {"socketSend", "insert", "await"} => tid[s] # 0

\* its request carries it,
RequestInv ==
  /\ \A i \in DOMAIN queue : tid[queue[i].from] = queue[i].tid
  /\ \A r \in wire : tid[r.from] = r.tid

\* no two calls of one lap of the ring have the same, the first lap being the one that begins with
\* the first number,
LapInv ==
  /\ lap = 0 => last = MaxTid
  /\ \A s \in Senders :
       /\ lapOf[s] <= lap
       /\ tid[s] # 0 => lapOf[s] # 0
       /\ tid[s] # 0 /\ lapOf[s] = lap => tid[s] <= last
  /\ \A s, f \in Senders : tid[s] # 0 /\ tid[s] = tid[f] /\ lapOf[s] = lapOf[f] => s = f

\* and an answer only ever passes between two calls of the same number.
AnswerInv ==
  \A s \in Senders : slot[s].from # NoOne => tid[s] # 0 /\ tid[slot[s].from] = tid[s]

\* The flag goes down only where the message loop ends.
ClosingInv == phase = "closing" => shutdown

ShutdownInv ==
  \A l \in Logouts :
    /\ asked[l] <= connects
    /\ pc[l] = "waitUnready" => shutdown \/ connects > asked[l] \/ phase \in {"terminating", "idle"}

\* Everything together: each part holds initially and no step of any task breaks it.
IInv ==
  /\ TypeOK
  /\ SessionInv /\ ReadyMeansLoggedIn
  /\ CallInv /\ LookupFindsData
  /\ LockHeldInWindow
  /\ TableInv /\ AwaitHasSender
  /\ SlotInv /\ ResultInv /\ HeldByWaitingOrGivenUp
  /\ NumberInv /\ RequestInv /\ LapInv
  /\ AnswerInv /\ MisdeliveryCrossesLaps
  /\ PanicNeedsGivenUp
  /\ ClosingInv /\ ShutdownInv /\ LogoutEndsConnect
============================================================================
