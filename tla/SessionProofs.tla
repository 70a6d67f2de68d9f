--------------------------- MODULE SessionProofs ---------------------------
(* The properties of Session, for any number of logins.                    *)
EXTENDS Session, TLAPS

LEMMA Initially == Init => IInv
<1> SUFFICES ASSUME Init PROVE IInv
  OBVIOUS
<1> QED
  BY SessionAssumption DEF Init, IInv, TypeOK, HeldIsLive, LeftOnlyByFailure

\* Logins and logouts are different requests, each of one session.
LEMMA RequestsDiffer ==
  ASSUME NEW n, NEW k
  PROVE  /\ Login(n) # Logout(k)
         /\ Login(n) = Login(k) => n = k
         /\ Logout(n) = Logout(k) => n = k
<1>1. Login(n).op = "login" /\ Login(n).id = n /\ Login(k).id = k
  BY DEF Login
<1>2. Logout(k).op = "logout" /\ Logout(k).id = k /\ Logout(n).id = n
  BY DEF Logout
<1> QED
  BY <1>1, <1>2

\* A login may be sent whenever the session before it is over: logged out, or dropped by a failure.
LEMMA SendLoginKeeps ==
  ASSUME IInv, SendLogin, leaving' \in {"no", "renew", "stop"}, outcome' \in {"none", "ok", "err"},
         live' = live, failed' = failed,
         own \notin live \/ own \in failed, Login(own) \notin mail \/ own \in failed,
         Logout(own) \notin mail \/ own \in failed
  PROVE  IInv'
<1> USE DEF SendLogin
<1>1. own' \in 1 .. MaxLogins /\ own' = own + 1 /\ own \in 0 .. MaxLogins /\ at' = "login"
  BY SessionAssumption DEF IInv, TypeOK
<1>2. own' \notin live /\ own' \notin failed
  BY <1>1 DEF IInv, TypeOK
<1>3. TypeOK'
  <2>1. mail' \subseteq Requests
    BY <1>1 DEF IInv, TypeOK, Requests
  <2> QED
    BY <1>1, <2>1 DEF IInv, TypeOK
<1>4. \A n \in 1 .. MaxLogins : Login(n) \in mail' => Login(n) \in mail \/ n = own'
  BY RequestsDiffer
<1>5. \A n \in 1 .. MaxLogins : Logout(n) \in mail' => Logout(n) \in mail
  BY RequestsDiffer
<1>6. \A n \in 1 .. MaxLogins :
        /\ Login(n) \in mail' => n <= own' /\ n \notin live' /\ (n = own' \/ n \in failed')
        /\ Logout(n) \in mail' => n <= own' /\ n \in failed'
  BY <1>1, <1>2, <1>4, <1>5 DEF IInv, TypeOK
<1>7. LeftOnlyByFailure'
  BY <1>1, <1>4 DEF IInv, LeftOnlyByFailure
<1> QED
  BY <1>1, <1>2, <1>3, <1>6, <1>7 DEF IInv, HeldIsLive

\* What connect() does with its session.
LEMMA ConnectKeeps ==
  IInv /\ (Connect \/ LoggedIn \/ GotUri \/ Connected \/ SessionTimeout \/ ShutdownRequested
           \/ LoginAgain \/ Terminated \/ Fails \/ Dies) => IInv'
<1> SUFFICES ASSUME IInv PROVE
      (Connect \/ LoggedIn \/ GotUri \/ Connected \/ SessionTimeout \/ ShutdownRequested
       \/ LoginAgain \/ Terminated \/ Fails \/ Dies) => IInv'
  OBVIOUS
<1>0. own \in 0 .. MaxLogins /\ live \subseteq 1 .. own /\ 1 .. own \subseteq 1 .. MaxLogins
      /\ leaving \in {"no", "renew", "stop"} /\ outcome \in {"none", "ok", "err"}
  BY SessionAssumption DEF IInv, TypeOK
<1>1. CASE Connect
  <2>1. own \notin live \/ own \in failed
    BY <1>0, <1>1 DEF Connect, IInv, LeftOnlyByFailure
  <2>2. own \in 1 .. MaxLogins =>
          (Login(own) \in mail => own \in failed) /\ (Logout(own) \in mail => own \in failed)
    BY <1>1 DEF Connect, IInv, LeftOnlyByFailure
  <2>3. own = 0 => Login(own) \notin mail /\ Logout(own) \notin mail
    <3> SUFFICES ASSUME own = 0 PROVE Login(0) \notin Requests /\ Logout(0) \notin Requests
      BY DEF IInv, TypeOK
    <3> QED
      BY RequestsDiffer, SessionAssumption DEF Requests
  <2> QED
    BY <1>0, <1>1, <2>1, <2>2, <2>3, SendLoginKeeps DEF Connect
<1>2. CASE LoginAgain
  <2>1. own \in 1 .. MaxLogins
    BY <1>0, <1>2 DEF LoginAgain, LogoutDone, IInv
  <2>2. own \notin live /\ Logout(own) \notin mail
    BY <1>2 DEF LoginAgain, LogoutDone
  <2>3. Login(own) \notin mail
    BY <1>2, <2>1 DEF LoginAgain, LogoutDone, IInv
  <2> QED
    BY <1>0, <1>2, <2>2, <2>3, SendLoginKeeps DEF LoginAgain
<1> USE DEF IInv, TypeOK, HeldIsLive, LeftOnlyByFailure, symphonyVars
<1>3. CASE LoggedIn
  BY <1>0, <1>3 DEF LoggedIn
<1>4. CASE GotUri
  BY <1>0, <1>4 DEF GotUri
<1>5. CASE Connected
  BY <1>0, <1>5 DEF Connected
<1>6. CASE SessionTimeout
  BY <1>0, <1>6 DEF SessionTimeout
<1>7. CASE ShutdownRequested
  BY <1>0, <1>7 DEF ShutdownRequested
<1>8. CASE Terminated
  BY <1>0, <1>8 DEF Terminated, LogoutDone
<1>9. CASE Fails
  BY <1>0, <1>9 DEF Fails
<1>10. CASE Dies
  BY <1>0, <1>10 DEF Dies
<1> QED
  BY <1>1, <1>2, <1>3, <1>4, <1>5, <1>6, <1>7, <1>8, <1>9, <1>10

\* The logout is sent for the session that is held.
LEMMA ClosedKeeps == IInv /\ Closed => IInv'
<1> SUFFICES ASSUME IInv, Closed PROVE IInv'
  OBVIOUS
<1>1. own \in 1 .. MaxLogins
  BY SessionAssumption DEF IInv, TypeOK, Closed
<1>2. mail' \subseteq Requests
  BY <1>1 DEF IInv, TypeOK, Closed, Requests
<1>3. \A n \in 1 .. MaxLogins :
        /\ Login(n) \in mail' <=> Login(n) \in mail
        /\ Logout(n) \in mail' <=> Logout(n) \in mail \/ n = own
  BY RequestsDiffer DEF Closed
<1> QED
  BY <1>1, <1>2, <1>3 DEF IInv, TypeOK, HeldIsLive, LeftOnlyByFailure, Closed

\* Symphony acts on a request, or it is lost.
LEMMA SymphonyKeeps ==
  ASSUME IInv, NEW m \in Requests, ActsOn(m) \/ Loses(m)
  PROVE  IInv'
<1>1. PICK k \in 1 .. MaxLogins : m = Login(k) \/ m = Logout(k)
  BY DEF Requests
<1>2. \A n \in 1 .. MaxLogins :
        /\ Login(n) \in mail' <=> Login(n) \in mail /\ m # Login(n)
        /\ Logout(n) \in mail' <=> Logout(n) \in mail /\ m # Logout(n)
  BY DEF ActsOn, Loses
<1>3. mail' \subseteq Requests /\ UNCHANGED clientVars /\ m \in mail
  BY DEF ActsOn, Loses, IInv, TypeOK
<1>4. k \in 1 .. own
  BY <1>1, <1>3 DEF IInv, TypeOK
<1> USE <1>2, <1>3 DEF IInv, TypeOK, HeldIsLive, LeftOnlyByFailure, clientVars
<1>5. CASE live' = live
  BY <1>5
<1>6. CASE m = Login(k) /\ live' = live \union {k}
  <2>1. \A n \in 1 .. MaxLogins : Login(n) \in mail' => n # k
    BY <1>6
  <2> QED
    BY <1>4, <1>6, <2>1
<1>7. CASE m = Logout(k) /\ live' = live \ {k}
  <2>1. (k = own /\ at = "logout") \/ k \in failed
    BY <1>7
  <2> QED
    BY <1>4, <1>7, <2>1
<1>8. (m = Login(k) => m.op = "login" /\ m.id = k) /\ (m = Logout(k) => m.op # "login" /\ m.id = k)
  BY DEF Login, Logout
<1> QED
  BY <1>1, <1>5, <1>6, <1>7, <1>8 DEF ActsOn, Loses

LEMMA Preserved == IInv /\ [Next]_vars => IInv'
<1> SUFFICES ASSUME IInv, [Next]_vars PROVE IInv'
  OBVIOUS
<1>1. CASE UNCHANGED vars
  BY <1>1 DEF vars, clientVars, symphonyVars, IInv, TypeOK, HeldIsLive, LeftOnlyByFailure
<1> QED
  BY <1>1, ConnectKeeps, ClosedKeeps, SymphonyKeeps DEF Next, Quiet

\* Requests and sessions stay accounted for in every reachable state.
THEOREM Invariant == Spec => []IInv
  BY Initially, Preserved, PTL DEF Spec

\* The session whose token connect() uses is logged in at Symphony.
THEOREM HeldSessionIsLive == Spec => []HeldIsLive
<1>1. IInv => HeldIsLive
  BY DEF IInv
<1> QED
  BY Invariant, <1>1, PTL

\* Only a connect() that fails or panics leaves its session behind; a stop or a renewal that returns leaves
\* none, now or later.
THEOREM NothingLeftBehind == Spec => []LeftOnlyByFailure
<1>1. IInv => LeftOnlyByFailure
  BY DEF IInv
<1> QED
  BY Invariant, <1>1, PTL
----------------------------------------------------------------------------
\* What connect() does with its session is a step of the Connection, or none.
LEMMA FollowsStep ==
  ASSUME [Next]_vars
  PROVE  [C!Next]_(C!vars)
<1>1. UNCHANGED <<at, leaving>> => UNCHANGED Stage
  BY DEF Stage
<1>2. CASE Connect
  <2>1. at = "idle" /\ at' = "login" /\ UNCHANGED outcome
    BY <1>2 DEF Connect, SendLogin
  <2>2. Stage = "idle" /\ Stage' = "connecting"
    BY <2>1 DEF Stage
  <2> QED
    BY <2>1, <2>2 DEF C!Next, C!Begin, C!Moves
<1>3. CASE LoggedIn \/ GotUri
  <2>1. at \in {"login", "config"} /\ at' \in {"config", "handshake"} /\ UNCHANGED outcome
    BY <1>3 DEF LoggedIn, GotUri
  <2>2. Stage = "connecting" /\ Stage' = "connecting"
    BY <2>1 DEF Stage
  <2> QED
    BY <2>1, <2>2 DEF C!vars
<1>4. CASE Connected
  <2>1. at = "handshake" /\ at' = "running" /\ UNCHANGED outcome
    BY <1>4 DEF Connected
  <2>2. Stage = "connecting" /\ Stage' = "running"
    BY <2>1 DEF Stage
  <2> QED
    BY <2>1, <2>2 DEF C!Next, C!Establish, C!Moves
<1>5. CASE SessionTimeout
  <2>1. at = "running" /\ at' = "close" /\ leaving' = "renew" /\ UNCHANGED outcome
    BY <1>5 DEF SessionTimeout
  <2>2. Stage = "running" /\ Stage' = "connecting"
    BY <2>1 DEF Stage
  <2> QED
    BY <2>1, <2>2 DEF C!Next, C!Renew, C!Moves
<1>6. CASE ShutdownRequested
  <2>1. at = "running" /\ at' = "close" /\ leaving' = "stop" /\ UNCHANGED outcome
    BY <1>6 DEF ShutdownRequested
  <2>2. Stage = "running" /\ Stage' = "closing"
    BY <2>1 DEF Stage
  <2> QED
    BY <2>1, <2>2 DEF C!Next, C!Stop, C!Moves
<1>7. CASE Closed
  <2>1. at = "close" /\ at' = "logout" /\ UNCHANGED <<leaving, outcome>>
    BY <1>7 DEF Closed
  <2>2. UNCHANGED Stage
    BY <2>1 DEF Stage
  <2> QED
    BY <2>1, <2>2 DEF C!vars
<1>8. CASE LoginAgain
  <2>1. at = "logout" /\ leaving = "renew" /\ at' = "login" /\ UNCHANGED outcome
    BY <1>8 DEF LoginAgain, LogoutDone, SendLogin
  <2>2. Stage = "connecting" /\ Stage' = "connecting"
    BY <2>1 DEF Stage
  <2> QED
    BY <2>1, <2>2 DEF C!vars
<1>9. CASE Terminated
  <2>1. at = "logout" /\ leaving = "stop" /\ at' = "idle" /\ outcome' = "ok"
    BY <1>9 DEF Terminated, LogoutDone
  <2>2. Stage = "closing" /\ Stage' = "idle"
    BY <2>1 DEF Stage
  <2> QED
    BY <2>1, <2>2 DEF C!Next, C!Finish
<1>10. CASE Fails
  <2>1. at \notin {"idle", "dead"} /\ at' = "idle" /\ outcome' = "err"
    BY <1>10 DEF Fails
  <2>2. Stage \in {"connecting", "running", "closing"} /\ Stage' = "idle"
    BY <2>1 DEF Stage
  <2> QED
    BY <2>1, <2>2 DEF C!Next, C!Fail
<1>11. CASE Dies
  <2>1. at = "running" /\ at' = "dead" /\ UNCHANGED outcome
    BY <1>11 DEF Dies
  <2>2. Stage = "running" /\ Stage' = "dead"
    BY <2>1 DEF Stage
  <2> QED
    BY <2>1, <2>2 DEF C!Next, C!Die, C!Moves
<1>12. ASSUME (\E m \in Requests : ActsOn(m) \/ Loses(m)) \/ Quiet \/ UNCHANGED vars
       PROVE  UNCHANGED C!vars
  <2>1. UNCHANGED clientVars
    BY <1>12 DEF ActsOn, Loses, Quiet, vars
  <2> QED
    BY <1>1, <2>1 DEF clientVars, C!vars
<1> QED
  BY <1>2, <1>3, <1>4, <1>5, <1>6, <1>7, <1>8, <1>9, <1>10, <1>11, <1>12 DEF Next

\* Whatever happens to its requests, a session takes connect() through the stages of Connection: it
\* is the same way that the Client takes (ClientLifecycleProofs).
THEOREM Follows == Spec => SessionFollowsConnection
<1>1. Init => C!Init
  BY DEF Init, C!Init, Stage
<1>2. [Next]_vars => [C!Next]_(C!vars)
  BY FollowsStep
<1> QED
  BY <1>1, <1>2, PTL DEF Spec, C!Spec, SessionFollowsConnection
============================================================================
