------------------------------ MODULE Session ------------------------------
(***************************************************************************)
(* The typestate Session as connect() drives it, together with the HTTP    *)
(* sessions that Symphony keeps.  A request may be acted on after its      *)
(* sender has given it up, or be lost or refused.  Session n is the one    *)
(* the n-th login asks for.                                                *)
(*                                                                         *)
(* Left out: sessions that Symphony ends by itself, and the messages on    *)
(* the WebSocket, which are in Client.                                     *)
(***************************************************************************)
EXTENDS Naturals

CONSTANT MaxLogins    \* bound: logins over all calls of connect()

ASSUME SessionAssumption == MaxLogins \in Nat

VARIABLES
  at,        \* the operation that connect() awaits, "idle", or "dead" after a panic
  leaving,   \* why the session is logged out: "renew", "stop", or "no"
  own,       \* the session that connect() holds or asks for, 0 before the first
  outcome,   \* what the last connect() returned: "none", "ok", "err"
  mail,      \* requests that Symphony has neither acted on nor lost
  live,      \* sessions that are logged in at Symphony
  failed     \* history: sessions that connect() held when it returned an error or panicked

clientVars == <<at, leaving, own, outcome, failed>>
symphonyVars == <<mail, live>>
vars == <<clientVars, symphonyVars>>

Login(n) == [op |-> "login", id |-> n]
Logout(n) == [op |-> "logout", id |-> n]
Requests == {Login(n) : n \in 1 .. MaxLogins} \union {Logout(n) : n \in 1 .. MaxLogins}

Init ==
  /\ at = "idle" /\ leaving = "no" /\ own = 0
  /\ outcome = "none"
  /\ mail = {} /\ live = {} /\ failed = {}
----------------------------------------------------------------------------
(* Session<Start> to Session<Connected>.                                   *)

\* The POST of login, by a reqwest client of its own.
SendLogin ==
  /\ own < MaxLogins
  /\ own' = own + 1
  /\ mail' = mail \union {Login(own + 1)}
  /\ at' = "login"

Connect ==
  /\ at = "idle"
  /\ SendLogin
  /\ UNCHANGED <<leaving, outcome, failed, live>>

MutantAnyAnswerLogsIn ==
  /\ at = "login"
  /\ Login(own) \notin mail
  /\ at' = "config"
  /\ UNCHANGED <<leaving, own, outcome, failed, symphonyVars>>

\* The answer has the cookie sessionid.
LoggedIn ==
  /\ at = "login"
  /\ own \in live
  /\ at' = "config"
  /\ UNCHANGED <<leaving, own, outcome, failed, symphonyVars>>

\* get_websockets_uri() finds the URI in the page.
GotUri ==
  /\ at = "config"
  /\ at' = "handshake"
  /\ UNCHANGED <<leaving, own, outcome, failed, symphonyVars>>

Connected ==
  /\ at = "handshake"
  /\ at' = "running"
  /\ UNCHANGED <<leaving, own, outcome, failed, symphonyVars>>
----------------------------------------------------------------------------
(* Session<Connected> to Session<Disconnected>, by renewal or shutdown.    *)

MutantRenewsAtOnce ==
  /\ at = "running"
  /\ SendLogin
  /\ UNCHANGED <<leaving, outcome, failed, live>>

SessionTimeout ==
  /\ at = "running"
  /\ at' = "close" /\ leaving' = "renew"
  /\ UNCHANGED <<own, outcome, failed, symphonyVars>>

ShutdownRequested ==
  /\ at = "running"
  /\ at' = "close" /\ leaving' = "stop"
  /\ UNCHANGED <<own, outcome, failed, symphonyVars>>

\* The Close frame is sent; then the GET of logout.
Closed ==
  /\ at = "close"
  /\ at' = "logout"
  /\ mail' = mail \union {Logout(own)}
  /\ UNCHANGED <<leaving, own, outcome, failed, live>>

\* Symphony has acted on the request and says so.
LogoutDone ==
  /\ at = "logout"
  /\ own \notin live
  /\ Logout(own) \notin mail

\* Session<Disconnected>::login: the same credentials, a new reqwest client.
LoginAgain ==
  /\ LogoutDone
  /\ leaving = "renew" /\ leaving' = "no"
  /\ SendLogin
  /\ UNCHANGED <<outcome, failed, live>>

MutantLogoutStatusIgnored ==
  /\ at = "logout"
  /\ Logout(own) \notin mail
  /\ leaving = "stop" /\ leaving' = "no"
  /\ at' = "idle"
  /\ outcome' = "ok"
  /\ UNCHANGED <<own, failed, symphonyVars>>

MutantRenewalTerminates ==
  /\ LogoutDone
  /\ leaving' = "no"
  /\ at' = "idle"
  /\ outcome' = "ok"
  /\ UNCHANGED <<own, failed, symphonyVars>>

Terminated ==
  /\ LogoutDone
  /\ leaving = "stop" /\ leaving' = "no"
  /\ at' = "idle"
  /\ outcome' = "ok"
  /\ UNCHANGED <<own, failed, symphonyVars>>

\* An HTTP error or timeout, no cookie, no URI, no WebSocket, a connection lost, a login of the
\* client refused: connect() returns the error and the Session is dropped as it is.
Fails ==
  /\ at \notin {"idle", "dead"}
  /\ at' = "idle" /\ leaving' = "no"
  /\ outcome' = "err"
  /\ failed' = failed \union {own}
  /\ UNCHANGED <<own, symphonyVars>>

\* The task of connect() panics in its message loop, and drops the Session with it.
Dies ==
  /\ at = "running"
  /\ at' = "dead"
  /\ failed' = failed \union {own}
  /\ UNCHANGED <<leaving, own, outcome, symphonyVars>>
----------------------------------------------------------------------------
(* Symphony, at any time after the request was sent.                       *)

ActsOn(m) ==
  /\ m \in mail
  /\ mail' = mail \ {m}
  /\ live' = (IF m.op = "login" THEN live \union {m.id} ELSE live \ {m.id})
  /\ UNCHANGED clientVars

\* Lost on the way or refused.
Loses(m) ==
  /\ m \in mail
  /\ mail' = mail \ {m}
  /\ UNCHANGED <<clientVars, live>>

\* The bound is reached, or the task is gone.
Quiet ==
  /\ \/ at = "dead"
     \/ own = MaxLogins /\ at = "idle"
     \/ own = MaxLogins /\ at = "logout" /\ leaving = "renew"
  /\ UNCHANGED vars

Next ==
  \/ Connect \/ LoggedIn \/ GotUri \/ Connected
  \/ SessionTimeout \/ ShutdownRequested \/ Closed \/ LoginAgain \/ Terminated
  \/ Fails \/ Dies
  \/ \E m \in Requests : ActsOn(m) \/ Loses(m)
  \/ Quiet

Spec == Init /\ [][Next]_vars
----------------------------------------------------------------------------
TypeOK ==
  /\ at \in {"idle", "login", "config", "handshake", "running", "close", "logout", "dead"}
  /\ leaving \in {"no", "renew", "stop"}
  /\ own \in 0 .. MaxLogins
  /\ outcome \in {"none", "ok", "err"}
  /\ mail \subseteq Requests
  /\ live \subseteq 1 .. own /\ failed \subseteq 1 .. own

\* From the answer to its login until it asks for the logout, the session that connect() holds, and
\* whose token it sends over the WebSocket, is logged in at Symphony; requests of earlier sessions
\* that are acted on late do not end it.
HeldIsLive ==
  at \in {"config", "handshake", "running", "close"} => own \in live

\* No session is left behind unless connect() failed or panicked while holding it, also not by a login
\* that Symphony acts on late: renewals and shutdowns leave none.
LeftOnlyByFailure ==
  \A n \in 1 .. MaxLogins :
    n \in live \/ Login(n) \in mail => (n = own /\ at \notin {"idle", "dead"}) \/ n \in failed

\* The inductive invariant: a request on its way is the one that connect() awaits or one of an
\* abandoned session, and a session is live only after its login was acted on.
IInv ==
  /\ TypeOK
  /\ HeldIsLive
  /\ LeftOnlyByFailure
  /\ own \in failed => at \in {"idle", "dead"}
  /\ at = "idle" \/ own > 0
  /\ \A n \in 1 .. MaxLogins :
       /\ Login(n) \in mail => n <= own /\ n \notin live
       /\ Login(n) \in mail => (n = own /\ at = "login") \/ n \in failed
       /\ Logout(n) \in mail => n <= own
       /\ Logout(n) \in mail => (n = own /\ at = "logout") \/ n \in failed
----------------------------------------------------------------------------
(* The Session's part in connect().                                        *)

Stage ==
  CASE at \in {"idle", "running", "dead"} -> at
    [] at \in {"close", "logout"} /\ leaving = "stop" -> "closing"
    [] OTHER -> "connecting"

C == INSTANCE Connection WITH stage <- Stage

\* The HTTP session goes through connect() as the Client's message loop does: whichever request
\* Symphony acts on, loses or answers late, Ok comes only after the logout of a stop request.
SessionFollowsConnection == C!Spec
============================================================================
