-------------------------- MODULE ClientLifecycle --------------------------
(***************************************************************************)
(* The Client implements the Lifecycle its owner sees, and the Connection  *)
(* that it shares with the Session.                                        *)
(***************************************************************************)
EXTENDS Client

\* connect() as its caller sees it: from its call to its return, the renewals included.
Conn ==
  CASE phase = "idle" -> "idle"
    [] phase = "terminating" -> "stopping"
    [] phase = "panicked" -> "crashed"
    [] OTHER -> "up"

\* A logout has asked once it has set the shutdown flag.
Asking(place) ==
  CASE place \in {"idle", "waitReady", "setShutdown"} -> "idle"
    [] place = "waitUnready" -> "asked"
    [] place = "ok" -> "ok"
    [] OTHER -> "gaveUp"

Caller == [l \in Logouts |-> Asking(pc[l])]

L == INSTANCE Lifecycle WITH
       conn <- Conn, starts <- connects, stop <- shutdown, caller <- Caller

\* Every step of the Client is a step of the Lifecycle or none: connect() returns Ok only after
\* taking a stop request, takes ready down before it returns, and only it takes the flag down.
ImplementsLifecycle == L!Spec
----------------------------------------------------------------------------
\* How far connect() is with its connection; a renewal is on the way to one.
Stage ==
  CASE phase \in {"opening", "renewLogout", "renewOpen"} -> "connecting"
    [] phase \in {"running", "sending"} -> "running"
    [] phase \in {"closing", "terminating"} -> "closing"
    [] phase = "panicked" -> "dead"
    [] OTHER -> "idle"

K == INSTANCE Connection WITH stage <- Stage

\* The message loop goes through connect() as the Session does: no failure of the login, of a
\* renewal or of a logout, and no late answer, makes connect() return Ok or run on a connection that
\* is gone.
ClientFollowsConnection == K!Spec
============================================================================
