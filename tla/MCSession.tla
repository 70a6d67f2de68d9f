----------------------------- MODULE MCSession -----------------------------
(* A few logins, over renewals and reconnections.                          *)
EXTENDS Session
============================================================================
