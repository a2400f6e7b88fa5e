---------------------------- MODULE MCZwSession -----------------------------
(* ZwSession has no sets of values to choose: only the number of sessions.  *)
EXTENDS ZwSession
=============================================================================
