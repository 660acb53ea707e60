----------------------------- MODULE MCNetWait -----------------------------
(* NetWait on a small instance. *)
EXTENDS NetWait
=============================================================================
