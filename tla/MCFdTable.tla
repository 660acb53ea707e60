----------------------------- MODULE MCFdTable -----------------------------
(* Model checking FdTable: one file of one byte, two pipes of two bytes,   *)
(* and one descriptor less than both pipes need: one can be full while an  *)
(* end of the other is still open.                                         *)
EXTENDS FdTable, TLC

MCSize == "f" :> 1

=============================================================================
