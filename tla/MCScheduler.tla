---------------------------- MODULE MCScheduler ----------------------------
(* Model checking Scheduler: the kernel, the shell, the serial console and *)
(* one slot for a background task.                                         *)
EXTENDS Scheduler

=============================================================================
