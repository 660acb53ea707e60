------------------------------- MODULE MCExec -------------------------------
(* Model checking Exec: two tasks; a file of two pages, the first in the   *)
(* identity mapping, a PIE of one page with the same length, and a short   *)
(* file linked over the stack; a heap of one page (three breaks), an mmap  *)
(* area of two, a stack of one page, and frames for less than everything   *)
(* at once, of which the first is the kernel's.                            *)
EXTENDS Exec, TLC

CONSTANTS p1, p2, p3
Of(a, b, c) == [p \in Progs |-> CASE p = p1 -> a [] p = p2 -> b [] p = p3 -> c]
MCImage == Of(<<1, 2>>, <<0>>, <<6>>)
MCTableAt == Of(1, 0, 1)
MCSize == Of(3, 3, 2)
MCIdent == {0, 1}
MCHome == 0 :> 1 @@ 1 :> 2
MCKernelHalf == {10, 11, 12, 16}
MCSymmetry == Permutations(Tasks)

(* Nothing is promised after a trespass, and no state beyond it is read.   *)
BeforeTrespass == ~trespass

=============================================================================
