------------------------------ MODULE MCRamFs ------------------------------
(* Model checking RamFs: the root and three nodes, two names, absolute and *)
(* relative paths of one or two parts.                                     *)
EXTENDS RamFs

Abs(s) == [abs |-> TRUE, parts |-> s]
Rel(s) == [abs |-> FALSE, parts |-> s]
MCPaths ==
    {Abs(<<"a">>), Abs(<<"b">>), Abs(<<"a", "b">>), Abs(<<"b", "a">>), Abs(<<>>),
     Rel(<<"a">>), Rel(<<"b">>), Rel(<<"..", "b">>), Rel(<<"..">>), Rel(<<".">>)}

=============================================================================
