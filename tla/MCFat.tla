-------------------------------- MODULE MCFat --------------------------------
(* Model checking Fat: two names, one of them below the other or beside    *)
(* it, paths through ".."; directories of two entries to the cluster.      *)
EXTENDS Fat

MCPaths == {<<"a">>, <<"b">>, <<"a", "b">>, <<"a", "..", "b">>}

OneLength == {<<"x", "x">>}
TwoLengths == {<<"x">>, <<"x", "x">>}

=============================================================================
