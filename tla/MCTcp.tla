-------------------------------- MODULE MCTcp --------------------------------
(* Model checking Tcp: a buffer of two bytes, three bytes from the peer in *)
(* segments of one or two, two chunks to it, one handler inside another.   *)
EXTENDS Tcp

=============================================================================
