---------------------------- MODULE MCTcpFraming ----------------------------
(* Model checking of TcpFraming: an empty packet, one byte, three bytes.   *)
EXTENDS TcpFraming

Sizes == [p \in Packets |-> CASE p = 1 -> 0 [] p = 2 -> 1 [] OTHER -> 3]
=============================================================================
