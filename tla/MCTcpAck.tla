------------------------------- MODULE MCTcpAck -------------------------------
(* Instances of TcpAck for TLC. *)
EXTENDS TcpAck

CONSTANTS f1, f2, timer, none
==============================================================================
