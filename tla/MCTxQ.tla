--------------------------------- MODULE MCTxQ ---------------------------------
(***************************************************************************)
(* Small instances of the transmit queues: two queues, on one hardware     *)
(* queue.                                                                  *)
(***************************************************************************)
EXTENDS TxQ

OneHwq == [q \in Txqs |-> 1]

\* The first queue grows beyond its credits, the others do not.
Lengths == [q \in Txqs |-> IF q = 1 THEN 3 ELSE 2]
===============================================================================
