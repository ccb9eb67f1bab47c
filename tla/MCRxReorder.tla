------------------------------ MODULE MCRxReorder ------------------------------
(***************************************************************************)
(* A small instance of the reordering: fourteen sequence numbers, a       *)
(* window of four, and a start at twelve, so that the numbers wrap on the  *)
(* way.                                                                    *)
(***************************************************************************)
EXTENDS RxReorder
===============================================================================
