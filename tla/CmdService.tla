------------------------------ MODULE CmdService ------------------------------
(***************************************************************************)
(* What the command manager promises: commands are given to the firmware   *)
(* one at a time in the order they were accepted, each once, and each is   *)
(* answered before the next is given; at most Capacity of them are         *)
(* unanswered.  The service may fail, and promises nothing after that.     *)
(***************************************************************************)
EXTENDS Naturals, Sequences

CONSTANTS Commands, Capacity

VARIABLES
  pending,    \* the commands accepted and not answered, oldest first
  sent,       \* those of them the firmware has, oldest first
  failed

Init == pending = <<>> /\ sent = <<>> /\ failed = FALSE

Accept(c) ==
  /\ ~failed
  /\ \A i \in DOMAIN pending : pending[i] # c
  /\ Len(pending) < Capacity
  /\ pending' = Append(pending, c)
  /\ UNCHANGED <<sent, failed>>

Give ==
  /\ pending # <<>> /\ sent = <<>>
  /\ sent' = <<Head(pending)>>
  /\ UNCHANGED <<pending, failed>>

Answer ==
  /\ sent # <<>>
  /\ sent' = Tail(sent)
  /\ pending' = Tail(pending)
  /\ UNCHANGED failed

Fail ==
  /\ ~failed
  /\ failed' = TRUE /\ pending' = <<>> /\ sent' = <<>>

Next == Give \/ Answer \/ Fail \/ \E c \in Commands : Accept(c)

Spec == Init /\ [][Next]_<<pending, sent, failed>>
===============================================================================
