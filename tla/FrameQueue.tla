------------------------------ MODULE FrameQueue ------------------------------
(***************************************************************************)
(* What the transmit side of the bus promises: frames reach the device in  *)
(* the order they were accepted, each at most once, and never more than    *)
(* Capacity of them are on their way.  A frame may be lost while it waits, *)
(* never once the device has it.                                           *)
(***************************************************************************)
EXTENDS Naturals, SequencesExt

CONSTANTS Frames, Capacity

VARIABLES
  waiting,    \* frames accepted and not yet given to the device, oldest first
  device      \* frames the device has and has not finished, oldest first

Init == waiting = <<>> /\ device = <<>>

Accept(f) ==
  /\ Len(waiting) + Len(device) < Capacity
  /\ waiting' = Append(waiting, f)
  /\ UNCHANGED device

Give ==
  /\ waiting # <<>>
  /\ waiting' = Tail(waiting)
  /\ device' = Append(device, Head(waiting))

Lose ==
  /\ \E i \in DOMAIN waiting : waiting' = RemoveAt(waiting, i)
  /\ UNCHANGED device

Finish ==
  /\ device # <<>>
  /\ device' = Tail(device)
  /\ UNCHANGED waiting

Next == Give \/ Lose \/ Finish \/ \E f \in Frames : Accept(f)

Spec == Init /\ [][Next]_<<waiting, device>>
===============================================================================
