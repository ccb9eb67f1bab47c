------------------------------ MODULE Reordering ------------------------------
(***************************************************************************)
(* What the receive side promises for the frames of one station and TID:   *)
(* numbered by the sender, they are handed up in the order of their        *)
(* numbers.  A frame is held back while one before it is missing, until    *)
(* the missing one arrives, a frame Window numbers ahead arrives, or the   *)
(* wait is given up.  A frame whose place has passed is handed up late.    *)
(***************************************************************************)
EXTENDS Integers, FiniteSetsExt, SequencesExt

CONSTANTS
  Window,
  Numbers,  \* the numbers a sender may use, a set of naturals
  None

VARIABLES
  floor,    \* the number expected next, or None before the first frame
  held,     \* the numbers held back
  up        \* the numbers handed up last, in their order

Init == floor = None /\ held = {} /\ up = <<>>

HandUp(S) ==
  IF S = {}
    THEN UNCHANGED up
    ELSE /\ up' \in Seq(S) /\ ToSet(up') = S
         /\ \A i, j \in DOMAIN up' : i < j => up'[i] < up'[j]

\* The first number from b on that is not in S.
NextMissing(S, b) ==
  CHOOSE f \in {b} \cup {n + 1 : n \in S} :
    f >= b /\ f \notin S /\ b .. f - 1 \subseteq S

\* Of the numbers S those below f leave.
Raise(S, f) ==
  /\ floor' = f
  /\ held' = {n \in S : n >= f}
  /\ HandUp({n \in S : n < f})

Open(n) ==
  /\ floor = None
  /\ floor' = n + 1
  /\ up' = <<n>>
  /\ UNCHANGED held

Arrive(n) ==
  /\ floor # None
  /\ n >= floor /\ n \notin held
  /\ LET S == held \cup {n}
     IN  Raise(S, NextMissing(S, Max({floor, n - Window + 1})))

Late(n) ==
  /\ floor # None /\ n < floor
  /\ up' = <<n>>
  /\ UNCHANGED <<floor, held>>

GiveUp ==
  /\ held # {}
  /\ Raise(held, NextMissing(held, Min(held)))

Close ==
  /\ floor' = None
  /\ held' = {}
  /\ HandUp(held)

Next == GiveUp \/ Close \/ \E n \in Numbers : Open(n) \/ Arrive(n) \/ Late(n)

Spec == Init /\ [][Next]_<<floor, held, up>>
===============================================================================
