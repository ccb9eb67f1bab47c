-------------------------------- MODULE Upgrade --------------------------------
(***************************************************************************)
(* What the package installer promises for the machine it runs on: a       *)
(* package change that was begun is only ever completed, with the package  *)
(* it was begun with, and a completed one is only ever replaced by itself  *)
(* or by a later package.                                                  *)
(***************************************************************************)
EXTENDS Naturals

CONSTANTS Packages, Version, BuildNo

VARIABLES
  stage,          \* "bare", "changing" or "complete"
  package         \* the packages the machine is changed to or runs, a set

\* q may take the place of p.
Later(q, p) ==
  \/ q = p
  \/ BuildNo[q] > BuildNo[p] /\ Version[q] >= Version[p]

Init == stage = "bare" /\ package = {}

Begin(q) ==
  /\ stage # "changing"
  /\ \A p \in package : Later(q, p)
  /\ stage' = "changing"
  /\ package' = {q}

Complete ==
  /\ stage = "changing"
  /\ stage' = "complete"
  /\ UNCHANGED package

Next == Complete \/ \E q \in Packages : Begin(q)

Spec == Init /\ [][Next]_<<stage, package>>
===============================================================================
