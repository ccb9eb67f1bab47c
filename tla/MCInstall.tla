------------------------------- MODULE MCInstall -------------------------------
(***************************************************************************)
(* Two runs of the installer and three packages: q is later than p in both *)
(* numbers, r has a later build number and p's version.                    *)
(***************************************************************************)
EXTENDS Install

CONSTANTS p, q, r, i1, i2

Versions == [x \in Packages |-> IF x = q THEN 2 ELSE 1]
BuildNos == [x \in Packages |-> CASE x = p -> 1 [] x = q -> 2 [] x = r -> 3]
===============================================================================
