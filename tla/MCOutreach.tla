----------------------------- MODULE MCOutreach -----------------------------
(***************************************************************************)
(* Values for model checking Outreach: one case.  There is a free row for  *)
(* every mail that the bounds allow (one for each occasion and scan, and   *)
(* one for each mail of the desk), so that no run waits for one.           *)
(***************************************************************************)
EXTENDS Outreach, TLC

CONSTANTS e1, e2, d1, c1

OneCase == [ o \in Occasions |-> c1 ]

DueTomorrow == [ d \in Deadlines |-> 1 ]

RunSymmetry == Permutations(Scans) \cup Permutations(Polls)
=============================================================================
