------------------------------- MODULE MCDesk -------------------------------
(***************************************************************************)
(* Values for model checking CaseDesk: two cases, one of them of high      *)
(* risk and in a jurisdiction that its metadata names.                     *)
(***************************************************************************)
EXTENDS CaseDesk

CONSTANTS c1, c2, d1, d2, d3

Owners == [ d \in Documents |-> IF d = d3 THEN c2 ELSE c1 ]
=============================================================================
