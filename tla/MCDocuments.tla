---------------------------- MODULE MCDocuments ----------------------------
(***************************************************************************)
(* Values for model checking Documents: a checklist of two items, a type   *)
(* that it does not have; clerks are interchangeable, and so are items.    *)
(***************************************************************************)
EXTENDS Documents, TLC

CONSTANTS k1, k2, deed, form, other, null

Symmetry == Permutations(Clerks) \cup Permutations(Required)
=============================================================================
