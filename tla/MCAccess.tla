------------------------------ MODULE MCAccess ------------------------------
(***************************************************************************)
(* Values for model checking Access: two tabs that are interchangeable.    *)
(***************************************************************************)
EXTENDS Access, TLC

CONSTANTS a, b, home, other

TabsAlike == Permutations(Tabs)
=============================================================================
