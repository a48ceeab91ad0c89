------------------------------- MODULE MCAudit -------------------------------
(***************************************************************************)
(* Values for model checking AuditChain: the length of the log is bounded  *)
(* by the number of keys.                                                  *)
(***************************************************************************)
EXTENDS AuditChain, TLC

ThreeIds == 1..3

WriterSymmetry == Permutations(Writers)
=============================================================================
