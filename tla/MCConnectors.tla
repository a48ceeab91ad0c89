---------------------------- MODULE MCConnectors ----------------------------
(***************************************************************************)
(* Values for model checking Connectors: two connectors whose listings     *)
(* come to have two items each.                                            *)
(***************************************************************************)
EXTENDS Connectors

\* The second item of the first connector and the first of the second are refused.
SomeRejected == { << 1, 2 >>, << 2, 1 >> }
=============================================================================
