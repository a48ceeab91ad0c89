------------------------------ MODULE MCIntake ------------------------------
(***************************************************************************)
(* Values for model checking CaseIntake.  The counties are those of the    *)
(* rules files that differ in what matters: ORANGE is enabled, LOS_ANGELES *)
(* is enabled and longer than a reference allows, HARRIS is not enabled.   *)
(***************************************************************************)
EXTENDS CaseIntake

CONSTANTS r1, r2, ORANGE, LOS_ANGELES, HARRIS

Codes == [j \in Jurisdictions |->
            CASE j = ORANGE -> <<24>> [] j = LOS_ANGELES -> <<21>> [] j = HARRIS -> <<17>>]

MeantRefs == { Generated(ORANGE, <<0, 6>>), Generated(HARRIS, <<6, 0>>) }

EarlierRefs == << Generated(ORANGE, <<0, 0>>), Generated(ORANGE, <<0, 35>>) >>
=============================================================================
