------------------------------- MODULE MCCase -------------------------------
(***************************************************************************)
(* Values for model checking CaseLifecycle.                                *)
(***************************************************************************)
EXTENDS CaseLifecycle, TLC

AllTargets == Statuses

\* A plain transition; one that prepares the payout phase; one that takes the
\* attorney and the closure confirmation away; one that leaves the attorney rail.
MCInputs ==
  { NoInput,
    [ NoInput EXCEPT !.window = "date", !.closureReq = TRUE ],
    [ NoInput EXCEPT !.attorney = Nobody, !.closureReq = FALSE ],
    [ NoInput EXCEPT !.mode = "OPS_DIRECT" ] }

\* For two requests at a time: the statuses around each gate.
RaceTargets ==
  { "CONSENT_SIGNED", "DOCUMENT_COLLECTION", "PACKAGE_READY", "PAYOUT_CONFIRMED", "CLOSED", "ON_HOLD" }

RaceInputs ==
  { NoInput, [ NoInput EXCEPT !.window = "date", !.closureReq = TRUE ] }

RaceOperations == { "transition", "triage", "sign", "payout", "closure" }

PlainInputs == { NoInput }

DeskOperations == { "transition", "triage" }

RequestSymmetry == Permutations(Requests)
=============================================================================
