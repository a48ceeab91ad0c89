SPECIFICATION Spec
CONSTANTS
  Requests = {r1, r2}
  Attorneys = {}
  Nobody = Nobody
  Keep = Keep
  Targets <- RaceTargets
  Inputs <- RaceInputs
  Operations <- RaceOperations
  Jurisdictions = {"absent"}
  MaxPayouts = 2
SYMMETRY RequestSymmetry
INVARIANTS
  ConsentGate
  PayoutBacked
