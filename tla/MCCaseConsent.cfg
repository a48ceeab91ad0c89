SPECIFICATION Spec
CONSTANTS
  Requests = {r1}
  Attorneys = {a1}
  Nobody = Nobody
  Keep = Keep
  Targets <- AllTargets
  Inputs <- MCInputs
  Operations <- AllOperations
  Jurisdictions = {"absent"}
  MaxPayouts = 1
INVARIANT SubmittedWithConsent
