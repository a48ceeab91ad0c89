SPECIFICATION Spec
CONSTANTS
  Requests = {r1}
  Attorneys = {a1}
  Nobody = Nobody
  Keep = Keep
  Targets <- AllTargets
  Inputs <- MCInputs
  Operations <- AllOperations
  Jurisdictions <- AllJurisdictions
  MaxPayouts = 2
INVARIANTS
  TypeOK
  TimelineFaithful
  ClosureOnce
PROPERTIES
  ImplementsWorkflow
  SubmissionRecordedInPlace
