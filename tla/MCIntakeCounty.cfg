SPECIFICATION Spec
CONSTANTS
  r1 = r1
  r2 = r2
  ORANGE = ORANGE
  LOS_ANGELES = LOS_ANGELES
  HARRIS = HARRIS
  Jurisdictions = {ORANGE, LOS_ANGELES, HARRIS}
  Enabled = {ORANGE, LOS_ANGELES}
  Fitting = {ORANGE, HARRIS}
  Code <- Codes
  Symbols = {0, 6, 35}
  BlockLength = 2
  Attempts = 2
  Meant <- MeantRefs
  Earlier <- EarlierRefs
  Requests = {r1, r2}
  PageSize = 1
  InboxSize = 2
  Errands = {"create", "walk", "triage"}
  MaxFetches = 2
  Confirmable = {"LOW"}
  None = None
INVARIANT GeneratedAccepted
CHECK_DEADLOCK FALSE
