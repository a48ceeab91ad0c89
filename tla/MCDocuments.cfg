SPECIFICATION Spec
CONSTANTS
  k1 = k1
  k2 = k2
  deed = deed
  form = form
  other = other
  null = null
  Clerks = {k1, k2}
  Required = {deed, form}
  Foreign = {other}
  Unclassified = null
  MaxDocs = 2
  MaxReviews = 2
  MaxPackages = 1
  MaxFaults = 1
SYMMETRY Symmetry
INVARIANTS
  TypeOK
  PackagesTold
  DownloadsWhole
  AnswerSeesUpload
  VerdictsOnTimeline
CHECK_DEADLOCK FALSE
