SPECIFICATION Spec
CONSTANTS
  c1 = c1
  c2 = c2
  d1 = d1
  d2 = d2
  d3 = d3
  Cases = {c1, c2}
  FirstCase = c1
  Documents = {d1, d2, d3}
  Owner <- Owners
  Templates = {t1}
  HighRisk = {c1}
  Ruled = {c1}
  None = None
  Errands = {{"upload", "review"}, {"submission"}, {"payout", "transition"}, {"send"}}
  MaxClicks = 4
  MaxUnderWay = 1
  MaxFailures = 1
INVARIANT PanesTrue
PROPERTIES
  ReviewsInPlace
  SentAsPreviewed
CHECK_DEADLOCK FALSE
