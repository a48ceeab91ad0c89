SPECIFICATION Spec
CONSTANTS
  e1 = e1
  e2 = e2
  d1 = d1
  c1 = c1
  Scans = {s1, s2}
  Polls = {p1}
  MaxMails = 5
  CaseRefs = {c1}
  Events = {e1}
  Deadlines = {d1}
  RefOf <- OneCase
  DueIn <- DueTomorrow
  Addressed = {c1}
  Desk = desk
  Lead = 1
  Delay = 1
  CommsCap = 2
  AutoCap = 1
  BatchSize = 1
  DeskMails = 1
  DeskDaily = 0
  MaxFaults = 1
  DryRunEmails = TRUE
SYMMETRY RunSymmetry
INVARIANTS
  TypeOK
  RemindersBounded
  ProcessedReminded
  CapBounded
