SPECIFICATION FairSpec
CONSTANTS
  e1 = e1
  e2 = e2
  d1 = d1
  c1 = c1
  Scans = {s1}
  Polls = {p1, p2}
  MaxMails = 2
  CaseRefs = {c1}
  Events = {e1, e2}
  Deadlines = {}
  RefOf <- OneCase
  DueIn <- DueTomorrow
  Addressed = {c1}
  Desk = desk
  Lead = 0
  Delay = 0
  CommsCap = 1
  AutoCap = 1
  BatchSize = 1
  DeskMails = 0
  DeskDaily = 1
  MaxFaults = 1
  DryRunEmails = FALSE
INVARIANT DuplicatesBounded
PROPERTIES
  DueMailSettles
  SubmissionReminded
