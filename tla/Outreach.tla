------------------------------ MODULE Outreach ------------------------------
(***************************************************************************)
(* The worker's reminders and the mail of one tenant.                      *)
(*                                                                         *)
(* ReminderWorkerService scans for submissions and deadlines and schedules *)
(* mail under daily caps; CommunicationWorkerService polls for mail that   *)
(* is due and hands it to the provider.  Both run on setInterval, without  *)
(* waiting for the run before and in every replica of the worker, so runs  *)
(* overlap at every await.  The API schedules mail as well, without caps.  *)
(*                                                                         *)
(* Time is told in days, relative to today.  The events that only report   *)
(* what was scheduled or sent, and their audit entries, are left out.      *)
(***************************************************************************)
EXTENDS Integers, FiniteSets

CONSTANTS
  Scans,        \* runs of scanAndSchedule that may overlap
  Polls,        \* runs of processPending that may overlap
  CaseRefs,
  Events,       \* SUBMISSION_STATUS_ENTERED events that cases will have
  Deadlines,    \* procedural deadlines in the cases' metadata
  RefOf,        \* the case of an event or a deadline
  DueIn,        \* days from the start to each deadline
  Addressed,    \* cases with a reviewer, all of them if a default recipient is set
  Desk,         \* what mail that the API schedules is for
  Lead,         \* days before a deadline: 3
  Delay,        \* days after a submission: SUBMISSION_REMINDER_DELAY_DAYS
  CommsCap,     \* TENANT_DAILY_COMMS_CAP
  AutoCap,      \* TENANT_DAILY_AUTO_REMINDERS_CAP
  BatchSize,    \* take: 25
  DryRunEmails, \* DRY_RUN_EMAILS
  MaxMails,     \* bound: rows of Communication
  DeskMails,    \* bound: those that the API schedules
  DeskDaily,    \* bound: mail that the API schedules in a day and that has no row here
  MaxFaults     \* bound: failed writes and crashes

Occasions == Events \cup Deadlines

Mails == 1..MaxMails

ASSUME RefAssumption == RefOf \in [ Occasions -> CaseRefs ] /\ Addressed \subseteq CaseRefs

ASSUME OccasionAssumption ==
  Events \cap Deadlines = {} /\ Desk \notin Occasions /\ CaseRefs \cap Occasions = {}

ASSUME RunAssumption == IsFiniteSet(Scans) /\ IsFiniteSet(Polls)

ASSUME DayAssumption == DueIn \in [ Deadlines -> Nat ] /\ Lead \in Nat /\ Delay \in Nat

ASSUME CapAssumption == CommsCap \in Nat /\ AutoCap \in Nat /\ BatchSize \in Nat \ { 0 }

ASSUME DryRunAssumption == DryRunEmails \in BOOLEAN

ASSUME BoundAssumption ==
  MaxMails \in Nat /\ DeskMails \in Nat /\ DeskDaily \in Nat /\ MaxFaults \in Nat

VARIABLES
  events,       \* the submission events and whether processedAt is set
  left,         \* days to each deadline, negative once it has passed
  closed,       \* cases CLOSED or PAYOUT_CONFIRMED
  others,       \* mail of today that has no row here: only the caps know of it
  mails,
  blocks,       \* REMINDER_BLOCKED_CAP events of each case today
  scans,
  polls,
  handed,       \* history: how often the provider has accepted each mail
  faults        \* history: failed writes and crashes

vars == << events, left, closed, others, mails, blocks, scans, polls, handed, faults >>

calendar == << events, left, closed, others >>

------------------------------------------------------------------------------
(* Rows *)

Settled == { "sent", "failed", "skipped" }

Unsent == { "pending", "pending_auto" }

MailRows ==
  [ status : { "none" } \cup Unsent \cup Settled,
    for    : Occasions \cup { Desk },
    today  : BOOLEAN,        \* createdAt lies in today's window
    wait   : Nat ]           \* days to sendAt; 0 when it is due

Free(m) == mails[m].status = "none"

\* The row that is written next.
Fresh(m) == Free(m) /\ \A n \in Mails : Free(n) => m <= n

MailsFor(o) == { m \in Mails : ~Free(m) /\ mails[m].for = o }

Mail(status, o, wait) == [ status |-> status, for |-> o, today |-> TRUE, wait |-> wait ]

AtLeast(n, d) == IF n < d THEN d ELSE n

\* Faulty: a day that is over keeps counting.
SoonerStill(n) == n - 1

Sooner(n) == AtLeast(n - 1, 0)

\* max(createdAt + delay, now) and max(dueDate - 3 days, now).
WaitFor(o) == IF o \in Events THEN events[o].wait ELSE AtLeast(left[o] - Lead, 0)

------------------------------------------------------------------------------
(* Caps: what checkCaps counts, and how many a cap lets pass *)

MadeToday == { m \in Mails : ~Free(m) /\ mails[m].today }

AutoToday == { m \in MadeToday : mails[m].status = "pending_auto" }

\* Faulty: one more than the caps.
CappedLate ==
  Cardinality(MadeToday) + others > CommsCap \/ Cardinality(AutoToday) > AutoCap

\* Faulty: every mail counts, whenever it was made.
CappedForGood ==
  \/ Cardinality({ m \in Mails : ~Free(m) }) + others >= CommsCap
  \/ Cardinality(AutoToday) >= AutoCap

\* What has been sent no longer counts as automatic.
Capped ==
  Cardinality(MadeToday) + others >= CommsCap \/ Cardinality(AutoToday) >= AutoCap

------------------------------------------------------------------------------
(* scanAndSchedule *)

ScanStages == { "idle", "events", "cases", "count", "block", "create" }

ScanStates ==
  [ stage : ScanStages,
    todo  : SUBSET (Events \cup CaseRefs),   \* of the list that the loop walks
    now   : Occasions \cup { Desk } ]        \* the occasion in hand; Desk when none

IdleScan == [ stage |-> "idle", todo |-> {}, now |-> Desk ]

SetScan(s, to) == scans' = [ scans EXCEPT ![s] = to ]

\* The loop goes on with the rest of its list.
Resume(s) ==
  SetScan(s, [ scans[s] EXCEPT !.stage = IF scans[s].now \in Events THEN "events" ELSE "cases",
                               !.now = Desk ])

BeginScan(s) ==
  /\ scans[s].stage = "idle"
  /\ SetScan(s, [ IdleScan EXCEPT !.stage = "events",
                    !.todo = { e \in Events : events[e].stage = "pending"
                                                /\ RefOf[e] \in Addressed } ])
  /\ UNCHANGED << calendar, mails, blocks, polls, handed, faults >>

TakeEvent(s, e) ==
  /\ scans[s].stage = "events"
  /\ e \in scans[s].todo
  /\ SetScan(s, [ stage |-> "count", todo |-> scans[s].todo \ { e }, now |-> e ])
  /\ UNCHANGED << calendar, mails, blocks, polls, handed, faults >>

\* The case list is read when the events are done.
ListCases(s) ==
  /\ scans[s].stage = "events"
  /\ scans[s].todo = {}
  /\ SetScan(s, [ IdleScan EXCEPT !.stage = "cases", !.todo = Addressed \ closed ])
  /\ UNCHANGED << calendar, mails, blocks, polls, handed, faults >>

\* pickNextDeadline: of the deadlines that have not passed, the first one due.
NextDeadlines(c) ==
  LET upcoming == { d \in Deadlines : RefOf[d] = c /\ left[d] >= 0 }
  IN  { d \in upcoming : \A o \in upcoming : left[d] <= left[o] }

\* The case's reminders so far are read: one for this deadline is enough.
TakeCase(s, c) ==
  LET rest == scans[s].todo \ { c } IN
  /\ scans[s].stage = "cases"
  /\ c \in scans[s].todo
  /\ \/ /\ \E d \in NextDeadlines(c) :
             /\ MailsFor(d) = {}
             /\ SetScan(s, [ stage |-> "count", todo |-> rest, now |-> d ])
     \/ /\ \A d \in NextDeadlines(c) : MailsFor(d) # {}
        /\ SetScan(s, [ scans[s] EXCEPT !.todo = rest ])
  /\ UNCHANGED << calendar, mails, blocks, polls, handed, faults >>

EndScan(s) ==
  /\ scans[s].stage = "cases"
  /\ scans[s].todo = {}
  /\ SetScan(s, IdleScan)
  /\ UNCHANGED << calendar, mails, blocks, polls, handed, faults >>

\* checkCaps; when a cap is reached, recordCapBlock looks for today's event.
CheckCaps(s) ==
  /\ scans[s].stage = "count"
  /\ IF ~Capped THEN SetScan(s, [ scans[s] EXCEPT !.stage = "create" ])
     ELSE IF blocks[RefOf[scans[s].now]] = 0
     THEN SetScan(s, [ scans[s] EXCEPT !.stage = "block" ])
     ELSE Resume(s)
  /\ UNCHANGED << calendar, mails, blocks, polls, handed, faults >>

RecordCapBlock(s) ==
  /\ scans[s].stage = "block"
  /\ blocks' = [ blocks EXCEPT ![RefOf[scans[s].now]] = @ + 1 ]
  /\ Resume(s)
  /\ UNCHANGED << calendar, mails, polls, handed, faults >>

\* Faulty: processedAt is not set.
RemindAgain(s, m) ==
  LET o == scans[s].now IN
  /\ scans[s].stage = "create"
  /\ Fresh(m)
  /\ mails' = [ mails EXCEPT ![m] = Mail("pending_auto", o, WaitFor(o)) ]
  /\ Resume(s)
  /\ UNCHANGED << calendar, blocks, polls, handed, faults >>

\* Faulty: processedAt is set although the mail is not stored.
RemindNobody(s, m) ==
  LET o == scans[s].now IN
  /\ scans[s].stage = "create"
  /\ Fresh(m)
  /\ events' = IF o \in Events THEN [ events EXCEPT ![o].stage = "processed" ] ELSE events
  /\ mails' = IF o \in Events THEN mails
              ELSE [ mails EXCEPT ![m] = Mail("pending_auto", o, WaitFor(o)) ]
  /\ Resume(s)
  /\ UNCHANGED << left, closed, others, blocks, polls, handed, faults >>

\* The mail is stored, for an event in one transaction with its processedAt.
Remind(s, m) ==
  LET o == scans[s].now IN
  /\ scans[s].stage = "create"
  /\ Fresh(m)
  /\ mails' = [ mails EXCEPT ![m] = Mail("pending_auto", o, WaitFor(o)) ]
  /\ events' = IF o \in Events THEN [ events EXCEPT ![o].stage = "processed" ] ELSE events
  /\ Resume(s)
  /\ UNCHANGED << left, closed, others, blocks, polls, handed, faults >>

Fault == faults < MaxFaults /\ faults' = faults + 1

\* Reads and writes about one occasion that fail are caught; the loop goes on.
ScanFault(s) ==
  /\ scans[s].stage \in { "count", "block", "create" }
  /\ Fault
  /\ Resume(s)
  /\ UNCHANGED << calendar, mails, blocks, polls, handed >>

\* The worker dies, or a read outside the try block fails.
ScanCrash(s) ==
  /\ scans[s].stage # "idle"
  /\ Fault
  /\ SetScan(s, IdleScan)
  /\ UNCHANGED << calendar, mails, blocks, polls, handed >>

------------------------------------------------------------------------------
(* processPending *)

PollStages == { "idle", "loop", "sending", "sent", "failing" }

PollStates ==
  [ stage : PollStages,
    batch : SUBSET Mails,    \* what the poll has read and not taken up yet
    now   : SUBSET Mails ]   \* the mail in hand

IdlePoll == [ stage |-> "idle", batch |-> {}, now |-> {} ]

SetPoll(p, to) == polls' = [ polls EXCEPT ![p] = to ]

\* Faulty: reminders are not looked for.
DueByHand == { m \in Mails : mails[m].status = "pending" /\ mails[m].wait = 0 }

Due == { m \in Mails : mails[m].status \in Unsent /\ mails[m].wait = 0 }

\* Which of the due mail has waited longest is not told: a batch is any part of it.
BeginPoll(p) ==
  /\ polls[p].stage = "idle"
  /\ Due # {}
  /\ \E b \in SUBSET Due :
       /\ Cardinality(b) = BatchSize \/ (b = Due /\ Cardinality(b) < BatchSize)
       /\ SetPoll(p, [ IdlePoll EXCEPT !.stage = "loop", !.batch = b ])
  /\ UNCHANGED << calendar, mails, blocks, scans, handed, faults >>

\* The mail is sent as it was read, whatever another poll has made of it since.
TakeMail(p, m) ==
  /\ polls[p].stage = "loop"
  /\ m \in polls[p].batch
  /\ ~DryRunEmails
  /\ SetPoll(p, [ stage |-> "sending", batch |-> polls[p].batch \ { m }, now |-> { m } ])
  /\ UNCHANGED << calendar, mails, blocks, scans, handed, faults >>

NextMail(p) ==
  SetPoll(p, [ polls[p] EXCEPT !.stage = IF polls[p].batch = {} THEN "idle" ELSE "loop",
                               !.now = {} ])

SkipMail(p, m) ==
  LET rest == polls[p].batch \ { m } IN
  /\ polls[p].stage = "loop"
  /\ m \in polls[p].batch
  /\ DryRunEmails
  /\ mails' = [ mails EXCEPT ![m].status = "skipped" ]
  /\ SetPoll(p, [ polls[p] EXCEPT !.stage = IF rest = {} THEN "idle" ELSE "loop",
                                  !.batch = rest ])
  /\ UNCHANGED << calendar, blocks, scans, handed, faults >>

\* The provider accepts the mail; its answer may be lost.
Send(p, answered) ==
  /\ polls[p].stage = "sending"
  /\ handed' = [ m \in Mails |-> IF m \in polls[p].now THEN handed[m] + 1 ELSE handed[m] ]
  /\ SetPoll(p, [ polls[p] EXCEPT !.stage = IF answered THEN "sent" ELSE "failing" ])
  /\ UNCHANGED << calendar, mails, blocks, scans, faults >>

Refuse(p) ==
  /\ polls[p].stage = "sending"
  /\ SetPoll(p, [ polls[p] EXCEPT !.stage = "failing" ])
  /\ UNCHANGED << calendar, mails, blocks, scans, handed, faults >>

\* Faulty: the row keeps its status.
MarkNothing(p) ==
  /\ polls[p].stage = "sent"
  /\ NextMail(p)
  /\ UNCHANGED << calendar, mails, blocks, scans, handed, faults >>

Mark(p, status) ==
  /\ mails' = [ m \in Mails |-> IF m \in polls[p].now
                                THEN [ mails[m] EXCEPT !.status = status ] ELSE mails[m] ]
  /\ NextMail(p)
  /\ UNCHANGED << calendar, blocks, scans, handed, faults >>

MarkSent(p) == polls[p].stage = "sent" /\ Mark(p, "sent")

\* The catch block: refused, unanswered, or sent but not marked.
MarkFailed(p) == polls[p].stage = "failing" /\ Mark(p, "failed")

\* The update after a send fails.
PollFault(p) ==
  /\ polls[p].stage = "sent"
  /\ Fault
  /\ SetPoll(p, [ polls[p] EXCEPT !.stage = "failing" ])
  /\ UNCHANGED << calendar, mails, blocks, scans, handed >>

\* The worker dies, or the update in the catch block fails, which nothing catches.
PollCrash(p) ==
  /\ polls[p].stage # "idle"
  /\ Fault
  /\ SetPoll(p, IdlePoll)
  /\ UNCHANGED << calendar, mails, blocks, scans, handed >>

------------------------------------------------------------------------------
(* The API and the calendar *)

\* sendCommunication, at once or in some days; autoSend for cases of low tier only.
Schedule(m, auto, wait) ==
  /\ Fresh(m)
  /\ Cardinality(MailsFor(Desk)) < DeskMails
  /\ mails' = [ mails EXCEPT ![m] =
                  Mail(IF auto THEN "pending_auto" ELSE "pending", Desk, wait) ]
  /\ UNCHANGED << calendar, blocks, scans, polls, handed, faults >>

\* sendCommunication for mail by hand that has no row here: it asks for no cap.
ScheduleOther ==
  /\ others < DeskDaily
  /\ others' = others + 1
  /\ UNCHANGED << events, left, closed, mails, blocks, scans, polls, handed, faults >>

\* transitionCase writes the event when a case enters a submission status.
EnterSubmission(e) ==
  /\ events[e].stage = "absent"
  /\ events' = [ events EXCEPT ![e] = [ stage |-> "pending", wait |-> Delay ] ]
  /\ UNCHANGED << left, closed, others, mails, blocks, scans, polls, handed, faults >>

CloseCase(c) ==
  /\ c \notin closed
  /\ closed' = closed \cup { c }
  /\ UNCHANGED << events, left, others, mails, blocks, scans, polls, handed, faults >>

NewDay ==
  /\ mails' = [ m \in Mails |-> IF Free(m) THEN mails[m] ELSE
                  [ mails[m] EXCEPT !.today = FALSE, !.wait = Sooner(@) ] ]
  /\ events' = [ e \in Events |-> [ events[e] EXCEPT !.wait = Sooner(@) ] ]
  /\ left' = [ d \in Deadlines |-> AtLeast(left[d] - 1, -1) ]
  /\ blocks' = [ c \in CaseRefs |-> 0 ]
  /\ others' = 0
  /\ UNCHANGED << closed, scans, polls, handed, faults >>

Init ==
  /\ events = [ e \in Events |-> [ stage |-> "absent", wait |-> 0 ] ]
  /\ left = DueIn
  /\ closed = {}
  /\ others = 0
  /\ mails = [ m \in Mails |-> [ status |-> "none", for |-> Desk, today |-> FALSE, wait |-> 0 ] ]
  /\ blocks = [ c \in CaseRefs |-> 0 ]
  /\ scans = [ s \in Scans |-> IdleScan ]
  /\ polls = [ p \in Polls |-> IdlePoll ]
  /\ handed = [ m \in Mails |-> 0 ]
  /\ faults = 0

ScanStep(s) ==
  \/ BeginScan(s)
  \/ \E e \in Events : TakeEvent(s, e)
  \/ ListCases(s)
  \/ \E c \in CaseRefs : TakeCase(s, c)
  \/ EndScan(s)
  \/ CheckCaps(s)
  \/ RecordCapBlock(s)
  \/ \E m \in Mails : Remind(s, m)

PollStep(p) ==
  \/ BeginPoll(p)
  \/ \E m \in Mails : TakeMail(p, m) \/ SkipMail(p, m)
  \/ \E answered \in BOOLEAN : Send(p, answered)
  \/ Refuse(p)
  \/ MarkSent(p)
  \/ MarkFailed(p)

Environment ==
  \/ \E m \in Mails, auto \in BOOLEAN, wait \in 0..1 : Schedule(m, auto, wait)
  \/ ScheduleOther
  \/ \E e \in Events : EnterSubmission(e)
  \/ \E c \in CaseRefs : CloseCase(c)
  \/ NewDay

Next ==
  \/ \E s \in Scans : ScanStep(s) \/ ScanFault(s) \/ ScanCrash(s)
  \/ \E p \in Polls : PollStep(p) \/ PollFault(p) \/ PollCrash(p)
  \/ Environment

Spec == Init /\ [][Next]_vars

\* setInterval starts the runs again and again, the database and the provider answer,
\* and days pass.
FairSpec ==
  /\ Spec
  /\ \A s \in Scans : WF_vars(ScanStep(s))
  /\ \A p \in Polls : WF_vars(PollStep(p))
  /\ WF_vars(NewDay)

------------------------------------------------------------------------------
(* Correctness *)

TypeOK ==
  /\ events \in [ Events -> [ stage : { "absent", "pending", "processed" }, wait : Nat ] ]
  /\ left \in [ Deadlines -> Int ]
  /\ closed \subseteq CaseRefs
  /\ others \in Nat
  /\ mails \in [ Mails -> MailRows ]
  /\ blocks \in [ CaseRefs -> Nat ]
  /\ scans \in [ Scans -> ScanStates ]
  /\ polls \in [ Polls -> PollStates ]
  /\ handed \in [ Mails -> Nat ]
  /\ faults \in Nat

\* However polls overlap, fail and crash, a mail is handed over at most once for each
\* poll that can hold it, and once more for each fault: one worker that never fails
\* sends every mail once.
DuplicatesBounded == \A m \in Mails : handed[m] <= Cardinality(Polls) + faults

\* However scans overlap, fail and crash, an occasion has at most one reminder for each
\* scan that can have it in hand: a single scanner never reminds twice, crashes included.
RemindersBounded == \A o \in Occasions : Cardinality(MailsFor(o)) <= Cardinality(Scans)

\* processedAt is set on exactly the submission events that have a reminder: no crash
\* between reading an event and storing its mail loses or repeats it.
ProcessedReminded ==
  \A e \in Events : events[e].stage = "processed" <=> MailsFor(e) # {}

\* The reminders that scans make in a day exceed the tenant's cap by no more than the
\* other scans that were past their check at the time, whatever the API adds; so do
\* those of them that wait the cap on automatic mail, which is all that it bounds.
CapBounded ==
  LET made    == { m \in MadeToday : mails[m].for # Desk }
      waiting == { m \in made : mails[m].status = "pending_auto" } IN
  /\ made # {} => Cardinality(made) < CommsCap + Cardinality(Scans)
  /\ waiting # {} => Cardinality(waiting) < AutoCap + Cardinality(Scans)

\* Mail that is due is sent, skipped or given up at last, although polls take only a
\* batch each, overlap and crash a bounded number of times.
DueMailSettles ==
  \A m \in Mails :
    mails[m].status \in Unsent /\ mails[m].wait = 0 ~> mails[m].status \in Settled

\* The mail of today that the API has scheduled leaves room for a reminder.
DeskLeavesRoom ==
  /\ Cardinality({ m \in MadeToday : mails[m].for = Desk }) + others < CommsCap
  /\ Cardinality({ m \in AutoToday : mails[m].for = Desk }) < AutoCap

\* A submission gets its reminder at last, unless the API goes on filling a cap, which
\* holds reminders back for ever: one that other reminders, a failed write or a crash have kept back is found
\* again by a later scan.
SubmissionReminded ==
  \A e \in Events :
    <>[]DeskLeavesRoom =>
      (events[e].stage = "pending" /\ RefOf[e] \in Addressed ~> MailsFor(e) # {})
==============================================================================
