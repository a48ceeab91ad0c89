# SurplusClaim: a TLA+ verification project

SurplusClaim recovers surplus funds of foreclosure sales: a worker collects
public listings, operators move a claim through a workflow in the API, mail and
reminders go out, and everything that happens is kept in an audit log. This
directory holds TLA+ models of that code, translated from `src/`, the TLC
configurations that check them on small instances, and theorems that TLAPS
checks for every value of the constants.

Contents: [Components](#1-components) -
[Modules](#2-modules-and-their-correspondence-to-the-code) -
[Runs](#3-runs-bounds-and-what-they-show) - [Fairness](#4-fairness) -
[Proofs](#5-proofs) - [Findings](#6-where-code-and-documents-disagree) - [Not
modelled](#7-what-is-not-modelled-and-why) - [Plan](#8-plan)

Run a check with `tlc -workers 2 -config <cfg> <module>`, a proof with
`tlapm <module>.tla`; `PROJECT.json` lists every run, its mutants, the lines of
code that each definition stands for, and the hazards that the properties are
for.

## 1. Components

All state that survives a restart is in one PostgreSQL database, reached
through Prisma by two kinds of Node processes: the API (`apps/api`, NestJS) and
the worker (`apps/worker`). Both may run in several replicas. Node is single
threaded, but every `await` lets other handlers run, and nothing in the code
takes a lock or writes on condition of a version: that is where most hazards
come from.

| Component | State | Operations | Talks to |
|---|---|---|---|
| Case lifecycle (`cases`, `consent`, `payouts`, `case-submission` services) | `Case`, `CaseEvent`, `Consent`, `Payout`, `Invoice`, `Document` rows | create, transition, tier confirmation, consent signature, payout, submission, closure confirmation, attorney | audit log; its `SUBMISSION_STATUS_ENTERED` events feed the reminders |
| Audit log (`packages/audit`) | `AuditLog` rows, a hash chain per tenant | append, verify by tenant, by case, by range | called by every handler, after its own writes |
| Reminders and outbound mail (worker) | `Communication` rows, `processedAt` of case events | scan every interval, check caps, schedule; poll every interval, send, mark | reads cases and events; hands mail to a provider |
| Connectors (worker, `packages/connectors`) | `ConnectorRun`, `ConnectorCursor` rows; cases in memory | cycle over the registry with retries, ingestion | Scrapyd over HTTP, whose spiders keep a fingerprint of each listing in a file |
| Documents and case package | `Document`, `Artifact` rows; the files of both on disk | upload, review, checklist, package export and download | rules, legal-safety check, case metadata |
| Sessions | `Session` rows | login, refresh (rotation), logout, logout everywhere | audit log |
| Rate limiting | buckets in the memory of one API process | count a request per tenant, count logins | in front of login, transition, upload, package |
| Web client (`apps/web`) | what a page shows and what it has asked for; the tokens in `localStorage`, shared by the tabs | select a case, upload, review, submit, pay, move, preview and send mail; triage inbox; sign in and out | the API, over requests that it never cancels |
| Jurisdiction rules | read once at start from files | lookup, enabled, checklist | documents, ingestion, case creation |
| Case references | none | generate with a check digit, validate, parse, extract | case creation and lookup |
| Fee calculator | none | rate by tier, rounding to cents | payouts |
| Communication templates, observability, health, work queue, scrapers | none that the system decides by | rendering, logging, reads | - |

What is hard in each, and what correctness means:

* **Case lifecycle.** A handler reads the row, awaits the reads that its checks
  need, and writes by primary key: what it writes may rest on a row that has
  changed since. Several handlers are made of several transactions
  (`confirmPayout` records the payout, then moves the case, then may close it),
  and any of them can fail. Correct means: the gates (consent before documents,
  payout and fee before closure, representation) hold in every interleaving;
  the timeline names the status; repeating a request does not repeat its effect.
* **Audit log.** `append` reads the last record, takes the time and inserts,
  with an await between each; failures are swallowed. Correct means: records are
  intact and hang on older ones, an honest log verifies, tampering shows.
* **Reminders and mail.** `setInterval` starts a run whether or not the last
  one is over. A mail is sent and then marked; a cap is counted and then used.
  Correct means: no submission is forgotten, duplicates and excess stay within
  what overlap and faults explain, due mail settles.
* **Connectors.** Three memories (database cursor, worker memory, the spider's
  file) advance separately, each step of a run can fail, and a retry starts the
  whole registry again. Correct means: the cursor never passes what was not
  taken in, a success is a success, and refused items hold up the connectors
  behind them no longer than it takes the spider to recognise the listing (one that
  looks new at every visit holds them up for ever: section 6).
* **Documents.** A document and a package are a file and a row, written one after
  the other; a review overwrites the last one without looking; an export packs
  what it has read while reviews go on, and reads the documents twice. Correct means: a
  package has a document for every item and the files that it lists, and the
  checklist printed in it is true of those documents but for those written between
  the two reads; artifacts can be downloaded; answers and the timeline tell what
  was done.
* **Sessions and rate limits.** Rotation finds the old session, revokes it and
  creates the new one in three steps; two tabs hold copies of one token; a login
  may be refused by a window that other tenants have filled. Correct means: a
  login has one live session and none after its logout, the browser never keeps
  a dead token, a window lets through no more than it may.
* **Intake.** The lookup of a reference and the insert are apart, with only a
  unique index between two creations; a page of the list is counted and read by
  two statements, and cases come while a reader turns the pages; the triage page
  suggests for the case that was on screen and confirms for the one that is.
  Correct means: one reference is one case and one caller's success, a mistyped
  reference makes no case, no case is skipped, a rationale belongs to its case.
* **Web client.** Five panes are filled by effects and handlers that await, and
  an answer is shown whatever case is on screen by then; some answers have no
  checklist and leave the pane as it is. Correct means: a pane
  shows the case on screen unless answers overtook one another or failed, a
  click on a stale pane changes no other case's documents, risky mail leaves as
  it was previewed.

## 2. Modules and their correspondence to the code

| Module | Models | Kind |
|---|---|---|
| `CaseStatus` | the statuses and `allowedTransitions` of `cases.service.ts` | operators |
| `CaseWorkflow` | what the case service promises, every request a single step | abstract specification |
| `CaseLifecycle` | the handlers of cases, consent, payouts, submission | detailed specification, refines `CaseWorkflow` |
| `CaseLifecycleProofs` | theorems for requests that overlap, in any number, and for one at a time | proofs |
| `AuditChain`, `AuditProofs` | `append` and `verifyChain` | specification, proofs |
| `Outreach`, `OutreachProofs` | `ReminderWorkerService`, `CommunicationWorkerService`, `CommunicationsService` | specification, proofs |
| `Connectors`, `ConnectorProofs` | `ConnectorWorkerService`, `ConnectorOrchestrator`, ingestion, stores, Scrapyd client, `BaseSpider` | specification, proofs |
| `Documents`, `DocumentProofs` | `DocumentsService`, `CasePackageService`, `LegalSafetyService.validateDocType` | specification, proofs |
| `CaseDesk`, `DeskProofs` | the Cases page (`cases.tsx`) with the API's answers to it | composition of page and API, proofs |
| `CaseIntake`, `IntakeProofs` | `caseRef.ts`, `createCase`, `listCases`, `suggestTier`, `confirmTier` and `triage.tsx` | composition of page and API, proofs |
| `RateLimit` | `RateLimitGuard` | specification |
| `Access`, `AccessProofs` | `AuthService` behind `RateLimit`, and the tabs of one browser (`auth-context.tsx`) | composition: extends `RateLimit`, proofs |
| `MCCase`, `MCAudit`, `MCOutreach`, `MCConnectors`, `MCDocuments`, `MCDesk`, `MCIntake`, `MCAccess` | values for TLC | model checking |

Every specification names its bounds among the constants (`\* bound:`). A
definition that a comment calls *Faulty* is a mutant: a version of the
definition after it with a plausible bug, used to show that a property can fail.

**CaseLifecycle.** One case. A request in flight is a record with its stage, the
row it has read (`snap`), the target, the other fields of the body, and what
follows (`after`). The code between two awaits that matter is one action:
`BeginTransition` (the read and the lookup of the edge), `LookUpPayouts` (the
latest payout, by which an overdue case is locked and, later, a closing one is
judged), `Check` (the lookups of consent, evidence and closure after it, on the row
as read, with the fields of the body in place of the stored ones),
`CommitTransition` (the transaction). A payout may be recorded between any two of
them.
`confirmTier` is `BeginTriage` / `CommitTriage`, which writes back the status it
has read; `signConsent` is `BeginSign` / `CommitSign`; `confirmPayout` is
`BeginPayout` / `RecordPayout` followed by a nested transition (`BeginNested`)
and, with `closeCase`, another one; `recordSubmission` is `BeginSubmission` /
`StoreEvidence` / nested transition / `RecordSubmission`; `confirmClosure` is
`BeginClosure` / `RecordClosure`; `assignAttorney` is one write. `rules` tells what
the case's metadata say of its jurisdiction: `validateDocType` refuses the evidence
where the jurisdiction has a rule, and where it has none the evidence is stored
before the checklist throws, so that `StoreEvidence` goes on only for a case that
names no jurisdiction. `Abandon` is
any await that throws, or the death of the process. `DatePasses` makes a payout
overdue. Amounts are told apart only as a fee that is zero or not; a date only
as absent or given.

**CaseWorkflow.** The same seven operations as atomic steps over status,
consent, payout and representation. `CaseLifecycle!Workflow` instantiates it with
the refinement mapping (`paid` is "there is a payout row", `represented` is the
guard of `payout-confirmation.guard.ts` on the stored row).

**AuditChain.** The rows of one tenant's `AuditLog`. `ReadHead`, `Stamp`,
`Insert` are the three steps of `append`; `Lose` is the failure that
`AuditService.logAction` swallows. A hash is the record of what it is computed
from (previous hash, body, time), so SHA-256 is taken to be free of collisions.
The body that is hashed is what the handler gives, with a field that is undefined as
null (`AsGiven`); the body that is verified is what the database gives back, where
such a field is absent (`AsStored`). `Omitting` are the bodies for which that differs.
`VerifyChain(L)` is `verifyChain` over the records that its filter lets through.
The history variable `overlapped` tells whether two appends were ever in flight
at once.

**Outreach.** One tenant. A scan walks the unprocessed submission events
(`BeginScan`, `TakeEvent`), then the open cases (`ListCases`, `TakeCase`, whose
`NextDeadlines` is `pickNextDeadline`), and for each occasion counts
(`CheckCaps`), records a block (`RecordCapBlock`) or schedules (`Remind`). A poll
reads a batch of due mail (`BeginPoll`), and sends and marks one by one
(`TakeMail`, `Send`, `Refuse`, `MarkSent`, `MarkFailed`; `SkipMail` in a dry
run). `Schedule` is the API, which asks for no cap; `ScheduleOther` is the same for
mail of which the model keeps only that the caps count it today (`others`), any
number of which may be made in the course of the days. Such mail does not compete
for a place in a batch. Faults: a failed read or write of one occasion
(`ScanFault`), a lost answer of the provider (`Send` with `answered` false), a
failed update (`PollFault`), a crash (`ScanCrash`, `PollCrash`). Time is days
relative to today; `NewDay` moves everything one day closer.

**Connectors.** The cycle of the worker as a program with a stage for every
await of `runConnector`. Items of a listing are numbers, in the order of the
listing, and an item's cursor is its number. `FetchItems` takes an unfinished
job for an empty list, as `ScrapydClient.fetchItems` does with an answer that is
not ok; the job then runs late, with nobody to fetch its items. `SpiderRuns` is
`BaseSpider.parse_watch`: nothing for a listing whose fingerprint is saved, else
all of it. The fingerprint also takes in headers, a body hash and the address that
answered, so that a listing may look changed when it is not: such connectors are
`noisy`, any set of them, and deliver nothing or all of an unchanged listing.
`RunFault`, `AttemptFault` and `Crash` are a failed call in the try
block, a failed call outside of it, and a restart that empties the memory.

**Documents.** One case in a jurisdiction that has a rule. A request is a record
with its stage, and every await that writes ends an action: an upload is
`StoreFile` / `CreateRow`, a review is `Review`, and both go on with
`RecordEvent` and `Answer`, which reads the documents again for the checklist in
the response. `reviewDocument` reads the document and the case first, but nothing
of what it writes depends on what may change in between, so that is one action.
An export reads twice, in either order: `ListDocuments` is the list that it checks
for completeness and packs, `ReadChecklist` the checklist that `getChecklistProgress`
computes from a read of its own and that it prints in `package-metadata.json` and on
the cover sheet (`ForgoChecklist` where that read fails). `RefusePackage`, or `WritePackage` /
`FilePackage`, end it. The history `late` keeps which documents were written between
the two. `Fault` is an await that throws or the death of the process. The
label of a document is `docType ?? aiDocType`; as an upload stores the guess in
both columns, one field tells it. The download only reads.

**CaseDesk.** One operator and the Cases page. `net` is the bag of requests under
way; nothing orders their answers. `Serve` is the API, for the requests whose
answer depends on its documents: `ServeListing`, `ServeUpload` (an upload, or the
evidence of a submission, which the API refuses in a jurisdiction with a rule:
`Refused`), `ServeReview`, which looks the document up by id *and* case. `Ruled` are
the cases whose metadata name their jurisdiction, which then has a rule; the answers
about documents of the others have no checklist, and `Progress` keeps the pane's.
`Deliver` is the arrival of an answer: one `Show...` action for each handler
or loader of the page, with the requests that React's effects or the handler issue
next (`PanesOf`, `FollowUps`); `GoOn` is a command whose handler only asks again.
`Fail` is the catch and finally of the same handlers. The clicks are `SelectCase`,
`RefreshList`, `Upload`, `MarkSubmitted`, `Review`, `ConfirmPayout`, `Transition`,
`SelectTemplate`, `EditVariables`, `PlanCommunication`, `SendCommunication`, each
guarded by what the page hides or disables while it loads. `overtaken` is a history
variable: the panes that two answers were on the way to at once, or one of whose
requests failed.

**CaseIntake.** One tenant. A reference is its jurisdiction, its random block and a
check symbol, of values 0 to 35 as `charToValue` gives them; `CheckDigit` is
`computeCheckDigit`, `Parses` is `parseCaseRef`, `Typed` is what somebody may type with
one symbol wrong. `GiveRef` and `Generate` are the two branches of `resolveCaseRef`, up
to the lookup; `Create` is the rest of `createCase`, which meets the unique index.
`CountPage` and `FindPage` are the two statements of the list's transaction (cases are
listed in the order in which they were committed); `StartWalk` and `NextPage` are its
reader; `MoveOn` is another user's transition. The triage page is one record:
`RefreshInbox`, `ReadInbox`, `ShowInbox`, `LoseInbox` for the list, of which it shows
one page (`InboxSize`), `PickCase`, and a request under way each for `RequestSuggestion`
/ `ServeSuggestion` / `ShowSuggestion` and `SendConfirm` / `ServeConfirm` /
`ShowConfirm`.

**RateLimit, Access.** `CanActivate` is the whole guard, which runs without an await:
it counts the request in its bucket, a login in the global one as well, and lets it
pass if every count is within its limit. `Access` puts the sessions behind it: a
call of a tab goes from `sent` over `Admit` (guard and password) or `FindSession`,
`RevokeOld`, to `CreateSession`, or `RevokeToken`; `RevokeAll` is logout everywhere.
`Deliver` is what `auth-context.tsx` does with an answer (state of the tab, then
`localStorage`), `Lose` is a request or an answer that never arrives or an API process
that dies between two statements, `Fail` one that answers with an error, `Mount` is a
page load, `LogoutHere` a sign-out in a tab that has no token. `Elsewhere` is a
request of other users, which fills the buckets. `ended` and `overlapped` are history
variables about logins: logged out with no refresh under way, and refreshed or logged
out while another refresh was.

## 3. Runs, bounds and what they show

| Run | Instance | Distinct states | Properties |
|---|---|---|---|
| `case_serial` | one request at a time, all seven operations, all targets, four bodies, three kinds of jurisdiction, two payouts | 3.1 million | `TypeOK`, `TimelineFaithful`, `ClosureOnce`, `SubmissionRecordedInPlace`, `ImplementsWorkflow` |
| `case_race` | two requests, five operations, the six statuses around the gates | 10.1 million | `ConsentGate`, `PayoutBacked` |
| `audit_chain` | two appends at once, three records, two bodies, one of them with an undefined field, four times | 185 thousand | `TypeOK`, `Linked`, `CalmLogVerifies`, `RemovalDetected` |
| `outreach_scans` | two scans and a poll, one submission, one deadline, one mail from the desk, a cap of two and one of one on automatic mail, one fault | 4.8 million | `TypeOK`, `RemindersBounded`, `ProcessedReminded`, `CapBounded` |
| `outreach_polls` | two polls and a scan, two submissions, caps of one that the desk may fill every day, one fault | 401 thousand | `DuplicatesBounded`, `DueMailSettles`, `SubmissionReminded` |
| `connectors` | two connectors of two items, one item refused of each, any of them broken, any of them noisy, two attempts, one fault | 293 thousand | `TypeOK`, `CursorCovered`, `SuccessPersisted`, `CursorMonotone`, `ConnectorsPolled` |
| `documents` | two requests, a checklist of two items and a type outside of it, two uploads, two reviews, one package, one fault | 2.1 million | `TypeOK`, `PackagesTold`, `DownloadsWhole`, `AnswerSeesUpload`, `VerdictsOnTimeline` |
| `desk` | two cases, one of them of high risk and in a jurisdiction with a rule, the other in none, three documents, one template, four clicks, one failure | 4.4 million | `PanesTrue`, `ReviewsInPlace`, `SentAsPreviewed` |
| `intake` | two requests, three counties, blocks of two symbols out of three, two attempts, two earlier cases, pages of one, an inbox of two | 1.6 million | `TypeOK`, `CreatedOnce`, `MistypedRefused`, `WalkComplete`, `RationaleOwn` |
| `access` | two tabs, four calls, two tenants, limits of one, two and three, five times | 2.1 million | `TypeOK`, `SessionsSingle`, `StoredLive`, `WindowsBounded` |
| `case_consent_bypass`, `intake_county_codes` | the same models | - | one statement each of the documents that the code does not keep (section 6) |

What the properties say, and why these bounds are enough:

* *Cases.* `ConsentGate` and `PayoutBacked` say that the gates hold in every
  interleaving; the reason is `StaleWritesBacked` (proved, section 5): what a
  request in flight may still write is backed already, and nothing that backs a
  status is deleted. Two requests are enough to put any step of one between any two
  of another, and the theorems carry the properties to any number. With
  one request at a time, failures included, more holds: the timeline names the
  status, closure is confirmed once, a submission is on record only where the
  case stands and with its evidence, and the handlers implement the workflow.
  The row can be in all of its states; two payouts are needed because the fee of
  the *latest* one decides whether a case may close, and a request that has looked the
  payouts up may go by one that is not the latest any more. The operations left out of
  `case_race` (submission, attorney) add no step that reads one gate and writes
  behind another; the theorems cover them.
* *Audit log.* `Linked` says that whatever overlaps and fails, the log is a tree of
  intact records rooted at the start. `CalmLogVerifies` says that appends that do not
  overlap leave a log that verifies, provided that no handler leaves a field of its
  payload undefined (`Complete`: one that does breaks the log, section 6);
  `RemovalDetected` says that a log that verifies no longer does once a record is taken
  from the middle (and `RewriteDetected`, proved, once a record is changed). Three
  records are a first, a middle and a last one. The properties assume that no two
  records share a millisecond where they say so (`NoTies`): with equal times the order
  is that of random keys.
* *Outreach.* `DuplicatesBounded` and `RemindersBounded` bound what goes out
  twice by the number of overlapping runs and of faults, so a single worker that
  never fails sends everything once; `CapBounded` does the same for the cap.
  `ProcessedReminded` says that `processedAt` is set on exactly the events that
  have their mail. There is a row for every mail that the bounds allow (one for each
  occasion and scan, which `RemindersBounded` shows to be enough, and one for each mail
  of the desk), so no run ever waits for one. `DueMailSettles` and
  `SubmissionReminded` are about two reminders that compete for a batch of one and for
  a cap of one. `SubmissionReminded` needs its hypothesis, that from some day on the
  desk leaves room under the caps: the API asks for no cap, the worker counts what it
  schedules, and a desk that fills the cap each day holds reminders back for ever. One
  deadline makes `pickNextDeadline` choose between it and none; the theorems hold for
  any set of them.
* *Connectors.* `CursorCovered` says that the cursor never passes an item that
  was not taken in, `CursorMonotone` that it never goes back, `SuccessPersisted`
  that a run reported as a success has stored its cursor. `ConnectorsPolled` says
  that each connector gets its turn again and again, although items are refused, on
  two conditions: none up to it in the registry cannot be scheduled (the first error
  ends the walk), and none *before* it both lists an item that is refused and looks new
  at every visit (`Refusing`), because such a listing fails every attempt. Without noise a
  refused listing fails one attempt, then comes back empty, and the next connector has
  its turn. Two connectors with a refused item each put one behind another's; two items
  make a batch that is partly old.

* *Documents.* `PackagesTold` relates the two reads of an export: what is packed has a
  document for every item, and where the checklist printed in the package shows an
  item as open, every document that is packed for it was written between the reads.
  Nothing less is true: an upload that comes between them is packed and shown as
  missing, or shown and not packed. `DownloadsWhole` says that what can be
  downloaded is whole: a package holds every file that it lists
  (`PackagesCarryFiles`; files missing on disk would be left out silently), and an
  artifact has its file (`ArtifactsHaveFiles`). `AnswerSeesUpload` is read-your-writes for the
  checklist. `VerdictsOnTimeline` says that overlapping reviews may be told in
  another order than they were written in, but the one that stays is told. Two
  requests put any step of one between any two of another; two reviews are enough
  to overwrite one another, two items to have a package half complete; the
  theorems carry these properties to any number. One package is enough, for exports
  share nothing but their number; the overlap is with uploads and reviews.

* *Desk.* `PanesTrue` says that nothing but overtaking answers and errors makes a pane
  show another case or an old state: the effects ask for the right panes after every
  command. The checklist is claimed to be up to date for cases whose metadata name their
  jurisdiction; for the others the rules fill it and an upload or a review leaves it as
  it was, so all that is claimed is that it lists documents of the case on screen.
  `ReviewsInPlace` says that, overtaken or not, a click never changes a document of a
  case other than the one it was made on: the page alone does not ensure it, the lookup
  by case in the API does. `SentAsPreviewed` is the template rule for risky mail, up to
  edits made after the preview. Two cases show one in place of the other; four clicks
  suffice to select, act, select again and act on a late answer; the operator clicks
  while at most one request is under way, but one click and its follow-ups put up to six
  there. The constant `Errands` splits the commands over behaviours: payouts, mail and
  documents share no pane.
* *Intake.* `CreatedOnce` rests on the index, not on the lookup. `MistypedRefused`
  is what the check digit is for: 31 has no factor in common with 36, and the
  symbols 0, 6 and 35 (differences of 6, 29 and 35) would betray a multiplier that
  has. County codes are one symbol in the model and longer in the code; a wrong
  symbol of theirs is as any other. `WalkComplete` is what the order by creation,
  latest first, promises to somebody who turns the pages: new cases push old ones
  back, so they may be seen twice but not missed. `RationaleOwn` says when the triage
  page confirms a case with its own suggestion only. Attempts are two instead of
  five, blocks two symbols instead of six: one attempt taken, one free.
* *Access.* `SessionsSingle` says that a login has one live session and none once it
  is logged out, unless its refreshes overlap (two tabs that refresh at once leave
  two sessions: the code does not keep more). `StoredLive` says that the browser's
  stored token is live when nothing is under way and nothing was lost, whichever tab
  wrote last. `WindowsBounded` is what a fixed window can promise: twice the limit in
  any span of its length. The clock stops at four, window one: three windows follow
  one another. The three limits differ, and each can be the one that refuses.

Deadlock is checked in every run but `documents`, `desk`, `intake` and `access`. In
those the operator, the callers or the tabs may have done all that the bounds allow,
with no request left; elsewhere there is always a next request, cycle, scan or day.

## 4. Fairness

`Outreach!FairSpec` asks for weak fairness of the steps of every scan and poll
and of `NewDay`. `setInterval` in `onModuleInit` starts runs for ever, a started
run is a chain of awaits that the event loop goes on with, and days pass. The
provider need not accept mail, and crashes are bounded in number
(`MaxFaults`): a worker that dies each time before it has sent does not settle
anything. No fairness is asked of the API or of what is submitted.

`Connectors!FairSpec` asks for weak fairness of the worker's step as a whole (the
cycle is one sequential program, and every cycle ends by starting the timer of
the next, with an error or without: `runCycle`) and of the jobs that Scrapyd has
queued. No fairness is asked of listings or faults.

The other runs check safety only: an HTTP request may be abandoned at any await, an
answer may never come, and nobody has to click.

## 5. Proofs

All obligations are checked by TLAPS with Z3, Zenon and LS4. The only assumptions
are those named in the modules (constants are naturals where they are counted
with, sentinels differ from values); TLC evaluates them in every run.

* `CaseLifecycleProofs`, for any set of requests, operations and inputs:
  `TypeCorrect`; `ConsentGateHolds`, `PayoutBackedHolds` and
  `StaleWritesBackedHolds`. The gates are not inductive: a request that writes
  may have checked long ago. The invariant `GateInv` adds that the status each
  request has read, its target once checked, and the payout that it has seen on the
  way to a closure, are *backed*; consent and
  payouts only grow (`BackingStays`), so what was backed stays so, and every
  write is a write of something backed.
* The same module, for requests that overlap: `OverlappingTimeline`, that only
  `confirmTier` can make the timeline name another status than the case has (the
  hypothesis is that `"triage"` is not in use; every other handler writes status and
  event in one transaction); `ClosuresBoundedHolds`, that closure is confirmed at most
  once for each request in flight (every request about to confirm found none, so the
  confirmations and the requests that are past the lookup are together no more than the
  slots); `EvidenceFirstHolds`, that a submission is recorded after its evidence. All
  three rest on `RequestMoves`, one lemma about what any step of a request may do to the
  row, the timeline and what it carries on.
* The same module, under `Serial` (there is one request slot):
  `SerialTimeline`, `SerialClosureOnce`, `SerialSubmission` and
  `SerialRefinement`, the refinement of `CaseWorkflow`. The invariant `SerialInv`
  ties what the request holds to the row: nobody else writes in between.
  Initial states map to initial states and each action maps to a workflow step
  or a stutter (`MapStep`). The assumption is needed: with two requests, a tier
  confirmation that overlaps a transition writes back the status it had read, and two
  transitions that overlap take two edges from one status, which is no path of the table.
* `AuditProofs`, for any writers, records and times: `TypeCorrect`,
  `LinkedHolds`, `CalmLogVerifiesHolds`, `RewriteDetectedHolds`,
  `RemovalDetectedHolds`. `Linked` needs that a stamped time is not later than
  the clock and not earlier than the record that was read. `CalmLogVerifies` is
  carried by `CalmInv`: without overlap the record that a writer has read is
  still the last one; that every field was given (`Complete`) makes the digest of the
  row that of the payload. Removal needs the successor of the removed record
  (`Successor`, from well-foundedness of the naturals) and `NoTies`.
* `ConnectorProofs`, for any registry, listing lengths, refused items, noise, attempts
  and faults: `TypeCorrect`, `CursorsCovered`, `SuccessesPersisted`,
  `CursorsMonotone`. The invariant `Inv` adds `Bounded` (cursor <= what the
  spider saw <= the listing, and a batch that is not empty is at least as long as
  the cursor), `InHand` (what the worker knows at each stage: the cursor it read
  is still the stored one, a result about to be stored is covered) and `OneJob`.
  That a greatest element exists, which `Result` takes by CHOOSE, is the lemma
  `GreatestNat`, from well-foundedness of the naturals.

* `DocumentProofs`, for any number of requests, any checklist and any number of uploads,
  reviews, packages and faults: `TypeCorrect`, `PackagesToldHolds`,
  `DownloadsWholeHolds`, `AnswerSeesUploadHolds`, `VerdictsOnTimelineHolds`. The
  invariant `Inv` adds `RowsStored` (a row has its file and is PENDING until reviewed),
  `OwnIds` (two uploads in progress never write one row), `Knowledge` (the documents
  that an export has read have their files, the package about to be filed is written)
  and `Reads` (of two reads of an export under way, they agree on every document that
  was not written in between, so what the checklist leaves open and the list has is
  `late`).

* `OutreachProofs`, for any finite sets of scans and polls, any cases, events,
  deadlines, caps, batches, days and faults: `TypeCorrect`, `RemindersBoundedHolds`,
  `ProcessedRemindedHolds`, `CapBoundedHolds`, `DuplicatesBoundedHolds` (and, as
  `FairInvariance`, for the fair specification). None of the bounds is inductive; the
  invariant `Inv` counts what is still to come as well: reminders made *and* scans
  that hold the occasion (`RemindersLeft`), the day's reminders *and* scans past
  their check (`CapLeft`, once for all reminders of the day and once for those that
  wait, each a `Room` of its cap), hand-overs *and* polls that have yet to hand the mail over,
  and, as long as a mail is not settled, no more hand-overs than polls that have it
  in hand still and faults (`SendsLeft`). The last part is what lets a new poll begin:
  it may read a mail again only while it is unsettled, and then each poll that has
  handed it over either has it in hand, and is not one of those that ask, or has
  cost a fault. Scans and polls are finite, and events, deadlines and cases differ.

* `IntakeProofs`, for any jurisdictions, references, symbols, attempts, pages and
  confirmable tiers, and any finite set of `createCase` calls: `TypeCorrect`,
  `CreatedOnceHolds`, `RationaleOwnHolds`, `MistypedRefusedHolds`, `WalkCompleteHolds`.
  The cases there are at the start must have different references (`EarlierAssumption`:
  the database starts with an index that is kept). `CreatedOnce` counts cases and
  answers apart, so it is not inductive: a new case must differ from what every earlier
  caller was told. The invariant `Inv` adds `MadeStored` (whoever was told that a case
  was created finds it stored), the shape of rows and of calls (`CasesShaped`,
  `CallsShaped`), and `PageSound`: what is on screen, and the suggestion and the
  confirmation under way, fit the case that they name, or were overtaken by a turn of
  the page. The proof also shows which line does the work: a `Create` that finds its
  reference stored is a conflict, whatever its caller has read before, so only the
  unique index is used and never the earlier look.

  `MistypedRefused` is proved for references of any length. The check digit is a
  recursive function, and what it computes would ask for induction; the proof takes
  the least length instead: a solution of the recursion exists because there is no least
  length without one (`Accumulators`), and two cores that differ in one symbol have
  different accumulators from that symbol on, because there is no least length at
  which they meet again (`OneSymbol`; a step multiplies by 31, which has an inverse
  modulo 36: `Multiplier`). `HonestInv` carries it to the calls: a reference that
  parsed is the one that was meant. `ReferencesAssumption` says that what somebody
  means is a reference that the API may have generated.

  `WalkComplete` is about the reader who has come to the end; `WalkInv` says how far each
  page takes them: when a page is counted, the cases that were there at the start and
  now lie on earlier pages have been seen, and when it is shown those up to its last row
  (`Reading`). New cases go in front, so no place gets smaller (`PlaceGrows`), pages
  leave no gap (`Pages`), and the count is the list's unless a case came between the two
  statements (`ReadingGrows`).

* `AccessProofs`, for any tabs, calls, tenants, limits and times: `TypeCorrect`,
  `SessionsSingleHolds`, `StoredLiveHolds`, `WindowsBoundedHolds`. `SessionsSingle`
  counts live sessions only; what keeps the count is who may create the next one.
  `Single` says, of every login that overlapping calls have not touched: one refresh at
  most is past its lookup, it holds the one live session or has revoked it, and after a
  logout there is neither (`SingleOf`). Calls are a sequence that shrinks, so the lemmas
  `Removing` and `Leaving` say where each call was before. `StoredLive` speaks of the
  quiet states only; `StoreInv` says why they come out right: the session of an answer
  that has not been delivered is live and named by nobody else (`Fresh`), and where the
  stored session is revoked, a refresh or a logout is under way, which writes the store
  (`Backed`). `WindowsBounded` compares requests two limits apart; the invariant
  `Windowed` gives each the window that it was let through in: windows are further apart
  than their length and none holds more than the limit (`Spaced`), and the bucket has
  counted at least those of the window that is open (`CountedIn`). So of any `2n + 1`
  requests three lie in different windows.

* `DeskProofs`, for any cases, documents, templates and errands, any number of clicks,
  of requests under way and of failures: `PanesTruthful`, `ReviewsStayInPlace` and
  `SentAsSeen`, that is, every property of `CaseDesk`. Requests are a bag, so the lemmas
  `Taken` and `Added` first say what a bag has lost and gained. `ReviewsInPlace` needs
  that a document is filed by one request, once, for its owner (`FiledOnce`), or the
  upload of one case would overwrite a row of another. `SentAsPreviewed` needs that the
  preview under way is for the draft and the case on screen (`Previewed`). `PanesTrue`
  speaks of settled panes; `ScreenInv` says what will settle them. `Ways`: while a pane
  has not been overtaken, what is under way to it is for the case on screen and is one
  request only, and for the checklist of a case with a jurisdiction, which the rules and
  the documents may both be on their way to, one whenever it is a command that changes
  documents. `PanesRight`: each answer on its way would make its pane show what is
  stored (`RowsTrue`, `TicksTrue`), and a pane whose only request is a command that is
  not served yet shows it still. That is where the order of the code shows: the upload's
  answer is put before whatever rows the pane has by then, which is right only because
  nothing else was on its way to them.

Every safety property that a run expects to pass is stated by a theorem, those of
`CaseLifecycle` that need it under `Serial`, the removal of records under `NoTies`.
Only model-checked: the liveness properties `DueMailSettles`, `SubmissionReminded` and
`ConnectorsPolled` (fairness and ENABLED are out of the prover's reach); and that the
bounds of the runs lose nothing for the abstractions named in section 2.

## 6. Where code and documents disagree

Two are runs that TLC ends with a counterexample, and findings in `PROJECT.json`
with the quoted line.

* `case_consent_bypass`: consent is asked for on two statuses only; by way of
  `ESCALATED` or `ON_HOLD` a case is submitted without one.
* `intake_county_codes`: a county code is the upper-cased county of the request, and
  a reference allows eight symbols: for LOS_ANGELES, which is enabled, the API
  generates references that it then refuses itself.

Others show in the models, and the properties above are stated so that they make
room for them:

* `canonicalize` hashes an undefined field as null, but the JSON that Prisma stores has
  no such field, so the record does not verify (`packages/audit/src/index.ts:10`, `:23`).
  `PARTNER_HANDOFF_RECORDED` (`cases.service.ts:778`) copies three fields of a request that
  nothing validates: a hand-off without a summary breaks the tenant's log for good,
  with nothing else going on, where `project real v3:285` has "Audit verify passes
  after normal flow" (`Omitting`, `Complete`).
* `recordSubmission` never succeeds for a case whose jurisdiction has a rule:
  `validateDocType` refuses `submission_evidence`, which is on no checklist. With a
  jurisdiction that has no rule the document is stored and its event written, and then
  the checklist throws. Only a case that names no jurisdiction goes on (`StoreEvidence`,
  `Refused`).
* The Cases page keeps the checklist it has when an answer brings none: for a case
  without `metadata.jurisdiction` an upload or a review leaves it stale until the case
  is selected anew (`Progress`).
* A reminder counts against a cap that mail of the API fills without asking
  (`SubmissionReminded`).
* A listing that looks new at every visit and holds an item that is refused fails every
  attempt of every cycle, and the connectors behind it get no turn (`Refusing`).
* A package may hold a document that its own cover sheet shows as missing (`late`).
* `confirmTier` writes back the status it has read: a transition in between is undone
  and the timeline does not tell (why `TimelineFaithful` is for one request).
* Two appends that read the same last record fork the audit log, which then no longer
  verifies, for good (`CalmLogVerifies`).
* The chain is kept per tenant and verified per case: only the tenant's first case can
  ever verify by case.
* Ingested cases live in the worker's memory, the cursor in the database; a restart
  loses what the cursor has passed.
* Two tabs that refresh at once leave a login two live sessions, and a logout that
  meets a refresh leaves one (`overlapped`).
* Answers that overtake one another leave a pane with another case's data
  (`overtaken`); a suggestion that arrives after another case was picked is shown, and
  confirmed, for that one (`crossed`).

## 7. What is not modelled, and why

* In *cases*: assignment of reviewers, the timeline and other reads; several cases
  (handlers touch one each). Payouts are taken to be committed in the order of their
  `processedAt`, by which the latest one is found. The fee's rounding (`Payout` knows a
  fee that is zero or not). A payout confirmed again after a refusal records a second
  row, and a reminder goes out for a case that was closed since: both are in the models
  and no property speaks of them.
* In *outreach*: the events and audit entries that only report (a reminder, its event
  and its audit entry are three separate writes), and the text of mail. Which of the due
  mail a batch takes is left open, and the other mail of the API takes no place in it.
* In *connectors*: statistics and attempt counts, run records older than the last (the
  store finds a run again only if it succeeded), several worker processes; spiders that
  attach no cursor behave as a listing whose cursor stays at its start.
* In *documents*: several API processes are taken to share one disk, as the code needs
  when a download is answered by another than the export. Left out: file names that
  collide within a millisecond, file contents and hashes, a jurisdiction whose rule is
  switched off after the case was created (the checklist throws once the upload is
  stored), the consent that the cover sheet prints. The latest package is the artifact
  filed last, which may be older in content than another.
* In *intake*: the list is ordered by `createdAt` with no other key; the model takes that to
  be a strict order and the order of commits. Two cases of one millisecond, or
  a transaction that commits after a younger one, could make a reader miss a case, and
  `WalkComplete` does not speak of them. The inbox of the run is as long as its page.
  Left out: `extractCaseRefFromText` with its look-alike characters; GA/FULTON is
  enabled by its flag although the rules service serves California only; TIER_B is
  never suggested, for there is no rationale without an escalating signal; the
  `signals` of the body are ignored by the code.
* In *access*: passwords, roles and registration; the Retry-After header, which is read
  from the tenant's bucket also when the global one has refused; a tenant with the id
  `global`, whose logins would share the global bucket.
* In the *desk*: cases whose metadata name a jurisdiction without a rule (every answer
  about their documents fails); the templates and jurisdictions that the page loads
  once, the text of messages, layout; a template that itself asks for a preview (only
  its button knows). The portal page is not modelled: it lists the documents of one
  reference and uploads to it, one command at a time, and lists them again; the admin
  page shows fixed data.
* Templates, logging, health endpoints and the parsing of public pages decide nothing
  about the state that the properties speak of. The Redis
  queue of the worker is created and never used.

## 8. Plan

Done: `CaseStatus`, `CaseWorkflow`, `CaseLifecycle`, `AuditChain`, `Outreach`,
`Connectors`, `Documents`, `CaseIntake`, `CaseDesk`, `RateLimit` and `Access`, with proofs of
their safety properties.

Worth doing next, in this order: an abstract workflow weak enough for requests that
overlap (edges from a status the case once had) and its refinement; the fee's rounding
and tier bands against a reference definition; `extractCaseRefFromText`; several workers
in `Connectors`.
