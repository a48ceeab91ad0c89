---------------------------- MODULE CaseLifecycle ----------------------------
(***************************************************************************)
(* The API's case service on one case, with concurrent requests.           *)
(*                                                                         *)
(* A handler is asynchronous: it reads the case row, awaits further reads  *)
(* that its checks need, and then writes by primary key, without a version *)
(* in the WHERE clause.  Other requests run at every await, so what a      *)
(* request writes may rest on a row that has changed since.  Each step     *)
(* below is the code between two awaits that matter; the transaction of a  *)
(* handler is one step.  The audit entries a handler appends afterwards    *)
(* are the subject of AuditChain.                                          *)
(*                                                                         *)
(* transitionCase looks up the payouts first and goes by what it then saw, *)
(* also after its later lookups: the two are steps of their own.           *)
(***************************************************************************)
EXTENDS CaseStatus, Naturals, Sequences

CONSTANTS
  Requests,     \* slots for requests in flight (HTTP requests, portal signatures)
  Attorneys,    \* attorneys an operator can assign
  Nobody,       \* assignedAttorneyId = null
  Keep,         \* a field that the body of a transition request leaves out
  Targets,      \* values of toState that are enumerated
  Inputs,       \* the other fields of transition bodies that are enumerated
  Operations,   \* the endpoints in use
  Jurisdictions,\* what the metadata of a new case may say of its jurisdiction
  MaxPayouts    \* bound: payouts recorded for the case

Modes == { "ATTORNEY_REQUIRED", "OPS_DIRECT" }

\* expectedPayoutWindow: absent, or a date. Free text counts as a date that never passes.
Windows == { "none", "date" }

\* metadata.jurisdiction: absent, of a county that has a rule, of one that has none.
AllJurisdictions == { "absent", "ruled", "unruled" }

\* What getPayoutState finds latest: no payout, one without a fee, one with a fee.
PayoutViews == { "none", "free", "charged" }

Cases ==
  [ rules      : AllJurisdictions,
    status     : Statuses,
    mode       : Modes,
    attorney   : Attorneys \cup { Nobody },
    window     : Windows,
    closureReq : BOOLEAN ]

InputRecords ==
  [ mode       : Modes \cup { Keep },
    attorney   : Attorneys \cup { Nobody, Keep },
    window     : Windows \cup { Keep },
    closureReq : BOOLEAN \cup { Keep } ]

AllOperations ==
  { "transition", "triage", "sign", "payout", "submission", "closure", "attorney" }

ASSUME TargetsAssumption == Targets \subseteq Statuses

ASSUME InputsAssumption == Inputs \subseteq InputRecords

ASSUME OperationsAssumption == Operations \subseteq AllOperations

ASSUME JurisdictionsAssumption == Jurisdictions \subseteq AllJurisdictions

ASSUME BoundAssumption == MaxPayouts \in Nat

ASSUME SentinelAssumption ==
  /\ Keep \notin Modes \cup Windows
  /\ Keep \notin Attorneys \cup { Nobody }
  /\ Keep \notin BOOLEAN
  /\ Nobody \notin Attorneys

VARIABLES
  case,         \* the Case row
  consent,      \* a Consent row with revokedAt = null exists
  payouts,      \* Payout rows in the order of processedAt; each with its invoice
  closures,     \* CLOSURE_CONFIRMED events
  reported,     \* the status named by the latest CASE_STATUS_CHANGED event
  evidence,     \* a submission_evidence document is stored
  recorded,     \* a SUBMISSION_RECORDED event exists
  late,         \* the date in expectedPayoutWindow has passed
  req           \* what each request in flight holds in its local variables

vars == << case, consent, payouts, closures, reported, evidence, recorded, late, req >>

facts == << consent, payouts, closures, evidence, recorded >>

\* Where a request in flight stands.
Stages ==
  { "idle",
    "again",      \* transitionCase was called by another service, nothing read yet
    "read",       \* transitionCase has read the case and found the edge
    "weighed",    \* transitionCase has looked up the payouts and found no lock
    "checked",    \* transitionCase has passed every check
    "triage",     \* confirmTier has read the case
    "sign",       \* signConsent has read the case
    "pay",        \* confirmPayout has read the case and passed the guard
    "upload",     \* recordSubmission has read the case
    "record",     \* recordSubmission has moved the case, the event is due
    "confirm" }   \* confirmClosure has found no earlier confirmation

\* What follows a transition that another service asked for.
Sequels == { "done", "close", "record" }

RequestStates ==
  [ stage  : Stages,
    snap   : Cases,         \* the row as this request read it
    latest : PayoutViews,   \* the latest payout when this request looked
    to     : Statuses,
    input  : InputRecords,
    after  : Sequels ]

NoCase ==
  [ rules |-> "absent", status |-> "DISCOVERED", mode |-> "ATTORNEY_REQUIRED",
    attorney |-> Nobody, window |-> "none", closureReq |-> FALSE ]

NoInput ==
  [ mode |-> Keep, attorney |-> Keep, window |-> Keep, closureReq |-> Keep ]

Idle ==
  [ stage |-> "idle", snap |-> NoCase, latest |-> "none", to |-> "DISCOVERED",
    input |-> NoInput, after |-> "done" ]

\* All that a request keeps of the row once only the status matters.
OnlyStatus(c) == [ NoCase EXCEPT !.status = c.status ]

TypeOK ==
  /\ case \in Cases
  /\ consent \in BOOLEAN
  /\ payouts \in Seq([ fee : BOOLEAN ])
  /\ closures \in Nat
  /\ reported \in Statuses
  /\ evidence \in BOOLEAN
  /\ recorded \in BOOLEAN
  /\ late \in BOOLEAN
  /\ req \in [ Requests -> RequestStates ]

------------------------------------------------------------------------------
(* Checks *)

\* Faulty: a field that the body leaves out overwrites the column.
EffectiveOfBody(c, in) ==
  [ rules |-> c.rules, status |-> c.status, mode |-> in.mode, attorney |-> in.attorney,
    window |-> in.window, closureReq |-> in.closureReq ]

\* The row as the transition would leave it: fields of the body win.
Effective(c, in) ==
  [ rules      |-> c.rules,
    status     |-> c.status,
    mode       |-> IF in.mode = Keep THEN c.mode ELSE in.mode,
    attorney   |-> IF in.attorney = Keep THEN c.attorney ELSE in.attorney,
    window     |-> IF in.window = Keep THEN c.window ELSE in.window,
    closureReq |-> IF in.closureReq = Keep THEN c.closureReq ELSE in.closureReq ]

Represented(c) == c.mode = "ATTORNEY_REQUIRED" => c.attorney # Nobody

\* Every payout row is written as CONFIRMED, with its evidence and amount.
Paid == payouts # << >>

\* The PAYOUT_OVERDUE lock, on the stored row and not on the effective one.
Overdue(c) == c.window = "date" /\ late /\ ~Paid

LatestPayout ==
  IF Paid THEN IF payouts[Len(payouts)].fee THEN "charged" ELSE "free" ELSE "none"

\* Only a closing request goes by it later.
SeenBy(to) == IF to = "CLOSED" THEN LatestPayout ELSE "none"

FeeOnRecord == \E i \in DOMAIN payouts : payouts[i].fee

\* Faulty: the attorney is not asked for.
PayoutConfirmableUnstaffed(eff) ==
  eff.window # "none" /\ eff.closureReq = TRUE /\ Paid

\* Faulty: the payout row is not asked for.
PayoutConfirmableUnpaid(eff) ==
  eff.window # "none" /\ eff.closureReq = TRUE /\ Represented(eff)

\* The evidence is looked for once more when the latest payout brought none.
PayoutConfirmable(eff) ==
  /\ eff.window # "none"
  /\ eff.closureReq = TRUE
  /\ Represented(eff)
  /\ Paid

\* By the payout that was looked up before; a fee of zero cents counts as missing.
Closable(eff, latest) ==
  /\ Represented(eff)
  /\ eff.closureReq = TRUE => closures > 0
  /\ latest = "charged"

\* Faulty: no consent is looked for.
AdmissibleWithoutConsent(c, in, to, latest) ==
  /\ to = "PAYOUT_CONFIRMED" => PayoutConfirmable(Effective(c, in))
  /\ to = "CLOSED" => Closable(Effective(c, in), latest)

Admissible(c, in, to, latest) ==
  /\ to \in ConsentGated => consent
  /\ to = "PAYOUT_CONFIRMED" => PayoutConfirmable(Effective(c, in))
  /\ to = "CLOSED" => Closable(Effective(c, in), latest)

------------------------------------------------------------------------------
(* transitionCase *)

Set(r, s) == req' = [ req EXCEPT ![r] = s ]

Drop(r) == Set(r, Idle)

\* The row is read; the edge is looked up before the next await.
BeginTransition(r, to, in) ==
  LET goal == NormalizeSubmissionTarget(to) IN
  /\ "transition" \in Operations
  /\ req[r].stage = "idle"
  /\ goal \in AllowedTransitions(case.status)
  /\ Set(r, [ Idle EXCEPT !.stage = "read", !.snap = case, !.to = goal, !.input = in ])
  /\ UNCHANGED << case, facts, reported, late >>

\* The same for a transition asked for by confirmPayout or recordSubmission,
\* which give no other fields; a missing edge is an error of the whole request.
BeginNested(r) ==
  /\ req[r].stage = "again"
  /\ IF req[r].to \in AllowedTransitions(case.status)
     THEN Set(r, [ req[r] EXCEPT !.stage = "read", !.snap = case ])
     ELSE Drop(r)
  /\ UNCHANGED << case, facts, reported, late >>

\* The payouts are looked up, and the lock is decided by them and the clock.
LookUpPayouts(r) ==
  /\ req[r].stage = "read"
  /\ IF Overdue(req[r].snap) /\ req[r].to \notin LockBypass
     THEN Drop(r)
     ELSE Set(r, [ req[r] EXCEPT !.stage = "weighed", !.latest = SeenBy(req[r].to) ])
  /\ UNCHANGED << case, facts, reported, late >>

\* The evidence, a consent or a closure confirmation is looked up, as the target needs.
Check(r) ==
  /\ req[r].stage = "weighed"
  /\ IF Admissible(req[r].snap, req[r].input, req[r].to, req[r].latest)
     THEN Set(r, [ req[r] EXCEPT !.stage = "checked", !.snap = OnlyStatus(@), !.latest = "none" ])
     ELSE Drop(r)
  /\ UNCHANGED << case, facts, reported, late >>

\* What the request goes on to when its transition is written.
AfterTransition(s) ==
  IF s.after = "close" THEN [ Idle EXCEPT !.stage = "again", !.to = "CLOSED" ]
  ELSE IF s.after = "record" THEN [ Idle EXCEPT !.stage = "record" ]
  ELSE Idle

\* The transaction: status and the given fields by id, and the timeline event.
CommitTransition(r) ==
  /\ req[r].stage = "checked"
  /\ case' = [ Effective(case, req[r].input) EXCEPT !.status = req[r].to ]
  /\ reported' = req[r].to
  /\ Set(r, AfterTransition(req[r]))
  /\ UNCHANGED << facts, late >>

------------------------------------------------------------------------------
(* confirmTier *)

BeginTriage(r) ==
  /\ "triage" \in Operations
  /\ req[r].stage = "idle"
  /\ Set(r, [ Idle EXCEPT !.stage = "triage", !.snap = OnlyStatus(case) ])
  /\ UNCHANGED << case, facts, reported, late >>

\* The status is always written: ESCALATED for Tier C, else the one that was read.
CommitTriage(r, tierC) ==
  LET seen     == req[r].snap.status
      escalate == tierC /\ seen # "ESCALATED"
  IN
  /\ req[r].stage = "triage"
  /\ case' = [ case EXCEPT !.status = IF escalate THEN "ESCALATED" ELSE seen ]
  /\ reported' = IF escalate THEN "ESCALATED" ELSE reported
  /\ Drop(r)
  /\ UNCHANGED << facts, late >>

------------------------------------------------------------------------------
(* signConsent: the token can be used again, so a case can be signed twice *)

BeginSign(r) ==
  /\ "sign" \in Operations
  /\ req[r].stage = "idle"
  /\ Set(r, [ Idle EXCEPT !.stage = "sign", !.snap = OnlyStatus(case) ])
  /\ UNCHANGED << case, facts, reported, late >>

\* Faulty: the status is moved without an event.
CommitSignSilently(r) ==
  /\ req[r].stage = "sign"
  /\ consent' = TRUE
  /\ case' = IF req[r].snap.status \in ConsentEligible
             THEN [ case EXCEPT !.status = "CONSENT_SIGNED" ] ELSE case
  /\ Drop(r)
  /\ UNCHANGED << payouts, closures, evidence, recorded, reported, late >>

CommitSign(r) ==
  LET advance == req[r].snap.status \in ConsentEligible IN
  /\ req[r].stage = "sign"
  /\ consent' = TRUE
  /\ case' = IF advance THEN [ case EXCEPT !.status = "CONSENT_SIGNED" ] ELSE case
  /\ reported' = IF advance THEN "CONSENT_SIGNED" ELSE reported
  /\ Drop(r)
  /\ UNCHANGED << payouts, closures, evidence, recorded, late >>

------------------------------------------------------------------------------
(* confirmPayout, with closeCase or without *)

BeginPayout(r, closeCase) ==
  /\ "payout" \in Operations
  /\ req[r].stage = "idle"
  /\ Represented(case)
  /\ Set(r, [ Idle EXCEPT !.stage = "pay", !.snap = OnlyStatus(case),
                          !.after = IF closeCase THEN "close" ELSE "done" ])
  /\ UNCHANGED << case, facts, reported, late >>

\* The transaction that writes payout, artifact, invoice and event is committed
\* before the case is moved; whether to move it is decided by the status that was read.
RecordPayout(r, fee) ==
  LET seen == req[r].snap.status IN
  /\ req[r].stage = "pay"
  /\ Len(payouts) < MaxPayouts
  /\ payouts' = Append(payouts, [ fee |-> fee ])
  /\ IF seen \notin PayoutPhase
     THEN Set(r, [ req[r] EXCEPT !.stage = "again", !.to = "PAYOUT_CONFIRMED" ])
     ELSE Set(r, IF seen = "PAYOUT_CONFIRMED" THEN AfterTransition(req[r]) ELSE Idle)
  /\ UNCHANGED << case, consent, closures, evidence, recorded, reported, late >>

------------------------------------------------------------------------------
(* recordSubmission *)

BeginSubmission(r) ==
  /\ "submission" \in Operations
  /\ req[r].stage = "idle"
  /\ Set(r, [ Idle EXCEPT !.stage = "upload", !.snap = OnlyStatus(case),
                          !.after = "record" ])
  /\ UNCHANGED << case, facts, reported, late >>

\* Faulty: the submission is recorded whether or not the case has moved.
StoreEvidenceOnly(r) ==
  /\ req[r].stage = "upload"
  /\ evidence' = TRUE
  /\ Set(r, AfterTransition(req[r]))
  /\ UNCHANGED << case, consent, payouts, closures, recorded, reported, late >>

\* A county with a rule does not know the label submission_evidence: the upload is
\* refused. For one without a rule the document is stored, and the checklist of the
\* answer then throws. Else the edge is looked up, for the status read at the start.
StoreEvidence(r) ==
  LET seen == req[r].snap.status IN
  /\ req[r].stage = "upload"
  /\ evidence' = (evidence \/ case.rules # "ruled")
  /\ IF case.rules # "absent"
     THEN Drop(r)
     ELSE IF seen \in SubmissionStatuses
     THEN Set(r, AfterTransition(req[r]))
     ELSE IF "SUBMITTED_BY_PARTNER" \in AllowedTransitions(seen)
     THEN Set(r, [ req[r] EXCEPT !.stage = "again", !.to = "SUBMITTED_BY_PARTNER" ])
     ELSE Drop(r)
  /\ UNCHANGED << case, consent, payouts, closures, recorded, reported, late >>

RecordSubmission(r) ==
  /\ req[r].stage = "record"
  /\ recorded' = TRUE
  /\ Drop(r)
  /\ UNCHANGED << case, consent, payouts, closures, evidence, reported, late >>

------------------------------------------------------------------------------
(* confirmClosure and assignAttorney *)

\* Faulty: an earlier confirmation is not looked for.
BeginClosureAgain(r) ==
  /\ "closure" \in Operations
  /\ req[r].stage = "idle"
  /\ Set(r, [ Idle EXCEPT !.stage = "confirm" ])
  /\ UNCHANGED << case, facts, reported, late >>

\* With an earlier confirmation the handler returns it and writes nothing.
BeginClosure(r) ==
  /\ "closure" \in Operations
  /\ req[r].stage = "idle"
  /\ closures = 0
  /\ Set(r, [ Idle EXCEPT !.stage = "confirm" ])
  /\ UNCHANGED << case, facts, reported, late >>

RecordClosure(r) ==
  /\ req[r].stage = "confirm"
  /\ closures' = closures + 1
  /\ Drop(r)
  /\ UNCHANGED << case, consent, payouts, evidence, recorded, reported, late >>

\* One write of one column; nothing that was read decides what is written.
AssignAttorney(r, a) ==
  /\ "attorney" \in Operations
  /\ req[r].stage = "idle"
  /\ case' = [ case EXCEPT !.attorney = a ]
  /\ UNCHANGED << facts, reported, late, req >>

------------------------------------------------------------------------------
(* Environment *)

\* An await throws, or the process dies: what was written stays.
Abandon(r) ==
  /\ req[r].stage # "idle"
  /\ Drop(r)
  /\ UNCHANGED << case, facts, reported, late >>

DatePasses ==
  /\ ~late
  /\ late' = TRUE
  /\ UNCHANGED << case, facts, reported, req >>

\* createCase: the body chooses everything but the status.
Init ==
  /\ case \in { c \in Cases : c.status = "DISCOVERED" /\ c.rules \in Jurisdictions }
  /\ consent = FALSE
  /\ payouts = << >>
  /\ closures = 0
  /\ reported = "DISCOVERED"
  /\ evidence = FALSE
  /\ recorded = FALSE
  /\ late = FALSE
  /\ req = [ r \in Requests |-> Idle ]

TransitionStep(r) ==
  \/ \E to \in Targets, in \in Inputs : BeginTransition(r, to, in)
  \/ BeginNested(r)
  \/ LookUpPayouts(r)
  \/ Check(r)
  \/ CommitTransition(r)

TriageStep(r) ==
  \/ BeginTriage(r)
  \/ \E tierC \in BOOLEAN : CommitTriage(r, tierC)

SignStep(r) == BeginSign(r) \/ CommitSign(r)

PayoutStep(r) ==
  \/ \E closeCase \in BOOLEAN : BeginPayout(r, closeCase)
  \/ \E fee \in BOOLEAN : RecordPayout(r, fee)

SubmissionStep(r) == BeginSubmission(r) \/ StoreEvidence(r) \/ RecordSubmission(r)

ClosureStep(r) == BeginClosure(r) \/ RecordClosure(r)

AttorneyStep(r) == \E a \in Attorneys \cup { Nobody } : AssignAttorney(r, a)

RequestStep(r) ==
  \/ TransitionStep(r)
  \/ TriageStep(r)
  \/ SignStep(r)
  \/ PayoutStep(r)
  \/ SubmissionStep(r)
  \/ ClosureStep(r)
  \/ AttorneyStep(r)
  \/ Abandon(r)

Next ==
  \/ \E r \in Requests : RequestStep(r)
  \/ DatePasses

Spec == Init /\ [][Next]_vars

------------------------------------------------------------------------------
(* Correctness *)

\* However requests interleave, a case that collects documents or has its package
\* ready has a consent on file: transitionCase looks for one before it moves a case
\* there, and the other handlers only write such a status back when they read it.
ConsentGate == case.status \in ConsentGated => consent

\* However requests interleave, a case in the payout phase has a confirmed payout
\* with its evidence, and a closed one has a payout with a platform fee.
PayoutBacked ==
  /\ case.status \in PayoutPhase => Paid
  /\ case.status = "CLOSED" => FeeOnRecord

\* What a status rests on.
Backed(s) ==
  /\ s \in ConsentGated => consent
  /\ s \in PayoutPhase => Paid
  /\ s = "CLOSED" => FeeOnRecord

\* The two gates hold because whatever a request may still write is backed as well:
\* the status it has read, which confirmTier writes back, the target that has passed
\* its checks, and the payout it will close by.  What backs a status is never deleted.
StaleWritesBacked ==
  \A r \in Requests :
    /\ Backed(req[r].snap.status)
    /\ req[r].stage = "checked" => Backed(req[r].to)
    /\ req[r].stage = "weighed" /\ req[r].latest = "charged" => Paid /\ FeeOnRecord

\* The timeline tells the status: no handler changes Case.status without a
\* CASE_STATUS_CHANGED event that names the new one.
TimelineFaithful == reported = case.status

\* confirmClosure can be repeated: it records at most one confirmation.
ClosureOnce == closures <= 1

\* recordSubmission writes its SUBMISSION_RECORDED event only when the evidence is
\* stored and the case stands in one of the submission statuses.
SubmissionRecordedInPlace ==
  [][ recorded' # recorded => evidence /\ case.status \in SubmissionStatuses ]_vars

\* No case is submitted, paid or closed without a consent on file.
SubmittedWithConsent ==
  case.status \in SubmissionStatuses \cup PayoutPhase => consent

\* The workflow each request would follow if it were a single step.
Workflow ==
  INSTANCE CaseWorkflow WITH
    status <- case.status,
    paid <- Paid,
    represented <- Represented(case)

\* With one request at a time the handlers implement the workflow.
ImplementsWorkflow == Workflow!Spec
=============================================================================
