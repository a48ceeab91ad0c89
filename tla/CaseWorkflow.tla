---------------------------- MODULE CaseWorkflow ----------------------------
(***************************************************************************)
(* What the case service promises about one case, as if every request were *)
(* a single step: an operator's transition takes an edge of the table and  *)
(* finds its gate open, a Tier C decision escalates, a signature in the    *)
(* portal files a consent, a payout is recorded once it is represented.    *)
(* CaseLifecycle shows how requests that read, check and write in separate *)
(* steps implement this, and when they do not.                             *)
(***************************************************************************)
EXTENDS CaseStatus

VARIABLES
  status,       \* Case.status
  consent,      \* a consent that was not revoked is on file
  paid,         \* a confirmed payout with its trust evidence is on record
  represented   \* an attorney is assigned, or the case does not need one

wfVars == << status, consent, paid, represented >>

TypeOK ==
  /\ status \in Statuses
  /\ consent \in BOOLEAN
  /\ paid \in BOOLEAN
  /\ represented \in BOOLEAN

\* createCase.
Init ==
  /\ status = "DISCOVERED"
  /\ consent = FALSE
  /\ paid = FALSE
  /\ represented \in BOOLEAN

\* transitionCase: its input may also change who represents the claimant.
Advance(to) ==
  /\ to \in AllowedTransitions(status)
  /\ to \in ConsentGated => consent
  /\ to \in PayoutPhase => paid
  /\ represented' \in BOOLEAN
  /\ to \in PayoutPhase => represented'
  /\ status' = to
  /\ UNCHANGED << consent, paid >>

\* confirmTier with Tier C: allowed from every status, the table is not asked.
Escalate ==
  /\ status' = "ESCALATED"
  /\ UNCHANGED << consent, paid, represented >>

\* signConsent.
SignConsent ==
  /\ consent' = TRUE
  /\ status' = IF status \in ConsentEligible THEN "CONSENT_SIGNED" ELSE status
  /\ UNCHANGED << paid, represented >>

\* confirmPayout, the part that records the payout.
RecordPayout ==
  /\ represented
  /\ paid' = TRUE
  /\ UNCHANGED << status, consent, represented >>

\* assignAttorney.
Staff ==
  /\ represented' \in BOOLEAN
  /\ UNCHANGED << status, consent, paid >>

Next ==
  \/ \E to \in Statuses : Advance(to)
  \/ Escalate
  \/ SignConsent
  \/ RecordPayout
  \/ Staff

Spec == Init /\ [][Next]_wfVars
=============================================================================
