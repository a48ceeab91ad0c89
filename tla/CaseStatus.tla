----------------------------- MODULE CaseStatus -----------------------------
(***************************************************************************)
(* The lifecycle table of a surplus claim: the statuses of a case, the     *)
(* edges an operator may take, and the groups of statuses that the         *)
(* services treat alike (apps/api/src/cases/cases.service.ts).             *)
(***************************************************************************)

Statuses ==
  { "DISCOVERED", "TRIAGED", "CLIENT_CONTACTED", "CONSENT_SIGNED",
    "DOCUMENT_COLLECTION", "PACKAGE_READY", "SUBMITTED_BY_CLIENT",
    "SUBMITTED_BY_PARTNER", "AWAITING_RESPONSE", "SUBMITTED",
    "PAYOUT_CONFIRMED", "CLOSED", "ESCALATED", "ON_HOLD" }

\* Every working status can be parked or escalated.
Detours == { "ON_HOLD", "ESCALATED" }

SubmittedByDesk == { "SUBMITTED_BY_CLIENT", "SUBMITTED_BY_PARTNER" }

\* The intended path of a claim, from discovery to closure.
PathEdges ==
  { << "DISCOVERED", "TRIAGED" >>,
    << "TRIAGED", "CLIENT_CONTACTED" >>,
    << "CLIENT_CONTACTED", "CONSENT_SIGNED" >>,
    << "CONSENT_SIGNED", "DOCUMENT_COLLECTION" >>,
    << "DOCUMENT_COLLECTION", "PACKAGE_READY" >>,
    << "PACKAGE_READY", "SUBMITTED_BY_CLIENT" >>,
    << "PACKAGE_READY", "SUBMITTED_BY_PARTNER" >>,
    << "SUBMITTED_BY_CLIENT", "AWAITING_RESPONSE" >>,
    << "SUBMITTED_BY_PARTNER", "AWAITING_RESPONSE" >>,
    << "SUBMITTED", "AWAITING_RESPONSE" >>,
    << "SUBMITTED", "PAYOUT_CONFIRMED" >>,
    << "AWAITING_RESPONSE", "PAYOUT_CONFIRMED" >>,
    << "PAYOUT_CONFIRMED", "CLOSED" >> }

\* Where an escalated case comes back to the path.
EscalationExits ==
  SubmittedByDesk \cup
  { "DOCUMENT_COLLECTION", "PACKAGE_READY", "AWAITING_RESPONSE", "SUBMITTED",
    "PAYOUT_CONFIRMED", "ON_HOLD" }

Edges ==
  PathEdges
    \cup (Statuses \ ({ "CLOSED" } \cup Detours)) \X Detours
    \cup { "ESCALATED" } \X EscalationExits
    \cup { "ON_HOLD" } \X (Statuses \ { "CLOSED", "ON_HOLD" })

AllowedTransitions(from) == { to \in Statuses : << from, to >> \in Edges }

\* SUBMITTED is only kept for old rows: a request for it means "by partner".
NormalizeSubmissionTarget(to) ==
  IF to = "SUBMITTED" THEN "SUBMITTED_BY_PARTNER" ELSE to

\* Targets that are refused while no consent is on file.
ConsentGated == { "DOCUMENT_COLLECTION", "PACKAGE_READY" }

\* Targets that the overdue-payout lock does not stop.
LockBypass == { "PAYOUT_CONFIRMED", "CLOSED" } \cup Detours

\* Statuses from which a signature in the portal moves the case.
ConsentEligible == { "CLIENT_CONTACTED", "ON_HOLD" }

\* Statuses in which a recorded submission leaves the status alone.
SubmissionStatuses == SubmittedByDesk \cup { "AWAITING_RESPONSE", "SUBMITTED" }

PayoutPhase == { "PAYOUT_CONFIRMED", "CLOSED" }
=============================================================================
