------------------------- MODULE CaseLifecycleProofs -------------------------
(***************************************************************************)
(* Theorems about CaseLifecycle, for any set of requests, any operations   *)
(* and any inputs.                                                         *)
(***************************************************************************)
EXTENDS CaseLifecycle, SequenceTheorems, FiniteSetTheorems, TLAPS

\* Everything a step may read or write has its type.
LEMMA IdleType == Idle \in RequestStates /\ NoCase \in Cases /\ NoInput \in InputRecords
  BY DEF Idle, NoCase, NoInput, RequestStates, Cases, InputRecords, Stages, Sequels,
         Statuses, Modes, Windows, AllJurisdictions, PayoutViews

\* The merged row is a row.
LEMMA EffectiveType ==
  ASSUME NEW c \in Cases, NEW in \in InputRecords
  PROVE  Effective(c, in) \in Cases
  BY SentinelAssumption DEF Effective, Cases, InputRecords, Modes, Windows

\* The targets a handler can write are statuses.
LEMMA TargetType ==
  \A s \in Statuses : NormalizeSubmissionTarget(s) \in Statuses
  BY DEF NormalizeSubmissionTarget, Statuses

\* What is seen of the payouts is one of three things.
LEMMA SeenByType ==
  \A to : SeenBy(to) \in PayoutViews
  BY DEF SeenBy, LatestPayout, PayoutViews

LEMMA OnlyStatusType ==
  ASSUME NEW c \in Cases
  PROVE  OnlyStatus(c) \in Cases /\ OnlyStatus(c).status = c.status
  BY IdleType DEF OnlyStatus, Cases, NoCase

\* Changing fields of a request keeps its type.
LEMMA RequestUpdate ==
  ASSUME NEW s \in RequestStates, NEW stage \in Stages
  PROVE  /\ [ s EXCEPT !.stage = stage ] \in RequestStates
         /\ \A to \in Statuses :
              [ s EXCEPT !.stage = stage, !.to = to ] \in RequestStates
         /\ \A snap \in Cases :
              /\ [ s EXCEPT !.stage = stage, !.snap = snap ] \in RequestStates
              /\ \A after \in Sequels :
                   [ s EXCEPT !.stage = stage, !.snap = snap, !.after = after ]
                     \in RequestStates
              /\ \A to \in Statuses, in \in InputRecords :
                   [ s EXCEPT !.stage = stage, !.snap = snap, !.to = to, !.input = in ]
                     \in RequestStates
         /\ \A latest \in PayoutViews :
              /\ [ s EXCEPT !.stage = stage, !.latest = latest ] \in RequestStates
              /\ \A snap \in Cases :
                   [ s EXCEPT !.stage = stage, !.snap = snap, !.latest = latest ]
                     \in RequestStates
  BY DEF RequestStates

\* What a request holds after its transition is typed.
LEMMA AfterTransitionType ==
  ASSUME NEW s \in RequestStates
  PROVE  AfterTransition(s) \in RequestStates
  <1>1. "again" \in Stages /\ "record" \in Stages /\ "CLOSED" \in Statuses
    BY DEF Stages, Statuses
  <1>2. [ Idle EXCEPT !.stage = "again", !.to = "CLOSED" ] \in RequestStates
    BY <1>1, IdleType, RequestUpdate
  <1>3. [ Idle EXCEPT !.stage = "record" ] \in RequestStates
    BY <1>1, IdleType, RequestUpdate
  <1>4. QED
    BY <1>2, <1>3, IdleType DEF AfterTransition

\* One request moves on, the others keep their locals.
LEMMA SetType ==
  ASSUME TypeOK, NEW r \in Requests, NEW s \in RequestStates, Set(r, s)
  PROVE  req' \in [ Requests -> RequestStates ]
  BY DEF Set, TypeOK

------------------------------------------------------------------------------
(* Type correctness *)

\* Every step of a request keeps the types.
LEMMA RequestStepType ==
  ASSUME TypeOK, NEW r \in Requests, RequestStep(r)
  PROVE  TypeOK'
  <1> USE DEF facts
  <1>0. /\ req[r] \in RequestStates
        /\ req[r].snap \in Cases /\ req[r].to \in Statuses
        /\ req[r].input \in InputRecords /\ req[r].after \in Sequels
        /\ req[r].snap.status \in Statuses /\ case \in Cases /\ case.status \in Statuses
    BY DEF TypeOK, RequestStates, Cases
  <1> DEFINE Named == { "DISCOVERED", "CONSENT_SIGNED", "ESCALATED", "CLOSED",
                        "SUBMITTED_BY_PARTNER", "PAYOUT_CONFIRMED" }
  <1>n. Named \subseteq Statuses
    BY DEF Statuses
  <1>s. { "done", "close", "record" } \subseteq Sequels
    BY DEF Sequels
  <1>f. \A t \in Statuses : [ case EXCEPT !.status = t ] \in Cases
    BY <1>0 DEF Cases
  <1>d. Drop(r) => req' \in [ Requests -> RequestStates ]
    BY IdleType, SetType DEF Drop
  <1>o. OnlyStatus(case) \in Cases /\ OnlyStatus(req[r].snap) \in Cases
    BY <1>0, OnlyStatusType
  <1>1. ASSUME NEW to \in Targets, NEW in \in Inputs, BeginTransition(r, to, in)
        PROVE  TypeOK'
    <2>1. NormalizeSubmissionTarget(to) \in Statuses /\ in \in InputRecords
      BY TargetType, TargetsAssumption, InputsAssumption
    <2>2. "read" \in Stages
      BY DEF Stages
    <2>3. [ Idle EXCEPT !.stage = "read", !.snap = case,
                        !.to = NormalizeSubmissionTarget(to), !.input = in ]
            \in RequestStates
      BY <1>0, <2>1, <2>2, IdleType, RequestUpdate
    <2>4. req' \in [ Requests -> RequestStates ]
      BY <1>1, <2>3, SetType DEF BeginTransition
    <2>5. QED
      BY <1>1, <2>4 DEF BeginTransition, TypeOK
  <1>2. ASSUME BeginNested(r) PROVE TypeOK'
    <2>1. "read" \in Stages
      BY DEF Stages
    <2>2. [ req[r] EXCEPT !.stage = "read", !.snap = case ] \in RequestStates
      BY <1>0, <2>1, RequestUpdate
    <2>3. req' \in [ Requests -> RequestStates ]
      BY <1>2, <1>d, <2>2, SetType DEF BeginNested
    <2>4. QED
      BY <1>2, <2>3 DEF BeginNested, TypeOK
  <1>l. ASSUME LookUpPayouts(r) PROVE TypeOK'
    <2>1. "weighed" \in Stages
      BY DEF Stages
    <2>2. [ req[r] EXCEPT !.stage = "weighed", !.latest = SeenBy(req[r].to) ]
            \in RequestStates
      BY <1>0, <2>1, SeenByType, RequestUpdate
    <2>3. req' \in [ Requests -> RequestStates ]
      BY <1>l, <1>d, <2>2, SetType DEF LookUpPayouts
    <2>4. QED
      BY <1>l, <2>3 DEF LookUpPayouts, TypeOK
  <1>3. ASSUME Check(r) PROVE TypeOK'
    <2>1. "checked" \in Stages /\ "none" \in PayoutViews
      BY DEF Stages, PayoutViews
    <2>2. [ req[r] EXCEPT !.stage = "checked", !.snap = OnlyStatus(@), !.latest = "none" ]
            \in RequestStates
      BY <1>0, <1>o, <2>1, RequestUpdate
    <2>3. req' \in [ Requests -> RequestStates ]
      BY <1>3, <1>d, <2>2, SetType DEF Check
    <2>4. QED
      BY <1>3, <2>3 DEF Check, TypeOK
  <1>4. ASSUME CommitTransition(r) PROVE TypeOK'
    <2>1. Effective(case, req[r].input) \in Cases
      BY <1>0, EffectiveType
    <2>2. case' \in Cases
      BY <1>0, <1>4, <2>1 DEF CommitTransition, Cases
    <2>3. req' \in [ Requests -> RequestStates ]
      BY <1>0, <1>4, AfterTransitionType, SetType DEF CommitTransition
    <2>4. QED
      BY <1>0, <1>4, <2>2, <2>3 DEF CommitTransition, TypeOK
  <1>5. ASSUME BeginTriage(r) PROVE TypeOK'
    <2>1. "triage" \in Stages
      BY DEF Stages
    <2>2. [ Idle EXCEPT !.stage = "triage", !.snap = OnlyStatus(case) ] \in RequestStates
      BY <1>o, <2>1, IdleType, RequestUpdate
    <2>3. req' \in [ Requests -> RequestStates ]
      BY <1>5, <2>2, SetType DEF BeginTriage
    <2>4. QED
      BY <1>5, <2>3 DEF BeginTriage, TypeOK
  <1>6. ASSUME NEW tierC \in BOOLEAN, CommitTriage(r, tierC) PROVE TypeOK'
    <2>1. case' \in Cases /\ reported' \in Statuses
      BY <1>0, <1>f, <1>n, <1>6 DEF CommitTriage, TypeOK
    <2>2. QED
      BY <1>6, <1>d, <2>1 DEF CommitTriage, TypeOK
  <1>7. ASSUME BeginSign(r) PROVE TypeOK'
    <2>1. "sign" \in Stages
      BY DEF Stages
    <2>2. [ Idle EXCEPT !.stage = "sign", !.snap = OnlyStatus(case) ] \in RequestStates
      BY <1>o, <2>1, IdleType, RequestUpdate
    <2>3. req' \in [ Requests -> RequestStates ]
      BY <1>7, <2>2, SetType DEF BeginSign
    <2>4. QED
      BY <1>7, <2>3 DEF BeginSign, TypeOK
  <1>8. ASSUME CommitSign(r) PROVE TypeOK'
    <2>1. case' \in Cases /\ reported' \in Statuses
      BY <1>0, <1>f, <1>n, <1>8 DEF CommitSign, TypeOK
    <2>2. QED
      BY <1>8, <1>d, <2>1 DEF CommitSign, TypeOK
  <1>9. ASSUME NEW closeCase \in BOOLEAN, BeginPayout(r, closeCase) PROVE TypeOK'
    <2>1. "pay" \in Stages
      BY DEF Stages
    <2>2. [ Idle EXCEPT !.stage = "pay", !.snap = OnlyStatus(case),
                        !.after = IF closeCase THEN "close" ELSE "done" ] \in RequestStates
      BY <1>o, <1>s, <2>1, IdleType, RequestUpdate
    <2>3. req' \in [ Requests -> RequestStates ]
      BY <1>9, <2>2, SetType DEF BeginPayout
    <2>4. QED
      BY <1>9, <2>3 DEF BeginPayout, TypeOK
  <1>10. ASSUME NEW fee \in BOOLEAN, RecordPayout(r, fee) PROVE TypeOK'
    <2>1. "again" \in Stages
      BY DEF Stages
    <2>2. [ req[r] EXCEPT !.stage = "again", !.to = "PAYOUT_CONFIRMED" ] \in RequestStates
      BY <1>0, <1>n, <2>1, RequestUpdate
    <2>3. (IF req[r].snap.status = "PAYOUT_CONFIRMED" THEN AfterTransition(req[r]) ELSE Idle)
            \in RequestStates
      BY <1>0, AfterTransitionType, IdleType
    <2>4. req' \in [ Requests -> RequestStates ]
      BY <1>10, <2>2, <2>3, SetType DEF RecordPayout
    <2>5. payouts' \in Seq([ fee : BOOLEAN ])
      BY <1>10 DEF RecordPayout, TypeOK
    <2>6. QED
      BY <1>10, <2>4, <2>5 DEF RecordPayout, TypeOK
  <1>11. ASSUME BeginSubmission(r) PROVE TypeOK'
    <2>1. "upload" \in Stages
      BY DEF Stages
    <2>2. [ Idle EXCEPT !.stage = "upload", !.snap = OnlyStatus(case),
                        !.after = "record" ] \in RequestStates
      BY <1>o, <1>s, <2>1, IdleType, RequestUpdate
    <2>3. req' \in [ Requests -> RequestStates ]
      BY <1>11, <2>2, SetType DEF BeginSubmission
    <2>4. QED
      BY <1>11, <2>3 DEF BeginSubmission, TypeOK
  <1>12. ASSUME StoreEvidence(r) PROVE TypeOK'
    <2>1. "again" \in Stages
      BY DEF Stages
    <2>2. [ req[r] EXCEPT !.stage = "again", !.to = "SUBMITTED_BY_PARTNER" ]
            \in RequestStates
      BY <1>0, <1>n, <2>1, RequestUpdate
    <2>3. req' \in [ Requests -> RequestStates ]
      BY <1>0, <1>12, <1>d, <2>2, AfterTransitionType, SetType DEF StoreEvidence
    <2>4. QED
      BY <1>12, <2>3 DEF StoreEvidence, TypeOK
  <1>13. ASSUME RecordSubmission(r) PROVE TypeOK'
    BY <1>13, <1>d DEF RecordSubmission, TypeOK
  <1>14. ASSUME BeginClosure(r) PROVE TypeOK'
    <2>1. "confirm" \in Stages
      BY DEF Stages
    <2>2. [ Idle EXCEPT !.stage = "confirm" ] \in RequestStates
      BY <2>1, IdleType, RequestUpdate
    <2>3. req' \in [ Requests -> RequestStates ]
      BY <1>14, <2>2, SetType DEF BeginClosure
    <2>4. QED
      BY <1>14, <2>3 DEF BeginClosure, TypeOK
  <1>15. ASSUME RecordClosure(r) PROVE TypeOK'
    BY <1>15, <1>d DEF RecordClosure, TypeOK
  <1>16. ASSUME NEW a \in Attorneys \cup { Nobody }, AssignAttorney(r, a) PROVE TypeOK'
    <2>1. case' \in Cases
      BY <1>0, <1>16 DEF AssignAttorney, Cases
    <2>2. QED
      BY <1>16, <2>1 DEF AssignAttorney, TypeOK
  <1>17. ASSUME Abandon(r) PROVE TypeOK'
    BY <1>17, <1>d DEF Abandon, TypeOK
  <1>18. QED
    BY <1>1, <1>2, <1>l, <1>3, <1>4, <1>5, <1>6, <1>7, <1>8, <1>9, <1>10, <1>11, <1>12,
       <1>13, <1>14, <1>15, <1>16, <1>17
       DEF RequestStep, TransitionStep, TriageStep, SignStep, PayoutStep, SubmissionStep,
           ClosureStep, AttorneyStep

LEMMA TypeStep == TypeOK /\ [Next]_vars => TypeOK'
  <1> SUFFICES ASSUME TypeOK, [Next]_vars PROVE TypeOK'
    OBVIOUS
  <1>1. CASE \E r \in Requests : RequestStep(r)
    BY <1>1, RequestStepType
  <1>2. CASE DatePasses
    BY <1>2 DEF DatePasses, facts, TypeOK
  <1>3. CASE UNCHANGED vars
    BY <1>3 DEF vars, TypeOK
  <1>4. QED
    BY <1>1, <1>2, <1>3 DEF Next

LEMMA InitType == Init => TypeOK
  <1> SUFFICES ASSUME Init PROVE TypeOK
    OBVIOUS
  <1>1. case \in Cases /\ reported \in Statuses
    BY DEF Init, Statuses
  <1>2. req \in [ Requests -> RequestStates ]
    BY IdleType DEF Init
  <1>3. payouts \in Seq([ fee : BOOLEAN ]) /\ closures \in Nat
    BY DEF Init
  <1>4. QED
    BY <1>1, <1>2, <1>3 DEF Init, TypeOK

\* The variables keep their types, whatever requests and inputs there are.
THEOREM TypeCorrect == Spec => []TypeOK
  BY InitType, TypeStep, PTL DEF Spec

------------------------------------------------------------------------------
(* The gates under interleaving                                            *)
(*                                                                         *)
(* ConsentGate and PayoutBacked are not inductive: a request may write a   *)
(* status that it read, or checked, long ago.  GateInv adds that every     *)
(* status a request may still write is backed by what is on file.          *)

GateInv ==
  /\ TypeOK
  /\ Backed(case.status)
  /\ StaleWritesBacked

\* A status that starts a request or a case needs no backing.
LEMMA DiscoveredBacked == Backed("DISCOVERED") /\ Backed("ESCALATED")
  BY DEF Backed, ConsentGated, PayoutPhase

LEMMA InitGate == Init => GateInv
  <1> SUFFICES ASSUME Init PROVE GateInv
    OBVIOUS
  <1>1. TypeOK
    BY InitType
  <1>2. Backed(case.status)
    BY DiscoveredBacked DEF Init
  <1>3. StaleWritesBacked
    BY DiscoveredBacked DEF Init, StaleWritesBacked, Idle, NoCase
  <1>4. QED
    BY <1>1, <1>2, <1>3 DEF GateInv

\* Backed in the next state, for a status of this one.
BackedNext(s) ==
  /\ s \in ConsentGated => consent'
  /\ s \in PayoutPhase => Paid'
  /\ s = "CLOSED" => FeeOnRecord'

\* What a request that looked up a payout with a fee goes by.
SeenHolds(s) == s.stage = "weighed" /\ s.latest = "charged" => Paid /\ FeeOnRecord

SeenHoldsNext(s) == s.stage = "weighed" /\ s.latest = "charged" => Paid' /\ FeeOnRecord'

\* What backs a status is never taken away.
LEMMA BackingStays ==
  ASSUME TypeOK, [Next]_vars
  PROVE  /\ \A s : Backed(s) => BackedNext(s)
         /\ \A s : SeenHolds(s) => SeenHoldsNext(s)
  <1>1. consent => consent'
    BY DEF Next, vars, facts, RequestStep, TransitionStep, BeginTransition, BeginNested,
           LookUpPayouts, Check, CommitTransition, TriageStep, BeginTriage, CommitTriage, SignStep,
           BeginSign, CommitSign, PayoutStep, BeginPayout, RecordPayout, SubmissionStep,
           BeginSubmission, StoreEvidence, RecordSubmission, ClosureStep, BeginClosure,
           RecordClosure, AttorneyStep, AssignAttorney, Abandon, DatePasses
  <1>2. payouts' = payouts \/ \E fee \in BOOLEAN : payouts' = Append(payouts, [ fee |-> fee ])
    BY DEF Next, vars, facts, RequestStep, TransitionStep, BeginTransition, BeginNested,
           LookUpPayouts, Check, CommitTransition, TriageStep, BeginTriage, CommitTriage, SignStep,
           BeginSign, CommitSign, PayoutStep, BeginPayout, RecordPayout, SubmissionStep,
           BeginSubmission, StoreEvidence, RecordSubmission, ClosureStep, BeginClosure,
           RecordClosure, AttorneyStep, AssignAttorney, Abandon, DatePasses
  <1>3. (Paid => Paid') /\ (FeeOnRecord => FeeOnRecord')
    <2>1. CASE payouts' = payouts
      BY <2>1 DEF Paid, FeeOnRecord
    <2>2. ASSUME NEW fee \in BOOLEAN, payouts' = Append(payouts, [ fee |-> fee ])
          PROVE  (Paid => Paid') /\ (FeeOnRecord => FeeOnRecord')
      <3>1. payouts \in Seq([ fee : BOOLEAN ])
        BY DEF TypeOK
      <3>2. /\ Len(payouts') = Len(payouts) + 1
            /\ \A i \in 1 .. Len(payouts) : payouts'[i] = payouts[i]
        BY <2>2, <3>1
      <3>3. DOMAIN payouts = 1 .. Len(payouts) /\ DOMAIN payouts' = 1 .. Len(payouts')
        BY <2>2, <3>1
      <3>4. Len(payouts) \in Nat
        BY <3>1
      <3>5. payouts' # << >>
        BY <3>2, <3>4
      <3>6. QED
        BY <3>2, <3>3, <3>4, <3>5 DEF Paid, FeeOnRecord
    <2>3. QED
      BY <1>2, <2>1, <2>2
  <1>4. QED
    BY <1>1, <1>3 DEF Backed, BackedNext, SeenHolds, SeenHoldsNext

\* A request that moves on with backed statuses keeps the invariant about requests.
LEMMA SetBacked ==
  ASSUME GateInv, [Next]_vars, NEW r \in Requests, NEW s,
         Set(r, s), BackedNext(s.snap.status), s.stage = "checked" => BackedNext(s.to),
         SeenHoldsNext(s)
  PROVE  StaleWritesBacked'
  <1>1. \A q \in Requests : /\ BackedNext(req[q].snap.status)
                            /\ req[q].stage = "checked" => BackedNext(req[q].to)
                            /\ SeenHoldsNext(req[q])
    <2>1. \A q \in Requests : SeenHolds(req[q])
      BY DEF GateInv, StaleWritesBacked, SeenHolds
    <2>2. QED
      BY <2>1, BackingStays DEF GateInv, StaleWritesBacked
  <1>2. \A q \in Requests : req'[q] = IF q = r THEN s ELSE req[q]
    BY DEF Set, GateInv, TypeOK
  <1>3. \A q \in Requests : /\ BackedNext(req'[q].snap.status)
                            /\ req'[q].stage = "checked" => BackedNext(req'[q].to)
                            /\ SeenHoldsNext(req'[q])
    BY <1>1, <1>2
  <1>4. QED
    BY <1>3 DEF StaleWritesBacked, Backed, BackedNext, SeenHoldsNext

\* A finished or failed request writes nothing any more.
LEMMA DropBacked ==
  ASSUME GateInv, [Next]_vars, NEW r \in Requests, Drop(r)
  PROVE  StaleWritesBacked'
  <1>1. BackedNext(Idle.snap.status) /\ Idle.stage # "checked" /\ SeenHoldsNext(Idle)
    BY DEF Idle, NoCase, BackedNext, SeenHoldsNext, ConsentGated, PayoutPhase
  <1>2. QED
    BY <1>1, SetBacked DEF Drop

\* What may follow a transition carries no status that needs backing.
LEMMA AfterTransitionBacked ==
  ASSUME NEW s
  PROVE  /\ AfterTransition(s).stage \notin { "checked", "weighed" }
         /\ AfterTransition(s).snap.status = "DISCOVERED"
  BY DEF AfterTransition, Idle, NoCase

\* A payout with a fee that is seen is on record.
LEMMA SeenOnRecord ==
  ASSUME TypeOK, NEW to, SeenBy(to) = "charged"
  PROVE  Paid /\ FeeOnRecord
  <1>1. Paid /\ payouts[Len(payouts)].fee
    BY DEF SeenBy, LatestPayout
  <1>2. payouts \in Seq([ fee : BOOLEAN ])
    BY DEF TypeOK
  <1>3. Len(payouts) \in DOMAIN payouts
    BY <1>1, <1>2 DEF Paid
  <1>4. QED
    BY <1>1, <1>3 DEF FeeOnRecord

\* The checks of transitionCase back the target, whatever row they were made on.
LEMMA AdmissibleBacks ==
  ASSUME NEW c, NEW in, NEW to, NEW latest, Admissible(c, in, to, latest),
         latest = "charged" => Paid /\ FeeOnRecord
  PROVE  Backed(to)
  BY DEF Admissible, PayoutPhase, PayoutConfirmable, Closable, Backed

\* Every step of a request keeps statuses backed.
LEMMA RequestStepGate ==
  ASSUME GateInv, [Next]_vars, NEW r \in Requests, RequestStep(r)
  PROVE  BackedNext(case'.status) /\ StaleWritesBacked'
  <1> USE DEF facts
  <1>0. TypeOK /\ req[r] \in RequestStates /\ case \in Cases
    BY DEF GateInv, TypeOK
  <1>b. /\ BackedNext(case.status)
        /\ BackedNext(req[r].snap.status)
        /\ req[r].stage = "checked" => BackedNext(req[r].to)
        /\ BackedNext("DISCOVERED") /\ BackedNext("ESCALATED") /\ BackedNext("CONSENT_SIGNED")
        /\ SeenHoldsNext(req[r])
    <2>1. SeenHolds(req[r])
      BY DEF GateInv, StaleWritesBacked, SeenHolds
    <2>2. QED
      BY <1>0, <2>1, BackingStays
         DEF GateInv, StaleWritesBacked, BackedNext, ConsentGated, PayoutPhase
  <1>a. BackedNext(AfterTransition(req[r]).snap.status) /\ AfterTransition(req[r]).stage # "checked"
        /\ SeenHoldsNext(AfterTransition(req[r]))
    BY <1>b, AfterTransitionBacked DEF SeenHoldsNext
  <1>o. OnlyStatus(case).status = case.status
        /\ OnlyStatus(req[r].snap).status = req[r].snap.status
    BY DEF OnlyStatus, NoCase
  <1>i. Idle.stage = "idle" /\ Idle.snap.status = "DISCOVERED"
        /\ Idle \in RequestStates
    BY IdleType DEF Idle, NoCase
  <1>1. ASSUME NEW to \in Targets, NEW in \in Inputs, BeginTransition(r, to, in)
        PROVE  BackedNext(case'.status) /\ StaleWritesBacked'
    <2> DEFINE s == [ Idle EXCEPT !.stage = "read", !.snap = case,
                        !.to = NormalizeSubmissionTarget(to), !.input = in ]
    <2>1. s.stage = "read" /\ s.snap = case
      BY <1>i DEF RequestStates
    <2>2. Set(r, s)
      BY <1>1 DEF BeginTransition
    <2>3. StaleWritesBacked'
      BY <1>b, <2>1, <2>2, SetBacked DEF SeenHoldsNext
    <2>4. QED
      BY <1>1, <1>b, <2>3 DEF BeginTransition
  <1>2. ASSUME BeginNested(r) PROVE BackedNext(case'.status) /\ StaleWritesBacked'
    <2> DEFINE s == [ req[r] EXCEPT !.stage = "read", !.snap = case ]
    <2>1. s.stage = "read" /\ s.snap = case
      BY <1>0 DEF RequestStates
    <2>2. Set(r, s) \/ Drop(r)
      BY <1>2 DEF BeginNested
    <2>3. StaleWritesBacked'
      BY <1>b, <2>1, <2>2, SetBacked, DropBacked DEF SeenHoldsNext
    <2>4. QED
      BY <1>2, <1>b, <2>3 DEF BeginNested
  <1>l. ASSUME LookUpPayouts(r) PROVE BackedNext(case'.status) /\ StaleWritesBacked'
    <2> DEFINE s == [ req[r] EXCEPT !.stage = "weighed", !.latest = SeenBy(req[r].to) ]
    <2>1. s.stage = "weighed" /\ s.snap = req[r].snap /\ s.latest = SeenBy(req[r].to)
      BY <1>0 DEF RequestStates
    <2>2. Set(r, s) \/ Drop(r)
      BY <1>l DEF LookUpPayouts
    <2>3. SeenHolds(s)
      BY <1>0, <2>1, SeenOnRecord DEF SeenHolds
    <2>4. SeenHoldsNext(s)
      <3> HIDE DEF s
      <3>1. QED
        BY <1>0, <2>3, BackingStays
    <2>5. StaleWritesBacked'
      BY <1>b, <2>1, <2>2, <2>4, SetBacked, DropBacked
    <2>6. QED
      BY <1>l, <1>b, <2>5 DEF LookUpPayouts
  <1>3. ASSUME Check(r) PROVE BackedNext(case'.status) /\ StaleWritesBacked'
    <2> DEFINE s == [ req[r] EXCEPT !.stage = "checked", !.snap = OnlyStatus(@),
                                    !.latest = "none" ]
    <2>1. s.stage = "checked" /\ s.snap = OnlyStatus(req[r].snap) /\ s.to = req[r].to
      BY <1>0 DEF RequestStates
    <2>2. CASE Drop(r)
      BY <1>3, <1>b, <2>2, DropBacked DEF Check
    <2>3. CASE /\ Set(r, s)
               /\ Admissible(req[r].snap, req[r].input, req[r].to, req[r].latest)
      <3>1. req[r].latest = "charged" => Paid /\ FeeOnRecord
        BY <1>3 DEF Check, GateInv, StaleWritesBacked
      <3>2. Backed(req[r].to)
        BY <2>3, <3>1, AdmissibleBacks
      <3>3. BackedNext(req[r].to)
        BY <1>0, <3>2, BackingStays
      <3>4. StaleWritesBacked'
        BY <1>b, <1>o, <2>1, <2>3, <3>3, SetBacked DEF SeenHoldsNext
      <3>5. QED
        BY <1>3, <1>b, <3>4 DEF Check
    <2>4. QED
      BY <1>3, <2>2, <2>3 DEF Check
  <1>4. ASSUME CommitTransition(r) PROVE BackedNext(case'.status) /\ StaleWritesBacked'
    <2>1. case'.status = req[r].to
      BY <1>4 DEF CommitTransition, Effective
    <2>2. StaleWritesBacked'
      BY <1>4, <1>a, SetBacked DEF CommitTransition
    <2>3. QED
      BY <1>4, <1>b, <2>1, <2>2 DEF CommitTransition
  <1>5. ASSUME BeginTriage(r) PROVE BackedNext(case'.status) /\ StaleWritesBacked'
    <2> DEFINE s == [ Idle EXCEPT !.stage = "triage", !.snap = OnlyStatus(case) ]
    <2>1. s.stage = "triage" /\ s.snap = OnlyStatus(case)
      BY <1>i DEF RequestStates
    <2>2. StaleWritesBacked'
      BY <1>5, <1>b, <1>o, <2>1, SetBacked DEF SeenHoldsNext, BeginTriage
    <2>3. QED
      BY <1>5, <1>b, <2>2 DEF BeginTriage
  <1>6. ASSUME NEW tierC \in BOOLEAN, CommitTriage(r, tierC)
        PROVE  BackedNext(case'.status) /\ StaleWritesBacked'
    <2>1. case'.status = "ESCALATED" \/ case'.status = req[r].snap.status
      BY <1>0, <1>6 DEF CommitTriage, Cases
    <2>2. QED
      BY <1>6, <1>b, <2>1, DropBacked DEF CommitTriage
  <1>7. ASSUME BeginSign(r) PROVE BackedNext(case'.status) /\ StaleWritesBacked'
    <2> DEFINE s == [ Idle EXCEPT !.stage = "sign", !.snap = OnlyStatus(case) ]
    <2>1. s.stage = "sign" /\ s.snap = OnlyStatus(case)
      BY <1>i DEF RequestStates
    <2>2. StaleWritesBacked'
      BY <1>7, <1>b, <1>o, <2>1, SetBacked DEF SeenHoldsNext, BeginSign
    <2>3. QED
      BY <1>7, <1>b, <2>2 DEF BeginSign
  <1>8. ASSUME CommitSign(r) PROVE BackedNext(case'.status) /\ StaleWritesBacked'
    <2>1. case'.status = "CONSENT_SIGNED" \/ case'.status = case.status
      BY <1>0, <1>8 DEF CommitSign, Cases
    <2>2. QED
      BY <1>8, <1>b, <2>1, DropBacked DEF CommitSign
  <1>9. ASSUME NEW closeCase \in BOOLEAN, BeginPayout(r, closeCase)
        PROVE  BackedNext(case'.status) /\ StaleWritesBacked'
    <2> DEFINE s == [ Idle EXCEPT !.stage = "pay", !.snap = OnlyStatus(case),
                                  !.after = IF closeCase THEN "close" ELSE "done" ]
    <2>1. s.stage = "pay" /\ s.snap = OnlyStatus(case)
      BY <1>i DEF RequestStates
    <2>2. StaleWritesBacked'
      BY <1>9, <1>b, <1>o, <2>1, SetBacked DEF SeenHoldsNext, BeginPayout
    <2>3. QED
      BY <1>9, <1>b, <2>2 DEF BeginPayout
  <1>10. ASSUME NEW fee \in BOOLEAN, RecordPayout(r, fee)
         PROVE  BackedNext(case'.status) /\ StaleWritesBacked'
    <2> DEFINE s == [ req[r] EXCEPT !.stage = "again", !.to = "PAYOUT_CONFIRMED" ]
    <2>1. s.stage = "again" /\ s.snap = req[r].snap
      BY <1>0 DEF RequestStates
    <2>2. Set(r, s) \/ Set(r, AfterTransition(req[r])) \/ Drop(r)
      BY <1>10 DEF RecordPayout, Drop
    <2>3. StaleWritesBacked'
      BY <1>a, <1>b, <2>1, <2>2, SetBacked, DropBacked DEF SeenHoldsNext
    <2>4. QED
      BY <1>10, <1>b, <2>3 DEF RecordPayout
  <1>11. ASSUME BeginSubmission(r) PROVE BackedNext(case'.status) /\ StaleWritesBacked'
    <2> DEFINE s == [ Idle EXCEPT !.stage = "upload", !.snap = OnlyStatus(case),
                                  !.after = "record" ]
    <2>1. s.stage = "upload" /\ s.snap = OnlyStatus(case)
      BY <1>i DEF RequestStates
    <2>2. StaleWritesBacked'
      BY <1>11, <1>b, <1>o, <2>1, SetBacked DEF SeenHoldsNext, BeginSubmission
    <2>3. QED
      BY <1>11, <1>b, <2>2 DEF BeginSubmission
  <1>12. ASSUME StoreEvidence(r) PROVE BackedNext(case'.status) /\ StaleWritesBacked'
    <2> DEFINE s == [ req[r] EXCEPT !.stage = "again", !.to = "SUBMITTED_BY_PARTNER" ]
    <2>1. s.stage = "again" /\ s.snap = req[r].snap
      BY <1>0 DEF RequestStates
    <2>2. Set(r, s) \/ Set(r, AfterTransition(req[r])) \/ Drop(r)
      BY <1>12 DEF StoreEvidence
    <2>3. StaleWritesBacked'
      BY <1>a, <1>b, <2>1, <2>2, SetBacked, DropBacked DEF SeenHoldsNext
    <2>4. QED
      BY <1>12, <1>b, <2>3 DEF StoreEvidence
  <1>13. CASE RecordSubmission(r) \/ RecordClosure(r) \/ Abandon(r)
    BY <1>13, <1>b, DropBacked DEF RecordSubmission, RecordClosure, Abandon
  <1>14. ASSUME BeginClosure(r) PROVE BackedNext(case'.status) /\ StaleWritesBacked'
    <2> DEFINE s == [ Idle EXCEPT !.stage = "confirm" ]
    <2>1. s.stage = "confirm" /\ s.snap = Idle.snap
      BY <1>i DEF RequestStates
    <2>2. StaleWritesBacked'
      BY <1>14, <1>b, <1>i, <2>1, SetBacked DEF SeenHoldsNext, BeginClosure
    <2>3. QED
      BY <1>14, <1>b, <2>2 DEF BeginClosure
  <1>15. ASSUME NEW a \in Attorneys \cup { Nobody }, AssignAttorney(r, a)
         PROVE  BackedNext(case'.status) /\ StaleWritesBacked'
    <2>1. case'.status = case.status
      BY <1>0, <1>15 DEF AssignAttorney, Cases
    <2>2. Set(r, req[r])
      BY <1>0, <1>15 DEF AssignAttorney, Set, TypeOK
    <2>3. QED
      BY <1>b, <2>1, <2>2, SetBacked DEF SeenHoldsNext
  <1>16. QED
    BY <1>1, <1>2, <1>l, <1>3, <1>4, <1>5, <1>6, <1>7, <1>8, <1>9, <1>10, <1>11, <1>12,
       <1>13, <1>14, <1>15
       DEF RequestStep, TransitionStep, TriageStep, SignStep, PayoutStep, SubmissionStep,
           ClosureStep, AttorneyStep

LEMMA GateStep == GateInv /\ [Next]_vars => GateInv'
  <1> SUFFICES ASSUME GateInv, [Next]_vars PROVE GateInv'
    OBVIOUS
  <1>0. TypeOK'
    BY TypeStep DEF GateInv
  <1>1. BackedNext(case'.status) /\ StaleWritesBacked'
    <2>1. CASE \E r \in Requests : RequestStep(r)
      BY <2>1, RequestStepGate
    <2>2. CASE DatePasses \/ UNCHANGED vars
      BY <2>2 DEF DatePasses, facts, vars, GateInv, StaleWritesBacked, Backed, BackedNext,
                  Paid, FeeOnRecord
    <2>3. QED
      BY <2>1, <2>2 DEF Next
  <1>2. QED
    BY <1>0, <1>1 DEF GateInv, Backed, BackedNext

LEMMA GateInvariant == Spec => []GateInv
  BY InitGate, GateStep, PTL DEF Spec

\* However many requests interleave, a case that collects documents or has its
\* package ready has a consent on file.
THEOREM ConsentGateHolds == Spec => []ConsentGate
  <1>1. GateInv => ConsentGate
    BY DEF GateInv, Backed, ConsentGate
  <1>2. QED
    BY <1>1, GateInvariant, PTL

\* However many requests interleave, a case in the payout phase has its payout, and a
\* closed case has a payout with a fee.
THEOREM PayoutBackedHolds == Spec => []PayoutBacked
  <1>1. GateInv => PayoutBacked
    BY DEF GateInv, Backed, PayoutBacked
  <1>2. QED
    BY <1>1, GateInvariant, PTL

\* What a request may still write is backed by what is on file.
THEOREM StaleWritesBackedHolds == Spec => []StaleWritesBacked
  <1>1. GateInv => StaleWritesBacked
    BY DEF GateInv
  <1>2. QED
    BY <1>1, GateInvariant, PTL

------------------------------------------------------------------------------
(* Requests that overlap: the timeline, the confirmations and the evidence *)

Confirming == { r \in Requests : req[r].stage = "confirm" }

\* Of all the requests that overlap, each confirms closure once at most.
ClosuresBounded == closures <= Cardinality(Requests)

\* No submission is recorded without its evidence.
EvidenceFirst == recorded => evidence

\* The request is on its way to record a submission, its evidence is stored.
Carries(s) ==
  s.stage = "record" \/ (s.stage \in { "again", "read", "weighed", "checked" } /\ s.after = "record")

\* What a step of request r does to the timeline, the confirmations and the evidence,
\* when s is what it then holds.
Moves(r, s) ==
  /\ Set(r, s)
  /\ \/ req[r].stage = "triage"
     \/ reported' = case'.status
     \/ reported' = reported /\ case'.status = case.status
  /\ s.stage = "triage" => req[r].stage = "triage" \/ "triage" \in Operations
  /\ \/ closures' = closures /\ (s.stage = "confirm" => req[r].stage = "confirm" \/ closures = 0)
     \/ closures' = closures + 1 /\ req[r].stage = "confirm" /\ s.stage # "confirm"
  /\ recorded' => recorded \/ req[r].stage = "record"
  /\ evidence => evidence'
  /\ Carries(s) => evidence' \/ Carries(req[r]) \/ (req[r].stage = "pay" /\ req[r].after = "record")
  /\ s.stage = "pay" /\ s.after = "record" => req[r].stage = "pay" /\ req[r].after = "record"

LEMMA RequestMoves ==
  ASSUME TypeOK, NEW r \in Requests, RequestStep(r)
  PROVE  \E s : Moves(r, s)
  <1> USE DEF facts
  <1>0. req[r] \in RequestStates /\ Idle \in RequestStates /\ Idle.stage = "idle" /\ Idle.after = "done"
    BY IdleType DEF TypeOK, Idle
  <1>a. /\ AfterTransition(req[r]).stage \in { "idle", "again", "record" }
        /\ AfterTransition(req[r]).after = "done"
        /\ AfterTransition(req[r]).stage = "record" => req[r].after = "record"
    BY <1>0 DEF AfterTransition, RequestStates
  \* A step that only changes what the request holds.
  <1>q. ASSUME NEW s, Set(r, s), UNCHANGED << case, facts, reported >>,
               s.stage = "triage" => req[r].stage = "triage" \/ "triage" \in Operations,
               s.stage = "confirm" => req[r].stage = "confirm" \/ closures = 0,
               Carries(s) => Carries(req[r]),
               s.stage = "pay" => s.after # "record"
        PROVE  \E t : Moves(r, t)
    <2>1. Moves(r, s)
      BY <1>q DEF Moves
    <2> QED
      BY <2>1
  <1>i. ~Carries(Idle)
    BY <1>0 DEF Carries
  <1>1. CASE TransitionStep(r)
    <2>1. ASSUME NEW to \in Targets, NEW in \in Inputs, BeginTransition(r, to, in)
          PROVE  \E s : Moves(r, s)
      <3> PICK s : s = [ Idle EXCEPT !.stage = "read", !.snap = case,
                           !.to = NormalizeSubmissionTarget(to), !.input = in ]
        OBVIOUS
      <3>1. s.stage = "read" /\ s.after = "done"
        BY <1>0 DEF RequestStates
      <3> QED
        BY <1>q, <2>1, <3>1 DEF BeginTransition, Carries
    <2>2. ASSUME BeginNested(r)
          PROVE  \E s : Moves(r, s)
      <3> PICK s : s = [ req[r] EXCEPT !.stage = "read", !.snap = case ]
        OBVIOUS
      <3>1. s.stage = "read" /\ s.after = req[r].after
        BY <1>0 DEF RequestStates
      <3> QED
        BY <1>0, <1>i, <1>q, <2>2, <3>1 DEF BeginNested, Drop, Carries
    <2>l. ASSUME LookUpPayouts(r)
          PROVE  \E s : Moves(r, s)
      <3> PICK s : s = [ req[r] EXCEPT !.stage = "weighed", !.latest = SeenBy(req[r].to) ]
        OBVIOUS
      <3>1. s.stage = "weighed" /\ s.after = req[r].after
        BY <1>0 DEF RequestStates
      <3> QED
        BY <1>0, <1>i, <1>q, <2>l, <3>1 DEF LookUpPayouts, Drop, Carries
    <2>3. ASSUME Check(r)
          PROVE  \E s : Moves(r, s)
      <3> PICK s : s = [ req[r] EXCEPT !.stage = "checked", !.snap = OnlyStatus(@),
                                       !.latest = "none" ]
        OBVIOUS
      <3>1. s.stage = "checked" /\ s.after = req[r].after
        BY <1>0 DEF RequestStates
      <3> QED
        BY <1>0, <1>i, <1>q, <2>3, <3>1 DEF Check, Drop, Carries
    <2>4. ASSUME CommitTransition(r)
          PROVE  \E s : Moves(r, s)
      <3>1. /\ Set(r, AfterTransition(req[r])) /\ UNCHANGED facts /\ req[r].stage = "checked"
            /\ reported' = req[r].to
            /\ case' = [ Effective(case, req[r].input) EXCEPT !.status = req[r].to ]
        BY <2>4 DEF CommitTransition
      <3>2. case'.status = req[r].to
        BY <3>1 DEF Effective
      <3>3. Moves(r, AfterTransition(req[r]))
        BY <1>a, <3>1, <3>2 DEF Moves, Carries
      <3> QED
        BY <3>3
    <2> QED
      BY <1>1, <2>1, <2>2, <2>l, <2>3, <2>4 DEF TransitionStep
  <1>2. CASE TriageStep(r)
    <2>1. ASSUME BeginTriage(r)
          PROVE  \E s : Moves(r, s)
      <3> PICK s : s = [ Idle EXCEPT !.stage = "triage", !.snap = OnlyStatus(case) ]
        OBVIOUS
      <3>1. s.stage = "triage" /\ s.after = "done"
        BY <1>0 DEF RequestStates
      <3> QED
        BY <1>q, <2>1, <3>1 DEF BeginTriage, Carries
    <2>2. ASSUME NEW tierC \in BOOLEAN, CommitTriage(r, tierC)
          PROVE  \E s : Moves(r, s)
      <3>1. Set(r, Idle) /\ UNCHANGED facts /\ req[r].stage = "triage"
        BY <2>2 DEF CommitTriage, Drop
      <3>2. Moves(r, Idle)
        BY <1>0, <1>i, <3>1 DEF Moves
      <3> QED
        BY <3>2
    <2> QED
      BY <1>2, <2>1, <2>2 DEF TriageStep
  <1>3. CASE SignStep(r)
    <2>1. ASSUME BeginSign(r)
          PROVE  \E s : Moves(r, s)
      <3> PICK s : s = [ Idle EXCEPT !.stage = "sign", !.snap = OnlyStatus(case) ]
        OBVIOUS
      <3>1. s.stage = "sign" /\ s.after = "done"
        BY <1>0 DEF RequestStates
      <3> QED
        BY <1>q, <2>1, <3>1 DEF BeginSign, Carries
    <2>2. ASSUME CommitSign(r)
          PROVE  \E s : Moves(r, s)
      <3>1. /\ Set(r, Idle) /\ UNCHANGED << payouts, closures, evidence, recorded >>
            /\ \/ reported' = case'.status
               \/ reported' = reported /\ case'.status = case.status
        BY <2>2 DEF CommitSign, Drop, TypeOK, Cases
      <3>2. Moves(r, Idle)
        BY <1>0, <1>i, <3>1 DEF Moves
      <3> QED
        BY <3>2
    <2> QED
      BY <1>3, <2>1, <2>2 DEF SignStep
  <1>4. CASE PayoutStep(r)
    <2>1. ASSUME NEW closeCase \in BOOLEAN, BeginPayout(r, closeCase)
          PROVE  \E s : Moves(r, s)
      <3> PICK s : s = [ Idle EXCEPT !.stage = "pay", !.snap = OnlyStatus(case),
                                     !.after = IF closeCase THEN "close" ELSE "done" ]
        OBVIOUS
      <3>1. s.stage = "pay" /\ s.after # "record"
        BY <1>0 DEF RequestStates
      <3> QED
        BY <1>q, <2>1, <3>1 DEF BeginPayout, Carries
    <2>2. ASSUME NEW fee \in BOOLEAN, RecordPayout(r, fee)
          PROVE  \E s : Moves(r, s)
      <3> PICK again : again = [ req[r] EXCEPT !.stage = "again", !.to = "PAYOUT_CONFIRMED" ]
        OBVIOUS
      <3>1. again.stage = "again" /\ again.after = req[r].after
        BY <1>0 DEF RequestStates
      <3>2. PICK s : Set(r, s) /\ s \in { again, AfterTransition(req[r]), Idle }
        BY <2>2 DEF RecordPayout
      <3>3. /\ UNCHANGED << case, consent, closures, evidence, recorded, reported >>
            /\ req[r].stage = "pay"
        BY <2>2 DEF RecordPayout
      <3>4. Moves(r, s)
        BY <1>0, <1>a, <1>i, <3>1, <3>2, <3>3 DEF Moves, Carries
      <3> QED
        BY <3>4
    <2> QED
      BY <1>4, <2>1, <2>2 DEF PayoutStep
  <1>5. CASE SubmissionStep(r)
    <2>1. ASSUME BeginSubmission(r)
          PROVE  \E s : Moves(r, s)
      <3> PICK s : s = [ Idle EXCEPT !.stage = "upload", !.snap = OnlyStatus(case),
                                     !.after = "record" ]
        OBVIOUS
      <3>1. s.stage = "upload"
        BY <1>0 DEF RequestStates
      <3> QED
        BY <1>q, <2>1, <3>1 DEF BeginSubmission, Carries
    <2>2. ASSUME StoreEvidence(r)
          PROVE  \E s : Moves(r, s)
      <3> PICK again : again = [ req[r] EXCEPT !.stage = "again", !.to = "SUBMITTED_BY_PARTNER" ]
        OBVIOUS
      <3>1. again.stage = "again"
        BY <1>0 DEF RequestStates
      <3>2. PICK s : /\ Set(r, s) /\ s \in { again, AfterTransition(req[r]), Idle }
                     /\ s = Idle \/ evidence'
        BY <2>2 DEF StoreEvidence, Drop
      <3>3. /\ UNCHANGED << case, consent, payouts, closures, recorded, reported >>
            /\ evidence => evidence'
        BY <2>2 DEF StoreEvidence
      <3>4. s.stage \in { "again", "idle", "record" }
        BY <1>0, <1>a, <3>1, <3>2
      <3>5. Carries(s) => evidence'
        BY <1>i, <3>2
      <3>6. Moves(r, s)
        BY <3>2, <3>3, <3>4, <3>5 DEF Moves
      <3> QED
        BY <3>6
    <2>3. ASSUME RecordSubmission(r)
          PROVE  \E s : Moves(r, s)
      <3>1. /\ Set(r, Idle) /\ UNCHANGED << case, closures, evidence, reported >>
            /\ req[r].stage = "record"
        BY <2>3 DEF RecordSubmission, Drop
      <3>2. Moves(r, Idle)
        BY <1>0, <1>i, <3>1 DEF Moves
      <3> QED
        BY <3>2
    <2> QED
      BY <1>5, <2>1, <2>2, <2>3 DEF SubmissionStep
  <1>6. CASE ClosureStep(r)
    <2>1. ASSUME BeginClosure(r)
          PROVE  \E s : Moves(r, s)
      <3> PICK s : s = [ Idle EXCEPT !.stage = "confirm" ]
        OBVIOUS
      <3>1. s.stage = "confirm"
        BY <1>0 DEF RequestStates
      <3> QED
        BY <1>q, <2>1, <3>1 DEF BeginClosure, Carries
    <2>2. ASSUME RecordClosure(r)
          PROVE  \E s : Moves(r, s)
      <3>1. /\ Set(r, Idle) /\ UNCHANGED << case, evidence, recorded, reported >>
            /\ req[r].stage = "confirm" /\ closures' = closures + 1
        BY <2>2 DEF RecordClosure, Drop
      <3>2. Moves(r, Idle)
        BY <1>0, <1>i, <3>1 DEF Moves
      <3> QED
        BY <3>2
    <2> QED
      BY <1>6, <2>1, <2>2 DEF ClosureStep
  <1>7. CASE AttorneyStep(r)
    <2>1. PICK a : AssignAttorney(r, a)
      BY <1>7 DEF AttorneyStep
    <2>2. /\ UNCHANGED << facts, reported, req >> /\ case'.status = case.status
          /\ req[r].stage = "idle"
      BY <2>1 DEF AssignAttorney, TypeOK, Cases
    <2>3. Set(r, req[r])
      BY <2>2 DEF Set, TypeOK
    <2>4. Moves(r, req[r])
      BY <2>2, <2>3 DEF Moves
    <2> QED
      BY <2>4
  <1>8. CASE Abandon(r)
    BY <1>0, <1>i, <1>q, <1>8 DEF Abandon, Drop
  <1> QED
    BY <1>1, <1>2, <1>3, <1>4, <1>5, <1>6, <1>7, <1>8 DEF RequestStep

\* A step is a step of one request, or touches nothing of this.
LEMMA StepMoves ==
  ASSUME TypeOK, [Next]_vars
  PROVE  \/ \E r \in Requests : \E s : Moves(r, s)
         \/ UNCHANGED << case, reported, closures, recorded, evidence, req >>
  BY RequestMoves DEF Next, DatePasses, vars, facts

\* Whatever a request that reads, checks and writes in separate steps holds, the event and
\* the status are written together: only confirmTier, which writes back the status that it
\* has read, can make the timeline name another status than the case has.
THEOREM OverlappingTimeline == "triage" \notin Operations => (Spec => []TimelineFaithful)
  <1> SUFFICES ASSUME "triage" \notin Operations
               PROVE  Spec => []TimelineFaithful
    OBVIOUS
  <1> DEFINE J == TypeOK /\ TimelineFaithful /\ \A r \in Requests : req[r].stage # "triage"
  <1>1. Init => J
    BY InitType DEF Init, Idle, TimelineFaithful
  <1>2. J /\ [Next]_vars => J'
    <2> SUFFICES ASSUME J, [Next]_vars
                 PROVE  J'
      OBVIOUS
    <2>1. TypeOK'
      BY TypeStep
    <2>2. ASSUME NEW r \in Requests, NEW s, Moves(r, s)
          PROVE  TimelineFaithful' /\ \A q \in Requests : req'[q].stage # "triage"
      BY <2>2 DEF Moves, TimelineFaithful, Set, TypeOK
    <2> QED
      BY <2>1, <2>2, StepMoves DEF TimelineFaithful
  <1> QED
    BY <1>1, <1>2, PTL DEF Spec

\* However many requests overlap, no more closure confirmations are recorded than requests
\* that were in flight at once: one that comes later finds an earlier confirmation.
THEOREM ClosuresBoundedHolds == IsFiniteSet(Requests) => (Spec => []ClosuresBounded)
  <1> SUFFICES ASSUME IsFiniteSet(Requests)
               PROVE  Spec => []ClosuresBounded
    OBVIOUS
  <1> DEFINE J == TypeOK /\ closures + Cardinality(Confirming) <= Cardinality(Requests)
  <1>0. ASSUME NEW S, S \subseteq Requests
        PROVE  /\ IsFiniteSet(S) /\ Cardinality(S) \in Nat /\ Cardinality(Requests) \in Nat
               /\ Cardinality(S) <= Cardinality(Requests)
    BY <1>0, FS_Subset, FS_CardinalityType
  <1>1. Init => J
    <2>1. ASSUME Init
          PROVE  Confirming = {} /\ closures = 0
      BY <2>1 DEF Init, Idle, Confirming
    <2> QED
      BY <1>0, <2>1, InitType, FS_EmptySet
  <1>2. J /\ [Next]_vars => J'
    <2> SUFFICES ASSUME J, [Next]_vars
                 PROVE  J'
      OBVIOUS
    <2>1. TypeOK'
      BY TypeStep
    <2> PICK all, now, before : all = Requests /\ now = Confirming' /\ before = Confirming
      OBVIOUS
    <2>2. /\ closures \in Nat /\ before \subseteq all /\ now \subseteq all
          /\ closures + Cardinality(before) <= Cardinality(all)
      BY DEF TypeOK, Confirming
    <2>3. /\ IsFiniteSet(before) /\ IsFiniteSet(now) /\ IsFiniteSet(all)
          /\ Cardinality(before) \in Nat /\ Cardinality(now) \in Nat /\ Cardinality(all) \in Nat
          /\ Cardinality(now) <= Cardinality(all)
      BY <1>0, <2>2
    <2>4. ASSUME NEW r \in Requests, NEW s, Moves(r, s)
          PROVE  closures' + Cardinality(now) <= Cardinality(all)
      <3>1. now = IF s.stage = "confirm" THEN before \cup {r} ELSE before \ {r}
        BY <2>4 DEF Moves, Set, TypeOK, Confirming
      <3>2. r \in before <=> req[r].stage = "confirm"
        BY DEF Confirming
      <3>3. CASE closures' = closures + 1
        <4>1. r \in before /\ now = before \ {r}
          BY <2>2, <2>4, <3>1, <3>2, <3>3 DEF Moves
        <4>2. Cardinality(now) = Cardinality(before) - 1
          BY <2>3, <4>1, FS_RemoveElement
        <4> QED
          BY <2>2, <2>3, <3>3, <4>2
      <3>4. CASE closures' = closures /\ closures = 0
        BY <2>3, <3>4
      <3>5. CASE closures' = closures /\ closures # 0
        <4>1. now \subseteq before
          BY <2>2, <2>4, <3>1, <3>2, <3>5 DEF Moves
        <4>2. Cardinality(now) <= Cardinality(before)
          BY <2>3, <4>1, FS_Subset
        <4> QED
          BY <2>2, <2>3, <3>5, <4>2
      <3> QED
        BY <2>4, <3>3, <3>4, <3>5 DEF Moves
    <2>5. closures' + Cardinality(now) <= Cardinality(all)
      BY <2>2, <2>4, StepMoves DEF Confirming
    <2> QED
      BY <2>1, <2>5
  <1>3. J => ClosuresBounded
    <2> SUFFICES ASSUME J
                 PROVE  ClosuresBounded
      OBVIOUS
    <2>1. Confirming \subseteq Requests /\ closures \in Nat
      BY DEF Confirming, TypeOK
    <2> QED
      BY <1>0, <2>1 DEF ClosuresBounded
  <1> QED
    BY <1>1, <1>2, <1>3, PTL DEF Spec

\* However many requests overlap, a submission is recorded only after its evidence has
\* been stored; that the case then stands in a submission status takes Serial.
THEOREM EvidenceFirstHolds == Spec => []EvidenceFirst
  <1> DEFINE J == /\ TypeOK /\ EvidenceFirst
                  /\ \A r \in Requests : /\ Carries(req[r]) => evidence
                                         /\ req[r].stage = "pay" => req[r].after # "record"
  <1>1. Init => J
    BY InitType DEF Init, Idle, EvidenceFirst, Carries
  <1>2. J /\ [Next]_vars => J'
    <2> SUFFICES ASSUME J, [Next]_vars
                 PROVE  J'
      OBVIOUS
    <2>1. TypeOK'
      BY TypeStep
    <2>2. ASSUME NEW r \in Requests, NEW s, Moves(r, s)
          PROVE  /\ EvidenceFirst'
                 /\ \A q \in Requests : /\ Carries(req'[q]) => evidence'
                                        /\ req'[q].stage = "pay" => req'[q].after # "record"
      <3>1. recorded' => evidence'
        BY <2>2 DEF Moves, EvidenceFirst, Carries
      <3>2. \A q \in Requests : q # r => req'[q] = req[q]
        BY <2>2 DEF Moves, Set, TypeOK
      <3>3. req'[r] = s
        BY <2>2 DEF Moves, Set, TypeOK
      <3>4. /\ Carries(s) => evidence'
            /\ s.stage = "pay" => s.after # "record"
        BY <2>2 DEF Moves
      <3>5. evidence => evidence'
        BY <2>2 DEF Moves
      <3> QED
        BY <3>1, <3>2, <3>3, <3>4, <3>5 DEF EvidenceFirst
    <2>3. CASE UNCHANGED << case, reported, closures, recorded, evidence, req >>
      BY <2>1, <2>3 DEF EvidenceFirst, Carries
    <2>4. ASSUME NEW r \in Requests, NEW s, Moves(r, s)
          PROVE  J'
      <3>1. \A q \in Requests : Carries(req[q])' = Carries(req'[q])
        BY DEF Carries
      <3> QED
        BY <2>1, <2>2, <2>4, <3>1
    <2> QED
      BY <2>3, <2>4, StepMoves
  <1>3. J => EvidenceFirst
    OBVIOUS
  <1> QED
    BY <1>1, <1>2, <1>3, PTL DEF Spec

-----------------------------------------------------------------------------
(* When requests on a case do not overlap, CaseLifecycle implements          *)
(* CaseWorkflow: what a request has read is still true when it writes.       *)


\* No two requests at a time: there is one slot at most.
Serial == \A q, r \in Requests : q = r

\* What the request in flight has read and checked still holds.
Fresh(s) ==
  /\ s.stage \in { "read", "weighed" } => s.snap = case
  /\ s.stage \in { "checked", "triage", "sign", "pay", "upload" }
       => s.snap.status = case.status
  /\ s.stage \in { "read", "weighed", "checked" } => s.to \in AllowedTransitions(case.status)
  /\ s.stage = "checked" /\ s.to \in PayoutPhase => Represented(Effective(case, s.input))
  /\ s.stage = "pay" => Represented(case)
  /\ s.stage \in { "again", "read", "weighed", "checked" } /\ s.after = "record"
       => evidence /\ s.to = "SUBMITTED_BY_PARTNER"
  /\ s.stage = "record" => evidence /\ case.status \in SubmissionStatuses
  /\ s.stage = "confirm" => closures = 0
  /\ s.stage = "upload" => s.after = "record"
  /\ s.stage = "pay" => s.after # "record"

SerialInv ==
  /\ GateInv
  /\ TimelineFaithful
  /\ ClosureOnce
  /\ \A r \in Requests : Fresh(req[r])

\* The abstract module brings its own copy of the table; it is the same table.
LEMMA SameTable ==
  /\ \A s : Workflow!AllowedTransitions(s) = AllowedTransitions(s)
  /\ Workflow!Statuses = Statuses
  /\ Workflow!ConsentGated = ConsentGated
  /\ Workflow!PayoutPhase = PayoutPhase
  /\ Workflow!ConsentEligible = ConsentEligible
  <1>1. Workflow!Statuses = Statuses
    BY DEF Workflow!Statuses, Statuses
  <1>2. Workflow!Detours = Detours /\ Workflow!SubmittedByDesk = SubmittedByDesk
    BY DEF Workflow!Detours, Detours, Workflow!SubmittedByDesk, SubmittedByDesk
  <1>3. Workflow!EscalationExits = EscalationExits
    BY <1>2 DEF Workflow!EscalationExits, EscalationExits
  <1>4. Workflow!PathEdges = PathEdges
    BY DEF Workflow!PathEdges, PathEdges
  <1>5. Workflow!Edges = Edges
    BY <1>1, <1>2, <1>3, <1>4 DEF Workflow!Edges, Edges
  <1>6. \A s : Workflow!AllowedTransitions(s) = AllowedTransitions(s)
    BY <1>1, <1>5 DEF Workflow!AllowedTransitions, AllowedTransitions
  <1>7. QED
    BY <1>1, <1>6 DEF Workflow!ConsentGated, ConsentGated, Workflow!PayoutPhase,
                      PayoutPhase, Workflow!ConsentEligible, ConsentEligible, Workflow!Detours

LEMMA InitSerial == Init => SerialInv /\ Workflow!Init
  <1> SUFFICES ASSUME Init PROVE SerialInv /\ Workflow!Init
    OBVIOUS
  <1>1. GateInv
    BY InitGate
  <1>2. TimelineFaithful /\ ClosureOnce
    BY DEF Init, TimelineFaithful, ClosureOnce
  <1>3. \A r \in Requests : Fresh(req[r])
    BY DEF Init, Idle, Fresh
  <1>4. Workflow!Init
    BY DEF Init, Workflow!Init, Represented, Paid
  <1>5. QED
    BY <1>1, <1>2, <1>3, <1>4 DEF SerialInv

\* Abstract steps, in the variables of CaseLifecycle.
MapNext ==
  \/ /\ case'.status \in AllowedTransitions(case.status)
     /\ case'.status \in ConsentGated => consent
     /\ case'.status \in PayoutPhase => Paid /\ Represented(case')
     /\ consent' = consent /\ Paid' = Paid
  \/ case'.status = "ESCALATED" /\ consent' = consent /\ Paid' = Paid
       /\ Represented(case') = Represented(case)
  \/ /\ consent' = TRUE /\ Paid' = Paid /\ Represented(case') = Represented(case)
     /\ case'.status = IF case.status \in ConsentEligible THEN "CONSENT_SIGNED"
                                                         ELSE case.status
  \/ /\ Represented(case) /\ Paid' = TRUE
     /\ case' = case /\ consent' = consent
  \/ case'.status = case.status /\ consent' = consent /\ Paid' = Paid

\* A mapped step is a step of the workflow, or leaves its variables alone.
LEMMA MapStep ==
  ASSUME TypeOK, MapNext
  PROVE  [Workflow!Next]_(<< case.status, consent, Paid, Represented(case) >>)
  <1>0. case.status \in Statuses /\ Represented(case) \in BOOLEAN /\ Represented(case') \in BOOLEAN
    BY DEF TypeOK, Cases, Represented
  <1>1. CASE /\ case'.status \in AllowedTransitions(case.status)
             /\ case'.status \in ConsentGated => consent
             /\ case'.status \in PayoutPhase => Paid /\ Represented(case')
             /\ consent' = consent /\ Paid' = Paid
    <2>1. case'.status \in Statuses
      BY <1>1 DEF AllowedTransitions
    <2>2. Workflow!Advance(case'.status)
      BY <1>0, <1>1, SameTable DEF Workflow!Advance
    <2>3. QED
      BY <2>1, <2>2, SameTable DEF Workflow!Next
  <1>2. CASE /\ case'.status = "ESCALATED" /\ consent' = consent /\ Paid' = Paid
             /\ Represented(case') = Represented(case)
    BY <1>2 DEF Workflow!Next, Workflow!Escalate
  <1>3. CASE /\ consent' = TRUE /\ Paid' = Paid /\ Represented(case') = Represented(case)
             /\ case'.status = IF case.status \in ConsentEligible THEN "CONSENT_SIGNED"
                                                                 ELSE case.status
    BY <1>3, SameTable DEF Workflow!Next, Workflow!SignConsent
  <1>4. CASE Represented(case) /\ Paid' = TRUE /\ case' = case /\ consent' = consent
    BY <1>4 DEF Workflow!Next, Workflow!RecordPayout
  <1>5. CASE case'.status = case.status /\ consent' = consent /\ Paid' = Paid
    BY <1>0, <1>5 DEF Workflow!Next, Workflow!Staff
  <1>6. QED
    BY <1>1, <1>2, <1>3, <1>4, <1>5 DEF MapNext

\* With one slot, a step of its request is the only thing that happens.
LEMMA SerialSet ==
  ASSUME Serial, TypeOK, NEW r \in Requests, NEW s, Set(r, s)
  PROVE  \A q \in Requests : req'[q] = s
  BY DEF Serial, TypeOK, Set

\* Nothing else of SerialInv than the request, the timeline and the confirmations
\* has to be looked at, once GateInv is known.
SerialRest ==
  /\ reported' = case'.status
  /\ closures' <= 1
  /\ \A r \in Requests : Fresh(req[r])'

\* Every step of the single request keeps the invariant and is a mapped step.
LEMMA SerialRequestStep ==
  ASSUME Serial, SerialInv, GateInv', NEW r \in Requests, RequestStep(r)
  PROVE  SerialRest /\ MapNext
  <1> USE DEF facts
  <1>0. /\ TypeOK /\ req[r] \in RequestStates /\ case \in Cases /\ Fresh(req[r])
        /\ reported = case.status /\ closures <= 1 /\ closures \in Nat
        /\ req[r].snap \in Cases /\ req[r].input \in InputRecords
    BY DEF SerialInv, GateInv, TypeOK, TimelineFaithful, ClosureOnce, RequestStates
  <1>i. /\ Idle.stage = "idle" /\ Idle \in RequestStates /\ Idle.after = "done"
        /\ "again" # "idle"
    BY IdleType DEF Idle
  <1>o. OnlyStatus(case).status = case.status
        /\ OnlyStatus(req[r].snap).status = req[r].snap.status
    BY DEF OnlyStatus, NoCase
  \* A step that leaves the row and its facts alone is a stutter of the workflow.
  <1>u. ASSUME UNCHANGED << case, facts, reported, late >>
        PROVE  reported' = case'.status /\ closures' <= 1 /\ MapNext
    BY <1>0, <1>u DEF MapNext, Paid
  <1>d. ASSUME Drop(r) PROVE \A q \in Requests : Fresh(req[q])'
    <2>1. \A q \in Requests : req'[q] = Idle
      BY <1>0, <1>d, SerialSet DEF Drop
    <2>2. QED
      BY <2>1, <1>i DEF Fresh
  \* What is left of a request when its transition is written, or not needed.
  <1>a. /\ AfterTransition(req[r]).stage \in { "idle", "again", "record" }
        /\ AfterTransition(req[r]).after = "done"
        /\ AfterTransition(req[r]).stage = "record" => req[r].after = "record"
    BY <1>i DEF AfterTransition, RequestStates
  <1>1. ASSUME NEW to \in Targets, NEW in \in Inputs, BeginTransition(r, to, in)
        PROVE  SerialRest /\ MapNext
    <2> DEFINE s == [ Idle EXCEPT !.stage = "read", !.snap = case,
                        !.to = NormalizeSubmissionTarget(to), !.input = in ]
    <2>1. /\ s.stage = "read" /\ s.snap = case /\ s.after = "done"
          /\ s.to = NormalizeSubmissionTarget(to)
      BY <1>i DEF RequestStates
    <2>2. \A q \in Requests : req'[q] = s
      BY <1>0, <1>1, SerialSet DEF BeginTransition
    <2>3. case' = case /\ s.to \in AllowedTransitions(case.status)
      BY <1>1, <2>1 DEF BeginTransition
    <2>4. \A q \in Requests : Fresh(req[q])'
      BY <2>1, <2>2, <2>3 DEF Fresh
    <2>5. QED
      BY <1>1, <1>u, <2>4 DEF BeginTransition, SerialRest
  <1>2. ASSUME BeginNested(r) PROVE SerialRest /\ MapNext
    <2> DEFINE s == [ req[r] EXCEPT !.stage = "read", !.snap = case ]
    <2>1. /\ s.stage = "read" /\ s.snap = case /\ s.after = req[r].after
          /\ s.to = req[r].to
      BY <1>0 DEF RequestStates
    <2>2. case' = case /\ evidence' = evidence
      BY <1>2 DEF BeginNested
    <2>3. CASE Set(r, s) /\ req[r].to \in AllowedTransitions(case.status)
      <3>1. \A q \in Requests : req'[q] = s
        BY <1>0, <2>3, SerialSet
      <3>a. req[r].stage = "again"
        BY <1>2 DEF BeginNested
      <3>b. req[r].after = "record" => evidence /\ req[r].to = "SUBMITTED_BY_PARTNER"
        BY <1>0, <3>a DEF Fresh
      <3> HIDE DEF s
      <3>2. \A q \in Requests : Fresh(req[q])'
        BY <2>1, <2>2, <2>3, <3>1, <3>b DEF Fresh
      <3>3. QED
        BY <1>2, <1>u, <3>2 DEF BeginNested, SerialRest
    <2>4. CASE Drop(r)
      BY <1>2, <1>u, <1>d, <2>4 DEF BeginNested, SerialRest
    <2>5. QED
      BY <1>2, <2>3, <2>4 DEF BeginNested
  <1>l. ASSUME LookUpPayouts(r) PROVE SerialRest /\ MapNext
    <2> DEFINE s == [ req[r] EXCEPT !.stage = "weighed", !.latest = SeenBy(req[r].to) ]
    <2>1. /\ s.stage = "weighed" /\ s.snap = req[r].snap
          /\ s.to = req[r].to /\ s.after = req[r].after
      BY <1>0 DEF RequestStates
    <2>2. case' = case /\ evidence' = evidence /\ req[r].stage = "read"
      BY <1>l DEF LookUpPayouts
    <2>3. CASE Set(r, s)
      <3>1. \A q \in Requests : req'[q] = s
        BY <1>0, <2>3, SerialSet
      <3>2. /\ req[r].after = "record" => evidence /\ req[r].to = "SUBMITTED_BY_PARTNER"
            /\ req[r].to \in AllowedTransitions(case.status) /\ req[r].snap = case
        BY <1>0, <2>2 DEF Fresh
      <3> HIDE DEF s
      <3>3. \A q \in Requests : Fresh(req[q])'
        BY <2>1, <2>2, <3>1, <3>2 DEF Fresh
      <3>4. QED
        BY <1>l, <1>u, <3>3 DEF LookUpPayouts, SerialRest
    <2>4. CASE Drop(r)
      BY <1>l, <1>u, <1>d, <2>4 DEF LookUpPayouts, SerialRest
    <2>5. QED
      BY <1>l, <2>3, <2>4 DEF LookUpPayouts
  <1>3. ASSUME Check(r) PROVE SerialRest /\ MapNext
    <2> DEFINE s == [ req[r] EXCEPT !.stage = "checked", !.snap = OnlyStatus(@),
                                    !.latest = "none" ]
    <2>1. /\ s.stage = "checked" /\ s.snap = OnlyStatus(req[r].snap)
          /\ s.to = req[r].to /\ s.input = req[r].input /\ s.after = req[r].after
      BY <1>0 DEF RequestStates
    <2>2. case' = case /\ evidence' = evidence /\ req[r].stage = "weighed"
      BY <1>3 DEF Check
    <2>3. CASE /\ Set(r, s)
               /\ Admissible(req[r].snap, req[r].input, req[r].to, req[r].latest)
      <3>1. \A q \in Requests : req'[q] = s
        BY <1>0, <2>3, SerialSet
      <3>2. req[r].snap = case
        BY <1>0, <2>2 DEF Fresh
      <3>3. req[r].to \in PayoutPhase => Represented(Effective(case, req[r].input))
        BY <2>3, <3>2 DEF Admissible, PayoutPhase, PayoutConfirmable, Closable
      <3>a. /\ req[r].after = "record" => evidence /\ req[r].to = "SUBMITTED_BY_PARTNER"
            /\ req[r].to \in AllowedTransitions(case.status)
        BY <1>0, <2>2 DEF Fresh
      <3>b. OnlyStatus(req[r].snap).status = case.status
        BY <1>o, <3>2
      <3> HIDE DEF s
      <3>4. \A q \in Requests : Fresh(req[q])'
        BY <2>1, <2>2, <3>1, <3>3, <3>a, <3>b DEF Fresh, Represented, Effective
      <3>5. QED
        BY <1>3, <1>u, <3>4 DEF Check, SerialRest
    <2>4. CASE Drop(r)
      BY <1>3, <1>u, <1>d, <2>4 DEF Check, SerialRest
    <2>5. QED
      BY <1>3, <2>3, <2>4 DEF Check
  <1>4. ASSUME CommitTransition(r) PROVE SerialRest /\ MapNext
    <2>1. /\ req[r].stage = "checked" /\ reported' = req[r].to
          /\ case' = [ Effective(case, req[r].input) EXCEPT !.status = req[r].to ]
          /\ UNCHANGED facts
      BY <1>4 DEF CommitTransition
    <2>2. case'.status = req[r].to /\ Represented(case') = Represented(Effective(case, req[r].input))
      BY <2>1 DEF Effective, Represented
    <2>3. MapNext
      <3>1. req[r].to \in AllowedTransitions(case.status)
        BY <1>0, <2>1 DEF Fresh
      <3>2. req[r].to \in PayoutPhase => Represented(Effective(case, req[r].input))
        BY <1>0, <2>1 DEF Fresh
      <3>3. Backed(req[r].to)
        BY <2>1 DEF SerialInv, GateInv, StaleWritesBacked
      <3>4. QED
        BY <2>1, <2>2, <3>1, <3>2, <3>3 DEF MapNext, Backed, Paid
    <2>4. \A q \in Requests : Fresh(req[q])'
      <3>1. \A q \in Requests : req'[q] = AfterTransition(req[r])
        BY <1>0, <1>4, SerialSet DEF CommitTransition
      <3>2. CASE req[r].after = "close"
        <4>1. AfterTransition(req[r]).stage = "again" /\ AfterTransition(req[r]).after = "done"
          BY <1>i, <3>2 DEF AfterTransition, RequestStates
        <4>2. QED
          BY <3>1, <4>1 DEF Fresh
      <3>3. CASE req[r].after = "record"
        <4>1. AfterTransition(req[r]).stage = "record"
          BY <1>i, <3>3 DEF AfterTransition, RequestStates
        <4>2. evidence /\ req[r].to = "SUBMITTED_BY_PARTNER"
          BY <1>0, <2>1, <3>3 DEF Fresh
        <4>3. evidence' /\ case'.status \in SubmissionStatuses
          BY <2>1, <2>2, <4>2 DEF SubmissionStatuses, SubmittedByDesk
        <4>4. QED
          BY <3>1, <4>1, <4>3 DEF Fresh
      <3>4. CASE req[r].after # "close" /\ req[r].after # "record"
        BY <1>i, <3>1, <3>4 DEF Fresh, AfterTransition
      <3>5. QED
        BY <3>2, <3>3, <3>4
    <2>5. QED
      BY <1>0, <2>1, <2>2, <2>3, <2>4 DEF SerialRest
  <1>5. ASSUME BeginTriage(r) PROVE SerialRest /\ MapNext
    <2> DEFINE s == [ Idle EXCEPT !.stage = "triage", !.snap = OnlyStatus(case) ]
    <2>1. s.stage = "triage" /\ s.snap = OnlyStatus(case)
      BY <1>i DEF RequestStates
    <2>2. \A q \in Requests : req'[q] = s
      BY <1>0, <1>5, SerialSet DEF BeginTriage
    <2>3. \A q \in Requests : Fresh(req[q])'
      BY <1>5, <1>o, <2>1, <2>2 DEF Fresh, BeginTriage
    <2>4. QED
      BY <1>5, <1>u, <2>3 DEF BeginTriage, SerialRest
  <1>6. ASSUME NEW tierC \in BOOLEAN, CommitTriage(r, tierC) PROVE SerialRest /\ MapNext
    <2>1. req[r].snap.status = case.status /\ UNCHANGED facts /\ Drop(r)
      BY <1>0, <1>6 DEF Fresh, CommitTriage
    <2>2. /\ case'.status = "ESCALATED" \/ case'.status = case.status
          /\ reported' = case'.status /\ Represented(case') = Represented(case)
      BY <1>0, <1>6, <2>1 DEF CommitTriage, Cases, Represented
    <2>3. MapNext
      BY <2>1, <2>2 DEF MapNext, Paid
    <2>4. QED
      BY <1>0, <1>d, <2>1, <2>2, <2>3 DEF SerialRest
  <1>7. ASSUME BeginSign(r) PROVE SerialRest /\ MapNext
    <2> DEFINE s == [ Idle EXCEPT !.stage = "sign", !.snap = OnlyStatus(case) ]
    <2>1. s.stage = "sign" /\ s.snap = OnlyStatus(case)
      BY <1>i DEF RequestStates
    <2>2. \A q \in Requests : req'[q] = s
      BY <1>0, <1>7, SerialSet DEF BeginSign
    <2>3. \A q \in Requests : Fresh(req[q])'
      BY <1>7, <1>o, <2>1, <2>2 DEF Fresh, BeginSign
    <2>4. QED
      BY <1>7, <1>u, <2>3 DEF BeginSign, SerialRest
  <1>8. ASSUME CommitSign(r) PROVE SerialRest /\ MapNext
    <2>1. /\ req[r].snap.status = case.status /\ Drop(r) /\ consent' = TRUE
          /\ payouts' = payouts /\ closures' = closures
      BY <1>0, <1>8 DEF Fresh, CommitSign
    <2>2. /\ case'.status = IF case.status \in ConsentEligible THEN "CONSENT_SIGNED"
                                                             ELSE case.status
          /\ reported' = case'.status /\ Represented(case') = Represented(case)
      BY <1>0, <1>8, <2>1 DEF CommitSign, Cases, Represented
    <2>3. MapNext
      BY <2>1, <2>2 DEF MapNext, Paid
    <2>4. QED
      BY <1>0, <1>d, <2>1, <2>2, <2>3 DEF SerialRest
  <1>9. ASSUME NEW closeCase \in BOOLEAN, BeginPayout(r, closeCase)
        PROVE  SerialRest /\ MapNext
    <2> DEFINE s == [ Idle EXCEPT !.stage = "pay", !.snap = OnlyStatus(case),
                                  !.after = IF closeCase THEN "close" ELSE "done" ]
    <2>1. s.stage = "pay" /\ s.snap = OnlyStatus(case) /\ s.after # "record"
      BY <1>i DEF RequestStates
    <2>2. \A q \in Requests : req'[q] = s
      BY <1>0, <1>9, SerialSet DEF BeginPayout
    <2>3. \A q \in Requests : Fresh(req[q])'
      BY <1>9, <1>o, <2>1, <2>2 DEF Fresh, BeginPayout, Represented
    <2>4. QED
      BY <1>9, <1>u, <2>3 DEF BeginPayout, SerialRest
  <1>10. ASSUME NEW fee \in BOOLEAN, RecordPayout(r, fee) PROVE SerialRest /\ MapNext
    <2> DEFINE s == [ req[r] EXCEPT !.stage = "again", !.to = "PAYOUT_CONFIRMED" ]
    <2>1. s.stage = "again" /\ s.after = req[r].after
      BY <1>0 DEF RequestStates
    <2>2. /\ case' = case /\ consent' = consent /\ closures' = closures
          /\ reported' = reported /\ req[r].stage = "pay"
          /\ payouts' = Append(payouts, [ fee |-> fee ])
      BY <1>10 DEF RecordPayout
    <2>3. Paid'
      <3>1. payouts \in Seq([ fee : BOOLEAN ])
        BY <1>0 DEF TypeOK
      <3>2. Len(payouts') = Len(payouts) + 1 /\ Len(payouts) \in Nat
        BY <2>2, <3>1
      <3>3. QED
        BY <3>2 DEF Paid
    <2>4. MapNext
      BY <1>0, <2>2, <2>3 DEF MapNext, Fresh, Paid
    <2>5. \A q \in Requests : Fresh(req[q])'
      <3>1. req[r].after # "record"
        BY <1>0, <2>2 DEF Fresh
      <3>2. CASE Set(r, s)
        <4>1. \A q \in Requests : req'[q] = s
          BY <1>0, <3>2, SerialSet
        <4>2. QED
          BY <2>1, <3>1, <4>1 DEF Fresh
      <3>3. CASE Set(r, AfterTransition(req[r]))
        <4>1. \A q \in Requests : req'[q] = AfterTransition(req[r])
          BY <1>0, <3>3, SerialSet
        <4>2. QED
          BY <1>a, <3>1, <4>1 DEF Fresh
      <3>4. CASE Drop(r)
        BY <1>d, <3>4
      <3>5. QED
        BY <1>10, <3>2, <3>3, <3>4 DEF RecordPayout, Drop
    <2>6. QED
      BY <1>0, <2>2, <2>4, <2>5 DEF SerialRest
  <1>11. ASSUME BeginSubmission(r) PROVE SerialRest /\ MapNext
    <2> DEFINE s == [ Idle EXCEPT !.stage = "upload", !.snap = OnlyStatus(case),
                                  !.after = "record" ]
    <2>1. s.stage = "upload" /\ s.snap = OnlyStatus(case) /\ s.after = "record"
      BY <1>i DEF RequestStates
    <2>2. \A q \in Requests : req'[q] = s
      BY <1>0, <1>11, SerialSet DEF BeginSubmission
    <2>3. \A q \in Requests : Fresh(req[q])'
      BY <1>11, <1>o, <2>1, <2>2 DEF Fresh, BeginSubmission
    <2>4. QED
      BY <1>11, <1>u, <2>3 DEF BeginSubmission, SerialRest
  <1>12. ASSUME StoreEvidence(r) PROVE SerialRest /\ MapNext
    <2> DEFINE s == [ req[r] EXCEPT !.stage = "again", !.to = "SUBMITTED_BY_PARTNER" ]
    <2>1. s.stage = "again" /\ s.to = "SUBMITTED_BY_PARTNER"
      BY <1>0 DEF RequestStates
    <2>2. /\ case' = case /\ consent' = consent /\ closures' = closures
          /\ payouts' = payouts /\ reported' = reported
          /\ req[r].stage = "upload"
      BY <1>12 DEF StoreEvidence
    <2>3. req[r].after = "record" /\ req[r].snap.status = case.status
      BY <1>0, <2>2 DEF Fresh
    <2>4. \A q \in Requests : Fresh(req[q])'
      <3>1. CASE /\ Set(r, AfterTransition(req[r])) /\ case.status \in SubmissionStatuses
                 /\ evidence'
        <4>1. \A q \in Requests : req'[q] = AfterTransition(req[r])
          BY <1>0, <3>1, SerialSet
        <4>2. QED
          BY <1>a, <2>2, <2>3, <3>1, <4>1 DEF Fresh
      <3>2. CASE Set(r, s) /\ evidence'
        <4>1. \A q \in Requests : req'[q] = s
          BY <1>0, <3>2, SerialSet
        <4>2. QED
          BY <2>1, <2>2, <3>2, <4>1 DEF Fresh
      <3>3. CASE Drop(r)
        BY <1>d, <3>3
      <3>4. QED
        BY <1>12, <2>3, <3>1, <3>2, <3>3 DEF StoreEvidence
    <2>5. MapNext
      BY <2>2 DEF MapNext, Paid
    <2>6. QED
      BY <1>0, <2>2, <2>4, <2>5 DEF SerialRest
  <1>13. ASSUME RecordSubmission(r) PROVE SerialRest /\ MapNext
    <2>1. /\ UNCHANGED << case, consent, payouts, closures, reported >> /\ Drop(r)
      BY <1>13 DEF RecordSubmission
    <2>2. MapNext
      BY <2>1 DEF MapNext, Paid
    <2>3. QED
      BY <1>0, <1>d, <2>1, <2>2 DEF SerialRest
  <1>14. ASSUME BeginClosure(r) PROVE SerialRest /\ MapNext
    <2> DEFINE s == [ Idle EXCEPT !.stage = "confirm" ]
    <2>1. s.stage = "confirm" /\ closures' = 0
      BY <1>i, <1>14 DEF RequestStates, BeginClosure
    <2>2. \A q \in Requests : req'[q] = s
      BY <1>0, <1>14, SerialSet DEF BeginClosure
    <2>3. \A q \in Requests : Fresh(req[q])'
      BY <2>1, <2>2 DEF Fresh
    <2>4. QED
      BY <1>14, <1>u, <2>3 DEF BeginClosure, SerialRest
  <1>15. ASSUME RecordClosure(r) PROVE SerialRest /\ MapNext
    <2>1. /\ UNCHANGED << case, consent, payouts, reported >> /\ Drop(r)
          /\ closures' = closures + 1 /\ req[r].stage = "confirm"
      BY <1>15 DEF RecordClosure
    <2>2. closures' <= 1
      BY <1>0, <2>1 DEF Fresh
    <2>3. MapNext
      BY <2>1 DEF MapNext, Paid
    <2>4. QED
      BY <1>0, <1>d, <2>1, <2>2, <2>3 DEF SerialRest
  <1>16. ASSUME NEW a, AssignAttorney(r, a) PROVE SerialRest /\ MapNext
    <2>1. /\ case' = [ case EXCEPT !.attorney = a ] /\ UNCHANGED << facts, reported, req >>
          /\ req[r].stage = "idle"
      BY <1>16 DEF AssignAttorney
    <2>2. case'.status = case.status
      BY <1>0, <2>1 DEF Cases
    <2>3. \A q \in Requests : req'[q].stage = "idle"
      BY <2>1 DEF Serial
    <2>4. \A q \in Requests : Fresh(req[q])'
      BY <2>3 DEF Fresh
    <2>5. MapNext
      BY <2>1, <2>2 DEF MapNext, Paid
    <2>6. QED
      BY <1>0, <2>1, <2>2, <2>4, <2>5 DEF SerialRest
  <1>17. ASSUME Abandon(r) PROVE SerialRest /\ MapNext
    BY <1>17, <1>u, <1>d DEF Abandon, SerialRest
  <1>18. QED
    BY <1>1, <1>2, <1>l, <1>3, <1>4, <1>5, <1>6, <1>7, <1>8, <1>9, <1>10, <1>11, <1>12,
       <1>13, <1>14, <1>15, <1>16, <1>17
    DEF RequestStep, TransitionStep, TriageStep, SignStep, PayoutStep, SubmissionStep,
        ClosureStep, AttorneyStep

\* The date that passes, and a stutter, change nothing the invariant speaks of.
LEMMA SerialStep ==
  ASSUME Serial, SerialInv, [Next]_vars
  PROVE  SerialInv' /\ [Workflow!Next]_(<< case.status, consent, Paid, Represented(case) >>)
  <1>1. TypeOK /\ GateInv /\ GateInv'
    BY GateStep DEF SerialInv, GateInv
  <1>2. ASSUME NEW r \in Requests, RequestStep(r) PROVE SerialRest /\ MapNext
    BY <1>1, <1>2, SerialRequestStep
  <1>3. ASSUME UNCHANGED << case, facts, reported, req >> PROVE SerialRest /\ MapNext
    <2>1. SerialRest
      BY <1>3 DEF SerialInv, SerialRest, Fresh, TimelineFaithful, ClosureOnce, facts
    <2>2. MapNext
      BY <1>3 DEF MapNext, Paid, facts
    <2>3. QED
      BY <2>1, <2>2
  <1>4. SerialRest /\ MapNext
    <2>1. CASE DatePasses
      BY <2>1, <1>3 DEF DatePasses
    <2>2. CASE UNCHANGED vars
      BY <2>2, <1>3 DEF vars, facts
    <2>3. QED
      BY <2>1, <2>2, <1>2 DEF Next
  <1>5. SerialInv'
    BY <1>1, <1>4 DEF SerialInv, SerialRest, TimelineFaithful, ClosureOnce
  <1>6. QED
    BY <1>1, <1>4, <1>5, MapStep

LEMMA SerialInvariant == Serial => (Spec => []SerialInv)
  <1> SUFFICES ASSUME Serial PROVE Spec => []SerialInv
    OBVIOUS
  <1>1. Init => SerialInv
    BY InitSerial
  <1>2. SerialInv /\ [Next]_vars => SerialInv'
    BY SerialStep
  <1>3. QED
    BY <1>1, <1>2, PTL DEF Spec

\* With one request at a time, the timeline always names the status of the case.
THEOREM SerialTimeline == Serial => (Spec => []TimelineFaithful)
  <1>1. SerialInv => TimelineFaithful
    BY DEF SerialInv
  <1>2. QED
    BY <1>1, SerialInvariant, PTL

\* With one request at a time, closure is confirmed at most once.
THEOREM SerialClosureOnce == Serial => (Spec => []ClosureOnce)
  <1>1. SerialInv => ClosureOnce
    BY DEF SerialInv
  <1>2. QED
    BY <1>1, SerialInvariant, PTL

\* With one request at a time, a submission is recorded only with its evidence and
\* in a submission status.
THEOREM SerialSubmission == Serial => (Spec => SubmissionRecordedInPlace)
  <1> SUFFICES ASSUME Serial PROVE Spec => SubmissionRecordedInPlace
    OBVIOUS
  <1>1. SerialInv /\ [Next]_vars
          => [ recorded' # recorded => evidence /\ case.status \in SubmissionStatuses ]_vars
    <2> SUFFICES ASSUME SerialInv, Next, recorded' # recorded
                 PROVE  evidence /\ case.status \in SubmissionStatuses
      BY DEF vars
    <2> USE DEF facts
    <2>1. PICK r \in Requests : RecordSubmission(r)
      <3>1. PICK r \in Requests : RequestStep(r)
        BY DEF Next, DatePasses
      <3>2. ~TransitionStep(r)
        BY DEF TransitionStep, BeginTransition, BeginNested, LookUpPayouts, Check,
            CommitTransition
      <3>3. ~TriageStep(r) /\ ~SignStep(r)
        BY DEF TriageStep, BeginTriage, CommitTriage, SignStep, BeginSign, CommitSign
      <3>4. ~PayoutStep(r) /\ ~ClosureStep(r)
        BY DEF PayoutStep, BeginPayout, RecordPayout, ClosureStep, BeginClosure, RecordClosure
      <3>5. ~AttorneyStep(r) /\ ~Abandon(r)
        BY DEF AttorneyStep, AssignAttorney, Abandon
      <3>6. QED
        BY <3>1, <3>2, <3>3, <3>4, <3>5
        DEF RequestStep, SubmissionStep, BeginSubmission, StoreEvidence
    <2>2. Fresh(req[r]) /\ req[r].stage = "record"
      BY <2>1 DEF SerialInv, RecordSubmission
    <2>3. QED
      BY <2>2 DEF Fresh
  <1>2. QED
    BY <1>1, SerialInvariant, PTL DEF Spec, SubmissionRecordedInPlace

\* With one request at a time, the handlers implement the workflow: no edge outside
\* the table but the escalation of Tier C, and every gate open when it is passed.
THEOREM SerialRefinement == Serial => (Spec => ImplementsWorkflow)
  <1> SUFFICES ASSUME Serial PROVE Spec => ImplementsWorkflow
    OBVIOUS
  <1>1. Init => Workflow!Init
    BY InitSerial
  <1>2. SerialInv /\ [Next]_vars => [Workflow!Next]_(Workflow!wfVars)
    BY SerialStep DEF Workflow!wfVars
  <1>3. QED
    BY <1>1, <1>2, SerialInvariant, PTL DEF Spec, ImplementsWorkflow, Workflow!Spec
=============================================================================
