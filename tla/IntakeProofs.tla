---------------------------- MODULE IntakeProofs -----------------------------
(***************************************************************************)
(* Theorems about CaseIntake, for any number of createCase calls and any   *)
(* counties, references, attempts and pages: the types of its state; one   *)
(* reference is one case and one caller's success; a mistyped reference    *)
(* makes no case; a reader who turns every page sees every case; and a     *)
(* rationale belongs to the case it is confirmed for.                      *)
(***************************************************************************)
EXTENDS CaseIntake, FiniteSetTheorems, SequenceTheorems, WellFoundedInduction, TLAPS

Rows(ref, rationale) ==
  [ref : {ref}, status : {"DISCOVERED", "TRIAGED"}, tier : {"LOW", "MEDIUM", "HIGH"},
   confirmed : BOOLEAN, rationale : {rationale}]

Answers == {"none", "invalid", "conflict", "not enabled", "error", "created"}

\* Cases are a sequence of rows, of whatever references and rationales.
CasesShaped ==
  /\ cases \in Seq(ToSet(cases))
  /\ \A c \in DOMAIN cases : cases[c] \in Rows(cases[c].ref, cases[c].rationale)

\* A call has an answer when it is done, and only then.
CallsShaped ==
  /\ DOMAIN req = Requests
  /\ \A r \in Requests :
       req[r].answer \in Answers /\ (req[r].answer # "none" => req[r].stage = "done")

\* What may be said of case c: nothing, what was suggested for it, or what was suggested
\* while the page was turned.
Fits(rationale, c) == rationale = None \/ rationale.of = c \/ rationale.crossed

\* The page: what it shows and what is under way fits the case that it is about.
PageSound ==
  /\ Fits(suggestion, chosen)
  /\ suggest # Quiet =>
       /\ suggest \in [stage : {"sent", "answered"}, of : {suggest.of}, tier : {"LOW", "HIGH"},
                       crossed : BOOLEAN]
       /\ suggest.of = chosen \/ suggest.crossed
  /\ confirm # Quiet =>
       /\ confirm \in [stage : {"sent", "answered"}, of : {confirm.of}, tier : Confirmable,
                       rationale : {confirm.rationale}]
       /\ Fits(confirm.rationale, confirm.of)

\* Whoever was told that a case was created finds it stored.
MadeStored == \A r \in Made : req[r].ref \in Stored

Inv == CasesShaped /\ CallsShaped /\ PageSound /\ MadeStored /\ CreatedOnce /\ RationaleOwn

------------------------------------------------------------------------------
(* Sequences of cases *)

LEMMA Appending ==
  ASSUME NEW S, NEW s \in Seq(S), NEW x, NEW t, t = Append(s, x)
  PROVE  /\ t \in Seq(S \cup {x})
         /\ Len(s) \in Nat /\ DOMAIN s = 1..Len(s)
         /\ Len(t) = Len(s) + 1
         /\ DOMAIN t = 1..(Len(s) + 1)
         /\ \A i \in 1..Len(s) : t[i] = s[i]
         /\ t[Len(s) + 1] = x
  <1>1. s \in Seq(S \cup {x})
    OBVIOUS
  <1> QED
    BY <1>1

LEMMA Shaped ==
  ASSUME NEW S, NEW s \in Seq(S)
  PROVE  s \in Seq(ToSet(s))
  BY DEF ToSet

\* Rows are rewritten; references stay.
LEMMA Rewriting ==
  ASSUME CasesShaped, NEW k, NEW row,
         k \in DOMAIN cases => row \in Rows(cases[k].ref, row.rationale),
         cases' = [cases EXCEPT ![k] = row]
  PROVE  /\ CasesShaped'
         /\ DOMAIN cases' = DOMAIN cases /\ Len(cases') = Len(cases)
         /\ \A c \in DOMAIN cases : cases'[c].ref = cases[c].ref
         /\ \A c \in DOMAIN cases : cases'[c] = IF c = k THEN row ELSE cases[c]
         /\ Stored' = Stored
  <1>1. cases \in Seq(ToSet(cases)) /\ DOMAIN cases = 1..Len(cases) /\ Len(cases) \in Nat
    BY DEF CasesShaped
  <1>2. \A c \in DOMAIN cases : cases'[c] = IF c = k THEN row ELSE cases[c]
    BY <1>1
  <1>3. PICK S : cases' \in Seq(S)
    <2>1. PICK T : cases \in Seq(T)
      BY <1>1
    <2> DEFINE n == Len(cases)
    <2>2. n \in Nat /\ cases \in [1..n -> T]
      BY <1>1, <2>1
    <2> HIDE DEF n
    <2>3. cases' \in [1..n -> T \cup {row}]
      BY <2>2
    <2>4. cases' \in Seq(T \cup {row})
      BY <2>2, <2>3
    <2> QED
      BY <2>4
  <1>4. DOMAIN cases' = DOMAIN cases /\ Len(cases') = Len(cases)
    BY <1>1
  <1>5. \A c \in DOMAIN cases : cases'[c].ref = cases[c].ref
    BY <1>2 DEF Rows
  <1>6. CasesShaped'
    <2>1. cases' \in Seq(ToSet(cases'))
      BY <1>3, Shaped
    <2>2. \A c \in DOMAIN cases' : cases'[c] \in Rows(cases'[c].ref, cases'[c].rationale)
      BY <1>2, <1>4, <1>5 DEF CasesShaped
    <2> QED
      BY <2>1, <2>2 DEF CasesShaped
  <1>7. Stored' = Stored
    BY <1>4, <1>5 DEF Stored
  <1> QED
    BY <1>2, <1>4, <1>5, <1>6, <1>7
------------------------------------------------------------------------------
(* What steps of one part leave alone *)

LEMMA MadeFinite == IsFiniteSet(Made) /\ Cardinality(Made) \in Nat
  <1>1. Made \subseteq Requests
    BY DEF Made
  <1> QED
    BY <1>1, FS_Subset, FS_CardinalityType, RequestAssumption

LEMMA Injective ==
  ASSUME IsInjective([c \in DOMAIN cases |-> cases[c].ref])
  PROVE  \A c, d \in DOMAIN cases : cases[c].ref = cases[d].ref => c = d
  BY DEF IsInjective

\* A call goes on, or gets another answer than that its case was created.
LEMMA CallKeeps ==
  ASSUME Inv, NEW r \in Requests, NEW stage, NEW ref, NEW meant, NEW tries,
         NEW answer \in Answers \ {"created"},
         SetRequest(r, stage, ref, meant, tries, answer),
         answer # "none" => stage = "done",
         req[r].stage # "done",
         UNCHANGED <<cases, chosen, suggestion, suggest, confirm>>
  PROVE  Inv'
  <1>1. /\ DOMAIN req' = Requests
        /\ req'[r].answer = answer /\ req'[r].stage = stage
        /\ \A q \in Requests : q # r => req'[q] = req[q]
    BY DEF SetRequest, Inv, CallsShaped
  <1>2. req[r].answer = "none"
    BY DEF Inv, CallsShaped
  <1>3. CallsShaped'
    BY <1>1 DEF Inv, CallsShaped
  <1>4. Made' = Made /\ \A q \in Made : req'[q] = req[q]
    BY <1>1, <1>2 DEF Made
  <1>5. MadeStored'
    BY <1>4 DEF Inv, MadeStored, Stored
  <1>6. CreatedOnce'
    BY <1>4 DEF Inv, CreatedOnce
  <1>7. CasesShaped' /\ PageSound' /\ RationaleOwn'
    BY DEF Inv, CasesShaped, PageSound, RationaleOwn, Fits, Rows
  <1> QED
    BY <1>3, <1>5, <1>6, <1>7 DEF Inv

LEMMA PageKeeps ==
  ASSUME Inv, UNCHANGED <<cases, req>>, PageSound'
  PROVE  Inv'
  <1>1. Made' = Made /\ Stored' = Stored
    BY DEF Made, Stored
  <1>2. MadeStored' /\ CreatedOnce' /\ CallsShaped'
    BY <1>1 DEF Inv, MadeStored, CreatedOnce, CallsShaped
  <1>3. CasesShaped' /\ RationaleOwn'
    BY DEF Inv, CasesShaped, RationaleOwn, Rows
  <1> QED
    BY <1>2, <1>3 DEF Inv

LEMMA RowKeeps ==
  ASSUME Inv, NEW k, NEW row, cases' = [cases EXCEPT ![k] = row],
         k \in DOMAIN cases => row \in Rows(cases[k].ref, row.rationale)
                                 /\ (row.rationale = cases[k].rationale \/ Fits(row.rationale, k)),
         req' = req, PageSound'
  PROVE  Inv'
  <1>1. /\ CasesShaped'
        /\ DOMAIN cases' = DOMAIN cases /\ Len(cases') = Len(cases)
        /\ \A c \in DOMAIN cases : cases'[c].ref = cases[c].ref
        /\ \A c \in DOMAIN cases : cases'[c] = IF c = k THEN row ELSE cases[c]
        /\ Stored' = Stored
    BY Rewriting DEF Inv
  <1>2. Made' = Made /\ CallsShaped' /\ MadeStored'
    BY <1>1 DEF Made, Inv, CallsShaped, MadeStored
  <1>3. CreatedOnce'
    <2>1. [c \in DOMAIN cases' |-> cases'[c].ref] = [c \in DOMAIN cases |-> cases[c].ref]
      BY <1>1
    <2> QED
      BY <1>1, <1>2, <2>1 DEF Inv, CreatedOnce
  <1>4. RationaleOwn'
    <2> SUFFICES ASSUME NEW c \in DOMAIN cases
                 PROVE  Fits(cases'[c].rationale, c)
      BY <1>1 DEF RationaleOwn, Fits
    <2>1. Fits(cases[c].rationale, c)
      BY DEF Inv, RationaleOwn, Fits
    <2> QED
      BY <1>1, <2>1
  <1> QED
    BY <1>1, <1>2, <1>3, <1>4 DEF Inv

------------------------------------------------------------------------------
(* createCase *)

LEMMA GiveRefKeeps ==
  ASSUME Inv, NEW r \in Requests, NEW meant, NEW ref, GiveRef(r, meant, ref)
  PROVE  Inv'
  <1>1. req[r].stage # "done" /\ UNCHANGED <<cases, chosen, suggestion, suggest, confirm>>
    BY DEF GiveRef, triage
  <1>2. \/ SetRequest(r, "done", ref, meant, req[r].tries, "invalid")
        \/ SetRequest(r, "done", ref, meant, req[r].tries, "conflict")
        \/ SetRequest(r, "resolved", ref, meant, req[r].tries, "none")
    BY DEF GiveRef, AnswerTo
  <1> QED
    BY <1>1, <1>2, CallKeeps DEF Answers

LEMMA GenerateKeeps ==
  ASSUME Inv, NEW r \in Requests, NEW jur, NEW block, Generate(r, jur, block)
  PROVE  Inv'
  <1> DEFINE ref == Generated(jur, block)
  <1>1. req[r].stage # "done" /\ UNCHANGED <<cases, chosen, suggestion, suggest, confirm>>
    BY DEF Generate, triage
  <1>2. \/ SetRequest(r, "done", ref, NoRef, req[r].tries, "conflict")
        \/ SetRequest(r, "generating", ref, NoRef, req[r].tries + 1, "none")
        \/ SetRequest(r, "done", ref, NoRef, req[r].tries, "invalid")
        \/ SetRequest(r, "resolved", ref, NoRef, req[r].tries, "none")
    BY DEF Generate, AnswerTo
  <1> HIDE DEF ref
  <1> QED
    BY <1>1, <1>2, CallKeeps DEF Answers

LEMMA CreateKeeps ==
  ASSUME Inv, NEW r \in Requests, Create(r)
  PROVE  Inv'
  <1> PICK ref : ref = req[r].ref
    OBVIOUS
  <1> PICK meant : meant = req[r].meant
    OBVIOUS
  <1> PICK tries : tries = req[r].tries
    OBVIOUS
  <1>1. req[r].stage = "resolved" /\ UNCHANGED <<chosen, suggestion, suggest, confirm>>
    BY DEF Create, triage
  <1>2. ASSUME cases' = cases,
               NEW answer \in {"not enabled", "error"},
               SetRequest(r, "done", ref, meant, tries, answer)
        PROVE  Inv'
    BY <1>1, <1>2, CallKeeps DEF Answers
  <1>3. CASE /\ ref \notin Stored
             /\ cases' = Append(cases, NewCase(ref))
             /\ SetRequest(r, "done", ref, meant, tries, "created")
    <2>1. /\ DOMAIN req' = Requests /\ req'[r].answer = "created" /\ req'[r].stage = "done"
          /\ req'[r].ref = ref
          /\ \A q \in Requests : q # r => req'[q] = req[q]
      BY <1>3 DEF SetRequest, Inv, CallsShaped
    <2>2. r \notin Made
      BY <1>1 DEF Made, Inv, CallsShaped
    <2>3. Made' = Made \cup {r}
      BY <2>1 DEF Made
    <2>4. cases \in Seq(ToSet(cases))
      BY DEF Inv, CasesShaped
    <2> DEFINE n == Len(cases)
    <2>5. /\ n \in Nat /\ DOMAIN cases = 1..n
          /\ Len(cases') = n + 1 /\ DOMAIN cases' = 1..(n + 1)
          /\ \A i \in 1..n : cases'[i] = cases[i]
          /\ cases'[n + 1] = NewCase(ref)
          /\ \E S : cases' \in Seq(S)
      <3>1. PICK S : cases \in Seq(S)
        BY <2>4
      <3>2. PICK row : row = NewCase(ref)
        OBVIOUS
      <3>3. cases' = Append(cases, row)
        BY <1>3, <3>2
      <3>4. /\ cases' \in Seq(S \cup {row})
            /\ Len(cases) \in Nat /\ DOMAIN cases = 1..Len(cases)
            /\ Len(cases') = Len(cases) + 1
            /\ DOMAIN cases' = 1..(Len(cases) + 1)
            /\ \A i \in 1..Len(cases) : cases'[i] = cases[i]
            /\ cases'[Len(cases) + 1] = row
        BY <3>1, <3>3, Appending
      <3> QED
        BY <3>2, <3>4
    <2> HIDE DEF n
    <2>6. /\ NewCase(ref) \in Rows(ref, None)
          /\ NewCase(ref).ref = ref /\ NewCase(ref).rationale = None
      BY DEF NewCase, Rows
    <2>7. CasesShaped'
      <3>1. cases' \in Seq(ToSet(cases'))
        BY <2>5, Shaped
      <3>2. \A c \in DOMAIN cases' : cases'[c] \in Rows(cases'[c].ref, cases'[c].rationale)
        BY <2>5, <2>6 DEF Inv, CasesShaped
      <3> QED
        BY <3>1, <3>2 DEF CasesShaped
    <2>8. CallsShaped'
      BY <2>1 DEF Inv, CallsShaped, Answers
    <2>9. Stored' = Stored \cup {ref}
      BY <2>5, <2>6 DEF Stored
    <2>10. MadeStored'
      BY <2>1, <2>2, <2>3, <2>9 DEF Inv, MadeStored, Made
    <2>11. CreatedOnce'
      <3>1. \A c, d \in DOMAIN cases' : cases'[c].ref = cases'[d].ref => c = d
        <4>1. \A c, d \in 1..n : cases[c].ref = cases[d].ref => c = d
          BY <2>5, Injective DEF Inv, CreatedOnce
        <4>2. \A c \in 1..n : cases[c].ref # ref
          BY <1>3, <2>5 DEF Stored
        <4> QED
          BY <2>5, <2>6, <4>1, <4>2
      <3>2. IsInjective([c \in DOMAIN cases |-> cases[c].ref])'
        BY <3>1 DEF IsInjective
      <3>3. \A q, s \in Made' : q # s => req'[q].ref # req'[s].ref
        <4>1. \A q \in Made : req'[q].ref = req[q].ref /\ req[q].ref \in Stored
          BY <2>1, <2>2 DEF Inv, MadeStored, Made
        <4> QED
          BY <1>3, <2>1, <2>3, <4>1 DEF Inv, CreatedOnce
      <3>4. Cardinality(Made') = Cardinality(Made) + 1
        BY <2>2, <2>3, MadeFinite, FS_AddElement
      <3>5. Len(cases) = Len(Earlier) + Cardinality(Made)
        BY DEF Inv, CreatedOnce
      <3>6. Len(Earlier) \in Nat
        BY EarlierAssumption
      <3>7. Len(cases') = Len(Earlier) + Cardinality(Made')
        BY <2>5, <3>4, <3>5, <3>6, MadeFinite DEF n
      <3> QED
        BY <3>2, <3>3, <3>7 DEF CreatedOnce
    <2>12. RationaleOwn'
      BY <2>5, <2>6 DEF Inv, RationaleOwn
    <2>13. PageSound'
      BY <1>1 DEF Inv, PageSound, Fits
    <2> QED
      BY <2>7, <2>8, <2>10, <2>11, <2>12, <2>13 DEF Inv
  <1> QED
    BY <1>2, <1>3 DEF Create, AnswerTo, Unique
------------------------------------------------------------------------------
(* The list *)

LEMMA MoveOnKeeps ==
  ASSUME Inv, NEW c \in DOMAIN cases, MoveOn(c)
  PROVE  Inv'
  <1>1. cases[c] \in Rows(cases[c].ref, cases[c].rationale)
    BY DEF Inv, CasesShaped
  <1> DEFINE row == [cases[c] EXCEPT !.status = "TRIAGED"]
  <1>2. row \in Rows(cases[c].ref, row.rationale) /\ row.rationale = cases[c].rationale
    BY <1>1 DEF Rows
  <1>3. cases' = [cases EXCEPT ![c] = row]
    BY DEF MoveOn
  <1> HIDE DEF row
  <1>4. req' = req /\ PageSound'
    BY DEF MoveOn, triage, Inv, PageSound, Fits
  <1> QED
    BY <1>2, <1>3, <1>4, RowKeeps

------------------------------------------------------------------------------
(* The triage page *)

\* Another case on screen.
LEMMA Turning ==
  ASSUME Inv, NEW c, Turned(c), confirm' = confirm
  PROVE  PageSound'
  <1>1. Fits(suggestion', chosen')
    BY DEF Turned, Fits
  <1>2. ASSUME suggest' # Quiet
        PROVE  /\ suggest' \in [stage : {"sent", "answered"}, of : {suggest'.of},
                                tier : {"LOW", "HIGH"}, crossed : BOOLEAN]
               /\ suggest'.crossed
    <2>1. suggest.stage = "none" => suggest = Quiet
      BY DEF Inv, PageSound
    <2>2. suggest # Quiet /\ suggest' = [suggest EXCEPT !.crossed = TRUE]
      BY <1>2, <2>1 DEF Turned, Crossed, Quiet
    <2>3. suggest \in [stage : {"sent", "answered"}, of : {suggest.of}, tier : {"LOW", "HIGH"},
                       crossed : BOOLEAN]
      BY <2>2 DEF Inv, PageSound
    <2> QED
      BY <2>2, <2>3
  <1> QED
    BY <1>1, <1>2 DEF Inv, PageSound, Fits

LEMMA ScreenKeeps ==
  ASSUME Inv, UNCHANGED <<chosen, suggestion, suggest, confirm>>
  PROVE  PageSound'
  BY DEF Inv, PageSound, Fits

LEMMA InboxKeeps ==
  ASSUME Inv, NEW k, RefreshInbox \/ ReadInbox(k) \/ ShowInbox(k) \/ LoseInbox(k)
  PROVE  Inv'
  <1>1. UNCHANGED <<cases, req, confirm>>
    BY DEF RefreshInbox, ReadInbox, ShowInbox, LoseInbox
  <1>2. CASE UNCHANGED <<chosen, suggestion, suggest>>
    BY <1>1, <1>2, ScreenKeeps, PageKeeps
  <1>3. CASE ShowInbox(k)
    <2>1. \E c : Turned(c)
      BY <1>3 DEF ShowInbox
    <2> QED
      BY <1>1, <2>1, Turning, PageKeeps
  <1> QED
    BY <1>2, <1>3 DEF RefreshInbox, ReadInbox, LoseInbox

LEMMA PickCaseKeeps ==
  ASSUME Inv, NEW c, PickCase(c)
  PROVE  Inv'
  BY Turning, PageKeeps DEF PickCase

LEMMA RequestSuggestionKeeps ==
  ASSUME Inv, NEW signals, RequestSuggestion(signals)
  PROVE  Inv'
  <1>1. /\ UNCHANGED <<cases, req, chosen, suggestion, confirm>>
        /\ suggest' = [stage |-> "sent", of |-> chosen, tier |-> Suggested(signals),
                       crossed |-> FALSE]
    BY DEF RequestSuggestion
  <1>2. Suggested(signals) \in {"LOW", "HIGH"}
    BY DEF Suggested
  <1>3. /\ suggest' \in [stage : {"sent", "answered"}, of : {suggest'.of}, tier : {"LOW", "HIGH"},
                         crossed : BOOLEAN]
        /\ suggest'.of = chosen
    BY <1>1, <1>2
  <1>4. PageSound'
    BY <1>1, <1>3 DEF Inv, PageSound, Fits
  <1> QED
    BY <1>1, <1>4, PageKeeps

LEMMA ServeSuggestionKeeps ==
  ASSUME Inv, ServeSuggestion
  PROVE  Inv'
  <1> PICK k : k = suggest.of
    OBVIOUS
  <1>1. /\ suggest \in [stage : {"sent", "answered"}, of : {k}, tier : {"LOW", "HIGH"},
                        crossed : BOOLEAN]
        /\ k = chosen \/ suggest.crossed
    BY DEF ServeSuggestion, Quiet, Inv, PageSound
  <1>2. /\ suggest' = [suggest EXCEPT !.stage = "answered"]
        /\ UNCHANGED <<req, chosen, suggestion, confirm>>
    BY DEF ServeSuggestion
  <1>3. PageSound'
    <2>1. /\ suggest' \in [stage : {"sent", "answered"}, of : {k}, tier : {"LOW", "HIGH"},
                           crossed : BOOLEAN]
          /\ suggest'.of = k /\ suggest'.crossed = suggest.crossed
      BY <1>1, <1>2
    <2> QED
      BY <1>1, <1>2, <2>1 DEF Inv, PageSound, Fits
  <1> DEFINE row == [cases[k] EXCEPT !.tier = suggest.tier]
  <1>4. cases' = [cases EXCEPT ![k] = row]
    BY DEF ServeSuggestion
  <1>5. k \in DOMAIN cases => row \in Rows(cases[k].ref, row.rationale)
                               /\ row.rationale = cases[k].rationale
    BY <1>1 DEF Inv, CasesShaped, Rows
  <1> HIDE DEF row
  <1> QED
    BY <1>2, <1>3, <1>4, <1>5, RowKeeps

LEMMA ShowSuggestionKeeps ==
  ASSUME Inv, ShowSuggestion
  PROVE  Inv'
  <1>1. suggest' = Quiet /\ UNCHANGED <<cases, req, chosen, confirm>> /\ suggest # Quiet
    BY DEF ShowSuggestion, Quiet
  <1>2. Fits(suggestion', chosen)
    <2>1. CASE suggestion' = [of |-> suggest.of, crossed |-> suggest.crossed]
      <3>1. suggest.of = chosen \/ suggest.crossed
        BY <1>1 DEF Inv, PageSound
      <3>2. suggestion'.of = suggest.of /\ suggestion'.crossed = suggest.crossed
        BY <2>1
      <3> QED
        BY <3>1, <3>2 DEF Fits
    <2>2. CASE suggestion' = suggestion
      BY <2>2 DEF Inv, PageSound
    <2> QED
      BY <2>1, <2>2 DEF ShowSuggestion
  <1>3. PageSound'
    BY <1>1, <1>2 DEF Inv, PageSound, Fits
  <1> QED
    BY <1>1, <1>3, PageKeeps

LEMMA SendConfirmKeeps ==
  ASSUME Inv, NEW tier \in Confirmable, SendConfirm(tier)
  PROVE  Inv'
  <1>1. /\ UNCHANGED <<cases, req, chosen, suggestion, suggest>>
        /\ confirm' = [stage |-> "sent", of |-> chosen, tier |-> tier, rationale |-> suggestion]
    BY DEF SendConfirm
  <1>2. /\ confirm' \in [stage : {"sent", "answered"}, of : {confirm'.of}, tier : Confirmable,
                         rationale : {confirm'.rationale}]
        /\ confirm'.of = chosen /\ confirm'.rationale = suggestion
    BY <1>1
  <1>3. Fits(confirm'.rationale, confirm'.of)
    BY <1>2 DEF Inv, PageSound
  <1>4. PageSound'
    BY <1>1, <1>2, <1>3 DEF Inv, PageSound, Fits
  <1> QED
    BY <1>1, <1>4, PageKeeps

LEMMA ServeConfirmKeeps ==
  ASSUME Inv, ServeConfirm
  PROVE  Inv'
  <1> PICK k : k = confirm.of
    OBVIOUS
  <1> PICK rationale : rationale = confirm.rationale
    OBVIOUS
  <1>1. /\ confirm \in [stage : {"sent", "answered"}, of : {k}, tier : Confirmable,
                        rationale : {rationale}]
        /\ Fits(rationale, k)
    BY DEF ServeConfirm, Quiet, Inv, PageSound
  <1>2. /\ confirm' = [confirm EXCEPT !.stage = "answered"]
        /\ UNCHANGED <<req, chosen, suggestion, suggest>>
    BY DEF ServeConfirm
  <1>3. PageSound'
    <2>1. /\ confirm' \in [stage : {"sent", "answered"}, of : {k}, tier : Confirmable,
                           rationale : {rationale}]
          /\ confirm'.of = k /\ confirm'.rationale = rationale
      BY <1>1, <1>2
    <2> QED
      BY <1>1, <1>2, <2>1 DEF Inv, PageSound, Fits
  <1> DEFINE row == [cases[k] EXCEPT !.tier = confirm.tier, !.confirmed = TRUE,
                                     !.rationale = confirm.rationale]
  <1>4. cases' = [cases EXCEPT ![k] = row]
    BY DEF ServeConfirm
  <1>5. ASSUME k \in DOMAIN cases
        PROVE  row \in Rows(cases[k].ref, row.rationale) /\ row.rationale = rationale
    <2>1. cases[k] \in Rows(cases[k].ref, cases[k].rationale)
      BY <1>5 DEF Inv, CasesShaped
    <2>2. confirm.tier \in Confirmable /\ confirm.rationale = rationale
      BY <1>1
    <2>3. row \in Rows(cases[k].ref, rationale) /\ row.rationale = rationale
      BY <2>1, <2>2, IntakeConstants DEF Rows
    <2> QED
      BY <2>3
  <1> HIDE DEF row
  <1> QED
    BY <1>1, <1>2, <1>3, <1>4, <1>5, RowKeeps

LEMMA ShowConfirmKeeps ==
  ASSUME Inv, ShowConfirm
  PROVE  Inv'
  <1>1. confirm' = Quiet /\ UNCHANGED <<cases, req, chosen, suggest>>
        /\ (suggestion' = None \/ suggestion' = suggestion)
    BY DEF ShowConfirm
  <1>2. PageSound'
    BY <1>1 DEF Inv, PageSound, Fits
  <1> QED
    BY <1>1, <1>2, PageKeeps

------------------------------------------------------------------------------
(* The invariant *)

LEMMA InitInv ==
  ASSUME Init
  PROVE  Inv
  <1>1. Len(Earlier) \in Nat /\ DOMAIN Earlier = 1..Len(Earlier)
    BY EarlierAssumption
  <1>2. /\ DOMAIN cases = DOMAIN Earlier
        /\ \A c \in DOMAIN cases : cases[c] = NewCase(Earlier[c])
    BY DEF Init
  <1>3. \A ref : /\ NewCase(ref) \in Rows(ref, None)
                 /\ NewCase(ref).ref = ref /\ NewCase(ref).rationale = None
    BY DEF NewCase, Rows
  <1>4. CasesShaped
    <2> PICK n \in Nat : n = Len(Earlier)
      BY <1>1
    <2> PICK S : S = { NewCase(Earlier[c]) : c \in 1..n }
      OBVIOUS
    <2>1. cases \in [1..n -> S]
      BY <1>1 DEF Init
    <2>2. cases \in Seq(S)
      BY <2>1
    <2>3. cases \in Seq(ToSet(cases))
      BY <2>2, Shaped
    <2> QED
      BY <1>2, <1>3, <2>3 DEF CasesShaped
  <1>5. CallsShaped /\ Made = {}
    BY DEF Init, Idle, CallsShaped, Answers, Made
  <1>6. PageSound
    BY DEF Init, PageSound, Fits
  <1>7. CreatedOnce
    <2>1. IsInjective([c \in DOMAIN cases |-> cases[c].ref])
      BY <1>2, <1>3, EarlierAssumption DEF IsInjective
    <2>2. Len(cases) = Len(Earlier) /\ Cardinality({}) = 0
      BY <1>1, <1>2, <1>4, FS_EmptySet DEF CasesShaped
    <2> QED
      BY <1>1, <1>5, <2>1, <2>2 DEF CreatedOnce
  <1>8. MadeStored /\ RationaleOwn
    BY <1>2, <1>3, <1>5 DEF MadeStored, RationaleOwn
  <1> QED
    BY <1>4, <1>5, <1>6, <1>7, <1>8 DEF Inv

LEMMA StepInv ==
  ASSUME Inv, [Next]_vars
  PROVE  Inv'
  <1>1. CASE Intake
    BY <1>1, GiveRefKeeps, GenerateKeeps, CreateKeeps DEF Intake
  <1>2. CASE Walking
    <2>1. CASE \E c \in DOMAIN cases : MoveOn(c)
      BY <2>1, MoveOnKeeps
    <2>2. CASE UNCHANGED <<cases, req, triage>>
      BY <2>2, ScreenKeeps, PageKeeps DEF triage
    <2> QED
      BY <1>2, <2>1, <2>2 DEF Walking, StartWalk, CountPage, FindPage, NextPage
  <1>3. CASE Triaging
    BY <1>3, InboxKeeps, PickCaseKeeps, RequestSuggestionKeeps, ServeSuggestionKeeps,
       ShowSuggestionKeeps, SendConfirmKeeps, ServeConfirmKeeps, ShowConfirmKeeps DEF Triaging
  <1>4. CASE UNCHANGED vars
    BY <1>4, ScreenKeeps, PageKeeps DEF vars, triage
  <1> QED
    BY <1>1, <1>2, <1>3, <1>4 DEF Next

\* The inductive invariant holds in every reachable state.
THEOREM Invariance == Spec => []Inv
  BY InitInv, StepInv, PTL DEF Spec

\* However many createCase calls race for a reference, given or drawn, it is one case and
\* one caller is told that it was created.
THEOREM CreatedOnceHolds == Spec => []CreatedOnce
  <1>1. Inv => CreatedOnce
    BY DEF Inv
  <1> QED
    BY <1>1, Invariance, PTL

\* The rationale confirmed for a case was suggested for it, or while the page was turned.
THEOREM RationaleOwnHolds == Spec => []RationaleOwn
  <1>1. Inv => RationaleOwn
    BY DEF Inv
  <1> QED
    BY <1>1, Invariance, PTL

------------------------------------------------------------------------------
(* The check digit *)

\* A set of natural numbers that is not empty has a least one.
LEMMA LeastNat ==
  ASSUME NEW T, T \subseteq Nat, T # {}
  PROVE  \E n \in T : \A m \in T : n <= m
  <1> DEFINE R == OpToRel(<, Nat)
  <1>1. IsWellFoundedOn(R, Nat)
    BY NatLessThanWellFounded, Zenon
  <1>2. ASSUME NEW m \in Nat, NEW n \in Nat, m < n PROVE << m, n >> \in R
    <2>1. << m, n >> \in Nat \X Nat /\ << m, n >>[1] < << m, n >>[2]
      BY <1>2
    <2>2. QED
      BY <2>1, Zenon DEF OpToRel
  <1> HIDE DEF R
  <1>3. PICK n \in T : \A m \in T : << m, n >> \notin R
    BY <1>1, WFMin
  <1>4. \A m \in T : ~ (m < n)
    BY <1>2, <1>3
  <1>5. QED
    BY <1>4

Value == 0..35

\* The accumulators of computeCheckDigit over core.
Accumulates(acc, core) ==
  acc = [n \in 0..Len(core) |-> IF n = 0 THEN 0 ELSE (acc[n - 1] * 31 + core[n]) % 36]

\* One step: other accumulators or other symbols, but not both, are told apart.
LEMMA Multiplier ==
  ASSUME NEW a \in Value, NEW b \in Value, NEW v \in Value, NEW w \in Value
  PROVE  /\ (a * 31 + v) % 36 \in Value
         /\ (a * 31 + v) % 36 = (b * 31 + v) % 36 => a = b
         /\ (a * 31 + v) % 36 = (a * 31 + w) % 36 => v = w
  BY DEF Value

\* The recursive definition has a solution: by the least length that had none.
LEMMA Accumulators ==
  ASSUME NEW core \in Seq(Value)
  PROVE  \E acc : Accumulates(acc, core)
  <1> DEFINE Upto(m, g) ==
               g = [n \in 0..m |-> IF n = 0 THEN 0 ELSE (g[n - 1] * 31 + core[n]) % 36]
             Bad == { m \in 0..Len(core) : \A g : ~ Upto(m, g) }
  <1>1. Len(core) \in Nat
    OBVIOUS
  <1>2. ASSUME Bad # {}
        PROVE  FALSE
    <2>1. PICK m \in Bad : \A n \in Bad : m <= n
      <3>1. Bad \subseteq Nat
        BY <1>1
      <3> HIDE DEF Bad
      <3> QED
        BY <1>2, <3>1, LeastNat
    <2>2. m \in 0..Len(core) /\ m \in Nat /\ \A g : ~ Upto(m, g)
      BY <1>1
    <2>3. CASE m = 0
      <3> DEFINE g == [n \in 0..0 |-> 0]
      <3>1. g = [n \in 0..0 |-> IF n = 0 THEN 0 ELSE (g[n - 1] * 31 + core[n]) % 36]
        OBVIOUS
      <3> HIDE DEF g
      <3> QED
        BY <2>2, <2>3, <3>1
    <2>4. CASE m # 0
      <3>1. m - 1 \in 0..Len(core) /\ m - 1 \in Nat
        BY <1>1, <2>2, <2>4
      <3>2. m - 1 \notin Bad
        <4> HIDE DEF Bad
        <4> QED
          BY <2>1, <2>2, <3>1
      <3>3. PICK g : Upto(m - 1, g)
        BY <3>1, <3>2
      <3> DEFINE h == [n \in 0..m |-> IF n = m THEN (g[m - 1] * 31 + core[m]) % 36 ELSE g[n]]
      <3>4. ASSUME NEW n \in 0..m
            PROVE  h[n] = IF n = 0 THEN 0 ELSE (h[n - 1] * 31 + core[n]) % 36
        <4>1. \A k \in 0..(m - 1) : g[k] = IF k = 0 THEN 0 ELSE (g[k - 1] * 31 + core[k]) % 36
          BY <3>3
        <4>2. \A k \in 0..(m - 1) : h[k] = g[k]
          BY <2>2
        <4>3. h[m] = (g[m - 1] * 31 + core[m]) % 36
          BY <2>2
        <4> HIDE DEF h
        <4>4. CASE n = m
          <5>1. m - 1 \in 0..(m - 1)
            BY <3>1
          <5>2. h[m - 1] = g[m - 1]
            BY <4>2, <5>1
          <5> QED
            BY <2>4, <4>3, <4>4, <5>2
        <4>5. CASE n = 0 /\ n # m
          <5>1. n \in 0..(m - 1)
            BY <2>2, <4>5
          <5> QED
            BY <4>1, <4>2, <4>5, <5>1
        <4>6. CASE n # 0 /\ n # m
          <5>1. n \in 0..(m - 1) /\ n - 1 \in 0..(m - 1)
            BY <2>2, <4>6
          <5>2. h[n] = (g[n - 1] * 31 + core[n]) % 36 /\ h[n - 1] = g[n - 1]
            BY <4>1, <4>2, <4>6, <5>1
          <5> QED
            BY <4>6, <5>2
        <4> QED
          BY <4>4, <4>5, <4>6
      <3>5. h = [n \in 0..m |-> h[n]]
        OBVIOUS
      <3> HIDE DEF h
      <3>6. h = [n \in 0..m |-> IF n = 0 THEN 0 ELSE (h[n - 1] * 31 + core[n]) % 36]
        BY <3>4, <3>5
      <3> QED
        BY <2>2, <3>6
    <2> QED
      BY <2>3, <2>4
  <1>3. Len(core) \in 0..Len(core) /\ Len(core) \notin Bad
    BY <1>1, <1>2
  <1>4. PICK g : Upto(Len(core), g)
    BY <1>3
  <1> QED
    BY <1>4 DEF Accumulates

LEMMA Computed ==
  ASSUME NEW core \in Seq(Value)
  PROVE  \E acc \in [0..Len(core) -> Value] :
           /\ CheckDigit(core) = acc[Len(core)]
           /\ acc[0] = 0
           /\ \A n \in 1..Len(core) : acc[n] = (acc[n - 1] * 31 + core[n]) % 36
  <1> DEFINE acc == CHOOSE a : Accumulates(a, core)
  <1>1. Accumulates(acc, core)
    BY Accumulators, Zenon
  <1>2. CheckDigit(core) = acc[Len(core)]
    BY Zenon DEF CheckDigit, Accumulates
  <1> HIDE DEF acc
  <1>3. Len(core) \in Nat /\ DOMAIN core = 1..Len(core) /\ \A n \in 1..Len(core) : core[n] \in Value
    OBVIOUS
  <1>4. /\ DOMAIN acc = 0..Len(core) /\ acc[0] = 0
        /\ \A n \in 1..Len(core) : acc[n] = (acc[n - 1] * 31 + core[n]) % 36
        /\ acc = [n \in 0..Len(core) |-> acc[n]]
    BY <1>1, <1>3 DEF Accumulates
  <1>5. \A n \in 0..Len(core) : acc[n] \in Value
    <2> DEFINE Bad == { n \in 0..Len(core) : acc[n] \notin Value }
    <2>1. ASSUME Bad # {}
          PROVE  FALSE
      <3>1. Bad \subseteq Nat
        BY <1>3
      <3>2. PICK m \in Bad : \A n \in Bad : m <= n
        <4> HIDE DEF Bad
        <4> QED
          BY <2>1, <3>1, LeastNat
      <3>3. m \in 0..Len(core) /\ m # 0 /\ m \in Nat
        BY <1>3, <1>4 DEF Value
      <3>4. m - 1 \in 0..Len(core) /\ m \in 1..Len(core) /\ ~ (m <= m - 1)
        BY <1>3, <3>3
      <3>5. acc[m - 1] \in Value
        BY <3>2, <3>4
      <3>6. acc[m] \in Value
        BY <1>3, <1>4, <3>4, <3>5, Multiplier
      <3> QED
        BY <3>6
    <2> QED
      BY <2>1
  <1>6. acc \in [0..Len(core) -> Value]
    BY <1>4, <1>5
  <1> QED
    BY <1>2, <1>4, <1>6

\* A symbol that is replaced changes the check digit, wherever it stands and however
\* long the reference is.
LEMMA OneSymbol ==
  ASSUME NEW s \in Seq(Value), NEW t \in Seq(Value), OneApart(s, t)
  PROVE  CheckDigit(s) # CheckDigit(t)
  <1>1. Len(s) = Len(t) /\ Len(s) \in Nat /\ DOMAIN s = 1..Len(s)
    BY DEF OneApart
  <1>2. PICK i \in 1..Len(s) : \A n \in 1..Len(s) : n # i <=> s[n] = t[n]
    BY <1>1 DEF OneApart
  <1>3. PICK a \in [0..Len(s) -> Value] :
          /\ CheckDigit(s) = a[Len(s)] /\ a[0] = 0
          /\ \A n \in 1..Len(s) : a[n] = (a[n - 1] * 31 + s[n]) % 36
    BY Computed
  <1>4. PICK b \in [0..Len(s) -> Value] :
          /\ CheckDigit(t) = b[Len(s)] /\ b[0] = 0
          /\ \A n \in 1..Len(s) : b[n] = (b[n - 1] * 31 + t[n]) % 36
    <2>1. \E b \in [0..Len(t) -> Value] :
            /\ CheckDigit(t) = b[Len(t)] /\ b[0] = 0
            /\ \A n \in 1..Len(t) : b[n] = (b[n - 1] * 31 + t[n]) % 36
      BY Computed
    <2>2. Len(t) = Len(s)
      BY <1>1
    <2> QED
      BY <2>1, <2>2, Zenon
  <1>5. \A n \in 1..Len(s) : s[n] \in Value /\ t[n] \in Value
    BY <1>1
  <1> PICK len \in Nat : len = Len(s)
    BY <1>1
  \* The least length at which the accumulators are not as they should be.
  <1> DEFINE Bad == { n \in 0..len : ~ (n < i <=> a[n] = b[n]) }
  <1>6. ASSUME Bad # {}
        PROVE  FALSE
    <2>1. Bad \subseteq Nat
      OBVIOUS
    <2>2. PICK m \in Bad : \A n \in Bad : m <= n
      <3> HIDE DEF Bad
      <3> QED
        BY <1>6, <2>1, LeastNat
    <2>3. m \in 0..len /\ m # 0 /\ m \in Nat /\ i \in Nat
      BY <1>2, <1>3, <1>4
    <2>4. m - 1 \in 0..len /\ m \in 1..len /\ ~ (m <= m - 1)
      BY <2>3
    <2>5. m - 1 < i <=> a[m - 1] = b[m - 1]
      BY <2>2, <2>4
    <2>6. /\ a[m] = (a[m - 1] * 31 + s[m]) % 36 /\ b[m] = (b[m - 1] * 31 + t[m]) % 36
          /\ s[m] \in Value /\ t[m] \in Value /\ a[m - 1] \in Value /\ b[m - 1] \in Value
          /\ m # i <=> s[m] = t[m]
      BY <1>2, <1>3, <1>4, <1>5, <2>4
    <2>7. CASE m = i
      <3>1. a[m - 1] = b[m - 1] /\ s[m] # t[m]
        BY <2>3, <2>5, <2>6, <2>7
      <3>2. a[m] # b[m]
        BY <2>6, <3>1, Multiplier
      <3> QED
        BY <2>3, <2>7, <3>2
    <2>8. CASE m # i
      <3>1. s[m] = t[m] /\ (m - 1 < i <=> m < i)
        BY <2>3, <2>6, <2>8
      <3>2. a[m] = b[m] <=> a[m - 1] = b[m - 1]
        BY <2>6, <3>1, Multiplier
      <3> QED
        BY <2>5, <3>1, <3>2
    <2> QED
      BY <2>7, <2>8
  <1>7. a[len] # b[len]
    <2>1. len \in 0..len /\ ~ (len < i)
      BY <1>2
    <2> QED
      BY <1>6, <2>1
  <1> QED
    BY <1>3, <1>4, <1>7

------------------------------------------------------------------------------
(* References that were mistyped *)

\* A reference that the API made has symbols, and the check digit of its core.
LEMMA MadeByApi ==
  ASSUME NEW jur \in Jurisdictions, NEW block \in [1..BlockLength -> Value],
         NEW ref, ref = Generated(jur, block)
  PROVE  /\ ref = [jur |-> jur, block |-> block, check |-> CheckDigit(Code[jur] \o block)]
         /\ Code[jur] \in Seq(Value) /\ block \in Seq(Value)
         /\ Core(ref) = Code[jur] \o block /\ Core(ref) \in Seq(Value)
         /\ ref.check = CheckDigit(Core(ref))
  <1>1. Code[jur] \in Seq(Value) /\ block \in Seq(Value)
    BY IntakeConstants DEF Value
  <1>2. ref.jur = jur /\ ref.block = block /\ ref.check = CheckDigit(Code[jur] \o block)
    BY DEF Generated
  <1>3. Core(ref) = Code[jur] \o block
    BY <1>2 DEF Core
  <1>4. Code[jur] \o block \in Seq(Value)
    BY <1>1, ConcatProperties
  <1> QED
    BY <1>1, <1>2, <1>3, <1>4 DEF Generated

\* One symbol apart in a part is one symbol apart in the whole.
LEMMA Within ==
  ASSUME NEW s \in Seq(Value), NEW t \in Seq(Value), NEW u \in Seq(Value), OneApart(s, t)
  PROVE  OneApart(s \o u, t \o u) /\ OneApart(u \o s, u \o t)
  <1>1. /\ Len(s) = Len(t) /\ Len(s) \in Nat /\ DOMAIN s = 1..Len(s)
        /\ Len(u) \in Nat
    BY DEF OneApart
  <1>2. PICK i \in 1..Len(s) : \A n \in 1..Len(s) : n # i <=> s[n] = t[n]
    BY <1>1 DEF OneApart
  <1>3. /\ Len(s \o u) = Len(s) + Len(u) /\ Len(t \o u) = Len(s) + Len(u)
        /\ s \o u \in Seq(Value) /\ t \o u \in Seq(Value)
        /\ \A n \in 1..(Len(s) + Len(u)) :
             /\ (s \o u)[n] = IF n <= Len(s) THEN s[n] ELSE u[n - Len(s)]
             /\ (t \o u)[n] = IF n <= Len(s) THEN t[n] ELSE u[n - Len(s)]
    <2>1. /\ s \o u \in Seq(Value)
          /\ Len(s \o u) = Len(s) + Len(u)
          /\ \A n \in 1..(Len(s) + Len(u)) :
               (s \o u)[n] = IF n <= Len(s) THEN s[n] ELSE u[n - Len(s)]
      BY ConcatProperties, Zenon
    <2>2. /\ t \o u \in Seq(Value)
          /\ Len(t \o u) = Len(t) + Len(u)
          /\ \A n \in 1..(Len(t) + Len(u)) :
               (t \o u)[n] = IF n <= Len(t) THEN t[n] ELSE u[n - Len(t)]
      BY ConcatProperties, Zenon
    <2>3. Len(s) = Len(t)
      BY <1>1
    <2> QED
      BY ONLY <2>1, <2>2, <2>3, Zenon
  <1>4. /\ Len(u \o s) = Len(u) + Len(s) /\ Len(u \o t) = Len(u) + Len(s)
        /\ u \o s \in Seq(Value) /\ u \o t \in Seq(Value)
        /\ \A n \in 1..(Len(u) + Len(s)) :
             /\ (u \o s)[n] = IF n <= Len(u) THEN u[n] ELSE s[n - Len(u)]
             /\ (u \o t)[n] = IF n <= Len(u) THEN u[n] ELSE t[n - Len(u)]
    <2>1. /\ u \o s \in Seq(Value)
          /\ Len(u \o s) = Len(u) + Len(s)
          /\ \A n \in 1..(Len(u) + Len(s)) :
               (u \o s)[n] = IF n <= Len(u) THEN u[n] ELSE s[n - Len(u)]
      BY ConcatProperties, Zenon
    <2>2. /\ u \o t \in Seq(Value)
          /\ Len(u \o t) = Len(u) + Len(t)
          /\ \A n \in 1..(Len(u) + Len(t)) :
               (u \o t)[n] = IF n <= Len(u) THEN u[n] ELSE t[n - Len(u)]
      BY ConcatProperties, Zenon
    <2>3. Len(s) = Len(t)
      BY <1>1
    <2> QED
      BY ONLY <2>1, <2>2, <2>3, Zenon
  <1>5. OneApart(s \o u, t \o u)
    <2> PICK x \in Seq(Value) : x = s \o u
      BY <1>3
    <2> PICK y \in Seq(Value) : y = t \o u
      BY <1>3
    <2>1. DOMAIN x = 1..(Len(s) + Len(u)) /\ Len(x) = Len(y) /\ i \in DOMAIN x
      BY <1>1, <1>2, <1>3
    <2>2. \A n \in DOMAIN x : n # i <=> x[n] = y[n]
      BY <1>1, <1>2, <1>3, <2>1
    <2> QED
      BY <2>1, <2>2 DEF OneApart
  <1>6. OneApart(u \o s, u \o t)
    <2> PICK x \in Seq(Value) : x = u \o s
      BY <1>4
    <2> PICK y \in Seq(Value) : y = u \o t
      BY <1>4
    <2>1. DOMAIN x = 1..(Len(u) + Len(s)) /\ Len(x) = Len(y) /\ Len(u) + i \in DOMAIN x
      BY <1>1, <1>2, <1>4
    <2>2. \A n \in DOMAIN x : n # Len(u) + i <=> x[n] = y[n]
      <3> SUFFICES ASSUME NEW n \in 1..(Len(u) + Len(s))
                   PROVE  n # Len(u) + i <=> x[n] = y[n]
        BY <2>1
      <3>1. CASE n <= Len(u)
        BY <1>1, <1>4, <3>1
      <3>2. CASE ~ (n <= Len(u))
        <4>1. n - Len(u) \in 1..Len(s) /\ (n # Len(u) + i <=> n - Len(u) # i)
          BY <1>1, <3>2
        <4> QED
          BY <1>2, <1>4, <3>2, <4>1
      <3> QED
        BY <3>1, <3>2
    <2> QED
      BY <2>1, <2>2 DEF OneApart
  <1> QED
    BY <1>5, <1>6

\* What parses, of what may be typed for a reference, is that reference.
LEMMA MistypedParsesNot ==
  ASSUME NEW meant \in Meant, NEW ref \in Typed(meant), Parses(ref)
  PROVE  ref = meant
  <1>1. PICK jur \in Jurisdictions, block \in [1..BlockLength -> Value] :
          meant = Generated(jur, block)
    BY ReferencesAssumption DEF Value
  <1>2. /\ meant = [jur |-> jur, block |-> block, check |-> CheckDigit(Code[jur] \o block)]
        /\ Code[jur] \in Seq(Value) /\ block \in Seq(Value)
        /\ Core(meant) = Code[jur] \o block /\ Core(meant) \in Seq(Value)
        /\ meant.check = CheckDigit(Core(meant))
    BY <1>1, MadeByApi
  <1>3. ref.check = CheckDigit(Code[ref.jur] \o ref.block)
    BY DEF Parses, Core
  <1>4. ASSUME NEW i \in 1..BlockLength, NEW s \in Symbols, ref = [meant EXCEPT !.block[i] = s]
        PROVE  ref = meant
    <2> DEFINE other == [block EXCEPT ![i] = s]
    <2>1. s \in Value
      BY IntakeConstants DEF Value
    <2>2. other \in [1..BlockLength -> Value] /\ other \in Seq(Value)
      BY <2>1, IntakeConstants
    <2>3. ref = [jur |-> jur, block |-> other, check |-> meant.check]
      BY <1>2, <1>4
    <2>4. CASE s = block[i]
      <3>1. other = block
        BY <2>2, <2>4
      <3> QED
        BY <1>2, <2>3, <3>1
    <2>5. CASE s # block[i]
      <3>1. OneApart(other, block)
        <4>1. Len(other) = BlockLength /\ Len(block) = BlockLength /\ DOMAIN other = 1..BlockLength
          BY <2>2, IntakeConstants
        <4>2. \A n \in 1..BlockLength : n # i <=> other[n] = block[n]
          BY <2>5
        <4> QED
          BY <4>1, <4>2 DEF OneApart
      <3> HIDE DEF other
      <3>2. OneApart(Code[jur] \o other, Code[jur] \o block)
        BY <1>2, <2>2, <3>1, Within
      <3>3. Code[jur] \o other \in Seq(Value) /\ Code[jur] \o block \in Seq(Value)
        BY <1>2, <2>2, ConcatProperties
      <3>4. CheckDigit(Code[jur] \o other) # CheckDigit(Code[jur] \o block)
        BY <3>2, <3>3, OneSymbol
      <3> QED
        BY <1>2, <1>3, <2>3, <3>4
    <2> QED
      BY <2>4, <2>5
  <1>5. ASSUME NEW s \in Symbols, ref = [meant EXCEPT !.check = s]
        PROVE  ref = meant
    <2>1. ref = [jur |-> jur, block |-> block, check |-> s]
      BY <1>2, <1>5
    <2>2. s = CheckDigit(Code[jur] \o block)
      BY <1>3, <2>1
    <2> QED
      BY <1>2, <2>1, <2>2
  <1>6. ASSUME NEW k \in Jurisdictions, OneApart(Code[k], Code[meant.jur]),
               ref = [meant EXCEPT !.jur = k]
        PROVE  FALSE
    <2>1. ref = [jur |-> k, block |-> block, check |-> meant.check] /\ meant.jur = jur
      BY <1>2, <1>6
    <2>2. Code[k] \in Seq(Value)
      BY IntakeConstants DEF Value
    <2>3. OneApart(Code[k] \o block, Code[jur] \o block)
      BY <1>2, <1>6, <2>1, <2>2, Within
    <2>4. Code[k] \o block \in Seq(Value) /\ Code[jur] \o block \in Seq(Value)
      BY <1>2, <2>2, ConcatProperties
    <2>5. CheckDigit(Code[k] \o block) # CheckDigit(Code[jur] \o block)
      BY <2>3, <2>4, OneSymbol
    <2> QED
      BY <1>2, <1>3, <2>1, <2>5
  <1> QED
    BY <1>4, <1>5, <1>6 DEF Typed

\* Who gave a reference typed one that they meant, and it was parsed before it was stored.
Honest(call) ==
  call.meant # NoRef =>
    /\ call.meant \in Meant /\ call.ref \in Typed(call.meant)
    /\ call.stage = "resolved" \/ call.answer = "created" => Parses(call.ref)

HonestInv == Inv /\ \A r \in Requests : Honest(req[r])

\* A call that is set is honest, and the others stay so.
LEMMA Setting ==
  ASSUME HonestInv, NEW r \in Requests, NEW stage, NEW ref, NEW meant, NEW tries, NEW answer,
         SetRequest(r, stage, ref, meant, tries, answer),
         meant # NoRef => /\ meant \in Meant /\ ref \in Typed(meant)
                          /\ stage = "resolved" \/ answer = "created" => Parses(ref)
  PROVE  \A q \in Requests : Honest(req'[q])
  <1> DEFINE call == [stage |-> stage, ref |-> ref, meant |-> meant, tries |-> tries,
                      answer |-> answer]
  <1>1. req' = [req EXCEPT ![r] = call] /\ DOMAIN req = Requests
    BY DEF SetRequest, HonestInv, Inv, CallsShaped
  <1>2. Honest(call)
    BY DEF Honest
  <1> HIDE DEF call
  <1> QED
    BY <1>1, <1>2 DEF HonestInv

LEMMA StepHonest ==
  ASSUME HonestInv, [Next]_vars
  PROVE  \A q \in Requests : Honest(req'[q])
  <1>1. CASE UNCHANGED req
    BY <1>1 DEF HonestInv
  <1>2. ASSUME NEW r \in Requests, NEW meant \in Meant, NEW ref \in Typed(meant),
               GiveRef(r, meant, ref)
        PROVE  \A q \in Requests : Honest(req'[q])
    <2>1. CASE ~ Parses(ref)
      <3>1. SetRequest(r, "done", ref, meant, req[r].tries, "invalid")
        BY <1>2, <2>1 DEF GiveRef, AnswerTo
      <3> QED
        BY <3>1, Setting
    <2>2. CASE Parses(ref)
      <3>1. \/ SetRequest(r, "done", ref, meant, req[r].tries, "conflict")
            \/ SetRequest(r, "resolved", ref, meant, req[r].tries, "none")
        BY <1>2, <2>2 DEF GiveRef, AnswerTo
      <3> QED
        BY <2>2, <3>1, Setting
    <2> QED
      BY <2>1, <2>2
  <1>3. ASSUME NEW r \in Requests, NEW jur, NEW block, Generate(r, jur, block)
        PROVE  \A q \in Requests : Honest(req'[q])
    <2> DEFINE ref == Generated(jur, block)
    <2>1. \/ SetRequest(r, "done", ref, NoRef, req[r].tries, "conflict")
          \/ SetRequest(r, "generating", ref, NoRef, req[r].tries + 1, "none")
          \/ SetRequest(r, "done", ref, NoRef, req[r].tries, "invalid")
          \/ SetRequest(r, "resolved", ref, NoRef, req[r].tries, "none")
      BY <1>3 DEF Generate, AnswerTo
    <2> HIDE DEF ref
    <2> QED
      BY <2>1, Setting
  <1>4. ASSUME NEW r \in Requests, Create(r)
        PROVE  \A q \in Requests : Honest(req'[q])
    <2>1. PICK answer : SetRequest(r, "done", req[r].ref, req[r].meant, req[r].tries, answer)
      BY <1>4 DEF Create, AnswerTo
    <2>2. req[r].stage = "resolved" /\ Honest(req[r])
      BY <1>4 DEF Create, HonestInv
    <2> PICK ref : ref = req[r].ref
      OBVIOUS
    <2> PICK meant : meant = req[r].meant
      OBVIOUS
    <2> PICK tries : tries = req[r].tries
      OBVIOUS
    <2>3. meant # NoRef => meant \in Meant /\ ref \in Typed(meant) /\ Parses(ref)
      BY <2>2 DEF Honest
    <2>4. SetRequest(r, "done", ref, meant, tries, answer)
      BY <2>1
    <2> QED
      BY <2>3, <2>4, Setting
  <1>5. UNCHANGED req \/ Intake
    BY DEF Next, Walking, StartWalk, CountPage, FindPage, NextPage, MoveOn, Triaging, RefreshInbox,
           ReadInbox, ShowInbox, LoseInbox, PickCase, RequestSuggestion, ServeSuggestion,
           ShowSuggestion, SendConfirm, ServeConfirm, ShowConfirm, vars
  <1>6. ASSUME NEW meant \in Meant
        PROVE  meant \in Typed(meant)
    BY DEF Typed
  <1> QED
    BY <1>1, <1>2, <1>3, <1>4, <1>5, <1>6 DEF Intake

\* Of references of any length, with any one symbol mistyped, none makes a case that
\* nobody meant.
THEOREM MistypedRefusedHolds == Spec => []MistypedRefused
  <1>1. ASSUME Init
        PROVE  HonestInv
    BY <1>1, InitInv DEF HonestInv, Honest, Init, Idle
  <1>2. ASSUME HonestInv, [Next]_vars
        PROVE  HonestInv'
    <2>1. Inv'
      BY <1>2, StepInv DEF HonestInv
    <2>2. \A q \in Requests : Honest(req'[q])
      BY <1>2, StepHonest
    <2>3. \A q \in Requests : Honest(req[q])'
      BY <2>2 DEF Honest, Parses, WellFormed, Core
    <2> QED
      BY <2>1, <2>3 DEF HonestInv
  <1>3. ASSUME HonestInv
        PROVE  MistypedRefused
    BY <1>3, MistypedParsesNot DEF HonestInv, Honest, MistypedRefused, Made
  <1> QED
    BY <1>1, <1>2, <1>3, PTL DEF Spec

------------------------------------------------------------------------------
(* Types *)

\* A set of natural numbers that is bounded and not empty has a greatest one: the one
\* that is nearest to the bound.
LEMMA GreatestNat ==
  ASSUME NEW N \in Nat, NEW T, T \subseteq 0..N, T # {}
  PROVE  \E n \in T : \A m \in T : m <= n
  <1> DEFINE Gaps == { k \in Nat : \E m \in T : m + k = N }
  <1>1. PICK t \in T : TRUE
    OBVIOUS
  <1>2. N - t \in Gaps /\ Gaps \subseteq Nat
    <2>1. N - t \in Nat /\ t + (N - t) = N
      BY <1>1
    <2> QED
      BY <1>1, <2>1
  <1>3. PICK g \in Gaps : \A k \in Gaps : g <= k
    <2> HIDE DEF Gaps
    <2> QED
      BY <1>2, LeastNat
  <1>4. PICK n \in T : n + g = N
    OBVIOUS
  <1>5. ASSUME NEW m \in T PROVE m <= n
    <2>1. N - m \in Nat /\ m + (N - m) = N /\ m \in Nat /\ n \in Nat /\ g \in Nat
      BY <1>4
    <2>2. N - m \in Gaps
      BY <2>1
    <2>3. g <= N - m
      BY <1>3, <2>2
    <2> HIDE DEF Gaps
    <2> QED
      BY <1>4, <2>1, <2>3
  <1> QED
    BY <1>5

LEMMA RemovingTyped ==
  ASSUME NEW S, NEW s \in Seq(S), NEW i \in DOMAIN s
  PROVE  RemoveAt(s, i) \in Seq(S)
  <1>1. Len(s) \in Nat /\ DOMAIN s = 1..Len(s) /\ i \in 1..Len(s)
    OBVIOUS
  <1>2. SubSeq(s, 1, i - 1) \in Seq(S) /\ SubSeq(s, i + 1, Len(s)) \in Seq(S)
    BY <1>1
  <1>3. ASSUME NEW u \in Seq(S), NEW v \in Seq(S)
        PROVE  u \o v \in Seq(S)
    BY ConcatProperties
  <1>4. RemoveAt(s, i) = SubSeq(s, 1, i - 1) \o SubSeq(s, i + 1, Len(s))
    BY DEF RemoveAt
  <1> QED
    BY ONLY <1>2, <1>3, <1>4, Zenon

LEMMA ReplacingTyped ==
  ASSUME NEW S, NEW s \in Seq(S), NEW i, NEW x \in S, NEW t, t = [s EXCEPT ![i] = x]
  PROVE  t \in Seq(S)
  <1>1. Len(s) \in Nat /\ s \in [1..Len(s) -> S]
    OBVIOUS
  <1> PICK n \in Nat : n = Len(s)
    BY <1>1
  <1>2. t \in [1..n -> S]
    BY <1>1
  <1> QED
    BY <1>2

LEMMA Retyped ==
  ASSUME NEW S, NEW T, NEW s \in Seq(S), \A i \in DOMAIN s : s[i] \in T
  PROVE  s \in Seq(T)
  <1>1. Len(s) \in Nat /\ DOMAIN s = 1..Len(s)
    OBVIOUS
  <1>2. s \in [1..Len(s) -> T]
    BY <1>1
  <1> QED
    BY <1>1, <1>2

CallRows == [stage : {"idle", "generating", "resolved", "done"},
             ref : Refs \cup {NoRef}, meant : Refs \cup {NoRef},
             tries : 0..Attempts, answer : Answers]

\* A call that is not done has an attempt left; what is resolved is a reference.
CallTyped(call) ==
  /\ call \in CallRows
  /\ call.stage = "resolved" => call.ref \in Refs
  /\ call.stage # "done" => call.tries < Attempts

CallsTyped(f) == f \in [Requests -> CallRows] /\ \A r \in Requests : CallTyped(f[r])

\* The types of what speaks of cases, when D are the cases.
Said(D) == [of : D, crossed : BOOLEAN] \cup {None}
Walks(D) == [stage : {"none", "counted", "shown"}, filter : {"all", "DISCOVERED"},
             page : Nat, total : Nat, start : SUBSET D, seen : SUBSET D,
             torn : BOOLEAN, left : BOOLEAN]
Lists(D) == {Quiet} \cup [stage : {"answered"}, rows : SUBSET D]
Making(D) == {Quiet} \cup [stage : {"sent", "answered"}, of : D, tier : {"LOW", "HIGH"},
                           crossed : BOOLEAN]
Confirming(D) == {Quiet} \cup [stage : {"sent", "answered"}, of : D, tier : Confirmable,
                               rationale : Said(D)]

CasesTyped(D) == \A c \in DOMAIN cases : cases[c].ref \in Refs /\ cases[c].rationale \in Said(D)

PageTyped(D) ==
  /\ inbox \subseteq D /\ loading \in BOOLEAN
  /\ fetches \in Seq(Lists(D))
  /\ chosen \in D \cup {None} /\ suggestion \in Said(D)
  /\ suggest \in Making(D) /\ confirm \in Confirming(D)

Typing(D) == CasesTyped(D) /\ walk \in Walks(D) /\ PageTyped(D)

TypeInv ==
  /\ Inv /\ errand \in Errands
  /\ CallsTyped(req)
  /\ Typing(DOMAIN cases)

\* More cases leave the types as they were.
LEMMA Widening ==
  ASSUME NEW D, NEW E, D \subseteq E, Typing(D)'
  PROVE  Typing(E)'
  <1>1. Said(D) \subseteq Said(E) /\ Walks(D) \subseteq Walks(E) /\ Lists(D) \subseteq Lists(E)
        /\ Making(D) \subseteq Making(E)
    BY DEF Said, Walks, Lists, Making
  <1>2. Confirming(D) \subseteq Confirming(E)
    BY <1>1 DEF Confirming
  <1>3. fetches' \in Seq(Lists(E))
    <2>1. fetches' \in Seq(Lists(D))
      BY DEF Typing, PageTyped
    <2>2. \A i \in DOMAIN fetches' : fetches'[i] \in Lists(E)
      BY <1>1, <2>1
    <2> QED
      BY <2>1, <2>2, Retyped
  <1>4. CasesTyped(E)' /\ walk' \in Walks(E)
    BY <1>1 DEF Typing, CasesTyped
  <1> QED
    BY <1>1, <1>2, <1>3, <1>4 DEF Typing, PageTyped

LEMMA CasesFinite ==
  ASSUME Inv
  PROVE  /\ Len(cases) \in Nat /\ DOMAIN cases = 1..Len(cases)
         /\ IsFiniteSet(DOMAIN cases) /\ DOMAIN cases \subseteq 1..Len(cases)
  <1>1. Len(cases) \in Nat /\ DOMAIN cases = 1..Len(cases)
    BY DEF Inv, CasesShaped
  <1>2. IsFiniteSet(1..Len(cases))
    BY <1>1, FS_Interval
  <1> QED
    BY <1>1, <1>2

LEMMA MatchingFinite ==
  ASSUME Inv, NEW filter
  PROVE  /\ Matching(filter) \subseteq DOMAIN cases
         /\ IsFiniteSet(Matching(filter)) /\ Cardinality(Matching(filter)) \in Nat
  <1>1. Matching(filter) \subseteq DOMAIN cases
    BY DEF Matching
  <1>2. IsFiniteSet(Matching(filter))
    BY <1>1, CasesFinite, FS_Subset
  <1> QED
    BY <1>1, <1>2, FS_CardinalityType

LEMMA LatestTyped ==
  ASSUME Inv, NEW rows, rows \subseteq DOMAIN cases
  PROVE  Latest(rows) \in rows \cup {None}
  <1>1. ASSUME rows # {}
        PROVE  \E c \in rows : \A d \in rows : d <= c
    <2>1. rows \subseteq 0..Len(cases) /\ Len(cases) \in Nat
      BY CasesFinite
    <2> QED
      BY <1>1, <2>1, GreatestNat
  <1> QED
    BY <1>1 DEF Latest

\* createCase and transitionCase: the cases.
LEMMA StepCases ==
  ASSUME NEW D, D = DOMAIN cases, TypeInv, [Next]_vars
  PROVE  /\ D \subseteq DOMAIN cases'
         /\ \A c \in DOMAIN cases' : cases'[c].ref \in Refs /\ cases'[c].rationale \in Said(D)
  <1> USE DEF CasesTyped
  <1>1. CasesTyped(D)
    BY DEF TypeInv, Typing
  <1>2. CASE UNCHANGED cases
    BY <1>1, <1>2
  <1>3. ASSUME NEW r \in Requests, Create(r)
        PROVE  /\ D \subseteq DOMAIN cases'
               /\ \A c \in DOMAIN cases' : cases'[c].ref \in Refs /\ cases'[c].rationale \in Said(D)
    <2>1. CASE UNCHANGED cases
      BY <1>1, <2>1
    <2>2. CASE cases' = Append(cases, NewCase(req[r].ref))
      <3>1. req[r].ref \in Refs
        BY <1>3 DEF Create, TypeInv, CallsTyped, CallTyped
      <3>2. PICK row : row = NewCase(req[r].ref)
        OBVIOUS
      <3>3. row.ref \in Refs /\ row.rationale \in Said(D)
        BY <3>1, <3>2 DEF NewCase, Said
      <3>4. PICK S : cases \in Seq(S)
        BY DEF TypeInv, Inv, CasesShaped
      <3>5. cases' = Append(cases, row)
        BY <2>2, <3>2
      <3>6. /\ Len(cases) \in Nat /\ DOMAIN cases = 1..Len(cases)
            /\ DOMAIN cases' = 1..(Len(cases) + 1)
            /\ \A i \in 1..Len(cases) : cases'[i] = cases[i]
            /\ cases'[Len(cases) + 1] = row
        BY <3>4, <3>5, Appending
      <3> QED
        BY <1>1, <3>3, <3>6
    <2> QED
      BY <1>3, <2>1, <2>2 DEF Create
  <1>4. ASSUME NEW k, NEW row, cases' = [cases EXCEPT ![k] = row],
               k \in DOMAIN cases => row.ref = cases[k].ref /\ row.rationale \in Said(D)
        PROVE  /\ D \subseteq DOMAIN cases'
               /\ \A c \in DOMAIN cases' : cases'[c].ref \in Refs /\ cases'[c].rationale \in Said(D)
    <2>1. DOMAIN cases' = DOMAIN cases
          /\ \A c \in DOMAIN cases : cases'[c] = IF c = k THEN row ELSE cases[c]
      BY <1>4
    <2> QED
      BY <1>1, <1>4, <2>1
  <1>5. ASSUME NEW k
        PROVE  k \in DOMAIN cases => cases[k] \in Rows(cases[k].ref, cases[k].rationale)
    BY DEF TypeInv, Inv, CasesShaped
  <1>6. ASSUME NEW c \in DOMAIN cases, MoveOn(c)
        PROVE  /\ D \subseteq DOMAIN cases'
               /\ \A d \in DOMAIN cases' : cases'[d].ref \in Refs /\ cases'[d].rationale \in Said(D)
    <2> DEFINE row == [cases[c] EXCEPT !.status = "TRIAGED"]
    <2>1. cases' = [cases EXCEPT ![c] = row]
      BY <1>6 DEF MoveOn
    <2>2. row.ref = cases[c].ref /\ row.rationale = cases[c].rationale
      BY <1>5 DEF Rows
    <2> HIDE DEF row
    <2> QED
      BY <1>1, <1>4, <2>1, <2>2
  <1>7. CASE ServeSuggestion
    <2> PICK k : k = suggest.of
      OBVIOUS
    <2> DEFINE row == [cases[k] EXCEPT !.tier = suggest.tier]
    <2>1. cases' = [cases EXCEPT ![k] = row]
      BY <1>7 DEF ServeSuggestion
    <2>2. k \in DOMAIN cases => row.ref = cases[k].ref /\ row.rationale = cases[k].rationale
      BY <1>5 DEF Rows
    <2> HIDE DEF row
    <2> QED
      BY <1>1, <1>4, <2>1, <2>2
  <1>8. CASE ServeConfirm
    <2> PICK k : k = confirm.of
      OBVIOUS
    <2> PICK rationale : rationale = confirm.rationale
      OBVIOUS
    <2> DEFINE row == [cases[k] EXCEPT !.tier = confirm.tier, !.confirmed = TRUE,
                                       !.rationale = confirm.rationale]
    <2>1. cases' = [cases EXCEPT ![k] = row]
      BY <1>8 DEF ServeConfirm
    <2>2. k \in DOMAIN cases => row.ref = cases[k].ref /\ row.rationale = rationale
      BY <1>5 DEF Rows
    <2>3. rationale \in Said(D)
      BY <1>8 DEF ServeConfirm, Quiet, TypeInv, Typing, PageTyped, Confirming
    <2> HIDE DEF row
    <2> QED
      BY <1>4, <2>1, <2>2, <2>3
  <1> QED
    BY <1>2, <1>3, <1>6, <1>7, <1>8
       DEF Next, Intake, GiveRef, Generate, Walking, StartWalk, CountPage, FindPage, NextPage,
           Triaging, RefreshInbox, ReadInbox, ShowInbox, LoseInbox, PickCase, RequestSuggestion,
           ShowSuggestion, SendConfirm, ShowConfirm, vars

\* The reader of the list.
LEMMA StepWalk ==
  ASSUME NEW D, D = DOMAIN cases, TypeInv, [Next]_vars
  PROVE  walk' \in Walks(D)
  <1>1. walk \in Walks(D)
    BY DEF TypeInv, Typing
  <1>2. CASE UNCHANGED walk
    BY <1>1, <1>2
  <1>3. ASSUME NEW filter \in {"all", "DISCOVERED"}, NEW page \in Nat, CountPage(filter, page)
        PROVE  walk' \in Walks(D)
    <2> PICK rows : rows = Matching(filter)
      OBVIOUS
    <2>1. rows \subseteq D /\ Cardinality(rows) \in Nat
      BY MatchingFinite DEF TypeInv
    <2>2. walk' = [walk EXCEPT !.stage = "counted", !.filter = filter, !.page = page,
                               !.total = Cardinality(rows), !.torn = FALSE,
                               !.start = IF walk.stage = "none" THEN rows ELSE @]
      BY <1>3 DEF CountPage
    <2> QED
      BY <1>1, <2>1, <2>2 DEF Walks
  <1>4. ASSUME FindPage
        PROVE  walk' \in Walks(D)
    <2> PICK rows : rows = PageOf(Matching(walk.filter), walk.page)
      OBVIOUS
    <2>1. rows \subseteq D
      BY MatchingFinite DEF PageOf, TypeInv
    <2>2. walk' = [walk EXCEPT !.stage = "shown", !.seen = @ \cup rows]
      BY <1>4 DEF FindPage
    <2> QED
      BY <1>1, <2>1, <2>2 DEF Walks
  <1>5. ASSUME NextPage
        PROVE  walk' \in Walks(D)
    <2>1. walk.filter \in {"all", "DISCOVERED"} /\ walk.page + 1 \in Nat
      BY <1>1 DEF Walks
    <2> QED
      BY <1>3, <1>5, <2>1 DEF NextPage
  <1>6. ASSUME NEW torn \in BOOLEAN, walk' = [walk EXCEPT !.torn = torn]
        PROVE  walk' \in Walks(D)
    BY <1>1, <1>6 DEF Walks
  <1>7. ASSUME NEW left \in BOOLEAN, walk' = [walk EXCEPT !.left = left]
        PROVE  walk' \in Walks(D)
    BY <1>1, <1>7 DEF Walks
  <1>8. ASSUME NEW r \in Requests, Create(r)
        PROVE  walk' \in Walks(D)
    <2> PICK torn : torn = (walk.torn \/ (walk.stage = "counted"))
      OBVIOUS
    <2>1. torn \in BOOLEAN
      BY <1>1 DEF Walks
    <2>2. walk' = walk \/ walk' = [walk EXCEPT !.torn = torn]
      BY <1>8 DEF Create
    <2> QED
      BY <1>1, <1>6, <2>1, <2>2
  <1>9. ASSUME NEW c, MoveOn(c)
        PROVE  walk' \in Walks(D)
    <2> PICK left : left = (walk.left \/ (walk.stage # "none" /\ walk.filter # "all"))
      OBVIOUS
    <2>1. left \in BOOLEAN
      BY <1>1 DEF Walks
    <2>2. walk' = [walk EXCEPT !.left = left]
      BY <1>9 DEF MoveOn
    <2> QED
      BY <1>7, <2>1, <2>2
  <1> QED
    BY <1>2, <1>3, <1>4, <1>5, <1>8, <1>9
       DEF Next, Intake, GiveRef, Generate, Walking, StartWalk,
           Triaging, RefreshInbox, ReadInbox, ShowInbox, LoseInbox, PickCase, RequestSuggestion,
           ServeSuggestion, ShowSuggestion, SendConfirm, ServeConfirm, ShowConfirm, vars

\* The triage page turns to another case.
LEMMA TurnedTyped ==
  ASSUME NEW D, PageTyped(D), NEW c \in D \cup {None}, Turned(c)
  PROVE  chosen' \in D \cup {None} /\ suggestion' \in Said(D) /\ suggest' \in Making(D)
  <1>1. suggest' \in Making(D)
    <2>1. CASE suggest.stage = "none"
      BY <2>1 DEF Turned, Crossed, PageTyped
    <2>2. CASE suggest.stage # "none"
      <3>1. suggest \in [stage : {"sent", "answered"}, of : D, tier : {"LOW", "HIGH"},
                         crossed : BOOLEAN]
        BY <2>2 DEF PageTyped, Making, Quiet
      <3>2. suggest' = [suggest EXCEPT !.crossed = TRUE]
        BY <2>2 DEF Turned, Crossed
      <3>3. suggest' \in [stage : {"sent", "answered"}, of : D, tier : {"LOW", "HIGH"},
                          crossed : BOOLEAN]
        BY <3>1, <3>2
      <3> QED
        BY <3>3 DEF Making
    <2> QED
      BY <2>1, <2>2
  <1> QED
    BY <1>1 DEF Turned, Said

\* Lists on their way.
LEMMA FetchTyped ==
  ASSUME NEW D, PageTyped(D), Fetch
  PROVE  loading' \in BOOLEAN /\ fetches' \in Seq(Lists(D))
  <1>1. Quiet \in Lists(D) /\ fetches \in Seq(Lists(D))
    BY DEF Lists, PageTyped
  <1>2. PICK q \in Lists(D) : q = Quiet
    BY <1>1
  <1>3. loading' = TRUE /\ fetches' = Append(fetches, q)
    BY <1>2 DEF Fetch
  <1> QED
    BY <1>1, <1>3

LEMMA StepPage ==
  ASSUME NEW D, D = DOMAIN cases, TypeInv, [Next]_vars
  PROVE  PageTyped(D)'
  <1>1. PageTyped(D)
    BY DEF TypeInv, Typing
  <1>2. CASE UNCHANGED triage
    BY <1>1, <1>2 DEF PageTyped, triage, list
  <1>3. CASE RefreshInbox
    BY <1>1, <1>3, FetchTyped DEF RefreshInbox, PageTyped
  <1>4. ASSUME NEW k \in DOMAIN fetches, ReadInbox(k)
        PROVE  PageTyped(D)'
    <2> PICK rows : rows = FirstOf(Matching("needs triage"), InboxSize)
      OBVIOUS
    <2> DEFINE item == [stage |-> "answered", rows |-> rows]
    <2>1. rows \subseteq D
      BY MatchingFinite DEF FirstOf, TypeInv
    <2>2. item \in Lists(D) /\ fetches \in Seq(Lists(D))
      BY <1>1, <2>1 DEF Lists, PageTyped
    <2>3. fetches' = [fetches EXCEPT ![k] = item]
      BY <1>4 DEF ReadInbox
    <2> HIDE DEF item
    <2>4. fetches' \in Seq(Lists(D))
      BY <2>2, <2>3, ReplacingTyped
    <2> QED
      BY <1>1, <1>4, <2>4 DEF ReadInbox, PageTyped
  <1>5. ASSUME NEW k \in DOMAIN fetches
        PROVE  RemoveAt(fetches, k) \in Seq(Lists(D)) /\ fetches[k] \in Lists(D)
    BY <1>1, RemovingTyped DEF PageTyped
  <1>6. ASSUME NEW k \in DOMAIN fetches, ShowInbox(k)
        PROVE  PageTyped(D)'
    <2>1. fetches[k] \in [stage : {"answered"}, rows : SUBSET D]
      BY <1>5, <1>6 DEF ShowInbox, Lists, Quiet
    <2> PICK rows : rows = fetches[k].rows
      OBVIOUS
    <2>2. rows \subseteq D
      BY <2>1
    <2>3. Latest(rows) \in D \cup {None}
      BY <2>2, LatestTyped DEF TypeInv
    <2>4. Turned(Latest(rows)) /\ inbox' = rows /\ loading' = FALSE /\ confirm' = confirm
          /\ fetches' = RemoveAt(fetches, k)
      BY <1>6 DEF ShowInbox
    <2>5. chosen' \in D \cup {None} /\ suggestion' \in Said(D) /\ suggest' \in Making(D)
      BY <1>1, <2>3, <2>4, TurnedTyped
    <2> QED
      BY <1>1, <1>5, <2>2, <2>4, <2>5 DEF PageTyped
  <1>7. ASSUME NEW k \in DOMAIN fetches, LoseInbox(k)
        PROVE  PageTyped(D)'
    BY <1>1, <1>5, <1>7 DEF LoseInbox, PageTyped
  <1>8. ASSUME NEW c \in DOMAIN cases, PickCase(c)
        PROVE  PageTyped(D)'
    <2>1. chosen' \in D \cup {None} /\ suggestion' \in Said(D) /\ suggest' \in Making(D)
      BY <1>1, <1>8, TurnedTyped DEF PickCase
    <2> QED
      BY <1>1, <1>8, <2>1 DEF PickCase, PageTyped, list
  <1>9. ASSUME NEW signals, RequestSuggestion(signals)
        PROVE  PageTyped(D)'
    <2>1. chosen \in D /\ Suggested(signals) \in {"LOW", "HIGH"}
      BY <1>1, <1>9 DEF RequestSuggestion, PageTyped, Suggested
    <2>2. suggest' = [stage |-> "sent", of |-> chosen, tier |-> Suggested(signals),
                      crossed |-> FALSE]
      BY <1>9 DEF RequestSuggestion
    <2>3. suggest' \in Making(D)
      BY <2>1, <2>2 DEF Making
    <2> QED
      BY <1>1, <1>9, <2>3 DEF RequestSuggestion, PageTyped, list
  <1>10. ASSUME ServeSuggestion
         PROVE  PageTyped(D)'
    <2>1. suggest \in [stage : {"sent", "answered"}, of : D, tier : {"LOW", "HIGH"},
                       crossed : BOOLEAN]
      BY <1>1, <1>10 DEF ServeSuggestion, PageTyped, Making, Quiet
    <2>2. suggest' = [suggest EXCEPT !.stage = "answered"]
      BY <1>10 DEF ServeSuggestion
    <2>3. suggest' \in [stage : {"sent", "answered"}, of : D, tier : {"LOW", "HIGH"},
                        crossed : BOOLEAN]
      BY <2>1, <2>2
    <2>4. suggest' \in Making(D)
      BY <2>3 DEF Making
    <2> QED
      BY <1>1, <1>10, <2>4 DEF ServeSuggestion, PageTyped, list
  <1>11. ASSUME ShowSuggestion
         PROVE  PageTyped(D)'
    <2>1. suggest \in [stage : {"sent", "answered"}, of : D, tier : {"LOW", "HIGH"},
                       crossed : BOOLEAN]
      BY <1>1, <1>11 DEF ShowSuggestion, PageTyped, Making, Quiet
    <2>2. suggestion' \in Said(D)
      <3>1. \/ suggestion' = [of |-> suggest.of, crossed |-> suggest.crossed]
            \/ suggestion' = suggestion
        BY <1>11 DEF ShowSuggestion
      <3>2. [of |-> suggest.of, crossed |-> suggest.crossed] \in Said(D)
        BY <2>1 DEF Said
      <3> QED
        BY <1>1, <3>1, <3>2 DEF PageTyped
    <2>3. suggest' \in Making(D)
      BY <1>11 DEF ShowSuggestion, Making
    <2> QED
      BY <1>1, <1>11, <2>2, <2>3 DEF ShowSuggestion, PageTyped, list
  <1>12. ASSUME NEW tier \in Confirmable, SendConfirm(tier)
         PROVE  PageTyped(D)'
    <2>1. chosen \in D /\ suggestion \in Said(D)
      BY <1>1, <1>12 DEF SendConfirm, PageTyped
    <2>2. confirm' = [stage |-> "sent", of |-> chosen, tier |-> tier, rationale |-> suggestion]
      BY <1>12 DEF SendConfirm
    <2>3. confirm' \in Confirming(D)
      BY <2>1, <2>2 DEF Confirming
    <2> QED
      BY <1>1, <1>12, <2>3 DEF SendConfirm, PageTyped, list
  <1>13. ASSUME ServeConfirm
         PROVE  PageTyped(D)'
    <2>1. confirm \in [stage : {"sent", "answered"}, of : D, tier : Confirmable,
                       rationale : Said(D)]
      BY <1>1, <1>13 DEF ServeConfirm, PageTyped, Confirming, Quiet
    <2>2. confirm' = [confirm EXCEPT !.stage = "answered"]
      BY <1>13 DEF ServeConfirm
    <2>3. confirm' \in [stage : {"sent", "answered"}, of : D, tier : Confirmable,
                        rationale : Said(D)]
      BY <2>1, <2>2
    <2>4. confirm' \in Confirming(D)
      BY <2>3 DEF Confirming
    <2> QED
      BY <1>1, <1>13, <2>4 DEF ServeConfirm, PageTyped, list
  <1>14. ASSUME ShowConfirm
         PROVE  PageTyped(D)'
    <2>1. /\ loading' \in BOOLEAN /\ fetches' \in Seq(Lists(D))
          /\ suggestion' \in Said(D)
      BY <1>1, <1>14, FetchTyped DEF ShowConfirm, PageTyped, Said
    <2>2. confirm' \in Confirming(D)
      BY <1>14 DEF ShowConfirm, Confirming
    <2> QED
      BY <1>1, <1>14, <2>1, <2>2 DEF ShowConfirm, PageTyped
  <1>15. CASE Triaging
    BY <1>3, <1>4, <1>6, <1>7, <1>8, <1>9, <1>10, <1>11, <1>12, <1>13, <1>14, <1>15 DEF Triaging
  <1>16. CASE Intake \/ Walking
    BY <1>2, <1>16 DEF Intake, GiveRef, Generate, Create, Walking, StartWalk, CountPage, FindPage,
                       NextPage, MoveOn
  <1> QED
    BY <1>2, <1>15, <1>16 DEF Next, vars

\* A call that is set is typed, and the others stay so.
LEMMA SettingTyped ==
  ASSUME TypeInv, NEW r \in Requests, NEW stage, NEW ref, NEW meant, NEW tries, NEW answer,
         SetRequest(r, stage, ref, meant, tries, answer),
         CallTyped([stage |-> stage, ref |-> ref, meant |-> meant, tries |-> tries,
                    answer |-> answer])
  PROVE  CallsTyped(req')
  <1> DEFINE call == [stage |-> stage, ref |-> ref, meant |-> meant, tries |-> tries,
                      answer |-> answer]
  <1>1. req' = [req EXCEPT ![r] = call] /\ call \in CallRows /\ CallTyped(call)
    BY DEF SetRequest, CallTyped
  <1> HIDE DEF call
  <1> QED
    BY <1>1 DEF TypeInv, CallsTyped

LEMMA CheckTyped ==
  ASSUME NEW core \in Seq(Value)
  PROVE  CheckDigit(core) \in Value
  <1>1. PICK acc \in [0..Len(core) -> Value] : CheckDigit(core) = acc[Len(core)]
    BY Computed
  <1>2. Len(core) \in 0..Len(core)
    OBVIOUS
  <1> QED
    BY <1>1, <1>2

LEMMA GeneratedTyped ==
  ASSUME NEW jur \in Jurisdictions, NEW block \in [1..BlockLength -> Value]
  PROVE  Generated(jur, block) \in Refs
  <1> PICK ref : ref = Generated(jur, block)
    OBVIOUS
  <1>1. /\ ref = [jur |-> jur, block |-> block, check |-> CheckDigit(Code[jur] \o block)]
        /\ Core(ref) \in Seq(Value) /\ ref.check = CheckDigit(Core(ref))
    BY MadeByApi
  <1>2. ref.check \in Value
    BY <1>1, CheckTyped
  <1> QED
    BY <1>1, <1>2 DEF Refs, Value

LEMMA TypedTyped ==
  ASSUME NEW meant \in Meant, NEW ref \in Typed(meant)
  PROVE  meant \in Refs /\ ref \in Refs
  <1>1. meant \in Refs
    BY ReferencesAssumption, GeneratedTyped DEF Value
  <1>2. Symbols \subseteq 0..35 /\ meant.block \in [1..BlockLength -> 0..35]
    BY <1>1, IntakeConstants DEF Refs
  <1>3. ASSUME NEW i \in 1..BlockLength, NEW s \in Symbols
        PROVE  [meant EXCEPT !.block[i] = s] \in Refs
    <2>1. [meant.block EXCEPT ![i] = s] \in [1..BlockLength -> 0..35]
      BY <1>2
    <2>2. [meant EXCEPT !.block[i] = s] = [meant EXCEPT !.block = [meant.block EXCEPT ![i] = s]]
      BY <1>1 DEF Refs
    <2> QED
      BY <1>1, <2>1, <2>2 DEF Refs
  <1>4. \A s \in Symbols : [meant EXCEPT !.check = s] \in Refs
    BY <1>1, <1>2 DEF Refs
  <1>5. \A k \in Jurisdictions : [meant EXCEPT !.jur = k] \in Refs
    BY <1>1 DEF Refs
  <1> QED
    BY <1>1, <1>3, <1>4, <1>5 DEF Typed

LEMMA StepCalls ==
  ASSUME TypeInv, [Next]_vars
  PROVE  CallsTyped(req')
  <1>1. CASE UNCHANGED req
    BY <1>1 DEF TypeInv
  <1>2. Attempts \in Nat
    BY IntakeConstants
  <1>3. ASSUME NEW r \in Requests, NEW meant \in Meant, NEW ref \in Typed(meant),
               GiveRef(r, meant, ref)
        PROVE  CallsTyped(req')
    <2> PICK tries : tries = req[r].tries
      OBVIOUS
    <2>1. tries \in 0..Attempts /\ tries < Attempts
      BY <1>3 DEF GiveRef, TypeInv, CallsTyped, CallTyped, CallRows
    <2>2. meant \in Refs /\ ref \in Refs
      BY TypedTyped
    <2>3. PICK stage \in {"done", "resolved"}, answer \in {"invalid", "conflict", "none"} :
            SetRequest(r, stage, ref, meant, tries, answer)
      BY <1>3 DEF GiveRef, AnswerTo
    <2>4. CallTyped([stage |-> stage, ref |-> ref, meant |-> meant, tries |-> tries,
                     answer |-> answer])
      BY <2>1, <2>2 DEF CallTyped, CallRows, Answers
    <2> QED
      BY <2>3, <2>4, SettingTyped
  <1>4. ASSUME NEW r \in Requests, NEW jur \in Jurisdictions, NEW block \in Blocks,
               Generate(r, jur, block)
        PROVE  CallsTyped(req')
    <2> PICK tries : tries = req[r].tries
      OBVIOUS
    <2> PICK ref : ref = Generated(jur, block)
      OBVIOUS
    <2>1. tries \in 0..Attempts /\ tries < Attempts
      BY <1>4 DEF Generate, TypeInv, CallsTyped, CallTyped, CallRows
    <2>2. ref \in Refs
      <3>1. block \in [1..BlockLength -> Value]
        BY IntakeConstants DEF Blocks, Value
      <3> QED
        BY <3>1, GeneratedTyped
    <2>3. PICK stage \in {"done", "resolved", "generating"},
               answer \in {"invalid", "conflict", "none"}, next \in {tries, tries + 1} :
            /\ SetRequest(r, stage, ref, NoRef, next, answer)
            /\ next = tries \/ tries + 1 # Attempts
      BY <1>4 DEF Generate, AnswerTo
    <2>4. next \in 0..Attempts /\ next < Attempts
      BY <1>2, <2>1, <2>3
    <2>5. CallTyped([stage |-> stage, ref |-> ref, meant |-> NoRef, tries |-> next,
                     answer |-> answer])
      BY <2>2, <2>4 DEF CallTyped, CallRows, Answers
    <2> QED
      BY <2>3, <2>5, SettingTyped
  <1>5. ASSUME NEW r \in Requests, Create(r)
        PROVE  CallsTyped(req')
    <2> PICK ref, meant, tries : ref = req[r].ref /\ meant = req[r].meant /\ tries = req[r].tries
      OBVIOUS
    <2>1. tries \in 0..Attempts /\ ref \in Refs \cup {NoRef} /\ meant \in Refs \cup {NoRef}
      BY <1>5 DEF TypeInv, CallsTyped, CallTyped, CallRows
    <2>2. PICK answer \in {"not enabled", "error", "created"} :
            SetRequest(r, "done", ref, meant, tries, answer)
      BY <1>5 DEF Create, AnswerTo
    <2>3. CallTyped([stage |-> "done", ref |-> ref, meant |-> meant, tries |-> tries,
                     answer |-> answer])
      BY <2>1 DEF CallTyped, CallRows, Answers
    <2> QED
      BY <2>2, <2>3, SettingTyped
  <1>6. UNCHANGED req \/ Intake
    BY DEF Next, Walking, StartWalk, CountPage, FindPage, NextPage, MoveOn, Triaging, RefreshInbox,
           ReadInbox, ShowInbox, LoseInbox, PickCase, RequestSuggestion, ServeSuggestion,
           ShowSuggestion, SendConfirm, ServeConfirm, ShowConfirm, vars
  <1>7. ASSUME NEW meant \in Meant
        PROVE  meant \in Typed(meant)
    BY DEF Typed
  <1> QED
    BY <1>1, <1>3, <1>4, <1>5, <1>6, <1>7 DEF Intake

LEMMA StepType ==
  ASSUME TypeInv, [Next]_vars
  PROVE  TypeInv'
  <1> PICK D : D = DOMAIN cases
    OBVIOUS
  <1>1. Inv' /\ errand' \in Errands
    <2>1. Inv'
      BY StepInv DEF TypeInv
    <2>2. errand' = errand
      BY DEF Next, Intake, GiveRef, Generate, Create, Walking, StartWalk, CountPage, FindPage,
             NextPage, MoveOn, Triaging, RefreshInbox, ReadInbox, ShowInbox, LoseInbox, PickCase,
             RequestSuggestion, ServeSuggestion, ShowSuggestion, SendConfirm, ServeConfirm,
             ShowConfirm, vars
    <2> QED
      BY <2>1, <2>2 DEF TypeInv
  <1>2. /\ D \subseteq DOMAIN cases'
        /\ \A c \in DOMAIN cases' : cases'[c].ref \in Refs /\ cases'[c].rationale \in Said(D)
    BY StepCases
  <1>3. Typing(D)'
    BY <1>2, StepWalk, StepPage DEF Typing, CasesTyped
  <1>4. Typing(DOMAIN cases)'
    <2> PICK E : E = DOMAIN cases'
      OBVIOUS
    <2>1. D \subseteq E
      BY <1>2
    <2>2. Typing(E)'
      BY <1>3, <2>1, Widening
    <2> QED
      BY <2>2
  <1>5. CallsTyped(req')
    BY StepCalls
  <1> QED
    BY <1>1, <1>4, <1>5 DEF TypeInv

LEMMA InitType ==
  ASSUME Init
  PROVE  TypeInv
  <1>1. Inv /\ errand \in Errands
    BY InitInv DEF Init
  <1>2. CallsTyped(req)
    BY IntakeConstants DEF Init, Idle, CallsTyped, CallTyped, CallRows, Answers
  <1>3. ASSUME NEW c \in DOMAIN cases
        PROVE  cases[c].ref \in Refs /\ cases[c].rationale = None
    <2>1. c \in DOMAIN Earlier /\ cases[c] = NewCase(Earlier[c])
      BY DEF Init
    <2>2. Earlier[c] \in ToSet(Earlier)
      BY <2>1, EarlierAssumption DEF ToSet
    <2>3. Earlier[c] \in Refs
      BY <2>2, ReferencesAssumption, GeneratedTyped DEF Value
    <2> QED
      BY <2>1, <2>3 DEF NewCase
  <1> PICK D : D = DOMAIN cases
    OBVIOUS
  <1>4. CasesTyped(D)
    BY <1>3 DEF CasesTyped, Said
  <1>5. walk \in Walks(D)
    BY DEF Init, NoWalk, Walks
  <1>6. PageTyped(D)
    <2>1. Quiet \in Lists(D) /\ Quiet \in Making(D) /\ Quiet \in Confirming(D) /\ None \in Said(D)
      BY DEF Lists, Making, Confirming, Said
    <2>2. PICK q \in Lists(D) : q = Quiet
      BY <2>1
    <2>3. <<q>> \in Seq(Lists(D))
      OBVIOUS
    <2> QED
      BY <2>1, <2>2, <2>3 DEF Init, PageTyped
  <1> QED
    BY <1>1, <1>2, <1>4, <1>5, <1>6 DEF TypeInv, Typing

\* The cases, the calls, the reader and the triage page keep their types, and speak of
\* cases that there are.
THEOREM TypeCorrect == Spec => []TypeOK
  <1>1. Init => TypeInv
    BY InitType
  <1>2. TypeInv /\ [Next]_vars => TypeInv'
    BY StepType
  <1>3. ASSUME TypeInv
        PROVE  TypeOK
    <2> PICK D : D = DOMAIN cases
      OBVIOUS
    <2>1. Typing(D)
      BY <1>3 DEF TypeInv
    <2>2. Suggestions = Said(D)
      BY DEF Suggestions, Said
    <2>3. cases \in Seq([ref : Refs, status : {"DISCOVERED", "TRIAGED"},
                         tier : {"LOW", "MEDIUM", "HIGH"}, confirmed : BOOLEAN,
                         rationale : Suggestions])
      <3>1. \A c \in DOMAIN cases :
              cases[c] \in [ref : Refs, status : {"DISCOVERED", "TRIAGED"},
                            tier : {"LOW", "MEDIUM", "HIGH"}, confirmed : BOOLEAN,
                            rationale : Suggestions]
        <4>1. \A c \in DOMAIN cases : /\ cases[c] \in Rows(cases[c].ref, cases[c].rationale)
                                      /\ cases[c].ref \in Refs
                                      /\ cases[c].rationale \in Suggestions
          BY <1>3, <2>1, <2>2 DEF TypeInv, Inv, CasesShaped, Typing, CasesTyped
        <4> QED
          BY <4>1 DEF Rows
      <3>2. cases \in Seq(ToSet(cases))
        BY <1>3 DEF TypeInv, Inv, CasesShaped
      <3> QED
        BY <3>1, <3>2, Retyped
    <2>4. req \in [Requests -> CallRows]
      BY <1>3 DEF TypeInv, CallsTyped
    <2>5. walk \in Walks(D) /\ PageTyped(D)
      BY <2>1 DEF Typing
    <2> QED
      BY <1>3, <2>2, <2>3, <2>4, <2>5
         DEF TypeInv, TypeOK, CallRows, Answers, Walks, PageTyped, Lists, Making, Confirming
  <1> QED
    BY <1>1, <1>2, <1>3, PTL DEF Spec

------------------------------------------------------------------------------
(* The reader of the list *)

\* The reader w of a list of rows has seen the first n of it, of the cases that there
\* were at the start.
SeenUpTo(w, rows, n) == \A c \in w.start : Place(rows, c) <= n => c \in w.seen

\* Nothing has left the filter, and the pages that the reader turned are behind them;
\* the count of the page is of the list that it is a page of.
Reading(w, rows) ==
  /\ w.page \in Nat \ {0} /\ w.start \subseteq rows
  /\ w.stage = "counted" =>
       SeenUpTo(w, rows, Skipped(w.page)) /\ (~w.torn => w.total = Cardinality(rows))
  /\ w.stage = "shown" =>
       /\ SeenUpTo(w, rows, Skipped(w.page) + PageSize)
       /\ w.page >= TotalPages(w.total) /\ ~w.torn => w.start \subseteq w.seen

WalkInv ==
  TypeInv /\ (walk.stage # "none" /\ ~walk.left => Reading(walk, Matching(walk.filter)))

\* Places are within the list, and do not get smaller when the list grows.
LEMMA Placed ==
  ASSUME NEW rows, IsFiniteSet(rows), NEW c \in rows
  PROVE  /\ Place(rows, c) \in Nat /\ Place(rows, c) <= Cardinality(rows)
         /\ rows \subseteq Nat => Place(rows, c) # 0
  <1> DEFINE ahead == { d \in rows : d >= c }
  <1>1. IsFiniteSet(ahead) /\ Cardinality(ahead) <= Cardinality(rows)
    BY FS_Subset
  <1>2. Cardinality(ahead) \in Nat
    BY <1>1, FS_CardinalityType
  <1>3. ASSUME rows \subseteq Nat
        PROVE  Cardinality(ahead) # 0
    <2>1. c \in ahead
      BY <1>3
    <2> QED
      BY <1>1, <2>1, FS_EmptySet
  <1> QED
    BY <1>1, <1>2, <1>3 DEF Place

LEMMA PlaceGrows ==
  ASSUME NEW rows, NEW more, IsFiniteSet(more), rows \subseteq more, NEW c \in rows
  PROVE  Place(rows, c) \in Nat /\ Place(more, c) \in Nat /\ Place(rows, c) <= Place(more, c)
  <1> DEFINE ahead == { d \in rows : d >= c }
  <1> DEFINE before == { d \in more : d >= c }
  <1>1. IsFiniteSet(rows)
    BY FS_Subset
  <1>2. IsFiniteSet(before)
    BY FS_Subset
  <1>3. ahead \subseteq before
    OBVIOUS
  <1>4. Cardinality(ahead) <= Cardinality(before)
    BY <1>2, <1>3, FS_Subset
  <1>5. Place(rows, c) \in Nat /\ Place(more, c) \in Nat
    BY <1>1, Placed
  <1> QED
    BY <1>4, <1>5 DEF Place

\* The first place is skipped by no page, a page ends where the next one begins, and
\* the pages hold the whole list.
LEMMA Pages ==
  ASSUME NEW page \in Nat \ {0}
  PROVE  /\ Skipped(1) = 0 /\ Skipped(page) \in Nat
         /\ Skipped(page + 1) = Skipped(page) + PageSize
         /\ \A total \in Nat : page >= TotalPages(total) => total <= Skipped(page) + PageSize
  <1>1. PageSize \in Nat \ {0}
    BY IntakeConstants
  <1>2. Skipped(1) = 0 /\ Skipped(page) \in Nat /\ Skipped(page + 1) = Skipped(page) + PageSize
    BY <1>1 DEF Skipped
  <1>3. ASSUME NEW total \in Nat, page >= TotalPages(total)
        PROVE  total <= Skipped(page) + PageSize
    <2> DEFINE last == (total + PageSize - 1) \div PageSize
    <2>1. Skipped(page) + PageSize = page * PageSize
      BY <1>1 DEF Skipped
    <2>2. CASE total = 0
      BY <1>1, <1>2, <2>2
    <2>3. CASE total # 0
      <3>1. last \in Nat /\ total + PageSize - 1 < last * PageSize + PageSize
        BY <1>1
      <3>2. page >= last
        BY <1>3, <2>3 DEF TotalPages
      <3> HIDE DEF last
      <3>3. last * PageSize <= page * PageSize
            /\ last * PageSize \in Nat /\ page * PageSize \in Nat
        BY <1>1, <3>1, <3>2
      <3>4. total < last * PageSize + 1
        BY <1>1, <3>1, <3>3
      <3> QED
        BY <2>1, <3>3, <3>4
    <2> QED
      BY <2>2, <2>3
  <1> QED
    BY <1>2, <1>3

\* The list grows while a page is shown, or between the two statements of a page, which
\* tears it.
LEMMA ReadingGrows ==
  ASSUME NEW w, NEW v, NEW rows, NEW more, Reading(w, rows),
         IsFiniteSet(more), rows \subseteq more,
         v.stage = w.stage, v.page = w.page, v.total = w.total, v.start = w.start,
         v.seen = w.seen,
         w.stage = "counted" => v.torn, w.stage # "counted" => v.torn = w.torn
  PROVE  Reading(v, more)
  <1>1. Skipped(w.page) \in Nat /\ PageSize \in Nat
    BY Pages, IntakeConstants DEF Reading
  <1>2. ASSUME NEW n \in Nat, SeenUpTo(w, rows, n)
        PROVE  SeenUpTo(v, more, n)
    <2>1. ASSUME NEW c \in w.start, Place(more, c) <= n
          PROVE  c \in v.seen
      <3>1. Place(rows, c) \in Nat /\ Place(more, c) \in Nat /\ Place(rows, c) <= Place(more, c)
        BY PlaceGrows DEF Reading
      <3> QED
        BY <1>2, <2>1, <3>1 DEF SeenUpTo
    <2> QED
      BY <2>1 DEF SeenUpTo
  <1> QED
    BY <1>1, <1>2 DEF Reading

\* The rows of a list that are on its first pages have been seen when the page is shown.
LEMMA PageShown ==
  ASSUME NEW w, NEW v, NEW rows, IsFiniteSet(rows), Reading(w, rows), w.stage = "counted",
         v = [w EXCEPT !.stage = "shown", !.seen = @ \cup PageOf(rows, w.page)],
         NEW D, w \in Walks(D)
  PROVE  Reading(v, rows)
  <1>1. /\ v.stage = "shown" /\ v.page = w.page /\ v.total = w.total /\ v.start = w.start
        /\ v.torn = w.torn /\ v.seen = w.seen \cup PageOf(rows, w.page)
    BY DEF Walks
  <1>2. Skipped(w.page) \in Nat /\ PageSize \in Nat /\ w.page \in Nat \ {0}
    BY Pages, IntakeConstants DEF Reading
  <1>3. ASSUME NEW c \in w.start, Place(rows, c) <= Skipped(w.page) + PageSize
        PROVE  c \in v.seen
    <2>1. c \in rows /\ Place(rows, c) \in Nat
      BY Placed DEF Reading
    <2>2. CASE Place(rows, c) <= Skipped(w.page)
      BY <1>1, <2>2 DEF Reading, SeenUpTo
    <2>3. CASE Place(rows, c) > Skipped(w.page)
      BY <1>1, <1>3, <2>1, <2>3 DEF PageOf
    <2> QED
      BY <1>2, <2>1, <2>2, <2>3
  <1>4. ASSUME w.page >= TotalPages(w.total), ~w.torn
        PROVE  w.start \subseteq v.seen
    <2>1. w.total = Cardinality(rows) /\ Cardinality(rows) \in Nat
      BY <1>4, FS_CardinalityType DEF Reading
    <2>2. Cardinality(rows) <= Skipped(w.page) + PageSize
      BY <1>2, <1>4, <2>1, Pages
    <2>3. ASSUME NEW c \in w.start
          PROVE  c \in v.seen
      <3>1. Place(rows, c) \in Nat /\ Place(rows, c) <= Cardinality(rows)
        BY Placed DEF Reading
      <3> QED
        BY <1>2, <1>3, <2>1, <2>2, <3>1
    <2> QED
      BY <2>3
  <1> QED
    BY <1>1, <1>2, <1>3, <1>4 DEF Reading, SeenUpTo

\* A page is asked for: the first one, or the next of a page that was shown.
LEMMA PageCounted ==
  ASSUME NEW w, NEW v, NEW rows, IsFiniteSet(rows), rows \subseteq Nat, NEW page,
         v.stage = "counted", v.page = page, v.total = Cardinality(rows), v.torn = FALSE,
         w.stage = "none" => v.start = rows, w.stage # "none" => v.start = w.start,
         v.seen = w.seen,
         \/ w.stage = "none" /\ page = 1
         \/ w.stage = "shown" /\ page = w.page + 1 /\ Reading(w, rows)
  PROVE  Reading(v, rows)
  <1>1. CASE w.stage = "none" /\ page = 1
    <2>1. ASSUME NEW c \in rows
          PROVE  ~(Place(rows, c) <= Skipped(1))
      <3>1. Place(rows, c) \in Nat /\ Place(rows, c) # 0
        BY Placed
      <3>2. Skipped(1) = 0
        BY Pages
      <3> QED
        BY <3>1, <3>2
    <2>2. v.start = rows /\ v.page = 1
      BY <1>1
    <2>3. SeenUpTo(v, rows, Skipped(v.page))
      BY <2>1, <2>2 DEF SeenUpTo
    <2> QED
      BY <2>2, <2>3 DEF Reading
  <1>2. CASE w.stage = "shown" /\ page = w.page + 1 /\ Reading(w, rows)
    <2>1. w.page \in Nat \ {0} /\ page \in Nat \ {0} /\ w.start \subseteq rows
      BY <1>2 DEF Reading
    <2>2. Skipped(page) = Skipped(w.page) + PageSize
      BY <1>2, <2>1, Pages
    <2>3. SeenUpTo(v, rows, Skipped(page))
      BY <1>2, <2>2 DEF Reading, SeenUpTo
    <2> QED
      BY <1>2, <2>1, <2>3 DEF Reading
  <1> QED
    BY <1>1, <1>2

LEMMA SameRows ==
  ASSUME NEW filter \in {"all", "DISCOVERED"}, DOMAIN cases' = DOMAIN cases,
         filter = "all" \/ \A c \in DOMAIN cases : cases'[c].status = cases[c].status
  PROVE  Matching(filter)' = Matching(filter)
  BY DEF Matching, Passes

\* What the triage page does leaves the status of every case alone.
LEMMA StatusesStay ==
  ASSUME TypeInv, ServeSuggestion \/ ServeConfirm
  PROVE  /\ DOMAIN cases' = DOMAIN cases
         /\ \A c \in DOMAIN cases : cases'[c].status = cases[c].status
  <1>1. \A c \in DOMAIN cases : cases[c] \in Rows(cases[c].ref, cases[c].rationale)
    BY DEF TypeInv, Inv, CasesShaped
  <1>2. CASE ServeSuggestion
    <2>1. cases' = [cases EXCEPT ![suggest.of].tier = suggest.tier]
      BY <1>2 DEF ServeSuggestion
    <2> QED
      BY <1>1, <2>1 DEF Rows
  <1>3. CASE ServeConfirm
    <2>1. cases' = [cases EXCEPT ![confirm.of] =
                      [@ EXCEPT !.tier = confirm.tier, !.confirmed = TRUE,
                                !.rationale = confirm.rationale]]
      BY <1>3 DEF ServeConfirm
    <2> QED
      BY <1>1, <2>1 DEF Rows
  <1> QED
    BY <1>2, <1>3

LEMMA StepReading ==
  ASSUME WalkInv, [Next]_vars, walk'.stage # "none", ~walk'.left
  PROVE  Reading(walk, Matching(walk.filter))'
  <1> PICK w, v, D : w = walk /\ v = walk' /\ D = DOMAIN cases
    OBVIOUS
  <1>1. w \in Walks(D) /\ w.filter \in {"all", "DISCOVERED"}
    BY DEF WalkInv, TypeInv, Typing, Walks
  <1>2. w.stage # "none" /\ ~w.left => Reading(w, Matching(w.filter))
    BY DEF WalkInv
  <1>3. ASSUME NEW filter
        PROVE  /\ IsFiniteSet(Matching(filter)) /\ Matching(filter) \subseteq Nat
               /\ Matching(filter) \subseteq DOMAIN cases
    BY MatchingFinite, CasesFinite DEF WalkInv, TypeInv
  <1>4. ASSUME v = w, DOMAIN cases' = DOMAIN cases,
               \A c \in DOMAIN cases : cases'[c].status = cases[c].status
        PROVE  Reading(walk, Matching(walk.filter))'
    <2>1. Matching(w.filter)' = Matching(w.filter)
      BY <1>1, <1>4, SameRows
    <2> QED
      BY <1>2, <1>4, <2>1
  <1>5. CASE UNCHANGED <<cases, walk>>
    BY <1>4, <1>5
  <1>6. CASE ServeSuggestion \/ ServeConfirm
    <2>1. v = w
      BY <1>6 DEF ServeSuggestion, ServeConfirm
    <2> QED
      BY <1>4, <1>6, <2>1, StatusesStay DEF WalkInv
  <1>7. ASSUME NEW filter \in {"all", "DISCOVERED"}, StartWalk(filter)
        PROVE  Reading(walk, Matching(walk.filter))'
    <2> PICK rows : rows = Matching(filter)
      OBVIOUS
    <2>1. /\ v = [w EXCEPT !.stage = "counted", !.filter = filter, !.page = 1,
                           !.total = Cardinality(rows), !.torn = FALSE,
                           !.start = IF w.stage = "none" THEN rows ELSE @]
          /\ w.stage = "none" /\ UNCHANGED cases
      BY <1>7 DEF StartWalk, CountPage
    <2>2. /\ v.stage = "counted" /\ v.page = 1 /\ v.total = Cardinality(rows) /\ v.torn = FALSE
          /\ v.start = rows /\ v.seen = w.seen /\ v.filter = filter /\ w.stage = "none"
      BY <1>1, <2>1 DEF Walks
    <2>3. IsFiniteSet(rows) /\ rows \subseteq Nat
      BY <1>3
    <2>4. Reading(v, rows)
      BY ONLY <2>2, <2>3, PageCounted
    <2>5. Matching(filter)' = rows
      BY <2>1, SameRows
    <2> QED
      BY <2>2, <2>4, <2>5
  <1>8. CASE NextPage
    <2> PICK rows : rows = Matching(w.filter)
      OBVIOUS
    <2> DEFINE page == w.page + 1
    <2>1. /\ v = [w EXCEPT !.stage = "counted", !.filter = w.filter, !.page = page,
                           !.total = Cardinality(rows), !.torn = FALSE,
                           !.start = IF w.stage = "none" THEN rows ELSE @]
          /\ w.stage = "shown" /\ UNCHANGED cases
      BY <1>8 DEF NextPage, CountPage
    <2>2. /\ v.stage = "counted" /\ v.page = page /\ v.total = Cardinality(rows)
          /\ v.torn = FALSE /\ v.start = w.start /\ v.seen = w.seen
          /\ v.filter = w.filter /\ v.left = w.left /\ w.stage = "shown" /\ page = w.page + 1
      BY <1>1, <2>1 DEF Walks
    <2>3. Reading(w, rows)
      BY <1>2, <2>1, <2>2
    <2>4. Reading(v, rows)
      <3>1. IsFiniteSet(rows) /\ rows \subseteq Nat
        BY <1>3
      <3> QED
        BY ONLY <2>2, <2>3, <3>1, PageCounted
    <2>5. Matching(w.filter)' = rows
      BY <1>1, <2>1, SameRows
    <2> QED
      BY <2>2, <2>4, <2>5
  <1>9. CASE FindPage
    <2> PICK rows : rows = Matching(w.filter)
      OBVIOUS
    <2>1. /\ v = [w EXCEPT !.stage = "shown", !.seen = @ \cup PageOf(rows, w.page)]
          /\ w.stage = "counted" /\ UNCHANGED cases
      BY <1>9 DEF FindPage
    <2>2. v.filter = w.filter /\ v.left = w.left
      BY <1>1, <2>1 DEF Walks
    <2>3. Reading(v, rows)
      BY <1>1, <1>2, <1>3, <2>1, <2>2, PageShown
    <2>4. Matching(w.filter)' = rows
      BY <1>1, <2>1, SameRows
    <2> QED
      BY <2>2, <2>3, <2>4
  <1>10. ASSUME NEW c \in DOMAIN cases, MoveOn(c)
         PROVE  Reading(walk, Matching(walk.filter))'
    <2>1. DOMAIN cases' = DOMAIN cases
      BY <1>10 DEF MoveOn
    <2>2. v = [w EXCEPT !.left = @ \/ (w.stage # "none" /\ w.filter # "all")]
      BY <1>10 DEF MoveOn
    <2>3. /\ v.stage = w.stage /\ v.page = w.page /\ v.total = w.total /\ v.start = w.start
          /\ v.seen = w.seen /\ v.filter = w.filter /\ v.torn = w.torn
          /\ ~w.left /\ w.filter = "all"
      BY <1>1, <2>2 DEF Walks
    <2>4. Matching(w.filter)' = Matching(w.filter)
      BY <1>1, <2>1, <2>3, SameRows
    <2> QED
      BY <1>2, <2>3, <2>4 DEF Reading, SeenUpTo
  <1>11. ASSUME NEW r \in Requests, Create(r)
         PROVE  Reading(walk, Matching(walk.filter))'
    <2>1. CASE UNCHANGED <<cases, walk>>
      BY <1>5, <2>1
    <2>2. CASE /\ cases' = Append(cases, NewCase(req[r].ref))
               /\ walk' = [walk EXCEPT !.torn = @ \/ (walk.stage = "counted")]
      <3>1. /\ v.stage = w.stage /\ v.page = w.page /\ v.total = w.total /\ v.start = w.start
            /\ v.seen = w.seen /\ v.filter = w.filter /\ v.left = w.left
            /\ v.torn = (w.torn \/ w.stage = "counted") /\ w.torn \in BOOLEAN
        BY <1>1, <2>2 DEF Walks
      <3>2. Len(cases) \in Nat /\ DOMAIN cases = 1..Len(cases)
            /\ DOMAIN cases' = 1..(Len(cases) + 1)
            /\ \A i \in 1..Len(cases) : cases'[i] = cases[i]
        <4>1. PICK row : row = NewCase(req[r].ref)
          OBVIOUS
        <4>2. PICK S : cases \in Seq(S)
          BY DEF WalkInv, TypeInv, Inv, CasesShaped
        <4> QED
          BY <2>2, <4>1, <4>2, Appending
      <3> PICK rows, more : rows = Matching(w.filter) /\ more = Matching(w.filter)'
        OBVIOUS
      <3>3. rows \subseteq more
        <4>1. ASSUME NEW c \in rows
              PROVE  c \in DOMAIN cases' /\ Passes(c, w.filter)'
          <5>1. c \in 1..Len(cases) /\ Passes(c, w.filter)
            BY <3>2 DEF Matching
          <5>2. cases'[c] = cases[c] /\ c \in DOMAIN cases'
            BY <3>2, <5>1
          <5> QED
            BY <5>1, <5>2 DEF Passes
        <4> QED
          BY <4>1 DEF Matching
      <3>4. IsFiniteSet(more)
        <4>1. more \subseteq 1..(Len(cases) + 1)
          BY <3>2 DEF Matching
        <4>2. IsFiniteSet(1..(Len(cases) + 1))
          <5>1. 1 \in Int /\ Len(cases) + 1 \in Int
            BY <3>2
          <5> QED
            BY <5>1, FS_Interval
        <4> QED
          BY <4>1, <4>2, FS_Subset
      <3>5. Reading(v, more)
        BY <1>2, <3>1, <3>3, <3>4, ReadingGrows
      <3> QED
        BY <3>1, <3>5
    <2> QED
      BY <1>11, <2>1, <2>2 DEF Create
  <1>12. CASE Intake
    BY <1>5, <1>11, <1>12 DEF Intake, GiveRef, Generate
  <1>13. CASE Walking
    BY <1>7, <1>8, <1>9, <1>10, <1>13 DEF Walking
  <1>14. CASE Triaging
    BY <1>5, <1>6, <1>14
       DEF Triaging, RefreshInbox, ReadInbox, ShowInbox, LoseInbox, PickCase, RequestSuggestion,
           ShowSuggestion, SendConfirm, ShowConfirm
  <1> QED
    BY <1>5, <1>12, <1>13, <1>14 DEF Next, vars

\* A reader who turned every page, however long the list and the pages, has seen each
\* case that was there at the start.
THEOREM WalkCompleteHolds == Spec => []WalkComplete
  <1>1. Init => WalkInv
    BY InitType DEF WalkInv, Init, NoWalk
  <1>2. WalkInv /\ [Next]_vars => WalkInv'
    BY StepReading, StepType DEF WalkInv
  <1>3. WalkInv => WalkComplete
    BY DEF WalkInv, WalkComplete, Reading
  <1> QED
    BY <1>1, <1>2, <1>3, PTL DEF Spec
==============================================================================
