----------------------------- MODULE CaseIntake -----------------------------
(***************************************************************************)
(* How cases come in: references with a check digit (caseRef.ts), createCase *)
(* of cases.service.ts, the paged list of listCases and its reader (the     *)
(* list of the Cases page), and the triage inbox of triage.tsx with         *)
(* suggestTier and confirmTier behind it.  One tenant.                      *)
(*                                                                          *)
(* The letters of a reference are abstracted to two parts: a code for the   *)
(* jurisdiction and date, and the random block.  Their symbols are the      *)
(* values 0..35 that charToValue gives to digits and letters.               *)
(***************************************************************************)
EXTENDS Naturals, FiniteSets, Sequences, SequencesExt

CONSTANTS
  Jurisdictions, \* those with a file of rules
  Enabled,       \* feature flag set and not in DISABLED_JURISDICTIONS
  Fitting,       \* those whose county code has the form of a reference's
  Code,          \* the symbols of a jurisdiction
  Symbols,       \* bound: symbols that random blocks are made of
  BlockLength,   \* length of the random block
  Attempts,      \* attempts of generateUniqueCaseRef
  Meant,         \* references that a caller may mean to give
  Earlier,       \* references of the cases there are at the start, oldest first
  Requests,      \* createCase calls
  PageSize,      \* of the list
  InboxSize,     \* of the one page that the triage page asks for
  Errands,       \* bound: what one behaviour is about: "create", "walk", "triage"
  MaxFetches,    \* bound: fetches of the inbox under way
  Confirmable,   \* bound: tiers that are confirmed (the one that escalates is in CaseLifecycle)
  None

ASSUME IntakeConstants ==
  /\ Enabled \subseteq Jurisdictions /\ Fitting \subseteq Jurisdictions
  /\ Symbols \subseteq 0..35
  /\ Code \in [Jurisdictions -> Seq(0..35)]
  /\ BlockLength \in Nat /\ Attempts \in Nat \ {0} /\ PageSize \in Nat \ {0}
  /\ InboxSize \in Nat
  /\ Confirmable \subseteq {"LOW", "MEDIUM", "HIGH"}
  /\ None \notin Jurisdictions /\ None \notin Nat

\* The database starts with an index that is kept.
ASSUME EarlierAssumption == Earlier \in Seq(ToSet(Earlier)) /\ IsInjective(Earlier)

ASSUME RequestAssumption == IsFiniteSet(Requests)

VARIABLES
  errand,
  cases,   \* Case rows, in the order of createdAt: no two at one time, committed in turn
  req,     \* createCase calls
  walk,    \* a reader of the list, page after page
  inbox, loading, fetches, \* the list of the triage page and what it has asked for
  chosen,      \* the case on screen
  suggestion,  \* the suggestion on screen
  suggest,     \* the suggestion under way
  confirm      \* the confirmation under way

list == <<inbox, loading, fetches>>
triage == <<list, chosen, suggestion, suggest, confirm>>
vars == <<errand, cases, req, walk, triage>>

-----------------------------------------------------------------------------
(* caseRef.ts *)

\* Faulty: a multiplier that shares factors with the length of the alphabet.
CheckDigitEven(core) ==
  LET acc[n \in 0..Len(core)] == IF n = 0 THEN 0 ELSE (acc[n - 1] * 30 + core[n]) % 36 IN
  acc[Len(core)]

\* Faulty: no remainder at the end.
CheckDigitWide(core) ==
  LET acc[n \in 0..Len(core)] == IF n = 0 THEN 0 ELSE (acc[n - 1] % 36) * 31 + core[n] IN
  acc[Len(core)]

\* computeCheckDigit: the accumulator after each symbol.  The letters that all
\* references share only shift it.
CheckDigit(core) ==
  LET acc[n \in 0..Len(core)] == IF n = 0 THEN 0 ELSE (acc[n - 1] * 31 + core[n]) % 36 IN
  acc[Len(core)]

Blocks == [1..BlockLength -> Symbols]

Core(ref) == Code[ref.jur] \o ref.block

\* generateCaseRef, with the random block given.
Generated(jur, block) ==
  [jur |-> jur, block |-> block, check |-> CheckDigit(Code[jur] \o block)]

\* What is meant, and what is stored, is a reference that has been made so.
ASSUME ReferencesAssumption ==
  Meant \cup ToSet(Earlier) \subseteq
    { Generated(jur, block) : jur \in Jurisdictions, block \in [1..BlockLength -> 0..35] }

\* CASE_REF_REGEX asks for a county code of three to eight letters and digits.
WellFormed(ref) == ref.jur \in Fitting

\* parseCaseRef does not throw.
Parses(ref) == WellFormed(ref) /\ ref.check = CheckDigit(Core(ref))

\* The one is the other with one symbol replaced.
OneApart(s, t) ==
  Len(s) = Len(t) /\ \E i \in DOMAIN s : \A n \in DOMAIN s : n # i <=> s[n] = t[n]

\* What a caller may type who means ref: one symbol may be wrong.
Typed(ref) ==
  {ref}
  \cup { [ref EXCEPT !.block[i] = s] : i \in 1..BlockLength, s \in Symbols }
  \cup { [ref EXCEPT !.check = s] : s \in Symbols }
  \cup { [ref EXCEPT !.jur = j] : j \in { k \in Jurisdictions : OneApart(Code[k], Code[ref.jur]) } }

-----------------------------------------------------------------------------
(* createCase *)

NoRef == [jur |-> None, block |-> <<>>, check |-> 0]
NewCase(ref) == [ref |-> ref, status |-> "DISCOVERED", tier |-> "LOW", confirmed |-> FALSE,
                 rationale |-> None]
Idle == [stage |-> "idle", ref |-> NoRef, meant |-> NoRef, tries |-> 0, answer |-> "none"]

Stored == { cases[i].ref : i \in DOMAIN cases }

SetRequest(r, stage, ref, meant, tries, answer) ==
  req' = [req EXCEPT ![r] = [stage |-> stage, ref |-> ref, meant |-> meant, tries |-> tries,
                             answer |-> answer]]

AnswerTo(r, ref, meant, answer) == SetRequest(r, "done", ref, meant, req[r].tries, answer)

\* resolveCaseRef with a reference in the body: it is parsed and looked up.
GiveRef(r, meant, ref) ==
  /\ req[r].stage = "idle"
  /\ IF ~Parses(ref) THEN AnswerTo(r, ref, meant, "invalid")
     ELSE IF ref \in Stored THEN AnswerTo(r, ref, meant, "conflict")
     ELSE SetRequest(r, "resolved", ref, meant, req[r].tries, "none")
  /\ UNCHANGED <<errand, cases, walk, triage>>

\* One attempt of generateUniqueCaseRef; what it returns is parsed again.
Generate(r, jur, block) ==
  LET ref == Generated(jur, block) IN
  /\ errand = "create"
  /\ req[r].stage = "idle" \/ (req[r].stage = "generating" /\ req[r].ref.jur = jur)
  /\ IF ref \in Stored
     THEN IF req[r].tries + 1 = Attempts THEN AnswerTo(r, ref, NoRef, "conflict")
          ELSE SetRequest(r, "generating", ref, NoRef, req[r].tries + 1, "none")
     ELSE IF ~Parses(ref) THEN AnswerTo(r, ref, NoRef, "invalid")
     ELSE SetRequest(r, "resolved", ref, NoRef, req[r].tries, "none")
  /\ UNCHANGED <<errand, cases, walk, triage>>

\* Faulty: the database has no unique index.
Anything(ref) == TRUE

\* The index case_tenant_ref_unique.
Unique(ref) == ref \notin Stored

\* isJurisdictionEnabled, and the transaction: the row and its CASE_CREATED
\* event, or the error of the index, which no one catches.
Create(r) ==
  LET ref == req[r].ref IN
  /\ req[r].stage = "resolved"
  /\ IF ref.jur \notin Enabled
     THEN AnswerTo(r, ref, req[r].meant, "not enabled") /\ UNCHANGED <<cases, walk>>
     ELSE IF ~Unique(ref)
     THEN AnswerTo(r, ref, req[r].meant, "error") /\ UNCHANGED <<cases, walk>>
     ELSE /\ cases' = Append(cases, NewCase(ref))
          /\ AnswerTo(r, ref, req[r].meant, "created")
          /\ walk' = [walk EXCEPT !.torn = @ \/ (walk.stage = "counted")]
  /\ UNCHANGED <<errand, triage>>

-----------------------------------------------------------------------------
(* listCases and a reader who goes from page to page, waiting for each.     *)

\* Cases that a filter lets through: all of them, those of a status, or those that
\* need triage.
Passes(c, filter) ==
  CASE filter = "all" -> TRUE
    [] filter = "needs triage" -> ~cases[c].confirmed
    [] OTHER -> cases[c].status = filter

\* The rows that count and findMany select.
Matching(filter) == { c \in DOMAIN cases : Passes(c, filter) }

\* The place of a row in the list: the latest comes first.
Place(rows, c) == Cardinality({ d \in rows : d >= c })

\* Faulty: pages are counted from zero.
SkippedFromZero(page) == page * PageSize

\* The rows that findMany skips.
Skipped(page) == (page - 1) * PageSize

PageOf(rows, page) ==
  { c \in rows : Place(rows, c) > Skipped(page) /\ Place(rows, c) <= Skipped(page) + PageSize }

\* The first page, when it holds size rows.
FirstOf(rows, size) == { c \in rows : Place(rows, c) <= size }

TotalPages(total) == IF total = 0 THEN 1 ELSE (total + PageSize - 1) \div PageSize

NoWalk == [stage |-> "none", filter |-> "all", page |-> 1, total |-> 0, start |-> {},
           seen |-> {}, torn |-> FALSE, left |-> FALSE]

\* count, the first of the transaction's two statements.
CountPage(filter, page) ==
  /\ walk' = [walk EXCEPT !.stage = "counted", !.filter = filter, !.page = page,
                          !.total = Cardinality(Matching(filter)), !.torn = FALSE,
                          !.start = IF walk.stage = "none" THEN Matching(filter) ELSE @]
  /\ UNCHANGED <<errand, cases, req, triage>>

StartWalk(filter) == errand = "walk" /\ walk.stage = "none" /\ CountPage(filter, 1)

\* findMany, the second, which sees what was committed since the first.
FindPage ==
  /\ walk.stage = "counted"
  /\ walk' = [walk EXCEPT !.stage = "shown",
                          !.seen = @ \cup PageOf(Matching(walk.filter), walk.page)]
  /\ UNCHANGED <<errand, cases, req, triage>>

\* The Next button, enabled while the page is not the last of those shown.
NextPage ==
  /\ walk.stage = "shown" /\ walk.page < TotalPages(walk.total)
  /\ CountPage(walk.filter, walk.page + 1)

\* transitionCase, by somebody else.
MoveOn(c) ==
  /\ errand = "walk" /\ cases[c].status = "DISCOVERED"
  /\ cases' = [cases EXCEPT ![c].status = "TRIAGED"]
  /\ walk' = [walk EXCEPT !.left = @ \/ (walk.stage # "none" /\ walk.filter # "all")]
  /\ UNCHANGED <<errand, req, triage>>

-----------------------------------------------------------------------------
(* The triage page.  A request under way is "sent" until the API has acted  *)
(* on it and "answered" until the page has the answer.  A suggestion holds  *)
(* the case it is about and whether the page was turned to another while it *)
(* was being made.                                                          *)

Quiet == [stage |-> "none"]

\* deriveTriageSuggestion: any flag or keyword escalates; with none of them there
\* is no rationale, so that TIER_B is never suggested.
Suggested(signals) == IF signals # {} THEN "HIGH" ELSE "LOW"

Latest(rows) == IF rows = {} THEN None ELSE CHOOSE c \in rows : \A d \in rows : d <= c

Crossed == IF suggest.stage = "none" THEN suggest ELSE [suggest EXCEPT !.crossed = TRUE]

\* Faulty: the suggestion stays on screen.
TurnedOnly(c) == chosen' = c /\ suggest' = Crossed /\ UNCHANGED suggestion

\* Another case on screen: what was suggested for the last one goes, but not what
\* is still being suggested.
Turned(c) == chosen' = c /\ suggest' = Crossed /\ suggestion' = None

\* fetchCases.
Fetch == loading' = TRUE /\ fetches' = Append(fetches, Quiet)

\* The Refresh button, disabled while a list is loading.
RefreshInbox ==
  /\ errand = "triage" /\ ~loading /\ Len(fetches) < MaxFetches
  /\ Fetch
  /\ UNCHANGED <<errand, cases, req, walk, inbox, chosen, suggestion, suggest, confirm>>

\* The API reads the first page of those that need triage.
ReadInbox(k) ==
  /\ fetches[k].stage = "none"
  /\ fetches' = [fetches EXCEPT ![k] = [stage |-> "answered",
                                        rows |-> FirstOf(Matching("needs triage"), InboxSize)]]
  /\ UNCHANGED <<errand, cases, req, walk, inbox, loading, chosen, suggestion, suggest, confirm>>

\* The list that arrives last is shown, and its first case chosen.
ShowInbox(k) ==
  /\ fetches[k].stage = "answered"
  /\ inbox' = fetches[k].rows /\ loading' = FALSE /\ fetches' = RemoveAt(fetches, k)
  /\ Turned(Latest(fetches[k].rows))
  /\ UNCHANGED <<errand, cases, req, walk, confirm>>

\* The rows are hidden while a list is loading.
PickCase(c) ==
  /\ c \in inbox /\ ~loading
  /\ Turned(c)
  /\ UNCHANGED <<errand, cases, req, walk, list, confirm>>

\* requestSuggestion; its button is disabled while one is under way.
RequestSuggestion(signals) ==
  /\ chosen # None /\ suggest.stage = "none"
  /\ suggest' = [stage |-> "sent", of |-> chosen, tier |-> Suggested(signals), crossed |-> FALSE]
  /\ UNCHANGED <<errand, cases, req, walk, list, chosen, suggestion, confirm>>

\* suggestTier: the case and its TRIAGE_SUGGESTED event.
ServeSuggestion ==
  /\ suggest.stage = "sent"
  /\ cases' = [cases EXCEPT ![suggest.of].tier = suggest.tier]
  /\ suggest' = [suggest EXCEPT !.stage = "answered"]
  /\ UNCHANGED <<errand, req, walk, list, chosen, suggestion, confirm>>

\* Its answer, shown whatever case is chosen by now; or an error.
ShowSuggestion ==
  /\ suggest.stage # "none"
  /\ \/ /\ suggest.stage = "answered"
        /\ suggestion' = [of |-> suggest.of, crossed |-> suggest.crossed]
     \/ UNCHANGED suggestion
  /\ suggest' = Quiet
  /\ UNCHANGED <<errand, cases, req, walk, list, chosen, confirm>>

\* confirmTier of the page, with the rationale of the suggestion on screen.
SendConfirm(tier) ==
  /\ chosen # None /\ confirm.stage = "none"
  /\ confirm' = [stage |-> "sent", of |-> chosen, tier |-> tier, rationale |-> suggestion]
  /\ UNCHANGED <<errand, cases, req, walk, list, chosen, suggestion, suggest>>

\* confirmTier of the API: the case and its TRIAGE_CONFIRMED event.
ServeConfirm ==
  /\ confirm.stage = "sent"
  /\ cases' = [cases EXCEPT ![confirm.of] =
                 [@ EXCEPT !.tier = confirm.tier, !.confirmed = TRUE,
                           !.rationale = confirm.rationale]]
  /\ confirm' = [confirm EXCEPT !.stage = "answered"]
  /\ UNCHANGED <<errand, req, walk, list, chosen, suggestion, suggest>>

\* Its answer: the suggestion on screen goes and the inbox is fetched again; or an
\* error, which changes nothing.
ShowConfirm ==
  /\ confirm.stage # "none"
  /\ \/ /\ confirm.stage = "answered" /\ Len(fetches) < MaxFetches
        /\ Fetch
        /\ suggestion' = None
     \/ UNCHANGED <<loading, fetches, suggestion>>
  /\ confirm' = Quiet
  /\ UNCHANGED <<errand, cases, req, walk, inbox, chosen, suggest>>

\* A list that could not be loaded: the one on screen stays.
LoseInbox(k) ==
  /\ loading' = FALSE /\ fetches' = RemoveAt(fetches, k)
  /\ UNCHANGED <<errand, cases, req, walk, inbox, chosen, suggestion, suggest, confirm>>

-----------------------------------------------------------------------------
\* The triage page is opened with its inbox being fetched.
Init ==
  /\ errand \in Errands
  /\ cases = [i \in DOMAIN Earlier |-> NewCase(Earlier[i])]
  /\ req = [r \in Requests |-> Idle]
  /\ walk = NoWalk
  /\ inbox = {} /\ loading = TRUE /\ fetches = <<Quiet>>
  /\ chosen = None /\ suggestion = None
  /\ suggest = Quiet /\ confirm = Quiet

Intake ==
  \E r \in Requests :
    \/ errand = "create" /\ \E meant \in Meant : \E ref \in Typed(meant) : GiveRef(r, meant, ref)
    \/ errand = "walk" /\ \E meant \in Meant : GiveRef(r, meant, meant)
    \/ \E jur \in Jurisdictions, block \in Blocks : Generate(r, jur, block)
    \/ Create(r)

Walking ==
  \/ \E filter \in {"all", "DISCOVERED"} : StartWalk(filter)
  \/ FindPage \/ NextPage
  \/ \E c \in DOMAIN cases : MoveOn(c)

Triaging ==
  \/ RefreshInbox
  \/ \E k \in DOMAIN fetches : ReadInbox(k) \/ ShowInbox(k) \/ LoseInbox(k)
  \/ \E c \in DOMAIN cases : PickCase(c)
  \/ \E signals \in {{}, {"probateFlag"}} : RequestSuggestion(signals)
  \/ ServeSuggestion \/ ShowSuggestion
  \/ \E tier \in Confirmable : SendConfirm(tier)
  \/ ServeConfirm \/ ShowConfirm

Next ==
  \/ Intake
  \/ Walking
  \/ errand = "triage" /\ Triaging

Spec == Init /\ [][Next]_vars

-----------------------------------------------------------------------------
Refs == [jur : Jurisdictions, block : [1..BlockLength -> 0..35], check : 0..35]
Suggestions == [of : DOMAIN cases, crossed : BOOLEAN] \cup {None}
\* The state of cases, requests, reader and triage page is what the code can hold.
TypeOK ==
  /\ errand \in Errands
  /\ cases \in Seq([ref : Refs, status : {"DISCOVERED", "TRIAGED"}, tier : {"LOW", "MEDIUM", "HIGH"},
                    confirmed : BOOLEAN, rationale : Suggestions])
  /\ req \in [Requests -> [stage : {"idle", "generating", "resolved", "done"},
                           ref : Refs \cup {NoRef}, meant : Refs \cup {NoRef},
                           tries : 0..Attempts,
                           answer : {"none", "invalid", "conflict", "not enabled", "error", "created"}]]
  /\ walk \in [stage : {"none", "counted", "shown"}, filter : {"all", "DISCOVERED"},
               page : Nat, total : Nat, start : SUBSET DOMAIN cases, seen : SUBSET DOMAIN cases,
               torn : BOOLEAN, left : BOOLEAN]
  /\ inbox \subseteq DOMAIN cases /\ loading \in BOOLEAN
  /\ fetches \in Seq({Quiet} \cup [stage : {"answered"}, rows : SUBSET DOMAIN cases])
  /\ chosen \in DOMAIN cases \cup {None} /\ suggestion \in Suggestions
  /\ suggest \in {Quiet} \cup [stage : {"sent", "answered"}, of : DOMAIN cases,
                                tier : {"LOW", "HIGH"}, crossed : BOOLEAN]
  /\ confirm \in {Quiet} \cup [stage : {"sent", "answered"}, of : DOMAIN cases,
                                tier : Confirmable, rationale : Suggestions]

Made == { r \in Requests : req[r].answer = "created" }

\* Two calls of createCase that find the same reference free (given twice, or drawn
\* twice) make one case: no two cases share a reference, no two callers are told
\* that they created it, and every case that came is one caller's.
CreatedOnce ==
  /\ IsInjective([c \in DOMAIN cases |-> cases[c].ref])
  /\ \A q, r \in Made : q # r => req[q].ref # req[r].ref
  /\ Len(cases) = Len(Earlier) + Cardinality(Made)

\* A reference in which one symbol was mistyped makes no case: whoever is told that a
\* case was created gave the reference they meant (the check digit of caseRef.ts).
MistypedRefused == \A r \in Made : req[r].meant # NoRef => req[r].ref = req[r].meant

\* A reader who turned every page of the list has seen each case that was there at
\* the start, although others came meanwhile: unless a case came between the two
\* statements of the last page, or left the filter.
WalkComplete ==
  walk.stage = "shown" /\ walk.page >= TotalPages(walk.total) /\ ~walk.torn /\ ~walk.left
    => walk.start \subseteq walk.seen

\* The rationale confirmed for a case is the one suggested for it, or none: unless
\* the page was turned to another case while the suggestion was being made.
RationaleOwn ==
  \A c \in DOMAIN cases :
    \/ cases[c].rationale = None
    \/ cases[c].rationale.of = c
    \/ cases[c].rationale.crossed

\* "On case creation (ingestion or manual), assign caseRef if missing": a call that
\* leaves the reference to the API for a county that is enabled is not refused for it.
GeneratedAccepted ==
  \A r \in Requests :
    req[r].answer = "invalid" /\ req[r].meant = NoRef => req[r].ref.jur \notin Enabled

=============================================================================
