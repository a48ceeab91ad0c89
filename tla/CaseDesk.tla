------------------------------ MODULE CaseDesk ------------------------------
(***************************************************************************)
(* The Cases page of the web client (apps/web/src/pages/cases.tsx) and as  *)
(* much of the API as its panes depend on.  One operator looks at one case *)
(* at a time.  Selecting a case asks for its detail, and the answer makes  *)
(* React's effects ask for the other panes.  No request is ever cancelled, *)
(* no answer is compared with the case on screen, and answers arrive in    *)
(* any order: a pane shows whatever arrived last.                          *)
(*                                                                         *)
(* The page is modelled from the moment that its templates and             *)
(* jurisdictions have been loaded.  selectedCase and selectedRef are set   *)
(* in one batch, hence one variable.  A case's metadata names a            *)
(* jurisdiction that has a rule (Ruled), or none: then no answer about its *)
(* documents brings a checklist, and the page asks for the rules of the    *)
(* first jurisdiction of its list instead.                                 *)
(***************************************************************************)
EXTENDS Naturals, FiniteSets, Bags, Functions

CONSTANTS
  Cases,         \* the cases of the list
  FirstCase,     \* the first row of the list
  Documents,     \* rows that uploads may create
  Owner,         \* the case that an upload of the row is addressed to
  Templates,     \* mail templates
  HighRisk,      \* the cases of tier HIGH or ENTERPRISE
  Ruled,         \* the cases whose metadata names their jurisdiction
  None,
  Errands,       \* bound: what the operator does in one behaviour, sets of commands
  MaxClicks,     \* bound: clicks of the operator
  MaxUnderWay,   \* bound: requests in flight when the operator clicks
  MaxFailures    \* bound: requests that fail

ASSUME DeskConstants ==
  /\ FirstCase \in Cases /\ HighRisk \subseteq Cases /\ Ruled \subseteq Cases
  /\ Owner \in [Documents -> Cases]
  /\ None \notin Cases \cup Documents \cup Templates
  /\ MaxClicks \in Nat /\ MaxUnderWay \in Nat /\ MaxFailures \in Nat

VARIABLES
  stored,        \* Document rows: their status
  evidence,      \* the rows that recordSubmission has filed
  net,           \* requests in flight, a bag
  listed,        \* caseList is filled
  loadingList, loadingDetail, uploadingDoc,
  selected,      \* selectedCase, selectedRef
  documents,     \* the documents pane: rows and their status
  checklist,     \* the checklist pane: whose it is, and the documents it ticks off
  payoutSummary, \* the case whose payouts are shown
  communicationHistory, \* the case whose mail is shown
  draft,         \* selectedTemplateId and the edits of templateVariables
  communicationPreview,
  errand,        \* the operator's errand
  clicks, failures,
  overtaken      \* history: panes with two answers under way at once, or a failed one

desk == <<listed, loadingList, loadingDetail, uploadingDoc, selected>>
panes == <<documents, checklist, payoutSummary, communicationHistory>>
mail == <<draft, communicationPreview>>
server == <<stored, evidence>>
vars == <<server, net, desk, panes, mail, errand, clicks, failures, overtaken>>

-----------------------------------------------------------------------------
(* Requests.  One that the API answers from its documents is served before *)
(* its answer is on the way; of the others the answer only tells the case. *)

NoDraft == [template |-> None, edits |-> 0]
NoPreview == [of |-> None, template |-> None, edits |-> 0]
NoChecklist == [of |-> None, ticked |-> {}]

Ask(kind, c) ==
  [kind |-> kind, of |-> c, doc |-> None, status |-> "PENDING", draft |-> NoDraft,
   after |-> "nothing", served |-> FALSE, answer |-> <<>>]

AskDetail(c, after) == [Ask("detail", c) EXCEPT !.after = after]

\* An answer about the documents of a case without a jurisdiction brings no checklist.
FeedsDocuments(c) == IF c \in Ruled THEN {"documents", "checklist"} ELSE {"documents"}

\* The panes that an answer, or what its handler goes on to ask, is written to.
Feeds(r) ==
  CASE r.kind \in {"documents", "upload", "review"} -> FeedsDocuments(r.of)
    [] r.kind = "rules" -> {"checklist"}
    [] r.kind \in {"payouts", "payout"} \/ r.after = "payouts" -> {"payouts"}
    [] r.kind \in {"history", "send"} -> {"history"}
    [] r.kind = "plan" -> {"preview"}
    [] OTHER -> {}

Served == {"documents", "rules", "upload", "review", "submission"}

Fed(bag) == UNION { Feeds(r) : r \in BagToSet(bag) }

Without(r) == net (-) SetToBag({r})

\* Requests leave while others are under way: rest.
Issue(requests, rest) ==
  /\ net' = rest (+) SetToBag(requests)
  /\ overtaken' = overtaken \cup (Fed(SetToBag(requests)) \cap Fed(rest))

-----------------------------------------------------------------------------
(* The API. *)

Listing(c) == Restrict(stored, { d \in DOMAIN stored : Owner[d] = c })

Ticked(listing) ==
  { d \in DOMAIN listing : d \notin evidence /\ listing[d] # "REJECTED" }

Answered(r, listing) ==
  net' = Without(r) (+) SetToBag({[r EXCEPT !.served = TRUE, !.answer = listing]})

\* The rows with one that has just been uploaded.
WithUpload(rows, doc) ==
  [d \in DOMAIN rows \cup {doc} |-> IF d = doc THEN "PENDING" ELSE rows[d]]

\* listDocuments, and the rules' checklist merged with the documents.
ServeListing(r) ==
  /\ r.kind \in {"documents", "rules"}
  /\ Answered(r, Listing(r.of))
  /\ UNCHANGED server

\* validateDocType has no place for the evidence of a submission in a checklist.
Refused(r) == r.kind = "submission" /\ r.of \in Ruled

\* uploadDocument; recordSubmission files its evidence the same way.
ServeUpload(r) ==
  /\ r.kind \in {"upload", "submission"}
  /\ ~Refused(r)
  /\ stored' = WithUpload(stored, r.doc)
  /\ evidence' = IF r.kind = "submission" THEN evidence \cup {r.doc} ELSE evidence
  /\ Answered(r, Listing(r.of)')

\* Faulty: the document is looked up by its id alone.
FoundById(c, d) == d \in DOMAIN stored

\* The document of a review, looked up by id and case.
Found(c, d) == d \in DOMAIN stored /\ Owner[d] = c

\* reviewDocument, when it finds the document.
ServeReview(r) ==
  /\ r.kind = "review"
  /\ Found(r.of, r.doc)
  /\ stored' = [stored EXCEPT ![r.doc] = r.status]
  /\ Answered(r, Listing(r.of)')
  /\ UNCHANGED evidence

Serve ==
  \E r \in BagToSet(net) :
    /\ ~r.served
    /\ ServeListing(r) \/ ServeUpload(r) \/ ServeReview(r)
    /\ UNCHANGED <<desk, panes, mail, errand, clicks, failures, overtaken>>

-----------------------------------------------------------------------------
(* Answers.  r has just been taken off the net. *)

\* fetchCases, with the effect that opens the first case of the list while
\* none is selected.
ShowList(r) ==
  /\ r.kind = "list"
  /\ listed' = TRUE /\ loadingList' = FALSE
  /\ IF selected = None
     THEN /\ Issue({AskDetail(FirstCase, "nothing")}, Without(r))
          /\ loadingDetail' = TRUE
     ELSE Issue({}, Without(r)) /\ UNCHANGED loadingDetail
  /\ UNCHANGED <<server, uploadingDoc, selected, panes, mail>>

\* What follows fetchCaseDetail in the handler that awaits it.
FollowUps(r) ==
  CASE r.after = "payouts" -> {Ask("payouts", r.of)}
    [] r.after = "list" -> {Ask("list", None)}
    [] OTHER -> {}

\* Faulty: payouts are asked for only while none are shown.
PanesOnce(c) ==
  { Ask(kind, c) : kind \in {"documents", "history"} \cup IF payoutSummary = None THEN {"payouts"} ELSE {} }

\* The effects on selectedRef.
PanesOf(c) == { Ask(kind, c) : kind \in {"documents", "payouts", "history"} }

\* fetchCaseDetail.  Another case clears the mail that was being written.  A
\* pane is sound again when nothing was on the way to it as the case changed.
ShowDetail(r) ==
  LET rest == Without(r) (+) SetToBag(FollowUps(r))
      rules == Ask("rules", r.of) IN
  /\ r.kind = "detail"
  /\ selected' = r.of
  /\ loadingDetail' = FALSE
  /\ loadingList' = (loadingList \/ r.after = "list")
  /\ IF r.of = selected
     THEN Issue({rules} \cup FollowUps(r), Without(r)) /\ UNCHANGED mail
     ELSE /\ net' = rest (+) SetToBag({rules} \cup PanesOf(r.of))
          /\ overtaken' = Fed(rest)
          /\ draft' = NoDraft
          /\ communicationPreview' = NoPreview
  /\ UNCHANGED <<server, listed, uploadingDoc, panes>>

\* loadRulesForCase.
ShowRules(r) ==
  /\ r.kind = "rules"
  /\ checklist' = [of |-> r.of, ticked |-> Ticked(r.answer)]
  /\ Issue({}, Without(r))
  /\ UNCHANGED <<server, desk, documents, payoutSummary, communicationHistory, mail>>

\* The checklist of an answer about documents, if it has one.
Progress(r) ==
  IF r.of \in Ruled THEN [of |-> r.of, ticked |-> Ticked(r.answer)] ELSE checklist

\* fetchDocuments: the second writer of the checklist.
ShowDocuments(r) ==
  /\ r.kind = "documents"
  /\ documents' = r.answer
  /\ checklist' = Progress(r)
  /\ Issue({}, Without(r))
  /\ UNCHANGED <<server, desk, payoutSummary, communicationHistory, mail>>

\* The uploaded document goes to the front of whatever is listed by now.
Prepended(r) == WithUpload(documents, r.doc)

\* handleDocumentUpload, onload.
ShowUpload(r) ==
  /\ r.kind = "upload"
  /\ documents' = Prepended(r)
  /\ checklist' = Progress(r)
  /\ uploadingDoc' = FALSE
  /\ Issue({}, Without(r))
  /\ UNCHANGED <<server, listed, loadingList, loadingDetail, selected, payoutSummary,
                 communicationHistory, mail>>

\* handleReview: the reviewed document, if it is still listed.
ShowReview(r) ==
  /\ r.kind = "review"
  /\ documents' = [d \in DOMAIN documents |-> IF d = r.doc THEN r.status ELSE documents[d]]
  /\ checklist' = Progress(r)
  /\ Issue({}, Without(r))
  /\ UNCHANGED <<server, desk, payoutSummary, communicationHistory, mail>>

\* fetchPayouts, and the payout of handleConfirmPayout's answer, after which
\* the detail and the payouts are asked for again.
ShowPayouts(r) ==
  /\ r.kind \in {"payouts", "payout"}
  /\ payoutSummary' = r.of
  /\ IF r.kind = "payout"
     THEN Issue({AskDetail(r.of, "payouts")}, Without(r)) /\ loadingDetail' = TRUE
     ELSE Issue({}, Without(r)) /\ UNCHANGED loadingDetail
  /\ UNCHANGED <<server, listed, loadingList, uploadingDoc, selected, documents, checklist,
                 communicationHistory, mail>>

\* fetchCommunicationHistory.
ShowHistory(r) ==
  /\ r.kind = "history"
  /\ communicationHistory' = r.of
  /\ Issue({}, Without(r))
  /\ UNCHANGED <<server, desk, documents, checklist, payoutSummary, mail>>

\* planCommunication.
ShowPreview(r) ==
  /\ r.kind = "plan"
  /\ communicationPreview' = [of |-> r.of, template |-> r.draft.template, edits |-> r.draft.edits]
  /\ Issue({}, Without(r))
  /\ UNCHANGED <<server, desk, panes, draft>>

\* The commands that ask for what they may have changed: handleMarkSubmitted
\* and handleTransition for the detail, sendCommunication for the mail.
GoOn(r) ==
  /\ \/ /\ r.kind = "send"
        /\ Issue({Ask("history", r.of)}, Without(r))
        /\ UNCHANGED loadingDetail
     \/ /\ r.kind \in {"submission", "transition"}
        /\ Issue({AskDetail(r.of, IF r.kind = "transition" THEN "list" ELSE "nothing")}, Without(r))
        /\ loadingDetail' = TRUE
  /\ UNCHANGED <<server, listed, loadingList, uploadingDoc, selected, panes, mail>>

Deliver ==
  \E r \in BagToSet(net) :
    /\ r.kind \in Served => r.served
    /\ \/ ShowList(r) \/ ShowDetail(r) \/ ShowRules(r) \/ ShowDocuments(r) \/ ShowUpload(r)
       \/ ShowReview(r) \/ ShowPayouts(r) \/ ShowHistory(r) \/ ShowPreview(r) \/ GoOn(r)
    /\ UNCHANGED <<errand, clicks, failures>>

\* A request or its answer is lost, or the API refuses: the catch and finally
\* of the handler.  The panes keep what they show, but for the checklist when
\* the rules fail.  fetchCaseDetail swallows its error: its handler goes on.
Fail ==
  \E r \in BagToSet(net) :
    LET follow == IF r.kind = "detail" THEN FollowUps(r) ELSE {}
        rest == Without(r) IN
    /\ \/ failures < MaxFailures /\ failures' = failures + 1
       \/ /\ ~r.served
          /\ (r.kind = "review" /\ ~Found(r.of, r.doc)) \/ Refused(r)
          /\ UNCHANGED failures
    /\ net' = rest (+) SetToBag(follow)
    /\ overtaken' = overtaken \cup Feeds(r) \cup (Fed(SetToBag(follow)) \cap Fed(rest))
    /\ checklist' = IF r.kind = "rules" THEN NoChecklist ELSE checklist
    /\ loadingDetail' = (loadingDetail /\ r.kind \notin {"detail", "transition"})
    /\ loadingList' = ((loadingList /\ r.kind # "list") \/ r.after = "list")
    /\ uploadingDoc' = (uploadingDoc /\ r.kind # "upload")
    /\ UNCHANGED <<server, listed, selected, documents, payoutSummary, communicationHistory,
                   mail, errand, clicks>>

-----------------------------------------------------------------------------
(* Clicks. *)

Click ==
  /\ clicks < MaxClicks /\ clicks' = clicks + 1
  /\ BagCardinality(net) <= MaxUnderWay
  /\ UNCHANGED <<server, errand, failures, panes>>

\* The detail pane and its buttons are hidden while a detail is loading.
CaseOnScreen == selected # None /\ ~loadingDetail

\* A row of the list.
SelectCase(c) ==
  /\ listed /\ ~loadingList
  /\ Click
  /\ Issue({AskDetail(c, "nothing")}, net)
  /\ loadingDetail' = TRUE
  /\ UNCHANGED <<listed, loadingList, uploadingDoc, selected, mail>>

\* The Refresh button.
RefreshList ==
  /\ ~loadingList
  /\ Click
  /\ Issue({Ask("list", None)}, net)
  /\ loadingList' = TRUE
  /\ UNCHANGED <<listed, loadingDetail, uploadingDoc, selected, mail>>

\* A row that no upload has created or is about to create.
Fresh(d) ==
  /\ Owner[d] = selected
  /\ d \notin DOMAIN stored
  /\ \A r \in BagToSet(net) : r.doc # d

\* handleDocumentUpload.
Upload(d) ==
  /\ "upload" \in errand
  /\ CaseOnScreen /\ ~uploadingDoc /\ Fresh(d)
  /\ Click
  /\ Issue({[Ask("upload", selected) EXCEPT !.doc = d]}, net)
  /\ uploadingDoc' = TRUE
  /\ UNCHANGED <<listed, loadingList, loadingDetail, selected, mail>>

\* handleMarkSubmitted.
MarkSubmitted(d) ==
  /\ "submission" \in errand
  /\ CaseOnScreen /\ Fresh(d)
  /\ Click
  /\ Issue({[Ask("submission", selected) EXCEPT !.doc = d]}, net)
  /\ UNCHANGED <<desk, mail>>

\* handleReview: a document of those listed, addressed to the case on screen.
Review(d, status) ==
  /\ "review" \in errand
  /\ CaseOnScreen /\ d \in DOMAIN documents
  /\ Click
  /\ Issue({[Ask("review", selected) EXCEPT !.doc = d, !.status = status]}, net)
  /\ UNCHANGED <<desk, mail>>

\* handleConfirmPayout.
ConfirmPayout ==
  /\ "payout" \in errand
  /\ CaseOnScreen
  /\ Click
  /\ Issue({Ask("payout", selected)}, net)
  /\ UNCHANGED <<desk, mail>>

\* handleTransition.
Transition ==
  /\ "transition" \in errand
  /\ CaseOnScreen
  /\ Click
  /\ Issue({Ask("transition", selected)}, net)
  /\ loadingDetail' = TRUE
  /\ UNCHANGED <<listed, loadingList, uploadingDoc, selected, mail>>

\* handleTemplateSelection: a preview starts over.
SelectTemplate(t) ==
  /\ "send" \in errand
  /\ CaseOnScreen
  /\ Click
  /\ draft' = [template |-> t, edits |-> 0]
  /\ communicationPreview' = NoPreview
  /\ overtaken' = (overtaken \ {"preview"}) \cup (Fed(net) \cap {"preview"})
  /\ UNCHANGED <<net, desk>>

\* handleVariableChange: a preview stays.
EditVariables ==
  /\ CaseOnScreen /\ draft.template # None
  /\ Click
  /\ draft' = [draft EXCEPT !.edits = @ + 1]
  /\ overtaken' = IF communicationPreview # NoPreview \/ "preview" \in Fed(net)
                  THEN overtaken \cup {"preview"} ELSE overtaken
  /\ UNCHANGED <<net, desk, communicationPreview>>

\* planCommunication.
PlanCommunication ==
  /\ CaseOnScreen /\ draft.template # None
  /\ Click
  /\ Issue({[Ask("plan", selected) EXCEPT !.draft = draft]}, net)
  /\ UNCHANGED <<desk, mail>>

\* Faulty: the tier is looked at, the preview is not.
SendableUnseen(c) == TRUE

\* A case of high risk needs a preview.
Sendable(c) == c \in HighRisk => communicationPreview # NoPreview

\* sendCommunication.
SendCommunication ==
  /\ CaseOnScreen /\ draft.template # None
  /\ Sendable(selected)
  /\ Click
  /\ Issue({[Ask("send", selected) EXCEPT !.draft = draft]}, net)
  /\ UNCHANGED <<desk, mail>>

-----------------------------------------------------------------------------
Init ==
  /\ stored = <<>> /\ evidence = {}
  /\ net = SetToBag({Ask("list", None)})
  /\ listed = FALSE /\ loadingList = TRUE
  /\ loadingDetail = FALSE /\ uploadingDoc = FALSE
  /\ selected = None
  /\ documents = <<>> /\ checklist = NoChecklist
  /\ payoutSummary = None /\ communicationHistory = None
  /\ draft = NoDraft /\ communicationPreview = NoPreview
  /\ errand \in Errands /\ clicks = 0 /\ failures = 0
  /\ overtaken = {}

Next ==
  \/ Serve \/ Deliver \/ Fail
  \/ \E c \in Cases : SelectCase(c)
  \/ RefreshList
  \/ \E d \in Documents : Upload(d) \/ MarkSubmitted(d)
  \/ \E d \in Documents, status \in {"APPROVED", "REJECTED"} : Review(d, status)
  \/ ConfirmPayout \/ Transition
  \/ \E t \in Templates : SelectTemplate(t)
  \/ EditVariables \/ PlanCommunication \/ SendCommunication

Spec == Init /\ [][Next]_vars

-----------------------------------------------------------------------------
(* Correctness. *)

Settled(pane) == pane \notin overtaken /\ pane \notin Fed(net)

\* Every pane shows the case on screen, and the documents and the checklist
\* show it as it is stored (evidence of a submission apart, which no answer
\* brings before the case is selected anew), unless two answers were on their
\* way to the pane at once or one of its requests failed: the effects of
\* cases.tsx ask for the right panes, and only overtaking and errors can spoil
\* them.  Of a case without a jurisdiction the checklist need not be as it is
\* stored: an upload or a review leaves it as the rules have filled it.
PanesTrue ==
  selected # None =>
    /\ Settled("documents") =>
         /\ \A d \in DOMAIN documents : d \in DOMAIN Listing(selected) /\ documents[d] = stored[d]
         /\ DOMAIN Listing(selected) \ evidence \subseteq DOMAIN documents
    /\ Settled("checklist") =>
         /\ checklist.of = selected
         /\ checklist.ticked \subseteq DOMAIN Listing(selected)
         /\ selected \in Ruled => checklist.ticked = Ticked(Listing(selected))
    /\ Settled("payouts") => payoutSummary = selected
    /\ Settled("history") => communicationHistory = selected

\* A click on a document of a pane that has been overtaken may name a document
\* of one case and the reference of another: the API must not change a
\* document on a request that was made on another case's screen.
ReviewsInPlace ==
  [][\A d \in DOMAIN stored : stored'[d] # stored[d] =>
       \E r \in BagToSet(net) : r.kind = "review" /\ r.doc = d /\ r.of = Owner[d]]_vars

Sends(bag) == { r \in BagToSet(bag) : r.kind = "send" }

\* "Preview is required before sending high-risk communications": what leaves
\* for a case of high risk is what the preview on screen shows, for that case,
\* unless the preview was late or the text was edited after it.
SentAsPreviewed ==
  [][\A r \in Sends(net') \ Sends(net) :
       r.of \in HighRisk /\ Settled("preview") =>
         communicationPreview =
           [of |-> r.of, template |-> r.draft.template, edits |-> r.draft.edits]]_vars

=============================================================================
