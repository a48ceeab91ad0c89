----------------------------- MODULE DeskProofs ------------------------------
(***************************************************************************)
(* Theorems about CaseDesk, for any cases, documents and templates, any    *)
(* number of clicks and of requests under way: what the panes show, what a *)
(* review may change, and what mail of high risk leaves as.                *)
(***************************************************************************)
EXTENDS CaseDesk, TLAPS

Kinds == {"list", "detail", "documents", "rules", "payouts", "history", "upload", "submission",
          "review", "payout", "transition", "plan", "send"}

\* A request, whatever it is about; handlers await a detail only.
Shaped(r) ==
  /\ r \in [kind : Kinds, of : {r.of}, doc : {r.doc}, status : {r.status}, draft : {r.draft},
            after : {"nothing", "payouts", "list"}, served : BOOLEAN, answer : {r.answer}]
  /\ r.kind # "detail" => r.after = "nothing"

\* What is in flight is requests; each of them once or more often.
Flying(bag) == \A r \in DOMAIN bag : Shaped(r) /\ bag[r] \in Nat \ {0}

Filing == {"upload", "submission"}

\* A document is filed by one request only, once, for the case that owns it.
FiledOnce ==
  \A r \in DOMAIN net : r.kind \in Filing =>
    /\ net[r] = 1 /\ r.doc \in Documents /\ r.of = Owner[r.doc]
    /\ ~r.served => r.doc \notin DOMAIN stored
    /\ \A q \in DOMAIN net : q.kind \in Filing /\ q.doc = r.doc => q = r

\* What is under way to a pane is for case c.
Addressed(bag, pane, c) == \A r \in DOMAIN bag : pane \in Feeds(r) => r.of = c

\* One request at most is under way to a pane.
Alone(bag, pane) ==
  \A r, q \in DOMAIN bag : pane \in Feeds(r) /\ pane \in Feeds(q) => q = r /\ bag[r] = 1

Writes(r) == r.kind \in {"upload", "review"}

\* A command that changes documents, if its answer has a checklist.
Rewrites(r) == Writes(r) /\ "checklist" \in Feeds(r)

\* It is under way to the checklist by itself.
WriterAlone(bag) ==
  \A r, q \in DOMAIN bag : Rewrites(r) /\ "checklist" \in Feeds(q) => q = r /\ bag[r] = 1

\* The panes that have not been overtaken.
Ways(bag, over, c) ==
  /\ \A pane \in {"documents", "payouts", "history"} \ over :
       Addressed(bag, pane, c) /\ Alone(bag, pane)
  /\ "checklist" \notin over => Addressed(bag, "checklist", c) /\ WriterAlone(bag)

\* Rows that are the documents of case c as they are stored, evidence apart.
Shows(rows, rowsStored, filed, c) ==
  /\ \A d \in DOMAIN rows :
       d \in DOMAIN rowsStored /\ Owner[d] = c /\ rows[d] = rowsStored[d]
  /\ \A d \in DOMAIN rowsStored : Owner[d] = c /\ d \notin filed => d \in DOMAIN rows

\* The documents of case c that its checklist ticks off.
Standing(rowsStored, filed, c) ==
  { d \in DOMAIN rowsStored : Owner[d] = c /\ d \notin filed /\ rowsStored[d] # "REJECTED" }

\* The rows of the documents pane once the answer r has arrived.
Result(rows, r) ==
  CASE r.kind = "upload" -> WithUpload(rows, r.doc)
    [] r.kind = "review" -> [d \in DOMAIN rows |-> IF d = r.doc THEN r.status ELSE rows[d]]
    [] OTHER -> r.answer

\* Rows of documents of case c, and those it has, as far as its checklist is kept up to date.
Told(rows, rowsStored, filed, c) ==
  /\ \A d \in DOMAIN rows : d \in DOMAIN rowsStored /\ Owner[d] = c
  /\ c \in Ruled => Shows(rows, rowsStored, filed, c)

\* A checklist of documents of case c, and of those it has, as far as it is kept up to date.
Ticking(list, rowsStored, filed, c) ==
  /\ list.of = c
  /\ \A d \in list.ticked : d \in DOMAIN rowsStored /\ Owner[d] = c
  /\ c \in Ruled => list.ticked = Standing(rowsStored, filed, c)

\* The documents pane: each answer on its way will make it show the case, and it does so
\* while nothing is under way to it but a command that has not been served.
RowsTrue(bag, rows, rowsStored, filed, c) ==
  /\ \A r \in DOMAIN bag :
       r.served /\ "documents" \in Feeds(r) => Shows(Result(rows, r), rowsStored, filed, c)
  /\ (\A r \in DOMAIN bag : "documents" \in Feeds(r) => Writes(r) /\ ~r.served)
       => Shows(rows, rowsStored, filed, c)

\* The checklist: each answer on its way tells what is stored, and so does the pane while
\* nothing is under way to it.
TicksTrue(bag, list, rowsStored, filed, c) ==
  /\ \A r \in DOMAIN bag :
       r.served /\ "checklist" \in Feeds(r) => Told(r.answer, rowsStored, filed, c)
  /\ "checklist" \notin Fed(bag) => Ticking(list, rowsStored, filed, c)

PanesRight ==
  /\ "documents" \notin overtaken => RowsTrue(net, documents, stored, evidence, selected)
  /\ "checklist" \notin overtaken => TicksTrue(net, checklist, stored, evidence, selected)
  /\ "payouts" \notin overtaken \cup Fed(net) => payoutSummary = selected
  /\ "history" \notin overtaken \cup Fed(net) => communicationHistory = selected

\* What the preview shows, or is about to show, is the draft for the case on screen.
Previewed ==
  "preview" \notin overtaken =>
    /\ \A r \in DOMAIN net : r.kind = "plan" => r.of = selected /\ r.draft = draft
    /\ communicationPreview # NoPreview =>
         communicationPreview =
           [of |-> selected, template |-> draft.template, edits |-> draft.edits]

\* The inductive invariant of the panes.
ScreenInv ==
  /\ Flying(net) /\ FiledOnce
  /\ selected # None => Ways(net, overtaken, selected) /\ PanesRight

------------------------------------------------------------------------------
(* Requests and bags of them *)

\* One copy of a request leaves.
LEMMA Taken ==
  ASSUME NEW bag, Flying(bag), NEW r \in DOMAIN bag
  PROVE  LET rest == bag (-) SetToBag({r}) IN
         /\ Flying(rest) /\ DOMAIN rest \subseteq DOMAIN bag
         /\ \A q \in DOMAIN bag : q # r => q \in DOMAIN rest /\ rest[q] = bag[q]
         /\ bag[r] = 1 => r \notin DOMAIN rest
         /\ \A q \in DOMAIN rest : bag[q] = 1 => rest[q] = 1
  <1> PICK rest : rest = bag (-) SetToBag({r})
    OBVIOUS
  <1> DEFINE left(q) == IF q \in {r} THEN bag[q] - 1 ELSE bag[q]
  <1>1. \A q \in DOMAIN bag : bag[q] \in Nat \ {0}
    BY DEF Flying
  <1>2. rest = [q \in { d \in DOMAIN bag : left(d) > 0 } |-> left(q)]
    <2> DEFINE one == SetToBag({r})
    <2>1. DOMAIN one = {r} /\ one[r] = 1
      BY DEF SetToBag
    <2> HIDE DEF one
    <2>2. rest = bag (-) one
      BY DEF one
    <2> QED
      BY <2>1, <2>2 DEF (-)
  <1>3. /\ \A q \in DOMAIN rest : q \in DOMAIN bag /\ left(q) > 0 /\ rest[q] = left(q)
        /\ \A q \in DOMAIN bag : left(q) > 0 => q \in DOMAIN rest
    BY <1>2
  <1>4. DOMAIN rest \subseteq DOMAIN bag
    BY <1>3
  <1>5. \A q \in DOMAIN bag : q # r => q \in DOMAIN rest /\ rest[q] = bag[q]
    BY <1>1, <1>3
  <1>6. \A q \in DOMAIN rest : rest[q] \in Nat \ {0} /\ (bag[q] = 1 => rest[q] = 1)
    BY <1>1, <1>3
  <1>7. bag[r] = 1 => r \notin DOMAIN rest
    BY <1>3
  <1>8. Flying(rest)
    BY <1>4, <1>6 DEF Flying
  <1> QED
    BY <1>4, <1>5, <1>6, <1>7, <1>8

\* A set of requests is sent.
LEMMA Added ==
  ASSUME NEW rest, Flying(rest), NEW S, \A q \in S : Shaped(q)
  PROVE  /\ Flying(rest (+) SetToBag(S)) /\ DOMAIN (rest (+) SetToBag(S)) = DOMAIN rest \cup S
         /\ \A q \in DOMAIN rest : q \notin S => (rest (+) SetToBag(S))[q] = rest[q]
         /\ \A q \in S : q \notin DOMAIN rest => (rest (+) SetToBag(S))[q] = 1
  <1> PICK more : more = rest (+) SetToBag(S)
    OBVIOUS
  <1> DEFINE ones == SetToBag(S)
  <1>1. DOMAIN ones = S /\ \A q \in S : ones[q] = 1
    BY DEF SetToBag
  <1> HIDE DEF ones
  <1>2. more = [q \in DOMAIN rest \cup S |-> (IF q \in DOMAIN rest THEN rest[q] ELSE 0)
                                              + (IF q \in S THEN ones[q] ELSE 0)]
    <2>1. more = rest (+) ones
      BY DEF ones
    <2> QED
      BY <1>1, <2>1 DEF (+)
  <1>3. \A q \in DOMAIN rest : rest[q] \in Nat \ {0}
    BY DEF Flying
  <1> QED
    BY <1>1, <1>2, <1>3 DEF Flying

LEMMA AddedOne ==
  ASSUME NEW rest, Flying(rest), NEW p, Shaped(p)
  PROVE  /\ Flying(rest (+) SetToBag({p})) /\ DOMAIN (rest (+) SetToBag({p})) = DOMAIN rest \cup {p}
         /\ \A q \in DOMAIN rest : q # p => (rest (+) SetToBag({p}))[q] = rest[q]
         /\ p \notin DOMAIN rest => (rest (+) SetToBag({p}))[p] = 1
  <1> PICK S : S = {p}
    OBVIOUS
  <1>1. Flying(rest) /\ \A q \in S : Shaped(q)
    OBVIOUS
  <1>2. /\ Flying(rest (+) SetToBag(S)) /\ DOMAIN (rest (+) SetToBag(S)) = DOMAIN rest \cup S
        /\ \A q \in DOMAIN rest : q \notin S => (rest (+) SetToBag(S))[q] = rest[q]
        /\ \A q \in S : q \notin DOMAIN rest => (rest (+) SetToBag(S))[q] = 1
    BY ONLY <1>1, Added, Zenon
  <1> QED
    BY <1>2

LEMMA Asking ==
  ASSUME NEW kind \in Kinds, NEW c
  PROVE  /\ Shaped(Ask(kind, c)) /\ Ask(kind, c).kind = kind /\ Ask(kind, c).of = c
         /\ Ask(kind, c).after = "nothing" /\ ~Ask(kind, c).served
  BY DEF Ask, Shaped

LEMMA AskingDetail ==
  ASSUME NEW c, NEW after \in {"nothing", "payouts", "list"}
  PROVE  /\ Shaped(AskDetail(c, after)) /\ AskDetail(c, after).kind = "detail"
         /\ AskDetail(c, after).of = c /\ AskDetail(c, after).after = after
         /\ ~AskDetail(c, after).served
  BY DEF Ask, AskDetail, Shaped, Kinds

LEMMA Following ==
  ASSUME NEW r, NEW q \in FollowUps(r)
  PROVE  /\ Shaped(q) /\ ~q.served /\ q.after = "nothing"
         /\ \/ q.kind = "payouts" /\ q.of = r.of /\ r.after = "payouts"
            \/ q.kind = "list" /\ r.after = "list"
  <1>1. "payouts" \in Kinds /\ "list" \in Kinds
    BY DEF Kinds
  <1> QED
    BY <1>1, Asking DEF FollowUps

\* What the handlers go on to ask for.
Asked == {"list", "detail", "documents", "rules", "payouts", "history"}

\* Requests leave, or are asked for by handlers.
Onward(bag, more) ==
  /\ Flying(more)
  /\ \A q \in DOMAIN more :
       \/ q \in DOMAIN bag /\ (q.kind \notin Asked /\ bag[q] = 1 => more[q] = 1)
       \/ q.kind \in Asked /\ ~q.served

AskedOnly(S) == \A q \in S : Shaped(q) /\ q.kind \in Asked /\ ~q.served

LEMMA OnwardTaken ==
  ASSUME NEW bag, Flying(bag), NEW r \in DOMAIN bag
  PROVE  Onward(bag, bag (-) SetToBag({r})) /\ Flying(bag (-) SetToBag({r}))
  <1> PICK rest : rest = bag (-) SetToBag({r})
    OBVIOUS
  <1>1. Onward(bag, rest) /\ Flying(rest)
    BY Taken DEF Onward
  <1> QED
    BY <1>1

LEMMA OnwardAdded ==
  ASSUME NEW bag, NEW rest, Onward(bag, rest), NEW S, AskedOnly(S)
  PROVE  Onward(bag, rest (+) SetToBag(S)) /\ Flying(rest (+) SetToBag(S))
  <1> PICK more : more = rest (+) SetToBag(S)
    OBVIOUS
  <1>1. \A q \in S : Shaped(q)
    BY DEF AskedOnly
  <1>2. Flying(rest)
    BY DEF Onward
  <1>3. /\ Flying(more) /\ DOMAIN more = DOMAIN rest \cup S
        /\ \A q \in DOMAIN rest : q \notin S => more[q] = rest[q]
    BY <1>1, <1>2, Added
  <1>4. Onward(bag, more)
    BY <1>3 DEF Onward, AskedOnly
  <1> QED
    BY <1>3, <1>4

LEMMA AskedSets ==
  ASSUME NEW r
  PROVE  /\ AskedOnly({}) /\ AskedOnly(FollowUps(r))
         /\ \A c, after : after \in {"nothing", "payouts", "list"} => AskedOnly({AskDetail(c, after)})
         /\ \A c, kind : kind \in Asked => AskedOnly({Ask(kind, c)})
         /\ \A c : AskedOnly(PanesOf(c))
         /\ \A S, T : AskedOnly(S) /\ AskedOnly(T) => AskedOnly(S \cup T)
  <1>1. AskedOnly({}) /\ \A S, T : AskedOnly(S) /\ AskedOnly(T) => AskedOnly(S \cup T)
    BY DEF AskedOnly
  <1>2. AskedOnly(FollowUps(r))
    BY Following DEF AskedOnly, Asked
  <1>3. ASSUME NEW c, NEW after \in {"nothing", "payouts", "list"}
        PROVE  AskedOnly({AskDetail(c, after)})
    BY AskingDetail DEF AskedOnly, Asked
  <1>4. ASSUME NEW c, NEW kind \in Asked
        PROVE  Shaped(Ask(kind, c)) /\ Ask(kind, c).kind \in Asked /\ ~Ask(kind, c).served
    <2>1. kind \in Kinds
      BY DEF Asked, Kinds
    <2> QED
      BY <2>1, Asking
  <1>5. \A c, kind : kind \in Asked => AskedOnly({Ask(kind, c)})
    BY <1>4 DEF AskedOnly
  <1>6. \A c : AskedOnly(PanesOf(c))
    BY <1>4 DEF AskedOnly, PanesOf, Asked
  <1> QED
    BY <1>1, <1>2, <1>3, <1>5, <1>6

\* Answers that are shown, and requests that fail, only lead to what handlers ask for.
LEMMA DeliverOnward ==
  ASSUME Flying(net), Deliver \/ Fail
  PROVE  Onward(net, net') /\ UNCHANGED stored
  <1>1. ASSUME NEW r \in DOMAIN net, NEW S, AskedOnly(S), net' = Without(r) (+) SetToBag(S)
        PROVE  Onward(net, net')
    <2>1. Onward(net, Without(r))
      BY OnwardTaken DEF Without
    <2> PICK rest : rest = Without(r)
      OBVIOUS
    <2> QED
      BY <1>1, <2>1, OnwardAdded
  <1>2. ASSUME NEW r \in DOMAIN net, NEW S, AskedOnly(S), NEW T, AskedOnly(T),
               net' = (Without(r) (+) SetToBag(S)) (+) SetToBag(T)
        PROVE  Onward(net, net')
    <2>1. Onward(net, Without(r))
      BY OnwardTaken DEF Without
    <2> PICK rest : rest = Without(r)
      OBVIOUS
    <2>2. Onward(net, rest (+) SetToBag(S))
      BY <1>2, <2>1, OnwardAdded
    <2> PICK more : more = rest (+) SetToBag(S)
      OBVIOUS
    <2> QED
      BY <1>2, <2>2, OnwardAdded
  <1>3. ASSUME NEW r \in DOMAIN net, NEW S, AskedOnly(S), Issue(S, Without(r))
        PROVE  Onward(net, net')
    BY <1>1, <1>3 DEF Issue
  <1>4. \A r \in DOMAIN net : r.after \in {"nothing", "payouts", "list"}
    BY DEF Flying, Shaped
  <1>5. ASSUME NEW r \in DOMAIN net,
               \/ ShowList(r) \/ ShowRules(r) \/ ShowDocuments(r) \/ ShowUpload(r)
               \/ ShowReview(r) \/ ShowPayouts(r) \/ ShowHistory(r) \/ ShowPreview(r) \/ GoOn(r)
        PROVE  Onward(net, net') /\ UNCHANGED stored
    <2>1. \/ Issue({}, Without(r))
          \/ \E c, after : /\ after \in {"nothing", "payouts", "list"}
                           /\ Issue({AskDetail(c, after)}, Without(r))
          \/ Issue({Ask("history", r.of)}, Without(r))
      BY <1>5 DEF ShowList, ShowRules, ShowDocuments, ShowUpload, ShowReview, ShowPayouts,
                  ShowHistory, ShowPreview, GoOn
    <2>2. "history" \in Asked
      BY DEF Asked
    <2>3. UNCHANGED stored
      BY <1>5 DEF ShowList, ShowRules, ShowDocuments, ShowUpload, ShowReview, ShowPayouts,
                  ShowHistory, ShowPreview, GoOn, server
    <2> QED
      BY <1>3, <2>1, <2>2, <2>3, AskedSets
  <1>6. ASSUME NEW r \in DOMAIN net, ShowDetail(r)
        PROVE  Onward(net, net') /\ UNCHANGED stored
    <2>1. AskedOnly({Ask("rules", r.of)}) /\ AskedOnly(PanesOf(r.of)) /\ AskedOnly(FollowUps(r))
      BY AskedSets DEF Asked
    <2>2. /\ AskedOnly({Ask("rules", r.of)} \cup PanesOf(r.of))
          /\ AskedOnly({Ask("rules", r.of)} \cup FollowUps(r))
      BY <2>1, AskedSets
    <2> QED
      BY <1>2, <1>3, <1>6, <2>1, <2>2 DEF ShowDetail, server
  <1>7. CASE Deliver
    BY <1>5, <1>6, <1>7 DEF Deliver, BagToSet
  <1>8. CASE Fail
    <2>1. PICK r, S :
            /\ r \in DOMAIN net
            /\ S = FollowUps(r) \/ S = {}
            /\ net' = Without(r) (+) SetToBag(S) /\ UNCHANGED stored
      BY <1>8 DEF Fail, BagToSet, server
    <2>2. AskedOnly(S)
      BY <2>1, AskedSets
    <2> QED
      BY <1>1, <2>1, <2>2
  <1> QED
    BY <1>7, <1>8

\* a is r with the answer of the API.
AnswerOf(a, r, listing) ==
  /\ Shaped(a) /\ a.kind = r.kind /\ a.of = r.of /\ a.doc = r.doc /\ a.status = r.status
  /\ a.draft = r.draft /\ a.after = r.after /\ a.served /\ a.answer = listing

LEMMA ServeNet ==
  ASSUME Flying(net), NEW r \in DOMAIN net, ~r.served, NEW listing, Answered(r, listing),
         NEW a, a = [r EXCEPT !.served = TRUE, !.answer = listing]
  PROVE  /\ AnswerOf(a, r, listing) /\ a # r /\ Flying(net')
         /\ DOMAIN net' \subseteq DOMAIN net \cup {a} /\ a \in DOMAIN net'
         /\ \A q \in DOMAIN net : q # r => q \in DOMAIN net'
         /\ net[r] = 1 => r \notin DOMAIN net'
         /\ \A q \in DOMAIN net' : q # a /\ net[q] = 1 => net'[q] = 1
         /\ a \notin DOMAIN net => net'[a] = 1
  <1>1. Shaped(r)
    BY DEF Flying
  <1>2. AnswerOf(a, r, listing) /\ Shaped(a) /\ a # r
    BY <1>1 DEF AnswerOf, Shaped
  <1> DEFINE rest == net (-) SetToBag({r})
  <1>3. /\ Flying(rest) /\ DOMAIN rest \subseteq DOMAIN net
        /\ \A q \in DOMAIN net : q # r => q \in DOMAIN rest
        /\ net[r] = 1 => r \notin DOMAIN rest
        /\ \A q \in DOMAIN rest : net[q] = 1 => rest[q] = 1
    BY Taken
  <1>4. net' = rest (+) SetToBag({a})
    BY DEF Answered, Without
  <1> HIDE DEF rest
  <1>5. /\ Flying(net') /\ DOMAIN net' = DOMAIN rest \cup {a}
        /\ \A q \in DOMAIN rest : q # a => net'[q] = rest[q]
        /\ a \notin DOMAIN rest => net'[a] = 1
    <2>1. Flying(rest) /\ Shaped(a)
      BY <1>2, <1>3
    <2>2. /\ Flying(rest (+) SetToBag({a}))
          /\ DOMAIN (rest (+) SetToBag({a})) = DOMAIN rest \cup {a}
          /\ \A q \in DOMAIN rest : q # a => (rest (+) SetToBag({a}))[q] = rest[q]
          /\ a \notin DOMAIN rest => (rest (+) SetToBag({a}))[a] = 1
      BY ONLY <2>1, AddedOne, Zenon
    <2> QED
      BY <1>4, <2>2
  <1>6. /\ a \in DOMAIN net' /\ DOMAIN net' \subseteq DOMAIN net \cup {a}
        /\ net[r] = 1 => r \notin DOMAIN net'
        /\ \A q \in DOMAIN net : q # r => q \in DOMAIN net'
    BY <1>2, <1>3, <1>5
  <1>7. \A q \in DOMAIN net' : q # a /\ net[q] = 1 => net'[q] = 1
    BY <1>3, <1>5
  <1>8. a \notin DOMAIN net => net'[a] = 1
    BY <1>3, <1>5
  <1> QED
    BY <1>2, <1>5, <1>6, <1>7, <1>8

\* The API reads documents, files one or changes one.
Serving(r, listing) ==
  /\ ~r.served /\ Answered(r, listing)
  /\ \/ r.kind \in {"documents", "rules"} /\ listing = Listing(r.of) /\ UNCHANGED server
     \/ /\ r.kind \in Filing /\ ~Refused(r) /\ stored' = WithUpload(stored, r.doc)
        /\ evidence' = IF r.kind = "submission" THEN evidence \cup {r.doc} ELSE evidence
        /\ listing = Listing(r.of)'
     \/ /\ r.kind = "review" /\ Found(r.of, r.doc)
        /\ stored' = [stored EXCEPT ![r.doc] = r.status] /\ evidence' = evidence
        /\ listing = Listing(r.of)'
  /\ UNCHANGED <<desk, panes, mail, errand, clicks, failures, overtaken>>

LEMMA ServeCases ==
  ASSUME Serve
  PROVE  \E r \in DOMAIN net : \E listing : Serving(r, listing)
  <1>1. PICK r \in DOMAIN net :
          /\ ~r.served
          /\ ServeListing(r) \/ ServeUpload(r) \/ ServeReview(r)
          /\ UNCHANGED <<desk, panes, mail, errand, clicks, failures, overtaken>>
    BY DEF Serve, BagToSet
  <1> PICK before, after : before = Listing(r.of) /\ after = Listing(r.of)'
    OBVIOUS
  <1>2. CASE ServeListing(r)
    <2>1. Answered(r, before)
      BY <1>2 DEF ServeListing, Answered
    <2>2. Serving(r, before)
      BY <1>1, <1>2, <2>1 DEF ServeListing, Filing, Serving
    <2> QED
      BY <2>2
  <1>3. CASE ServeUpload(r)
    <2>1. Answered(r, after)
      BY <1>3 DEF ServeUpload, Answered
    <2>2. Serving(r, after)
      BY <1>1, <1>3, <2>1 DEF ServeUpload, Filing, Serving
    <2> QED
      BY <2>2
  <1>4. CASE ServeReview(r)
    <2>1. Answered(r, after)
      BY <1>4 DEF ServeReview, Answered
    <2>2. Serving(r, after)
      BY <1>1, <1>4, <2>1 DEF ServeReview, Filing, Serving
    <2> QED
      BY <2>2
  <1> QED
    BY <1>1, <1>2, <1>3, <1>4

\* A click asks for one thing, or for nothing.
Clicked(q) ==
  /\ Shaped(q) /\ ~q.served
  /\ net' = net (+) SetToBag({q})
  /\ overtaken' = overtaken \cup (Fed(SetToBag({q})) \cap Fed(net))
  /\ \/ q.kind \in {"detail", "list"}
     \/ /\ q.kind \in Filing \cup {"review", "payout", "transition", "plan", "send"}
        /\ q.of = selected /\ q.after = "nothing"
        /\ q.kind \in Filing => q.doc \in Documents /\ Fresh(q.doc)
        /\ q.kind = "plan" => q.draft = draft
        /\ q.kind = "send" =>
             SendCommunication /\ q = [Ask("send", selected) EXCEPT !.draft = draft]
        /\ UNCHANGED mail
  /\ q.kind \in {"detail", "list"} => q.after = "nothing" /\ UNCHANGED mail


Asks ==
  \/ \E c \in Cases : SelectCase(c)
  \/ RefreshList
  \/ \E d \in Documents : Upload(d) \/ MarkSubmitted(d)
  \/ \E d \in Documents, status \in {"APPROVED", "REJECTED"} : Review(d, status)
  \/ ConfirmPayout \/ Transition
  \/ PlanCommunication \/ SendCommunication

LEMMA ClickCases ==
  ASSUME Asks
  PROVE  (\E q : Clicked(q)) /\ UNCHANGED <<server, selected, panes>>
  <1> USE DEF Click
  <1>1. {"list", "detail", "upload", "submission", "review", "payout", "transition", "plan",
         "send"} \subseteq Kinds
    BY DEF Kinds
  <1>2. ASSUME NEW c \in Cases, SelectCase(c)
        PROVE  \E q : Clicked(q)
    <2> PICK q : q = AskDetail(c, "nothing")
      OBVIOUS
    <2>1. Clicked(q)
      BY <1>2, AskingDetail DEF SelectCase, Issue, Clicked
    <2> QED
      BY <2>1
  <1>3. ASSUME RefreshList
        PROVE  \E q : Clicked(q)
    <2> PICK q : q = Ask("list", None)
      OBVIOUS
    <2>1. Clicked(q)
      BY <1>1, <1>3, Asking DEF RefreshList, Issue, Clicked
    <2> QED
      BY <2>1
  <1>4. ASSUME NEW d \in Documents, Upload(d)
        PROVE  \E q : Clicked(q)
    <2> PICK q : q = [Ask("upload", selected) EXCEPT !.doc = d]
      OBVIOUS
    <2>1. Shaped(q) /\ ~q.served /\ q.kind = "upload" /\ q.of = selected /\ q.doc = d
          /\ q.after = "nothing"
      BY <1>1 DEF Ask, Shaped
    <2>2. Issue({q}, net) /\ UNCHANGED mail /\ Fresh(d)
      BY <1>4 DEF Upload
    <2>3. Clicked(q)
      BY <2>1, <2>2 DEF Issue, Clicked, Filing
    <2> QED
      BY <2>3
  <1>5. ASSUME NEW d \in Documents, MarkSubmitted(d)
        PROVE  \E q : Clicked(q)
    <2> PICK q : q = [Ask("submission", selected) EXCEPT !.doc = d]
      OBVIOUS
    <2>1. Shaped(q) /\ ~q.served /\ q.kind = "submission" /\ q.of = selected /\ q.doc = d
          /\ q.after = "nothing"
      BY <1>1 DEF Ask, Shaped
    <2>2. Issue({q}, net) /\ UNCHANGED mail /\ Fresh(d)
      BY <1>5 DEF MarkSubmitted
    <2>3. Clicked(q)
      BY <2>1, <2>2 DEF Issue, Clicked, Filing
    <2> QED
      BY <2>3
  <1>6. ASSUME NEW d, NEW status, Review(d, status)
        PROVE  \E q : Clicked(q)
    <2> PICK q : q = [Ask("review", selected) EXCEPT !.doc = d, !.status = status]
      OBVIOUS
    <2>1. Shaped(q) /\ ~q.served /\ q.kind = "review" /\ q.of = selected /\ q.after = "nothing"
      BY <1>1 DEF Ask, Shaped
    <2>2. Issue({q}, net) /\ UNCHANGED mail
      BY <1>6 DEF Review
    <2>3. Clicked(q)
      BY <2>1, <2>2 DEF Issue, Clicked, Filing
    <2> QED
      BY <2>3
  <1>7. ASSUME NEW kind \in {"payout", "transition"}, Issue({Ask(kind, selected)}, net),
               UNCHANGED mail
        PROVE  \E q : Clicked(q)
    <2> PICK q : q = Ask(kind, selected)
      OBVIOUS
    <2>1. Shaped(q) /\ ~q.served /\ q.kind = kind /\ q.of = selected /\ q.after = "nothing"
      BY <1>1, Asking
    <2>2. Clicked(q)
      BY <1>7, <2>1 DEF Issue, Clicked, Filing
    <2> QED
      BY <2>2
  <1>8. ASSUME PlanCommunication
        PROVE  \E q : Clicked(q)
    <2> PICK q : q = [Ask("plan", selected) EXCEPT !.draft = draft]
      OBVIOUS
    <2>1. Shaped(q) /\ ~q.served /\ q.kind = "plan" /\ q.of = selected /\ q.draft = draft
          /\ q.after = "nothing"
      BY <1>1 DEF Ask, Shaped
    <2>2. Issue({q}, net) /\ UNCHANGED mail
      BY <1>8 DEF PlanCommunication
    <2>3. Clicked(q)
      BY <2>1, <2>2 DEF Issue, Clicked, Filing
    <2> QED
      BY <2>3
  <1>9. ASSUME SendCommunication
        PROVE  \E q : Clicked(q)
    <2> PICK q : q = [Ask("send", selected) EXCEPT !.draft = draft]
      OBVIOUS
    <2>1. Shaped(q) /\ ~q.served /\ q.kind = "send" /\ q.of = selected /\ q.draft = draft
          /\ q.after = "nothing"
      BY <1>1 DEF Ask, Shaped
    <2>2. Issue({q}, net) /\ UNCHANGED mail
      BY <1>9 DEF SendCommunication
    <2>3. Clicked(q)
      BY <1>9, <2>1, <2>2 DEF Issue, Clicked, Filing
    <2> QED
      BY <2>3
  <1>10. \E q : Clicked(q)
    BY <1>2, <1>3, <1>4, <1>5, <1>6, <1>7, <1>8, <1>9 DEF Asks, ConfirmPayout, Transition, desk, mail
  <1>11. UNCHANGED <<server, selected, panes>>
    BY DEF Asks, SelectCase, RefreshList, Upload, MarkSubmitted, Review, ConfirmPayout, Transition,
           PlanCommunication, SendCommunication, desk
  <1> QED
    BY <1>10, <1>11

\* What a click asks for is added to what is under way.
LEMMA ClickNet ==
  ASSUME Flying(net), NEW q, Clicked(q)
  PROVE  /\ Flying(net') /\ DOMAIN net' = DOMAIN net \cup {q}
         /\ \A p \in DOMAIN net : p # q => net'[p] = net[p]
         /\ q \notin DOMAIN net => net'[q] = 1
  <1>1. Shaped(q) /\ net' = net (+) SetToBag({q})
    BY DEF Clicked
  <1>2. /\ Flying(net (+) SetToBag({q})) /\ DOMAIN (net (+) SetToBag({q})) = DOMAIN net \cup {q}
        /\ \A p \in DOMAIN net : p # q => (net (+) SetToBag({q}))[p] = net[p]
        /\ q \notin DOMAIN net => (net (+) SetToBag({q}))[q] = 1
    BY <1>1, AddedOne, Zenon
  <1> QED
    BY <1>1, <1>2

LEMMA StepCases ==
  ASSUME [Next]_vars
  PROVE  \/ \E r \in DOMAIN net : \E listing : Serving(r, listing)
         \/ Deliver \/ Fail
         \/ (\E q : Clicked(q)) /\ Asks /\ UNCHANGED <<server, selected, panes>>
         \/ (\E t : SelectTemplate(t)) \/ EditVariables
         \/ UNCHANGED vars
  <1>1. CASE Asks
    BY <1>1, ClickCases
  <1>2. CASE Serve
    BY <1>2, ServeCases
  <1> QED
    BY <1>1, <1>2 DEF Next, Asks

LEMMA StepFlying ==
  ASSUME Flying(net), [Next]_vars
  PROVE  Flying(net')
  <1>1. ASSUME NEW r \in DOMAIN net, NEW listing, Serving(r, listing)
        PROVE  Flying(net')
    <2> PICK a : a = [r EXCEPT !.served = TRUE, !.answer = listing]
      OBVIOUS
    <2> QED
      BY <1>1, ServeNet DEF Serving
  <1>2. CASE Deliver \/ Fail
    BY <1>2, DeliverOnward DEF Onward
  <1>3. ASSUME NEW q, Clicked(q)
        PROVE  Flying(net')
    BY <1>3, ClickNet
  <1> QED
    BY <1>1, <1>2, <1>3, StepCases DEF SelectTemplate, EditVariables, vars, Flying

------------------------------------------------------------------------------
(* Documents are filed once, and changed in place *)

LEMMA Uploaded ==
  ASSUME NEW rows, NEW doc
  PROVE  /\ DOMAIN WithUpload(rows, doc) = DOMAIN rows \cup {doc}
         /\ WithUpload(rows, doc)[doc] = "PENDING"
         /\ \A d \in DOMAIN rows : d # doc => WithUpload(rows, doc)[d] = rows[d]
  BY DEF WithUpload

LEMMA FiledKept ==
  ASSUME FiledOnce, DOMAIN stored' \subseteq DOMAIN stored,
         \A q \in DOMAIN net' : q.kind \in Filing => q \in DOMAIN net /\ (net[q] = 1 => net'[q] = 1)
  PROVE  FiledOnce'
  BY DEF FiledOnce

LEMMA ServeFiled ==
  ASSUME Flying(net), FiledOnce, NEW r \in DOMAIN net, NEW listing, Serving(r, listing)
  PROVE  FiledOnce'
  <1> PICK a : a = [r EXCEPT !.served = TRUE, !.answer = listing]
    OBVIOUS
  <1>1. /\ AnswerOf(a, r, listing) /\ a # r
        /\ DOMAIN net' \subseteq DOMAIN net \cup {a}
        /\ net[r] = 1 => r \notin DOMAIN net'
        /\ \A q \in DOMAIN net' : q # a /\ net[q] = 1 => net'[q] = 1
        /\ a \notin DOMAIN net => net'[a] = 1
    BY ServeNet DEF Serving
  <1>2. ASSUME r.kind \notin Filing, DOMAIN stored' \subseteq DOMAIN stored
        PROVE  FiledOnce'
    BY <1>1, <1>2, FiledKept DEF AnswerOf
  <1>3. CASE r.kind \in Filing
    <2>1. net[r] = 1 /\ r.doc \in Documents /\ r.of = Owner[r.doc]
          /\ \A q \in DOMAIN net : q.kind \in Filing /\ q.doc = r.doc => q = r
      BY <1>3 DEF FiledOnce
    <2>2. a \notin DOMAIN net /\ a.doc = r.doc /\ a.of = r.of /\ a.served
      BY <1>1, <1>3, <2>1 DEF AnswerOf
    <2>3. DOMAIN stored' = DOMAIN stored \cup {r.doc}
      <3>1. stored' = WithUpload(stored, r.doc)
        BY <1>3 DEF Serving, Filing
      <3> QED
        BY <3>1, Uploaded
    <2>4. ASSUME NEW q \in DOMAIN net', q.kind \in Filing, q # a
          PROVE  /\ net'[q] = 1 /\ q.doc \in Documents /\ q.of = Owner[q.doc] /\ q.doc # r.doc
                 /\ ~q.served => q.doc \notin DOMAIN stored'
                 /\ \A p \in DOMAIN net : p.kind \in Filing /\ p.doc = q.doc => p = q
      <3>1. q \in DOMAIN net /\ q # r
        BY <1>1, <2>1, <2>4
      <3> QED
        BY <1>1, <2>1, <2>3, <2>4, <3>1 DEF FiledOnce
    <2>5. ASSUME NEW q \in DOMAIN net', NEW p \in DOMAIN net', q.kind \in Filing, p.kind \in Filing,
                 p.doc = q.doc
          PROVE  p = q
      BY <1>1, <2>2, <2>4, <2>5
    <2>6. net'[a] = 1 /\ a.doc \in Documents /\ a.of = Owner[a.doc]
      BY <1>1, <2>1, <2>2
    <2> QED
      BY <2>2, <2>4, <2>5, <2>6 DEF FiledOnce
  <1>4. CASE r.kind \notin Filing
    BY <1>2, <1>4 DEF Serving, server
  <1> QED
    BY <1>3, <1>4

LEMMA StepFiled ==
  ASSUME Flying(net), FiledOnce, [Next]_vars
  PROVE  FiledOnce'
  <1>1. ASSUME NEW r \in DOMAIN net, NEW listing, Serving(r, listing)
        PROVE  FiledOnce'
    BY <1>1, ServeFiled
  <1>2. CASE Deliver \/ Fail
    <2>1. Onward(net, net') /\ UNCHANGED stored
      BY <1>2, DeliverOnward
    <2>2. \A q \in DOMAIN net' : q.kind \in Filing => q \in DOMAIN net /\ (net[q] = 1 => net'[q] = 1)
      BY <2>1 DEF Onward, Filing, Asked
    <2> QED
      BY <2>1, <2>2, FiledKept
  <1>3. ASSUME NEW q, Clicked(q), UNCHANGED server
        PROVE  FiledOnce'
    <2>1. /\ DOMAIN net' = DOMAIN net \cup {q}
          /\ \A p \in DOMAIN net : p # q => net'[p] = net[p]
          /\ q \notin DOMAIN net => net'[q] = 1
      BY <1>3, ClickNet
    <2>2. CASE q.kind \notin Filing
      BY <1>3, <2>1, <2>2, FiledKept DEF server
    <2>3. CASE q.kind \in Filing
      <3>1. /\ q.doc \in Documents /\ Fresh(q.doc) /\ q.of = selected /\ ~q.served
        BY <1>3, <2>3 DEF Clicked, Filing
      <3>2. /\ Owner[q.doc] = q.of /\ q.doc \notin DOMAIN stored
            /\ \A p \in DOMAIN net : p.doc # q.doc
        BY <3>1 DEF Fresh, BagToSet
      <3>3. stored' = stored /\ q \notin DOMAIN net /\ net'[q] = 1
        BY <1>3, <2>1, <3>2 DEF server
      <3>4. \A p \in DOMAIN net : p # q /\ net'[p] = net[p] /\ p.doc # q.doc
        BY <2>1, <3>2, <3>3
      <3> QED
        BY <2>1, <3>1, <3>2, <3>3, <3>4 DEF FiledOnce
    <2> QED
      BY <2>2, <2>3
  <1>4. CASE UNCHANGED <<stored, net>>
    BY <1>4 DEF FiledOnce
  <1> QED
    BY <1>1, <1>2, <1>3, <1>4, StepCases DEF SelectTemplate, EditVariables, Click, server, vars

\* A document that the API has changes only on a request for a review of it that was
\* made on the screen of its own case.
THEOREM ReviewsStayInPlace == Spec => ReviewsInPlace
  <1> DEFINE J == Flying(net) /\ FiledOnce
  <1>1. Init => J
    <2>1. ASSUME Init
          PROVE  DOMAIN net = {Ask("list", None)} /\ net[Ask("list", None)] = 1
      BY <2>1 DEF Init, SetToBag
    <2>2. Shaped(Ask("list", None)) /\ Ask("list", None).kind = "list"
      BY Asking DEF Kinds
    <2> QED
      BY <2>1, <2>2 DEF Flying, FiledOnce, Filing
  <1>2. J /\ [Next]_vars => J'
    BY StepFlying, StepFiled
  <1>3. ASSUME J, [Next]_vars, NEW d \in DOMAIN stored, stored'[d] # stored[d]
        PROVE  \E r \in BagToSet(net) : r.kind = "review" /\ r.doc = d /\ r.of = Owner[d]
    <2>1. PICK r, listing : r \in DOMAIN net /\ Serving(r, listing)
      BY <1>3, StepCases, DeliverOnward DEF SelectTemplate, EditVariables, Click, server, vars
    <2>2. CASE r.kind \in Filing
      <3>1. r.doc \notin DOMAIN stored /\ stored' = WithUpload(stored, r.doc)
        BY <1>3, <2>1, <2>2 DEF FiledOnce, Serving, Filing
      <3> QED
        BY <1>3, <3>1 DEF WithUpload
    <2>3. CASE r.kind \notin Filing
      <3>1. r.kind = "review" /\ Found(r.of, r.doc) /\ stored' = [stored EXCEPT ![r.doc] = r.status]
        BY <1>3, <2>1, <2>3 DEF Serving, server
      <3> QED
        BY <1>3, <2>1, <3>1 DEF Found, BagToSet
    <2> QED
      BY <2>2, <2>3
  <1>4. J /\ [Next]_vars =>
          [\A d \in DOMAIN stored : stored'[d] # stored[d] =>
             \E r \in BagToSet(net) : r.kind = "review" /\ r.doc = d /\ r.of = Owner[d]]_vars
    BY <1>3
  <1> QED
    BY <1>1, <1>2, <1>4, PTL DEF Spec, ReviewsInPlace

------------------------------------------------------------------------------
(* What feeds which pane *)

LEMMA Feeding ==
  ASSUME NEW r, Shaped(r)
  PROVE  /\ "documents" \in Feeds(r) <=> r.kind \in {"documents", "upload", "review"}
         /\ "checklist" \in Feeds(r) <=>
              r.kind = "rules" \/ (r.kind \in {"documents", "upload", "review"} /\ r.of \in Ruled)
         /\ "payouts" \in Feeds(r) <=> r.kind \in {"payouts", "payout"} \/ r.after = "payouts"
         /\ "history" \in Feeds(r) <=> r.kind \in {"history", "send"}
         /\ "preview" \in Feeds(r) <=> r.kind = "plan"
  <1>1. r.kind \in Kinds /\ (r.kind # "detail" => r.after = "nothing")
    BY DEF Shaped
  <1>2. CASE r.kind \in {"documents", "upload", "review"}
    <2>1. Feeds(r) = FeedsDocuments(r.of) /\ r.after = "nothing"
      BY <1>1, <1>2 DEF Feeds
    <2>2. CASE r.of \in Ruled
      BY <1>2, <2>1, <2>2 DEF FeedsDocuments
    <2>3. CASE r.of \notin Ruled
      BY <1>2, <2>1, <2>3 DEF FeedsDocuments
    <2> QED
      BY <2>2, <2>3
  <1>3. CASE r.kind = "rules"
    BY <1>1, <1>3 DEF Feeds
  <1>4. CASE r.kind \in {"payouts", "payout"} \/ r.after = "payouts"
    BY <1>1, <1>4 DEF Feeds
  <1>5. CASE r.kind \in {"history", "send"}
    BY <1>1, <1>5 DEF Feeds
  <1>6. CASE r.kind = "plan"
    BY <1>1, <1>6 DEF Feeds
  <1>7. CASE r.kind \in {"list", "detail", "submission", "transition"} /\ r.after # "payouts"
    BY <1>1, <1>7 DEF Feeds
  <1> QED
    BY <1>1, <1>2, <1>3, <1>4, <1>5, <1>6, <1>7 DEF Kinds

LEMMA FedBy ==
  ASSUME NEW bag, NEW pane
  PROVE  pane \in Fed(bag) <=> \E r \in DOMAIN bag : pane \in Feeds(r)
  BY DEF Fed, BagToSet

LEMMA PlansFeed ==
  ASSUME NEW bag, Flying(bag)
  PROVE  "preview" \in Fed(bag) <=> \E r \in DOMAIN bag : r.kind = "plan"
  <1>1. \A r \in DOMAIN bag : "preview" \in Feeds(r) <=> r.kind = "plan"
    BY Feeding DEF Flying
  <1> QED
    BY <1>1, FedBy

------------------------------------------------------------------------------
(* Mail *)

LEMMA DeliverPreviewed ==
  ASSUME Flying(net), Previewed, Deliver
  PROVE  Previewed'
  <1>1. \A q \in DOMAIN net' : q.kind = "plan" => q \in DOMAIN net
    BY DeliverOnward DEF Onward, Asked
  <1>2. ASSUME NEW r \in DOMAIN net,
               \/ ShowList(r) \/ ShowRules(r) \/ ShowDocuments(r) \/ ShowUpload(r)
               \/ ShowReview(r) \/ ShowPayouts(r) \/ ShowHistory(r) \/ GoOn(r)
        PROVE  Previewed'
    <2>1. UNCHANGED <<selected, mail>> /\ overtaken \subseteq overtaken'
      BY <1>2 DEF ShowList, ShowRules, ShowDocuments, ShowUpload, ShowReview, ShowPayouts,
                  ShowHistory, GoOn, Issue, desk
    <2> QED
      BY <1>1, <2>1 DEF Previewed, mail
  <1>3. ASSUME NEW r \in DOMAIN net, ShowPreview(r)
        PROVE  Previewed'
    BY <1>1, <1>3 DEF ShowPreview, Issue, Previewed, desk
  <1>4. ASSUME NEW r \in DOMAIN net, ShowDetail(r)
        PROVE  Previewed'
    <2>1. CASE r.of = selected
      <3>1. UNCHANGED <<selected, mail>> /\ overtaken \subseteq overtaken'
        BY <1>4, <2>1 DEF ShowDetail, Issue
      <3> QED
        BY <1>1, <3>1 DEF Previewed, mail
    <2>2. CASE r.of # selected
      <3> DEFINE taken == Without(r)
                 rest == taken (+) SetToBag(FollowUps(r))
                 asked == {Ask("rules", r.of)} \cup PanesOf(r.of)
      <3>1. net' = rest (+) SetToBag(asked) /\ overtaken' = Fed(rest)
            /\ communicationPreview' = NoPreview
        BY <1>4, <2>2 DEF ShowDetail
      <3>2. Onward(net, taken) /\ AskedOnly(FollowUps(r))
        BY OnwardTaken, AskedSets DEF Without
      <3>3. Onward(net, rest) /\ Flying(rest)
        <4> HIDE DEF taken
        <4> QED
          BY <3>2, OnwardAdded
      <3>4. AskedOnly(asked)
        BY AskedSets DEF Asked
      <3>5. Onward(rest, rest)
        BY <3>3 DEF Onward
      <3>6. Onward(rest, net')
        <4> HIDE DEF rest, asked
        <4> QED
          BY <3>1, <3>4, <3>5, OnwardAdded
      <3>7. \A q \in DOMAIN net' : q.kind = "plan" => q \in DOMAIN rest
        BY <3>6 DEF Onward, Asked
      <3>8. "preview" \notin overtaken' => \A q \in DOMAIN rest : q.kind # "plan"
        BY <3>1, <3>3, PlansFeed
      <3> HIDE DEF rest, asked
      <3> QED
        BY <3>1, <3>7, <3>8 DEF Previewed
    <2> QED
      BY <2>1, <2>2
  <1> QED
    BY <1>2, <1>3, <1>4 DEF Deliver, BagToSet

LEMMA StepPreviewed ==
  ASSUME Flying(net), Previewed, [Next]_vars
  PROVE  Previewed'
  <1>1. ASSUME NEW r \in DOMAIN net, NEW listing, Serving(r, listing)
        PROVE  Previewed'
    <2> PICK a : a = [r EXCEPT !.served = TRUE, !.answer = listing]
      OBVIOUS
    <2>1. AnswerOf(a, r, listing) /\ DOMAIN net' \subseteq DOMAIN net \cup {a}
      BY <1>1, ServeNet DEF Serving
    <2>2. r.kind # "plan" /\ UNCHANGED <<selected, mail>> /\ overtaken' = overtaken
      BY <1>1 DEF Serving, Filing, desk
    <2> QED
      BY <2>1, <2>2 DEF AnswerOf, Previewed, mail
  <1>2. CASE Deliver
    BY <1>2, DeliverPreviewed
  <1>3. CASE Fail
    <2>1. UNCHANGED <<selected, mail>> /\ overtaken \subseteq overtaken'
      BY <1>3 DEF Fail
    <2>2. \A q \in DOMAIN net' : q.kind = "plan" => q \in DOMAIN net
      BY <1>3, DeliverOnward DEF Onward, Asked
    <2> QED
      BY <2>1, <2>2 DEF Previewed, mail
  <1>4. ASSUME NEW q, Clicked(q), UNCHANGED selected
        PROVE  Previewed'
    <2>1. DOMAIN net' = DOMAIN net \cup {q}
      BY <1>4, ClickNet
    <2>2. UNCHANGED mail /\ overtaken \subseteq overtaken'
          /\ (q.kind = "plan" => q.of = selected /\ q.draft = draft)
      BY <1>4 DEF Clicked
    <2> QED
      BY <2>1, <2>2, <1>4 DEF Previewed, mail
  <1>5. ASSUME NEW t, SelectTemplate(t)
        PROVE  Previewed'
    <2>1. /\ net' = net /\ communicationPreview' = NoPreview
          /\ "preview" \in Fed(net) => "preview" \in overtaken'
      BY <1>5 DEF SelectTemplate
    <2> QED
      BY <2>1, PlansFeed DEF Previewed
  <1>6. CASE EditVariables
    <2>1. /\ net' = net /\ communicationPreview' = communicationPreview
          /\ communicationPreview # NoPreview \/ "preview" \in Fed(net) => "preview" \in overtaken'
      BY <1>6 DEF EditVariables
    <2> QED
      BY <2>1, PlansFeed DEF Previewed
  <1>7. CASE UNCHANGED vars
    BY <1>7 DEF Previewed, vars, desk, mail
  <1> QED
    BY <1>1, <1>2, <1>3, <1>4, <1>5, <1>6, <1>7, StepCases

\* Mail for a case of high risk leaves as the preview on screen shows it, unless the
\* preview was late or the text was edited after it.
THEOREM SentAsSeen == Spec => SentAsPreviewed
  <1> DEFINE J == Flying(net) /\ Previewed
             Sent == \A r \in Sends(net') \ Sends(net) :
                       r.of \in HighRisk /\ Settled("preview") =>
                         communicationPreview =
                           [of |-> r.of, template |-> r.draft.template, edits |-> r.draft.edits]
  <1>1. Init => J
    <2>1. ASSUME Init
          PROVE  /\ DOMAIN net = {Ask("list", None)} /\ net[Ask("list", None)] = 1
                 /\ communicationPreview = NoPreview
      BY <2>1 DEF Init, SetToBag
    <2>2. Shaped(Ask("list", None)) /\ Ask("list", None).kind = "list"
      BY Asking DEF Kinds
    <2> QED
      BY <2>1, <2>2 DEF Flying, Previewed
  <1>2. J /\ [Next]_vars => J'
    BY StepFlying, StepPreviewed
  <1>3. ASSUME J, [Next]_vars, NEW r \in Sends(net') \ Sends(net), r.of \in HighRisk,
               Settled("preview")
        PROVE  communicationPreview =
                 [of |-> r.of, template |-> r.draft.template, edits |-> r.draft.edits]
    <2>1. r \in DOMAIN net' /\ r.kind = "send" /\ r \notin DOMAIN net
      BY <1>3 DEF Sends, BagToSet
    <2>2. ASSUME NEW q \in DOMAIN net, NEW listing, Serving(q, listing)
          PROVE  FALSE
      <3> PICK a : a = [q EXCEPT !.served = TRUE, !.answer = listing]
        OBVIOUS
      <3>1. AnswerOf(a, q, listing) /\ DOMAIN net' \subseteq DOMAIN net \cup {a}
        BY <1>3, <2>2, ServeNet DEF Serving
      <3>2. q.kind # "send"
        BY <2>2 DEF Serving, Filing
      <3> QED
        BY <2>1, <3>1, <3>2 DEF AnswerOf
    <2>3. ~Deliver /\ ~Fail
      BY <1>3, <2>1, DeliverOnward DEF Onward, Asked
    <2>4. PICK q : Clicked(q)
      BY <1>3, <2>1, <2>2, <2>3, StepCases DEF SelectTemplate, EditVariables, vars
    <2>5. r = q
      BY <1>3, <2>1, <2>4, ClickNet
    <2>6. SendCommunication /\ r = [Ask("send", selected) EXCEPT !.draft = draft]
      BY <2>1, <2>4, <2>5 DEF Clicked
    <2>7. r.of = selected /\ r.draft = draft
      BY <2>6 DEF Ask
    <2>8. communicationPreview # NoPreview
      BY <1>3, <2>6, <2>7 DEF SendCommunication, Sendable
    <2> QED
      BY <1>3, <2>7, <2>8 DEF Previewed, Settled
  <1>4. J /\ [Next]_vars => [Sent]_vars
    BY <1>3
  <1> QED
    BY <1>1, <1>2, <1>4, PTL DEF Spec, SentAsPreviewed

------------------------------------------------------------------------------
(* What is under way to the panes *)

Panes == {"documents", "payouts", "history"}

\* Requests that leave make no way busier.
LEMMA WaysFewer ==
  ASSUME NEW bag, NEW over, NEW c, Ways(bag, over, c),
         NEW more, \A q \in DOMAIN more : q \in DOMAIN bag /\ (bag[q] = 1 => more[q] = 1),
         NEW over2, over \subseteq over2
  PROVE  Ways(more, over2, c)
  <1>1. ASSUME NEW pane \in Panes \ over2
        PROVE  Addressed(more, pane, c) /\ Alone(more, pane)
    <2>1. Addressed(bag, pane, c) /\ Alone(bag, pane)
      BY <1>1 DEF Ways, Panes
    <2> QED
      BY <2>1 DEF Addressed, Alone
  <1>2. "checklist" \notin over2 => Addressed(more, "checklist", c) /\ WriterAlone(more)
    BY DEF Ways, Addressed, WriterAlone
  <1> QED
    BY <1>1, <1>2 DEF Ways, Panes

\* Requests that are sent together: for case c, where that can be seen, not two of them
\* to one pane, and a command that writes documents by itself.
Together(S, over, c) ==
  /\ \A q \in S : Shaped(q)
  /\ \A q \in S : \A pane \in (Panes \cup {"checklist"}) \ over : pane \in Feeds(q) => q.of = c
  /\ \A p, q \in S : \A pane \in Panes : pane \in Feeds(p) /\ pane \in Feeds(q) => p = q
  /\ \A p, q \in S : Rewrites(p) /\ "checklist" \in Feeds(q) => p = q

LEMMA WaysAdded ==
  ASSUME NEW rest, Flying(rest), NEW over, NEW c, Ways(rest, over, c),
         NEW S, Together(S, over, c),
         NEW over2, over2 \cap (Panes \cup {"checklist"})
                      = (over \cup (Fed(SetToBag(S)) \cap Fed(rest))) \cap (Panes \cup {"checklist"})
  PROVE  Ways(rest (+) SetToBag(S), over2, c)
  <1> PICK more : more = rest (+) SetToBag(S)
    OBVIOUS
  <1>0. \A q \in S : Shaped(q)
    BY DEF Together
  <1>1. /\ Flying(rest (+) SetToBag(S)) /\ DOMAIN (rest (+) SetToBag(S)) = DOMAIN rest \cup S
        /\ \A q \in DOMAIN rest : q \notin S => (rest (+) SetToBag(S))[q] = rest[q]
        /\ \A q \in S : q \notin DOMAIN rest => (rest (+) SetToBag(S))[q] = 1
    BY <1>0, Added, Zenon
  <1>2. /\ DOMAIN more = DOMAIN rest \cup S
        /\ \A q \in DOMAIN rest : q \notin S => more[q] = rest[q]
        /\ \A q \in S : q \notin DOMAIN rest => more[q] = 1
    BY <1>1
  <1>3. \A pane : pane \in Fed(SetToBag(S)) <=> \E q \in S : pane \in Feeds(q)
    BY FedBy DEF SetToBag
  <1>4. \A pane : pane \in Fed(rest) <=> \E q \in DOMAIN rest : pane \in Feeds(q)
    BY FedBy
  <1>5. ASSUME NEW pane \in Panes \cup {"checklist"}, pane \notin over2
        PROVE  /\ pane \notin over
               /\ \/ \A q \in S : pane \notin Feeds(q)
                  \/ \A q \in DOMAIN rest : pane \notin Feeds(q)
    BY <1>3, <1>4, <1>5
  <1>6. ASSUME NEW pane \in Panes \ over2
        PROVE  Addressed(more, pane, c) /\ Alone(more, pane)
    <2>1. /\ pane \notin over
          /\ \/ \A q \in S : pane \notin Feeds(q)
             \/ \A q \in DOMAIN rest : pane \notin Feeds(q)
      BY <1>5, <1>6
    <2>2. Addressed(rest, pane, c) /\ Alone(rest, pane)
      BY <1>6, <2>1 DEF Ways, Panes
    <2>3. /\ \A q \in S : pane \in Feeds(q) => q.of = c
          /\ \A p, q \in S : pane \in Feeds(p) /\ pane \in Feeds(q) => p = q
      BY <1>6, <2>1 DEF Together
    <2> QED
      BY <1>2, <2>1, <2>2, <2>3 DEF Addressed, Alone
  <1>7. ASSUME "checklist" \notin over2
        PROVE  Addressed(more, "checklist", c) /\ WriterAlone(more)
    <2>1. /\ "checklist" \notin over
          /\ \/ \A q \in S : "checklist" \notin Feeds(q)
             \/ \A q \in DOMAIN rest : "checklist" \notin Feeds(q)
      BY <1>5, <1>7
    <2>2. Addressed(rest, "checklist", c) /\ WriterAlone(rest)
      BY <2>1 DEF Ways
    <2>3. /\ \A q \in S : "checklist" \in Feeds(q) => q.of = c
          /\ \A p, q \in S : Rewrites(p) /\ "checklist" \in Feeds(q) => p = q
      BY <2>1 DEF Together
    <2>4. \A q \in DOMAIN more : Rewrites(q) => "checklist" \in Feeds(q)
      BY DEF Rewrites
    <2> QED
      BY <1>2, <2>1, <2>2, <2>3, <2>4 DEF Addressed, WriterAlone
  <1> QED
    BY <1>6, <1>7 DEF Ways, Panes

LEMMA WaysTaken ==
  ASSUME NEW bag, Flying(bag), NEW r \in DOMAIN bag, NEW over, NEW c, Ways(bag, over, c),
         NEW over2, over \subseteq over2
  PROVE  Ways(bag (-) SetToBag({r}), over2, c) /\ Flying(bag (-) SetToBag({r}))
  <1> PICK rest : rest = bag (-) SetToBag({r})
    OBVIOUS
  <1>1. /\ Flying(rest)
        /\ \A q \in DOMAIN rest : q \in DOMAIN bag /\ (bag[q] = 1 => rest[q] = 1)
    BY Taken
  <1>2. Ways(rest, over2, c)
    BY <1>1, WaysFewer
  <1> QED
    BY <1>1, <1>2

\* An answer is on its way to the same panes as the request was.
LEMMA WaysServed ==
  ASSUME Flying(net), NEW c, Ways(net, overtaken, c),
         NEW r \in DOMAIN net, NEW listing, ~r.served, Answered(r, listing)
  PROVE  Ways(net', overtaken, c)
  <1> PICK a : a = [r EXCEPT !.served = TRUE, !.answer = listing]
    OBVIOUS
  <1> PICK bag, more : bag = net /\ more = net'
    OBVIOUS
  <1>1. /\ AnswerOf(a, r, listing) /\ a # r
        /\ DOMAIN more \subseteq DOMAIN bag \cup {a} /\ a \in DOMAIN more
        /\ bag[r] = 1 => r \notin DOMAIN more
        /\ \A q \in DOMAIN more : q # a /\ bag[q] = 1 => more[q] = 1
        /\ a \notin DOMAIN bag => more[a] = 1
    BY ServeNet
  <1>2. Feeds(a) = Feeds(r) /\ a.of = r.of /\ a.kind = r.kind
    BY <1>1 DEF AnswerOf, Feeds
  <1>3. ASSUME NEW pane, Addressed(bag, pane, c)
        PROVE  Addressed(more, pane, c)
    BY <1>1, <1>2, <1>3 DEF Addressed
  <1>4. ASSUME NEW pane, Alone(bag, pane)
        PROVE  Alone(more, pane)
    <2>1. pane \in Feeds(r) =>
            bag[r] = 1 /\ \A q \in DOMAIN bag : pane \in Feeds(q) => q = r
      BY <1>4 DEF Alone
    <2>2. ASSUME NEW p \in DOMAIN more, NEW q \in DOMAIN more, pane \in Feeds(p), pane \in Feeds(q)
          PROVE  q = p /\ more[p] = 1
      <3>1. CASE pane \in Feeds(r)
        <4>1. a \notin DOMAIN bag
          BY <1>1, <1>2, <2>1, <3>1
        <4> QED
          BY <1>1, <2>1, <2>2, <3>1, <4>1
      <3>2. CASE pane \notin Feeds(r)
        <4>1. p # a /\ q # a
          BY <1>2, <2>2, <3>2
        <4>2. p \in DOMAIN bag /\ q \in DOMAIN bag
          BY <1>1, <2>2, <4>1
        <4> QED
          BY <1>1, <1>4, <2>2, <4>1, <4>2 DEF Alone
      <3> QED
        BY <3>1, <3>2
    <2> QED
      BY <2>2 DEF Alone
  <1>5. ASSUME WriterAlone(bag)
        PROVE  WriterAlone(more)
    <2> DEFINE pane == "checklist"
    <2>1. Rewrites(a) <=> Rewrites(r)
      BY <1>2 DEF Rewrites, Writes
    <2>2. ASSUME NEW p \in DOMAIN more, NEW q \in DOMAIN more, Rewrites(p), pane \in Feeds(q)
          PROVE  q = p /\ more[p] = 1
      <3>1. CASE Rewrites(r)
        <4>1. pane \in Feeds(r) /\ bag[r] = 1 /\ \A s \in DOMAIN bag : pane \in Feeds(s) => s = r
          BY <1>5, <3>1 DEF WriterAlone, Rewrites
        <4>2. a \notin DOMAIN bag
          BY <1>1, <1>2, <4>1
        <4>3. \A s \in DOMAIN more : pane \in Feeds(s) => s = a
          BY <1>1, <4>1
        <4>4. pane \in Feeds(p)
          BY <2>2 DEF Rewrites
        <4> QED
          BY <1>1, <2>2, <4>2, <4>3, <4>4
      <3>2. CASE ~Rewrites(r)
        <4>1. p # a /\ p \in DOMAIN bag
          BY <1>1, <2>1, <2>2, <3>2
        <4>2. CASE q = a
          <5>1. r = p
            BY <1>2, <1>5, <2>2, <4>1, <4>2 DEF WriterAlone
          <5> QED
            BY <2>2, <3>2, <5>1
        <4>3. CASE q # a
          BY <1>1, <1>5, <2>2, <4>1, <4>3 DEF WriterAlone
        <4> QED
          BY <4>2, <4>3
      <3> QED
        BY <3>1, <3>2
    <2> QED
      BY <2>2 DEF WriterAlone
  <1>6. Ways(more, overtaken, c)
    BY <1>3, <1>4, <1>5 DEF Ways
  <1> QED
    BY <1>6

LEMMA IssueWays ==
  ASSUME NEW rest, Flying(rest), NEW c, Ways(rest, overtaken, c),
         NEW S, Together(S, overtaken, c), Issue(S, rest)
  PROVE  Ways(net', overtaken', c)
  <1>1. net' = rest (+) SetToBag(S)
        /\ overtaken' = overtaken \cup (Fed(SetToBag(S)) \cap Fed(rest))
    BY DEF Issue
  <1> PICK over, over2 : over = overtaken /\ over2 = overtaken'
    OBVIOUS
  <1>2. Ways(rest (+) SetToBag(S), over2, c)
    <2>1. over2 \cap (Panes \cup {"checklist"})
            = (over \cup (Fed(SetToBag(S)) \cap Fed(rest))) \cap (Panes \cup {"checklist"})
      BY <1>1
    <2>2. Ways(rest, over, c) /\ Together(S, over, c)
      OBVIOUS
    <2> QED
      BY <2>1, <2>2, WaysAdded
  <1> QED
    BY <1>1, <1>2

LEMMA TogetherOne ==
  ASSUME NEW q, Shaped(q), NEW over, NEW c,
         \A pane \in (Panes \cup {"checklist"}) \ over : pane \in Feeds(q) => q.of = c
  PROVE  Together({q}, over, c) /\ Together({}, over, c)
  BY DEF Together

LEMMA FollowFeeds ==
  ASSUME NEW r, Shaped(r), NEW q \in FollowUps(r)
  PROVE  /\ q.of = r.of \/ Feeds(q) = {}
         /\ Shaped(q) /\ Feeds(q) \subseteq {"payouts"} /\ Feeds(q) \subseteq Feeds(r)
         /\ "checklist" \notin Feeds(q) /\ ~Writes(q)
  <1>1. /\ Shaped(q) /\ q.after = "nothing"
        /\ \/ q.kind = "payouts" /\ q.of = r.of /\ r.after = "payouts"
           \/ q.kind = "list" /\ r.after = "list"
    BY Following
  <1>2. r.after = "payouts" => "payouts" \in Feeds(r)
    BY Feeding
  <1>3. Feeds(q) = IF q.kind = "payouts" THEN {"payouts"} ELSE {}
    BY <1>1 DEF Feeds
  <1> QED
    BY <1>1, <1>2, <1>3 DEF Writes

\* What follows a detail that has been shown or has failed: at most one request.
LEMMA TogetherFollow ==
  ASSUME NEW r, Shaped(r), NEW over, NEW c, "payouts" \in Feeds(r) \ over => r.of = c
  PROVE  Together(FollowUps(r), over, c)
  <1>1. \A p, q \in FollowUps(r) : p = q
    BY DEF FollowUps
  <1>2. \A q \in FollowUps(r) : /\ q.of = r.of \/ Feeds(q) = {}
                                /\ Shaped(q) /\ Feeds(q) \subseteq {"payouts"} \cap Feeds(r)
    BY FollowFeeds
  <1> QED
    BY <1>1, <1>2 DEF Together

\* The effects on another case ask each pane once.
LEMMA TogetherScreen ==
  ASSUME NEW r, Shaped(r), NEW over
  PROVE  /\ Together({Ask("rules", r.of)} \cup FollowUps(r), over, r.of)
         /\ Together({Ask("rules", r.of)} \cup PanesOf(r.of), over, r.of)
  <1> PICK rules, S : rules = Ask("rules", r.of) /\ S = PanesOf(r.of)
    OBVIOUS
  <1>1. Shaped(rules) /\ rules.kind = "rules" /\ rules.of = r.of /\ rules.after = "nothing"
    BY Asking DEF Kinds
  <1>2. Feeds(rules) = {"checklist"} /\ ~Writes(rules)
    BY <1>1 DEF Feeds, Writes
  <1>3. Together({rules} \cup FollowUps(r), over, r.of)
    <2>1. \A p, q \in FollowUps(r) : p = q
      BY DEF FollowUps
    <2>2. \A q \in FollowUps(r) : /\ q.of = r.of \/ Feeds(q) = {}
                                  /\ Shaped(q) /\ Feeds(q) \subseteq {"payouts"} /\ ~Writes(q)
      BY FollowFeeds
    <2> QED
      BY <1>1, <1>2, <2>1, <2>2 DEF Together, Panes, Rewrites
  <1>4. Together({rules} \cup S, over, r.of)
    <2>1. ASSUME NEW kind \in {"documents", "payouts", "history"}
          PROVE  /\ Shaped(Ask(kind, r.of)) /\ Ask(kind, r.of).kind = kind
                 /\ Ask(kind, r.of).of = r.of /\ Ask(kind, r.of).after = "nothing"
      <3>1. kind \in Kinds
        BY DEF Kinds
      <3> QED
        BY <3>1, Asking
    <2>2. \A q \in S : /\ q.kind \in {"documents", "payouts", "history"} /\ q = Ask(q.kind, r.of)
                       /\ Shaped(q) /\ q.of = r.of /\ q.after = "nothing"
      BY <2>1 DEF PanesOf
    <2>3. \A q \in S : /\ q.kind = "documents" => Feeds(q) \subseteq {"documents", "checklist"}
                       /\ q.kind = "payouts" => Feeds(q) = {"payouts"}
                       /\ q.kind = "history" => Feeds(q) = {"history"}
                       /\ ~Writes(q)
      BY <2>2 DEF Feeds, FeedsDocuments, Writes
    <2>4. ASSUME NEW p \in S, NEW q \in S, NEW pane \in Panes, pane \in Feeds(p), pane \in Feeds(q)
          PROVE  p = q
      <3>1. p.kind = q.kind
        BY <2>2, <2>3, <2>4 DEF Panes
      <3> QED
        BY <2>2, <3>1
    <2>5. \A q \in {rules} \cup S : Shaped(q) /\ q.of = r.of /\ ~Writes(q)
      BY <1>1, <1>2, <2>2, <2>3
    <2>6. \A p, q \in {rules} \cup S : \A pane \in Panes :
            pane \in Feeds(p) /\ pane \in Feeds(q) => p = q
      BY <1>2, <2>4 DEF Panes
    <2> QED
      BY <2>5, <2>6 DEF Together, Rewrites
  <1> QED
    BY <1>3, <1>4

LEMMA DeliverWays ==
  ASSUME Flying(net), selected # None => Ways(net, overtaken, selected), Deliver,
         selected' # None
  PROVE  Ways(net', overtaken', selected')
  <1>1. ASSUME NEW r \in DOMAIN net, NEW S, Issue(S, Without(r)), selected' = selected,
               Together(S, overtaken, selected)
        PROVE  Ways(net', overtaken', selected')
    <2>1. selected # None /\ Ways(net, overtaken, selected)
      BY <1>1
    <2> PICK rest : rest = Without(r)
      OBVIOUS
    <2>2. Ways(rest, overtaken, selected) /\ Flying(rest)
      <3>1. Ways(net (-) SetToBag({r}), overtaken, selected) /\ Flying(net (-) SetToBag({r}))
        BY <2>1, WaysTaken
      <3> QED
        BY <3>1 DEF Without
    <2>3. Ways(net', overtaken', selected)
      BY <1>1, <2>2, IssueWays
    <2> QED
      BY <1>1, <2>3
  <1>2. ASSUME NEW r \in DOMAIN net, NEW pane \in (Panes \cup {"checklist"}) \ overtaken,
               pane \in Feeds(r), selected # None
        PROVE  r.of = selected
    BY <1>2 DEF Ways, Addressed, Panes
  <1>3. ASSUME NEW r \in DOMAIN net, selected' = selected, Issue({}, Without(r))
        PROVE  Ways(net', overtaken', selected')
    <2>1. Together({}, overtaken, selected)
      BY DEF Together
    <2> QED
      BY <1>1, <1>3, <2>1
  <1>4. ASSUME NEW r \in DOMAIN net, NEW q, Shaped(q), selected' = selected,
               Feeds(q) \subseteq Feeds(r), q.of = r.of \/ Feeds(q) = {},
               Issue({q}, Without(r))
        PROVE  Ways(net', overtaken', selected')
    <2>1. Together({q}, overtaken, selected)
      BY <1>2, <1>4, TogetherOne
    <2> QED
      BY <1>1, <1>4, <2>1
  <1>5. ASSUME NEW r \in DOMAIN net, NEW c, NEW after \in {"nothing", "payouts", "list"},
               selected' = selected, Issue({AskDetail(c, after)}, Without(r)),
               after = "payouts" => c = r.of /\ "payouts" \in Feeds(r)
        PROVE  Ways(net', overtaken', selected')
    <2> PICK q : q = AskDetail(c, after)
      OBVIOUS
    <2>1. Shaped(q) /\ q.kind = "detail" /\ q.of = c /\ q.after = after
      BY AskingDetail
    <2>2. Feeds(q) = IF after = "payouts" THEN {"payouts"} ELSE {}
      BY <2>1 DEF Feeds
    <2> QED
      BY <1>4, <1>5, <2>1, <2>2
  <1>6. \A r \in DOMAIN net : Shaped(r)
    BY DEF Flying
  <1>7. ASSUME NEW r \in DOMAIN net,
               \/ ShowList(r) \/ ShowRules(r) \/ ShowDocuments(r) \/ ShowUpload(r)
               \/ ShowReview(r) \/ ShowHistory(r) \/ ShowPreview(r)
        PROVE  Ways(net', overtaken', selected')
    <2>1. /\ selected' = selected
          /\ Issue({}, Without(r)) \/ Issue({AskDetail(FirstCase, "nothing")}, Without(r))
      BY <1>7 DEF ShowList, ShowRules, ShowDocuments, ShowUpload, ShowReview, ShowHistory,
                  ShowPreview, desk
    <2> QED
      BY <1>3, <1>5, <2>1
  <1>8. ASSUME NEW r \in DOMAIN net, ShowPayouts(r)
        PROVE  Ways(net', overtaken', selected')
    <2>1. "payouts" \in Feeds(r)
      BY <1>6, <1>8, Feeding DEF ShowPayouts
    <2> QED
      BY <1>3, <1>5, <1>8, <2>1 DEF ShowPayouts
  <1>9. ASSUME NEW r \in DOMAIN net, GoOn(r)
        PROVE  Ways(net', overtaken', selected')
    <2>1. CASE r.kind # "send"
      BY <1>5, <1>9, <2>1 DEF GoOn
    <2>2. CASE r.kind = "send"
      <3> PICK q : q = Ask("history", r.of)
        OBVIOUS
      <3>1. Shaped(q) /\ q.kind = "history" /\ q.of = r.of /\ q.after = "nothing"
        BY Asking DEF Kinds
      <3>2. Feeds(q) = {"history"} /\ "history" \in Feeds(r)
        BY <1>6, <2>2, <3>1, Feeding DEF Feeds
      <3> QED
        BY <1>4, <1>9, <2>2, <3>1, <3>2 DEF GoOn
    <2> QED
      BY <2>1, <2>2
  <1>10. ASSUME NEW r \in DOMAIN net, ShowDetail(r)
        PROVE  Ways(net', overtaken', selected')
    <2>1. CASE r.of = selected
      <3>1. Together({Ask("rules", r.of)} \cup FollowUps(r), overtaken, selected)
        BY <1>6, <2>1, TogetherScreen
      <3>2. Issue({Ask("rules", r.of)} \cup FollowUps(r), Without(r)) /\ selected' = selected
        BY <1>10, <2>1 DEF ShowDetail
      <3> QED
        BY <1>1, <3>1, <3>2
    <2>2. CASE r.of # selected
      <3> DEFINE taken == Without(r)
      <3> PICK rest, over2, c : rest = taken (+) SetToBag(FollowUps(r)) /\ over2 = overtaken'
                                /\ c = selected'
        OBVIOUS
      <3> PICK S : S = {Ask("rules", r.of)} \cup PanesOf(r.of)
        OBVIOUS
      <3>1. net' = rest (+) SetToBag(S) /\ over2 = Fed(rest) /\ c = r.of
        BY <1>10, <2>2 DEF ShowDetail
      <3>2. Flying(rest)
        <4>1. Onward(net, taken) /\ AskedOnly(FollowUps(r))
          BY OnwardTaken, AskedSets DEF Without
        <4> HIDE DEF taken
        <4> QED
          BY <4>1, OnwardAdded
      <3>3. Ways(rest, over2, c)
        <4>1. \A q \in DOMAIN rest : Feeds(q) \subseteq over2
          BY <3>1, FedBy
        <4> QED
          BY <4>1 DEF Ways, Addressed, Alone, WriterAlone
      <3>4. Together(S, over2, c)
        BY <1>6, <3>1, TogetherScreen
      <3>5. Ways(rest (+) SetToBag(S), over2, c)
        <4>1. over2 \cap (Panes \cup {"checklist"})
                = (over2 \cup (Fed(SetToBag(S)) \cap Fed(rest))) \cap (Panes \cup {"checklist"})
          BY <3>1
        <4> QED
          BY <3>2, <3>3, <3>4, <4>1, WaysAdded
      <3> QED
        BY <3>1, <3>5
    <2> QED
      BY <2>1, <2>2
  <1> QED
    BY <1>7, <1>8, <1>9, <1>10 DEF Deliver, BagToSet

LEMMA FailWays ==
  ASSUME Flying(net), selected # None, Ways(net, overtaken, selected), Fail
  PROVE  Ways(net', overtaken', selected)
  <1>1. PICK r, S :
          /\ r \in DOMAIN net
          /\ S = IF r.kind = "detail" THEN FollowUps(r) ELSE {}
          /\ net' = Without(r) (+) SetToBag(S)
          /\ overtaken' = overtaken \cup Feeds(r) \cup (Fed(SetToBag(S)) \cap Fed(Without(r)))
    BY DEF Fail, BagToSet
  <1> PICK rest, over, over2 :
        rest = Without(r) /\ over = overtaken \cup Feeds(r) /\ over2 = overtaken'
    OBVIOUS
  <1>2. Shaped(r)
    BY <1>1 DEF Flying
  <1>3. Ways(rest, over, selected) /\ Flying(rest)
    <2>1. Ways(net (-) SetToBag({r}), over, selected) /\ Flying(net (-) SetToBag({r}))
      BY <1>1, WaysTaken
    <2> QED
      BY <2>1 DEF Without
  <1>4. Together(S, over, selected)
    <2>1. Together(FollowUps(r), over, selected)
      BY <1>2, TogetherFollow
    <2>2. Together({}, over, selected)
      BY DEF Together
    <2> QED
      BY <1>1, <2>1, <2>2
  <1>5. Ways(rest (+) SetToBag(S), over2, selected)
    <2>1. over2 \cap (Panes \cup {"checklist"})
            = (over \cup (Fed(SetToBag(S)) \cap Fed(rest))) \cap (Panes \cup {"checklist"})
      BY <1>1
    <2> QED
      BY <1>3, <1>4, <2>1, WaysAdded
  <1> QED
    BY <1>1, <1>5

LEMMA ClickWays ==
  ASSUME Flying(net), selected # None, Ways(net, overtaken, selected), NEW q, Clicked(q)
  PROVE  Ways(net', overtaken', selected)
  <1>1. /\ Shaped(q) /\ Issue({q}, net)
        /\ q.kind \in {"detail", "list"} => q.after = "nothing"
        /\ q.kind \notin {"detail", "list"} => q.of = selected
    BY DEF Clicked, Issue
  <1>2. q.of = selected \/ Feeds(q) = {}
    BY <1>1 DEF Feeds
  <1>3. Together({q}, overtaken, selected)
    BY <1>1, <1>2, TogetherOne
  <1> QED
    BY <1>1, <1>3, IssueWays

LEMMA StepWays ==
  ASSUME Flying(net), selected # None => Ways(net, overtaken, selected), [Next]_vars,
         selected' # None
  PROVE  Ways(net', overtaken', selected')
  <1>1. CASE Deliver
    BY <1>1, DeliverWays
  <1>2. CASE Fail
    BY <1>2, FailWays DEF Fail
  <1>3. ASSUME NEW r \in DOMAIN net, NEW listing, Serving(r, listing)
        PROVE  Ways(net', overtaken', selected')
    BY <1>3, WaysServed DEF Serving, desk
  <1>4. ASSUME NEW q, Clicked(q), UNCHANGED selected
        PROVE  Ways(net', overtaken', selected')
    BY <1>4, ClickWays
  <1>5. ASSUME UNCHANGED <<net, selected>>, overtaken' \ {"preview"} = overtaken \ {"preview"}
        PROVE  Ways(net', overtaken', selected')
    <2>1. Ways(net, overtaken, selected) /\ selected' = selected /\ net' = net
      BY <1>5
    <2>2. \A pane : pane # "preview" => (pane \in overtaken <=> pane \in overtaken')
      BY <1>5
    <2> QED
      BY <2>1, <2>2 DEF Ways
  <1>6. ASSUME NEW t, SelectTemplate(t)
        PROVE  Ways(net', overtaken', selected')
    <2>1. UNCHANGED <<net, selected>> /\ overtaken' \ {"preview"} = overtaken \ {"preview"}
      BY <1>6 DEF SelectTemplate, desk
    <2> QED
      BY <1>5, <2>1
  <1>7. CASE EditVariables
    <2>1. UNCHANGED <<net, selected>> /\ overtaken' \ {"preview"} = overtaken \ {"preview"}
      BY <1>7 DEF EditVariables, desk
    <2> QED
      BY <1>5, <2>1
  <1>8. CASE UNCHANGED vars
    BY <1>5, <1>8 DEF vars, desk
  <1> QED
    BY <1>1, <1>2, <1>3, <1>4, <1>6, <1>7, <1>8, StepCases

------------------------------------------------------------------------------
(* What the panes show *)

\* The requests under way change, but none to the documents pane leaves, and no answer is new.
LEMMA RowsOn ==
  ASSUME NEW bag, NEW rows, NEW rowsStored, NEW filed, NEW c,
         RowsTrue(bag, rows, rowsStored, filed, c), NEW more,
         \A q \in DOMAIN bag : "documents" \in Feeds(q) => q \in DOMAIN more,
         \A q \in DOMAIN more : q.served /\ "documents" \in Feeds(q) => q \in DOMAIN bag
  PROVE  RowsTrue(more, rows, rowsStored, filed, c)
  BY DEF RowsTrue

LEMMA TicksOn ==
  ASSUME NEW bag, NEW list, NEW rowsStored, NEW filed, NEW c,
         TicksTrue(bag, list, rowsStored, filed, c), NEW more,
         \A q \in DOMAIN bag : "checklist" \in Feeds(q) => q \in DOMAIN more,
         \A q \in DOMAIN more : q.served /\ "checklist" \in Feeds(q) => q \in DOMAIN bag
  PROVE  TicksTrue(more, list, rowsStored, filed, c)
  <1>1. "checklist" \notin Fed(more) => "checklist" \notin Fed(bag)
    BY FedBy
  <1> QED
    BY <1>1 DEF TicksTrue

LEMMA Listed ==
  ASSUME NEW c
  PROVE  /\ DOMAIN Listing(c) = { d \in DOMAIN stored : Owner[d] = c }
         /\ \A d \in DOMAIN Listing(c) : Listing(c)[d] = stored[d]
         /\ Shows(Listing(c), stored, evidence, c)
         /\ Ticked(Listing(c)) = Standing(stored, evidence, c)
  BY DEF Listing, Restrict, Shows, Ticked, Standing

\* Rows that show the case tick off the same documents, whatever evidence they lack.
LEMMA TickedShown ==
  ASSUME NEW rows, NEW c, Shows(rows, stored, evidence, c)
  PROVE  Ticked(rows) = Standing(stored, evidence, c)
  BY DEF Shows, Ticked, Standing

\* A pane that an answer is not for: the answer leaves, handlers ask for more.
LEMMA OthersStay ==
  ASSUME Flying(net), NEW r \in DOMAIN net, NEW S, AskedOnly(S),
         net' = Without(r) (+) SetToBag(S)
  PROVE  /\ \A q \in DOMAIN net : q # r => q \in DOMAIN net'
         /\ \A q \in DOMAIN net' : q.served => q \in DOMAIN net
         /\ r.served /\ net[r] = 1 => r \notin DOMAIN net'
         /\ S \subseteq DOMAIN net'
  <1> PICK rest : rest = net (-) SetToBag({r})
    OBVIOUS
  <1>1. /\ Flying(rest) /\ DOMAIN rest \subseteq DOMAIN net
        /\ \A q \in DOMAIN net : q # r => q \in DOMAIN rest
        /\ net[r] = 1 => r \notin DOMAIN rest
    BY Taken
  <1>2. \A q \in S : Shaped(q) /\ ~q.served
    BY DEF AskedOnly
  <1>3. DOMAIN (rest (+) SetToBag(S)) = DOMAIN rest \cup S
    <2>1. \A q \in S : Shaped(q)
      BY <1>2
    <2>2. Flying(rest)
      BY <1>1
    <2> QED
      BY ONLY <2>1, <2>2, Added, Zenon
  <1>4. DOMAIN net' = DOMAIN rest \cup S
    BY <1>3 DEF Without
  <1> QED
    BY <1>1, <1>2, <1>4

\* Evidence is filed: the panes are as true as before.
LEMMA Submitted ==
  ASSUME NEW rowsStored, NEW filed, NEW c, NEW doc, doc \notin DOMAIN rowsStored,
         NEW after, after = WithUpload(rowsStored, doc)
  PROVE  /\ \A rows : Shows(rows, rowsStored, filed, c) => Shows(rows, after, filed \cup {doc}, c)
         /\ Standing(after, filed \cup {doc}, c) = Standing(rowsStored, filed, c)
  <1>1. /\ DOMAIN after = DOMAIN rowsStored \cup {doc}
        /\ \A d \in DOMAIN rowsStored : after[d] = rowsStored[d]
    BY DEF WithUpload
  <1>2. ASSUME NEW rows, Shows(rows, rowsStored, filed, c)
        PROVE  Shows(rows, after, filed \cup {doc}, c)
    BY <1>1, <1>2 DEF Shows
  <1>3. Standing(after, filed \cup {doc}, c) = Standing(rowsStored, filed, c)
    BY <1>1 DEF Standing
  <1> QED
    BY <1>2, <1>3

LEMMA ShowsUploaded ==
  ASSUME NEW rows, NEW rowsStored, NEW filed, NEW doc, doc \notin DOMAIN rowsStored,
         Shows(rows, rowsStored, filed, Owner[doc])
  PROVE  Shows(WithUpload(rows, doc), WithUpload(rowsStored, doc), filed, Owner[doc])
  <1> PICK more, after : more = WithUpload(rows, doc) /\ after = WithUpload(rowsStored, doc)
    OBVIOUS
  <1>1. /\ DOMAIN after = DOMAIN rowsStored \cup {doc} /\ after[doc] = "PENDING"
        /\ \A d \in DOMAIN rowsStored : after[d] = rowsStored[d]
    BY DEF WithUpload
  <1>2. /\ DOMAIN more = DOMAIN rows \cup {doc} /\ more[doc] = "PENDING"
        /\ \A d \in DOMAIN rows : d # doc => more[d] = rows[d]
    BY DEF WithUpload
  <1>3. Shows(more, after, filed, Owner[doc])
    BY <1>1, <1>2 DEF Shows
  <1> QED
    BY <1>3

LEMMA ShowsReviewed ==
  ASSUME NEW rows, NEW rowsStored, NEW filed, NEW c, NEW doc \in DOMAIN rowsStored, NEW status,
         Shows(rows, rowsStored, filed, c),
         NEW more, more = [d \in DOMAIN rows |-> IF d = doc THEN status ELSE rows[d]],
         NEW after, after = [rowsStored EXCEPT ![doc] = status]
  PROVE  Shows(more, after, filed, c)
  BY DEF Shows

\* What is told of a case stays told when evidence is filed, or when a document is filed
\* or changed by a command whose answer has no place in the checklist.
LEMMA ToldOn ==
  ASSUME NEW before, NEW after, NEW filed, NEW filed2, NEW c, NEW doc,
         DOMAIN before \subseteq DOMAIN after,
         \A d \in DOMAIN after : d # doc => d \in DOMAIN before /\ after[d] = before[d],
         filed2 = filed, c \in Ruled => Owner[doc] # c
  PROVE  /\ \A rows : Told(rows, before, filed, c) => Told(rows, after, filed2, c)
         /\ \A list : Ticking(list, before, filed, c) => Ticking(list, after, filed2, c)
  <1>1. ASSUME NEW rows, Told(rows, before, filed, c)
        PROVE  Told(rows, after, filed2, c)
    BY <1>1 DEF Told, Shows
  <1>2. c \in Ruled => Standing(after, filed2, c) = Standing(before, filed, c)
    BY DEF Standing
  <1>3. ASSUME NEW list, Ticking(list, before, filed, c)
        PROVE  Ticking(list, after, filed2, c)
    BY <1>2, <1>3 DEF Ticking
  <1> QED
    BY <1>1, <1>3

LEMMA ServeRight ==
  ASSUME Flying(net), FiledOnce, Ways(net, overtaken, selected), PanesRight,
         NEW r \in DOMAIN net, NEW listing, Serving(r, listing)
  PROVE  PanesRight'
  <1> PICK a : a = [r EXCEPT !.served = TRUE, !.answer = listing]
    OBVIOUS
  <1> PICK bag, more, over, c : bag = net /\ more = net' /\ over = overtaken /\ c = selected
    OBVIOUS
  <1> PICK before, after, filed, filed2 :
        before = stored /\ after = stored' /\ filed = evidence /\ filed2 = evidence'
    OBVIOUS
  <1> PICK rows, list : rows = documents /\ list = checklist
    OBVIOUS
  <1>1. /\ AnswerOf(a, r, listing)
        /\ DOMAIN more \subseteq DOMAIN bag \cup {a} /\ a \in DOMAIN more
        /\ \A q \in DOMAIN bag : q # r => q \in DOMAIN more
        /\ bag[r] = 1 => r \notin DOMAIN more
    BY ServeNet DEF Serving
  <1>2. /\ Feeds(a) = Feeds(r) /\ a.of = r.of /\ a.kind = r.kind /\ a.doc = r.doc
        /\ a.status = r.status /\ a.served /\ a.answer = listing
    BY <1>1 DEF AnswerOf, Feeds
  <1>3. /\ UNCHANGED <<documents, checklist, payoutSummary, communicationHistory, selected,
                      overtaken>>
        /\ ~r.served
    BY DEF Serving, desk, panes
  <1>4. \A pane : pane \in Fed(bag) => pane \in Fed(more)
    BY <1>1, <1>2, FedBy
  <1>5. /\ "documents" \in Feeds(r) <=> r.kind \in {"documents", "upload", "review"}
        /\ "checklist" \in Feeds(r) <=>
             r.kind = "rules" \/ (r.kind \in {"documents", "upload", "review"} /\ r.of \in Ruled)
    BY Feeding DEF Flying
  <1>6. r.kind \in {"documents", "rules", "upload", "submission", "review"}
    BY DEF Serving, Filing
  <1>7. /\ r.kind \in Filing => r.of = Owner[r.doc] /\ r.doc \notin DOMAIN before
                                 /\ after = WithUpload(before, r.doc)
        /\ r.kind = "submission" => filed2 = filed \cup {r.doc}
        /\ r.kind # "submission" => filed2 = filed
        /\ r.kind \notin Filing \cup {"review"} => after = before
        /\ r.kind = "review" => /\ r.doc \in DOMAIN before /\ Owner[r.doc] = r.of
                                /\ after = [before EXCEPT ![r.doc] = r.status]
    BY <1>3 DEF Serving, FiledOnce, Filing, server, Found
  <1>8. Shows(listing, after, filed2, r.of)
    BY DEF Serving, Listing, Restrict, Shows, server
  <1>9. ASSUME "documents" \notin over
        PROVE  RowsTrue(more, rows, after, filed2, c)
    <2>1. RowsTrue(bag, rows, before, filed, c)
      BY <1>9 DEF PanesRight
    <2>2. CASE "documents" \notin Feeds(r)
      <3>1. RowsTrue(more, rows, before, filed, c)
        <4>1. \A q \in DOMAIN bag : "documents" \in Feeds(q) => q \in DOMAIN more
          BY <1>1, <2>2
        <4>2. \A q \in DOMAIN more : q.served /\ "documents" \in Feeds(q) => q \in DOMAIN bag
          BY <1>1, <1>2, <2>2
        <4> QED
          BY <2>1, <4>1, <4>2, RowsOn
      <3>2. CASE r.kind = "rules"
        BY <1>7, <3>1, <3>2 DEF Filing
      <3>3. CASE r.kind = "submission"
        <4>1. \A any : Shows(any, before, filed, c) => Shows(any, after, filed2, c)
          <5>1. /\ r.doc \notin DOMAIN before /\ after = WithUpload(before, r.doc)
                /\ filed2 = filed \cup {r.doc}
            BY <1>7, <3>3 DEF Filing
          <5>2. \A any : Shows(any, before, filed, c) => Shows(any, after, filed \cup {r.doc}, c)
            BY ONLY <5>1, Submitted, Zenon
          <5> QED
            BY <5>1, <5>2
        <4> QED
          BY <3>1, <4>1 DEF RowsTrue
      <3> QED
        BY <1>5, <1>6, <2>2, <3>2, <3>3
    <2>3. CASE "documents" \in Feeds(r)
      <3>1. r.of = c /\ bag[r] = 1 /\ \A q \in DOMAIN bag : "documents" \in Feeds(q) => q = r
        <4>1. Addressed(bag, "documents", c) /\ Alone(bag, "documents")
          BY <1>9 DEF Ways
        <4> QED
          BY <2>3, <4>1 DEF Addressed, Alone
      <3>2. \A q \in DOMAIN more : "documents" \in Feeds(q) => q = a
        BY <1>1, <3>1
      <3>3. Shows(Result(rows, a), after, filed2, c)
        <4>1. CASE r.kind = "documents"
          BY <1>2, <1>8, <3>1, <4>1 DEF Result
        <4>2. ASSUME r.kind \in {"upload", "review"}
              PROVE  Shows(rows, before, filed, c)
          <5>1. \A q \in DOMAIN bag : "documents" \in Feeds(q) => Writes(q) /\ ~q.served
            BY <1>3, <3>1, <4>2 DEF Writes
          <5> QED
            BY <2>1, <5>1 DEF RowsTrue
        <4>3. CASE r.kind = "upload"
          <5>1. /\ r.doc \notin DOMAIN before /\ c = Owner[r.doc] /\ filed2 = filed
                /\ after = WithUpload(before, r.doc)
            BY <1>7, <3>1, <4>3 DEF Filing
          <5>2. Result(rows, a) = WithUpload(rows, r.doc)
            BY <1>2, <4>3 DEF Result
          <5>3. Shows(WithUpload(rows, r.doc), WithUpload(before, r.doc), filed, Owner[r.doc])
            BY <4>2, <4>3, <5>1, ShowsUploaded
          <5> QED
            BY <5>1, <5>2, <5>3
        <4>4. CASE r.kind = "review"
          <5>1. /\ r.doc \in DOMAIN before /\ filed2 = filed
                /\ after = [before EXCEPT ![r.doc] = r.status]
            BY <1>7, <4>4
          <5> PICK result : result = Result(rows, a)
            OBVIOUS
          <5>2. result = [d \in DOMAIN rows |-> IF d = r.doc THEN r.status ELSE rows[d]]
            BY <1>2, <4>4 DEF Result
          <5>3. Shows(rows, before, filed, c)
            BY <4>2, <4>4
          <5>4. Shows(result, after, filed, c)
            BY ONLY <5>1, <5>2, <5>3, ShowsReviewed, Zenon
          <5> QED
            BY <5>1, <5>4
        <4> QED
          BY <1>5, <2>3, <4>1, <4>3, <4>4
      <3> QED
        BY <1>1, <1>2, <2>3, <3>2, <3>3 DEF RowsTrue
    <2> QED
      BY <2>2, <2>3
  <1>10. ASSUME "checklist" \notin over
         PROVE  TicksTrue(more, list, after, filed2, c)
    <2>1. TicksTrue(bag, list, before, filed, c)
      BY <1>10 DEF PanesRight
    <2>2. CASE "checklist" \notin Feeds(r)
      <3>1. TicksTrue(more, list, before, filed, c)
        <4>1. \A q \in DOMAIN bag : "checklist" \in Feeds(q) => q \in DOMAIN more
          BY <1>1, <2>2
        <4>2. \A q \in DOMAIN more : q.served /\ "checklist" \in Feeds(q) => q \in DOMAIN bag
          BY <1>1, <1>2, <2>2
        <4> QED
          BY <2>1, <4>1, <4>2, TicksOn
      <3>2. CASE r.kind = "submission"
        <4>1. /\ \A any : Shows(any, before, filed, c) => Shows(any, after, filed2, c)
              /\ Standing(after, filed2, c) = Standing(before, filed, c)
              /\ DOMAIN before \subseteq DOMAIN after
          <5>1. /\ r.doc \notin DOMAIN before /\ after = WithUpload(before, r.doc)
                /\ filed2 = filed \cup {r.doc}
            BY <1>7, <3>2 DEF Filing
          <5>2. /\ \A any : Shows(any, before, filed, c) => Shows(any, after, filed2, c)
                /\ Standing(after, filed2, c) = Standing(before, filed, c)
            BY <5>1, Submitted
          <5>3. DOMAIN before \subseteq DOMAIN after
            BY <5>1 DEF WithUpload
          <5> QED
            BY <5>2, <5>3
        <4>2. /\ \A any : Told(any, before, filed, c) => Told(any, after, filed2, c)
              /\ Ticking(list, before, filed, c) => Ticking(list, after, filed2, c)
          BY <4>1 DEF Told, Ticking
        <4> QED
          BY <3>1, <4>2 DEF TicksTrue
      <3>3. CASE r.kind = "documents"
        BY <1>7, <3>1, <3>3 DEF Filing
      <3>4. CASE r.kind \in {"upload", "review"}
        <4>1. r.of \notin Ruled /\ r.of = Owner[r.doc] /\ filed2 = filed
          BY <1>5, <1>7, <2>2, <3>4 DEF Filing
        <4>2. /\ DOMAIN before \subseteq DOMAIN after
              /\ \A d \in DOMAIN after : d # r.doc => d \in DOMAIN before /\ after[d] = before[d]
          <5>1. CASE r.kind = "upload"
            <6>1. after = WithUpload(before, r.doc)
              BY <1>7, <5>1 DEF Filing
            <6> QED
              BY <6>1 DEF WithUpload
          <5>2. CASE r.kind = "review"
            <6>1. after = [before EXCEPT ![r.doc] = r.status]
              BY <1>7, <5>2
            <6> QED
              BY <6>1
          <5> QED
            BY <3>4, <5>1, <5>2
        <4>3. c \in Ruled => Owner[r.doc] # c
          BY <4>1
        <4> PICK doc : doc = r.doc
          OBVIOUS
        <4>4. /\ DOMAIN before \subseteq DOMAIN after
              /\ \A d \in DOMAIN after : d # doc => d \in DOMAIN before /\ after[d] = before[d]
              /\ filed2 = filed /\ (c \in Ruled => Owner[doc] # c)
          BY <4>1, <4>2, <4>3
        <4>5. /\ \A any : Told(any, before, filed, c) => Told(any, after, filed2, c)
              /\ \A any : Ticking(any, before, filed, c) => Ticking(any, after, filed2, c)
          BY ONLY <4>4, ToldOn, Zenon
        <4> QED
          BY <3>1, <4>5 DEF TicksTrue
      <3> QED
        BY <1>5, <1>6, <2>2, <3>2, <3>3, <3>4
    <2>3. CASE "checklist" \in Feeds(r)
      <3>1. Addressed(bag, "checklist", c) /\ WriterAlone(bag)
        BY <1>10 DEF Ways
      <3>2. Told(listing, after, filed2, c)
        BY <1>8, <2>3, <3>1 DEF Addressed, Told, Shows
      <3>3. "checklist" \in Fed(more)
        BY <1>1, <1>2, <2>3, FedBy
      <3>4. ASSUME NEW q \in DOMAIN more, q.served, "checklist" \in Feeds(q), q # a
            PROVE  Told(q.answer, after, filed2, c)
        <4>1. q \in DOMAIN bag /\ Told(q.answer, before, filed, c)
          BY <1>1, <2>1, <3>4 DEF TicksTrue
        <4>2. r.kind \notin {"upload", "review"}
          BY <1>3, <2>3, <3>1, <3>4, <4>1 DEF WriterAlone, Rewrites, Writes
        <4> QED
          BY <1>5, <1>7, <2>3, <4>1, <4>2 DEF Filing
      <3> QED
        BY <1>2, <3>2, <3>3, <3>4 DEF TicksTrue
    <2> QED
      BY <2>2, <2>3
  <1> QED
    BY <1>3, <1>4, <1>9, <1>10 DEF PanesRight

\* r leaves, and the panes that it feeds show its answer, ask on, or are overtaken.
Arrives(r, S) ==
  /\ AskedOnly(S) /\ net' = Without(r) (+) SetToBag(S)
  /\ overtaken \subseteq overtaken'
  /\ UNCHANGED <<server, selected>>
  /\ "documents" \notin Feeds(r) => documents' = documents
  /\ "documents" \in Feeds(r) \ overtaken' => r.served /\ documents' = Result(documents, r)
  /\ "checklist" \notin Feeds(r) => checklist' = checklist
  /\ "checklist" \in Feeds(r) \ overtaken' =>
       r.served /\ checklist' = [of |-> r.of, ticked |-> Ticked(r.answer)]
  /\ "payouts" \notin Feeds(r) => payoutSummary' = payoutSummary
  /\ "payouts" \in Feeds(r) \ overtaken' =>
       payoutSummary' = r.of \/ \E q \in S : "payouts" \in Feeds(q)
  /\ "history" \notin Feeds(r) => communicationHistory' = communicationHistory
  /\ "history" \in Feeds(r) \ overtaken' =>
       communicationHistory' = r.of \/ \E q \in S : "history" \in Feeds(q)

LEMMA ArrivesRight ==
  ASSUME Flying(net), Ways(net, overtaken, selected), PanesRight, NEW r \in DOMAIN net, NEW S,
         Arrives(r, S)
  PROVE  PanesRight'
  <1> PICK bag, more, over, over2, c :
        bag = net /\ more = net' /\ over = overtaken /\ over2 = overtaken' /\ c = selected
    OBVIOUS
  <1> PICK before, filed, rows, rows2, list, list2 :
        /\ before = stored /\ filed = evidence /\ rows = documents /\ rows2 = documents'
        /\ list = checklist /\ list2 = checklist'
    OBVIOUS
  <1>1. /\ \A q \in DOMAIN bag : q # r => q \in DOMAIN more
        /\ \A q \in DOMAIN more : q.served => q \in DOMAIN bag
        /\ r.served /\ bag[r] = 1 => r \notin DOMAIN more
        /\ S \subseteq DOMAIN more
    BY OthersStay DEF Arrives
  <1>2. over \subseteq over2 /\ stored' = before /\ evidence' = filed /\ selected' = c
    BY DEF Arrives, server
  <1>3. ASSUME "documents" \notin over2
        PROVE  RowsTrue(more, rows2, before, filed, c)
    <2>1. RowsTrue(bag, rows, before, filed, c)
      BY <1>2, <1>3 DEF PanesRight
    <2>2. CASE "documents" \notin Feeds(r)
      <3>1. RowsTrue(more, rows, before, filed, c)
        <4>1. \A q \in DOMAIN bag : "documents" \in Feeds(q) => q \in DOMAIN more
          BY <1>1, <2>2
        <4>2. \A q \in DOMAIN more : q.served /\ "documents" \in Feeds(q) => q \in DOMAIN bag
          BY <1>1
        <4> QED
          BY <2>1, <4>1, <4>2, RowsOn
      <3> QED
        BY <2>2, <3>1 DEF Arrives
    <2>3. CASE "documents" \in Feeds(r)
      <3>1. r.served /\ rows2 = Result(rows, r)
        BY <1>3, <2>3 DEF Arrives
      <3>2. bag[r] = 1 /\ \A q \in DOMAIN bag : "documents" \in Feeds(q) => q = r
        <4>1. Alone(bag, "documents")
          BY <1>2, <1>3 DEF Ways
        <4> QED
          BY <2>3, <4>1 DEF Alone
      <3>3. \A q \in DOMAIN more : ~(q.served /\ "documents" \in Feeds(q))
        BY <1>1, <3>1, <3>2
      <3>4. Shows(rows2, before, filed, c)
        BY <2>1, <2>3, <3>1 DEF RowsTrue
      <3> QED
        BY <3>3, <3>4 DEF RowsTrue
    <2> QED
      BY <2>2, <2>3
  <1>4. ASSUME "checklist" \notin over2
        PROVE  TicksTrue(more, list2, before, filed, c)
    <2>1. TicksTrue(bag, list, before, filed, c)
      BY <1>2, <1>4 DEF PanesRight
    <2>2. CASE "checklist" \notin Feeds(r)
      <3>1. TicksTrue(more, list, before, filed, c)
        <4>1. \A q \in DOMAIN bag : "checklist" \in Feeds(q) => q \in DOMAIN more
          BY <1>1, <2>2
        <4>2. \A q \in DOMAIN more : q.served /\ "checklist" \in Feeds(q) => q \in DOMAIN bag
          BY <1>1
        <4> QED
          BY <2>1, <4>1, <4>2, TicksOn
      <3> QED
        BY <2>2, <3>1 DEF Arrives
    <2>3. CASE "checklist" \in Feeds(r)
      <3>1. r.served /\ list2 = [of |-> r.of, ticked |-> Ticked(r.answer)]
        BY <1>4, <2>3 DEF Arrives
      <3>2. r.of = c
        BY <1>2, <1>4, <2>3 DEF Ways, Addressed
      <3>3. Told(r.answer, before, filed, c)
        BY <2>1, <2>3, <3>1 DEF TicksTrue
      <3>4. Ticking(list2, before, filed, c)
        <4>1. c \in Ruled => Ticked(r.answer) = Standing(before, filed, c)
          BY <3>3, TickedShown DEF Told
        <4>2. Ticked(r.answer) \subseteq DOMAIN r.answer
          BY DEF Ticked
        <4> QED
          BY <3>1, <3>2, <3>3, <4>1, <4>2 DEF Ticking, Told
      <3>5. \A q \in DOMAIN more :
              q.served /\ "checklist" \in Feeds(q) => Told(q.answer, before, filed, c)
        BY <1>1, <2>1 DEF TicksTrue
      <3> QED
        BY <3>1, <3>2, <3>4, <3>5 DEF TicksTrue
    <2> QED
      BY <2>2, <2>3
  <1>5. ASSUME NEW pane \in {"payouts", "history"}, pane \notin over2 \cup Fed(more)
        PROVE  /\ pane \notin Feeds(r) => pane \notin over \cup Fed(bag)
               /\ pane \in Feeds(r) => r.of = c
               /\ \A q \in S : pane \notin Feeds(q)
    <2>1. \A q \in DOMAIN more : pane \notin Feeds(q)
      BY <1>5, FedBy
    <2>2. pane \notin Feeds(r) => pane \notin Fed(bag)
      BY <1>1, <2>1, FedBy
    <2>3. pane \in Feeds(r) => r.of = c
      BY <1>2, <1>5 DEF Ways, Addressed
    <2> QED
      BY <1>1, <1>2, <1>5, <2>1, <2>2, <2>3
  <1>6. "payouts" \notin over2 \cup Fed(more) => payoutSummary' = c
    BY <1>5 DEF Arrives, PanesRight
  <1>7. "history" \notin over2 \cup Fed(more) => communicationHistory' = c
    BY <1>5 DEF Arrives, PanesRight
  <1> QED
    BY <1>2, <1>3, <1>4, <1>6, <1>7 DEF PanesRight

\* Another case comes on screen: whatever was under way overtakes its pane, and each of
\* the panes has been asked for.
LEMMA AnotherRight ==
  ASSUME Flying(net), NEW r \in DOMAIN net, ShowDetail(r), r.of # selected
  PROVE  PanesRight'
  <1> DEFINE taken == Without(r)
  <1> PICK rest, S : /\ rest = taken (+) SetToBag(FollowUps(r))
                     /\ S = {Ask("rules", r.of)} \cup PanesOf(r.of)
    OBVIOUS
  <1>1. net' = rest (+) SetToBag(S) /\ overtaken' = Fed(rest)
    BY DEF ShowDetail
  <1>2. Flying(rest)
    <2>1. Onward(net, taken) /\ AskedOnly(FollowUps(r))
      BY OnwardTaken, AskedSets DEF Without
    <2> HIDE DEF taken
    <2> QED
      BY <2>1, OnwardAdded
  <1>3. AskedOnly(S)
    <2>1. AskedOnly({Ask("rules", r.of)}) /\ AskedOnly(PanesOf(r.of))
      BY AskedSets DEF Asked
    <2> QED
      BY <2>1, AskedSets
  <1>4. DOMAIN net' = DOMAIN rest \cup S
    <2>1. \A q \in S : Shaped(q)
      BY <1>3 DEF AskedOnly
    <2>2. DOMAIN (rest (+) SetToBag(S)) = DOMAIN rest \cup S
      BY ONLY <1>2, <2>1, Added, Zenon
    <2> QED
      BY <1>1, <2>2
  <1>5. \A q \in DOMAIN net' : q.served => Feeds(q) \subseteq overtaken'
    <2>1. \A q \in DOMAIN rest : Feeds(q) \subseteq Fed(rest)
      BY FedBy
    <2> QED
      BY <1>1, <1>3, <1>4, <2>1 DEF AskedOnly
  <1>6. \A pane \in {"documents", "checklist", "payouts", "history"} :
          \E q \in DOMAIN net' : pane \in Feeds(q) /\ ~Writes(q)
    <2>1. ASSUME NEW kind \in {"documents", "rules", "payouts", "history"}
          PROVE  Ask(kind, r.of) \in S
      BY DEF PanesOf
    <2>2. ASSUME NEW kind \in {"documents", "rules", "payouts", "history"}
          PROVE  Ask(kind, r.of).kind = kind
      BY DEF Ask
    <2>3. /\ "documents" \in Feeds(Ask("documents", r.of))
          /\ "checklist" \in Feeds(Ask("rules", r.of))
          /\ "payouts" \in Feeds(Ask("payouts", r.of))
          /\ "history" \in Feeds(Ask("history", r.of))
      BY DEF Feeds, FeedsDocuments, Ask
    <2>4. \A kind \in {"documents", "rules", "payouts", "history"} :
            Ask(kind, r.of) \in DOMAIN net' /\ ~Writes(Ask(kind, r.of))
      BY <1>4, <2>1, <2>2 DEF Writes
    <2> QED
      BY <2>3, <2>4
  <1>7. {"documents", "checklist", "payouts", "history"} \subseteq Fed(net')
    BY <1>6, FedBy
  <1> PICK more, over2 : more = net' /\ over2 = overtaken'
    OBVIOUS
  <1>8. /\ \A any, rows, filed, c :
             "documents" \notin over2 => RowsTrue(more, any, rows, filed, c)
        /\ \A any, rows, filed, c :
             "checklist" \notin over2 => TicksTrue(more, any, rows, filed, c)
    BY <1>5, <1>6, <1>7 DEF RowsTrue, TicksTrue
  <1> QED
    BY <1>7, <1>8 DEF PanesRight

LEMMA DeliverRight ==
  ASSUME Flying(net), selected # None => Ways(net, overtaken, selected) /\ PanesRight, Deliver,
         selected' # None
  PROVE  PanesRight'
  <1>1. \A r \in DOMAIN net :
          /\ "documents" \in Feeds(r) <=> r.kind \in {"documents", "upload", "review"}
          /\ "checklist" \in Feeds(r) <=>
               r.kind = "rules" \/ (r.kind \in {"documents", "upload", "review"} /\ r.of \in Ruled)
          /\ "payouts" \in Feeds(r) <=> r.kind \in {"payouts", "payout"} \/ r.after = "payouts"
          /\ "history" \in Feeds(r) <=> r.kind \in {"history", "send"}
          /\ r.kind # "detail" => r.after = "nothing"
    BY Feeding DEF Flying, Shaped
  <1>2. ASSUME NEW r \in DOMAIN net, NEW S, AskedOnly(S), Issue(S, Without(r)),
               UNCHANGED <<server, selected>>
        PROVE  /\ AskedOnly(S) /\ net' = Without(r) (+) SetToBag(S)
               /\ overtaken \subseteq overtaken' /\ UNCHANGED <<server, selected>>
    BY <1>2 DEF Issue
  <1>3. ASSUME NEW r \in DOMAIN net, NEW S, Arrives(r, S)
        PROVE  PanesRight'
    <2>1. selected # None
      BY <1>3 DEF Arrives
    <2> QED
      BY <1>3, <2>1, ArrivesRight
  <1>4. PICK r \in DOMAIN net :
          /\ r.kind \in Served => r.served
          /\ \/ ShowList(r) \/ ShowDetail(r) \/ ShowRules(r) \/ ShowDocuments(r) \/ ShowUpload(r)
             \/ ShowReview(r) \/ ShowPayouts(r) \/ ShowHistory(r) \/ ShowPreview(r) \/ GoOn(r)
    BY DEF Deliver, BagToSet
  <1>5. AskedOnly({})
    BY AskedSets
  <1>6. \A c, after : after \in {"nothing", "payouts", "list"} => AskedOnly({AskDetail(c, after)})
    BY AskedSets
  <1>7. CASE ShowList(r)
    <2>1. \E S : AskedOnly(S) /\ Issue(S, Without(r)) /\ UNCHANGED <<server, selected, panes>>
      BY <1>5, <1>6, <1>7 DEF ShowList
    <2>2. r.kind = "list"
      BY <1>7 DEF ShowList
    <2> QED
      BY <1>1, <1>2, <1>3, <2>1, <2>2 DEF Arrives, panes
  <1>8. CASE ShowRules(r)
    <2>1. /\ Issue({}, Without(r)) /\ r.kind = "rules" /\ r.served
          /\ checklist' = [of |-> r.of, ticked |-> Ticked(r.answer)]
          /\ UNCHANGED <<server, selected, documents, payoutSummary, communicationHistory>>
      BY <1>4, <1>8 DEF ShowRules, desk, Served
    <2> QED
      BY <1>1, <1>2, <1>3, <1>5, <2>1 DEF Arrives
  <1>9. CASE ShowDocuments(r) \/ ShowUpload(r) \/ ShowReview(r)
    <2>1. /\ Issue({}, Without(r)) /\ r.kind \in {"documents", "upload", "review"} /\ r.served
          /\ documents' = Result(documents, r)
          /\ checklist' =
               IF r.of \in Ruled THEN [of |-> r.of, ticked |-> Ticked(r.answer)] ELSE checklist
          /\ UNCHANGED <<server, selected, payoutSummary, communicationHistory>>
      BY <1>4, <1>9 DEF ShowDocuments, ShowUpload, ShowReview, desk, Served, Result, Prepended,
                        Progress
    <2> QED
      BY <1>1, <1>2, <1>3, <1>5, <2>1 DEF Arrives
  <1>10. CASE ShowPayouts(r)
    <2>1. /\ \E S : AskedOnly(S) /\ Issue(S, Without(r))
          /\ r.kind \in {"payouts", "payout"} /\ payoutSummary' = r.of
          /\ UNCHANGED <<server, selected, documents, checklist, communicationHistory>>
      BY <1>5, <1>6, <1>10 DEF ShowPayouts
    <2> QED
      BY <1>1, <1>2, <1>3, <2>1 DEF Arrives
  <1>11. CASE ShowHistory(r)
    <2>1. /\ Issue({}, Without(r)) /\ r.kind = "history" /\ communicationHistory' = r.of
          /\ UNCHANGED <<server, selected, documents, checklist, payoutSummary>>
      BY <1>11 DEF ShowHistory, desk
    <2> QED
      BY <1>1, <1>2, <1>3, <1>5, <2>1 DEF Arrives
  <1>12. CASE ShowPreview(r)
    <2>1. Issue({}, Without(r)) /\ r.kind = "plan" /\ UNCHANGED <<server, selected, panes>>
      BY <1>12 DEF ShowPreview, desk
    <2> QED
      BY <1>1, <1>2, <1>3, <1>5, <2>1 DEF Arrives, panes
  <1>13. CASE GoOn(r)
    <2>1. CASE r.kind # "send"
      <3>1. /\ \E S : AskedOnly(S) /\ Issue(S, Without(r))
            /\ r.kind \in {"submission", "transition"} /\ UNCHANGED <<server, selected, panes>>
        BY <1>6, <1>13, <2>1 DEF GoOn
      <3> QED
        BY <1>1, <1>2, <1>3, <3>1 DEF Arrives, panes
    <2>2. CASE r.kind = "send"
      <3> PICK q, S : q = Ask("history", r.of) /\ S = {q}
        OBVIOUS
      <3>1. AskedOnly(S)
        BY AskedSets DEF Asked
      <3>2. q \in S /\ "history" \in Feeds(q)
        BY DEF Ask, Feeds
      <3>3. Issue(S, Without(r)) /\ UNCHANGED <<server, selected, panes>>
        BY <1>13, <2>2 DEF GoOn
      <3> QED
        BY <1>1, <1>2, <1>3, <2>2, <3>1, <3>2, <3>3 DEF Arrives, panes
    <2> QED
      BY <2>1, <2>2
  <1>14. CASE ShowDetail(r)
    <2>1. CASE r.of # selected
      BY <1>14, <2>1, AnotherRight
    <2>2. CASE r.of = selected
      <3> PICK S : S = {Ask("rules", r.of)} \cup FollowUps(r)
        OBVIOUS
      <3>1. AskedOnly(S)
        <4>1. AskedOnly({Ask("rules", r.of)}) /\ AskedOnly(FollowUps(r))
          BY AskedSets DEF Asked
        <4> QED
          BY <4>1, AskedSets
      <3>2. Issue(S, Without(r)) /\ r.kind = "detail" /\ UNCHANGED <<server, selected, panes>>
        BY <1>14, <2>2 DEF ShowDetail
      <3>3. r.after = "payouts" => \E q \in S : "payouts" \in Feeds(q)
        <4>1. "payouts" \in Feeds(Ask("payouts", r.of))
          BY DEF Ask, Feeds
        <4> QED
          BY <4>1 DEF FollowUps
      <3> QED
        BY <1>1, <1>2, <1>3, <3>1, <3>2, <3>3 DEF Arrives, panes
    <2> QED
      BY <2>1, <2>2
  <1> QED
    BY <1>4, <1>7, <1>8, <1>9, <1>10, <1>11, <1>12, <1>13, <1>14

LEMMA FailRight ==
  ASSUME Flying(net), Ways(net, overtaken, selected), PanesRight, Fail
  PROVE  PanesRight'
  <1>1. PICK r, S :
          /\ r \in DOMAIN net
          /\ S = IF r.kind = "detail" THEN FollowUps(r) ELSE {}
          /\ net' = Without(r) (+) SetToBag(S)
          /\ overtaken \cup Feeds(r) \subseteq overtaken'
          /\ checklist' = IF r.kind = "rules" THEN NoChecklist ELSE checklist
          /\ UNCHANGED <<server, selected, documents, payoutSummary, communicationHistory>>
    BY DEF Fail, BagToSet
  <1>2. AskedOnly(S)
    BY <1>1, AskedSets
  <1>3. r.kind = "rules" => "checklist" \in Feeds(r)
    BY <1>1, Feeding DEF Flying
  <1>4. Arrives(r, S)
    BY <1>1, <1>2, <1>3 DEF Arrives
  <1> QED
    BY <1>1, <1>4, ArrivesRight

LEMMA StepRight ==
  ASSUME Flying(net), FiledOnce, selected # None => Ways(net, overtaken, selected) /\ PanesRight,
         [Next]_vars, selected' # None
  PROVE  PanesRight'
  <1>1. CASE Deliver
    BY <1>1, DeliverRight
  <1>2. CASE Fail
    BY <1>2, FailRight DEF Fail
  <1>3. ASSUME NEW r \in DOMAIN net, NEW listing, Serving(r, listing)
        PROVE  PanesRight'
    BY <1>3, ServeRight DEF Serving, desk
  <1>4. ASSUME UNCHANGED <<server, selected, panes>>,
               DOMAIN net \subseteq DOMAIN net', \A q \in DOMAIN net' : q.served => q \in DOMAIN net,
               \A pane : pane # "preview" /\ pane \in overtaken => pane \in overtaken'
        PROVE  PanesRight'
    <2> PICK bag, more, over2 : bag = net /\ more = net' /\ over2 = overtaken'
      OBVIOUS
    <2>1. selected # None /\ PanesRight
      BY <1>4
    <2>2. "documents" \notin over2 => RowsTrue(more, documents, stored, evidence, selected)
      BY <1>4, <2>1, RowsOn DEF PanesRight
    <2>3. "checklist" \notin over2 => TicksTrue(more, checklist, stored, evidence, selected)
      BY <1>4, <2>1, TicksOn DEF PanesRight
    <2>4. \A pane : pane \in Fed(bag) => pane \in Fed(more)
      BY <1>4, FedBy
    <2> QED
      BY <1>4, <2>1, <2>2, <2>3, <2>4 DEF PanesRight, server, panes
  <1>5. ASSUME NEW q, Clicked(q), UNCHANGED <<server, selected, panes>>
        PROVE  PanesRight'
    <2>1. DOMAIN net' = DOMAIN net \cup {q} /\ ~q.served /\ overtaken \subseteq overtaken'
      BY <1>5, ClickNet DEF Clicked
    <2> QED
      BY <1>4, <1>5, <2>1
  <1>6. ASSUME NEW t, SelectTemplate(t)
        PROVE  PanesRight'
    BY <1>4, <1>6 DEF SelectTemplate, Click, desk
  <1>7. CASE EditVariables
    BY <1>4, <1>7 DEF EditVariables, Click, desk
  <1>8. CASE UNCHANGED vars
    BY <1>4, <1>8 DEF vars, desk
  <1> QED
    BY <1>1, <1>2, <1>3, <1>5, <1>6, <1>7, <1>8, StepCases

\* Every pane shows the case on screen as it is stored (the checklist of a case without a
\* jurisdiction only documents of that case), unless two answers were under way to the pane
\* at once or one of its requests failed.
THEOREM PanesTruthful == Spec => []PanesTrue
  <1>1. Init => ScreenInv
    <2>1. ASSUME Init
          PROVE  /\ DOMAIN net = {Ask("list", None)} /\ net[Ask("list", None)] = 1
                 /\ selected = None
      BY <2>1 DEF Init, SetToBag
    <2>2. Shaped(Ask("list", None)) /\ Ask("list", None).kind = "list"
      BY Asking DEF Kinds
    <2> QED
      BY <2>1, <2>2 DEF ScreenInv, Flying, FiledOnce, Filing
  <1>2. ScreenInv /\ [Next]_vars => ScreenInv'
    BY StepFlying, StepFiled, StepWays, StepRight DEF ScreenInv
  <1>3. ScreenInv => PanesTrue
    <2> SUFFICES ASSUME ScreenInv, selected # None
                 PROVE  PanesTrue
      BY DEF PanesTrue
    <2>1. PanesRight
      BY DEF ScreenInv
    <2>2. ASSUME Settled("documents")
          PROVE  Shows(documents, stored, evidence, selected)
      <3>1. \A r \in DOMAIN net : "documents" \notin Feeds(r)
        BY <2>2, FedBy DEF Settled
      <3> QED
        BY <2>1, <2>2, <3>1 DEF PanesRight, RowsTrue, Settled
    <2>3. Settled("checklist") => Ticking(checklist, stored, evidence, selected)
      BY <2>1 DEF PanesRight, TicksTrue, Settled
    <2>4. /\ DOMAIN Listing(selected) = { d \in DOMAIN stored : Owner[d] = selected }
          /\ Ticked(Listing(selected)) = Standing(stored, evidence, selected)
      BY Listed
    <2>5. (Settled("payouts") => payoutSummary = selected)
          /\ (Settled("history") => communicationHistory = selected)
      BY <2>1 DEF PanesRight, Settled
    <2> QED
      BY <2>2, <2>3, <2>4, <2>5 DEF PanesTrue, Shows, Ticking
  <1> QED
    BY <1>1, <1>2, <1>3, PTL DEF Spec
==============================================================================
