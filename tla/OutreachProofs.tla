--------------------------- MODULE OutreachProofs ----------------------------
(***************************************************************************)
(* Theorems about Outreach, for any number of overlapping scans and polls, *)
(* any cases, events and deadlines, any caps, batches, faults and days.    *)
(***************************************************************************)
EXTENDS Outreach, FiniteSetTheorems, TLAPS

\* Stages in which a scan has an occasion in hand.
Taking == { "count", "block", "create" }

\* A scan has an occasion in hand in those stages alone, and has taken it off its list.
ScanSound ==
  \A s \in Scans :
    IF scans[s].stage \in Taking
    THEN scans[s].now \in Occasions /\ scans[s].now \notin scans[s].todo
    ELSE scans[s].now = Desk

\* What a poll has read is stored, and the mail in hand is off the batch.
PollSound ==
  \A p \in Polls :
    /\ polls[p].now \cap polls[p].batch = {}
    /\ \A m \in polls[p].batch \cup polls[p].now : ~Free(m)

\* The scans that may yet remind of an occasion.
Holders(o) == { s \in Scans : scans[s].now = o \/ o \in scans[s].todo }

Made == { m \in MadeToday : mails[m].for # Desk }

\* Those that wait, which is all that the cap on automatic mail bounds.
Waiting == { m \in Made : mails[m].status = "pending_auto" }

\* The scans that are past their check of the caps.
Creating == { s \in Scans : scans[s].stage = "create" }

\* A poll that has yet to hand a mail over, and one that has tried to.
Asks(poll, m) == m \in poll.batch \/ (m \in poll.now /\ poll.stage = "sending")

Spends(poll, m) == m \in poll.now /\ poll.stage \in { "sent", "failing" }

Asked(m) == { p \in Polls : Asks(polls[p], m) }

Spent(m) == { p \in Polls : Spends(polls[p], m) }

\* Reminders made and reminders to come: no more than there are scans.
RemindersLeft ==
  \A o \in Occasions : Cardinality(MailsFor(o)) + Cardinality(Holders(o)) <= Cardinality(Scans)

\* So with the reminders of a day, of which the last check saw fewer than the cap.
Room(made, creating, cap) ==
  /\ made # {} \/ creating # {} => cap # 0
  /\ made # {} => Cardinality(made) + Cardinality(creating) < cap + Cardinality(Scans)

CapLeft == Room(Made, Creating, CommsCap) /\ Room(Waiting, Creating, AutoCap)

\* And with the times that a mail is handed over; while it is not settled, each of them is
\* a poll's that has it in hand still, or is made up for by a fault.
SendsLeft ==
  \A m \in Mails :
    /\ handed[m] + Cardinality(Asked(m)) <= Cardinality(Polls) + faults
    /\ mails[m].status \notin Settled => handed[m] <= Cardinality(Spent(m)) + faults

Inv ==
  TypeOK /\ ScanSound /\ PollSound /\ ProcessedReminded /\ RemindersLeft /\ CapLeft /\ SendsLeft

------------------------------------------------------------------------------
(* Sizes *)

LEMMA Smaller ==
  ASSUME NEW S, NEW T, IsFiniteSet(S), T \subseteq S
  PROVE  /\ IsFiniteSet(T) /\ Cardinality(T) \in Nat /\ Cardinality(S) \in Nat
         /\ Cardinality(T) <= Cardinality(S)
  BY FS_Subset, FS_CardinalityType

LEMMA OneMore ==
  ASSUME NEW S, NEW T, NEW x, IsFiniteSet(S), T \subseteq S \cup { x }
  PROVE  /\ IsFiniteSet(T) /\ Cardinality(T) \in Nat /\ Cardinality(S) \in Nat
         /\ Cardinality(T) <= Cardinality(S) + 1
  <1>1. IsFiniteSet(S \cup { x }) /\ Cardinality(S \cup { x }) <= Cardinality(S) + 1
        /\ Cardinality(S) \in Nat
    BY FS_AddElement, FS_CardinalityType
  <1> QED
    BY <1>1, Smaller

LEMMA OneLess ==
  ASSUME NEW S, NEW T, NEW x, IsFiniteSet(S), x \in S, T \subseteq S \ { x }
  PROVE  /\ IsFiniteSet(T) /\ Cardinality(T) \in Nat /\ Cardinality(S) \in Nat
         /\ Cardinality(T) + 1 <= Cardinality(S)
  <1>1. IsFiniteSet(S \ { x }) /\ Cardinality(S \ { x }) = Cardinality(S) - 1
        /\ Cardinality(S) \in Nat
    BY FS_RemoveElement, FS_CardinalityType
  <1> QED
    BY <1>1, Smaller

LEMMA Apart ==
  ASSUME NEW S, NEW A, NEW B, IsFiniteSet(S), A \subseteq S, B \subseteq S, A \cap B = {}
  PROVE  /\ Cardinality(A) \in Nat /\ Cardinality(B) \in Nat
         /\ Cardinality(A) + Cardinality(B) <= Cardinality(S)
  <1>1. IsFiniteSet(A) /\ IsFiniteSet(B) /\ Cardinality(A) \in Nat /\ Cardinality(B) \in Nat
    BY Smaller
  <1>2. Cardinality(A \cup B) = Cardinality(A) + Cardinality(B) - Cardinality(A \cap B)
    BY <1>1, FS_Union
  <1>3. Cardinality(A \cap B) = 0
    BY FS_EmptySet
  <1>4. Cardinality(A \cup B) <= Cardinality(S) /\ Cardinality(S) \in Nat
    BY Smaller, A \cup B \subseteq S
  <1> QED
    BY <1>1, <1>2, <1>3, <1>4

LEMMA MailsFinite == IsFiniteSet(Mails)
  BY FS_Interval, BoundAssumption DEF Mails

\* Sets of scans, of polls and of mails have a size.
LEMMA Sizes ==
  /\ Cardinality(Scans) \in Nat /\ Cardinality(Polls) \in Nat
  /\ \A T \in SUBSET Scans : IsFiniteSet(T) /\ Cardinality(T) \in 0..Cardinality(Scans)
  /\ \A T \in SUBSET Polls : IsFiniteSet(T) /\ Cardinality(T) \in 0..Cardinality(Polls)
  /\ \A T \in SUBSET Mails : IsFiniteSet(T) /\ Cardinality(T) \in Nat
  <1>1. Cardinality(Scans) \in Nat /\ Cardinality(Polls) \in Nat
    BY FS_CardinalityType, RunAssumption
  <1>2. \A T \in SUBSET Scans : IsFiniteSet(T) /\ Cardinality(T) \in 0..Cardinality(Scans)
    BY Smaller, RunAssumption
  <1>3. \A T \in SUBSET Polls : IsFiniteSet(T) /\ Cardinality(T) \in 0..Cardinality(Polls)
    BY Smaller, RunAssumption
  <1>4. \A T \in SUBSET Mails : IsFiniteSet(T) /\ Cardinality(T) \in Nat
    BY Smaller, MailsFinite
  <1> QED
    BY <1>1, <1>2, <1>3, <1>4

\* Room is left when a check finds fewer than the cap ...
LEMMA RoomFound ==
  ASSUME NEW cap \in Nat, NEW made \in SUBSET Mails, NEW creating \in SUBSET Scans,
         Cardinality(made) < cap
  PROVE  Room(made, creating, cap)
  <1>1. Cardinality(made) \in Nat /\ Cardinality(creating) \in 0..Cardinality(Scans)
        /\ Cardinality(Scans) \in Nat
    BY Sizes
  <1> QED
    BY <1>1 DEF Room

\* ... stays when neither set grows ...
LEMMA RoomKept ==
  ASSUME NEW cap \in Nat, NEW made \in SUBSET Mails, NEW creating \in SUBSET Scans,
         Room(made, creating, cap),
         NEW made2 \in SUBSET made, NEW creating2 \in SUBSET creating
  PROVE  Room(made2, creating2, cap)
  <1>1. /\ IsFiniteSet(made) /\ IsFiniteSet(creating)
        /\ Cardinality(made) \in Nat /\ Cardinality(creating) \in Nat
        /\ Cardinality(Scans) \in Nat
    BY Sizes
  <1>2. /\ Cardinality(made2) <= Cardinality(made) /\ Cardinality(made2) \in Nat
        /\ Cardinality(creating2) <= Cardinality(creating) /\ Cardinality(creating2) \in Nat
    BY <1>1, Smaller
  <1> QED
    BY <1>1, <1>2 DEF Room

\* ... and when a scan that is past its check makes one more.
LEMMA RoomTaken ==
  ASSUME NEW cap \in Nat, NEW made \in SUBSET Mails, NEW creating \in SUBSET Scans,
         Room(made, creating, cap), NEW m \in Mails, NEW s \in creating,
         NEW made2 \in SUBSET (made \cup { m }), NEW creating2 \in SUBSET (creating \ { s })
  PROVE  Room(made2, creating2, cap)
  <1>1. /\ IsFiniteSet(made) /\ IsFiniteSet(creating)
        /\ Cardinality(made) \in Nat /\ Cardinality(creating) \in 0..Cardinality(Scans)
        /\ Cardinality(Scans) \in Nat
    BY Sizes
  <1>2. Cardinality(made2) <= Cardinality(made) + 1 /\ Cardinality(made2) \in Nat
    BY <1>1, OneMore
  <1>3. Cardinality(creating2) + 1 <= Cardinality(creating) /\ Cardinality(creating2) \in Nat
    BY <1>1, OneLess
  <1>4. made = {} => Cardinality(made) = 0
    BY FS_EmptySet
  <1>5. cap # 0
    BY DEF Room
  <1> QED
    BY <1>1, <1>2, <1>3, <1>4, <1>5 DEF Room

\* The sets that the caps are about.
LEMMA CapSets ==
  /\ CommsCap \in Nat /\ AutoCap \in Nat
  /\ MadeToday \in SUBSET Mails /\ AutoToday \in SUBSET MadeToday
  /\ Made \in SUBSET MadeToday /\ Waiting \in SUBSET Made /\ Waiting \in SUBSET AutoToday
  /\ Creating \in SUBSET Scans
  BY CapAssumption DEF MadeToday, AutoToday, Made, Waiting, Creating

------------------------------------------------------------------------------
(* Parts of the invariant that a step leaves alone *)

\* Mails keep their place, what they are for and their day.
MailsKept ==
  \A m \in Mails :
    /\ mails'[m].status = "none" <=> mails[m].status = "none"
    /\ mails'[m].for = mails[m].for
    /\ mails'[m].today = mails[m].today

LEMMA KeptSets ==
  ASSUME MailsKept
  PROVE  /\ \A o : MailsFor(o)' = MailsFor(o)
         /\ Made' = Made
         /\ \A m \in Mails : Free(m)' <=> Free(m)
  BY DEF MailsKept, MailsFor, Made, MadeToday, Free

\* A step of a scan other than the one that stores a reminder.
LEMMA ScanKeeps ==
  ASSUME Inv, NEW s \in Scans, NEW to \in ScanStates, SetScan(s, to),
         UNCHANGED << calendar, mails, polls, handed >>,
         blocks' \in [ CaseRefs -> Nat ],
         faults' \in Nat, faults' >= faults,
         IF to.stage \in Taking THEN to.now \in Occasions /\ to.now \notin to.todo
                                ELSE to.now = Desk,
         \A o \in Occasions : to.now = o \/ o \in to.todo
            => scans[s].now = o \/ o \in scans[s].todo \/ MailsFor(o) = {},
         to.stage = "create"
            => \/ scans[s].stage = "create"
               \/ Cardinality(MadeToday) < CommsCap /\ Cardinality(AutoToday) < AutoCap
  PROVE  Inv'
  <1>1. scans' \in [ Scans -> ScanStates ] /\ scans'[s] = to
        /\ \A t \in Scans : t # s => scans'[t] = scans[t]
    BY DEF SetScan, Inv, TypeOK
  <1>2. MailsKept /\ events' = events /\ mails' = mails /\ polls' = polls /\ handed' = handed
        /\ left' = left /\ closed' = closed /\ others' = others
    BY DEF MailsKept, calendar
  <1>3. TypeOK'
    BY <1>1, <1>2 DEF Inv, TypeOK
  <1>4. ScanSound'
    BY <1>1 DEF Inv, ScanSound
  <1>5. PollSound' /\ ProcessedReminded'
    <2>1. PollSound'
      BY <1>2 DEF Inv, PollSound, Free
    <2>2. ASSUME NEW e \in Events
          PROVE  events'[e].stage = "processed" <=> MailsFor(e)' # {}
      <3>1. MailsFor(e)' = MailsFor(e)
        BY <1>2, KeptSets
      <3> QED
        BY <1>2, <3>1 DEF Inv, ProcessedReminded
    <2> QED
      BY <2>1, <2>2 DEF ProcessedReminded
  <1>6. RemindersLeft'
    <2> SUFFICES ASSUME NEW o \in Occasions
                 PROVE  Cardinality(MailsFor(o)') + Cardinality(Holders(o)')
                          <= Cardinality(Scans)
      BY DEF RemindersLeft
    <2>1. MailsFor(o)' = MailsFor(o) /\ MailsFor(o) \subseteq Mails
      BY <1>2, KeptSets DEF MailsFor
    <2>2. Holders(o) \subseteq Scans /\ Holders(o)' \subseteq Scans
      BY DEF Holders
    <2>3. CASE MailsFor(o) = {}
      BY <2>1, <2>2, <2>3, Sizes, FS_EmptySet
    <2>4. CASE MailsFor(o) # {}
      <3>1. Holders(o)' \subseteq Holders(o)
        BY <1>1, <2>4 DEF Holders
      <3>2. Cardinality(Holders(o)') <= Cardinality(Holders(o))
        BY <2>2, <3>1, Sizes, Smaller
      <3> QED
        BY <2>1, <2>2, <3>2, Sizes DEF Inv, RemindersLeft
    <2> QED
      BY <2>3, <2>4
  <1>7. CapLeft'
    <2>1. Made' = Made /\ Waiting' = Waiting
      BY <1>2, KeptSets DEF Waiting
    <2>2. Creating' \in SUBSET Scans
      BY DEF Creating
    <2>3. CASE Creating' \subseteq Creating
      BY <2>1, <2>3, CapSets, RoomKept DEF Inv, CapLeft
    <2>4. CASE ~ (Creating' \subseteq Creating)
      <3>1. Cardinality(MadeToday) < CommsCap /\ Cardinality(AutoToday) < AutoCap
        BY <1>1, <2>4 DEF Creating
      <3>2. /\ Cardinality(Made) <= Cardinality(MadeToday) /\ Cardinality(Made) \in Nat
            /\ Cardinality(Waiting) <= Cardinality(AutoToday) /\ Cardinality(Waiting) \in Nat
            /\ Cardinality(MadeToday) \in Nat /\ Cardinality(AutoToday) \in Nat
        BY CapSets, Sizes, Smaller
      <3>3. Cardinality(Made) < CommsCap /\ Cardinality(Waiting) < AutoCap
        BY <3>1, <3>2, CapSets
      <3> QED
        BY <2>1, <2>2, <3>3, CapSets, RoomFound DEF CapLeft
    <2> QED
      BY <2>3, <2>4
  <1>8. SendsLeft'
    <2> SUFFICES ASSUME NEW m \in Mails
                 PROVE  /\ handed'[m] + Cardinality(Asked(m)') <= Cardinality(Polls) + faults'
                        /\ mails'[m].status \notin Settled
                             => handed'[m] <= Cardinality(Spent(m)') + faults'
      BY DEF SendsLeft
    <2>1. Asked(m)' = Asked(m) /\ Spent(m)' = Spent(m) /\ Asked(m) \subseteq Polls
          /\ Spent(m) \subseteq Polls /\ handed[m] \in Nat /\ faults \in Nat
      BY <1>2 DEF Asked, Spent, Asks, Spends, Inv, TypeOK
    <2> QED
      BY <1>2, <2>1, Sizes DEF Inv, SendsLeft
  <1> QED
    BY <1>3, <1>4, <1>5, <1>6, <1>7, <1>8 DEF Inv
------------------------------------------------------------------------------
(* Steps of scans *)

LEMMA IdleScanFields ==
  IdleScan \in ScanStates /\ IdleScan.stage = "idle" /\ IdleScan.todo = {} /\ IdleScan.now = Desk
  BY DEF IdleScan, ScanStates, ScanStages

LEMMA Resuming ==
  ASSUME Inv, NEW s \in Scans, Resume(s)
  PROVE  \E to \in ScanStates :
           /\ SetScan(s, to)
           /\ to.stage \in { "events", "cases" } /\ to.now = Desk /\ to.todo = scans[s].todo
  <1>1. scans[s] \in ScanStates
    BY DEF Inv, TypeOK
  <1> DEFINE to == [ scans[s] EXCEPT
                       !.stage = IF scans[s].now \in Events THEN "events" ELSE "cases",
                       !.now = Desk ]
  <1>2. /\ to \in ScanStates
        /\ to.stage \in { "events", "cases" } /\ to.now = Desk /\ to.todo = scans[s].todo
    BY <1>1 DEF ScanStates, ScanStages
  <1>3. SetScan(s, to)
    BY DEF Resume
  <1> HIDE DEF to
  <1> QED
    BY <1>2, <1>3

LEMMA BeginScanKeeps ==
  ASSUME Inv, NEW s \in Scans, BeginScan(s)
  PROVE  Inv'
  <1> DEFINE pending == { e \in Events : events[e].stage = "pending" /\ RefOf[e] \in Addressed }
             to == [ IdleScan EXCEPT !.stage = "events", !.todo = pending ]
  <1>1. to \in ScanStates /\ to.stage = "events" /\ to.todo = pending /\ to.now = Desk
    BY IdleScanFields DEF ScanStates, ScanStages
  <1>2. \A o \in pending : MailsFor(o) = {}
    BY DEF Inv, ProcessedReminded
  <1>3. SetScan(s, to) /\ UNCHANGED << calendar, mails, blocks, polls, handed, faults >>
    BY DEF BeginScan
  <1> HIDE DEF to, pending
  <1> QED
    BY <1>1, <1>2, <1>3, ScanKeeps, OccasionAssumption DEF Inv, TypeOK, Taking

LEMMA TakeEventKeeps ==
  ASSUME Inv, NEW s \in Scans, NEW e \in Events, TakeEvent(s, e)
  PROVE  Inv'
  <1> DEFINE to == [ stage |-> "count", todo |-> scans[s].todo \ { e }, now |-> e ]
  <1>1. /\ to \in ScanStates /\ to.stage = "count" /\ to.todo = scans[s].todo \ { e }
        /\ to.now = e /\ e \in Occasions /\ e \in scans[s].todo
    BY DEF Inv, TypeOK, ScanStates, ScanStages, Occasions, TakeEvent
  <1>2. SetScan(s, to) /\ UNCHANGED << calendar, mails, blocks, polls, handed, faults >>
    BY DEF TakeEvent
  <1> HIDE DEF to
  <1> QED
    BY <1>1, <1>2, ScanKeeps DEF Inv, TypeOK, Taking

LEMMA ListCasesKeeps ==
  ASSUME Inv, NEW s \in Scans, ListCases(s)
  PROVE  Inv'
  <1> DEFINE to == [ IdleScan EXCEPT !.stage = "cases", !.todo = Addressed \ closed ]
  <1>1. /\ to \in ScanStates /\ to.stage = "cases" /\ to.todo \subseteq CaseRefs
        /\ to.now = Desk
    BY IdleScanFields, RefAssumption DEF ScanStates, ScanStages
  <1>2. SetScan(s, to) /\ UNCHANGED << calendar, mails, blocks, polls, handed, faults >>
    BY DEF ListCases
  <1> HIDE DEF to
  <1> QED
    BY <1>1, <1>2, ScanKeeps, OccasionAssumption DEF Inv, TypeOK, Taking

LEMMA TakeCaseKeeps ==
  ASSUME Inv, NEW s \in Scans, NEW c \in CaseRefs, TakeCase(s, c)
  PROVE  Inv'
  <1> DEFINE rest == scans[s].todo \ { c }
  <1>1. /\ scans[s] \in ScanStates /\ scans[s].stage = "cases" /\ scans[s].now = Desk
        /\ UNCHANGED << calendar, mails, blocks, polls, handed, faults >>
    BY DEF Inv, TypeOK, TakeCase, ScanSound, Taking
  <1>2. CASE \E d \in NextDeadlines(c) :
               /\ MailsFor(d) = {}
               /\ SetScan(s, [ stage |-> "count", todo |-> rest, now |-> d ])
    <2>1. PICK d \in NextDeadlines(c) :
            /\ MailsFor(d) = {}
            /\ SetScan(s, [ stage |-> "count", todo |-> rest, now |-> d ])
      BY <1>2
    <2> DEFINE to == [ stage |-> "count", todo |-> rest, now |-> d ]
    <2>2. d \in Deadlines /\ d \in Occasions
      BY DEF NextDeadlines, Occasions
    <2>3. /\ to \in ScanStates /\ to.stage = "count" /\ to.now = d
          /\ to.todo \subseteq scans[s].todo /\ d \notin to.todo
      BY <1>1, <2>2, OccasionAssumption DEF ScanStates, ScanStages
    <2>4. SetScan(s, to)
      BY <2>1
    <2> HIDE DEF to
    <2> QED
      BY <1>1, <2>1, <2>2, <2>3, <2>4, ScanKeeps DEF Inv, TypeOK, Taking
  <1>3. CASE SetScan(s, [ scans[s] EXCEPT !.todo = rest ])
    <2> DEFINE to == [ scans[s] EXCEPT !.todo = rest ]
    <2>1. /\ to \in ScanStates /\ to.stage = "cases" /\ to.now = Desk
          /\ to.todo \subseteq scans[s].todo
      BY <1>1 DEF ScanStates
    <2>2. SetScan(s, to)
      BY <1>3
    <2> HIDE DEF to
    <2> QED
      BY <1>1, <2>1, <2>2, ScanKeeps, OccasionAssumption DEF Inv, TypeOK, Taking
  <1> QED
    BY <1>2, <1>3 DEF TakeCase

LEMMA EndScanKeeps ==
  ASSUME Inv, NEW s \in Scans, EndScan(s)
  PROVE  Inv'
  BY ScanKeeps, IdleScanFields, OccasionAssumption DEF EndScan, Inv, TypeOK, Taking

LEMMA CheckCapsKeeps ==
  ASSUME Inv, NEW s \in Scans, CheckCaps(s)
  PROVE  Inv'
  <1>1. /\ scans[s] \in ScanStates /\ scans[s].stage = "count"
        /\ scans[s].now \in Occasions /\ scans[s].now \notin scans[s].todo
        /\ UNCHANGED << calendar, mails, blocks, polls, handed, faults >>
    BY DEF Inv, TypeOK, CheckCaps, ScanSound, Taking
  <1>2. CASE ~Capped /\ SetScan(s, [ scans[s] EXCEPT !.stage = "create" ])
    <2> DEFINE to == [ scans[s] EXCEPT !.stage = "create" ]
    <2>1. to \in ScanStates /\ to.stage = "create" /\ to.now = scans[s].now
          /\ to.todo = scans[s].todo
      BY <1>1 DEF ScanStates, ScanStages
    <2>2. /\ Cardinality(MadeToday) \in Nat /\ Cardinality(AutoToday) \in Nat
          /\ others \in Nat /\ CommsCap \in Nat /\ AutoCap \in Nat
      BY CapSets, Sizes DEF Inv, TypeOK
    <2>3. Cardinality(MadeToday) < CommsCap /\ Cardinality(AutoToday) < AutoCap
      BY <1>2, <2>2 DEF Capped
    <2>4. SetScan(s, to)
      BY <1>2
    <2> HIDE DEF to
    <2> QED
      BY <1>1, <2>1, <2>3, <2>4, ScanKeeps DEF Inv, TypeOK, Taking
  <1>3. CASE SetScan(s, [ scans[s] EXCEPT !.stage = "block" ])
    <2> DEFINE to == [ scans[s] EXCEPT !.stage = "block" ]
    <2>1. to \in ScanStates /\ to.stage = "block" /\ to.now = scans[s].now
          /\ to.todo = scans[s].todo
      BY <1>1 DEF ScanStates, ScanStages
    <2>2. SetScan(s, to)
      BY <1>3
    <2> HIDE DEF to
    <2> QED
      BY <1>1, <2>1, <2>2, ScanKeeps DEF Inv, TypeOK, Taking
  <1>4. CASE Resume(s)
    BY <1>1, <1>4, Resuming, ScanKeeps, OccasionAssumption DEF Inv, TypeOK, Taking
  <1> QED
    BY <1>2, <1>3, <1>4 DEF CheckCaps

LEMMA RecordCapBlockKeeps ==
  ASSUME Inv, NEW s \in Scans, RecordCapBlock(s)
  PROVE  Inv'
  <1>1. Resume(s) /\ UNCHANGED << calendar, mails, polls, handed, faults >>
    BY DEF RecordCapBlock
  <1>2. RefOf[scans[s].now] \in CaseRefs
    BY RefAssumption DEF RecordCapBlock, Inv, ScanSound, Taking
  <1>3. blocks' \in [ CaseRefs -> Nat ]
    BY <1>2 DEF RecordCapBlock, Inv, TypeOK
  <1> QED
    BY <1>1, <1>3, Resuming, ScanKeeps, OccasionAssumption DEF Inv, TypeOK, Taking

LEMMA ScanFails ==
  ASSUME Inv, NEW s \in Scans, ScanFault(s) \/ ScanCrash(s)
  PROVE  Inv'
  <1>1. /\ faults' \in Nat /\ faults' >= faults /\ blocks' \in [ CaseRefs -> Nat ]
        /\ UNCHANGED << calendar, mails, polls, handed >>
    BY DEF ScanFault, ScanCrash, Fault, Inv, TypeOK
  <1>2. CASE Resume(s)
    BY <1>1, <1>2, Resuming, ScanKeeps, OccasionAssumption DEF Inv, Taking
  <1>3. CASE SetScan(s, IdleScan)
    BY <1>1, <1>3, IdleScanFields, ScanKeeps, OccasionAssumption DEF Inv, Taking
  <1> QED
    BY <1>2, <1>3 DEF ScanFault, ScanCrash
------------------------------------------------------------------------------
(* Steps of polls *)

LEMMA IdlePollFields ==
  /\ IdlePoll \in PollStates
  /\ IdlePoll.stage = "idle" /\ IdlePoll.batch = {} /\ IdlePoll.now = {}
  BY DEF IdlePoll, PollStates, PollStages

\* The poll asks to send the mail no more than before, and forgets that it has only when
\* the mail is settled or at the cost of a fault.
Calm(p, to, m) ==
  /\ handed'[m] = handed[m]
  /\ Asks(to, m) => Asks(polls[p], m)
  /\ mails'[m].status \notin Settled /\ Spends(polls[p], m)
       => Spends(to, m) \/ faults' > faults

\* The poll may ask from now on.
Begins(p, to, m) ==
  /\ handed'[m] = handed[m]
  /\ mails[m].status \notin Settled
  /\ Spends(polls[p], m) => Spends(to, m)

\* The poll hands the mail over.
Hands(p, to, m) ==
  /\ handed'[m] = handed[m] + 1
  /\ Asks(polls[p], m) /\ ~Asks(to, m)
  /\ ~Spends(polls[p], m) /\ Spends(to, m)

LEMMA SendsKept ==
  ASSUME Inv, NEW p \in Polls, NEW to \in PollStates, SetPoll(p, to), NEW m \in Mails,
         to.now \cap to.batch = {},
         faults' \in Nat, faults' >= faults,
         mails'[m].status \notin Settled => mails[m].status \notin Settled,
         Calm(p, to, m) \/ Begins(p, to, m) \/ Hands(p, to, m)
  PROVE  /\ handed'[m] + Cardinality(Asked(m)') <= Cardinality(Polls) + faults'
         /\ mails'[m].status \notin Settled
              => handed'[m] <= Cardinality(Spent(m)') + faults'
  <1>1. polls'[p] = to /\ \A q \in Polls : q # p => polls'[q] = polls[q]
    BY DEF SetPoll, Inv, TypeOK
  <1>2. /\ Asked(m) \subseteq Polls /\ Asked(m)' \subseteq Polls
        /\ Spent(m) \subseteq Polls /\ Spent(m)' \subseteq Polls
        /\ handed[m] \in Nat /\ faults \in Nat
    BY DEF Asked, Spent, Inv, TypeOK
  <1>3. /\ IsFiniteSet(Asked(m)) /\ IsFiniteSet(Asked(m)')
        /\ IsFiniteSet(Spent(m)) /\ IsFiniteSet(Spent(m)')
        /\ Cardinality(Asked(m)) \in Nat /\ Cardinality(Asked(m)') \in Nat
        /\ Cardinality(Spent(m)) \in Nat /\ Cardinality(Spent(m)') \in Nat
        /\ Cardinality(Polls) \in Nat
    BY <1>2, Sizes
  <1>4. /\ handed[m] + Cardinality(Asked(m)) <= Cardinality(Polls) + faults
        /\ mails[m].status \notin Settled => handed[m] <= Cardinality(Spent(m)) + faults
    BY DEF Inv, SendsLeft
  <1>5. CASE Calm(p, to, m)
    <2>1. Cardinality(Asked(m)') <= Cardinality(Asked(m))
      <3>1. Asked(m)' \subseteq Asked(m)
        BY <1>1, <1>5 DEF Asked, Calm
      <3> QED
        BY <1>3, <3>1, Smaller
    <2>2. ASSUME mails'[m].status \notin Settled
          PROVE  Cardinality(Spent(m)) + faults <= Cardinality(Spent(m)') + faults'
      <3>1. CASE Spent(m) \subseteq Spent(m)'
        <4>1. Cardinality(Spent(m)) <= Cardinality(Spent(m)')
          BY <1>3, <3>1, Smaller
        <4> QED
          BY <1>2, <1>3, <4>1
      <3>2. CASE ~ (Spent(m) \subseteq Spent(m)')
        <4>1. Spent(m) \subseteq Spent(m)' \cup { p } /\ faults' > faults
          BY <1>1, <1>5, <2>2, <3>2 DEF Spent, Calm
        <4>2. Cardinality(Spent(m)) <= Cardinality(Spent(m)') + 1
          BY <1>3, <4>1, OneMore
        <4> QED
          BY <1>2, <1>3, <4>1, <4>2
      <3> QED
        BY <3>1, <3>2
    <2>3. handed'[m] = handed[m]
      BY <1>5 DEF Calm
    <2> QED
      BY <1>2, <1>3, <1>4, <2>1, <2>2, <2>3
  <1>6. CASE Begins(p, to, m)
    <2>1. Spent(m) \subseteq Spent(m)' /\ handed'[m] = handed[m]
          /\ mails[m].status \notin Settled
      BY <1>1, <1>6 DEF Spent, Begins
    <2>2. Cardinality(Spent(m)) <= Cardinality(Spent(m)')
      BY <1>3, <2>1, Smaller
    <2>3. Asked(m)' \cap Spent(m)' = {}
      <3>1. ASSUME NEW q \in Polls, Asks(polls'[q], m), Spends(polls'[q], m)
            PROVE  FALSE
        BY <1>1, <3>1 DEF Asks, Spends, Inv, PollSound
      <3> QED
        BY <3>1 DEF Asked, Spent
    <2>4. Cardinality(Asked(m)') + Cardinality(Spent(m)') <= Cardinality(Polls)
      BY <1>2, <2>3, Apart, RunAssumption
    <2> QED
      BY <1>2, <1>3, <1>4, <2>1, <2>2, <2>4
  <1>7. CASE Hands(p, to, m)
    <2>1. p \in Asked(m) /\ Asked(m)' \subseteq Asked(m) \ { p }
      BY <1>1, <1>7 DEF Asked, Hands
    <2>2. p \in Spent(m)' /\ Spent(m) \subseteq Spent(m)' \ { p }
      BY <1>1, <1>7 DEF Spent, Hands
    <2>3. Cardinality(Asked(m)') + 1 <= Cardinality(Asked(m))
      BY <1>3, <2>1, OneLess
    <2>4. Cardinality(Spent(m)) + 1 <= Cardinality(Spent(m)')
      BY <1>3, <2>2, OneLess
    <2>5. handed'[m] = handed[m] + 1
      BY <1>7 DEF Hands
    <2> QED
      BY <1>2, <1>3, <1>4, <2>3, <2>4, <2>5
  <1> QED
    BY <1>5, <1>6, <1>7

\* A step of a poll settles mail that it holds, if it changes any.
SettlesHeld ==
  \A m \in Mails :
    \/ mails'[m] = mails[m]
    \/ /\ ~Free(m) /\ mails'[m].status \in Settled
       /\ mails'[m].for = mails[m].for /\ mails'[m].today = mails[m].today

LEMMA PollKeeps ==
  ASSUME Inv, NEW p \in Polls, NEW to \in PollStates, SetPoll(p, to),
         UNCHANGED << calendar, blocks, scans >>,
         mails' \in [ Mails -> MailRows ], SettlesHeld,
         handed' \in [ Mails -> Nat ], faults' \in Nat, faults' >= faults,
         to.now \cap to.batch = {},
         \A m \in to.batch \cup to.now : ~Free(m),
         \A m \in Mails : Calm(p, to, m) \/ Begins(p, to, m) \/ Hands(p, to, m)
  PROVE  Inv'
  <1>1. polls' \in [ Polls -> PollStates ] /\ polls'[p] = to
        /\ \A q \in Polls : q # p => polls'[q] = polls[q]
    BY DEF SetPoll, Inv, TypeOK
  <1>2. MailsKept
    BY DEF SettlesHeld, MailsKept, Settled, Free
  <1>3. events' = events /\ left' = left /\ closed' = closed /\ others' = others /\ scans' = scans
        /\ blocks' = blocks
    BY DEF calendar
  <1>4. TypeOK'
    BY <1>1, <1>3 DEF Inv, TypeOK
  <1>5. ScanSound'
    BY <1>3 DEF Inv, ScanSound
  <1>6. PollSound'
    <2> SUFFICES ASSUME NEW q \in Polls
                 PROVE  /\ polls'[q].now \cap polls'[q].batch = {}
                        /\ \A m \in polls'[q].batch \cup polls'[q].now : ~Free(m)'
      BY DEF PollSound
    <2>1. polls'[q].batch \cup polls'[q].now \subseteq Mails
      BY <1>1 DEF PollStates
    <2>2. \A m \in Mails : Free(m)' <=> Free(m)
      BY <1>2, KeptSets
    <2> QED
      BY <1>1, <2>1, <2>2 DEF Inv, PollSound
  <1>7. ProcessedReminded'
    <2> SUFFICES ASSUME NEW e \in Events
                 PROVE  events'[e].stage = "processed" <=> MailsFor(e)' # {}
      BY DEF ProcessedReminded
    <2>1. MailsFor(e)' = MailsFor(e)
      BY <1>2, KeptSets
    <2> QED
      BY <1>3, <2>1 DEF Inv, ProcessedReminded
  <1>8. RemindersLeft'
    <2> SUFFICES ASSUME NEW o \in Occasions
                 PROVE  Cardinality(MailsFor(o)') + Cardinality(Holders(o)')
                          <= Cardinality(Scans)
      BY DEF RemindersLeft
    <2>1. MailsFor(o)' = MailsFor(o) /\ Holders(o)' = Holders(o)
      BY <1>2, <1>3, KeptSets DEF Holders
    <2> QED
      BY <2>1 DEF Inv, RemindersLeft
  <1>9. CapLeft'
    <2>1. Made' = Made /\ Creating' = Creating
      BY <1>2, <1>3, KeptSets DEF Creating
    <2>2. Waiting' \subseteq Waiting
      BY <2>1, CapSets DEF Waiting, SettlesHeld, Settled
    <2> QED
      BY <2>1, <2>2, CapSets, RoomKept DEF Inv, CapLeft
  <1>10. SendsLeft'
    BY SendsKept DEF SendsLeft, SettlesHeld
  <1> QED
    BY <1>4, <1>5, <1>6, <1>7, <1>8, <1>9, <1>10 DEF Inv
\* A poll in hand: what it has read is stored mail, and a step that changes neither mail
\* nor what has been handed over settles nothing.
LEMMA PollHolds ==
  ASSUME Inv, NEW p \in Polls
  PROVE  /\ polls[p] \in PollStates
         /\ polls[p].batch \subseteq Mails /\ polls[p].now \subseteq Mails
         /\ polls[p].now \cap polls[p].batch = {}
         /\ \A m \in polls[p].batch \cup polls[p].now : ~Free(m)
         /\ mails \in [ Mails -> MailRows ] /\ handed \in [ Mails -> Nat ] /\ faults \in Nat
         /\ mails' = mails => SettlesHeld
  BY DEF Inv, TypeOK, PollSound, PollStates, SettlesHeld

LEMMA BeginPollKeeps ==
  ASSUME Inv, NEW p \in Polls, BeginPoll(p)
  PROVE  Inv'
  <1>1. PICK b \in SUBSET Due :
          SetPoll(p, [ IdlePoll EXCEPT !.stage = "loop", !.batch = b ])
    BY DEF BeginPoll
  <1> DEFINE to == [ IdlePoll EXCEPT !.stage = "loop", !.batch = b ]
  <1>2. \A m \in b : m \in Mails /\ mails[m].status \in Unsent
    BY DEF Due
  <1>3. to \in PollStates /\ to.stage = "loop" /\ to.batch = b /\ to.now = {}
    BY <1>2, IdlePollFields DEF PollStates, PollStages
  <1>4. SetPoll(p, to)
    BY <1>1
  <1> HIDE DEF to
  <1>5. /\ polls[p].stage = "idle"
        /\ UNCHANGED << calendar, mails, blocks, scans, handed, faults >>
    BY DEF BeginPoll
  <1>6. ASSUME NEW m \in Mails
        PROVE  Calm(p, to, m) \/ Begins(p, to, m)
    <2>1. CASE m \in b
      BY <1>2, <1>5, <2>1 DEF Begins, Spends, Unsent, Settled
    <2>2. CASE m \notin b
      BY <1>3, <1>5, <2>2 DEF Calm, Asks, Spends
    <2> QED
      BY <2>1, <2>2
  <1>7. \A m \in b : ~Free(m)
    BY <1>2 DEF Free, Unsent
  <1> QED
    BY <1>3, <1>4, <1>5, <1>6, <1>7, PollHolds, PollKeeps

LEMMA TakeMailKeeps ==
  ASSUME Inv, NEW p \in Polls, NEW m \in Mails, TakeMail(p, m)
  PROVE  Inv'
  <1> DEFINE to == [ stage |-> "sending", batch |-> polls[p].batch \ { m }, now |-> { m } ]
  <1>1. /\ to \in PollStates /\ to.stage = "sending" /\ to.batch = polls[p].batch \ { m }
        /\ to.now = { m }
    BY PollHolds DEF PollStates, PollStages
  <1>2. /\ polls[p].stage = "loop" /\ m \in polls[p].batch /\ SetPoll(p, to)
        /\ UNCHANGED << calendar, mails, blocks, scans, handed, faults >>
    BY DEF TakeMail
  <1> HIDE DEF to
  <1>3. \A n \in Mails : Calm(p, to, n)
    BY <1>1, <1>2 DEF Calm, Asks, Spends
  <1> QED
    BY <1>1, <1>2, <1>3, PollHolds, PollKeeps

\* Mail in a set of stored mail gets a status that settles it.
LEMMA Settling ==
  ASSUME Inv, NEW X \in SUBSET Mails, \A m \in X : ~Free(m), NEW status \in Settled,
         mails' = [ m \in Mails |-> IF m \in X THEN [ mails[m] EXCEPT !.status = status ]
                                               ELSE mails[m] ]
  PROVE  /\ mails' \in [ Mails -> MailRows ] /\ SettlesHeld
         /\ \A m \in X : mails'[m].status \in Settled
  <1>1. \A m \in Mails : mails[m] \in MailRows
    BY DEF Inv, TypeOK
  <1>2. \A m \in Mails : /\ [ mails[m] EXCEPT !.status = status ] \in MailRows
                         /\ [ mails[m] EXCEPT !.status = status ].status = status
                         /\ [ mails[m] EXCEPT !.status = status ].for = mails[m].for
                         /\ [ mails[m] EXCEPT !.status = status ].today = mails[m].today
    BY <1>1 DEF MailRows
  <1> QED
    BY <1>1, <1>2 DEF SettlesHeld

LEMMA SkipMailKeeps ==
  ASSUME Inv, NEW p \in Polls, NEW m \in Mails, SkipMail(p, m)
  PROVE  Inv'
  <1> DEFINE rest == polls[p].batch \ { m }
             to == [ polls[p] EXCEPT !.stage = IF rest = {} THEN "idle" ELSE "loop",
                                     !.batch = rest ]
  <1>1. /\ to \in PollStates /\ to.stage \in { "idle", "loop" }
        /\ to.batch = polls[p].batch \ { m } /\ to.now = polls[p].now
    BY PollHolds DEF PollStates, PollStages
  <1>2. /\ polls[p].stage = "loop" /\ m \in polls[p].batch /\ SetPoll(p, to)
        /\ mails' = [ mails EXCEPT ![m].status = "skipped" ]
        /\ UNCHANGED << calendar, blocks, scans, handed, faults >>
    BY DEF SkipMail
  <1> HIDE DEF to
  <1>3. mails' = [ n \in Mails |-> IF n \in { m } THEN [ mails[n] EXCEPT !.status = "skipped" ]
                                                  ELSE mails[n] ]
    BY <1>2, PollHolds
  <1>4. mails' \in [ Mails -> MailRows ] /\ SettlesHeld
    <2>1. { m } \in SUBSET Mails /\ \A n \in { m } : ~Free(n)
      BY <1>2, PollHolds
    <2>2. "skipped" \in Settled
      BY DEF Settled
    <2> QED
      BY <1>3, <2>1, <2>2, Settling
  <1>5. \A n \in Mails : Calm(p, to, n)
    BY <1>1, <1>2 DEF Calm, Asks, Spends
  <1> QED
    BY <1>1, <1>2, <1>4, <1>5, PollHolds, PollKeeps

LEMMA SendKeeps ==
  ASSUME Inv, NEW p \in Polls, NEW answered \in BOOLEAN, Send(p, answered)
  PROVE  Inv'
  <1> DEFINE to == [ polls[p] EXCEPT !.stage = IF answered THEN "sent" ELSE "failing" ]
  <1>1. /\ to \in PollStates /\ to.stage \in { "sent", "failing" }
        /\ to.batch = polls[p].batch /\ to.now = polls[p].now
    BY PollHolds DEF PollStates, PollStages
  <1>2. /\ polls[p].stage = "sending" /\ SetPoll(p, to)
        /\ handed' = [ m \in Mails |-> IF m \in polls[p].now THEN handed[m] + 1 ELSE handed[m] ]
        /\ UNCHANGED << calendar, mails, blocks, scans, faults >>
    BY DEF Send
  <1> HIDE DEF to
  <1>3. handed' \in [ Mails -> Nat ]
    BY <1>2, PollHolds
  <1>4. ASSUME NEW m \in Mails
        PROVE  Calm(p, to, m) \/ Hands(p, to, m)
    <2>1. CASE m \in polls[p].now
      BY <1>1, <1>2, <2>1, PollHolds DEF Hands, Asks, Spends
    <2>2. CASE m \notin polls[p].now
      BY <1>1, <1>2, <2>2 DEF Calm, Asks, Spends
    <2> QED
      BY <2>1, <2>2
  <1> QED
    BY <1>1, <1>2, <1>3, <1>4, PollHolds, PollKeeps

LEMMA RefuseKeeps ==
  ASSUME Inv, NEW p \in Polls, Refuse(p)
  PROVE  Inv'
  <1> DEFINE to == [ polls[p] EXCEPT !.stage = "failing" ]
  <1>1. /\ to \in PollStates /\ to.stage = "failing"
        /\ to.batch = polls[p].batch /\ to.now = polls[p].now
    BY PollHolds DEF PollStates, PollStages
  <1>2. /\ polls[p].stage = "sending" /\ SetPoll(p, to)
        /\ UNCHANGED << calendar, mails, blocks, scans, handed, faults >>
    BY DEF Refuse
  <1> HIDE DEF to
  <1>3. \A m \in Mails : Calm(p, to, m)
    BY <1>1, <1>2 DEF Calm, Asks, Spends
  <1> QED
    BY <1>1, <1>2, <1>3, PollHolds, PollKeeps

LEMMA MarkKeeps ==
  ASSUME Inv, NEW p \in Polls, NEW status \in Settled, Mark(p, status),
         polls[p].stage \in { "sent", "failing" }
  PROVE  Inv'
  <1> DEFINE to == [ polls[p] EXCEPT
                       !.stage = IF polls[p].batch = {} THEN "idle" ELSE "loop",
                       !.now = {} ]
  <1>1. /\ to \in PollStates /\ to.stage \in { "idle", "loop" }
        /\ to.batch = polls[p].batch /\ to.now = {}
    BY PollHolds DEF PollStates, PollStages
  <1>2. /\ SetPoll(p, to)
        /\ mails' = [ m \in Mails |-> IF m \in polls[p].now
                          THEN [ mails[m] EXCEPT !.status = status ] ELSE mails[m] ]
        /\ UNCHANGED << calendar, blocks, scans, handed, faults >>
    BY DEF Mark, NextMail
  <1> HIDE DEF to
  <1>3. /\ mails' \in [ Mails -> MailRows ] /\ SettlesHeld
        /\ \A m \in polls[p].now : mails'[m].status \in Settled
    BY <1>2, PollHolds, Settling
  <1>4. \A m \in Mails : Calm(p, to, m)
    BY <1>1, <1>2, <1>3 DEF Calm, Asks, Spends
  <1> QED
    BY <1>1, <1>2, <1>3, <1>4, PollHolds, PollKeeps

LEMMA PollFails ==
  ASSUME Inv, NEW p \in Polls, PollFault(p) \/ PollCrash(p)
  PROVE  Inv'
  <1>1. /\ faults' \in Nat /\ faults' > faults
        /\ UNCHANGED << calendar, mails, blocks, scans, handed >>
    BY PollHolds DEF PollFault, PollCrash, Fault
  <1>2. CASE PollFault(p)
    <2> DEFINE to == [ polls[p] EXCEPT !.stage = "failing" ]
    <2>1. /\ to \in PollStates /\ to.stage = "failing"
          /\ to.batch = polls[p].batch /\ to.now = polls[p].now
      BY PollHolds DEF PollStates, PollStages
    <2>2. polls[p].stage = "sent" /\ SetPoll(p, to)
      BY <1>2 DEF PollFault
    <2> HIDE DEF to
    <2>3. \A m \in Mails : Calm(p, to, m)
      BY <1>1, <2>1, <2>2 DEF Calm, Asks, Spends
    <2> QED
      BY <1>1, <2>1, <2>2, <2>3, PollHolds, PollKeeps
  <1>3. CASE PollCrash(p)
    <2>1. SetPoll(p, IdlePoll)
      BY <1>3 DEF PollCrash
    <2>2. \A m \in Mails : Calm(p, IdlePoll, m)
      BY <1>1, IdlePollFields DEF Calm, Asks
    <2> QED
      BY <1>1, <2>1, <2>2, IdlePollFields, PollHolds, PollKeeps
  <1> QED
    BY <1>2, <1>3
------------------------------------------------------------------------------
(* Steps that store mail, and the calendar's *)

\* Stored mail stays stored, and no mail is settled that was not.
MailsStay ==
  \A n \in Mails : /\ ~Free(n) => ~Free(n)'
                   /\ mails'[n].status \in Settled <=> mails[n].status \in Settled

\* A row is filled in.
LEMMA Storing ==
  ASSUME Inv, NEW m \in Mails, Free(m), NEW status \in Unsent, NEW o \in Occasions \cup { Desk },
         NEW wait \in Nat, mails' = [ mails EXCEPT ![m] = Mail(status, o, wait) ]
  PROVE  /\ mails' \in [ Mails -> MailRows ]
         /\ MailsFor(o)' = MailsFor(o) \cup { m }
         /\ \A x : x # o => MailsFor(x)' = MailsFor(x)
         /\ Made' = IF o = Desk THEN Made ELSE Made \cup { m }
         /\ Waiting' \subseteq IF o = Desk THEN Waiting ELSE Waiting \cup { m }
         /\ MailsStay
  <1> DEFINE row == Mail(status, o, wait)
  <1>1. /\ row \in MailRows /\ row.status = status /\ row.for = o /\ row.today = TRUE
    BY DEF Mail, MailRows
  <1>2. status # "none" /\ status \notin Settled
    BY DEF Unsent, Settled
  <1>3. mails'[m] = row /\ \A n \in Mails : n # m => mails'[n] = mails[n]
    BY DEF Inv, TypeOK
  <1>4. mails' \in [ Mails -> MailRows ]
    BY <1>1 DEF Inv, TypeOK
  <1> HIDE DEF row
  <1>5. \A n \in Mails : /\ Free(n)' <=> Free(n) /\ n # m
                         /\ mails'[n].status \in Settled <=> mails[n].status \in Settled
    BY <1>1, <1>2, <1>3 DEF Free, Settled
  <1>6. MailsFor(o)' = MailsFor(o) \cup { m } /\ \A x : x # o => MailsFor(x)' = MailsFor(x)
    BY <1>1, <1>3, <1>5 DEF MailsFor
  <1>7. Made' = IF o = Desk THEN Made ELSE Made \cup { m }
    BY <1>1, <1>3, <1>5 DEF Made, MadeToday
  <1>8. Waiting' \subseteq IF o = Desk THEN Waiting ELSE Waiting \cup { m }
    <2>1. ASSUME NEW n \in Waiting', n # m
          PROVE  n \in Waiting
      BY <1>1, <1>3, <1>7, <2>1, CapSets DEF Waiting
    <2>2. ASSUME o = Desk
          PROVE  m \notin Made'
      BY <1>1, <1>3, <2>2 DEF Made
    <2> QED
      BY <2>1, <2>2 DEF Waiting
  <1> QED
    BY <1>4, <1>5, <1>6, <1>7, <1>8 DEF MailsStay

\* Without a step of a scan or a poll, what they hold stays true of mail that stays
\* stored and is settled no further.
LEMMA SendsStay ==
  ASSUME Inv, UNCHANGED << polls, handed, faults >>,
         MailsStay
  PROVE  PollSound' /\ SendsLeft'
  <1>1. PollSound'
    <2>1. \A p \in Polls : polls[p].batch \cup polls[p].now \subseteq Mails
      BY PollHolds
    <2> QED
      BY <2>1 DEF Inv, PollSound, MailsStay
  <1>2. SendsLeft'
    <2> SUFFICES ASSUME NEW m \in Mails
                 PROVE  /\ handed'[m] + Cardinality(Asked(m)') <= Cardinality(Polls) + faults'
                        /\ mails'[m].status \notin Settled
                             => handed'[m] <= Cardinality(Spent(m)') + faults'
      BY DEF SendsLeft
    <2>1. Asked(m)' = Asked(m) /\ Spent(m)' = Spent(m)
      BY DEF Asked, Spent, Asks, Spends
    <2> QED
      BY <2>1 DEF Inv, SendsLeft, MailsStay
  <1> QED
    BY <1>1, <1>2

LEMMA RemindersStay ==
  ASSUME Inv, scans' = scans,
         \A o \in Occasions : MailsFor(o)' = MailsFor(o),
         Made' \subseteq Made, Waiting' \subseteq Waiting
  PROVE  ScanSound' /\ RemindersLeft' /\ CapLeft'
  <1>1. ScanSound'
    BY DEF Inv, ScanSound
  <1>2. RemindersLeft'
    <2>1. \A o \in Occasions : Holders(o)' = Holders(o)
      BY DEF Holders
    <2> QED
      BY <2>1 DEF Inv, RemindersLeft
  <1>3. CapLeft'
    <2>1. Creating' = Creating
      BY DEF Creating
    <2> QED
      BY <2>1, CapSets, RoomKept DEF Inv, CapLeft
  <1> QED
    BY <1>1, <1>2, <1>3

LEMMA RemindKeeps ==
  ASSUME Inv, NEW s \in Scans, NEW m \in Mails, Remind(s, m)
  PROVE  Inv'
  <1> PICK o : o = scans[s].now
    OBVIOUS
  <1>1. /\ scans[s].stage = "create" /\ Free(m) /\ Resume(s)
        /\ mails' = [ mails EXCEPT ![m] = Mail("pending_auto", o, WaitFor(o)) ]
        /\ events' = IF o \in Events THEN [ events EXCEPT ![o].stage = "processed" ] ELSE events
        /\ UNCHANGED << left, closed, others, blocks, polls, handed, faults >>
    BY DEF Remind, Fresh
  <1>2. o \in Occasions /\ o \notin scans[s].todo /\ o # Desk
    BY <1>1, OccasionAssumption DEF Inv, ScanSound, Taking
  <1>3. PICK to \in ScanStates :
          /\ SetScan(s, to)
          /\ to.stage \in { "events", "cases" } /\ to.now = Desk /\ to.todo = scans[s].todo
    BY <1>1, Resuming
  <1>4. scans' \in [ Scans -> ScanStates ] /\ scans'[s] = to
        /\ \A t \in Scans : t # s => scans'[t] = scans[t]
    BY <1>3 DEF SetScan, Inv, TypeOK
  <1>5. WaitFor(o) \in Nat
    BY <1>2, DayAssumption DEF WaitFor, AtLeast, Occasions, Inv, TypeOK
  <1>6. /\ mails' \in [ Mails -> MailRows ]
        /\ MailsFor(o)' = MailsFor(o) \cup { m }
        /\ \A x : x # o => MailsFor(x)' = MailsFor(x)
        /\ Made' = Made \cup { m } /\ Waiting' \subseteq Waiting \cup { m }
        /\ MailsStay
    <2>1. "pending_auto" \in Unsent /\ o \in Occasions \cup { Desk }
      BY <1>2 DEF Unsent
    <2>2. /\ mails' \in [ Mails -> MailRows ]
          /\ MailsFor(o)' = MailsFor(o) \cup { m }
          /\ \A x : x # o => MailsFor(x)' = MailsFor(x)
          /\ Made' = IF o = Desk THEN Made ELSE Made \cup { m }
          /\ Waiting' \subseteq IF o = Desk THEN Waiting ELSE Waiting \cup { m }
          /\ MailsStay
      BY ONLY <1>1, <1>5, <2>1, Inv, m \in Mails, Storing, Zenon
    <2> QED
      BY ONLY <1>2, <2>2
  <1>7. \A e \in Events : events'[e].stage = IF e = o THEN "processed" ELSE events[e].stage
    BY <1>1 DEF Inv, TypeOK
  <1>8. TypeOK'
    <2>1. events' \in [ Events -> [ stage : { "absent", "pending", "processed" }, wait : Nat ] ]
      BY <1>1 DEF Inv, TypeOK
    <2> QED
      BY <1>1, <1>4, <1>6, <2>1 DEF Inv, TypeOK
  <1>9. ScanSound'
    BY <1>3, <1>4 DEF Inv, ScanSound, Taking
  <1>10. PollSound' /\ SendsLeft'
    BY <1>1, <1>6, SendsStay
  <1>11. ProcessedReminded'
    <2> SUFFICES ASSUME NEW e \in Events
                 PROVE  events'[e].stage = "processed" <=> MailsFor(e)' # {}
      BY DEF ProcessedReminded
    <2>1. CASE e = o
      BY <1>6, <1>7, <2>1
    <2>2. CASE e # o
      BY <1>6, <1>7, <2>2 DEF Inv, ProcessedReminded
    <2> QED
      BY <2>1, <2>2
  <1>12. RemindersLeft'
    <2> SUFFICES ASSUME NEW x \in Occasions
                 PROVE  Cardinality(MailsFor(x)') + Cardinality(Holders(x)')
                          <= Cardinality(Scans)
      BY DEF RemindersLeft
    <2>1. /\ MailsFor(x) \subseteq Mails /\ Holders(x) \subseteq Scans
          /\ Holders(x)' \subseteq Holders(x)
      BY <1>3, <1>4, OccasionAssumption DEF MailsFor, Holders
    <2>2. Cardinality(MailsFor(x)) + Cardinality(Holders(x)) <= Cardinality(Scans)
      BY DEF Inv, RemindersLeft
    <2>3. CASE x = o
      <3>1. s \in Holders(x) /\ Holders(x)' \subseteq Holders(x) \ { s }
        BY <1>2, <1>3, <1>4, <2>1, <2>3 DEF Holders
      <3>2. Cardinality(Holders(x)') + 1 <= Cardinality(Holders(x))
            /\ Cardinality(Holders(x)) \in Nat /\ Cardinality(Holders(x)') \in Nat
        BY <2>1, <3>1, Sizes, OneLess
      <3>3. IsFiniteSet(MailsFor(x)) /\ MailsFor(x)' \subseteq MailsFor(x) \cup { m }
        BY <1>6, <2>1, <2>3, Sizes
      <3>4. Cardinality(MailsFor(x)') <= Cardinality(MailsFor(x)) + 1
            /\ Cardinality(MailsFor(x)) \in Nat /\ Cardinality(MailsFor(x)') \in Nat
        BY ONLY <3>3, OneMore
      <3> QED
        BY <2>2, <3>2, <3>4, Sizes
    <2>4. CASE x # o
      <3>1. MailsFor(x)' = MailsFor(x)
        BY <1>6, <2>4
      <3>2. Cardinality(Holders(x)') <= Cardinality(Holders(x))
            /\ Cardinality(Holders(x)) \in Nat /\ Cardinality(Holders(x)') \in Nat
        BY <2>1, Sizes, Smaller
      <3> QED
        BY <2>1, <2>2, <3>1, <3>2, Sizes
    <2> QED
      BY <2>3, <2>4
  <1>13. CapLeft'
    <2>1. s \in Creating /\ Creating' \subseteq Creating \ { s }
      BY <1>1, <1>3, <1>4 DEF Creating
    <2> QED
      BY <1>6, <2>1, CapSets, RoomTaken DEF Inv, CapLeft
  <1> QED
    BY <1>8, <1>9, <1>10, <1>11, <1>12, <1>13 DEF Inv

LEMMA ScheduleKeeps ==
  ASSUME Inv, NEW m \in Mails, NEW auto \in BOOLEAN, NEW wait \in 0..1,
         Schedule(m, auto, wait)
  PROVE  Inv'
  <1> DEFINE status == IF auto THEN "pending_auto" ELSE "pending"
  <1>1. /\ Free(m) /\ mails' = [ mails EXCEPT ![m] = Mail(status, Desk, wait) ]
        /\ UNCHANGED << calendar, blocks, scans, polls, handed, faults >>
    BY DEF Schedule, Fresh
  <1>2. status \in Unsent /\ wait \in Nat
    BY DEF Unsent
  <1> HIDE DEF status
  <1>3. /\ mails' \in [ Mails -> MailRows ]
        /\ \A x : x # Desk => MailsFor(x)' = MailsFor(x)
        /\ Made' = Made /\ Waiting' \subseteq Waiting
        /\ MailsStay
    BY <1>1, <1>2, Storing
  <1>4. \A o \in Occasions : MailsFor(o)' = MailsFor(o)
    BY <1>3, OccasionAssumption
  <1>5. TypeOK'
    BY <1>1, <1>3 DEF Inv, TypeOK, calendar
  <1>6. ProcessedReminded'
    <2> SUFFICES ASSUME NEW e \in Events
                 PROVE  events'[e].stage = "processed" <=> MailsFor(e)' # {}
      BY DEF ProcessedReminded
    <2>1. MailsFor(e)' = MailsFor(e) /\ events' = events
      BY <1>1, <1>4 DEF Occasions, calendar
    <2> QED
      BY <2>1 DEF Inv, ProcessedReminded
  <1>7. PollSound' /\ SendsLeft'
    BY <1>1, <1>3, SendsStay
  <1>8. ScanSound' /\ RemindersLeft' /\ CapLeft'
    BY <1>1, <1>3, <1>4, RemindersStay
  <1> QED
    BY <1>5, <1>6, <1>7, <1>8 DEF Inv

LEMMA MailsUntouched ==
  ASSUME Inv, UNCHANGED << mails, scans, polls, handed, faults >>
  PROVE  /\ ScanSound' /\ PollSound' /\ RemindersLeft' /\ CapLeft' /\ SendsLeft'
         /\ \A o : MailsFor(o)' = MailsFor(o)
  <1>1. MailsKept
    BY DEF MailsKept
  <1>2. (\A o : MailsFor(o)' = MailsFor(o)) /\ Made' = Made /\ Waiting' = Waiting
        /\ MailsStay
    BY <1>1, KeptSets DEF MailsStay, Waiting
  <1>3. PollSound' /\ SendsLeft'
    BY <1>2, SendsStay
  <1>4. ScanSound' /\ RemindersLeft' /\ CapLeft'
    BY <1>2, RemindersStay
  <1> QED
    BY <1>2, <1>3, <1>4

LEMMA EnterSubmissionKeeps ==
  ASSUME Inv, NEW e \in Events, EnterSubmission(e)
  PROVE  Inv'
  <1>1. /\ events[e].stage = "absent"
        /\ events' = [ events EXCEPT ![e] = [ stage |-> "pending", wait |-> Delay ] ]
        /\ UNCHANGED << left, closed, others, mails, blocks, scans, polls, handed, faults >>
    BY DEF EnterSubmission
  <1>2. TypeOK'
    BY <1>1, DayAssumption DEF Inv, TypeOK
  <1>3. ProcessedReminded'
    <2> SUFFICES ASSUME NEW x \in Events
                 PROVE  events'[x].stage = "processed" <=> MailsFor(x)' # {}
      BY DEF ProcessedReminded
    <2>1. events'[x].stage = "processed" <=> events[x].stage = "processed"
      BY <1>1 DEF Inv, TypeOK
    <2>2. MailsFor(x)' = MailsFor(x)
      BY <1>1, MailsUntouched
    <2> QED
      BY <2>1, <2>2 DEF Inv, ProcessedReminded
  <1> QED
    BY <1>1, <1>2, <1>3, MailsUntouched DEF Inv

LEMMA EventsUntouched ==
  ASSUME Inv, UNCHANGED << events, mails, scans, polls, handed, faults >>, TypeOK'
  PROVE  Inv'
  <1>1. ProcessedReminded'
    <2> SUFFICES ASSUME NEW x \in Events
                 PROVE  events'[x].stage = "processed" <=> MailsFor(x)' # {}
      BY DEF ProcessedReminded
    <2>1. MailsFor(x)' = MailsFor(x)
      BY MailsUntouched
    <2> QED
      BY <2>1 DEF Inv, ProcessedReminded
  <1> QED
    BY <1>1, MailsUntouched DEF Inv

LEMMA ScheduleOtherKeeps ==
  ASSUME Inv, ScheduleOther
  PROVE  Inv'
  <1>1. TypeOK'
    BY DEF ScheduleOther, Inv, TypeOK
  <1> QED
    BY <1>1, EventsUntouched DEF ScheduleOther

LEMMA CloseCaseKeeps ==
  ASSUME Inv, NEW c \in CaseRefs, CloseCase(c)
  PROVE  Inv'
  <1>1. TypeOK'
    BY DEF CloseCase, Inv, TypeOK
  <1> QED
    BY <1>1, EventsUntouched DEF CloseCase

LEMMA NewDayKeeps ==
  ASSUME Inv, NewDay
  PROVE  Inv'
  <1>1. ASSUME NEW m \in Mails
        PROVE  /\ mails'[m] \in MailRows
               /\ mails'[m].status = mails[m].status /\ mails'[m].for = mails[m].for
               /\ Free(m) \/ mails'[m].today = FALSE
    <2>1. mails[m] \in MailRows /\ Sooner(mails[m].wait) \in Nat
      BY DEF Inv, TypeOK, MailRows, Sooner, AtLeast
    <2>2. mails'[m] = IF Free(m) THEN mails[m] ELSE
                        [ mails[m] EXCEPT !.today = FALSE, !.wait = Sooner(mails[m].wait) ]
      BY DEF NewDay
    <2> QED
      BY <2>1, <2>2 DEF MailRows
  <1>2. \A e \in Events : /\ events'[e] \in [ stage : { "absent", "pending", "processed" }, wait : Nat ]
                          /\ events'[e].stage = events[e].stage
    <2> SUFFICES ASSUME NEW e \in Events
                 PROVE  /\ events'[e] \in [ stage : { "absent", "pending", "processed" }, wait : Nat ]
                        /\ events'[e].stage = events[e].stage
      OBVIOUS
    <2>1. /\ events[e] \in [ stage : { "absent", "pending", "processed" }, wait : Nat ]
          /\ Sooner(events[e].wait) \in Nat
      BY DEF Inv, TypeOK, Sooner, AtLeast
    <2>2. events'[e] = [ events[e] EXCEPT !.wait = Sooner(events[e].wait) ]
      BY DEF NewDay
    <2> QED
      BY <2>1, <2>2
  <1>3. (\A o : MailsFor(o)' = MailsFor(o)) /\ Made' = {} /\ Waiting' = {}
        /\ MailsStay
    BY <1>1 DEF MailsFor, Made, MadeToday, Waiting, Free, MailsStay
  <1>4. TypeOK'
    <2>1. mails' \in [ Mails -> MailRows ]
      BY <1>1 DEF NewDay
    <2>2. events' \in [ Events -> [ stage : { "absent", "pending", "processed" }, wait : Nat ] ]
      BY <1>2 DEF NewDay
    <2>3. left' \in [ Deadlines -> Int ] /\ blocks' \in [ CaseRefs -> Nat ]
      <3>1. \A d \in Deadlines : AtLeast(left[d] - 1, -1) \in Int
        BY DEF AtLeast, Inv, TypeOK
      <3> QED
        BY <3>1 DEF NewDay
    <2> QED
      BY <2>1, <2>2, <2>3 DEF NewDay, Inv, TypeOK
  <1>5. ProcessedReminded'
    <2> SUFFICES ASSUME NEW e \in Events
                 PROVE  events'[e].stage = "processed" <=> MailsFor(e)' # {}
      BY DEF ProcessedReminded
    <2> QED
      BY <1>2, <1>3 DEF Inv, ProcessedReminded
  <1>6. PollSound' /\ SendsLeft'
    BY <1>3, SendsStay DEF NewDay
  <1>7. ScanSound' /\ RemindersLeft' /\ CapLeft'
    BY <1>3, RemindersStay DEF NewDay
  <1> QED
    BY <1>4, <1>5, <1>6, <1>7 DEF Inv

------------------------------------------------------------------------------
(* The invariant *)

LEMMA InitInv ==
  ASSUME Init
  PROVE  Inv
  <1>1. \A m \in Mails : /\ mails[m] = [ status |-> "none", for |-> Desk, today |-> FALSE, wait |-> 0 ]
                         /\ Free(m)
    BY DEF Init, Free
  <1>2. \A s \in Scans : scans[s] = IdleScan
    BY DEF Init
  <1>3. \A p \in Polls : polls[p] = IdlePoll
    BY DEF Init
  <1>4. TypeOK
    <2>1. mails \in [ Mails -> MailRows ]
      BY <1>1 DEF Init, MailRows
    <2>2. scans \in [ Scans -> ScanStates ] /\ polls \in [ Polls -> PollStates ]
      BY IdleScanFields, IdlePollFields DEF Init
    <2>3. left \in [ Deadlines -> Int ]
      BY DayAssumption DEF Init
    <2>4. events \in [ Events -> [ stage : { "absent", "pending", "processed" }, wait : Nat ] ]
      BY DEF Init
    <2> QED
      BY <2>1, <2>2, <2>3, <2>4 DEF Init, TypeOK
  <1>5. ScanSound
    BY <1>2, IdleScanFields DEF ScanSound, Taking
  <1>6. PollSound
    BY <1>3, IdlePollFields DEF PollSound
  <1>7. \A o : MailsFor(o) = {}
    BY <1>1 DEF MailsFor
  <1>8. ProcessedReminded
    BY <1>7 DEF Init, ProcessedReminded
  <1>9. RemindersLeft
    <2> SUFFICES ASSUME NEW o \in Occasions
                 PROVE  Cardinality(MailsFor(o)) + Cardinality(Holders(o)) <= Cardinality(Scans)
      BY DEF RemindersLeft
    <2>1. MailsFor(o) = {} /\ Holders(o) \subseteq Scans
      BY <1>7 DEF Holders
    <2> QED
      BY <2>1, FS_EmptySet, Sizes
  <1>10. CapLeft
    <2>1. Made = {} /\ Creating = {}
      BY <1>1, <1>2, IdleScanFields DEF Made, MadeToday, Creating
    <2> QED
      BY <2>1 DEF CapLeft, Waiting, Room
  <1>11. SendsLeft
    <2> SUFFICES ASSUME NEW m \in Mails
                 PROVE  /\ handed[m] + Cardinality(Asked(m)) <= Cardinality(Polls) + faults
                        /\ handed[m] <= Cardinality(Spent(m)) + faults
      BY DEF SendsLeft
    <2>1. handed[m] = 0 /\ faults = 0 /\ Asked(m) \subseteq Polls /\ Spent(m) \subseteq Polls
      BY DEF Init, Asked, Spent
    <2> QED
      BY <2>1, Sizes
  <1> QED
    BY <1>4, <1>5, <1>6, <1>8, <1>9, <1>10, <1>11 DEF Inv

LEMMA StepInv ==
  ASSUME Inv, [Next]_vars
  PROVE  Inv'
  <1>1. ASSUME NEW s \in Scans, ScanStep(s) \/ ScanFault(s) \/ ScanCrash(s)
        PROVE  Inv'
    BY <1>1, BeginScanKeeps, TakeEventKeeps, ListCasesKeeps, TakeCaseKeeps, EndScanKeeps,
       CheckCapsKeeps, RecordCapBlockKeeps, RemindKeeps, ScanFails DEF ScanStep
  <1>2. ASSUME NEW p \in Polls, PollStep(p) \/ PollFault(p) \/ PollCrash(p)
        PROVE  Inv'
    <2>1. CASE MarkSent(p)
      BY <2>1, MarkKeeps DEF MarkSent, Settled
    <2>2. CASE MarkFailed(p)
      BY <2>2, MarkKeeps DEF MarkFailed, Settled
    <2> QED
      BY <1>2, <2>1, <2>2, BeginPollKeeps, TakeMailKeeps, SkipMailKeeps, SendKeeps,
         RefuseKeeps, PollFails DEF PollStep
  <1>3. CASE Environment
    BY <1>3, ScheduleKeeps, ScheduleOtherKeeps, EnterSubmissionKeeps, CloseCaseKeeps,
       NewDayKeeps DEF Environment
  <1>4. CASE UNCHANGED vars
    <2>1. TypeOK'
      BY <1>4 DEF vars, Inv, TypeOK
    <2> QED
      BY <1>4, <2>1, EventsUntouched DEF vars
  <1> QED
    BY <1>1, <1>2, <1>3, <1>4 DEF Next

\* The inductive invariant holds in every reachable state.
THEOREM Invariance == Spec => []Inv
  BY InitInv, StepInv, PTL DEF Spec

\* Runs that setInterval starts again and again satisfy the same.
THEOREM FairInvariance == FairSpec => []Inv
  BY Invariance, PTL DEF FairSpec

\* The rows, the runs and the counters keep their types.
THEOREM TypeCorrect == Spec => []TypeOK
  <1>1. Inv => TypeOK
    BY DEF Inv
  <1> QED
    BY <1>1, Invariance, PTL

\* However many scans overlap, fail and crash, an occasion gets at most one reminder for
\* each of them: a single scanner reminds once.
THEOREM RemindersBoundedHolds == Spec => []RemindersBounded
  <1>1. Inv => RemindersBounded
    <2> SUFFICES ASSUME Inv, NEW o \in Occasions
                 PROVE  Cardinality(MailsFor(o)) <= Cardinality(Scans)
      BY DEF RemindersBounded
    <2>1. MailsFor(o) \subseteq Mails /\ Holders(o) \subseteq Scans
      BY DEF MailsFor, Holders
    <2> QED
      BY <2>1, Sizes DEF Inv, RemindersLeft
  <1> QED
    BY <1>1, Invariance, PTL

\* processedAt is set on exactly the submission events that have a reminder.
THEOREM ProcessedRemindedHolds == Spec => []ProcessedReminded
  <1>1. Inv => ProcessedReminded
    BY DEF Inv
  <1> QED
    BY <1>1, Invariance, PTL

\* The day's reminders exceed the tenant's cap by less than the number of scans, and so do
\* those that wait the cap on automatic mail.
THEOREM CapBoundedHolds == Spec => []CapBounded
  <1>1. Inv => CapBounded
    <2> SUFFICES ASSUME Inv
                 PROVE  CapBounded
      OBVIOUS
    <2>1. Made \in SUBSET Mails /\ Waiting \in SUBSET Mails
      BY CapSets
    <2>2. /\ Cardinality(Made) \in Nat /\ Cardinality(Waiting) \in Nat
          /\ Cardinality(Creating) \in Nat /\ Cardinality(Scans) \in Nat
          /\ CommsCap \in Nat /\ AutoCap \in Nat
      BY <2>1, CapSets, Sizes
    <2>3. /\ Made # {} => Cardinality(Made) < CommsCap + Cardinality(Scans)
          /\ Waiting # {} => Cardinality(Waiting) < AutoCap + Cardinality(Scans)
      BY <2>2 DEF Inv, CapLeft, Room
    <2> QED
      BY <2>3 DEF CapBounded, Waiting, Made
  <1> QED
    BY <1>1, Invariance, PTL

\* A mail is handed to the provider at most once for each poll and once for each fault.
THEOREM DuplicatesBoundedHolds == Spec => []DuplicatesBounded
  <1>1. Inv => DuplicatesBounded
    <2> SUFFICES ASSUME Inv, NEW m \in Mails
                 PROVE  handed[m] <= Cardinality(Polls) + faults
      BY DEF DuplicatesBounded
    <2>1. Asked(m) \subseteq Polls /\ handed[m] \in Nat /\ faults \in Nat
      BY DEF Asked, Inv, TypeOK
    <2> QED
      BY <2>1, Sizes DEF Inv, SendsLeft
  <1> QED
    BY <1>1, Invariance, PTL
==============================================================================
