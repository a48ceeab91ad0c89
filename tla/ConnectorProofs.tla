--------------------------- MODULE ConnectorProofs ---------------------------
(***************************************************************************)
(* Theorems about Connectors, for any registry, any length of the listings,*)
(* any set of refused items and any number of attempts and faults.         *)
(***************************************************************************)
EXTENDS Connectors, WellFoundedInduction, TLAPS

\* A set of natural numbers that is not empty has a least one.
LEMMA LeastNat ==
  ASSUME NEW T, T \subseteq Nat, T # {}
  PROVE  \E n \in T : \A m \in T : n <= m
  <1> DEFINE R == OpToRel(<, Nat)
  <1>1. IsWellFoundedOn(R, Nat)
    BY NatLessThanWellFounded, Zenon
  <1>2. ASSUME NEW m \in Nat, NEW n \in Nat, m < n PROVE << m, n >> \in R
    <2>1. << m, n >> \in Nat \X Nat /\ << m, n >>[1] < << m, n >>[2]
      BY <1>2
    <2>2. QED
      BY <2>1, Zenon DEF OpToRel
  <1> HIDE DEF R
  <1>3. PICK n \in T : \A m \in T : << m, n >> \notin R
    BY <1>1, WFMin
  <1>4. \A m \in T : ~ (m < n)
    BY <1>2, <1>3
  <1>5. QED
    BY <1>4

\* One that is bounded has a greatest: the one that is nearest to the bound.
LEMMA GreatestNat ==
  ASSUME NEW N \in Nat, NEW T, T \subseteq 0..N, T # {}
  PROVE  \E n \in T : \A m \in T : m <= n
  <1> DEFINE Gaps == { k \in Nat : \E m \in T : m + k = N }
  <1>1. PICK t \in T : TRUE
    OBVIOUS
  <1>2. N - t \in Nat /\ t + (N - t) = N
    BY <1>1
  <1>3. N - t \in Gaps
    BY <1>2
  <1>4. PICK g \in Gaps : \A k \in Gaps : g <= k
    <2>1. Gaps \subseteq Nat /\ Gaps # {}
      BY <1>3
    <2> HIDE DEF Gaps
    <2>2. QED
      BY <2>1, LeastNat
  <1>5. PICK n \in T : n + g = N
    OBVIOUS
  <1>6. ASSUME NEW m \in T PROVE m <= n
    <2>1. N - m \in Nat /\ m + (N - m) = N /\ m \in Nat /\ n \in Nat /\ g \in Nat
      BY <1>5
    <2>2. N - m \in Gaps
      BY <2>1
    <2>3. g <= N - m
      BY <1>4, <2>2
    <2> HIDE DEF Gaps
    <2>4. QED
      BY <1>5, <2>1, <2>3
  <1>7. QED
    BY <1>6

\* What the spider has seen is on the site, what the cursor has passed the spider has
\* seen, and so it is with the items of a job: the list is never shorter than the cursor.
Bounded ==
  \A c \in Connectors :
    /\ cursor[c] <= seen[c]
    /\ seen[c] <= listing[c]
    /\ job[c].items # 0 => cursor[c] <= job[c].items /\ job[c].items <= seen[c]

\* What the worker knows of the connector in hand at each stage of a run.
InHand ==
  LET w == worker  c == worker.at IN
  /\ w.stage \notin { "idle", "next" } => c \in Connectors
  /\ w.stage \in { "schedule", "fetch", "ingest", "reject", "persist", "finish" }
       => row[c].status # "success"
  /\ w.stage \in { "create", "schedule", "fetch", "ingest" } => w.prev = cursor[c]
  /\ w.stage = "ingest" /\ w.batch # 0 => cursor[c] <= w.batch /\ w.batch <= seen[c]
  /\ w.stage = "persist"
       => /\ cursor[c] <= w.result /\ w.result <= seen[c]
          /\ \A i \in 1..w.result : << c, i >> \in accepted
  /\ w.stage \in { "finish", "confirm" } => cursor[c] = w.result

\* Scrapyd has a job for the worker only while the worker is about to fetch its items.
OneJob ==
  \A c \in Connectors : job[c] # NoJob => worker.stage = "fetch" /\ c = worker.at

Inv == TypeOK /\ CursorCovered /\ SuccessPersisted /\ Bounded /\ InHand /\ OneJob

------------------------------------------------------------------------------
(* Types and updates *)

LEMMA RestingState ==
  /\ Resting \in WorkerStates /\ Resting.stage = "idle"
  /\ NoJob \in JobStates /\ NoJob.items = 0
  BY LastAssumption, AttemptAssumption DEF Resting, WorkerStates, Stages, NoJob, JobStates

\* With nothing refused ingestion comes to the last item, or stays where it was.
LEMMA ResultLemma ==
  ASSUME TypeOK
  PROVE  /\ Result \in 0..Listed
         /\ Batch \cap Rejected = {}
              => Result = IF worker.batch = 0 THEN worker.prev ELSE worker.batch
  <1> DEFINE taken == { i \in 1..worker.batch : << worker.at, i >> \notin Rejected }
  <1>1. worker.batch \in 0..Listed /\ worker.prev \in 0..Listed /\ Listed \in Nat
    BY LastAssumption DEF TypeOK, WorkerStates
  <1>2. CASE taken = {}
    <2>1. Result = worker.prev
      BY <1>2 DEF Result
    <2>2. ASSUME Batch \cap Rejected = {}, worker.batch # 0 PROVE FALSE
      <3>1. 1 \in 1..worker.batch
        BY <1>1, <2>2
      <3>2. << worker.at, 1 >> \in Batch
        BY <3>1 DEF Batch
      <3>3. 1 \in taken
        BY <2>2, <3>1, <3>2
      <3>4. QED
        BY <1>2, <3>3
    <2>3. QED
      BY <1>1, <2>1, <2>2
  <1>3. CASE taken # {}
    <2>1. taken \subseteq 0..Listed
      BY <1>1
    <2>2. Result = CHOOSE i \in taken : \A j \in taken : j <= i
      BY <1>3 DEF Result
    <2>3. \E i \in taken : \A j \in taken : j <= i
      <3> HIDE DEF taken
      <3>1. QED
        BY <1>1, <1>3, <2>1, GreatestNat
    <2>4. Result \in taken /\ \A j \in taken : j <= Result
      <3> HIDE DEF taken
      <3>1. QED
        BY <2>2, <2>3
    <2>5. ASSUME Batch \cap Rejected = {} PROVE Result = worker.batch
      <3>1. worker.batch # 0
        BY <1>1, <2>4
      <3>2. worker.batch \in 1..worker.batch
        BY <1>1, <3>1
      <3>3. << worker.at, worker.batch >> \in Batch
        BY <3>2 DEF Batch
      <3>4. worker.batch \in taken
        BY <2>5, <3>2, <3>3
      <3>5. QED
        BY <1>1, <2>4, <3>4
    <2>6. QED
      BY <1>1, <2>1, <2>4, <2>5
  <1>4. QED
    BY <1>2, <1>3
\* Where Goto leads: the rest of what the worker holds stays.
LEMMA GotoLemma ==
  ASSUME worker \in WorkerStates, NEW stage \in Stages, Goto(stage)
  PROVE  /\ worker' \in WorkerStates /\ worker'.stage = stage /\ worker'.at = worker.at
         /\ worker'.prev = worker.prev /\ worker'.batch = worker.batch
         /\ worker'.result = worker.result
  BY DEF Goto, WorkerStates

\* After a failure the worker has no connector in hand.
LEMMA FailLemma ==
  ASSUME worker \in WorkerStates, AttemptFails
  PROVE  worker' \in WorkerStates /\ worker'.stage \in { "idle", "next" }
  <1>1. CASE worker.attempt < MaxAttempts
    <2>1. worker.attempt + 1 \in 1..MaxAttempts
      BY <1>1, AttemptAssumption DEF WorkerStates
    <2>2. worker' = [ Resting EXCEPT !.stage = "next", !.attempt = worker.attempt + 1 ]
      BY <1>1 DEF AttemptFails
    <2>3. QED
      BY <2>1, <2>2, RestingState DEF WorkerStates, Stages
  <1>2. CASE ~ (worker.attempt < MaxAttempts)
    BY <1>2, RestingState DEF AttemptFails
  <1>3. QED
    BY <1>1, <1>2

\* Record changes the row of the connector in hand.
LEMMA RecordLemma ==
  ASSUME TypeOK, worker.at \in Connectors, NEW status \in { "running", "success", "failed" },
         NEW at \in 0..Listed, Record(status, at)
  PROVE  /\ row' \in [ Connectors -> RowStates ]
         /\ \A c \in Connectors :
              /\ row'[c].status = IF c = worker.at THEN status ELSE row[c].status
              /\ row'[c].cursor = IF c = worker.at THEN at ELSE row[c].cursor
  BY DEF TypeOK, Record, RowStates

\* What is left of a job has no items, the other jobs stay.
LEMMA LeaveJobLemma ==
  ASSUME TypeOK, LeaveJob
  PROVE  /\ job' \in [ Connectors -> JobStates ] /\ late' \in [ Connectors -> Nat ]
         /\ \A c \in Connectors : job'[c].items = 0 \/ job'[c] = job[c]
  <1>1. job' \in [ Connectors -> JobStates ]
        /\ \A c \in Connectors : job'[c].items = 0 \/ job'[c] = job[c]
    BY RestingState DEF TypeOK, LeaveJob
  <1>2. late' \in [ Connectors -> Nat ]
    <2>1. late \in [ Connectors -> Nat ]
      BY DEF TypeOK
    <2>2. CASE late' = [ late EXCEPT ![worker.at] = @ + 1 ]
      <3>1. \A c \in Connectors : late[c] \in Nat /\ late[c] + 1 \in Nat
        BY <2>1
      <3>2. \A c \in Connectors : late'[c] = late[c] \/ late'[c] = late[c] + 1
        BY <2>1, <2>2
      <3>3. late' = [ c \in Connectors |-> late'[c] ]
        BY <2>1, <2>2
      <3>4. QED
        BY <3>1, <3>2, <3>3
    <2>3. late' = late \/ late' = [ late EXCEPT ![worker.at] = @ + 1 ]
      BY DEF LeaveJob
    <2>4. QED
      BY <2>1, <2>2, <2>3
  <1>3. QED
    BY <1>1, <1>2

------------------------------------------------------------------------------
(* The invariant *)

LEMMA InitInv == Init => Inv
  <1> SUFFICES ASSUME Init PROVE Inv
    OBVIOUS
  <1>1. /\ \A c \in Connectors : /\ listing[c] = 0 /\ seen[c] = 0 /\ cursor[c] = 0
                                 /\ job[c] = NoJob /\ row[c].status = "none"
        /\ worker = Resting
    BY DEF Init
  <1>2. TypeOK
    BY LastAssumption, RestingState DEF Init, TypeOK, RowStates
  <1>3. QED
    BY <1>1, <1>2, RestingState
    DEF Inv, CursorCovered, SuccessPersisted, Bounded, InHand, OneJob

\* A step keeps what is known of the data if it leaves the cursors, the site and the
\* spiders alone, forgets no case and takes no more from a job than its items.
LEMMA QuietStep ==
  ASSUME Inv, << listing, seen, cursor >>' = << listing, seen, cursor >>,
         accepted \subseteq accepted',
         \A c \in Connectors : job'[c].items = 0 \/ job'[c] = job[c]
  PROVE  CursorCovered' /\ Bounded'
  BY DEF Inv, CursorCovered, Bounded

\* When the worker has nothing in hand there is nothing to know of it.
LEMMA RestingStep ==
  ASSUME worker'.stage \in { "idle", "next" }
  PROVE  InHand'
  BY DEF InHand
LEMMA OneJobNext == Inv /\ [Next]_vars => OneJob'
  <1> SUFFICES ASSUME Inv, [Next]_vars PROVE OneJob'
    OBVIOUS
  <1>0. /\ worker \in WorkerStates /\ job \in [ Connectors -> JobStates ]
        /\ worker.stage # "fetch" => \A c \in Connectors : job[c] = NoJob
    BY DEF Inv, TypeOK, OneJob
  <1>1. ASSUME ScheduleSpider PROVE OneJob'
    <2>1. CASE worker.at \in broken
      BY <1>0, <1>1, <2>1 DEF ScheduleSpider, OneJob
    <2>2. CASE worker.at \notin broken
      <3>1. worker'.stage = "fetch" /\ worker'.at = worker.at
        BY <1>0, <1>1, <2>2, GotoLemma DEF ScheduleSpider, Stages
      <3>2. \A c \in Connectors : c # worker.at => job'[c] = job[c]
        BY <1>0, <1>1, <2>2 DEF ScheduleSpider
      <3>3. QED
        BY <1>0, <1>1, <3>1, <3>2 DEF ScheduleSpider, OneJob
    <2>3. QED
      BY <2>1, <2>2
  <1>2. ASSUME job' = [ job EXCEPT ![worker.at] = NoJob ] PROVE OneJob'
    BY <1>0, <1>2 DEF Inv, OneJob
  <1>3. ASSUME job' = job, worker.stage # "fetch" PROVE OneJob'
    BY <1>0, <1>3 DEF OneJob
  <1>4. ASSUME LeaveJob PROVE OneJob'
    BY <1>2, <1>3, <1>4 DEF LeaveJob
  <1>5. ASSUME NEW c \in Connectors, SpiderRuns(c) PROVE OneJob'
    <2>1. job[c] # NoJob
      BY <1>5 DEF SpiderRuns, NoJob
    <2>2. \A b \in Connectors : b # c => job'[b] = job[b]
      BY <1>0, <1>5 DEF SpiderRuns
    <2>3. QED
      BY <1>5, <2>1, <2>2 DEF SpiderRuns, Inv, OneJob
  <1>6. ASSUME job' = job, worker' = worker PROVE OneJob'
    BY <1>6 DEF Inv, OneJob
  <1>7. CASE WorkerStep
    BY <1>1, <1>2, <1>3, <1>7
    DEF WorkerStep, StartCycle, EndCycle, GetLatestCursor, CreateRun, FetchItems, Ingest,
        Reject, PersistCursor, FinishRun, ConfirmCursor, MarkFailed
  <1>8. CASE RunFault \/ AttemptFault \/ Crash
    BY <1>3, <1>4, <1>8 DEF RunFault, AttemptFault, Crash
  <1>9. CASE \E c \in Connectors : Publish(c) \/ SpiderRuns(c) \/ LateSpiderRuns(c)
    BY <1>5, <1>6, <1>9 DEF Publish, LateSpiderRuns
  <1>10. CASE UNCHANGED vars
    BY <1>6, <1>10 DEF vars
  <1>11. QED
    BY <1>7, <1>8, <1>9, <1>10 DEF Next

LEMMA NextInv == Inv /\ [Next]_vars => Inv'
  <1> SUFFICES ASSUME Inv, [Next]_vars PROVE Inv'
    OBVIOUS
  <1>0. /\ TypeOK /\ worker \in WorkerStates /\ Listed \in Nat /\ Last \in Nat /\ Last # 0
        /\ worker.at \in Nat /\ worker.prev \in 0..Listed /\ worker.result \in 0..Listed
        /\ cursor \in [ Connectors -> 0..Listed ] /\ row \in [ Connectors -> RowStates ]
        /\ job \in [ Connectors -> JobStates ]
        /\ seen \in [ Connectors -> 0..Listed ] /\ listing \in [ Connectors -> 0..Listed ]
    BY LastAssumption DEF Inv, TypeOK, WorkerStates
  <1>w. worker.stage \notin { "idle", "next" } => worker.at \in Connectors
    BY DEF Inv, InHand
  <1>j. OneJob'
    BY OneJobNext
  <1>1. ASSUME StartCycle \/ EndCycle PROVE Inv'
    <2>1. worker' \in WorkerStates /\ worker'.stage \in { "idle", "next" }
      BY <1>1, RestingState DEF StartCycle, EndCycle, WorkerStates, Stages
    <2>2. UNCHANGED << outside, job, cursor, row, known, accepted, faults >>
      BY <1>1 DEF StartCycle, EndCycle
    <2>3. TypeOK'
      BY <1>0, <2>1, <2>2 DEF TypeOK, outside
    <2>4. SuccessPersisted'
      BY <2>2 DEF Inv, SuccessPersisted
    <2>5. CursorCovered' /\ Bounded'
      BY <2>2, QuietStep DEF outside
    <2>6. QED
      BY <1>j, <2>1, <2>3, <2>4, <2>5, RestingStep DEF Inv
  <1>2. ASSUME GetLatestCursor PROVE Inv'
    <2>1. /\ worker.at \in Connectors
          /\ worker' = [ worker EXCEPT !.stage = "create", !.prev = cursor[worker.at] ]
          /\ UNCHANGED << outside, job, cursor, row, known, accepted, faults >>
      BY <1>0, <1>2 DEF GetLatestCursor, WorkerStates, Connectors
    <2>2. /\ worker' \in WorkerStates /\ worker'.stage = "create"
          /\ worker'.at = worker.at /\ worker'.prev = cursor[worker.at]
      BY <1>0, <2>1 DEF WorkerStates, Stages
    <2>3. TypeOK'
      BY <1>0, <2>1, <2>2 DEF TypeOK, outside
    <2>4. SuccessPersisted'
      BY <2>1 DEF Inv, SuccessPersisted
    <2>5. CursorCovered' /\ Bounded'
      BY <2>1, QuietStep DEF outside
    <2>6. InHand'
      BY <2>1, <2>2 DEF InHand
    <2>7. QED
      BY <1>j, <2>3, <2>4, <2>5, <2>6 DEF Inv
  <1>3. ASSUME CreateRun PROVE Inv'
    <2>1. /\ worker.stage = "create" /\ worker.at \in Connectors
          /\ Record("running", worker.prev) /\ Goto("schedule")
          /\ UNCHANGED << outside, job, cursor, known, accepted, faults >>
      BY <1>3, <1>w DEF CreateRun
    <2>2. /\ worker' \in WorkerStates /\ worker'.stage = "schedule"
          /\ worker'.at = worker.at /\ worker'.prev = worker.prev
      BY <1>0, <2>1, GotoLemma DEF Stages
    <2>3. /\ row' \in [ Connectors -> RowStates ]
          /\ \A c \in Connectors :
               /\ row'[c].status = IF c = worker.at THEN "running" ELSE row[c].status
               /\ row'[c].cursor = IF c = worker.at THEN worker.prev ELSE row[c].cursor
      BY <1>0, <2>1, RecordLemma
    <2>4. TypeOK'
      BY <1>0, <2>1, <2>2, <2>3 DEF TypeOK, outside
    <2>5. SuccessPersisted'
      BY <2>1, <2>3 DEF Inv, SuccessPersisted
    <2>6. CursorCovered' /\ Bounded'
      BY <2>1, QuietStep DEF outside
    <2>7. InHand'
      BY <2>1, <2>2, <2>3 DEF Inv, InHand
    <2>8. QED
      BY <1>j, <2>4, <2>5, <2>6, <2>7 DEF Inv
  <1>4. ASSUME ScheduleSpider PROVE Inv'
    <2>1. /\ worker.stage = "schedule" /\ worker.at \in Connectors
          /\ UNCHANGED << outside, cursor, row, known, accepted, faults >>
      BY <1>4, <1>w DEF ScheduleSpider
    <2>2. /\ worker' \in WorkerStates /\ worker'.stage \in { "catch", "fetch" }
          /\ worker'.at = worker.at /\ worker'.prev = worker.prev
      BY <1>0, <1>4, GotoLemma DEF ScheduleSpider, Stages
    <2>3. /\ job' \in [ Connectors -> JobStates ]
          /\ \A c \in Connectors : job'[c].items = 0 \/ job'[c] = job[c]
      <3>1. [ NoJob EXCEPT !.state = "scheduled" ] \in JobStates
            /\ [ NoJob EXCEPT !.state = "scheduled" ].items = 0
        BY RestingState DEF JobStates
      <3>2. QED
        BY <1>0, <1>4, <3>1 DEF ScheduleSpider
    <2>4. TypeOK'
      BY <1>0, <2>1, <2>2, <2>3 DEF TypeOK, outside
    <2>5. SuccessPersisted'
      BY <2>1 DEF Inv, SuccessPersisted
    <2>6. CursorCovered' /\ Bounded'
      BY <2>1, <2>3, QuietStep DEF outside
    <2>7. InHand'
      BY <2>1, <2>2 DEF Inv, InHand
    <2>8. QED
      BY <1>j, <2>4, <2>5, <2>6, <2>7 DEF Inv
  <1>5. ASSUME FetchItems PROVE Inv'
    <2>1. /\ worker.stage = "fetch" /\ worker.at \in Connectors
          /\ worker' = [ worker EXCEPT !.stage = "ingest", !.batch = job[worker.at].items ]
          /\ job' = [ job EXCEPT ![worker.at] = NoJob ]
          /\ UNCHANGED << listing, seen, broken, noisy, cursor, row, known, accepted, faults >>
      BY <1>5, <1>w DEF FetchItems
    <2>2. /\ worker' \in WorkerStates /\ worker'.stage = "ingest"
          /\ worker'.at = worker.at /\ worker'.prev = worker.prev
          /\ worker'.batch = job[worker.at].items
      BY <1>0, <2>1 DEF WorkerStates, Stages, JobStates
    <2>3. /\ job' \in [ Connectors -> JobStates ]
          /\ \A c \in Connectors : job'[c].items = 0 \/ job'[c] = job[c]
      BY <1>0, <2>1, RestingState
    <2>4. late' \in [ Connectors -> Nat ]
      <3>1. late \in [ Connectors -> Nat ]
        BY <1>0 DEF TypeOK
      <3>2. late[worker.at] + 1 \in Nat
        BY <2>1, <3>1
      <3>3. late' = late \/ late' = [ late EXCEPT ![worker.at] = late[worker.at] + 1 ]
        BY <1>5 DEF FetchItems
      <3>4. QED
        BY <3>1, <3>2, <3>3
    <2>5. TypeOK'
      BY <1>0, <2>1, <2>2, <2>3, <2>4 DEF TypeOK
    <2>6. SuccessPersisted'
      BY <2>1 DEF Inv, SuccessPersisted
    <2>7. CursorCovered' /\ Bounded'
      BY <2>1, <2>3, QuietStep
    <2>8. InHand'
      BY <2>1, <2>2 DEF Inv, InHand, Bounded
    <2>9. QED
      BY <1>j, <2>5, <2>6, <2>7, <2>8 DEF Inv
  <1>6. ASSUME Ingest PROVE Inv'
    <2>1. /\ worker.stage = "ingest" /\ worker.at \in Connectors
          /\ accepted' = accepted \cup (Batch \ Rejected)
          /\ known' = known \cup (Batch \ Rejected)
          /\ UNCHANGED << outside, job, cursor, row, faults >>
      BY <1>6, <1>w DEF Ingest
    <2> DEFINE next == IF Batch \cap Rejected = {} THEN "persist" ELSE "reject"
    <2>2. /\ worker' \in WorkerStates /\ worker'.stage = next
          /\ worker'.at = worker.at /\ worker'.result = Result
      <3>1. worker' = [ worker EXCEPT !.result = Result, !.stage = next ]
        BY <1>6 DEF Ingest
      <3>2. next \in Stages
        BY DEF Stages
      <3> HIDE DEF next
      <3>3. Result \in 0..Listed
        BY <1>0, ResultLemma
      <3>4. QED
        BY <1>0, <3>1, <3>2, <3>3 DEF WorkerStates
    <2>3. Batch \subseteq Items
      BY <1>0, <2>1 DEF Batch, Items, WorkerStates
    <2>4. TypeOK'
      BY <1>0, <2>1, <2>2, <2>3 DEF TypeOK, outside
    <2>5. SuccessPersisted'
      BY <2>1 DEF Inv, SuccessPersisted
    <2>6. CursorCovered' /\ Bounded'
      BY <2>1, QuietStep DEF outside
    <2>7. InHand'
      <3>1. ASSUME Batch \cap Rejected = {}
            PROVE  /\ cursor[worker.at] <= Result /\ Result <= seen[worker.at]
                   /\ \A i \in 1..Result : << worker.at, i >> \in accepted'
        <4>1. CASE worker.batch = 0
          <5>1. Result = cursor[worker.at]
            BY <1>0, <2>1, <3>1, <4>1, ResultLemma DEF Inv, InHand
          <5>2. \A i \in 1..cursor[worker.at] : << worker.at, i >> \in accepted
            BY <2>1 DEF Inv, CursorCovered
          <5>3. cursor[worker.at] <= seen[worker.at] /\ cursor[worker.at] \in Nat
            BY <1>0, <2>1 DEF Inv, Bounded
          <5>4. QED
            BY <2>1, <5>1, <5>2, <5>3
        <4>2. CASE worker.batch # 0
          <5>1. Result = worker.batch
            BY <1>0, <3>1, <4>2, ResultLemma
          <5>2. \A i \in 1..worker.batch : << worker.at, i >> \in Batch \ Rejected
            BY <3>1 DEF Batch
          <5>3. cursor[worker.at] <= worker.batch /\ worker.batch <= seen[worker.at]
            BY <2>1, <4>2 DEF Inv, InHand
          <5>4. QED
            BY <2>1, <5>1, <5>2, <5>3
        <4>3. QED
          BY <4>1, <4>2
      <3>2. row[worker.at].status # "success"
        BY <2>1 DEF Inv, InHand
      <3>3. QED
        BY <2>1, <2>2, <3>1, <3>2 DEF InHand, outside
    <2>8. QED
      BY <1>j, <2>4, <2>5, <2>6, <2>7 DEF Inv
  <1>7. ASSUME Reject \/ MarkFailed PROVE Inv'
    <2>1. PICK at \in 0..Listed : Record("failed", at)
      BY <1>0, <1>7 DEF Reject, MarkFailed
    <2>2. /\ worker.at \in Connectors /\ AttemptFails
          /\ UNCHANGED << outside, job, cursor, known, accepted, faults >>
      BY <1>7, <1>w DEF Reject, MarkFailed
    <2>3. worker' \in WorkerStates /\ worker'.stage \in { "idle", "next" }
      BY <1>0, <2>2, FailLemma
    <2>4. /\ row' \in [ Connectors -> RowStates ]
          /\ \A c \in Connectors :
               /\ row'[c].status = IF c = worker.at THEN "failed" ELSE row[c].status
               /\ row'[c].cursor = IF c = worker.at THEN at ELSE row[c].cursor
      BY <1>0, <2>1, <2>2, RecordLemma
    <2>5. TypeOK'
      BY <1>0, <2>2, <2>3, <2>4 DEF TypeOK, outside
    <2>6. SuccessPersisted'
      BY <2>2, <2>4 DEF Inv, SuccessPersisted
    <2>7. CursorCovered' /\ Bounded'
      BY <2>2, QuietStep DEF outside
    <2>8. QED
      BY <1>j, <2>3, <2>5, <2>6, <2>7, RestingStep DEF Inv
  <1>8. ASSUME PersistCursor PROVE Inv'
    <2>1. /\ worker.stage = "persist" /\ worker.at \in Connectors /\ Goto("finish")
          /\ cursor' = [ cursor EXCEPT ![worker.at] = worker.result ]
          /\ UNCHANGED << outside, job, row, known, accepted, faults >>
      BY <1>8, <1>w DEF PersistCursor
    <2>2. /\ worker' \in WorkerStates /\ worker'.stage = "finish"
          /\ worker'.at = worker.at /\ worker'.result = worker.result
      BY <1>0, <2>1, GotoLemma DEF Stages
    <2>3. /\ row[worker.at].status # "success"
          /\ worker.result <= seen[worker.at]
          /\ \A i \in 1..worker.result : << worker.at, i >> \in accepted
      BY <2>1 DEF Inv, InHand
    <2>4. cursor' \in [ Connectors -> 0..Listed ]
          /\ \A c \in Connectors :
               cursor'[c] = IF c = worker.at THEN worker.result ELSE cursor[c]
      BY <1>0, <2>1
    <2>5. TypeOK'
      BY <1>0, <2>1, <2>2, <2>4 DEF TypeOK, outside
    <2>6. SuccessPersisted'
      BY <2>1, <2>3, <2>4 DEF Inv, SuccessPersisted
    <2>7. CursorCovered'
      BY <2>1, <2>3, <2>4 DEF Inv, CursorCovered
    <2>8. Bounded'
      <3>1. \A c \in Connectors : job[c].items = 0
        BY <2>1, RestingState DEF Inv, OneJob
      <3>2. QED
        BY <2>1, <2>3, <2>4, <3>1 DEF Inv, Bounded, outside
    <2>9. InHand'
      BY <2>1, <2>2, <2>3, <2>4 DEF InHand
    <2>10. QED
      BY <1>j, <2>5, <2>6, <2>7, <2>8, <2>9 DEF Inv
  <1>9. ASSUME FinishRun PROVE Inv'
    <2>1. /\ worker.stage = "finish" /\ worker.at \in Connectors /\ Goto("confirm")
          /\ Record("success", worker.result)
          /\ UNCHANGED << outside, job, cursor, known, accepted, faults >>
      BY <1>9, <1>w DEF FinishRun
    <2>2. /\ worker' \in WorkerStates /\ worker'.stage = "confirm"
          /\ worker'.at = worker.at /\ worker'.result = worker.result
      BY <1>0, <2>1, GotoLemma DEF Stages
    <2>3. /\ row' \in [ Connectors -> RowStates ]
          /\ \A c \in Connectors :
               /\ row'[c].status = IF c = worker.at THEN "success" ELSE row[c].status
               /\ row'[c].cursor = IF c = worker.at THEN worker.result ELSE row[c].cursor
      BY <1>0, <2>1, RecordLemma
    <2>4. cursor[worker.at] = worker.result
      BY <2>1 DEF Inv, InHand
    <2>5. TypeOK'
      BY <1>0, <2>1, <2>2, <2>3 DEF TypeOK, outside
    <2>6. SuccessPersisted'
      BY <2>1, <2>3, <2>4 DEF Inv, SuccessPersisted
    <2>7. CursorCovered' /\ Bounded'
      BY <2>1, QuietStep DEF outside
    <2>8. InHand'
      BY <2>1, <2>2, <2>4 DEF InHand
    <2>9. QED
      BY <1>j, <2>5, <2>6, <2>7, <2>8 DEF Inv
  <1>10. ASSUME ConfirmCursor PROVE Inv'
    <2>1. /\ worker.stage = "confirm" /\ worker.at \in Connectors
          /\ cursor' = [ cursor EXCEPT ![worker.at] = worker.result ]
          /\ worker' = [ Resting EXCEPT !.stage = "next", !.at = worker.at + 1,
                                        !.attempt = worker.attempt ]
          /\ UNCHANGED << outside, job, row, known, accepted, faults >>
      BY <1>10, <1>w DEF ConfirmCursor
    <2>2. cursor' = cursor
      BY <1>0, <2>1 DEF Inv, InHand
    <2>3. worker' \in WorkerStates /\ worker'.stage = "next"
      <3>1. worker.at + 1 \in 1..Last + 1
        BY <1>0, <2>1 DEF Connectors
      <3>2. worker.attempt \in 1..MaxAttempts
        BY <1>0 DEF WorkerStates
      <3>3. QED
        BY <2>1, <3>1, <3>2, RestingState DEF WorkerStates, Stages
    <2>4. TypeOK'
      BY <1>0, <2>1, <2>2, <2>3 DEF TypeOK, outside
    <2>5. SuccessPersisted'
      BY <2>1, <2>2 DEF Inv, SuccessPersisted
    <2>6. CursorCovered' /\ Bounded'
      BY <2>1, <2>2, QuietStep DEF outside
    <2>7. QED
      BY <1>j, <2>3, <2>4, <2>5, <2>6, RestingStep DEF Inv
  <1>11. ASSUME RunFault PROVE Inv'
    <2>1. /\ worker.at \in Connectors /\ LeaveJob /\ Goto("catch")
          /\ faults' = faults + 1
          /\ UNCHANGED << listing, seen, broken, noisy, cursor, row, known, accepted >>
      BY <1>11, <1>w DEF RunFault, Fault
    <2>2. worker' \in WorkerStates /\ worker'.stage = "catch" /\ worker'.at = worker.at
      BY <1>0, <2>1, GotoLemma DEF Stages
    <2>3. /\ job' \in [ Connectors -> JobStates ] /\ late' \in [ Connectors -> Nat ]
          /\ \A c \in Connectors : job'[c].items = 0 \/ job'[c] = job[c]
      BY <1>0, <2>1, LeaveJobLemma
    <2>4. TypeOK'
      BY <1>0, <2>1, <2>2, <2>3 DEF TypeOK
    <2>5. SuccessPersisted'
      BY <2>1 DEF Inv, SuccessPersisted
    <2>6. CursorCovered' /\ Bounded'
      BY <2>1, <2>3, QuietStep
    <2>7. InHand'
      BY <2>1, <2>2 DEF InHand
    <2>8. QED
      BY <1>j, <2>4, <2>5, <2>6, <2>7 DEF Inv
  <1>12. ASSUME AttemptFault PROVE Inv'
    <2>1. /\ AttemptFails /\ faults' = faults + 1
          /\ UNCHANGED << outside, job, cursor, row, known, accepted >>
      BY <1>12 DEF AttemptFault, Fault
    <2>2. worker' \in WorkerStates /\ worker'.stage \in { "idle", "next" }
      BY <1>0, <2>1, FailLemma
    <2>3. TypeOK'
      BY <1>0, <2>1, <2>2 DEF TypeOK, outside
    <2>4. SuccessPersisted'
      BY <2>1 DEF Inv, SuccessPersisted
    <2>5. CursorCovered' /\ Bounded'
      BY <2>1, QuietStep DEF outside
    <2>6. QED
      BY <1>j, <2>2, <2>3, <2>4, <2>5, RestingStep DEF Inv
  <1>13. ASSUME Crash PROVE Inv'
    <2>1. /\ LeaveJob /\ faults' = faults + 1 /\ worker' = Resting /\ known' = {}
          /\ UNCHANGED << listing, seen, broken, noisy, cursor, row, accepted >>
      BY <1>13 DEF Crash, Fault
    <2>2. /\ job' \in [ Connectors -> JobStates ] /\ late' \in [ Connectors -> Nat ]
          /\ \A c \in Connectors : job'[c].items = 0 \/ job'[c] = job[c]
      BY <1>0, <2>1, LeaveJobLemma
    <2>3. TypeOK'
      BY <1>0, <2>1, <2>2, RestingState DEF TypeOK
    <2>4. SuccessPersisted'
      BY <2>1 DEF Inv, SuccessPersisted
    <2>5. CursorCovered' /\ Bounded'
      BY <2>1, <2>2, QuietStep
    <2>6. QED
      BY <1>j, <2>1, <2>3, <2>4, <2>5, RestingState, RestingStep DEF Inv
  <1>14. ASSUME NEW c \in Connectors, Publish(c) PROVE Inv'
    <2>1. /\ listing[c] < Listed /\ listing' = [ listing EXCEPT ![c] = @ + 1 ]
          /\ UNCHANGED << seen, job, broken, noisy, late, cursor, row, known, accepted,
                          worker, faults >>
      BY <1>14 DEF Publish
    <2>2. /\ listing' \in [ Connectors -> 0..Listed ]
          /\ \A b \in Connectors : listing[b] <= listing'[b]
      BY <1>0, <2>1
    <2>3. TypeOK'
      BY <1>0, <2>1, <2>2 DEF TypeOK
    <2>4. Bounded'
      BY <1>0, <2>1, <2>2 DEF Inv, Bounded
    <2>5. CursorCovered' /\ SuccessPersisted' /\ InHand'
      BY <2>1 DEF Inv, CursorCovered, SuccessPersisted, InHand
    <2>6. QED
      BY <1>j, <2>3, <2>4, <2>5 DEF Inv
  <1>15. ASSUME NEW c \in Connectors, SpiderRuns(c) PROVE Inv'
    <2>0. PICK items \in { 0, listing[c] } :
            job' = [ job EXCEPT ![c] = [ state |-> "done", items |-> items ] ]
      BY <1>15 DEF SpiderRuns
    <2>1. /\ job' = [ job EXCEPT ![c] = [ state |-> "done", items |-> items ] ]
          /\ seen' = [ seen EXCEPT ![c] = listing[c] ]
          /\ UNCHANGED << listing, broken, noisy, late, cursor, row, known, accepted,
                          worker, faults >>
      BY <1>15, <2>0 DEF SpiderRuns
    <2>2. items \in 0..Listed /\ (items # 0 => items = listing[c])
      BY <1>0
    <2>3. /\ job' \in [ Connectors -> JobStates ]
          /\ \A b \in Connectors : job'[b].items = IF b = c THEN items ELSE job[b].items
      BY <1>0, <2>1, <2>2 DEF JobStates
    <2>4. /\ seen' \in [ Connectors -> 0..Listed ]
          /\ \A b \in Connectors : seen'[b] = IF b = c THEN listing[c] ELSE seen[b]
      BY <1>0, <2>1
    <2>5. TypeOK'
      BY <1>0, <2>1, <2>3, <2>4 DEF TypeOK
    <2>6. \A b \in Connectors : seen[b] <= seen'[b]
      BY <1>0, <2>4 DEF Inv, Bounded
    <2>7. Bounded'
      BY <1>0, <2>1, <2>2, <2>3, <2>4 DEF Inv, Bounded
    <2>8. InHand'
      BY <1>0, <1>w, <2>1, <2>4, <2>6 DEF Inv, InHand, WorkerStates
    <2>9. CursorCovered' /\ SuccessPersisted'
      BY <2>1 DEF Inv, CursorCovered, SuccessPersisted
    <2>10. QED
      BY <1>j, <2>5, <2>7, <2>8, <2>9 DEF Inv
  <1>16. ASSUME NEW c \in Connectors, LateSpiderRuns(c) PROVE Inv'
    <2>1. /\ late[c] > 0 /\ late' = [ late EXCEPT ![c] = @ - 1 ]
          /\ seen' = [ seen EXCEPT ![c] = listing[c] ]
          /\ UNCHANGED << listing, job, broken, noisy, cursor, row, known, accepted,
                          worker, faults >>
      BY <1>16 DEF LateSpiderRuns
    <2>2. /\ seen' \in [ Connectors -> 0..Listed ]
          /\ \A b \in Connectors : seen'[b] = IF b = c THEN listing[c] ELSE seen[b]
      BY <1>0, <2>1
    <2>3. late' \in [ Connectors -> Nat ]
      <3>1. late \in [ Connectors -> Nat ]
        BY <1>0 DEF TypeOK
      <3>2. QED
        BY <2>1, <3>1
    <2>4. TypeOK'
      BY <1>0, <2>1, <2>2, <2>3 DEF TypeOK
    <2>5. \A b \in Connectors : seen[b] <= seen'[b]
      BY <1>0, <2>2 DEF Inv, Bounded
    <2>6. Bounded'
      BY <1>0, <2>1, <2>2, <2>5 DEF Inv, Bounded, JobStates
    <2>7. InHand'
      BY <1>0, <1>w, <2>1, <2>2, <2>5 DEF Inv, InHand, WorkerStates
    <2>8. CursorCovered' /\ SuccessPersisted'
      BY <2>1 DEF Inv, CursorCovered, SuccessPersisted
    <2>9. QED
      BY <1>j, <2>4, <2>6, <2>7, <2>8 DEF Inv
  <1>17. CASE UNCHANGED vars
    BY <1>j, <1>17 DEF vars, Inv, TypeOK, CursorCovered, SuccessPersisted, Bounded, InHand
  <1>18. QED
    BY <1>1, <1>2, <1>3, <1>4, <1>5, <1>6, <1>7, <1>8, <1>9, <1>10, <1>11, <1>12, <1>13,
       <1>14, <1>15, <1>16, <1>17
    DEF Next, WorkerStep
------------------------------------------------------------------------------
(* Theorems *)

LEMMA SpecInv == Spec => []Inv
  <1>1. QED
    BY InitInv, NextInv, PTL DEF Spec

\* The state of the worker, of the run records and of the spiders keeps its types
\* through every cycle, fault and restart.
THEOREM TypeCorrect == Spec => []TypeOK
  <1>1. Inv => TypeOK
    BY DEF Inv
  <1>2. QED
    BY <1>1, SpecInv, PTL

\* However runs fail, are retried and die, the cursor of a connector never passes an item
\* that was not taken in (ingestBatch, persistCursor).
THEOREM CursorsCovered == Spec => []CursorCovered
  <1>1. Inv => CursorCovered
    BY DEF Inv
  <1>2. QED
    BY <1>1, SpecInv, PTL

\* A run on record as a success has its cursor in the database (persistCursor comes
\* before updateRunStatus).
THEOREM SuccessesPersisted == Spec => []SuccessPersisted
  <1>1. Inv => SuccessPersisted
    BY DEF Inv
  <1>2. QED
    BY <1>1, SpecInv, PTL

\* No step takes a cursor back: neither an empty batch, nor a refused item, nor the retry
\* of a run whose cursor had been stored (the fallback to previousCursor).
THEOREM CursorsMonotone == Spec => CursorMonotone
  <1>1. Inv /\ [Next]_vars => [ \A c \in Connectors : cursor'[c] >= cursor[c] ]_vars
    <2> SUFFICES ASSUME Inv, [Next]_vars, vars' # vars
                 PROVE  \A c \in Connectors : cursor'[c] >= cursor[c]
      OBVIOUS
    <2>0. cursor \in [ Connectors -> 0..Listed ] /\ worker \in WorkerStates
          /\ Listed \in Nat
      BY LastAssumption DEF Inv, TypeOK
    <2>1. CASE cursor' = cursor
      BY <2>0, <2>1
    <2>2. CASE PersistCursor
      <3>1. cursor' = [ cursor EXCEPT ![worker.at] = worker.result ]
        BY <2>2 DEF PersistCursor
      <3>2. cursor[worker.at] <= worker.result /\ worker.result \in 0..Listed
        BY <2>0, <2>2 DEF PersistCursor, Inv, InHand, WorkerStates
      <3>3. QED
        BY <2>0, <3>1, <3>2
    <2>3. CASE ConfirmCursor
      <3>1. cursor' = [ cursor EXCEPT ![worker.at] = worker.result ]
        BY <2>3 DEF ConfirmCursor
      <3>2. cursor[worker.at] = worker.result
        BY <2>3 DEF ConfirmCursor, Inv, InHand
      <3>3. QED
        BY <2>0, <3>1, <3>2
    <2>4. QED
      BY <2>1, <2>2, <2>3
      DEF vars, Next, WorkerStep, StartCycle, EndCycle, GetLatestCursor, CreateRun,
          ScheduleSpider, FetchItems, Ingest, Reject, FinishRun, MarkFailed, RunFault,
          AttemptFault, Crash, Publish, SpiderRuns, LateSpiderRuns
  <1>2. QED
    BY <1>1, SpecInv, PTL DEF Spec, CursorMonotone
==============================================================================
