----------------------------- MODULE Connectors -----------------------------
(***************************************************************************)
(* The worker polls public listings: ConnectorOrchestrator walks the       *)
(* registry, has Scrapyd run a spider for each connector, fetches the      *)
(* items, keeps the cases that are new and stores a cursor.                *)
(*                                                                         *)
(* Three memories have to agree and are kept by nobody together: the       *)
(* cursor in the database, the cases in the memory of the worker           *)
(* (PrismaConnectorStateStore.cases), and the fingerprint that the spider  *)
(* itself saves of the last listing it has seen (BaseSpider).              *)
(*                                                                         *)
(* An item may carry a cursor, the index of the item here; the spiders of  *)
(* services/scraper attach none and do not read the one they are given.    *)
(*                                                                         *)
(* One worker runs one cycle at a time (isRunning).  Of the run records    *)
(* only the latest of each connector is kept, without its counters.        *)
(***************************************************************************)
EXTENDS Naturals

CONSTANTS
  Last,         \* connectors are 1..Last, in the order of the registry
  Listed,       \* bound: items that a listing comes to have
  Rejected,     \* items whose payload or jurisdiction ingestion refuses
  MaxAttempts,  \* CONNECTOR_MAX_ATTEMPTS
  MaxLate,      \* bound: jobs of a connector that the worker has left behind
  MaxFaults     \* bound: failed calls and crashes

Connectors == 1..Last

Items == Connectors \X (1..Listed)

ASSUME LastAssumption == Last \in Nat \ { 0 } /\ Listed \in Nat

ASSUME SetAssumption == Rejected \subseteq Items

ASSUME AttemptAssumption == MaxAttempts \in Nat \ { 0 }

ASSUME BoundAssumption == MaxLate \in Nat /\ MaxFaults \in Nat

VARIABLES
  listing,      \* items on the site of each connector; they are only ever added
  seen,         \* how many of them the spider's saved fingerprint covers
  job,          \* the job the worker waits for
  broken,       \* connectors whose spider Scrapyd does not know
  noisy,        \* connectors whose listing can look changed when it is not
  late,         \* jobs that will run although nobody fetches their items
  cursor,       \* ConnectorCursor
  row,          \* the latest ConnectorRun
  known,        \* cases in the memory of the worker
  accepted,     \* history: items that have ever become a case
  worker,
  faults        \* history

vars ==
  << listing, seen, job, broken, noisy, late, cursor, row, known, accepted, worker, faults >>

outside == << listing, seen, broken, noisy, late >>

Stages ==
  { "idle", "next", "create", "schedule", "fetch", "ingest", "reject",
    "persist", "finish", "confirm", "catch" }

WorkerStates ==
  [ stage   : Stages,
    at      : 1..Last + 1,    \* the connector in hand
    attempt : 1..MaxAttempts,
    prev    : 0..Listed,      \* the cursor that this run has read
    batch   : 0..Listed,      \* items 1..batch were fetched
    result  : 0..Listed ]     \* the cursor that ingestion has come to

Resting ==
  [ stage |-> "idle", at |-> 1, attempt |-> 1, prev |-> 0, batch |-> 0, result |-> 0 ]

JobStates == [ state : { "none", "scheduled", "done" }, items : 0..Listed ]

NoJob == [ state |-> "none", items |-> 0 ]

RowStates ==
  [ status : { "none", "running", "success", "failed" }, cursor : 0..Listed ]

Goto(stage) == worker' = [ worker EXCEPT !.stage = stage ]

Record(status, at) ==
  row' = [ row EXCEPT ![worker.at] = [ status |-> status, cursor |-> at ] ]

------------------------------------------------------------------------------
(* The cycle and its retries *)

StartCycle ==
  /\ worker.stage = "idle"
  /\ worker' = [ Resting EXCEPT !.stage = "next" ]
  /\ UNCHANGED << outside, job, cursor, row, known, accepted, faults >>

EndCycle ==
  /\ worker.stage = "next"
  /\ worker.at > Last
  /\ worker' = Resting
  /\ UNCHANGED << outside, job, cursor, row, known, accepted, faults >>

\* The first error ends the walk through the registry; a retry starts over with the
\* first connector, and so does the next cycle.
AttemptFails ==
  worker' = IF worker.attempt < MaxAttempts
            THEN [ Resting EXCEPT !.stage = "next", !.attempt = worker.attempt + 1 ]
            ELSE Resting

------------------------------------------------------------------------------
(* runConnector *)

GetLatestCursor ==
  /\ worker.stage = "next"
  /\ worker.at <= Last
  /\ worker' = [ worker EXCEPT !.stage = "create", !.prev = cursor[worker.at] ]
  /\ UNCHANGED << outside, job, cursor, row, known, accepted, faults >>

CreateRun ==
  /\ worker.stage = "create"
  /\ Record("running", worker.prev)
  /\ Goto("schedule")
  /\ UNCHANGED << outside, job, cursor, known, accepted, faults >>

ScheduleSpider ==
  /\ worker.stage = "schedule"
  /\ IF worker.at \in broken
     THEN Goto("catch") /\ UNCHANGED job
     ELSE /\ Goto("fetch")
          /\ job' = [ job EXCEPT ![worker.at] = [ NoJob EXCEPT !.state = "scheduled" ] ]
  /\ UNCHANGED << outside, cursor, row, known, accepted, faults >>

\* The items are asked for at once. A job that has not finished has none: the answer
\* is not ok, which fetchItems takes for an empty list.
FetchItems ==
  LET c == worker.at IN
  /\ worker.stage = "fetch"
  /\ worker' = [ worker EXCEPT !.stage = "ingest", !.batch = job[c].items ]
  /\ job' = [ job EXCEPT ![c] = NoJob ]
  /\ IF job[c].state = "done" THEN UNCHANGED late
     ELSE late[c] < MaxLate /\ late' = [ late EXCEPT ![c] = @ + 1 ]
  /\ UNCHANGED << listing, seen, broken, noisy, cursor, row, known, accepted, faults >>

Batch == { worker.at } \X (1..worker.batch)

\* Faulty: the cursor of the item after the last.
ResultUnread == worker.batch + 1

\* Faulty: with nothing new the cursor that the run started from is forgotten.
ResultForgotten ==
  LET taken == { i \in 1..worker.batch : << worker.at, i >> \notin Rejected }
  IN  IF taken = {} THEN 0 ELSE CHOOSE i \in taken : \A j \in taken : j <= i

\* The cursor of the last item that was kept or known, in the order of the listing.
Result ==
  LET taken == { i \in 1..worker.batch : << worker.at, i >> \notin Rejected }
  IN  IF taken = {} THEN worker.prev ELSE CHOOSE i \in taken : \A j \in taken : j <= i

\* Faulty: refused items are not counted.
IngestLenient ==
  /\ worker.stage = "ingest"
  /\ known' = known \cup (Batch \ Rejected)
  /\ accepted' = accepted \cup (Batch \ Rejected)
  /\ worker' = [ worker EXCEPT !.stage = "persist", !.result = Result ]
  /\ UNCHANGED << outside, job, cursor, row, faults >>

\* ingestBatch: each item is kept unless it is known; a refused one counts as a failure.
Ingest ==
  /\ worker.stage = "ingest"
  /\ known' = known \cup (Batch \ Rejected)
  /\ accepted' = accepted \cup (Batch \ Rejected)
  /\ worker' = [ worker EXCEPT !.result = Result,
                               !.stage = IF Batch \cap Rejected = {} THEN "persist" ELSE "reject" ]
  /\ UNCHANGED << outside, job, cursor, row, faults >>

\* With failures the run fails and the cursor stays; the record names the one reached.
Reject ==
  /\ worker.stage = "reject"
  /\ Record("failed", worker.result)
  /\ AttemptFails
  /\ UNCHANGED << outside, job, cursor, known, accepted, faults >>

\* Faulty: the run is reported as a success before its cursor is stored.
PersistLater ==
  /\ worker.stage = "persist"
  /\ Record("success", worker.result)
  /\ Goto("confirm")
  /\ UNCHANGED << outside, job, cursor, known, accepted, faults >>

PersistCursor ==
  /\ worker.stage = "persist"
  /\ cursor' = [ cursor EXCEPT ![worker.at] = worker.result ]
  /\ Goto("finish")
  /\ UNCHANGED << outside, job, row, known, accepted, faults >>

FinishRun ==
  /\ worker.stage = "finish"
  /\ Record("success", worker.result)
  /\ Goto("confirm")
  /\ UNCHANGED << outside, job, cursor, known, accepted, faults >>

\* state.setCursor writes the cursor once more; then the next connector's turn comes.
ConfirmCursor ==
  /\ worker.stage = "confirm"
  /\ cursor' = [ cursor EXCEPT ![worker.at] = worker.result ]
  /\ worker' = [ Resting EXCEPT !.stage = "next", !.at = worker.at + 1,
                                !.attempt = worker.attempt ]
  /\ UNCHANGED << outside, job, row, known, accepted, faults >>

\* The catch block: the record gets the cursor that the run had started from.
MarkFailed ==
  /\ worker.stage = "catch"
  /\ Record("failed", worker.prev)
  /\ AttemptFails
  /\ UNCHANGED << outside, job, cursor, known, accepted, faults >>

------------------------------------------------------------------------------
(* Faults *)

Fault == faults < MaxFaults /\ faults' = faults + 1

\* The job that the worker stops waiting for will still run, and so may one whose
\* schedule was asked for but not answered; the items are lost.
LeaveJob ==
  LET c == worker.at
      waiting == worker.stage = "fetch" /\ job[c].state = "scheduled"
      asked == worker.stage = "schedule" /\ c \notin broken
  IN
  /\ job' = IF worker.stage = "fetch" THEN [ job EXCEPT ![c] = NoJob ] ELSE job
  /\ \/ /\ waiting \/ asked
        /\ late[c] < MaxLate
        /\ late' = [ late EXCEPT ![c] = @ + 1 ]
     \/ ~waiting /\ UNCHANGED late

\* A call inside the try block fails.
RunFault ==
  /\ worker.stage \in { "schedule", "fetch", "reject", "persist", "finish", "confirm" }
  /\ Fault
  /\ LeaveJob
  /\ Goto("catch")
  /\ UNCHANGED << listing, seen, broken, noisy, cursor, row, known, accepted >>

\* A call before the try block or in the catch block fails.
AttemptFault ==
  /\ worker.stage \in { "next", "create", "catch" }
  /\ worker.at <= Last
  /\ Fault
  /\ AttemptFails
  /\ UNCHANGED << outside, job, cursor, row, known, accepted >>

\* The worker dies and is started again, without its memory.
Crash ==
  /\ worker.stage # "idle"
  /\ Fault
  /\ LeaveJob
  /\ known' = {}
  /\ worker' = Resting
  /\ UNCHANGED << listing, seen, broken, noisy, cursor, row, accepted >>

------------------------------------------------------------------------------
(* The sites and the spiders *)

Publish(c) ==
  /\ listing[c] < Listed
  /\ listing' = [ listing EXCEPT ![c] = @ + 1 ]
  /\ UNCHANGED << seen, job, broken, noisy, late, cursor, row, known, accepted, worker,
                  faults >>

\* Faulty: the fingerprint is not saved.
SpiderForgets(c) ==
  /\ job[c].state = "scheduled"
  /\ job' = [ job EXCEPT ![c] = [ state |-> "done",
                items |-> IF listing[c] = seen[c] THEN 0 ELSE listing[c] ] ]
  /\ UNCHANGED << listing, seen, broken, noisy, late, cursor, row, known, accepted, worker,
                  faults >>

\* BaseSpider.parse_watch: nothing for a listing that it has seen before, else all of it.
\* A listing looks new, whatever it lists, when its ETag or its page changes by itself, or
\* always, when the site redirects: the fingerprint is kept for another URL.
SpiderRuns(c) ==
  /\ job[c].state = "scheduled"
  /\ \E items \in { 0, listing[c] } :
       /\ listing[c] # seen[c] => items = listing[c]
       /\ listing[c] = seen[c] /\ c \notin noisy => items = 0
       /\ job' = [ job EXCEPT ![c] = [ state |-> "done", items |-> items ] ]
  /\ seen' = [ seen EXCEPT ![c] = listing[c] ]
  /\ UNCHANGED << listing, broken, noisy, late, cursor, row, known, accepted, worker, faults >>

LateSpiderRuns(c) ==
  /\ late[c] > 0
  /\ late' = [ late EXCEPT ![c] = @ - 1 ]
  /\ seen' = [ seen EXCEPT ![c] = listing[c] ]
  /\ UNCHANGED << listing, job, broken, noisy, cursor, row, known, accepted, worker, faults >>

Init ==
  /\ listing = [ c \in Connectors |-> 0 ]
  /\ seen = [ c \in Connectors |-> 0 ]
  /\ job = [ c \in Connectors |-> NoJob ]
  /\ broken \in SUBSET Connectors
  /\ noisy \in SUBSET Connectors
  /\ late = [ c \in Connectors |-> 0 ]
  /\ cursor = [ c \in Connectors |-> 0 ]
  /\ row = [ c \in Connectors |-> [ status |-> "none", cursor |-> 0 ] ]
  /\ known = {}
  /\ accepted = {}
  /\ worker = Resting
  /\ faults = 0

WorkerStep ==
  \/ StartCycle
  \/ EndCycle
  \/ GetLatestCursor
  \/ CreateRun
  \/ ScheduleSpider
  \/ FetchItems
  \/ Ingest
  \/ Reject
  \/ PersistCursor
  \/ FinishRun
  \/ ConfirmCursor
  \/ MarkFailed

Next ==
  \/ WorkerStep
  \/ RunFault
  \/ AttemptFault
  \/ Crash
  \/ \E c \in Connectors : Publish(c) \/ SpiderRuns(c) \/ LateSpiderRuns(c)

Spec == Init /\ [][Next]_vars

\* Each cycle ends by starting the timer of the next; Scrapyd gets to every job.
FairSpec ==
  /\ Spec
  /\ WF_vars(WorkerStep)
  /\ \A c \in Connectors : WF_vars(SpiderRuns(c)) /\ WF_vars(LateSpiderRuns(c))

------------------------------------------------------------------------------
(* Correctness *)

TypeOK ==
  /\ listing \in [ Connectors -> 0..Listed ]
  /\ seen \in [ Connectors -> 0..Listed ]
  /\ job \in [ Connectors -> JobStates ]
  /\ broken \subseteq Connectors
  /\ noisy \subseteq Connectors
  /\ late \in [ Connectors -> Nat ]
  /\ cursor \in [ Connectors -> 0..Listed ]
  /\ row \in [ Connectors -> RowStates ]
  /\ known \subseteq Items
  /\ accepted \subseteq Items
  /\ worker \in WorkerStates
  /\ faults \in Nat

\* The cursor never passes an item that has not become a case: however runs fail, are
\* retried and die, it moves only with a batch that was taken in whole.
CursorCovered ==
  \A c \in Connectors : \A i \in 1..cursor[c] : << c, i >> \in accepted

\* A run that is on record as a success has its cursor in the database: a crash between
\* the two writes leaves a run that looks unfinished, never one that looks done.
SuccessPersisted ==
  \A c \in Connectors : row[c].status = "success" => row[c].cursor = cursor[c]

\* A cursor never goes back.
CursorMonotone == [][ \A c \in Connectors : cursor'[c] >= cursor[c] ]_vars

\* A listing that can be delivered again has come to hold an item that is refused.
Refusing(c) == c \in noisy /\ \E i \in 1..listing[c] : << c, i >> \in Rejected

\* A connector is polled again and again, although items of connectors before it in the
\* registry are refused and the worker fails and dies a bounded number of times: only one
\* before it that cannot be scheduled can keep it waiting for ever, or refused items there
\* that a noisy listing delivers in every attempt.
ConnectorsPolled ==
  \A c \in Connectors :
    (\A b \in 1..c : b \notin broken)
      => []<>(worker.stage = "fetch" /\ worker.at = c) \/ <>(\E b \in 1..c - 1 : Refusing(b))
==============================================================================
