----------------------------- MODULE AuditChain -----------------------------
(***************************************************************************)
(* The audit log of one tenant (packages/audit/src/index.ts): every        *)
(* handler appends records that carry the hash of the record before them,  *)
(* and verifyChain walks the log in the order of (createdAt, id).          *)
(*                                                                         *)
(* append reads the last record, takes the time and inserts, with an await *)
(* between each; nothing keeps two requests from appending at once.        *)
(* AuditService.logAction swallows every failure of append.                *)
(***************************************************************************)
EXTENDS Naturals

CONSTANTS
  Writers,      \* requests that append; one record at a time each
  CaseRefs,     \* what a record is filed under
  Bodies,       \* what a record says: action, actor and payload
  Omitting,     \* those with a field of the payload left undefined
  Ids,          \* primary keys, random, in the order in which the database sorts them
  MaxTime       \* bound: milliseconds

ASSUME IdsAssumption == Ids \subseteq Nat

ASSUME OmittingAssumption == Omitting \subseteq Bodies

ASSUME TimeAssumption == MaxTime \in Nat

VARIABLES
  log,          \* rows of AuditLog
  clock,        \* milliseconds
  writers,      \* what each request holds between the awaits of append
  overlapped    \* history: two appends have been in flight at once

vars == << log, clock, writers, overlapped >>

------------------------------------------------------------------------------
(* Hashes and the chain *)

\* prevHash of the first record: null in the row, '' in the digest.
Start == << >>

\* computeHash. SHA-256 over the canonical form, taken to be free of collisions.
\* The case a record is filed under is not part of it.
Digest(prev, form, at) == << prev, form, at >>

\* canonicalize on the payload that a handler gives: what is undefined counts as null.
AsGiven(b) == << b, IF b \in Omitting THEN "null" ELSE "none" >>

\* And on the payload of a row: JSON has no undefined fields.
AsStored(b) == << b, "none" >>

\* Faulty: the log is read in the order of its keys.
BeforeByKey(x, y) == x.id < y.id

\* orderBy: [{ createdAt }, { id }].
Before(x, y) == x.at < y.at \/ (x.at = y.at /\ x.id < y.id)

\* The hash of the last record of L, as a set of one element.
Heads(L) ==
  IF L = {} THEN { Start }
  ELSE { x.hash : x \in { x \in L : \A y \in L : ~Before(x, y) } }

Earlier(L, x) == { y \in L : Before(y, x) }

\* Faulty: only the digests are recomputed.
IntactDigestOnly(L, x) == x.hash = Digest(x.prev, AsStored(x.body), x.at)

\* One round of the loop of verifyChain.
Intact(L, x) ==
  /\ x.prev \in Heads(Earlier(L, x))
  /\ x.hash = Digest(x.prev, AsStored(x.body), x.at)

\* verifyChain over the records that its filter lets through.
VerifyChain(L) == \A x \in L : Intact(L, x)

------------------------------------------------------------------------------
(* append *)

WriterStages == { "idle", "read", "stamped" }

\* What a request holds: the hash of the record it took for the last, and the time.
Resting == [ stage |-> "idle", head |-> Start, at |-> 0 ]

Finish(w) == writers' = [ writers EXCEPT ![w] = Resting ]

\* Two appends are in flight.
Overlap == \E v, w \in Writers : v # w /\ writers[v].stage # "idle" /\ writers[w].stage # "idle"

\* findFirst, in the descending order.
ReadHead(w) ==
  /\ writers[w].stage = "idle"
  /\ \E h \in Heads(log) :
       writers' = [ writers EXCEPT ![w] = [ Resting EXCEPT !.stage = "read", !.head = h ] ]
  /\ overlapped' = (overlapped \/ Overlap')
  /\ UNCHANGED << log, clock >>

\* new Date(), which both the row and the digest use.
Stamp(w) ==
  /\ writers[w].stage = "read"
  /\ writers' = [ writers EXCEPT ![w] = [ @ EXCEPT !.stage = "stamped", !.at = clock ] ]
  /\ UNCHANGED << log, clock, overlapped >>

\* Faulty: keys may be used twice.
UnusedOrNot(id) == TRUE

\* The database refuses a key that is in use.
Unused(id) == \A x \in log : x.id # id

\* Faulty: the row takes the time of its insertion, the digest that of the stamp.
InsertAtNow(w, id, c, b) ==
  /\ writers[w].stage = "stamped"
  /\ Unused(id)
  /\ log' = log \cup
       { [ id |-> id, at |-> clock, case |-> c, body |-> b, prev |-> writers[w].head,
           hash |-> Digest(writers[w].head, AsGiven(b), writers[w].at) ] }
  /\ Finish(w)
  /\ UNCHANGED << clock, overlapped >>

\* auditLog.create.
Insert(w, id, c, b) ==
  /\ writers[w].stage = "stamped"
  /\ Unused(id)
  /\ log' = log \cup
       { [ id |-> id, at |-> writers[w].at, case |-> c, body |-> b, prev |-> writers[w].head,
           hash |-> Digest(writers[w].head, AsGiven(b), writers[w].at) ] }
  /\ Finish(w)
  /\ UNCHANGED << clock, overlapped >>

\* A failed append is logged and forgotten; the handler goes on.
Lose(w) ==
  /\ writers[w].stage # "idle"
  /\ Finish(w)
  /\ UNCHANGED << log, clock, overlapped >>

Tick ==
  /\ clock < MaxTime
  /\ clock' = clock + 1
  /\ UNCHANGED << log, writers, overlapped >>

Init ==
  /\ log = {}
  /\ clock = 0
  /\ writers = [ w \in Writers |-> Resting ]
  /\ overlapped = FALSE

WriterStep(w) ==
  \/ ReadHead(w)
  \/ Stamp(w)
  \/ \E id \in Ids, c \in CaseRefs, b \in Bodies : Insert(w, id, c, b)
  \/ Lose(w)

Next == (\E w \in Writers : WriterStep(w)) \/ Tick

Spec == Init /\ [][Next]_vars

------------------------------------------------------------------------------
(* Correctness *)

Hashes == { Start } \cup { x.hash : x \in log }

Rows ==
  [ id : Ids, at : Nat, case : CaseRefs, body : Bodies, prev : Hashes, hash : Hashes ]

WriterStates == [ stage : WriterStages, head : Hashes, at : Nat ]

TypeOK ==
  /\ log \subseteq Rows
  /\ \A x, y \in log : x.id = y.id => x = y
  /\ clock \in Nat
  /\ writers \in [ Writers -> WriterStates ]
  /\ overlapped \in BOOLEAN

\* However appends interleave and whichever of them fail, every record carries its
\* own digest and hangs on a record that is in the log and is not younger: the log
\* is a tree whose root is the start, never a dangling or a circular chain.
Linked ==
  \A x \in log :
    /\ x.hash = Digest(x.prev, AsGiven(x.body), x.at)
    /\ x.prev # Start => \E y \in log : y.hash = x.prev /\ y.at <= x.at

\* No two records share a millisecond.
NoTies == \A x, y \in log : x.at = y.at => x = y

\* Every field that a handler gave is in the row.
Complete == \A x \in log : x.body \notin Omitting

\* Appends that follow one another, at different times, leave a log that verifies, also
\* when some of them fail, as long as no handler leaves a field of its payload undefined.
CalmLogVerifies == ~overlapped /\ NoTies /\ Complete => VerifyChain(log)

\* A log that verifies no longer does once a record is rewritten.
RewriteDetected ==
  VerifyChain(log) =>
    \A x \in log : \A b \in Bodies \ { x.body } :
      ~VerifyChain((log \ { x }) \cup { [ x EXCEPT !.body = b ] })

\* A log that verifies no longer does once a record is removed that others follow.
RemovalDetected ==
  VerifyChain(log) =>
    \A x \in log : (\E y \in log : Before(x, y)) => ~VerifyChain(log \ { x })
=============================================================================
