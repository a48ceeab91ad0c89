----------------------------- MODULE AuditProofs -----------------------------
(***************************************************************************)
(* Theorems about AuditChain, for any number of writers, records and times.*)
(***************************************************************************)
EXTENDS AuditChain, WellFoundedInduction, TLAPS

\* A set of natural numbers that is not empty has a least one.
LEMMA LeastNat ==
  ASSUME NEW T, T \subseteq Nat, T # {}
  PROVE  \E n \in T : \A m \in T : n <= m
  <1> DEFINE R == OpToRel(<, Nat)
  <1>1. IsWellFoundedOn(R, Nat)
    BY NatLessThanWellFounded, Zenon
  <1>2. ASSUME NEW m \in Nat, NEW n \in Nat, m < n PROVE << m, n >> \in R
    <2>1. << m, n >> \in Nat \X Nat /\ << m, n >>[1] < << m, n >>[2]
      BY <1>2
    <2>2. QED
      BY <2>1, Zenon DEF OpToRel
  <1> HIDE DEF R
  <1>3. PICK n \in T : \A m \in T : << m, n >> \notin R
    BY <1>1, WFMin
  <1>4. \A m \in T : ~ (m < n)
    BY <1>2, <1>3
  <1>5. QED
    BY <1>4

\* What Insert(w, id, c, b) adds to the log.
Entry(w, id, c, b) ==
  [ id |-> id, at |-> writers[w].at, case |-> c, body |-> b, prev |-> writers[w].head,
    hash |-> Digest(writers[w].head, AsGiven(b), writers[w].at) ]

LEMMA EntryFields ==
  \A w, id, c, b :
    LET x == Entry(w, id, c, b) IN
    /\ x.id = id /\ x.at = writers[w].at /\ x.case = c /\ x.body = b
    /\ x.prev = writers[w].head
    /\ x.hash = Digest(writers[w].head, AsGiven(b), writers[w].at)
  BY DEF Entry

\* A head is the start or the hash of a record of the log.
LEMMA HeadsAreHashes == \A h \in Heads(log) : h \in Hashes
  BY DEF Heads, Hashes

\* The times never run ahead of the clock, and a stamped record is to hang on a record
\* that is not younger.
Inv ==
  /\ TypeOK
  /\ Linked
  /\ \A x \in log : x.at <= clock
  /\ \A w \in Writers :
       /\ writers[w].at <= clock
       /\ writers[w].stage = "stamped" /\ writers[w].head # Start
            => \E y \in log : y.hash = writers[w].head /\ y.at <= writers[w].at

LEMMA RestingState ==
  /\ Resting.stage = "idle" /\ Resting.head = Start /\ Resting.at = 0
  /\ Resting \in WriterStates
  BY DEF Resting, WriterStates, WriterStages, Hashes

LEMMA InitInv == Init => Inv
  <1> SUFFICES ASSUME Init PROVE Inv
    OBVIOUS
  <1>1. log = {} /\ clock = 0 /\ overlapped \in BOOLEAN
    BY DEF Init
  <1>2. writers \in [ Writers -> WriterStates ]
    BY RestingState DEF Init
  <1>3. \A w \in Writers : writers[w] = Resting
    BY DEF Init
  <1>4. QED
    BY <1>1, <1>2, <1>3, RestingState DEF Inv, TypeOK, Linked

LEMMA NextInv == Inv /\ [Next]_vars => Inv'
  <1> SUFFICES ASSUME Inv, [Next]_vars PROVE Inv'
    OBVIOUS
  <1>0. TypeOK /\ writers \in [ Writers -> WriterStates ] /\ clock \in Nat
    BY DEF Inv, TypeOK
  <1>b. overlapped' \in BOOLEAN
    <2>1. overlapped \in BOOLEAN
      BY <1>0 DEF TypeOK
    <2>2. ASSUME NEW w \in Writers, ReadHead(w) PROVE overlapped' \in BOOLEAN
      BY <2>1, <2>2 DEF ReadHead, Overlap
    <2>3. QED
      BY <2>1, <2>2
      DEF Next, WriterStep, Stamp, Insert, Lose, Tick, vars
  \* A step that keeps the log and moves one writer to a good state keeps Inv.
  <1>m. ASSUME NEW w \in Writers, NEW s \in WriterStates,
               writers' = [ writers EXCEPT ![w] = s ],
               log' = log, clock' = clock, s.at <= clock,
               s.stage = "stamped" /\ s.head # Start
                 => \E y \in log : y.hash = s.head /\ y.at <= s.at
        PROVE  Inv'
    <2>1. WriterStates' = WriterStates /\ Rows' = Rows
      BY <1>m DEF WriterStates, Rows, Hashes
    <2>2. TypeOK'
      BY <1>0, <1>b, <1>m, <2>1 DEF TypeOK
    <2>3. Linked'
      BY <1>m DEF Inv, Linked
    <2>4. \A v \in Writers : writers'[v] = IF v = w THEN s ELSE writers[v]
      BY <1>0, <1>m
    <2>5. QED
      BY <1>m, <2>2, <2>3, <2>4 DEF Inv
  <1>1. ASSUME NEW w \in Writers, ReadHead(w) PROVE Inv'
    <2>1. PICK h \in Heads(log) :
            writers' = [ writers EXCEPT ![w] = [ Resting EXCEPT !.stage = "read", !.head = h ] ]
      BY <1>1 DEF ReadHead
    <2> DEFINE s == [ Resting EXCEPT !.stage = "read", !.head = h ]
    <2>2. h \in Hashes
      BY HeadsAreHashes
    <2>3. s \in WriterStates /\ s.stage = "read" /\ s.at = 0
      BY <2>2, RestingState DEF WriterStates, WriterStages
    <2> HIDE DEF s
    <2>4. writers' = [ writers EXCEPT ![w] = s ]
      BY <2>1 DEF s
    <2>5. s.at <= clock /\ log' = log /\ clock' = clock
      BY <1>0, <1>1, <2>3 DEF ReadHead
    <2>6. QED
      BY <1>m, <2>3, <2>4, <2>5
  <1>2. ASSUME NEW w \in Writers, Stamp(w) PROVE Inv'
    <2> DEFINE s == [ writers[w] EXCEPT !.stage = "stamped", !.at = clock ]
    <2>1. writers' = [ writers EXCEPT ![w] = s ]
      BY <1>2 DEF Stamp
    <2>2. s \in WriterStates /\ s.head = writers[w].head /\ s.at = clock
      BY <1>0 DEF WriterStates, WriterStages
    <2>3. writers[w].head \in Hashes /\ log' = log /\ clock' = clock /\ clock <= clock
      BY <1>0, <1>2 DEF Stamp, WriterStates
    <2>4. writers[w].head # Start => \E y \in log : y.hash = writers[w].head /\ y.at <= clock
      BY <2>3 DEF Inv, Hashes
    <2> HIDE DEF s
    <2>5. QED
      BY <1>m, <2>1, <2>2, <2>3, <2>4
  <1>3. ASSUME NEW w \in Writers, NEW id \in Ids, NEW c \in CaseRefs, NEW b \in Bodies,
               Insert(w, id, c, b)
        PROVE  Inv'
    <2> DEFINE e == Entry(w, id, c, b)
    <2>1. /\ writers[w].stage = "stamped" /\ Unused(id) /\ log' = log \cup { e }
          /\ clock' = clock /\ overlapped' = overlapped
          /\ writers' = [ writers EXCEPT ![w] = Resting ]
      BY <1>3 DEF Insert, Entry, Finish
    <2>2. /\ e.id = id /\ e.at = writers[w].at /\ e.case = c /\ e.body = b
          /\ e.prev = writers[w].head /\ e.hash = Digest(e.prev, AsGiven(e.body), e.at)
      BY EntryFields
    <2> HIDE DEF e
    <2>3. \A v \in Writers : writers'[v] = IF v = w THEN Resting ELSE writers[v]
      BY <1>0, <2>1
    <2>4. e.at \in Nat /\ e.at <= clock
      BY <1>0, <2>2 DEF Inv, WriterStates
    <2>5. TypeOK'
      <3>1. log' \subseteq Rows'
        <4>1. Hashes \subseteq Hashes' /\ e.hash \in Hashes' /\ e.prev \in Hashes
          BY <1>0, <2>1, <2>2 DEF Hashes, WriterStates
        <4>2. e \in Rows'
          BY <2>2, <2>4, <4>1 DEF Rows, Entry, e
        <4>3. Rows \subseteq Rows'
          BY <4>1 DEF Rows
        <4>4. QED
          BY <1>0, <2>1, <4>2, <4>3 DEF TypeOK
      <3>2. \A x, y \in log' : x.id = y.id => x = y
        BY <1>0, <2>1, <2>2 DEF TypeOK, Unused
      <3>3. Hashes \subseteq Hashes'
        BY <2>1 DEF Hashes
      <3>4. WriterStates \subseteq WriterStates'
        BY <3>3 DEF WriterStates
      <3>5. writers' \in [ Writers -> WriterStates' ]
        BY <1>0, <2>1, <3>4, RestingState
      <3>6. QED
        BY <1>0, <1>b, <2>1, <3>1, <3>2, <3>5 DEF TypeOK
    <2>6. Linked'
      BY <2>1, <2>2 DEF Inv, Linked
    <2>7. \A x \in log' : x.at <= clock'
      BY <2>1, <2>4 DEF Inv
    <2>8. ASSUME NEW v \in Writers
          PROVE  /\ writers'[v].at <= clock'
                 /\ writers'[v].stage = "stamped" /\ writers'[v].head # Start
                      => \E y \in log' : y.hash = writers'[v].head /\ y.at <= writers'[v].at
      <3>1. CASE v = w
        BY <1>0, <2>1, <2>3, <3>1, RestingState
      <3>2. CASE v # w
        BY <2>1, <2>3, <3>2 DEF Inv
      <3>3. QED
        BY <3>1, <3>2
    <2>9. QED
      BY <2>5, <2>6, <2>7, <2>8 DEF Inv
  <1>4. ASSUME NEW w \in Writers, Lose(w) PROVE Inv'
    <2>1. writers' = [ writers EXCEPT ![w] = Resting ] /\ log' = log /\ clock' = clock
      BY <1>4 DEF Lose, Finish
    <2>2. Resting.at <= clock /\ Resting.stage # "stamped"
      BY <1>0, RestingState
    <2>3. QED
      BY <1>m, <2>1, <2>2, RestingState
  <1>5. CASE Tick
    <2>1. WriterStates' = WriterStates /\ Rows' = Rows
      BY <1>5 DEF WriterStates, Rows, Hashes, Tick
    <2>2. TypeOK'
      BY <1>0, <1>5, <2>1 DEF Tick, TypeOK
    <2>3. \A w \in Writers : writers[w].at \in Nat
      BY <1>0 DEF WriterStates
    <2>4. \A x \in log : x.at \in Nat
      BY <1>0 DEF TypeOK, Rows
    <2>5. QED
      BY <1>0, <1>5, <2>2, <2>3, <2>4 DEF Tick, Inv, Linked
  <1>6. CASE UNCHANGED vars
    <2>1. WriterStates' = WriterStates /\ Rows' = Rows
      BY <1>6 DEF WriterStates, Rows, Hashes, vars
    <2>2. QED
      BY <1>6, <2>1 DEF vars, Inv, TypeOK, Linked
  <1>7. QED
    BY <1>1, <1>2, <1>3, <1>4, <1>5, <1>6 DEF Next, WriterStep

\* The log is well formed and keys are unique.
THEOREM TypeCorrect == Spec => []TypeOK
  <1>1. Inv => TypeOK
    BY DEF Inv
  <1>2. QED
    BY <1>1, InitInv, NextInv, PTL DEF Spec

\* However appends interleave or fail, no record hangs on nothing.
THEOREM LinkedHolds == Spec => []Linked
  <1>1. Inv => Linked
    BY DEF Inv
  <1>2. QED
    BY <1>1, InitInv, NextInv, PTL DEF Spec

------------------------------------------------------------------------------
(* Appends that do not overlap *)

\* A record that is younger than all of a log that verifies, and hangs on its last
\* one, leaves a log that verifies.
LEMMA AppendVerifies ==
  ASSUME NEW L, NEW e, \A x \in L \cup { e } : x.at \in Nat /\ x.id \in Nat,
         \A x \in L : x.at < e.at,
         VerifyChain(L), e.prev \in Heads(L), e.hash = Digest(e.prev, AsStored(e.body), e.at)
  PROVE  VerifyChain(L \cup { e })
  <1>1. Earlier(L \cup { e }, e) = L
    BY DEF Earlier, Before
  <1>2. ASSUME NEW x \in L PROVE Earlier(L \cup { e }, x) = Earlier(L, x)
    <2>1. ~Before(e, x)
      BY DEF Before
    <2>2. QED
      BY <2>1 DEF Earlier
  <1>3. QED
    BY <1>1, <1>2 DEF VerifyChain, Intact

\* Without an overlap, the one append in flight holds the hash of the last record,
\* and a time that no record has passed.
CalmInv ==
  /\ Inv
  /\ ~overlapped =>
       /\ ~Overlap
       /\ NoTies /\ Complete => VerifyChain(log)
       /\ \A w \in Writers : writers[w].stage # "idle" => writers[w].head \in Heads(log)
       /\ \A w \in Writers : writers[w].stage = "stamped"
                               => \A x \in log : x.at <= writers[w].at

LEMMA InitCalm == Init => CalmInv
  <1> SUFFICES ASSUME Init PROVE CalmInv
    OBVIOUS
  <1>1. Inv
    BY InitInv
  <1>2. \A w \in Writers : writers[w].stage = "idle"
    BY RestingState DEF Init
  <1>3. VerifyChain(log)
    BY DEF Init, VerifyChain
  <1>4. QED
    BY <1>1, <1>2, <1>3 DEF CalmInv, Overlap

LEMMA NextCalm == CalmInv /\ [Next]_vars => CalmInv'
  <1> SUFFICES ASSUME CalmInv, [Next]_vars, ~overlapped'
               PROVE  /\ ~Overlap'
                      /\ NoTies' /\ Complete' => VerifyChain(log')
                      /\ \A w \in Writers : writers'[w].stage # "idle"
                                              => writers'[w].head \in Heads(log')
                      /\ \A w \in Writers : writers'[w].stage = "stamped"
                                              => \A x \in log' : x.at <= writers'[w].at
    BY NextInv DEF CalmInv, NoTies, Complete, VerifyChain, Heads, Before, Intact, Earlier
  <1>0. /\ TypeOK /\ writers \in [ Writers -> WriterStates ] /\ clock \in Nat
        /\ \A x \in log : x.at <= clock /\ x.at \in Nat /\ x.id \in Nat
    <2>1. TypeOK /\ writers \in [ Writers -> WriterStates ] /\ clock \in Nat
      BY DEF CalmInv, Inv, TypeOK
    <2>2. \A x \in log : x.at \in Nat /\ x.id \in Nat
      BY <2>1, IdsAssumption DEF TypeOK, Rows
    <2>3. QED
      BY <2>1, <2>2 DEF CalmInv, Inv
  <1>1. ~overlapped
    BY DEF Next, WriterStep, ReadHead, Stamp, Insert, Lose, Tick, vars
  <1>2. /\ ~Overlap
        /\ NoTies /\ Complete => VerifyChain(log)
        /\ \A w \in Writers : writers[w].stage # "idle" => writers[w].head \in Heads(log)
        /\ \A w \in Writers : writers[w].stage = "stamped"
                                => \A x \in log : x.at <= writers[w].at
    BY <1>1 DEF CalmInv
  <1> DEFINE Goal == /\ ~Overlap'
                     /\ NoTies' /\ Complete' => VerifyChain(log')
                     /\ \A w \in Writers : writers'[w].stage # "idle"
                                             => writers'[w].head \in Heads(log')
                     /\ \A w \in Writers : writers'[w].stage = "stamped"
                                             => \A x \in log' : x.at <= writers'[w].at
  \* A step that keeps the log and moves one writer.
  <1>m. ASSUME NEW w \in Writers, NEW s, writers' = [ writers EXCEPT ![w] = s ], log' = log,
               s.stage = "idle" \/ ~Overlap',
               s.stage # "idle" => s.head \in Heads(log),
               s.stage = "stamped" => \A x \in log : x.at <= s.at
        PROVE  Goal
    <2>1. \A v \in Writers : writers'[v] = IF v = w THEN s ELSE writers[v]
      BY <1>0, <1>m
    <2>2. ~Overlap'
      BY <1>2, <1>m, <2>1 DEF Overlap
    <2>3. QED
      BY <1>2, <1>m, <2>1, <2>2 DEF NoTies, Complete
  <1>3. ASSUME NEW w \in Writers, ReadHead(w) PROVE Goal
    <2>1. PICK h \in Heads(log) :
            writers' = [ writers EXCEPT ![w] = [ Resting EXCEPT !.stage = "read", !.head = h ] ]
      BY <1>3 DEF ReadHead
    <2> DEFINE s == [ Resting EXCEPT !.stage = "read", !.head = h ]
    <2>2. s.stage = "read" /\ s.head = h
      BY RestingState DEF WriterStates
    <2>3. ~Overlap' /\ log' = log
      BY <1>3 DEF ReadHead
    <2> HIDE DEF s, Goal
    <2>4. writers' = [ writers EXCEPT ![w] = s ]
      BY <2>1 DEF s
    <2>5. QED
      BY <1>m, <2>2, <2>3, <2>4
  <1>4. ASSUME NEW w \in Writers, Stamp(w) PROVE Goal
    <2> DEFINE s == [ writers[w] EXCEPT !.stage = "stamped", !.at = clock ]
    <2>1. writers' = [ writers EXCEPT ![w] = s ] /\ log' = log /\ writers[w].stage = "read"
      BY <1>4 DEF Stamp
    <2>2. s.stage = "stamped" /\ s.head = writers[w].head /\ s.at = clock
      BY <1>0 DEF WriterStates
    <2> HIDE DEF s
    <2>3. \A v \in Writers : writers'[v] = IF v = w THEN s ELSE writers[v]
      BY <1>0, <2>1
    <2>4. ~Overlap'
      BY <1>2, <2>1, <2>2, <2>3 DEF Overlap
    <2>5. s.head \in Heads(log) /\ \A x \in log : x.at <= s.at
      BY <1>0, <1>2, <2>1, <2>2
    <2> HIDE DEF Goal
    <2>6. QED
      BY <1>m, <2>1, <2>4, <2>5
  <1>5. ASSUME NEW w \in Writers, NEW id \in Ids, NEW c \in CaseRefs, NEW b \in Bodies,
               Insert(w, id, c, b)
        PROVE  Goal
    <2> DEFINE e == Entry(w, id, c, b)
    <2>1. /\ writers[w].stage = "stamped" /\ Unused(id) /\ log' = log \cup { e }
          /\ writers' = [ writers EXCEPT ![w] = Resting ]
      BY <1>5 DEF Insert, Entry, Finish
    <2>2. /\ e.id = id /\ e.at = writers[w].at
          /\ e.prev = writers[w].head /\ e.hash = Digest(e.prev, AsGiven(e.body), e.at)
      BY EntryFields
    <2> HIDE DEF e
    <2>3. \A v \in Writers : writers'[v] = IF v = w THEN Resting ELSE writers[v]
      BY <1>0, <2>1
    <2>4. \A v \in Writers : writers'[v].stage = "idle"
      BY <1>2, <2>1, <2>3, RestingState DEF Overlap
    <2>5. ASSUME NoTies', Complete' PROVE VerifyChain(log')
      <3>1. NoTies /\ Complete /\ AsGiven(e.body) = AsStored(e.body)
        BY <2>1, <2>5 DEF NoTies, Complete, AsGiven, AsStored
      <3>2. e.prev \in Heads(log) /\ \A x \in log : x.at <= e.at
        BY <1>2, <2>1, <2>2
      <3>3. e \notin log
        BY <2>1, <2>2 DEF Unused
      <3>4. e.at \in Nat /\ e.id \in Nat
        BY <1>0, <2>2, IdsAssumption DEF WriterStates
      <3>5. \A x \in log : x.at < e.at
        BY <1>0, <2>1, <2>5, <3>2, <3>3, <3>4 DEF NoTies
      <3>6. VerifyChain(log) /\ e.hash = Digest(e.prev, AsStored(e.body), e.at)
        BY <1>2, <2>2, <3>1
      <3>7. QED
        BY <1>0, <2>1, <3>2, <3>4, <3>5, <3>6, AppendVerifies
    <2>6. QED
      BY <2>4, <2>5 DEF Overlap
  <1>6. ASSUME NEW w \in Writers, Lose(w) PROVE Goal
    <2>1. writers' = [ writers EXCEPT ![w] = Resting ] /\ log' = log
      BY <1>6 DEF Lose, Finish
    <2> HIDE DEF Goal
    <2>2. QED
      BY <1>m, <2>1, RestingState
  <1>7. CASE UNCHANGED << log, writers >>
    BY <1>2, <1>7 DEF Overlap, NoTies, Complete, VerifyChain
  <1>8. QED
    BY <1>3, <1>4, <1>5, <1>6, <1>7 DEF Next, WriterStep, Tick, vars

\* Appends that never overlap, at different times and with every field given, leave a log
\* that verifies.
THEOREM CalmLogVerifiesHolds == Spec => []CalmLogVerifies
  <1>1. CalmInv => CalmLogVerifies
    BY DEF CalmInv, CalmLogVerifies
  <1>2. QED
    BY <1>1, InitCalm, NextCalm, PTL DEF Spec

------------------------------------------------------------------------------
(* Tampering *)

\* A rewritten record keeps its hash, which is the digest of something else.
THEOREM RewriteDetectedHolds == Spec => []RewriteDetected
  <1>1. Inv => RewriteDetected
    <2> SUFFICES ASSUME Inv, VerifyChain(log), NEW x \in log, NEW b \in Bodies \ { x.body },
                        VerifyChain((log \ { x }) \cup { [ x EXCEPT !.body = b ] })
                 PROVE  FALSE
      BY DEF RewriteDetected
    <2> DEFINE z == [ x EXCEPT !.body = b ]
    <2>1. z.hash = x.hash /\ z.body = b /\ x \in Rows
      BY DEF Inv, TypeOK, Rows
    <2>2. z.hash = Digest(z.prev, AsStored(z.body), z.at)
      BY DEF VerifyChain, Intact
    <2>3. x.hash = Digest(x.prev, AsStored(x.body), x.at)
      BY DEF VerifyChain, Intact
    <2>4. QED
      BY <2>1, <2>2, <2>3 DEF Digest, AsStored
  <1>2. QED
    BY <1>1, InitInv, NextInv, PTL DEF Spec

\* A record that others follow has one that follows at once.
LEMMA Successor ==
  ASSUME TypeOK, NEW x \in log, NEW y \in log, Before(x, y)
  PROVE  \E z \in log : Before(x, z) /\ \A u \in log : Before(u, z) => u = x \/ Before(u, x)
  <1> DEFINE Later == { u \in log : Before(x, u) }
             Times == { u.at : u \in Later }
  <1>0. \A u \in log : u.at \in Nat /\ u.id \in Nat
    BY IdsAssumption DEF TypeOK, Rows
  <1>1. PICK t \in Times : \A m \in Times : t <= m
    BY <1>0, LeastNat
  <1> DEFINE First == { u \in Later : u.at = t }
             Keys == { u.id : u \in First }
  <1>2. Keys \subseteq Nat /\ Keys # {}
    BY <1>0, <1>1
  <1>3. PICK k \in Keys : \A m \in Keys : k <= m
    <2> HIDE DEF Keys
    <2>1. QED
      BY <1>2, LeastNat
  <1>4. PICK z \in First : z.id = k
    BY <1>3
  <1>5. ASSUME NEW u \in log, Before(u, z), u # x, ~Before(u, x) PROVE FALSE
    <2>1. u.id # x.id
      BY <1>5 DEF TypeOK
    <2>2. Before(x, u)
      BY <1>0, <1>5, <2>1 DEF Before
    <2>3. u.at \in Times /\ t <= u.at
      BY <1>1, <2>2
    <2>4. u.at = t /\ u.id < z.id
      BY <1>0, <1>4, <1>5, <2>3 DEF Before
    <2>5. u.id \in Keys
      BY <2>2, <2>4
    <2>6. QED
      BY <1>0, <1>3, <1>4, <2>4, <2>5
  <1>6. QED
    BY <1>4, <1>5

\* A removed record leaves its successor hanging on nothing, unless another record
\* has the very same hash, and so was written at the same time.
THEOREM RemovalDetectedHolds == Spec => [](NoTies => RemovalDetected)
  <1>1. Inv => (NoTies => RemovalDetected)
    <2> SUFFICES ASSUME Inv, NoTies, VerifyChain(log), NEW x \in log, NEW y \in log,
                        Before(x, y), VerifyChain(log \ { x })
                 PROVE  FALSE
      BY DEF RemovalDetected
    <2>0. TypeOK /\ \A u \in log : u.at \in Nat /\ u.id \in Nat
      BY IdsAssumption DEF Inv, TypeOK, Rows
    <2>1. PICK z \in log : Before(x, z) /\ \A u \in log : Before(u, z) => u = x \/ Before(u, x)
      BY <2>0, Successor
    <2>2. ~Before(x, x) /\ z # x
      BY <2>0, <2>1 DEF Before
    <2>3. x \in Earlier(log, z) /\ \A u \in Earlier(log, z) : u # x => Before(u, x)
      BY <2>1 DEF Earlier
    <2>4. Heads(Earlier(log, z)) = { x.hash }
      <3> DEFINE E == Earlier(log, z)
      <3>1. \A v \in E : ~Before(x, v)
        BY <2>0, <2>2, <2>3 DEF Before, Earlier
      <3>2. { u \in E : \A v \in E : ~Before(u, v) } = { x }
        BY <2>3, <3>1
      <3> HIDE DEF E
      <3>3. E # {} /\ Heads(E) = { u.hash : u \in { x } }
        BY <2>3, <3>2 DEF Heads, E
      <3>4. QED
        BY <3>3 DEF E
    <2>5. z.prev = x.hash
      BY <2>4 DEF VerifyChain, Intact
    <2>6. z.prev \in Heads(Earlier(log \ { x }, z))
      BY <2>2 DEF VerifyChain, Intact
    <2>7. \A u \in log : u.hash = Digest(u.prev, AsGiven(u.body), u.at)
      BY DEF Inv, Linked
    <2>8. x.hash # Start
      BY <2>7 DEF Digest, Start
    <2>9. PICK u \in log \ { x } : z.prev = u.hash
      BY <2>5, <2>6, <2>8 DEF Heads, Earlier
    <2>10. u.at = x.at
      <3>1. Digest(u.prev, AsGiven(u.body), u.at) = Digest(x.prev, AsGiven(x.body), x.at)
        BY <2>5, <2>7, <2>9
      <3>2. QED
        BY <3>1 DEF Digest
    <2>11. QED
      BY <2>9, <2>10 DEF NoTies
  <1>2. QED
    BY <1>1, InitInv, NextInv, PTL DEF Spec
=============================================================================
