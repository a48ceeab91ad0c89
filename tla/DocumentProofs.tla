--------------------------- MODULE DocumentProofs ---------------------------
(***************************************************************************)
(* Theorems about Documents, for any number of requests, checklists,       *)
(* uploads, reviews, packages and faults.                                  *)
(***************************************************************************)
EXTENDS Documents, TLAPS

\* A row has its file, and its status is PENDING until it is reviewed.
RowsStored ==
  /\ In(rows) \subseteq uploads
  /\ \A d \in In(rows) : ~rows[d].reviewed => rows[d].status = "PENDING"

\* A request that has stored a file has an id of its own that no row has yet.
OwnIds ==
  \A c \in Clerks :
    clerks[c].at = "stored" =>
      /\ clerks[c].doc \in uploads /\ clerks[c].doc \notin In(rows)
      /\ \A o \in Clerks : clerks[o].at = "stored" /\ clerks[o].doc = clerks[c].doc => o = c

\* What the other requests know: the row that they have written, the documents that they
\* have read, the package that they have written.
Knowledge ==
  \A c \in Clerks :
    /\ clerks[c].at \in { "changed", "recorded", "answered" } => clerks[c].doc \in In(rows)
    /\ clerks[c].at \in { "listed", "gathered" } => In(clerks[c].list) \subseteq uploads
    /\ clerks[c].at = "written" => clerks[c].pkg \in Packages /\ zips[clerks[c].pkg].written

\* A printed checklist leaves items of these rows open only where it is old.
Told(list, shows) ==
  shows.known =>
    \A d \in Docs : Counts(list[d]) /\ list[d].type \in Required \ shows.done => d \in shows.late

\* What an export that has one of its two reads knows of the rows as they are now, and
\* what it knows of the two once it has both.
Reads ==
  \A c \in Clerks :
    /\ clerks[c].at = "listed" =>
         \A d \in Docs : clerks[c].list[d] # rows[d] => d \in clerks[c].shows.late
    /\ clerks[c].at = "checked" => Told(rows, clerks[c].shows)
    /\ clerks[c].at = "gathered" => Told(clerks[c].list, clerks[c].shows)

Inv ==
  /\ TypeOK
  /\ RowsStored /\ OwnIds /\ Knowledge /\ Reads
  /\ PackagesTold /\ PackagesCarryFiles /\ ArtifactsHaveFiles
  /\ AnswerSeesUpload /\ VerdictsOnTimeline

------------------------------------------------------------------------------
(* Types and updates *)

LEMMA IdleState ==
  /\ NoList \in [ Docs -> Rows ] /\ In(NoList) = {}
  /\ Idle \in Jobs /\ Idle.at = "idle" /\ Idle.doc = 0 /\ Idle.says = "UPLOADED"
  /\ NoChecklist \in Checklists
  /\ NoZip \in Zips /\ ~NoZip.written /\ In(NoZip.list) = {} /\ NoZip.files = {}
  <1>1. NoRow \in Rows /\ NoRow.status = "none"
    BY DEF NoRow, Rows, Labels
  <1>2. NoList \in [ Docs -> Rows ] /\ In(NoList) = {}
    BY <1>1 DEF NoList, In
  <1>5. NoChecklist \in Checklists
    BY DEF NoChecklist, Checklists
  <1>3. Idle \in Jobs /\ Idle.at = "idle" /\ Idle.doc = 0 /\ Idle.says = "UPLOADED"
    BY <1>2, <1>5 DEF Idle, Jobs, Stages, Labels
  <1>4. NoZip \in Zips /\ ~NoZip.written /\ NoZip.list = NoList /\ NoZip.files = {}
    BY <1>2, <1>5 DEF NoZip, Zips
  <1> QED
    BY <1>2, <1>3, <1>4, <1>5

LEMMA SetClerkLemma ==
  ASSUME clerks \in [ Clerks -> Jobs ], NEW c \in Clerks, NEW job \in Jobs, SetClerk(c, job)
  PROVE  /\ clerks' \in [ Clerks -> Jobs ]
         /\ clerks'[c] = job
         /\ \A o \in Clerks : o # c => clerks'[o] = clerks[o]
  BY DEF SetClerk

\* The same for a request that has written a row: the others are where they were, and those
\* between two reads note it.
Noted(c, job, d) ==
  /\ clerks' \in [ Clerks -> Jobs ]
  /\ clerks'[c] = job
  /\ \A o \in Clerks : o # c =>
       /\ clerks'[o].at = clerks[o].at /\ clerks'[o].doc = clerks[o].doc
       /\ clerks'[o].says = clerks[o].says /\ clerks'[o].done = clerks[o].done
       /\ clerks'[o].list = clerks[o].list /\ clerks'[o].pkg = clerks[o].pkg
       /\ clerks'[o].shows.known = clerks[o].shows.known
       /\ clerks'[o].shows.done = clerks[o].shows.done
       /\ clerks'[o].shows.late = IF clerks[o].at \in { "listed", "checked" }
                                 THEN clerks[o].shows.late \cup { d } ELSE clerks[o].shows.late

LEMMA SetWriterLemma ==
  ASSUME clerks \in [ Clerks -> Jobs ], NEW c \in Clerks, NEW job \in Jobs, NEW d \in Docs,
         SetWriter(c, job, d)
  PROVE  Noted(c, job, d)
  <1> DEFINE note(o) == Noting(clerks[o], d)
  <1>1. ASSUME NEW o \in Clerks
        PROVE  /\ note(o) \in Jobs /\ note(o).at = clerks[o].at /\ note(o).doc = clerks[o].doc
               /\ note(o).says = clerks[o].says /\ note(o).done = clerks[o].done
               /\ note(o).list = clerks[o].list /\ note(o).pkg = clerks[o].pkg
               /\ note(o).shows.known = clerks[o].shows.known
               /\ note(o).shows.done = clerks[o].shows.done
               /\ note(o).shows.late = IF clerks[o].at \in { "listed", "checked" }
                                       THEN clerks[o].shows.late \cup { d }
                                       ELSE clerks[o].shows.late
    <2>1. clerks[o] \in Jobs
      OBVIOUS
    <2> QED
      BY <2>1 DEF Noting, Jobs, Checklists
  <1>2. clerks' = [ o \in Clerks |-> IF o = c THEN job ELSE note(o) ]
    BY DEF SetWriter
  <1> HIDE DEF note
  <1> QED
    BY <1>1, <1>2 DEF Noted

LEMMA CompletedType ==
  ASSUME NEW list
  PROVE  Completed(list) \in SUBSET Required
  BY DEF Completed

\* Any step that changes one row only, to a row, keeps the set of rows but for that one.
LEMMA RowLemma ==
  ASSUME rows \in [ Docs -> Rows ], NEW d \in Docs, NEW row \in Rows, row.status # "none",
         rows' = [ rows EXCEPT ![d] = row ]
  PROVE  /\ rows' \in [ Docs -> Rows ]
         /\ rows'[d] = row
         /\ \A e \in Docs : e # d => rows'[e] = rows[e]
         /\ In(rows)' = In(rows) \cup { d }
  BY DEF In

------------------------------------------------------------------------------
LEMMA InitInv == Init => Inv
  <1> SUFFICES ASSUME Init PROVE Inv
    OBVIOUS
  <1> USE IdleState DEF Init
  <1>1. TypeOK
    BY BoundAssumption DEF TypeOK
  <1>2. RowsStored /\ OwnIds /\ Knowledge /\ Reads
    BY DEF RowsStored, OwnIds, Knowledge, Reads
  <1>3. PackagesTold /\ PackagesCarryFiles
    BY DEF PackagesTold, PackagesCarryFiles
  <1>5. ArtifactsHaveFiles
    BY DEF ArtifactsHaveFiles
  <1>4. AnswerSeesUpload /\ VerdictsOnTimeline
    BY DEF AnswerSeesUpload, VerdictsOnTimeline
  <1> QED
    BY <1>1, <1>2, <1>3, <1>4, <1>5 DEF Inv

\* A step that leaves the packages alone.
LEMMA PackagesStay ==
  ASSUME Inv, UNCHANGED packages
  PROVE  PackagesTold' /\ PackagesCarryFiles' /\ ArtifactsHaveFiles'
  BY DEF Inv, packages, PackagesTold, PackagesCarryFiles, ArtifactsHaveFiles

\* A step that changes no row and after which a request holds no more than before.
LEMMA HandOver ==
  ASSUME Inv, NEW c \in Clerks, NEW job \in Jobs, SetClerk(c, job),
         UNCHANGED << rows, uploads, zips >>,
         job.at # "stored",
         job.at \in { "changed", "recorded", "answered" } => job.doc \in In(rows),
         job.at \in { "listed", "gathered" } => In(job.list) \subseteq uploads,
         job.at # "written"
  PROVE  RowsStored' /\ OwnIds' /\ Knowledge'
  <1>1. clerks' \in [ Clerks -> Jobs ] /\ clerks'[c] = job
        /\ \A o \in Clerks : o # c => clerks'[o] = clerks[o]
    BY SetClerkLemma DEF Inv, TypeOK
  <1>2. RowsStored'
    BY DEF Inv, RowsStored, In
  <1>3. OwnIds'
    BY <1>1 DEF Inv, OwnIds, In
  <1>4. Knowledge'
    BY <1>1 DEF Inv, Knowledge, In
  <1> QED
    BY <1>2, <1>3, <1>4

\* The same for what exports have read.
LEMMA ReadsStay ==
  ASSUME Inv, NEW c \in Clerks, NEW job \in Jobs, SetClerk(c, job), UNCHANGED rows,
         job.at = "listed" => \A d \in Docs : job.list[d] # rows[d] => d \in job.shows.late,
         job.at = "checked" => Told(rows, job.shows),
         job.at = "gathered" => Told(job.list, job.shows)
  PROVE  Reads'
  <1>1. clerks'[c] = job /\ (\A o \in Clerks : o # c => clerks'[o] = clerks[o]) /\ rows' = rows
    BY SetClerkLemma DEF Inv, TypeOK
  <1>2. Reads
    BY DEF Inv
  <1> QED
    BY <1>1, <1>2 DEF Reads, Told

\* And a row that is written: whoever is between two reads notes it.
LEMMA ReadsNote ==
  ASSUME Inv, NEW c \in Clerks, NEW job \in Jobs, NEW d \in Docs, SetWriter(c, job, d),
         job.at = "changed", \A e \in Docs : e # d => rows'[e] = rows[e]
  PROVE  Reads'
  <1>1. Noted(c, job, d)
    BY SetWriterLemma, Zenon DEF Inv, TypeOK
  <1>2. Reads
    BY DEF Inv
  <1> SUFFICES ASSUME NEW o \in Clerks
               PROVE  /\ clerks'[o].at = "listed" =>
                           \A e \in Docs : clerks'[o].list[e] # rows'[e] => e \in clerks'[o].shows.late
                      /\ clerks'[o].at = "checked" => Told(rows', clerks'[o].shows)
                      /\ clerks'[o].at = "gathered" => Told(clerks'[o].list, clerks'[o].shows)
    BY DEF Reads, Told
  <1>3. CASE o = c
    BY <1>1, <1>3 DEF Noted
  <1>4. CASE o # c
    <2>1. CASE clerks[o].at = "listed"
      BY <1>1, <1>2, <1>4, <2>1 DEF Reads, Noted
    <2>2. CASE clerks[o].at = "checked"
      BY <1>1, <1>2, <1>4, <2>2 DEF Reads, Told, Noted
    <2>3. CASE clerks[o].at = "gathered"
      BY <1>1, <1>2, <1>4, <2>3 DEF Reads, Told, Noted
    <2> QED
      BY <1>1, <1>4, <2>1, <2>2, <2>3 DEF Noted
  <1> QED
    BY <1>3, <1>4

\* The same for what answers show: the step is no answer to an upload.
LEMMA AnswersStay ==
  ASSUME Inv, NEW c \in Clerks, NEW job \in Jobs, SetClerk(c, job),
         UNCHANGED rows, job.at # "answered"
  PROVE  AnswerSeesUpload'
  <1>1. clerks'[c] = job /\ \A o \in Clerks : o # c => clerks'[o] = clerks[o]
    BY SetClerkLemma DEF Inv, TypeOK
  <1> QED
    BY <1>1 DEF Inv, AnswerSeesUpload

\* And for the timeline: the step is not by a request that has still to tell.
LEMMA TimelineStays ==
  ASSUME Inv, NEW c \in Clerks, NEW job \in Jobs, SetClerk(c, job), clerks[c].at # "changed",
         UNCHANGED << rows, events, unrecorded >>
  PROVE  VerdictsOnTimeline'
  <1>1. \A o \in Clerks : o # c => clerks'[o] = clerks[o]
    BY SetClerkLemma DEF Inv, TypeOK
  <1> QED
    BY <1>1 DEF Inv, VerdictsOnTimeline, In

------------------------------------------------------------------------------
(* uploadDocument *)

LEMMA StoreFileInv ==
  ASSUME Inv, NEW c \in Clerks, NEW d \in Docs, NEW type \in Types, NEW guess \in Labels,
         StoreFile(c, d, type, guess)
  PROVE  Inv'
  <1> DEFINE job == [ Idle EXCEPT !.at = "stored", !.doc = d, !.type = Known(type, guess) ]
  <1>1. job \in Jobs /\ job.at = "stored" /\ job.doc = d
    BY IdleState DEF StoreFile, Permitted, Known, Jobs, Stages
  <1>2. SetClerk(c, job) /\ clerks[c].at = "idle" /\ uploads' = uploads \cup { d } /\ NextDoc(d)
        /\ UNCHANGED << rows, events, unrecorded, reviews, packages, faults >>
    BY DEF StoreFile
  <1> HIDE DEF job
  <1>3. clerks' \in [ Clerks -> Jobs ] /\ clerks'[c] = job
        /\ \A o \in Clerks : o # c => clerks'[o] = clerks[o]
    BY <1>1, <1>2, SetClerkLemma DEF Inv, TypeOK
  <1>4. d \notin uploads /\ d \notin In(rows) /\ \A o \in Clerks : clerks[o].doc # d
    BY <1>2 DEF NextDoc, Claimed
  <1>5. TypeOK'
    BY <1>2, <1>3 DEF Inv, TypeOK, packages
  <1>6. RowsStored'
    BY <1>2 DEF Inv, RowsStored, In
  <1>7. OwnIds'
    BY <1>1, <1>2, <1>3, <1>4 DEF Inv, OwnIds, In
  <1>8. Knowledge'
    BY <1>1, <1>2, <1>3 DEF Inv, Knowledge, In, packages
  <1>9. AnswerSeesUpload' /\ VerdictsOnTimeline' /\ Reads'
    BY <1>1, <1>2, AnswersStay, TimelineStays, ReadsStay
  <1> QED
    BY <1>2, <1>5, <1>6, <1>7, <1>8, <1>9, PackagesStay DEF Inv

LEMMA CreateRowInv ==
  ASSUME Inv, NEW c \in Clerks, CreateRow(c)
  PROVE  Inv'
  <1> DEFINE d == clerks[c].doc
             row == [ status |-> "PENDING", type |-> clerks[c].type, reviewed |-> FALSE ]
             job == [ Idle EXCEPT !.at = "changed", !.doc = d ]
  <1>1. clerks[c].at = "stored" /\ SetWriter(c, job, d) /\ rows' = [ rows EXCEPT ![d] = row ]
        /\ UNCHANGED << uploads, events, unrecorded, reviews, packages, faults >>
    BY DEF CreateRow
  <1>2. d \in uploads /\ d \notin In(rows) /\ d \in Docs
        /\ \A o \in Clerks : clerks[o].at = "stored" /\ clerks[o].doc = d => o = c
    BY <1>1 DEF Inv, OwnIds, TypeOK
  <1>3. row \in Rows /\ row.status = "PENDING" /\ ~row.reviewed
    BY DEF Inv, TypeOK, Jobs, Rows, Verdicts
  <1>4. job \in Jobs /\ job.at = "changed" /\ job.doc = d /\ job.says = "UPLOADED"
    BY <1>2, IdleState DEF Jobs, Stages
  <1> HIDE DEF d, row, job
  <1>5. clerks' \in [ Clerks -> Jobs ] /\ clerks'[c] = job
        /\ \A o \in Clerks : o # c =>
             /\ clerks'[o].at = clerks[o].at /\ clerks'[o].doc = clerks[o].doc
             /\ clerks'[o].says = clerks[o].says /\ clerks'[o].done = clerks[o].done
             /\ clerks'[o].list = clerks[o].list /\ clerks'[o].pkg = clerks[o].pkg
    <2>1. Noted(c, job, d)
      BY <1>1, <1>2, <1>4, SetWriterLemma, Zenon DEF Inv, TypeOK
    <2> QED
      BY <2>1 DEF Noted
  <1>6. rows' \in [ Docs -> Rows ] /\ rows'[d] = row
        /\ (\A e \in Docs : e # d => rows'[e] = rows[e])
        /\ In(rows)' = In(rows) \cup { d }
    BY <1>1, <1>2, <1>3, RowLemma DEF Inv, TypeOK
  <1>7. In(rows) \subseteq Docs
    BY DEF In
  <1>8. TypeOK'
    BY <1>1, <1>5, <1>6 DEF Inv, TypeOK, packages
  <1>9. RowsStored'
    BY <1>1, <1>2, <1>3, <1>6, <1>7 DEF Inv, RowsStored
  <1>10. OwnIds'
    <2>1. \A o \in Clerks : clerks'[o].at = "stored" =>
            o # c /\ clerks[o].at = "stored" /\ clerks'[o].doc = clerks[o].doc
      BY <1>4, <1>5
    <2>2. \A o \in Clerks : clerks[o].at = "stored" /\ o # c => clerks[o].doc # d
      BY <1>2
    <2>3. uploads' = uploads
      BY <1>1
    <2> SUFFICES ASSUME NEW o \in Clerks, clerks'[o].at = "stored"
                 PROVE  /\ clerks'[o].doc \in uploads' /\ clerks'[o].doc \notin In(rows)'
                        /\ \A q \in Clerks : clerks'[q].at = "stored"
                                             /\ clerks'[q].doc = clerks'[o].doc => q = o
      BY DEF OwnIds, In
    <2>4. o # c /\ clerks[o].at = "stored" /\ clerks'[o].doc = clerks[o].doc
      BY <2>1
    <2>5. clerks[o].doc \in uploads /\ clerks[o].doc \notin In(rows) /\ clerks[o].doc # d
      BY <2>2, <2>4 DEF Inv, OwnIds
    <2>6. \A q \in Clerks : clerks'[q].at = "stored" /\ clerks'[q].doc = clerks[o].doc => q = o
      BY <2>1, <2>4 DEF Inv, OwnIds
    <2> QED
      BY <1>6, <2>3, <2>4, <2>5, <2>6
  <1>11. Knowledge'
    <2> SUFFICES ASSUME NEW o \in Clerks
                 PROVE  /\ clerks'[o].at \in { "changed", "recorded", "answered" }
                             => clerks'[o].doc \in In(rows)'
                        /\ clerks'[o].at \in { "listed", "gathered" } => In(clerks'[o].list) \subseteq uploads'
                        /\ clerks'[o].at = "written"
                             => clerks'[o].pkg \in Packages /\ zips'[clerks'[o].pkg].written
      BY DEF Knowledge, In
    <2>1. CASE o = c
      BY <1>4, <1>5, <1>6, <2>1
    <2>2. CASE o # c
      BY <1>1, <1>5, <1>6, <2>2 DEF Inv, Knowledge, packages
    <2> QED
      BY <2>1, <2>2
  <1>12. AnswerSeesUpload'
    <2> SUFFICES ASSUME NEW o \in Clerks, clerks'[o].at = "answered", clerks'[o].says = "UPLOADED",
                        ~rows'[clerks'[o].doc].reviewed, NEW t \in Required,
                        rows'[clerks'[o].doc].type = t
                 PROVE  t \in clerks'[o].done
      BY DEF AnswerSeesUpload
    <2>1. o # c
      BY <1>4, <1>5
    <2>2. /\ clerks[o].at = "answered" /\ clerks[o].says = "UPLOADED"
          /\ clerks'[o].doc = clerks[o].doc /\ clerks'[o].done = clerks[o].done
          /\ clerks[o].doc \in In(rows)
      BY <1>5, <2>1 DEF Inv, Knowledge
    <2>3. rows'[clerks[o].doc] = rows[clerks[o].doc]
      BY <1>2, <1>6, <1>7, <2>2
    <2> QED
      BY <2>2, <2>3 DEF Inv, AnswerSeesUpload
  <1>13. VerdictsOnTimeline'
    <2> SUFFICES ASSUME NEW e \in In(rows)', e \notin unrecorded',
                        NEW says, says = IF rows'[e].reviewed THEN rows'[e].status ELSE "UPLOADED"
                 PROVE  \/ [ doc |-> e, says |-> says ] \in events'
                        \/ \E o \in Clerks : clerks'[o].at = "changed" /\ clerks'[o].doc = e
                                               /\ clerks'[o].says = says
      BY DEF VerdictsOnTimeline
    <2>1. CASE e = d
      BY <1>3, <1>4, <1>5, <1>6, <2>1
    <2>2. CASE e # d
      <3>1. e \in In(rows) \ unrecorded /\ rows'[e] = rows[e]
        BY <1>1, <1>6, <1>7, <2>2
      <3>2. \/ [ doc |-> e, says |-> says ] \in events
            \/ \E o \in Clerks : clerks[o].at = "changed" /\ clerks[o].doc = e
                                   /\ clerks[o].says = says
        BY <3>1 DEF Inv, VerdictsOnTimeline
      <3> QED
        BY <1>1, <1>5, <3>2
    <2> QED
      BY <2>1, <2>2
  <1>14. Reads'
    BY <1>1, <1>2, <1>4, <1>6, ReadsNote
  <1> QED
    BY <1>14, <1>1, <1>8, <1>9, <1>10, <1>11, <1>12, <1>13, PackagesStay DEF Inv

------------------------------------------------------------------------------
(* reviewDocument *)

LEMMA ReviewInv ==
  ASSUME Inv, NEW c \in Clerks, NEW d \in Docs, NEW verdict \in Verdicts, NEW type \in Types,
         Review(c, d, verdict, type)
  PROVE  Inv'
  <1> DEFINE row == [ rows[d] EXCEPT !.status = verdict, !.reviewed = TRUE,
                                     !.type = Known(type, rows[d].type) ]
             job == [ Idle EXCEPT !.at = "changed", !.doc = d, !.says = verdict ]
  <1>1. clerks[c].at = "idle" /\ d \in In(rows) /\ SetWriter(c, job, d)
        /\ rows' = [ rows EXCEPT ![d] = row ] /\ reviews < MaxReviews /\ reviews' = reviews + 1
        /\ UNCHANGED << uploads, events, unrecorded, packages, faults >>
    BY DEF Review
  <1>2. row \in Rows /\ row.status = verdict /\ row.reviewed = TRUE /\ verdict # "none"
    BY DEF Inv, TypeOK, Review, Permitted, Known, Rows, Verdicts
  <1>3. job \in Jobs /\ job.at = "changed" /\ job.doc = d /\ job.says = verdict
    BY IdleState DEF Jobs, Stages
  <1> HIDE DEF row, job
  <1>4. clerks' \in [ Clerks -> Jobs ] /\ clerks'[c] = job
        /\ \A o \in Clerks : o # c =>
             /\ clerks'[o].at = clerks[o].at /\ clerks'[o].doc = clerks[o].doc
             /\ clerks'[o].says = clerks[o].says /\ clerks'[o].done = clerks[o].done
             /\ clerks'[o].list = clerks[o].list /\ clerks'[o].pkg = clerks[o].pkg
    <2>1. Noted(c, job, d)
      BY <1>1, <1>3, SetWriterLemma, Zenon DEF Inv, TypeOK
    <2> QED
      BY <2>1 DEF Noted
  <1>5. rows' \in [ Docs -> Rows ] /\ rows'[d] = row
        /\ (\A e \in Docs : e # d => rows'[e] = rows[e])
        /\ In(rows)' = In(rows)
    <2>1. rows \in [ Docs -> Rows ] /\ row.status # "none"
      BY <1>2 DEF Inv, TypeOK
    <2>2. rows' \in [ Docs -> Rows ] /\ rows'[d] = row
          /\ (\A e \in Docs : e # d => rows'[e] = rows[e])
          /\ In(rows)' = In(rows) \cup { d }
      BY <1>1, <1>2, <2>1, RowLemma
    <2> QED
      BY <1>1, <2>2
  <1>6. In(rows) \subseteq Docs
    BY DEF In
  <1>7. TypeOK'
    BY <1>1, <1>4, <1>5, BoundAssumption DEF Inv, TypeOK, packages
  <1>8. RowsStored'
    BY <1>1, <1>2, <1>5, <1>6 DEF Inv, RowsStored
  <1>9. OwnIds'
    BY <1>1, <1>3, <1>4, <1>5 DEF Inv, OwnIds
  <1>10. Knowledge'
    <2> SUFFICES ASSUME NEW o \in Clerks
                 PROVE  /\ clerks'[o].at \in { "changed", "recorded", "answered" }
                             => clerks'[o].doc \in In(rows)'
                        /\ clerks'[o].at \in { "listed", "gathered" } => In(clerks'[o].list) \subseteq uploads'
                        /\ clerks'[o].at = "written"
                             => clerks'[o].pkg \in Packages /\ zips'[clerks'[o].pkg].written
      BY DEF Knowledge, In
    <2>1. CASE o = c
      BY <1>1, <1>3, <1>4, <1>5, <2>1
    <2>2. CASE o # c
      BY <1>1, <1>4, <1>5, <2>2 DEF Inv, Knowledge, packages
    <2> QED
      BY <2>1, <2>2
  <1>11. AnswerSeesUpload'
    <2> SUFFICES ASSUME NEW o \in Clerks, clerks'[o].at = "answered", clerks'[o].says = "UPLOADED",
                        ~rows'[clerks'[o].doc].reviewed, NEW t \in Required,
                        rows'[clerks'[o].doc].type = t
                 PROVE  t \in clerks'[o].done
      BY DEF AnswerSeesUpload
    <2>1. o # c
      BY <1>3, <1>4
    <2>2. /\ clerks[o].at = "answered" /\ clerks[o].says = "UPLOADED"
          /\ clerks'[o].doc = clerks[o].doc /\ clerks'[o].done = clerks[o].done
          /\ clerks[o].doc \in In(rows)
      BY <1>4, <2>1 DEF Inv, Knowledge
    <2>3. clerks[o].doc # d
      BY <1>2, <1>5, <2>2
    <2>4. rows'[clerks[o].doc] = rows[clerks[o].doc]
      BY <1>5, <1>6, <2>2, <2>3
    <2> QED
      BY <2>2, <2>4 DEF Inv, AnswerSeesUpload
  <1>12. VerdictsOnTimeline'
    <2> SUFFICES ASSUME NEW e \in In(rows)', e \notin unrecorded',
                        NEW says, says = IF rows'[e].reviewed THEN rows'[e].status ELSE "UPLOADED"
                 PROVE  \/ [ doc |-> e, says |-> says ] \in events'
                        \/ \E o \in Clerks : clerks'[o].at = "changed" /\ clerks'[o].doc = e
                                               /\ clerks'[o].says = says
      BY DEF VerdictsOnTimeline
    <2>1. CASE e = d
      BY <1>2, <1>3, <1>4, <1>5, <2>1
    <2>2. CASE e # d
      <3>1. e \in In(rows) \ unrecorded /\ rows'[e] = rows[e]
        BY <1>1, <1>5, <1>6, <2>2
      <3>2. \/ [ doc |-> e, says |-> says ] \in events
            \/ \E o \in Clerks : clerks[o].at = "changed" /\ clerks[o].doc = e
                                   /\ clerks[o].says = says
        BY <3>1 DEF Inv, VerdictsOnTimeline
      <3> QED
        BY <1>1, <1>4, <3>2
    <2> QED
      BY <2>1, <2>2
  <1>13. Reads'
    BY <1>1, <1>3, <1>5, ReadsNote
  <1> QED
    BY <1>13, <1>1, <1>7, <1>8, <1>9, <1>10, <1>11, <1>12, PackagesStay DEF Inv

------------------------------------------------------------------------------
(* The event and the answer *)

LEMMA RecordEventInv ==
  ASSUME Inv, NEW c \in Clerks, RecordEvent(c)
  PROVE  Inv'
  <1> DEFINE entry == [ doc |-> clerks[c].doc, says |-> clerks[c].says ]
             job == [ clerks[c] EXCEPT !.at = "recorded" ]
  <1>1. clerks[c].at = "changed" /\ SetClerk(c, job) /\ events' = events \cup { entry }
        /\ UNCHANGED << rows, uploads, unrecorded, reviews, packages, faults >>
    BY DEF RecordEvent
  <1>2. clerks[c].doc \in In(rows) /\ In(rows) \subseteq Docs
    BY <1>1 DEF Inv, Knowledge, In
  <1>3. job \in Jobs /\ job.at = "recorded" /\ job.doc = clerks[c].doc
    BY DEF Inv, TypeOK, Jobs, Stages
  <1>4. entry \in Entries
    BY <1>2 DEF Inv, TypeOK, Jobs, Entries
  <1> HIDE DEF job
  <1>5. clerks' \in [ Clerks -> Jobs ] /\ clerks'[c] = job
        /\ \A o \in Clerks : o # c => clerks'[o] = clerks[o]
    BY <1>1, <1>3, SetClerkLemma DEF Inv, TypeOK
  <1>6. TypeOK'
    BY <1>1, <1>4, <1>5 DEF Inv, TypeOK, packages
  <1>7. RowsStored' /\ OwnIds' /\ Knowledge' /\ Reads' /\ AnswerSeesUpload'
    BY <1>1, <1>2, <1>3, HandOver, ReadsStay, AnswersStay DEF packages
  <1>8. VerdictsOnTimeline'
    <2> SUFFICES ASSUME NEW e \in In(rows)', e \notin unrecorded',
                        NEW says, says = IF rows'[e].reviewed THEN rows'[e].status ELSE "UPLOADED"
                 PROVE  \/ [ doc |-> e, says |-> says ] \in events'
                        \/ \E o \in Clerks : clerks'[o].at = "changed" /\ clerks'[o].doc = e
                                               /\ clerks'[o].says = says
      BY DEF VerdictsOnTimeline
    <2>1. \/ [ doc |-> e, says |-> says ] \in events
          \/ \E o \in Clerks : clerks[o].at = "changed" /\ clerks[o].doc = e
                                 /\ clerks[o].says = says
      BY <1>1 DEF Inv, VerdictsOnTimeline, In
    <2> QED
      BY <1>1, <1>5, <2>1
  <1> QED
    BY <1>1, <1>6, <1>7, <1>8, PackagesStay DEF Inv

LEMMA AnswerInv ==
  ASSUME Inv, NEW c \in Clerks, Answer(c)
  PROVE  Inv'
  <1> DEFINE job == [ clerks[c] EXCEPT !.at = "answered", !.done = Completed(rows) ]
  <1>1. clerks[c].at = "recorded" /\ SetClerk(c, job) /\ UNCHANGED << papers, packages, faults >>
    BY DEF Answer
  <1>2. clerks[c].doc \in In(rows)
    BY <1>1 DEF Inv, Knowledge
  <1>3. job \in Jobs /\ job.at = "answered" /\ job.doc = clerks[c].doc /\ job.done = Completed(rows)
    BY CompletedType DEF Inv, TypeOK, Jobs, Stages
  <1> HIDE DEF job
  <1>4. clerks' \in [ Clerks -> Jobs ] /\ clerks'[c] = job
        /\ \A o \in Clerks : o # c => clerks'[o] = clerks[o]
    BY <1>1, <1>3, SetClerkLemma DEF Inv, TypeOK
  <1>5. TypeOK'
    BY <1>1, <1>4 DEF Inv, TypeOK, papers, packages
  <1>6. RowsStored' /\ OwnIds' /\ Knowledge' /\ Reads' /\ VerdictsOnTimeline'
    BY <1>1, <1>2, <1>3, HandOver, ReadsStay, TimelineStays DEF papers, packages
  <1>7. AnswerSeesUpload'
    <2>1. ~rows[clerks[c].doc].reviewed
            => \A t \in Required : rows[clerks[c].doc].type = t => t \in Completed(rows)
      BY <1>2 DEF Inv, RowsStored, In, Completed, Counts
    <2> QED
      BY <1>1, <1>3, <1>4, <2>1 DEF Inv, AnswerSeesUpload, papers
  <1> QED
    BY <1>1, <1>5, <1>6, <1>7, PackagesStay DEF Inv

LEMMA FinishInv ==
  ASSUME Inv, NEW c \in Clerks, SetClerk(c, Idle), clerks[c].at # "changed",
         UNCHANGED << papers, packages, faults >>
  PROVE  Inv'
  <1>1. clerks' \in [ Clerks -> Jobs ]
    BY IdleState, SetClerkLemma DEF Inv, TypeOK
  <1>2. TypeOK'
    BY <1>1 DEF Inv, TypeOK, papers, packages
  <1>3. RowsStored' /\ OwnIds' /\ Knowledge' /\ Reads' /\ AnswerSeesUpload' /\ VerdictsOnTimeline'
    BY IdleState, HandOver, ReadsStay, AnswersStay, TimelineStays DEF papers, packages
  <1> QED
    BY <1>2, <1>3, PackagesStay DEF Inv

------------------------------------------------------------------------------
(* generatePackage *)

\* A read of an export: only what it holds changes.
LEMMA ReadInv ==
  ASSUME Inv, NEW c \in Clerks, NEW job \in Jobs, SetClerk(c, job), clerks[c].at # "changed",
         UNCHANGED << papers, packages >>, faults' \in 0..MaxFaults,
         job.at \in { "listed", "checked", "gathered" },
         job.at \in { "listed", "gathered" } => In(job.list) \subseteq uploads,
         job.at = "listed" => \A d \in Docs : job.list[d] # rows[d] => d \in job.shows.late,
         job.at = "checked" => Told(rows, job.shows),
         job.at = "gathered" => Told(job.list, job.shows)
  PROVE  Inv'
  <1>1. clerks' \in [ Clerks -> Jobs ]
    BY SetClerkLemma DEF Inv, TypeOK
  <1>2. TypeOK'
    BY <1>1 DEF Inv, TypeOK, papers, packages
  <1>3. RowsStored' /\ OwnIds' /\ Knowledge'
    BY HandOver DEF papers, packages
  <1>4. Reads'
    BY ReadsStay DEF papers
  <1>5. AnswerSeesUpload' /\ VerdictsOnTimeline'
    BY AnswersStay, TimelineStays DEF papers
  <1> QED
    BY <1>2, <1>3, <1>4, <1>5, PackagesStay DEF Inv

LEMMA ListDocumentsInv ==
  ASSUME Inv, NEW c \in Clerks, ListDocuments(c)
  PROVE  Inv'
  <1>1. UNCHANGED << papers, packages >> /\ faults' \in 0..MaxFaults
    BY DEF ListDocuments, Inv, TypeOK
  <1>2. In(rows) \subseteq uploads /\ rows \in [ Docs -> Rows ] /\ clerks[c] \in Jobs
    BY DEF Inv, RowsStored, TypeOK
  <1>3. CASE clerks[c].at = "idle"
    <2> DEFINE job == [ Idle EXCEPT !.at = "listed", !.list = rows ]
    <2>1. job \in Jobs /\ job.at = "listed" /\ job.list = rows
      BY <1>2, IdleState DEF Jobs, Stages
    <2>2. SetClerk(c, job)
      BY <1>3 DEF ListDocuments
    <2> HIDE DEF job
    <2> QED
      BY <1>1, <1>2, <1>3, <2>1, <2>2, ReadInv
  <1>4. CASE clerks[c].at = "checked"
    <2> DEFINE job == [ clerks[c] EXCEPT !.at = "gathered", !.list = rows ]
    <2>1. job \in Jobs /\ job.at = "gathered" /\ job.list = rows /\ job.shows = clerks[c].shows
      BY <1>2 DEF Jobs, Stages
    <2>2. SetClerk(c, job)
      BY <1>4 DEF ListDocuments
    <2>3. Told(rows, clerks[c].shows)
      BY <1>4 DEF Inv, Reads
    <2> HIDE DEF job
    <2> QED
      BY <1>1, <1>2, <1>4, <2>1, <2>2, <2>3, ReadInv
  <1> QED
    BY <1>3, <1>4 DEF ListDocuments

\* Either answer of the checklist.
LEMMA CheckedInv ==
  ASSUME Inv, NEW c \in Clerks, Export(c), NEW shows \in Checklists, SetClerk(c, Checked(c, shows)),
         shows.late = clerks[c].shows.late, shows.known => shows.done = Completed(rows),
         UNCHANGED << papers, packages >>, faults' \in 0..MaxFaults
  PROVE  Inv'
  <1>1. clerks[c] \in Jobs /\ clerks[c].at \in { "idle", "listed" }
    BY DEF Inv, TypeOK, Export
  <1> DEFINE job == Checked(c, shows)
  <1>2. /\ job \in Jobs /\ job.shows = shows /\ job.list = clerks[c].list
        /\ job.at = IF clerks[c].at = "idle" THEN "checked" ELSE "gathered"
    BY <1>1 DEF Checked, Jobs, Stages
  <1> HIDE DEF job
  <1>3. ASSUME NEW d \in Docs, Counts(rows[d]), rows[d].type \in Required
        PROVE  rows[d].type \in Completed(rows)
    BY <1>3 DEF Completed
  <1>4. Told(rows, shows)
    BY <1>3 DEF Told
  <1>5. CASE clerks[c].at = "idle"
    BY <1>1, <1>2, <1>4, <1>5, ReadInv DEF job
  <1>6. CASE clerks[c].at = "listed"
    <2>1. In(clerks[c].list) \subseteq uploads
      BY <1>6 DEF Inv, Knowledge
    <2>2. \A d \in Docs : clerks[c].list[d] # rows[d] => d \in shows.late
      BY <1>6 DEF Inv, Reads
    <2>3. Told(clerks[c].list, shows)
      BY <1>3, <2>2 DEF Told
    <2> QED
      BY <1>1, <1>2, <1>6, <2>1, <2>3, ReadInv DEF job
  <1> QED
    BY <1>1, <1>5, <1>6

LEMMA ReadChecklistInv ==
  ASSUME Inv, NEW c \in Clerks, ReadChecklist(c)
  PROVE  Inv'
  <1> DEFINE shows == [ known |-> TRUE, done |-> Completed(rows), late |-> clerks[c].shows.late ]
  <1>1. clerks[c].shows \in Checklists
    BY DEF Inv, TypeOK, Jobs
  <1>2. shows \in Checklists /\ shows.done = Completed(rows) /\ shows.late = clerks[c].shows.late
    BY <1>1, CompletedType DEF Checklists
  <1>3. Export(c) /\ SetClerk(c, Checked(c, shows)) /\ UNCHANGED << papers, packages >>
        /\ faults' \in 0..MaxFaults
    BY DEF ReadChecklist, Inv, TypeOK
  <1> HIDE DEF shows
  <1> QED
    BY <1>2, <1>3, CheckedInv

LEMMA ForgoChecklistInv ==
  ASSUME Inv, NEW c \in Clerks, ForgoChecklist(c)
  PROVE  Inv'
  <1> DEFINE shows == [ clerks[c].shows EXCEPT !.known = FALSE ]
  <1>1. clerks[c].shows \in Checklists
    BY DEF Inv, TypeOK, Jobs
  <1>2. shows \in Checklists /\ ~shows.known /\ shows.late = clerks[c].shows.late
    BY <1>1 DEF Checklists
  <1>3. Export(c) /\ SetClerk(c, Checked(c, shows)) /\ UNCHANGED << papers, packages >>
        /\ faults' \in 0..MaxFaults
    BY BoundAssumption DEF ForgoChecklist, Inv, TypeOK
  <1> HIDE DEF shows
  <1> QED
    BY <1>2, <1>3, CheckedInv

LEMMA WritePackageInv ==
  ASSUME Inv, NEW c \in Clerks, NEW p \in Packages, WritePackage(c, p)
  PROVE  Inv'
  <1> DEFINE zip == Zip(clerks[c].list, clerks[c].shows)
             job == [ Idle EXCEPT !.at = "written", !.pkg = p ]
  <1>1. clerks[c].at = "gathered" /\ SetClerk(c, job) /\ zips' = [ zips EXCEPT ![p] = zip ]
        /\ Required \subseteq Completed(clerks[c].list) /\ ~zips[p].written
        /\ UNCHANGED << papers, artifacts, faults >>
    BY DEF WritePackage, NextPackage
  <1>2. /\ clerks[c].list \in [ Docs -> Rows ] /\ clerks[c].shows \in Checklists
        /\ In(clerks[c].list) \subseteq uploads
        /\ Told(clerks[c].list, clerks[c].shows)
    BY <1>1 DEF Inv, TypeOK, Jobs, Knowledge, Reads
  <1>3. zip.written /\ zip.list = clerks[c].list /\ zip.files = In(clerks[c].list) /\ zip \in Zips
        /\ zip.shows = clerks[c].shows
    BY <1>2 DEF Zip, Zips, In
  <1>4. job \in Jobs /\ job.at = "written" /\ job.pkg = p
    BY IdleState DEF Jobs, Stages
  <1> HIDE DEF zip, job
  <1>5. clerks' \in [ Clerks -> Jobs ] /\ clerks'[c] = job
        /\ \A o \in Clerks : o # c => clerks'[o] = clerks[o]
    BY <1>1, <1>4, SetClerkLemma DEF Inv, TypeOK
  <1>6. zips' \in [ Packages -> Zips ] /\ zips'[p] = zip
        /\ \A q \in Packages : q # p => zips'[q] = zips[q]
    BY <1>1, <1>3 DEF Inv, TypeOK
  <1>7. TypeOK'
    BY <1>1, <1>5, <1>6 DEF Inv, TypeOK, papers
  <1>8. RowsStored'
    BY <1>1 DEF Inv, RowsStored, In, papers
  <1>9. OwnIds'
    BY <1>1, <1>4, <1>5 DEF Inv, OwnIds, In, papers
  <1>10. Knowledge'
    <2> SUFFICES ASSUME NEW o \in Clerks
                 PROVE  /\ clerks'[o].at \in { "changed", "recorded", "answered" }
                             => clerks'[o].doc \in In(rows)'
                        /\ clerks'[o].at \in { "listed", "gathered" } => In(clerks'[o].list) \subseteq uploads'
                        /\ clerks'[o].at = "written"
                             => clerks'[o].pkg \in Packages /\ zips'[clerks'[o].pkg].written
      BY DEF Knowledge, In
    <2>1. CASE o = c
      BY <1>3, <1>4, <1>5, <1>6, <2>1
    <2>2. CASE o # c
      <3>1. In(rows)' = In(rows) /\ uploads' = uploads
        BY <1>1 DEF papers, In
      <3> QED
        BY <1>3, <1>5, <1>6, <2>2, <3>1 DEF Inv, Knowledge
    <2> QED
      BY <2>1, <2>2
  <1>11. PackagesTold'
    <2> SUFFICES ASSUME NEW q \in Packages, zips'[q].written, NEW t \in Required
                 PROVE  LET For == { d \in Docs : Counts(zips'[q].list[d]) /\ zips'[q].list[d].type = t }
                        IN  /\ For # {}
                            /\ zips'[q].shows.known /\ t \notin zips'[q].shows.done
                                 => For \subseteq zips'[q].shows.late
      BY DEF PackagesTold, Counts
    <2>1. CASE q = p
      <3>1. zips'[q].list = clerks[c].list /\ zips'[q].shows = clerks[c].shows
        BY <1>3, <1>6, <2>1
      <3>2. t \in Completed(clerks[c].list)
        BY <1>1
      <3> QED
        BY <1>2, <3>1, <3>2 DEF Told, Completed
    <2>2. CASE q # p
      BY <1>6, <2>2 DEF Inv, PackagesTold
    <2> QED
      BY <2>1, <2>2
  <1>12. PackagesCarryFiles'
    <2> SUFFICES ASSUME NEW q \in Packages PROVE In(zips'[q].list) = zips'[q].files
      BY DEF PackagesCarryFiles, In
    <2> QED
      BY <1>3, <1>6 DEF Inv, PackagesCarryFiles
  <1>13. ArtifactsHaveFiles'
    <2>1. \A i \in DOMAIN artifacts : artifacts[i] \in Packages
      BY DEF Inv, TypeOK
    <2> QED
      BY <1>1, <1>3, <1>6, <2>1 DEF Inv, ArtifactsHaveFiles
  <1>14. AnswerSeesUpload' /\ VerdictsOnTimeline' /\ Reads'
    BY <1>1, <1>4, AnswersStay, TimelineStays, ReadsStay DEF papers
  <1> QED
    BY <1>7, <1>8, <1>9, <1>10, <1>11, <1>12, <1>13, <1>14 DEF Inv

LEMMA FilePackageInv ==
  ASSUME Inv, NEW c \in Clerks, FilePackage(c)
  PROVE  Inv'
  <1> DEFINE p == clerks[c].pkg
  <1>1. clerks[c].at = "written" /\ SetClerk(c, Idle) /\ artifacts' = Append(artifacts, p)
        /\ UNCHANGED << papers, zips, faults >>
    BY DEF FilePackage
  <1>2. p \in Packages /\ zips[p].written
    BY <1>1 DEF Inv, Knowledge
  <1> HIDE DEF p
  <1>3. clerks' \in [ Clerks -> Jobs ]
    BY <1>1, IdleState, SetClerkLemma DEF Inv, TypeOK
  <1>4. artifacts' \in Seq(Packages) /\ \A i \in DOMAIN artifacts' :
          artifacts'[i] = p \/ (i \in DOMAIN artifacts /\ artifacts'[i] = artifacts[i])
    BY <1>1, <1>2 DEF Inv, TypeOK
  <1>5. TypeOK'
    BY <1>1, <1>3, <1>4 DEF Inv, TypeOK, papers
  <1>6. RowsStored' /\ OwnIds' /\ Knowledge' /\ Reads'
    BY <1>1, IdleState, HandOver, ReadsStay DEF papers
  <1>7. PackagesTold' /\ PackagesCarryFiles'
    BY <1>1 DEF Inv, PackagesTold, PackagesCarryFiles
  <1>8. ArtifactsHaveFiles'
    BY <1>1, <1>2, <1>4 DEF Inv, ArtifactsHaveFiles
  <1>9. AnswerSeesUpload' /\ VerdictsOnTimeline'
    BY <1>1, IdleState, AnswersStay, TimelineStays DEF papers
  <1> QED
    BY <1>5, <1>6, <1>7, <1>8, <1>9 DEF Inv

------------------------------------------------------------------------------
(* Faults *)

LEMMA FaultInv ==
  ASSUME Inv, NEW c \in Clerks, Fault(c)
  PROVE  Inv'
  <1> DEFINE job == clerks[c]
  <1>1. SetClerk(c, Idle) /\ faults < MaxFaults /\ faults' = faults + 1 /\ job.at # "idle"
        /\ unrecorded' = (IF job.at = "changed" THEN unrecorded \cup { job.doc } ELSE unrecorded)
        /\ UNCHANGED << rows, uploads, events, reviews, packages >>
    BY DEF Fault
  <1>2. job.at = "changed" => job.doc \in Docs
    BY DEF Inv, Knowledge, In
  <1> HIDE DEF job
  <1>3. clerks' \in [ Clerks -> Jobs ] /\ \A o \in Clerks : o # c => clerks'[o] = clerks[o]
    BY <1>1, IdleState, SetClerkLemma DEF Inv, TypeOK
  <1>4. faults' \in 0..MaxFaults
    BY <1>1, BoundAssumption DEF Inv, TypeOK
  <1>5. unrecorded' \in SUBSET Docs /\ unrecorded \subseteq unrecorded'
    BY <1>1, <1>2 DEF Inv, TypeOK
  <1>6. TypeOK'
    BY <1>1, <1>3, <1>4, <1>5 DEF Inv, TypeOK, packages
  <1>7. RowsStored' /\ OwnIds' /\ Knowledge' /\ Reads' /\ AnswerSeesUpload'
    BY <1>1, IdleState, HandOver, ReadsStay, AnswersStay DEF packages
  <1>8. VerdictsOnTimeline'
    <2> SUFFICES ASSUME NEW e \in In(rows)', e \notin unrecorded',
                        NEW says, says = IF rows'[e].reviewed THEN rows'[e].status ELSE "UPLOADED"
                 PROVE  \/ [ doc |-> e, says |-> says ] \in events'
                        \/ \E o \in Clerks : clerks'[o].at = "changed" /\ clerks'[o].doc = e
                                               /\ clerks'[o].says = says
      BY DEF VerdictsOnTimeline
    <2>1. e \in In(rows) \ unrecorded /\ rows' = rows /\ events' = events
      BY <1>1, <1>5 DEF In
    <2>2. \/ [ doc |-> e, says |-> says ] \in events
          \/ \E o \in Clerks : clerks[o].at = "changed" /\ clerks[o].doc = e
                                 /\ clerks[o].says = says
      BY <2>1 DEF Inv, VerdictsOnTimeline
    <2>3. clerks[c].at = "changed" => clerks[c].doc # e
      BY <1>1 DEF job
    <2> QED
      BY <1>3, <2>1, <2>2, <2>3
  <1> QED
    BY <1>1, <1>6, <1>7, <1>8, PackagesStay DEF Inv

------------------------------------------------------------------------------
LEMMA StepInv == Inv /\ [Next]_vars => Inv'
  <1> SUFFICES ASSUME Inv, [Next]_vars PROVE Inv'
    OBVIOUS
  <1>1. ASSUME NEW c \in Clerks, UploadStep(c) PROVE Inv'
    BY <1>1, StoreFileInv, CreateRowInv DEF UploadStep
  <1>2. ASSUME NEW c \in Clerks, ReviewStep(c) PROVE Inv'
    BY <1>2, ReviewInv DEF ReviewStep
  <1>3. ASSUME NEW c \in Clerks, RecordEvent(c) PROVE Inv'
    BY <1>3, RecordEventInv
  <1>4. ASSUME NEW c \in Clerks, Answer(c) PROVE Inv'
    BY <1>4, AnswerInv
  <1>5. ASSUME NEW c \in Clerks, Finish(c) PROVE Inv'
    BY <1>5, FinishInv DEF Finish
  <1>6. ASSUME NEW c \in Clerks, PackageStep(c) PROVE Inv'
    <2>1. CASE ListDocuments(c)
      BY <2>1, ListDocumentsInv
    <2>5. CASE ReadChecklist(c)
      BY <2>5, ReadChecklistInv
    <2>6. CASE ForgoChecklist(c)
      BY <2>6, ForgoChecklistInv
    <2>2. CASE RefusePackage(c)
      BY <2>2, FinishInv DEF RefusePackage
    <2>3. CASE \E p \in Packages : WritePackage(c, p)
      BY <2>3, WritePackageInv
    <2>4. CASE FilePackage(c)
      BY <2>4, FilePackageInv
    <2> QED
      BY <1>6, <2>1, <2>2, <2>3, <2>4, <2>5, <2>6 DEF PackageStep
  <1>7. ASSUME NEW c \in Clerks, Fault(c) PROVE Inv'
    BY <1>7, FaultInv
  <1>8. CASE UNCHANGED vars
    BY <1>8 DEF vars, Inv, TypeOK, RowsStored, OwnIds, Knowledge, Reads, Told, PackagesTold,
                PackagesCarryFiles, ArtifactsHaveFiles, AnswerSeesUpload, VerdictsOnTimeline, In
  <1> QED
    BY <1>1, <1>2, <1>3, <1>4, <1>5, <1>6, <1>7, <1>8 DEF Next

LEMMA InvHolds == Spec => []Inv
  BY InitInv, StepInv, PTL DEF Spec

------------------------------------------------------------------------------
(* Theorems *)

\* Every variable keeps its type: documents are labelled as items of the checklist or not
\* at all, whatever type uploadDocument and reviewDocument are asked for.
THEOREM TypeCorrect == Spec => []TypeOK
  <1>1. Inv => TypeOK
    BY DEF Inv
  <1> QED
    BY <1>1, InvHolds, PTL

\* However uploads, reviews and exports interleave, and in whichever order an export's two
\* reads come, a package has a document for every item, and its printed checklist leaves an
\* item open only where all of that item's packed documents were written between the reads.
THEOREM PackagesToldHolds == Spec => []PackagesTold
  <1>1. Inv => PackagesTold
    BY DEF Inv
  <1> QED
    BY <1>1, InvHolds, PTL

\* Every package holds the files of all documents that its metadata lists.
THEOREM PackagesCarryFilesHolds == Spec => []PackagesCarryFiles
  <1>1. Inv => PackagesCarryFiles
    BY DEF Inv
  <1> QED
    BY <1>1, InvHolds, PTL

\* Every artifact has its file, after crashes too, so getLatestPackage finds it.
THEOREM ArtifactsHaveFilesHolds == Spec => []ArtifactsHaveFiles
  <1>1. Inv => ArtifactsHaveFiles
    BY DEF Inv
  <1> QED
    BY <1>1, InvHolds, PTL

\* What the download serves is there and whole.
THEOREM DownloadsWholeHolds == Spec => []DownloadsWhole
  BY PackagesCarryFilesHolds, ArtifactsHaveFilesHolds, PTL DEF DownloadsWhole

\* The checklist that answers an upload counts the document that was uploaded.
THEOREM AnswerSeesUploadHolds == Spec => []AnswerSeesUpload
  <1>1. Inv => AnswerSeesUpload
    BY DEF Inv
  <1> QED
    BY <1>1, InvHolds, PTL

\* The verdict in a row is told by the timeline, is about to be, or its request failed.
THEOREM VerdictsOnTimelineHolds == Spec => []VerdictsOnTimeline
  <1>1. Inv => VerdictsOnTimeline
    BY DEF Inv
  <1> QED
    BY <1>1, InvHolds, PTL

=============================================================================
