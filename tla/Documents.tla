----------------------------- MODULE Documents -----------------------------
(***************************************************************************)
(* The documents of one case, their checklist and the packages made from   *)
(* them: DocumentsService and CasePackageService.                          *)
(*                                                                         *)
(* Every request is a clerk that gives way at each await.  Documents and   *)
(* packages have a file on disk and a row in the database, written one     *)
(* after the other and in no transaction.  The case is in a jurisdiction   *)
(* that has a rule, so its checklist is the same at every read, and file   *)
(* names, which carry a timestamp, are distinct.  Reads that decide        *)
(* nothing (the case, the consent that the cover sheet prints) and audit   *)
(* entries are left out, and so is the download: it reads the latest       *)
(* artifact and its file, and changes nothing.  All the API's processes    *)
(* are taken to see one disk.                                              *)
(***************************************************************************)
EXTENDS Naturals, Sequences

CONSTANTS
  Clerks,       \* requests that may overlap
  Required,     \* ids of the checklist's documents
  Foreign,      \* document types that the checklist does not have
  Unclassified, \* null
  MaxDocs,      \* bound: uploads
  MaxReviews,   \* bound: reviews
  MaxPackages,  \* bound: packages written
  MaxFaults     \* bound: failed writes and crashes

Docs == 1..MaxDocs

Packages == 1..MaxPackages

Types == Required \cup Foreign \cup { Unclassified }

Labels == Required \cup { Unclassified }

ASSUME TypeAssumption ==
  Required \cap Foreign = {} /\ Unclassified \notin Required \cup Foreign

ASSUME BoundAssumption ==
  MaxDocs \in Nat /\ MaxReviews \in Nat /\ MaxPackages \in Nat /\ MaxFaults \in Nat

VARIABLES
  rows,       \* Document
  uploads,    \* the documents with a file under services/uploads
  events,     \* DOCUMENT_UPLOADED and DOCUMENT_REVIEWED
  zips,       \* the files under storage/packages
  artifacts,  \* Artifact, in the order of createdAt
  clerks,
  unrecorded, \* history: changes whose event was not written
  reviews,    \* history: reviews that have been made
  faults      \* history: failed writes and crashes

vars == << rows, uploads, events, zips, artifacts, clerks, unrecorded, reviews, faults >>

papers == << rows, uploads, events, unrecorded, reviews >>

packages == << zips, artifacts >>

------------------------------------------------------------------------------
(* Documents and the checklist *)

Verdicts == { "PENDING", "APPROVED", "REJECTED" }

Entries == [ doc : Docs, says : { "UPLOADED" } \cup Verdicts ]

Rows ==
  [ status   : { "none" } \cup Verdicts,
    type     : Labels,      \* docType, else aiDocType
    reviewed : BOOLEAN ]    \* reviewedAt is set

NoRow == [ status |-> "none", type |-> Unclassified, reviewed |-> FALSE ]

\* What the checklist lets count: whatever is not rejected, reviewed or not.
Counts(row) == row.status \in { "PENDING", "APPROVED" }

\* The items of the checklist that a list of documents completes.
Completed(list) == { t \in Required : \E d \in Docs : Counts(list[d]) /\ list[d].type = t }

In(list) == { d \in Docs : list[d].status # "none" }

\* Faulty: any well-formed type.
PermittedAny(type) == type \in Types

\* validateDocType, for a type that may be left out.
Permitted(type) == type \in Labels

\* docType ?? aiDocType.
Known(type, otherwise) == IF type = Unclassified THEN otherwise ELSE type

------------------------------------------------------------------------------
(* Packages *)

\* The checklist in package-metadata.json and on the cover sheet: null (not known), or the
\* items that it shows as done; late is history: documents written since the first of the
\* export's two reads and before the other.
Checklists == [ known : BOOLEAN, done : SUBSET Required, late : SUBSET Docs ]

Zips == [ written : BOOLEAN, list : [ Docs -> Rows ], files : SUBSET Docs, shows : Checklists ]

NoList == [ d \in Docs |-> NoRow ]

NoChecklist == [ known |-> FALSE, done |-> {}, late |-> {} ]

NoZip == [ written |-> FALSE, list |-> NoList, files |-> {}, shows |-> NoChecklist ]

\* package-metadata.json, and the files beside it: those that are on disk.
Zip(list, shows) ==
  [ written |-> TRUE, list |-> list, files |-> In(list) \cap uploads, shows |-> shows ]

------------------------------------------------------------------------------
(* Clerks *)

\* listed, checked: an export with its documents and no checklist yet, or the reverse.
Stages ==
  { "idle", "stored", "changed", "recorded", "answered", "listed", "checked", "gathered", "written" }

Jobs ==
  [ at    : Stages,
    doc   : { 0 } \cup Docs,
    says  : { "UPLOADED" } \cup Verdicts,  \* what its event will say
    type  : Labels,
    done  : SUBSET Required,               \* the checklist that it answers
    list  : [ Docs -> Rows ],              \* the documents that it has read
    shows : Checklists,                    \* the checklist that it will print
    pkg   : { 0 } \cup Packages ]

Idle ==
  [ at |-> "idle", doc |-> 0, says |-> "UPLOADED", type |-> Unclassified,
    done |-> {}, list |-> NoList, shows |-> NoChecklist, pkg |-> 0 ]

SetClerk(c, job) == clerks' = [ clerks EXCEPT ![c] = job ]

\* History: what an export that is between its two reads notes of a row that is written.
Noting(job, d) ==
  IF job.at \in { "listed", "checked" } THEN [ job EXCEPT !.shows.late = @ \cup { d } ] ELSE job

\* A request that has written the row of d.
SetWriter(c, job, d) == clerks' = [ o \in Clerks |-> IF o = c THEN job ELSE Noting(clerks[o], d) ]

\* The id that the next upload gets, and the name of the next package.
Claimed == uploads \cup In(rows) \cup { clerks[c].doc : c \in Clerks }

NextDoc(d) == d \notin Claimed /\ \A e \in Docs : e < d => e \in Claimed

NextPackage(p) == ~zips[p].written /\ \A q \in Packages : q < p => zips[q].written

------------------------------------------------------------------------------
(* uploadDocument *)

\* Faulty: the file goes where no package looks for it.
StoreElsewhere(c, d, type, guess) ==
  /\ clerks[c].at = "idle"
  /\ Permitted(type)
  /\ NextDoc(d)
  /\ SetClerk(c, [ Idle EXCEPT !.at = "stored", !.doc = d, !.type = Known(type, guess) ])
  /\ UNCHANGED << papers, packages, faults >>

\* The type is checked, one is guessed from the file's name, and the file is written.
StoreFile(c, d, type, guess) ==
  /\ clerks[c].at = "idle"
  /\ Permitted(type)
  /\ NextDoc(d)
  /\ uploads' = uploads \cup { d }
  /\ SetClerk(c, [ Idle EXCEPT !.at = "stored", !.doc = d, !.type = Known(type, guess) ])
  /\ UNCHANGED << rows, events, unrecorded, reviews, packages, faults >>

CreateRow(c) ==
  LET job == clerks[c] IN
  /\ job.at = "stored"
  /\ rows' = [ rows EXCEPT ![job.doc] =
                 [ status |-> "PENDING", type |-> job.type, reviewed |-> FALSE ] ]
  /\ SetWriter(c, [ Idle EXCEPT !.at = "changed", !.doc = job.doc ], job.doc)
  /\ UNCHANGED << uploads, events, unrecorded, reviews, packages, faults >>

------------------------------------------------------------------------------
(* reviewDocument: by id, with no look at what the row says now *)

\* Faulty: the event tells the status that was read, not the one that was written.
ReviewStale(c, d, verdict, type) ==
  /\ clerks[c].at = "idle"
  /\ d \in In(rows)
  /\ Permitted(type)
  /\ reviews < MaxReviews
  /\ reviews' = reviews + 1
  /\ rows' = [ rows EXCEPT ![d] =
                 [ rows[d] EXCEPT !.status = verdict, !.reviewed = TRUE,
                                  !.type = Known(type, rows[d].type) ] ]
  /\ SetWriter(c, [ Idle EXCEPT !.at = "changed", !.doc = d, !.says = rows[d].status ], d)
  /\ UNCHANGED << uploads, events, unrecorded, packages, faults >>

Review(c, d, verdict, type) ==
  /\ clerks[c].at = "idle"
  /\ d \in In(rows)
  /\ Permitted(type)
  /\ reviews < MaxReviews
  /\ reviews' = reviews + 1
  /\ rows' = [ rows EXCEPT ![d] =
                 [ rows[d] EXCEPT !.status = verdict, !.reviewed = TRUE,
                                  !.type = Known(type, rows[d].type) ] ]
  /\ SetWriter(c, [ Idle EXCEPT !.at = "changed", !.doc = d, !.says = verdict ], d)
  /\ UNCHANGED << uploads, events, unrecorded, packages, faults >>

------------------------------------------------------------------------------
(* The end of both: the event, and the checklist as it is by then *)

RecordEvent(c) ==
  /\ clerks[c].at = "changed"
  /\ events' = events \cup { [ doc |-> clerks[c].doc, says |-> clerks[c].says ] }
  /\ SetClerk(c, [ clerks[c] EXCEPT !.at = "recorded" ])
  /\ UNCHANGED << rows, uploads, unrecorded, reviews, packages, faults >>

\* Faulty: answers from the list that it was handed.
AnswerFromList(c) ==
  /\ clerks[c].at = "recorded"
  /\ SetClerk(c, [ clerks[c] EXCEPT !.at = "answered", !.done = Completed(clerks[c].list) ])
  /\ UNCHANGED << papers, packages, faults >>

\* buildChecklistProgress.
Answer(c) ==
  /\ clerks[c].at = "recorded"
  /\ SetClerk(c, [ clerks[c] EXCEPT !.at = "answered", !.done = Completed(rows) ])
  /\ UNCHANGED << papers, packages, faults >>

Finish(c) ==
  /\ clerks[c].at = "answered"
  /\ SetClerk(c, Idle)
  /\ UNCHANGED << papers, packages, faults >>

------------------------------------------------------------------------------
(* generatePackage: the documents and the checklist are two reads of the same rows, started *)
(* together and finished in either order *)

ListDocuments(c) ==
  LET job == clerks[c] IN
  /\ \/ job.at = "idle" /\ SetClerk(c, [ Idle EXCEPT !.at = "listed", !.list = rows ])
     \/ job.at = "checked" /\ SetClerk(c, [ job EXCEPT !.at = "gathered", !.list = rows ])
  /\ UNCHANGED << papers, packages, faults >>

Export(c) == clerks[c].at \in { "idle", "listed" }

\* What the export goes on with, once it has its checklist.
Checked(c, shows) ==
  [ clerks[c] EXCEPT !.at = IF clerks[c].at = "idle" THEN "checked" ELSE "gathered", !.shows = shows ]

\* Faulty: the checklist waits for the approval that the refusal does not ask for.
ReadApproved(c) ==
  /\ Export(c)
  /\ SetClerk(c, Checked(c, [ known |-> TRUE, late |-> clerks[c].shows.late,
                              done |-> { rows[d].type : d \in { e \in Docs :
                                           rows[e].status = "APPROVED" } } \cap Required ]))
  /\ UNCHANGED << papers, packages, faults >>

\* getChecklistProgress.
ReadChecklist(c) ==
  /\ Export(c)
  /\ SetClerk(c, Checked(c, [ known |-> TRUE, done |-> Completed(rows),
                              late |-> clerks[c].shows.late ]))
  /\ UNCHANGED << papers, packages, faults >>

\* It throws: the export goes on without a checklist.
ForgoChecklist(c) ==
  /\ Export(c)
  /\ faults < MaxFaults
  /\ faults' = faults + 1
  /\ SetClerk(c, Checked(c, [ clerks[c].shows EXCEPT !.known = FALSE ]))
  /\ UNCHANGED << papers, packages >>

\* Checklist incomplete, by the documents.
RefusePackage(c) ==
  /\ clerks[c].at = "gathered"
  /\ Required \ Completed(clerks[c].list) # {}
  /\ SetClerk(c, Idle)
  /\ UNCHANGED << papers, packages, faults >>

\* Faulty: the row before the file.
FilePackageFirst(c, p) ==
  /\ clerks[c].at = "gathered"
  /\ Required \ Completed(clerks[c].list) = {}
  /\ NextPackage(p)
  /\ artifacts' = Append(artifacts, p)
  /\ SetClerk(c, Idle)
  /\ UNCHANGED << papers, zips, faults >>

WritePackage(c, p) ==
  /\ clerks[c].at = "gathered"
  /\ Required \ Completed(clerks[c].list) = {}
  /\ NextPackage(p)
  /\ zips' = [ zips EXCEPT ![p] = Zip(clerks[c].list, clerks[c].shows) ]
  /\ SetClerk(c, [ Idle EXCEPT !.at = "written", !.pkg = p ])
  /\ UNCHANGED << papers, artifacts, faults >>

FilePackage(c) ==
  /\ clerks[c].at = "written"
  /\ artifacts' = Append(artifacts, clerks[c].pkg)
  /\ SetClerk(c, Idle)
  /\ UNCHANGED << papers, zips, faults >>

------------------------------------------------------------------------------
(* A read or a write throws, or the process dies: the request ends where it is *)

Fault(c) ==
  LET job == clerks[c] IN
  /\ job.at \notin { "idle", "answered" }
  /\ faults < MaxFaults
  /\ faults' = faults + 1
  /\ unrecorded' = IF job.at = "changed" THEN unrecorded \cup { job.doc } ELSE unrecorded
  /\ SetClerk(c, Idle)
  /\ UNCHANGED << rows, uploads, events, reviews, packages >>

------------------------------------------------------------------------------
Init ==
  /\ rows = NoList
  /\ uploads = {}
  /\ events = {}
  /\ zips = [ p \in Packages |-> NoZip ]
  /\ artifacts = << >>
  /\ clerks = [ c \in Clerks |-> Idle ]
  /\ unrecorded = {}
  /\ reviews = 0
  /\ faults = 0

UploadStep(c) ==
  \/ \E d \in Docs, type \in Types, guess \in Labels : StoreFile(c, d, type, guess)
  \/ CreateRow(c)

ReviewStep(c) == \E d \in Docs, verdict \in Verdicts, type \in Types : Review(c, d, verdict, type)

PackageStep(c) ==
  \/ ListDocuments(c)
  \/ ReadChecklist(c)
  \/ ForgoChecklist(c)
  \/ RefusePackage(c)
  \/ \E p \in Packages : WritePackage(c, p)
  \/ FilePackage(c)

Next ==
  \E c \in Clerks :
    \/ UploadStep(c)
    \/ ReviewStep(c)
    \/ RecordEvent(c)
    \/ Answer(c)
    \/ Finish(c)
    \/ PackageStep(c)
    \/ Fault(c)

Spec == Init /\ [][Next]_vars

------------------------------------------------------------------------------
(* Properties *)

\* Every variable has its type; in particular, whatever type a request gives, a document
\* is only ever labelled as an item of the checklist or not at all.
TypeOK ==
  /\ rows \in [ Docs -> Rows ]
  /\ uploads \in SUBSET Docs
  /\ events \in SUBSET Entries
  /\ zips \in [ Packages -> Zips ]
  /\ artifacts \in Seq(Packages)
  /\ clerks \in [ Clerks -> Jobs ]
  /\ unrecorded \in SUBSET Docs
  /\ reviews \in 0..MaxReviews
  /\ faults \in 0..MaxFaults

\* What is packed and what the package prints of it are two reads.  Every item has a packed
\* document, and the printed checklist, if there is one, shows it as open only where each
\* packed document of that item was uploaded or reviewed between the two: no older state is
\* ever printed beside newer documents, and no document rejected before either read counts.
PackagesTold ==
  \A p \in Packages :
    LET zip    == zips[p]
        For(t) == { d \in Docs : Counts(zip.list[d]) /\ zip.list[d].type = t }
    IN  zip.written =>
          \A t \in Required :
            /\ For(t) # {}
            /\ zip.shows.known /\ t \notin zip.shows.done => For(t) \subseteq zip.shows.late

\* A package holds the file of every document that its metadata lists, though files
\* missing on disk are skipped without a word: an upload has its file before its row.
PackagesCarryFiles == \A p \in Packages : In(zips[p].list) = zips[p].files

\* An artifact never points at a file that is missing, after a crash either, so that the
\* latest package can always be downloaded.
ArtifactsHaveFiles == \A i \in DOMAIN artifacts : zips[artifacts[i]].written

\* The latest package, which the download takes on trust, is there and holds every
\* file that it lists: neither a crash nor the order of file and row leaves less.
DownloadsWhole == PackagesCarryFiles /\ ArtifactsHaveFiles

\* The checklist that answers an upload has the document's item, unless the document has
\* been reviewed since: no upload is answered from what was read before it.
AnswerSeesUpload ==
  \A c \in Clerks :
    LET job == clerks[c] IN
    (job.at = "answered" /\ job.says = "UPLOADED" /\ ~rows[job.doc].reviewed)
      => \A t \in Required : rows[job.doc].type = t => t \in job.done

\* However many reviews of a document overlap, the last verdict in its row is one that the
\* timeline tells or is about to tell, unless a request failed between row and event.
VerdictsOnTimeline ==
  \A d \in In(rows) \ unrecorded :
    LET told == [ doc |-> d, says |-> IF rows[d].reviewed THEN rows[d].status ELSE "UPLOADED" ]
    IN  \/ told \in events
        \/ \E c \in Clerks :
             clerks[c].at = "changed" /\ clerks[c].doc = told.doc /\ clerks[c].says = told.says
=============================================================================
