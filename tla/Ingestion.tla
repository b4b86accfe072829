------------------------------ MODULE Ingestion ------------------------------
(***************************************************************************)
(* Upload and ingestion of PDF documents.                                  *)
(*                                                                         *)
(* Several instances of the service share one MongoDB; each has a local    *)
(* disk of its own, where an upload leaves the PDF.  Inside one instance a *)
(* handler runs to its end without yielding, so each instance carries at   *)
(* most one request; requests of different instances interleave between    *)
(* their database calls.  Every database call is a step, may fail (with or *)
(* without having taken effect: the acknowledgement can be lost), and an   *)
(* instance may be killed between any two steps.                           *)
(***************************************************************************)
EXTENDS Naturals, Sequences, FiniteSets

CONSTANTS
    Instances,     \* processes of the service
    Documents,     \* document ids
    PageChunks,    \* for each document, the number of chunks of each page
    Unreadable,    \* documents whose file the PDF library rejects
    MaxRuns,       \* bound on the number of ingestions
    MaxCrashes,    \* bound on the number of killed instances
    MaxDbErrors,   \* bound on the number of failed database calls
    NoDocument     \* the document of a request that is not running

ASSUME IngestionAssumption ==
    /\ PageChunks \in [Documents -> Seq(Nat)]
    /\ Unreadable \subseteq Documents
    /\ MaxRuns \in Nat \ {0}
    /\ MaxCrashes \in Nat
    /\ MaxDbErrors \in Nat
    /\ NoDocument \notin Documents

VARIABLES
    disk,      \* the files on each instance's disk, by the id in their name
    docs,      \* the PDFDocument collection: status and total_pages
    chunks,    \* the PDFChunk collection
    req,       \* the request each instance is serving
    runs,      \* number of ingestions started; also the source of chunk ids
    answers,   \* the successful answers to /ingest
    crashes, dbErrors

ingestionVars == <<disk, docs, chunks, req, runs, answers, crashes, dbErrors>>

Status == {"uploaded", "ingesting", "completed", "failed"}

PageCount(d) == Len(PageChunks[d])

(* The chunk ids are fresh uuids: the run and the place identify a chunk.   *)
Chunk(r, d, p, k) == [run |-> r, doc |-> d, page |-> p, ord |-> k]

(* Run r has stored every chunk of every page of d. *)
Stored(d, r) ==
    \A p \in 1 .. PageCount(d) : \A k \in 1 .. PageChunks[d][p] :
        Chunk(r, d, p, k) \in chunks

(***************************************************************************)
(* A request: where its handler stands (pc), the document it works on, the *)
(* status its in-memory PDFDocument carries (mem), and for an ingestion    *)
(* its run, the page and the chunk of that page it has reached, and the    *)
(* number of chunks it has created.  Page 0: no page has been extracted.   *)
(***************************************************************************)
Idle == [pc |-> "idle", doc |-> NoDocument, mem |-> "absent",
         run |-> 0, page |-> 0, ord |-> 0, made |-> 0]

At(i, pc) == req[i].pc = pc

Become(i, q) == req' = [req EXCEPT ![i] = q]

GoTo(i, pc) == Become(i, [req[i] EXCEPT !.pc = pc])

Answer(i) == Become(i, Idle)

Save(d, s, n) == docs' = [docs EXCEPT ![d] = [status |-> s, pages |-> n]]

IngestionInit ==
    /\ disk = [i \in Instances |-> {}]
    /\ docs = [d \in Documents |-> [status |-> "absent", pages |-> 0]]
    /\ chunks = {}
    /\ req = [i \in Instances |-> Idle]
    /\ runs = 0
    /\ answers = {}
    /\ crashes = 0
    /\ dbErrors = 0

-----------------------------------------------------------------------------
(* Upload: the file is written first, the record is inserted after it.      *)

(* A uuid4 is never drawn twice: d is an id nothing refers to. *)
Fresh(d) ==
    /\ docs[d].status = "absent"
    /\ \A i \in Instances : d \notin disk[i] /\ req[i].doc # d

(* Mutant: the record is inserted before its file is written. *)
RecordBeforeFile(i, d) ==
    /\ At(i, "idle")
    /\ Fresh(d)
    /\ Save(d, "uploaded", 0)
    /\ Become(i, [Idle EXCEPT !.pc = "insert", !.doc = d])
    /\ UNCHANGED <<disk, chunks, runs, answers, crashes, dbErrors>>

WriteFile(i, d) ==
    /\ At(i, "idle")
    /\ Fresh(d)
    /\ disk' = [disk EXCEPT ![i] = @ \cup {d}]
    /\ Become(i, [Idle EXCEPT !.pc = "insert", !.doc = d])
    /\ UNCHANGED <<docs, chunks, runs, answers, crashes, dbErrors>>

InsertDocument(i) ==
    /\ At(i, "insert")
    /\ Save(req[i].doc, "uploaded", 0)
    /\ Answer(i)
    /\ UNCHANGED <<disk, chunks, runs, answers, crashes, dbErrors>>

(* A document_type outside the choices of the model is refused by save(),   *)
(* when the file is already on the disk.                                    *)
RejectDocument(i) ==
    /\ At(i, "insert")
    /\ Answer(i)
    /\ UNCHANGED <<disk, docs, chunks, runs, answers, crashes, dbErrors>>

-----------------------------------------------------------------------------
(* Ingestion.                                                               *)

(* The record is read and the file looked up on this instance's disk; an    *)
(* unknown document is a 404.  A record that already says "failed" is not   *)
(* written again when the file is missing: save() sends changed fields.     *)
StartIngest(i, d) ==
    /\ At(i, "idle")
    /\ runs < MaxRuns
    /\ docs[d].status # "absent"
    /\ runs' = runs + 1
    /\ Become(i, [Idle EXCEPT !.pc = IF d \in disk[i] THEN "mark" ELSE "missing",
                              !.doc = d, !.mem = docs[d].status, !.run = runs + 1])
    /\ UNCHANGED <<disk, docs, chunks, answers, crashes, dbErrors>>

(* save() sends only the fields that changed in memory. *)
SaveStatus(i, s) ==
    docs' = [docs EXCEPT ![req[i].doc].status = IF req[i].mem = s THEN @ ELSE s]

MarkMissing(i) ==
    /\ At(i, "missing")
    /\ SaveStatus(i, "failed")
    /\ Answer(i)
    /\ UNCHANGED <<disk, chunks, runs, answers, crashes, dbErrors>>

(* Mutant: an ingestion first removes what earlier runs stored. *)
MarkAndClear(i) ==
    /\ At(i, "mark")
    /\ SaveStatus(i, "ingesting")
    /\ GoTo(i, "extract")
    /\ chunks' = {c \in chunks : c.doc # req[i].doc}
    /\ UNCHANGED <<disk, runs, answers, crashes, dbErrors>>

MarkIngesting(i) ==
    /\ At(i, "mark")
    /\ SaveStatus(i, "ingesting")
    /\ GoTo(i, "extract")
    /\ UNCHANGED <<disk, chunks, runs, answers, crashes, dbErrors>>

ExtractPages(i) ==
    /\ At(i, "extract")
    /\ IF req[i].doc \in Unreadable
       THEN GoTo(i, "failing")
       ELSE Become(i, [req[i] EXCEPT !.pc = "saving", !.page = 1])
    /\ UNCHANGED <<disk, docs, chunks, runs, answers, crashes, dbErrors>>

OnPage(i) == At(i, "saving") /\ req[i].page <= PageCount(req[i].doc)

PageDone(i) == req[i].ord = PageChunks[req[i].doc][req[i].page]

(* Mutant: pages are numbered from 0. *)
NextChunkFromZero(i) ==
    Chunk(req[i].run, req[i].doc, req[i].page - 1, req[i].ord + 1)

NextChunk(i) ==
    Chunk(req[i].run, req[i].doc, req[i].page, req[i].ord + 1)

(* Mutant: the count of created chunks is only raised once per page. *)
PageCounted(q) ==
    [q EXCEPT !.ord = q.ord + 1, !.made = IF q.ord = 0 THEN q.made + 1 ELSE q.made]

ChunkSaved(q) == [q EXCEPT !.ord = q.ord + 1, !.made = q.made + 1]

PageTurned(q) == [q EXCEPT !.page = q.page + 1, !.ord = 0]

SaveChunk(i) ==
    /\ OnPage(i) /\ ~PageDone(i)
    /\ chunks' = chunks \cup {NextChunk(i)}
    /\ Become(i, ChunkSaved(req[i]))
    /\ UNCHANGED <<disk, docs, runs, answers, crashes, dbErrors>>

TurnPage(i) ==
    /\ OnPage(i) /\ PageDone(i)
    /\ Become(i, PageTurned(req[i]))
    /\ UNCHANGED <<disk, docs, chunks, runs, answers, crashes, dbErrors>>

(* Mutant: the last page is left out. *)
LastPageSkipped(i) == At(i, "saving") /\ req[i].page >= PageCount(req[i].doc)

AllPagesDone(i) == At(i, "saving") /\ req[i].page > PageCount(req[i].doc)

(* Nothing is compared with what other runs did meanwhile. *)
Complete(i) ==
    /\ AllPagesDone(i)
    /\ Save(req[i].doc, "completed", PageCount(req[i].doc))
    /\ answers' = answers \cup {[doc |-> req[i].doc, run |-> req[i].run,
                                 pages |-> PageCount(req[i].doc),
                                 chunks |-> req[i].made]}
    /\ Answer(i)
    /\ UNCHANGED <<disk, chunks, runs, crashes, dbErrors>>

(* Mutant: a status the model's choices do not contain. *)
UnknownFailure(i) == [status |-> "error", pages |-> docs[req[i].doc].pages]

(* The except branch.  total_pages, once set in memory, goes out with it.   *)
FailedRecord(i) ==
    LET d == req[i].doc
    IN  [status |-> "failed",
         pages  |-> IF req[i].page = 0 THEN docs[d].pages ELSE PageCount(d)]

(* Mutant: the except branch only logs. *)
FailureIgnored(i) ==
    /\ At(i, "failing")
    /\ Answer(i)
    /\ UNCHANGED <<disk, docs, chunks, runs, answers, crashes, dbErrors>>

MarkFailed(i) ==
    /\ At(i, "failing")
    /\ docs' = [docs EXCEPT ![req[i].doc] = FailedRecord(i)]
    /\ Answer(i)
    /\ UNCHANGED <<disk, chunks, runs, answers, crashes, dbErrors>>

-----------------------------------------------------------------------------
(* A database call raises; the write may have been applied nevertheless.    *)

DbError == dbErrors < MaxDbErrors /\ dbErrors' = dbErrors + 1

InsertError(i) ==
    /\ At(i, "insert") /\ DbError
    /\ Save(req[i].doc, "uploaded", 0) \/ UNCHANGED docs
    /\ Answer(i)
    /\ UNCHANGED <<disk, chunks, runs, answers, crashes>>

(* The first two saves of an ingestion are outside its try block. *)
MarkError(i) ==
    /\ DbError
    /\ \/ At(i, "missing") /\ (SaveStatus(i, "failed") \/ UNCHANGED docs)
       \/ At(i, "mark") /\ (SaveStatus(i, "ingesting") \/ UNCHANGED docs)
    /\ Answer(i)
    /\ UNCHANGED <<disk, chunks, runs, answers, crashes>>

SaveChunkError(i) ==
    /\ OnPage(i) /\ ~PageDone(i) /\ DbError
    /\ chunks' = chunks \cup {NextChunk(i)} \/ UNCHANGED chunks
    /\ GoTo(i, "failing")
    /\ UNCHANGED <<disk, docs, runs, answers, crashes>>

CompleteError(i) ==
    /\ AllPagesDone(i) /\ DbError
    /\ \/ Save(req[i].doc, "completed", PageCount(req[i].doc))
       \/ UNCHANGED docs
    /\ GoTo(i, "failing")
    /\ UNCHANGED <<disk, chunks, runs, answers, crashes>>

MarkFailedError(i) ==
    /\ At(i, "failing") /\ DbError
    /\ docs' = [docs EXCEPT ![req[i].doc] = FailedRecord(i)] \/ UNCHANGED docs
    /\ Answer(i)
    /\ UNCHANGED <<disk, chunks, runs, answers, crashes>>

(* The instance is killed and started again.  Its disk is gone when the     *)
(* platform replaces the container, kept when the process alone restarts.   *)
Crash(i) ==
    /\ crashes < MaxCrashes
    /\ crashes' = crashes + 1
    /\ Answer(i)
    /\ disk' = [disk EXCEPT ![i] = {}] \/ UNCHANGED disk
    /\ UNCHANGED <<docs, chunks, runs, answers, dbErrors>>

-----------------------------------------------------------------------------
(* A user's call arrives at an idle instance. *)
Call(i) == \E d \in Documents : WriteFile(i, d) \/ StartIngest(i, d)

(* The steps a handler takes by itself once it has been called. *)
Proceed(i) ==
    \/ InsertDocument(i)
    \/ RejectDocument(i)
    \/ MarkMissing(i)
    \/ MarkIngesting(i)
    \/ ExtractPages(i)
    \/ SaveChunk(i)
    \/ TurnPage(i)
    \/ Complete(i)
    \/ MarkFailed(i)

Fault(i) ==
    \/ InsertError(i)
    \/ MarkError(i)
    \/ SaveChunkError(i)
    \/ CompleteError(i)
    \/ MarkFailedError(i)
    \/ Crash(i)

IngestionNext == \E i \in Instances : Call(i) \/ Proceed(i) \/ Fault(i)

IngestionSpec == IngestionInit /\ [][IngestionNext]_ingestionVars

(* A running handler keeps running: the process is scheduled and every      *)
(* database or library call returns or raises.  Nobody has to call.         *)
IngestionFairSpec == IngestionSpec /\ \A i \in Instances : WF_ingestionVars(Proceed(i))

-----------------------------------------------------------------------------
(* Type correctness: the two collections, the cursor of each running        *)
(* ingestion, the answers given.                                            *)
ChunkRecord == [run : Nat, doc : Documents, page : Nat, ord : Nat]

RequestRecord ==
    [pc   : {"idle", "insert", "missing", "mark", "extract", "saving", "failing"},
     doc  : Documents \cup {NoDocument},
     mem  : Status \cup {"absent"},
     run  : Nat, page : Nat, ord : Nat, made : Nat]

IngestionTypeOK ==
    /\ disk \in [Instances -> SUBSET Documents]
    /\ docs \in [Documents -> [status : Status \cup {"absent"}, pages : Nat]]
    /\ chunks \subseteq ChunkRecord
    /\ req \in [Instances -> RequestRecord]
    /\ runs \in Nat
    /\ answers \subseteq [doc : Documents, run : Nat, pages : Nat, chunks : Nat]
    /\ crashes \in Nat
    /\ dbErrors \in Nat

(* A document that summary, diff and trend may read (status "completed")    *)
(* has all its text in the store, stored by one single run, and its page    *)
(* count on record: whatever was retried, killed or run twice before.       *)
CompletedIsIndexed ==
    \A d \in Documents :
        docs[d].status = "completed" =>
            /\ docs[d].pages = PageCount(d)
            /\ \E r \in 1 .. MaxRuns : Stored(d, r)

(* Every chunk can be traced back to a page that its document really has,   *)
(* and its document has a record, also when the run that wrote it failed.   *)
ChunksTraceable ==
    \A c \in chunks :
        /\ docs[c.doc].status # "absent"
        /\ c.page \in 1 .. PageCount(c.doc)
        /\ c.ord \in 1 .. PageChunks[c.doc][c.page]

(* The answer of a successful /ingest tells the truth: its pages, and its   *)
(* chunks_created are the chunks this run has in the store, none lost.      *)
AnswersTruthful ==
    \A a \in answers :
        /\ a.pages = PageCount(a.doc)
        /\ Stored(a.doc, a.run)
        /\ a.chunks = Cardinality({c \in chunks : c.run = a.run})

(* As long as no instance was killed, a record has its file on some disk:   *)
(* the file is written before the record is inserted.                       *)
RecordHasFile ==
    crashes = 0 =>
        \A d \in Documents :
            docs[d].status # "absent" => \E i \in Instances : d \in disk[i]

(* While the service runs without faults, "ingesting" means that a handler  *)
(* is at work on the document, whatever runs overlap on it.                 *)
AtWork(d) ==
    \E i \in Instances : req[i].doc = d /\ req[i].pc \in {"extract", "saving", "failing"}

IngestingIsAtWork ==
    crashes = 0 /\ dbErrors = 0 =>
        \A d \in Documents : docs[d].status = "ingesting" => AtWork(d)

(* pdf_ingestion's header: a failed ingestion leaves the status "failed",   *)
(* no error is swallowed.  So "ingesting" would always mean work in         *)
(* progress, also after an instance was killed.                             *)
NoSilentFailure ==
    \A d \in Documents : docs[d].status = "ingesting" => AtWork(d)

(* Unless an instance dies or the database fails, an ingestion in progress  *)
(* comes to a verdict, whatever other requests for the document overlap     *)
(* with it: a reader who polls an "ingesting" document is eventually told   *)
(* how it ended.                                                            *)
IngestionDecides ==
    \A d \in Documents :
        docs[d].status = "ingesting" ~>
            \/ docs[d].status \in {"completed", "failed"}
            \/ crashes > 0
            \/ dbErrors > 0

-----------------------------------------------------------------------------
(* The service implements the document lifecycle: the record's status is    *)
(* the abstract status, a document is indexed once some run stored it all.  *)
Textless == {d \in Documents :
                \A p \in 1 .. PageCount(d) : PageChunks[d][p] = 0}

IndexedDocuments == {d \in Documents : \E r \in 1 .. MaxRuns : Stored(d, r)}

Lifecycle == INSTANCE DocumentLifecycle WITH
    status  <- [d \in Documents |-> docs[d].status],
    indexed <- IndexedDocuments

ImplementsLifecycle == Lifecycle!Spec

(* What is said of a document can be relied on: answers tell what has been  *)
(* stored, the file of a record is where it was written, and a document in  *)
(* the state ingesting is worked at unless the work was cut off.            *)
RecordsTruthful == AnswersTruthful /\ RecordHasFile /\ IngestingIsAtWork
=============================================================================
