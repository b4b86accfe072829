--------------------------- MODULE IngestionProofs ---------------------------
(***************************************************************************)
(* Proofs about module Ingestion, for any instances, documents, page       *)
(* layouts and numbers of faults.                                          *)
(***************************************************************************)
EXTENDS Ingestion, FiniteSetTheorems, TLAPS

LEMMA PageCountType ==
    ASSUME NEW d \in Documents
    PROVE  /\ PageCount(d) \in Nat
           /\ \A p \in 1 .. PageCount(d) : PageChunks[d][p] \in Nat
  BY IngestionAssumption DEF PageCount

-----------------------------------------------------------------------------
(* What each update of a request leaves of it. *)

LEMMA IdleRequest ==
    /\ Idle \in RequestRecord
    /\ Idle.pc = "idle" /\ Idle.doc = NoDocument
  BY DEF Idle, RequestRecord

LEMMA StartedRequest ==
    ASSUME NEW d \in Documents, NEW pc \in {"insert", "mark", "missing"},
           NEW s \in Status \cup {"absent"}, NEW r \in Nat
    PROVE  /\ [Idle EXCEPT !.pc = pc, !.doc = d] \in RequestRecord
           /\ [Idle EXCEPT !.pc = pc, !.doc = d, !.mem = s, !.run = r] \in RequestRecord
  BY DEF Idle, RequestRecord

LEMMA MovedRequest ==
    ASSUME NEW q \in RequestRecord, NEW pc \in {"extract", "failing", "saving"}
    PROVE  /\ [q EXCEPT !.pc = pc] \in RequestRecord
           /\ [q EXCEPT !.pc = pc, !.page = 1] \in RequestRecord
  BY DEF RequestRecord

LEMMA ChunkSavedRequest ==
    ASSUME NEW q \in RequestRecord
    PROVE  /\ ChunkSaved(q) \in RequestRecord
           /\ ChunkSaved(q).pc = q.pc /\ ChunkSaved(q).doc = q.doc
           /\ ChunkSaved(q).run = q.run /\ ChunkSaved(q).page = q.page
           /\ ChunkSaved(q).ord = q.ord + 1
<1> DEFINE n == q.ord + 1
           m == q.made + 1
<1>1. n \in Nat /\ m \in Nat
  BY DEF RequestRecord
<1>2. ChunkSaved(q) = [q EXCEPT !.ord = n, !.made = m]
  BY DEF ChunkSaved
<1> HIDE DEF n, m
<1>3. ChunkSaved(q) \in RequestRecord
  BY <1>1, <1>2 DEF RequestRecord
<1> QED
  BY <1>3 DEF RequestRecord, ChunkSaved

LEMMA PageTurnedRequest ==
    ASSUME NEW q \in RequestRecord
    PROVE  /\ PageTurned(q) \in RequestRecord
           /\ PageTurned(q).pc = q.pc /\ PageTurned(q).doc = q.doc
           /\ PageTurned(q).run = q.run /\ PageTurned(q).page = q.page + 1
           /\ PageTurned(q).ord = 0
<1> DEFINE n == q.page + 1
<1>1. n \in Nat
  BY DEF RequestRecord
<1>2. PageTurned(q) = [q EXCEPT !.page = n, !.ord = 0]
  BY DEF PageTurned
<1>3. n = q.page + 1
  OBVIOUS
<1> HIDE DEF n
<1>4. PageTurned(q) \in RequestRecord
  <2>1. [q EXCEPT !.page = n, !.ord = 0] \in RequestRecord
    BY <1>1 DEF RequestRecord
  <2> QED
    BY <1>2, <2>1
<1>5. /\ PageTurned(q).pc = q.pc /\ PageTurned(q).doc = q.doc
      /\ PageTurned(q).run = q.run
  BY <1>2 DEF RequestRecord
<1>6. PageTurned(q).page = n /\ PageTurned(q).ord = 0
  BY <1>2 DEF RequestRecord
<1> QED
  BY <1>3, <1>4, <1>5, <1>6

-----------------------------------------------------------------------------
(* Type correctness.  A handler that is at work has a document. *)

HasDocument == \A i \in Instances : req[i].pc # "idle" => req[i].doc \in Documents

ReqOK == req \in [Instances -> RequestRecord] /\ HasDocument

LEMMA ReqInit == IngestionInit => ReqOK
  BY IdleRequest DEF IngestionInit, ReqOK, HasDocument

LEMMA ReqBecome ==
    ASSUME ReqOK, NEW i \in Instances, NEW q \in RequestRecord,
           q.pc # "idle" => q.doc \in Documents, Become(i, q)
    PROVE  ReqOK'
  BY DEF ReqOK, HasDocument, Become

LEMMA ReqAnswer == ASSUME ReqOK, NEW i \in Instances, Answer(i) PROVE ReqOK'
  BY IdleRequest, ReqBecome DEF Answer

LEMMA ReqGoTo ==
    ASSUME ReqOK, NEW i \in Instances, req[i].pc # "idle",
           NEW pc \in {"extract", "failing", "saving"}, GoTo(i, pc)
    PROVE  ReqOK'
<1>1. req[i] \in RequestRecord /\ req[i].doc \in Documents
  BY DEF ReqOK, HasDocument
<1>2. [req[i] EXCEPT !.pc = pc] \in RequestRecord
  BY <1>1, MovedRequest
<1>3. [req[i] EXCEPT !.pc = pc].doc = req[i].doc
  BY <1>1 DEF RequestRecord
<1> QED
  BY <1>1, <1>2, <1>3, ReqBecome DEF GoTo

(* Everything but the requests. *)
StoreOK ==
    /\ disk \in [Instances -> SUBSET Documents]
    /\ docs \in [Documents -> [status : Status \cup {"absent"}, pages : Nat]]
    /\ chunks \subseteq ChunkRecord
    /\ runs \in Nat
    /\ answers \subseteq [doc : Documents, run : Nat, pages : Nat, chunks : Nat]
    /\ crashes \in Nat
    /\ dbErrors \in Nat

LEMMA TypeParts == IngestionTypeOK /\ HasDocument <=> ReqOK /\ StoreOK
  BY DEF IngestionTypeOK, ReqOK, StoreOK

LEMMA TypeInit == IngestionInit => ReqOK /\ StoreOK
  BY ReqInit DEF IngestionInit, StoreOK

LEMMA CallReq ==
    ASSUME ReqOK, StoreOK, NEW i \in Instances, Call(i)
    PROVE  ReqOK'
<1>1. ASSUME NEW d \in Documents, WriteFile(i, d)
      PROVE  ReqOK'
  <2> DEFINE q == [Idle EXCEPT !.pc = "insert", !.doc = d]
  <2>1. q \in RequestRecord /\ q.doc = d
    BY StartedRequest DEF Idle, Status
  <2> QED
    BY <1>1, <2>1, ReqBecome DEF WriteFile
<1>2. ASSUME NEW d \in Documents, StartIngest(i, d)
      PROVE  ReqOK'
  <2> DEFINE pc == IF d \in disk[i] THEN "mark" ELSE "missing"
             q == [Idle EXCEPT !.pc = pc, !.doc = d, !.mem = docs[d].status,
                               !.run = runs + 1]
  <2>1. docs[d].status \in Status \cup {"absent"} /\ runs + 1 \in Nat
    BY DEF StoreOK
  <2>2. q \in RequestRecord
    BY <2>1, StartedRequest
  <2>3. q.doc = d
    BY DEF Idle
  <2> QED
    BY <1>2, <2>2, <2>3, ReqBecome DEF StartIngest
<1> QED
  BY <1>1, <1>2 DEF Call

LEMMA ProceedReq ==
    ASSUME ReqOK, NEW i \in Instances, Proceed(i)
    PROVE  ReqOK'
<1>1. req[i] \in RequestRecord /\ (req[i].pc # "idle" => req[i].doc \in Documents)
  BY DEF ReqOK, HasDocument
<1>2. CASE ExtractPages(i)
  <2>1. [req[i] EXCEPT !.pc = "saving", !.page = 1] \in RequestRecord
    BY <1>1, MovedRequest
  <2>2. [req[i] EXCEPT !.pc = "saving", !.page = 1].doc = req[i].doc
    BY <1>1 DEF RequestRecord
  <2> QED
    BY <1>1, <1>2, <2>1, <2>2, ReqGoTo, ReqBecome DEF ExtractPages, At
<1>3. CASE SaveChunk(i)
  BY <1>1, <1>3, ChunkSavedRequest, ReqBecome DEF SaveChunk, OnPage, At
<1>4. CASE TurnPage(i)
  BY <1>1, <1>4, PageTurnedRequest, ReqBecome DEF TurnPage, OnPage, At
<1>5. CASE MarkIngesting(i)
  BY <1>5, ReqGoTo DEF MarkIngesting, At
<1> QED
  BY <1>2, <1>3, <1>4, <1>5, ReqAnswer
     DEF Proceed, InsertDocument, RejectDocument, MarkMissing, Complete, MarkFailed

LEMMA FaultReq ==
    ASSUME ReqOK, NEW i \in Instances, Fault(i)
    PROVE  ReqOK'
<1>1. CASE SaveChunkError(i)
  BY <1>1, ReqGoTo DEF SaveChunkError, OnPage, At
<1>2. CASE CompleteError(i)
  BY <1>2, ReqGoTo DEF CompleteError, AllPagesDone, At
<1> QED
  BY <1>1, <1>2, ReqAnswer DEF Fault, InsertError, MarkError, MarkFailedError, Crash
LEMMA StoreStep ==
    ASSUME ReqOK, StoreOK, [IngestionNext]_ingestionVars
    PROVE  StoreOK'
<1> USE DEF StoreOK
<1>1. CASE UNCHANGED ingestionVars
  BY <1>1 DEF ingestionVars
<1>2. ASSUME NEW i \in Instances, Call(i)
      PROVE  StoreOK'
  BY <1>2 DEF Call, WriteFile, StartIngest
<1>3. ASSUME NEW i \in Instances, Proceed(i) \/ Fault(i)
      PROVE  StoreOK'
  <2>1. /\ req[i] \in RequestRecord
        /\ req[i].pc # "idle" => req[i].doc \in Documents
    BY DEF ReqOK, HasDocument
  <2>2. req[i].page \in Nat /\ req[i].ord + 1 \in Nat /\ req[i].run \in Nat
        /\ req[i].made \in Nat
    BY <2>1 DEF RequestRecord
  <2>3. req[i].pc # "idle" => PageCount(req[i].doc) \in Nat
    BY <2>1, PageCountType
  <2>4. req[i].pc # "idle" => NextChunk(i) \in ChunkRecord
    BY <2>1, <2>2 DEF NextChunk, Chunk, ChunkRecord
  <2>5. req[i].pc # "idle" =>
            FailedRecord(i) \in [status : Status \cup {"absent"}, pages : Nat]
    BY <2>1, <2>3 DEF FailedRecord, Status
  <2>6. CASE InsertDocument(i) \/ RejectDocument(i) \/ InsertError(i)
    BY <2>1, <2>6 DEF InsertDocument, RejectDocument, InsertError, At, Save, Status,
                      DbError
  <2>7. CASE MarkMissing(i) \/ MarkIngesting(i) \/ MarkError(i)
    BY <2>1, <2>7 DEF MarkMissing, MarkIngesting, MarkError, At, SaveStatus, Status,
                      DbError
  <2>8. CASE ExtractPages(i) \/ TurnPage(i)
    BY <2>8 DEF ExtractPages, TurnPage
  <2>9. CASE SaveChunk(i) \/ SaveChunkError(i)
    BY <2>4, <2>9 DEF SaveChunk, SaveChunkError, OnPage, At, DbError
  <2>10. CASE Complete(i) \/ CompleteError(i)
    BY <2>1, <2>2, <2>3, <2>10, SMTT(30) DEF Complete, CompleteError, AllPagesDone, At, Save,
                                   Status, DbError
  <2>11. CASE MarkFailed(i) \/ MarkFailedError(i)
    BY <2>5, <2>11 DEF MarkFailed, MarkFailedError, At, DbError
  <2>12. CASE Crash(i)
    BY <2>12 DEF Crash
  <2> QED
    BY <1>3, <2>6, <2>7, <2>8, <2>9, <2>10, <2>11, <2>12 DEF Proceed, Fault
<1> QED
  BY <1>1, <1>2, <1>3 DEF IngestionNext

LEMMA TypeStep == ReqOK /\ StoreOK /\ [IngestionNext]_ingestionVars => ReqOK' /\ StoreOK'
<1> SUFFICES ASSUME ReqOK, StoreOK, [IngestionNext]_ingestionVars
             PROVE  ReqOK'
  BY StoreStep
<1>1. CASE UNCHANGED ingestionVars
  BY <1>1 DEF ingestionVars, ReqOK, HasDocument
<1> QED
  BY <1>1, CallReq, ProceedReq, FaultReq DEF IngestionNext

LEMMA TypeInvariant == IngestionSpec => [](ReqOK /\ StoreOK)
  BY TypeInit, TypeStep, PTL DEF IngestionSpec

(* Every reachable state is well typed: a status is one of the four the     *)
(* model allows, every chunk names a document, no cursor leaves Nat.        *)
THEOREM TypeCorrect == IngestionSpec => []IngestionTypeOK
  BY TypeInvariant, TypeParts, PTL

-----------------------------------------------------------------------------
(* The inductive invariant.  CompletedIsIndexed alone is not inductive: that *)
(* Complete may write "completed" follows from what the cursor of the        *)
(* ingestion says of the chunks already stored, and that no record is        *)
(* brought back from "absent" from what holds of every ingestion.            *)

Ingesting(i) == req[i].pc \in {"missing", "mark", "extract", "saving", "failing"}

KnownRun(i) ==
    /\ docs[req[i].doc].status # "absent"
    /\ req[i].run \in 1 .. runs

Passed(i, p, k) == p < req[i].page \/ (p = req[i].page /\ k <= req[i].ord)

Cursor(i) ==
    /\ req[i].page \in 1 .. PageCount(req[i].doc) + 1
    /\ req[i].page \in 1 .. PageCount(req[i].doc) =>
           req[i].ord <= PageChunks[req[i].doc][req[i].page]
    /\ \A p \in 1 .. PageCount(req[i].doc) :
           \A k \in 1 .. PageChunks[req[i].doc][p] :
               Passed(i, p, k) => Chunk(req[i].run, req[i].doc, p, k) \in chunks

RunOK(i) ==
    /\ Ingesting(i) => KnownRun(i)
    /\ req[i].pc \in {"mark", "extract"} => req[i].ord = 0
    /\ req[i].pc = "saving" => Cursor(i)

RunsOK == runs <= MaxRuns /\ \A i \in Instances : RunOK(i)

(* Records, chunks and run numbers are never taken back. *)
LEMMA Growth ==
    ASSUME ReqOK, StoreOK, [IngestionNext]_ingestionVars
    PROVE  /\ \A d \in Documents : docs[d].status # "absent" => docs'[d].status # "absent"
           /\ chunks \subseteq chunks'
           /\ runs <= runs'
<1> USE DEF StoreOK
<1>1. CASE UNCHANGED ingestionVars
  BY <1>1 DEF ingestionVars
<1>2. ASSUME NEW i \in Instances, Call(i)
      PROVE  /\ \A d \in Documents : docs[d].status # "absent" => docs'[d].status # "absent"
             /\ chunks \subseteq chunks' /\ runs <= runs'
  BY <1>2 DEF Call, WriteFile, StartIngest
<1>3. ASSUME NEW i \in Instances, Proceed(i) \/ Fault(i)
      PROVE  /\ \A d \in Documents : docs[d].status # "absent" => docs'[d].status # "absent"
             /\ chunks \subseteq chunks' /\ runs <= runs'
  <2>1. CASE InsertDocument(i) \/ RejectDocument(i) \/ InsertError(i)
    BY <2>1 DEF InsertDocument, RejectDocument, InsertError, Save
  <2>2. CASE MarkMissing(i) \/ MarkIngesting(i) \/ MarkError(i)
    BY <2>2 DEF MarkMissing, MarkIngesting, MarkError, SaveStatus
  <2>3. CASE ExtractPages(i) \/ TurnPage(i) \/ Crash(i)
    BY <2>3 DEF ExtractPages, TurnPage, Crash
  <2>4. CASE SaveChunk(i) \/ SaveChunkError(i)
    BY <2>4 DEF SaveChunk, SaveChunkError
  <2>5. CASE Complete(i) \/ CompleteError(i)
    BY <2>5 DEF Complete, CompleteError, Save
  <2>6. CASE MarkFailed(i) \/ MarkFailedError(i)
    BY <2>6 DEF MarkFailed, MarkFailedError, FailedRecord
  <2> QED
    BY <1>3, <2>1, <2>2, <2>3, <2>4, <2>5, <2>6 DEF Proceed, Fault
<1> QED
  BY <1>1, <1>2, <1>3 DEF IngestionNext

LEMMA RunsInit == IngestionInit => RunsOK
  BY IngestionAssumption, IdleRequest DEF IngestionInit, RunsOK, RunOK, Ingesting

(* What is known of a run that takes no step stays true. *)
LEMMA OtherRuns ==
    ASSUME ReqOK, StoreOK, RunsOK, [IngestionNext]_ingestionVars, NEW j \in Instances,
           req'[j] = req[j]
    PROVE  RunOK(j)'
<1>1. /\ req[j] \in RequestRecord
      /\ req[j].pc # "idle" => req[j].doc \in Documents
      /\ RunOK(j)
  BY DEF ReqOK, HasDocument, RunsOK
<1>2. ASSUME Ingesting(j)'
      PROVE  KnownRun(j)'
  <2>1. Ingesting(j) /\ req[j].doc \in Documents
    BY <1>1, <1>2 DEF Ingesting
  <2>2. KnownRun(j)
    BY <1>1, <2>1 DEF RunOK
  <2>3. runs \in Nat /\ runs' \in Nat /\ runs <= runs'
    BY Growth, StoreStep DEF StoreOK
  <2> QED
    BY <2>1, <2>2, <2>3, Growth DEF KnownRun
<1>3. ASSUME req'[j].pc = "saving"
      PROVE  Cursor(j)'
  <2>1. Cursor(j) /\ chunks \subseteq chunks'
    BY <1>1, <1>3, Growth DEF RunOK
  <2> QED
    BY <2>1 DEF Cursor, Passed
<1> QED
  BY <1>1, <1>2, <1>3 DEF RunOK

(* A step of an ingestion keeps what is known of its run. *)
LEMMA SameRun ==
    ASSUME ReqOK, StoreOK, RunsOK, [IngestionNext]_ingestionVars, NEW i \in Instances, Ingesting(i),
           req'[i].doc = req[i].doc, req'[i].run = req[i].run
    PROVE  KnownRun(i)'
<1>1. KnownRun(i) /\ req[i].doc \in Documents
  BY DEF RunsOK, RunOK, Ingesting, ReqOK, HasDocument
<1>2. runs \in Nat /\ runs' \in Nat /\ runs <= runs'
  BY Growth, StoreStep DEF StoreOK
<1> QED
  BY <1>1, <1>2, Growth DEF KnownRun

(* SaveChunk puts the chunk in the store that its new cursor claims. *)
LEMMA SaveChunkCursor ==
    ASSUME ReqOK, StoreOK, RunsOK, NEW i \in Instances, SaveChunk(i)
    PROVE  Cursor(i)'
<1> DEFINE d == req[i].doc
<1>1. /\ req[i] \in RequestRecord /\ req \in [Instances -> RequestRecord]
      /\ d \in Documents /\ req[i].pc = "saving"
      /\ req[i].page <= PageCount(d) /\ req[i].ord # PageChunks[d][req[i].page]
  BY DEF ReqOK, HasDocument, SaveChunk, OnPage, PageDone, At
<1>2. req'[i] = ChunkSaved(req[i])
  BY <1>1 DEF SaveChunk, Become
<1>3. /\ req'[i].doc = d /\ req'[i].run = req[i].run
      /\ req'[i].page = req[i].page /\ req'[i].ord = req[i].ord + 1
  BY <1>1, <1>2, ChunkSavedRequest
<1>4. Cursor(i)
  BY <1>1 DEF RunsOK, RunOK
<1>5. chunks' = chunks \cup {Chunk(req[i].run, d, req[i].page, req[i].ord + 1)}
  BY DEF SaveChunk, NextChunk
<1>6. /\ req[i].page \in Nat /\ req[i].ord \in Nat /\ PageCount(d) \in Nat
      /\ \A p \in 1 .. PageCount(d) : PageChunks[d][p] \in Nat
  BY <1>1, PageCountType DEF RequestRecord
<1>7. ASSUME NEW p \in 1 .. PageCount(d), NEW k \in 1 .. PageChunks[d][p], Passed(i, p, k)'
      PROVE  Chunk(req[i].run, d, p, k) \in chunks'
  <2>1. CASE p = req[i].page /\ k = req[i].ord + 1
    BY <1>5, <2>1
  <2>2. CASE ~(p = req[i].page /\ k = req[i].ord + 1)
    <3>1. Passed(i, p, k)
      BY <1>3, <1>6, <1>7, <2>2 DEF Passed
    <3> QED
      BY <1>4, <1>5, <3>1 DEF Cursor
  <2> QED
    BY <2>1, <2>2
<1>8. /\ req[i].page \in 1 .. PageCount(d)
      /\ req[i].ord + 1 <= PageChunks[d][req[i].page]
  BY <1>1, <1>4, <1>6 DEF Cursor
<1> QED
  BY <1>3, <1>6, <1>7, <1>8 DEF Cursor

(* A page is turned when its last chunk is stored: the next one starts at 0. *)
LEMMA TurnPageCursor ==
    ASSUME ReqOK, StoreOK, RunsOK, NEW i \in Instances, TurnPage(i)
    PROVE  Cursor(i)'
<1> DEFINE d == req[i].doc
<1>1. /\ req[i] \in RequestRecord /\ req \in [Instances -> RequestRecord]
      /\ d \in Documents /\ req[i].pc = "saving"
      /\ req[i].page <= PageCount(d) /\ req[i].ord = PageChunks[d][req[i].page]
      /\ chunks' = chunks
  BY DEF ReqOK, HasDocument, TurnPage, OnPage, PageDone, At
<1>2. req'[i] = PageTurned(req[i])
  BY <1>1 DEF TurnPage, Become
<1>3. /\ req'[i].doc = d /\ req'[i].run = req[i].run
      /\ req'[i].page = req[i].page + 1 /\ req'[i].ord = 0
  BY <1>1, <1>2, PageTurnedRequest
<1>4. Cursor(i)
  BY <1>1 DEF RunsOK, RunOK
<1>5. /\ req[i].page \in Nat /\ PageCount(d) \in Nat
      /\ \A p \in 1 .. PageCount(d) : PageChunks[d][p] \in Nat
  BY <1>1, PageCountType DEF RequestRecord
<1>6. ASSUME NEW p \in 1 .. PageCount(d), NEW k \in 1 .. PageChunks[d][p], Passed(i, p, k)'
      PROVE  Chunk(req[i].run, d, p, k) \in chunks
  <2>1. p \in Nat /\ k \in Nat /\ 1 <= k /\ k <= PageChunks[d][p]
    BY <1>5
  <2>2. p < req[i].page + 1
    BY <1>3, <1>6, <2>1 DEF Passed
  <2>3. Passed(i, p, k)
    BY <1>1, <1>5, <2>1, <2>2 DEF Passed
  <2> QED
    BY <1>4, <2>3 DEF Cursor
<1>7. req[i].page + 1 \in 1 .. PageCount(d) + 1
  BY <1>1, <1>5
<1> QED
  BY <1>1, <1>3, <1>5, <1>6, <1>7 DEF Cursor

LEMMA ExtractCursor ==
    ASSUME ReqOK, StoreOK, RunsOK, NEW i \in Instances, ExtractPages(i),
           req[i].doc \notin Unreadable
    PROVE  /\ Cursor(i)' /\ req'[i].pc = "saving"
           /\ req'[i].doc = req[i].doc /\ req'[i].run = req[i].run
<1> DEFINE d == req[i].doc
<1>1. /\ req[i] \in RequestRecord /\ req \in [Instances -> RequestRecord]
      /\ d \in Documents /\ req[i].pc = "extract" /\ req[i].ord = 0
  BY DEF ReqOK, HasDocument, ExtractPages, At, RunsOK, RunOK
<1>2. req'[i] = [req[i] EXCEPT !.pc = "saving", !.page = 1]
  BY <1>1 DEF ExtractPages, Become
<1>3. /\ req'[i].doc = d /\ req'[i].run = req[i].run /\ req'[i].pc = "saving"
      /\ req'[i].page = 1 /\ req'[i].ord = 0
  BY <1>1, <1>2 DEF RequestRecord
<1>4. /\ PageCount(d) \in Nat
      /\ \A p \in 1 .. PageCount(d) : PageChunks[d][p] \in Nat
  BY <1>1, PageCountType
<1>5. ASSUME NEW p \in 1 .. PageCount(d), NEW k \in 1 .. PageChunks[d][p]
      PROVE  ~Passed(i, p, k)'
  BY <1>3, <1>4 DEF Passed
<1> QED
  BY <1>3, <1>4, <1>5 DEF Cursor

LEMMA RunsStep ==
    ASSUME ReqOK, StoreOK, RunsOK, [IngestionNext]_ingestionVars
    PROVE  RunsOK'
<1>1. CASE UNCHANGED ingestionVars
  <2>1. \A j \in Instances : req'[j] = req[j]
    BY <1>1 DEF ingestionVars
  <2>2. runs' <= MaxRuns
    BY <1>1 DEF ingestionVars, RunsOK
  <2> QED
    BY <2>1, <2>2, OtherRuns DEF RunsOK
<1>2. SUFFICES ASSUME NEW i \in Instances, Call(i) \/ Proceed(i) \/ Fault(i)
               PROVE  RunsOK'
  BY <1>1 DEF IngestionNext
<1>3. /\ req \in [Instances -> RequestRecord]
      /\ req[i] \in RequestRecord
  BY DEF ReqOK
<1>4. ASSUME NEW q, Become(i, q)
      PROVE  /\ req'[i] = q
             /\ \A j \in Instances : j # i => req'[j] = req[j]
  BY <1>3, <1>4 DEF Become
<1>5. \A j \in Instances : j # i => req'[j] = req[j]
  BY <1>2, <1>4 DEF Call, WriteFile, StartIngest, Proceed, InsertDocument,
        RejectDocument, MarkMissing, MarkIngesting, ExtractPages, SaveChunk,
        TurnPage, Complete, MarkFailed, Fault, InsertError, MarkError,
        SaveChunkError, CompleteError, MarkFailedError, Crash, Answer, GoTo
<1>6. runs' <= MaxRuns
  <2>1. runs' = runs \/ (runs < MaxRuns /\ runs' = runs + 1)
    BY <1>2 DEF Call, WriteFile, StartIngest, Proceed, InsertDocument,
        RejectDocument, MarkMissing, MarkIngesting, ExtractPages, SaveChunk,
        TurnPage, Complete, MarkFailed, Fault, InsertError, MarkError,
        SaveChunkError, CompleteError, MarkFailedError, Crash
  <2> QED
    BY <2>1, IngestionAssumption DEF RunsOK, StoreOK
<1>7. SUFFICES RunOK(i)'
  BY <1>5, <1>6, OtherRuns DEF RunsOK
<1>8. CASE Answer(i)
  BY <1>4, <1>8, IdleRequest DEF Answer, RunOK, Ingesting
<1>9. ASSUME NEW pc \in {"extract", "failing"}, Ingesting(i), GoTo(i, pc),
             pc = "extract" => req[i].pc = "mark"
      PROVE  RunOK(i)'
  <2>1. req'[i] = [req[i] EXCEPT !.pc = pc]
    BY <1>4, <1>9 DEF GoTo
  <2>2. /\ req'[i].pc = pc /\ req'[i].doc = req[i].doc /\ req'[i].run = req[i].run
        /\ req'[i].ord = req[i].ord
    BY <1>3, <2>1 DEF RequestRecord
  <2>3. pc = "extract" => req[i].ord = 0
    BY <1>9 DEF RunsOK, RunOK
  <2> QED
    BY <1>9, <2>2, <2>3, SameRun DEF RunOK
<1>10. ASSUME NEW d \in Documents, WriteFile(i, d)
       PROVE  RunOK(i)'
  <2>1. req'[i] = [Idle EXCEPT !.pc = "insert", !.doc = d]
    BY <1>4, <1>10 DEF WriteFile
  <2>2. req'[i].pc = "insert"
    BY <2>1 DEF Idle
  <2> QED
    BY <2>2 DEF RunOK, Ingesting
<1>11. ASSUME NEW d \in Documents, StartIngest(i, d)
       PROVE  RunOK(i)'
  <2>1. req'[i] = [Idle EXCEPT !.pc = IF d \in disk[i] THEN "mark" ELSE "missing",
                               !.doc = d, !.mem = docs[d].status, !.run = runs + 1]
    BY <1>4, <1>11 DEF StartIngest
  <2>2. /\ req'[i].pc \in {"mark", "missing"} /\ req'[i].doc = d
        /\ req'[i].run = runs + 1 /\ req'[i].ord = 0
    BY <2>1 DEF Idle
  <2>3. docs'[d].status # "absent" /\ runs' = runs + 1 /\ runs \in Nat
    BY <1>11 DEF StartIngest, StoreOK
  <2> QED
    BY <2>2, <2>3 DEF RunOK, KnownRun
<1>12. CASE ExtractPages(i)
  <2>1. Ingesting(i) /\ req[i].pc = "extract"
    BY <1>12 DEF ExtractPages, At, Ingesting
  <2>2. CASE req[i].doc \in Unreadable
    BY <1>9, <1>12, <2>1, <2>2 DEF ExtractPages
  <2>3. CASE req[i].doc \notin Unreadable
    BY <1>12, <2>1, <2>3, ExtractCursor, SameRun DEF RunOK
  <2> QED
    BY <2>2, <2>3
<1>13. CASE SaveChunk(i)
  <2>1. Ingesting(i) /\ req'[i] = ChunkSaved(req[i]) /\ req[i].pc = "saving"
    BY <1>4, <1>13 DEF SaveChunk, OnPage, At, Ingesting
  <2>2. /\ req'[i].pc = req[i].pc /\ req'[i].doc = req[i].doc
        /\ req'[i].run = req[i].run
    BY <1>3, <2>1, ChunkSavedRequest
  <2>3. KnownRun(i)' /\ Cursor(i)'
    BY <1>13, <2>1, <2>2, SaveChunkCursor, SameRun
  <2> QED
    BY <2>1, <2>2, <2>3 DEF RunOK
<1>14. CASE TurnPage(i)
  <2>1. Ingesting(i) /\ req'[i] = PageTurned(req[i]) /\ req[i].pc = "saving"
    BY <1>4, <1>14 DEF TurnPage, OnPage, At, Ingesting
  <2>2. /\ req'[i].pc = req[i].pc /\ req'[i].doc = req[i].doc
        /\ req'[i].run = req[i].run
    BY <1>3, <2>1, PageTurnedRequest
  <2>3. KnownRun(i)' /\ Cursor(i)'
    BY <1>14, <2>1, <2>2, TurnPageCursor, SameRun
  <2> QED
    BY <2>1, <2>2, <2>3 DEF RunOK
<1>15. CASE MarkIngesting(i) \/ SaveChunkError(i) \/ CompleteError(i)
  BY <1>9, <1>15 DEF MarkIngesting, SaveChunkError, CompleteError, OnPage,
        AllPagesDone, At, Ingesting
<1> QED
  BY <1>2, <1>8, <1>10, <1>11, <1>12, <1>13, <1>14, <1>15
     DEF Call, Proceed, Fault, InsertDocument, RejectDocument, MarkMissing, Complete,
         MarkFailed, InsertError, MarkError, MarkFailedError, Crash

(* An ingestion that has passed its last page has stored every chunk. *)
LEMMA AllPagesStored ==
    ASSUME ReqOK, RunsOK, NEW i \in Instances, AllPagesDone(i)
    PROVE  Stored(req[i].doc, req[i].run)
<1> DEFINE d == req[i].doc
<1>1. /\ req[i] \in RequestRecord /\ d \in Documents /\ Cursor(i)
      /\ req[i].page > PageCount(d)
  BY DEF ReqOK, HasDocument, AllPagesDone, At, RunsOK, RunOK
<1>2. req[i].page \in Nat /\ PageCount(d) \in Nat
  BY <1>1, PageCountType DEF RequestRecord
<1>3. \A p \in 1 .. PageCount(d) : p < req[i].page
  BY <1>1, <1>2
<1> QED
  BY <1>1, <1>3 DEF Cursor, Passed, Stored

LEMMA StoredStays ==
    ASSUME ReqOK, StoreOK, [IngestionNext]_ingestionVars, NEW d \in Documents, NEW r, Stored(d, r)
    PROVE  Stored(d, r)'
  BY Growth DEF Stored

(* Whatever other runs did to the record, completing writes a verdict that  *)
(* the store already backs.                                                 *)
LEMMA CompleteIsBacked ==
    ASSUME ReqOK, StoreOK, RunsOK, NEW i \in Instances, AllPagesDone(i)
    PROVE  \E r \in 1 .. MaxRuns : Stored(req[i].doc, r)
<1>1. Stored(req[i].doc, req[i].run)
  BY AllPagesStored
<1>2. req[i].run \in 1 .. runs
  BY DEF AllPagesDone, At, RunsOK, RunOK, Ingesting, KnownRun
<1>3. req[i].run \in 1 .. MaxRuns
  BY <1>2, IngestionAssumption DEF RunsOK, StoreOK
<1> QED
  BY <1>1, <1>3

(* How a step may change the record of a document. *)
RecordStep(d) ==
    \/ docs'[d] = docs[d]
    \/ docs'[d].status \in {"uploaded", "ingesting", "failed"}
    \/ /\ docs'[d] = [status |-> "completed", pages |-> PageCount(d)]
       /\ \E r \in 1 .. MaxRuns : Stored(d, r)

LEMMA RecordSteps ==
    ASSUME ReqOK, StoreOK, RunsOK, [IngestionNext]_ingestionVars, NEW d \in Documents
    PROVE  RecordStep(d)
<1> USE DEF RecordStep, StoreOK
<1>1. CASE UNCHANGED ingestionVars
  BY <1>1 DEF ingestionVars
<1>2. ASSUME NEW i \in Instances, Call(i)
      PROVE  RecordStep(d)
  BY <1>2 DEF Call, WriteFile, StartIngest
<1>3. ASSUME NEW i \in Instances, Proceed(i) \/ Fault(i)
      PROVE  RecordStep(d)
  <2>1. CASE InsertDocument(i) \/ RejectDocument(i) \/ InsertError(i)
    BY <2>1 DEF InsertDocument, RejectDocument, InsertError, Save
  <2>2. CASE MarkMissing(i) \/ MarkIngesting(i) \/ MarkError(i)
    BY <2>2 DEF MarkMissing, MarkIngesting, MarkError, SaveStatus
  <2>3. CASE ExtractPages(i) \/ TurnPage(i) \/ Crash(i) \/ SaveChunk(i) \/ SaveChunkError(i)
    BY <2>3 DEF ExtractPages, TurnPage, Crash, SaveChunk, SaveChunkError
  <2>4. CASE Complete(i) \/ CompleteError(i)
    <3>1. AllPagesDone(i)
      BY <2>4 DEF Complete, CompleteError
    <3>2. \E r \in 1 .. MaxRuns : Stored(req[i].doc, r)
      BY <3>1, CompleteIsBacked
    <3> QED
      BY <2>4, <3>2 DEF Complete, CompleteError, Save
  <2>5. CASE MarkFailed(i) \/ MarkFailedError(i)
    BY <2>5 DEF MarkFailed, MarkFailedError, FailedRecord
  <2> QED
    BY <1>3, <2>1, <2>2, <2>3, <2>4, <2>5 DEF Proceed, Fault
<1> QED
  BY <1>1, <1>2, <1>3 DEF IngestionNext

LEMMA CompletedStep ==
    ASSUME ReqOK, StoreOK, RunsOK, CompletedIsIndexed, [IngestionNext]_ingestionVars
    PROVE  CompletedIsIndexed'
<1> SUFFICES ASSUME NEW d \in Documents, docs'[d].status = "completed"
             PROVE  /\ docs'[d].pages = PageCount(d)
                    /\ \E r \in 1 .. MaxRuns : Stored(d, r)'
  BY DEF CompletedIsIndexed
<1>1. docs'[d].pages = PageCount(d) /\ \E r \in 1 .. MaxRuns : Stored(d, r)
  <2>1. CASE docs'[d] = docs[d]
    BY <2>1 DEF CompletedIsIndexed
  <2>2. CASE /\ docs'[d] = [status |-> "completed", pages |-> PageCount(d)]
             /\ \E r \in 1 .. MaxRuns : Stored(d, r)
    BY <2>2
  <2>3. RecordStep(d)
    BY RecordSteps
  <2> QED
    BY <2>1, <2>2, <2>3 DEF RecordStep
<1>2. PICK r \in 1 .. MaxRuns : Stored(d, r)
  BY <1>1
<1>3. Stored(d, r)'
  BY <1>2, StoredStays
<1> QED
  BY <1>1, <1>3

Inductive == ReqOK /\ StoreOK /\ RunsOK /\ CompletedIsIndexed

LEMMA InductiveInvariant == IngestionSpec => []Inductive
<1>1. IngestionInit => Inductive
  BY TypeInit, RunsInit DEF IngestionInit, Inductive, CompletedIsIndexed
<1>2. Inductive /\ [IngestionNext]_ingestionVars => Inductive'
  BY TypeStep, RunsStep, CompletedStep DEF Inductive
<1> QED
  BY <1>1, <1>2, PTL DEF IngestionSpec

(* Whatever is retried, killed, lost or run twice: a document that reads    *)
(* "completed" has all its text in the store and its page count on record.  *)
THEOREM CompletedDocumentsAreIndexed == IngestionSpec => []CompletedIsIndexed
<1>1. Inductive => CompletedIsIndexed
  BY DEF Inductive
<1> QED
  BY <1>1, InductiveInvariant, PTL

-----------------------------------------------------------------------------
(* Provenance: a chunk is written from a cursor that stands on a page. *)

LEMMA NewChunkTraceable ==
    ASSUME ReqOK, StoreOK, RunsOK, NEW i \in Instances, OnPage(i), ~PageDone(i)
    PROVE  /\ NextChunk(i).doc \in Documents
           /\ docs[NextChunk(i).doc].status # "absent"
           /\ NextChunk(i).page \in 1 .. PageCount(NextChunk(i).doc)
           /\ NextChunk(i).ord \in 1 .. PageChunks[NextChunk(i).doc][NextChunk(i).page]
<1> DEFINE d == req[i].doc
<1>1. /\ req[i] \in RequestRecord /\ d \in Documents
      /\ Cursor(i) /\ KnownRun(i) /\ req[i].page <= PageCount(d)
      /\ req[i].ord # PageChunks[d][req[i].page]
  BY DEF ReqOK, HasDocument, OnPage, PageDone, At, RunsOK, RunOK, Ingesting
<1>2. /\ req[i].page \in Nat /\ req[i].ord \in Nat /\ PageCount(d) \in Nat
      /\ \A p \in 1 .. PageCount(d) : PageChunks[d][p] \in Nat
  BY <1>1, PageCountType DEF RequestRecord
<1>3. req[i].page \in 1 .. PageCount(d) /\ req[i].ord <= PageChunks[d][req[i].page]
  BY <1>1, <1>2 DEF Cursor
<1>4. /\ NextChunk(i).doc = d /\ NextChunk(i).page = req[i].page
      /\ NextChunk(i).ord = req[i].ord + 1
  BY DEF NextChunk, Chunk
<1> QED
  BY <1>1, <1>2, <1>3, <1>4 DEF KnownRun

LEMMA TraceableStep ==
    ASSUME ReqOK, StoreOK, RunsOK, ChunksTraceable, [IngestionNext]_ingestionVars
    PROVE  ChunksTraceable'
<1>1. ASSUME NEW c \in chunks
      PROVE  /\ docs'[c.doc].status # "absent"
             /\ c.page \in 1 .. PageCount(c.doc)
             /\ c.ord \in 1 .. PageChunks[c.doc][c.page]
  <2>1. c.doc \in Documents
    BY DEF StoreOK, ChunkRecord
  <2> QED
    BY <1>1, <2>1, Growth DEF ChunksTraceable
<1>2. CASE chunks' = chunks
  BY <1>1, <1>2 DEF ChunksTraceable
<1>3. ASSUME NEW i \in Instances, SaveChunk(i) \/ SaveChunkError(i),
             chunks' = chunks \cup {NextChunk(i)}
      PROVE  ChunksTraceable'
  <2>1. OnPage(i) /\ ~PageDone(i)
    BY <1>3 DEF SaveChunk, SaveChunkError
  <2> DEFINE c == NextChunk(i)
  <2>2. /\ docs'[c.doc].status # "absent"
        /\ c.page \in 1 .. PageCount(c.doc)
        /\ c.ord \in 1 .. PageChunks[c.doc][c.page]
    BY <2>1, NewChunkTraceable, Growth
  <2> QED
    BY <1>1, <1>3, <2>2 DEF ChunksTraceable
<1>4. CASE UNCHANGED ingestionVars
  BY <1>2, <1>4 DEF ingestionVars
<1>5. ASSUME NEW i \in Instances, Call(i) \/ Proceed(i) \/ Fault(i)
      PROVE  ChunksTraceable'
  BY <1>2, <1>3, <1>5
     DEF Call, WriteFile, StartIngest, Proceed, InsertDocument, RejectDocument,
         MarkMissing, MarkIngesting, ExtractPages, SaveChunk, TurnPage, Complete,
         MarkFailed, Fault, InsertError, MarkError, SaveChunkError, CompleteError,
         MarkFailedError, Crash
<1> QED
  BY <1>4, <1>5 DEF IngestionNext

(* Every chunk comes from a page its document has, and its document has a   *)
(* record: no failed, killed or repeated run leaves text without a source.  *)
THEOREM ChunksAreTraceable == IngestionSpec => []ChunksTraceable
<1>1. IngestionInit => ChunksTraceable
  BY DEF IngestionInit, ChunksTraceable
<1>2. Inductive /\ ChunksTraceable /\ [IngestionNext]_ingestionVars => ChunksTraceable'
  BY TraceableStep DEF Inductive
<1> QED
  BY <1>1, <1>2, InductiveInvariant, PTL DEF IngestionSpec

-----------------------------------------------------------------------------
(* Refinement of the document lifecycle.  An insertion finds no record, and *)
(* no other instance inserts the same document.                             *)

Inserting == \A i \in Instances : At(i, "insert") =>
                /\ docs[req[i].doc].status = "absent"
                /\ \A j \in Instances \ {i} : req[j].doc # req[i].doc

LEMMA InsertingInit == IngestionInit => Inserting
  BY IdleRequest DEF IngestionInit, Inserting, At

LEMMA InsertingStep ==
    ASSUME ReqOK, StoreOK, RunsOK, Inserting, [IngestionNext]_ingestionVars
    PROVE  Inserting'
<1>1. CASE UNCHANGED ingestionVars
  BY <1>1 DEF ingestionVars, Inserting, At
<1>2. SUFFICES ASSUME NEW j \in Instances, Call(j) \/ Proceed(j) \/ Fault(j)
               PROVE  Inserting'
  BY <1>1 DEF IngestionNext
<1>3. req \in [Instances -> RequestRecord] /\ NoDocument \notin Documents
  BY IngestionAssumption DEF ReqOK
<1>4. ASSUME NEW q, Become(j, q)
      PROVE  req'[j] = q /\ \A i \in Instances \ {j} : req'[i] = req[i]
  BY <1>3, <1>4 DEF Become
<1>5. ASSUME NEW d \in Documents, WriteFile(j, d)
      PROVE  Inserting'
  <2>1. req'[j] = [Idle EXCEPT !.pc = "insert", !.doc = d]
    BY <1>4, <1>5 DEF WriteFile
  <2>2. req'[j].doc = d
    BY <2>1 DEF Idle
  <2>3. \A i \in Instances \ {j} : req'[i] = req[i] /\ req[i].doc # d
    BY <1>4, <1>5 DEF WriteFile, Fresh
  <2>4. docs' = docs /\ docs[d].status = "absent"
    BY <1>5 DEF WriteFile, Fresh
  <2> QED
    BY <2>2, <2>3, <2>4 DEF Inserting, At
<1>6. ASSUME NEW d \in Documents, StartIngest(j, d)
      PROVE  Inserting'
  <2>1. req'[j] = [Idle EXCEPT !.pc = IF d \in disk[j] THEN "mark" ELSE "missing",
                               !.doc = d, !.mem = docs[d].status, !.run = runs + 1]
    BY <1>4, <1>6 DEF StartIngest
  <2>2. req'[j].doc = d /\ req'[j].pc # "insert"
    BY <2>1 DEF Idle
  <2>3. \A i \in Instances \ {j} : req'[i] = req[i]
    BY <1>4, <1>6 DEF StartIngest
  <2>4. docs' = docs /\ docs[d].status # "absent"
    BY <1>6 DEF StartIngest
  <2> QED
    BY <2>2, <2>3, <2>4 DEF Inserting, At
<1>7. ASSUME Proceed(j) \/ Fault(j)
      PROVE  Inserting'
  <2>1. \A i \in Instances \ {j} : req'[i] = req[i]
    BY <1>4, <1>7 DEF Proceed, InsertDocument, RejectDocument, MarkMissing,
          MarkIngesting, ExtractPages, SaveChunk, TurnPage, Complete, MarkFailed,
          Fault, InsertError, MarkError, SaveChunkError, CompleteError,
          MarkFailedError, Crash, Answer, GoTo
  <2>2. /\ req'[j].pc # "insert"
        /\ req'[j].doc \in {req[j].doc, NoDocument}
    <3>1. CASE Answer(j)
      BY <1>4, <3>1, IdleRequest DEF Answer
    <3>2. ASSUME NEW pc \in {"extract", "failing"}, GoTo(j, pc)
          PROVE  req'[j].pc # "insert" /\ req'[j].doc = req[j].doc
      <4>1. req'[j] = [req[j] EXCEPT !.pc = pc] /\ req[j] \in RequestRecord
        BY <1>3, <1>4, <3>2 DEF GoTo
      <4> QED
        BY <4>1 DEF RequestRecord
    <3>3. CASE Become(j, [req[j] EXCEPT !.pc = "saving", !.page = 1])
      <4>1. /\ req'[j] = [req[j] EXCEPT !.pc = "saving", !.page = 1]
            /\ req[j] \in RequestRecord
        BY <1>3, <1>4, <3>3
      <4> QED
        BY <4>1 DEF RequestRecord
    <3>4. CASE SaveChunk(j)
      <4>1. req'[j] = ChunkSaved(req[j]) /\ req[j].pc = "saving" /\ req[j] \in RequestRecord
        BY <1>3, <1>4, <3>4 DEF SaveChunk, OnPage, At
      <4>2. req'[j].pc = req[j].pc /\ req'[j].doc = req[j].doc
        BY <4>1, ChunkSavedRequest
      <4> QED
        BY <4>1, <4>2
    <3>5. CASE TurnPage(j)
      <4>1. req'[j] = PageTurned(req[j]) /\ req[j].pc = "saving" /\ req[j] \in RequestRecord
        BY <1>3, <1>4, <3>5 DEF TurnPage, OnPage, At
      <4>2. req'[j].pc = req[j].pc /\ req'[j].doc = req[j].doc
        BY <4>1, PageTurnedRequest
      <4> QED
        BY <4>1, <4>2
    <3> QED
      BY <1>7, <3>1, <3>2, <3>3, <3>4, <3>5
         DEF Proceed, InsertDocument, RejectDocument, MarkMissing, MarkIngesting,
             ExtractPages, Complete, MarkFailed, Fault, InsertError, MarkError,
             SaveChunkError, CompleteError, MarkFailedError, Crash
  <2>3. \A d \in Documents : d # req[j].doc => docs'[d] = docs[d]
    BY <1>7 DEF StoreOK, Proceed, InsertDocument, RejectDocument, MarkMissing,
          MarkIngesting, ExtractPages, SaveChunk, TurnPage, Complete, MarkFailed,
          Fault, InsertError, MarkError, SaveChunkError, CompleteError,
          MarkFailedError, Crash, Save, SaveStatus
  <2> SUFFICES ASSUME NEW i \in Instances, At(i, "insert")'
               PROVE  /\ docs'[req'[i].doc].status = "absent"
                      /\ \A k \in Instances \ {i} : req'[k].doc # req'[i].doc
    BY DEF Inserting
  <2>4. i # j /\ req'[i] = req[i] /\ At(i, "insert") /\ req[i].doc \in Documents
    BY <2>1, <2>2 DEF At, ReqOK, HasDocument
  <2>5. /\ docs[req[i].doc].status = "absent"
        /\ \A k \in Instances \ {i} : req[k].doc # req[i].doc
    BY <2>4 DEF Inserting
  <2> QED
    BY <1>3, <2>1, <2>2, <2>3, <2>4, <2>5
<1> QED
  BY <1>2, <1>5, <1>6, <1>7 DEF Call

(* What the abstract variables do when a record is written. *)
AbstractStatus == [d \in Documents |-> docs[d].status]

LEMMA RecordWritten ==
    ASSUME StoreOK, NEW d \in Documents, NEW s, docs'[d].status = s,
           \A e \in Documents : e # d => docs'[e] = docs[e]
    PROVE  AbstractStatus' = [AbstractStatus EXCEPT ![d] = s]
  BY DEF AbstractStatus

LEMMA StoreUnchanged ==
    ASSUME chunks' = chunks
    PROVE  IndexedDocuments' = IndexedDocuments
  BY DEF IndexedDocuments, Stored

LEMMA ChunkAdded ==
    ASSUME ReqOK, NEW i \in Instances, req[i].pc # "idle",
           chunks' = chunks \cup {NextChunk(i)}
    PROVE  \/ IndexedDocuments' = IndexedDocuments
           \/ IndexedDocuments' = IndexedDocuments \cup {req[i].doc}
<1> DEFINE d == req[i].doc
<1>1. d \in Documents
  BY DEF ReqOK, HasDocument
<1>2. ASSUME NEW e \in Documents, NEW r, Stored(e, r)
      PROVE  Stored(e, r)'
  BY <1>2 DEF Stored
<1>3. ASSUME NEW e \in Documents, e # d, NEW r, Stored(e, r)'
      PROVE  Stored(e, r)
  BY <1>3 DEF Stored, NextChunk, Chunk
<1>4. IndexedDocuments \subseteq IndexedDocuments'
  BY <1>2 DEF IndexedDocuments
<1>5. \A e \in IndexedDocuments' : e # d => e \in IndexedDocuments
  BY <1>3 DEF IndexedDocuments
<1> QED
  BY <1>1, <1>4, <1>5

LEMMA Register ==
    ASSUME StoreOK, NEW d \in Documents, docs[d].status = "absent", chunks' = chunks,
           Save(d, "uploaded", 0)
    PROVE  Lifecycle!Next
<1>1. AbstractStatus' = [AbstractStatus EXCEPT ![d] = "uploaded"]
  BY RecordWritten DEF StoreOK, Save
<1> QED
  BY <1>1, StoreUnchanged
     DEF AbstractStatus, Lifecycle!Next, Lifecycle!Register, Lifecycle!Present,
         Lifecycle!SetStatus

LEMMA Begin ==
    ASSUME StoreOK, NEW d \in Documents, docs[d].status # "absent", chunks' = chunks,
           docs' = [docs EXCEPT ![d].status = "ingesting"]
    PROVE  Lifecycle!Next
<1>1. AbstractStatus' = [AbstractStatus EXCEPT ![d] = "ingesting"]
  BY RecordWritten DEF StoreOK
<1> QED
  BY <1>1, StoreUnchanged
     DEF AbstractStatus, Lifecycle!Next, Lifecycle!Begin, Lifecycle!Present,
         Lifecycle!SetStatus

LEMMA Abort ==
    ASSUME StoreOK, NEW d \in Documents, docs[d].status # "absent", chunks' = chunks,
           docs'[d].status = "failed",
           \A e \in Documents : e # d => docs'[e] = docs[e]
    PROVE  Lifecycle!Next
<1>1. AbstractStatus' = [AbstractStatus EXCEPT ![d] = "failed"]
  BY RecordWritten
<1> QED
  BY <1>1, StoreUnchanged
     DEF AbstractStatus, Lifecycle!Next, Lifecycle!Abort, Lifecycle!Present,
         Lifecycle!SetStatus

LEMMA Finish ==
    ASSUME StoreOK, NEW d \in Documents, docs[d].status # "absent", chunks' = chunks,
           Save(d, "completed", PageCount(d)), \E r \in 1 .. MaxRuns : Stored(d, r)
    PROVE  Lifecycle!Next
<1>1. AbstractStatus' = [AbstractStatus EXCEPT ![d] = "completed"]
  BY RecordWritten DEF StoreOK, Save
<1>2. d \in IndexedDocuments
  BY DEF IndexedDocuments
<1> QED
  BY <1>1, <1>2, StoreUnchanged
     DEF AbstractStatus, Lifecycle!Next, Lifecycle!Finish, Lifecycle!Present,
         Lifecycle!SetStatus

LEMMA Stutter ==
    ASSUME docs' = docs, chunks' = chunks
    PROVE  UNCHANGED Lifecycle!lifecycle
  BY StoreUnchanged DEF Lifecycle!lifecycle

LEMMA StoreChunk ==
    ASSUME ReqOK, NEW i \in Instances, Ingesting(i), KnownRun(i), docs' = docs,
           chunks' = chunks \cup {NextChunk(i)}
    PROVE  [Lifecycle!Next]_(Lifecycle!lifecycle)
<1>1. req[i].doc \in Documents
  BY DEF ReqOK, HasDocument, Ingesting
<1>2. CASE IndexedDocuments' = IndexedDocuments
  BY <1>2 DEF Lifecycle!lifecycle
<1>3. CASE IndexedDocuments' = IndexedDocuments \cup {req[i].doc}
  BY <1>1, <1>3 DEF KnownRun, Lifecycle!Next, Lifecycle!Index, Lifecycle!Present
<1> QED
  BY <1>2, <1>3, ChunkAdded DEF Ingesting

LEMMA LifecycleInit == IngestionInit => Lifecycle!Init
<1> SUFFICES ASSUME IngestionInit
             PROVE  Lifecycle!Init
  OBVIOUS
<1> USE IngestionAssumption
<1>1. \A d \in Documents : \A p \in 1 .. PageCount(d) : PageChunks[d][p] \in Nat
  BY PageCountType
<1>2. ASSUME NEW d \in Documents
      PROVE  (\E r \in 1 .. MaxRuns : Stored(d, r))
                <=> \A p \in 1 .. PageCount(d) : PageChunks[d][p] = 0
  <2>1. ASSUME NEW p \in 1 .. PageCount(d), PageChunks[d][p] # 0
        PROVE  1 \in 1 .. PageChunks[d][p]
    BY <1>1, <2>1
  <2>2. \A r : Stored(d, r) => \A p \in 1 .. PageCount(d) : PageChunks[d][p] = 0
    BY <2>1 DEF Stored, IngestionInit
  <2>3. (\A p \in 1 .. PageCount(d) : PageChunks[d][p] = 0) => Stored(d, 1)
    BY DEF Stored
  <2>4. 1 \in 1 .. MaxRuns
    OBVIOUS
  <2> QED
    BY <2>2, <2>3, <2>4
<1>3. IndexedDocuments = Textless
  BY <1>2 DEF IndexedDocuments, Textless
<1>4. AbstractStatus = [d \in Documents |-> "absent"]
  BY DEF IngestionInit, AbstractStatus
<1> QED
  BY <1>3, <1>4 DEF Lifecycle!Init, AbstractStatus

LEMMA LifecycleStep ==
    ASSUME Inductive, Inserting, [IngestionNext]_ingestionVars
    PROVE  [Lifecycle!Next]_(Lifecycle!lifecycle)
<1> USE DEF Inductive
<1>1. CASE UNCHANGED ingestionVars
  BY <1>1, Stutter DEF ingestionVars
<1>2. ASSUME NEW i \in Instances, Call(i)
      PROVE  [Lifecycle!Next]_(Lifecycle!lifecycle)
  BY <1>2, Stutter DEF Call, WriteFile, StartIngest
<1>3. ASSUME NEW i \in Instances, Proceed(i) \/ Fault(i)
      PROVE  [Lifecycle!Next]_(Lifecycle!lifecycle)
  <2> DEFINE d == req[i].doc
  <2>1. req[i].pc # "idle" => d \in Documents
    BY DEF ReqOK, HasDocument
  <2>2. Ingesting(i) => KnownRun(i) /\ d \in Documents /\ docs[d].status # "absent"
    BY <2>1 DEF RunsOK, RunOK, KnownRun, Ingesting
  <2>3. CASE InsertDocument(i) \/ RejectDocument(i) \/ InsertError(i)
    <3>1. At(i, "insert") /\ d \in Documents /\ docs[d].status = "absent"
      BY <2>1, <2>3 DEF InsertDocument, RejectDocument, InsertError, At, Inserting
    <3> QED
      BY <2>3, <3>1, Register, Stutter DEF InsertDocument, RejectDocument, InsertError
  <2>4. CASE MarkMissing(i) \/ (MarkError(i) /\ At(i, "missing"))
    <3>1. d \in Documents /\ docs[d].status # "absent" /\ chunks' = chunks
      BY <2>2, <2>4 DEF MarkMissing, MarkError, At, Ingesting
    <3>2. docs' = docs \/ SaveStatus(i, "failed")
      BY <2>4 DEF MarkMissing, MarkError, At
    <3>3. CASE docs' = docs
      BY <3>1, <3>3, Stutter
    <3>4. CASE SaveStatus(i, "failed") /\ req[i].mem = "failed"
      BY <3>1, <3>3, <3>4 DEF SaveStatus, StoreOK
    <3>5. CASE SaveStatus(i, "failed") /\ req[i].mem # "failed"
      BY <3>1, <3>5, Abort DEF SaveStatus, StoreOK
    <3> QED
      BY <3>2, <3>3, <3>4, <3>5
  <2>5. CASE MarkIngesting(i) \/ (MarkError(i) /\ At(i, "mark"))
    <3>1. d \in Documents /\ docs[d].status # "absent" /\ chunks' = chunks
      BY <2>2, <2>5 DEF MarkIngesting, MarkError, At, Ingesting
    <3>2. docs' = docs \/ SaveStatus(i, "ingesting")
      BY <2>5 DEF MarkIngesting, MarkError, At
    <3>3. CASE docs' = docs
      BY <3>1, <3>3, Stutter
    <3>4. CASE SaveStatus(i, "ingesting") /\ req[i].mem = "ingesting"
      BY <3>1, <3>3, <3>4 DEF SaveStatus, StoreOK
    <3>5. CASE SaveStatus(i, "ingesting") /\ req[i].mem # "ingesting"
      BY <3>1, <3>5, Begin DEF SaveStatus
    <3> QED
      BY <3>2, <3>3, <3>4, <3>5
  <2>6. CASE ExtractPages(i) \/ TurnPage(i) \/ Crash(i)
    BY <2>6, Stutter DEF ExtractPages, TurnPage, Crash
  <2>7. CASE SaveChunk(i) \/ SaveChunkError(i)
    <3>1. Ingesting(i) /\ docs' = docs
      BY <2>7 DEF SaveChunk, SaveChunkError, OnPage, At, Ingesting
    <3> QED
      BY <2>2, <2>7, <3>1, StoreChunk, Stutter DEF SaveChunk, SaveChunkError
  <2>8. CASE Complete(i) \/ CompleteError(i)
    <3>1. AllPagesDone(i) /\ Ingesting(i) /\ chunks' = chunks
      BY <2>8 DEF Complete, CompleteError, AllPagesDone, At, Ingesting
    <3>2. \E r \in 1 .. MaxRuns : Stored(d, r)
      BY <3>1, CompleteIsBacked
    <3> QED
      BY <2>2, <2>8, <3>1, <3>2, Finish, Stutter DEF Complete, CompleteError
  <2>9. CASE MarkFailed(i) \/ MarkFailedError(i)
    <3>1. Ingesting(i) /\ chunks' = chunks
      BY <2>9 DEF MarkFailed, MarkFailedError, At, Ingesting
    <3>2. docs' = docs \/ docs' = [docs EXCEPT ![d] = FailedRecord(i)]
      BY <2>9 DEF MarkFailed, MarkFailedError
    <3>3. ASSUME docs' = [docs EXCEPT ![d] = FailedRecord(i)]
          PROVE  Lifecycle!Next
      <4>1. docs'[d].status = "failed" /\ \A e \in Documents : e # d => docs'[e] = docs[e]
        BY <2>2, <3>1, <3>3 DEF FailedRecord, StoreOK
      <4> QED
        BY <2>2, <3>1, <4>1, Abort
    <3> QED
      BY <3>1, <3>2, <3>3, Stutter
  <2> QED
    BY <1>3, <2>3, <2>4, <2>5, <2>6, <2>7, <2>8, <2>9 DEF Proceed, Fault, MarkError
<1> QED
  BY <1>1, <1>2, <1>3 DEF IngestionNext

(* Two instances, crashes, lost acknowledgements and all: what a reader of  *)
(* the status sees is the document lifecycle, and nothing else.             *)
THEOREM Refinement == IngestionSpec => ImplementsLifecycle
<1>1. IngestionSpec => []Inductive
  BY InductiveInvariant
<1>2. Inductive /\ Inserting /\ [IngestionNext]_ingestionVars => Inserting'
  BY InsertingStep DEF Inductive
<1>3. IngestionSpec => []Inserting
  BY <1>1, <1>2, InsertingInit, PTL DEF IngestionSpec
<1>4. Inductive /\ Inserting /\ [IngestionNext]_ingestionVars => [Lifecycle!Next]_(Lifecycle!lifecycle)
  BY LifecycleStep
<1>5. IngestionSpec => Lifecycle!Init /\ [][Lifecycle!Next]_(Lifecycle!lifecycle)
  BY <1>1, <1>3, <1>4, LifecycleInit, PTL DEF IngestionSpec
<1> QED
  BY <1>5 DEF ImplementsLifecycle, Lifecycle!Spec

-----------------------------------------------------------------------------
(* What is said of a document can be relied on.  First the answers: a chunk *)
(* belongs to one run, no two ingestions share a run, and what an ingestion *)
(* has counted is what its run has in the store.                            *)

RunChunks(r) == {c \in chunks : c.run = r}

Numbered ==
    /\ \A c \in chunks : c.run \in 1 .. runs
    /\ \A a \in answers : a.run \in 1 .. runs

Apart ==
    \A i \in Instances : Ingesting(i) =>
        /\ \A j \in Instances : i # j /\ Ingesting(j) => req[i].run # req[j].run
        /\ \A a \in answers : req[i].run # a.run

CountOK(i) ==
    /\ req[i].pc \in {"missing", "mark", "extract"} =>
           RunChunks(req[i].run) = {} /\ req[i].made = 0
    /\ req[i].pc = "saving" =>
           /\ IsFiniteSet(RunChunks(req[i].run))
           /\ Cardinality(RunChunks(req[i].run)) = req[i].made
           /\ \A c \in RunChunks(req[i].run) : Passed(i, c.page, c.ord)

AnswerOK(a) ==
    /\ a.pages = PageCount(a.doc)
    /\ Stored(a.doc, a.run)
    /\ IsFiniteSet(RunChunks(a.run))
    /\ a.chunks = Cardinality(RunChunks(a.run))

Counted ==
    /\ Numbered
    /\ Apart
    /\ \A i \in Instances : CountOK(i)
    /\ \A a \in answers : AnswerOK(a)

(* What a step of instance i does to its ingestion: it is started, ... *)
Starts(i) ==
    /\ req'[i].pc \in {"missing", "mark"} /\ req'[i].made = 0
    /\ req'[i].run = runs + 1 /\ runs' = runs + 1
    /\ UNCHANGED <<chunks, answers>>

(* ... moves on without storing text, ... *)
MovesOn(i) ==
    /\ Ingesting(i) /\ req'[i].run = req[i].run
    /\ \/ req[i].pc = "mark" /\ req'[i].pc = "extract" /\ req'[i].made = req[i].made
       \/ req[i].pc = "extract" /\ req'[i].pc = "saving" /\ req'[i].made = req[i].made
       \/ /\ req[i].pc = "saving" /\ req'[i].pc = "saving"
          /\ req'[i].made = req[i].made /\ req'[i].page = req[i].page + 1
       \/ req'[i].pc = "failing"
    /\ UNCHANGED <<chunks, answers, runs>>

(* ... stores the next chunk, perhaps without being told so, ... *)
Stores(i) ==
    /\ Ingesting(i) /\ req[i].pc = "saving" /\ req'[i].run = req[i].run
    /\ chunks' = chunks \cup {NextChunk(i)}
    /\ \/ /\ req'[i].pc = "saving" /\ req'[i].page = req[i].page
          /\ req'[i].ord = req[i].ord + 1 /\ req'[i].made = req[i].made + 1
       \/ req'[i].pc = "failing"
    /\ UNCHANGED <<answers, runs>>

(* ... or ends, with or without an answer. *)
OwnAnswer(i) == [doc |-> req[i].doc, run |-> req[i].run,
                 pages |-> PageCount(req[i].doc), chunks |-> req[i].made]

Ends(i) ==
    /\ req'[i].pc \in {"idle", "insert"}
    /\ \/ UNCHANGED answers
       \/ AllPagesDone(i) /\ answers' = answers \cup {OwnAnswer(i)}
    /\ UNCHANGED <<chunks, runs>>

LEMMA ActorStep ==
    ASSUME ReqOK, NEW i \in Instances, Call(i) \/ Proceed(i) \/ Fault(i)
    PROVE  /\ \A j \in Instances : j # i => req'[j] = req[j]
           /\ Starts(i) \/ MovesOn(i) \/ Stores(i) \/ Ends(i)
<1>1. req \in [Instances -> RequestRecord] /\ req[i] \in RequestRecord
  BY DEF ReqOK
<1>2. ASSUME NEW q, Become(i, q)
      PROVE  /\ req'[i] = q
             /\ \A j \in Instances : j # i => req'[j] = req[j]
  BY <1>1, <1>2 DEF Become
<1>3. \A j \in Instances : j # i => req'[j] = req[j]
  BY <1>2 DEF Call, WriteFile, StartIngest, Proceed, InsertDocument,
        RejectDocument, MarkMissing, MarkIngesting, ExtractPages, SaveChunk,
        TurnPage, Complete, MarkFailed, Fault, InsertError, MarkError,
        SaveChunkError, CompleteError, MarkFailedError, Crash, Answer, GoTo
<1>4. ASSUME Answer(i)
      PROVE  req'[i].pc = "idle"
  BY <1>2, <1>4, IdleRequest DEF Answer
<1>5. ASSUME NEW pc \in {"extract", "failing"}, GoTo(i, pc)
      PROVE  /\ req'[i].pc = pc /\ req'[i].run = req[i].run
             /\ req'[i].made = req[i].made
  <2>1. req'[i] = [req[i] EXCEPT !.pc = pc]
    BY <1>2, <1>5 DEF GoTo
  <2> QED
    BY <1>1, <2>1 DEF RequestRecord
<1>6. CASE Call(i)
  <2>1. PICK d \in Documents : WriteFile(i, d) \/ StartIngest(i, d)
    BY <1>6 DEF Call
  <2>2. CASE WriteFile(i, d)
    <3>1. req'[i] = [Idle EXCEPT !.pc = "insert", !.doc = d]
      BY <1>2, <2>2 DEF WriteFile
    <3>2. req'[i].pc = "insert"
      BY <3>1 DEF Idle
    <3> QED
      BY <1>3, <2>2, <3>2 DEF WriteFile, Ends
  <2>3. CASE StartIngest(i, d)
    <3>1. req'[i] = [Idle EXCEPT !.pc = IF d \in disk[i] THEN "mark" ELSE "missing",
                                 !.doc = d, !.mem = docs[d].status, !.run = runs + 1]
      BY <1>2, <2>3 DEF StartIngest
    <3>2. /\ req'[i].pc \in {"mark", "missing"} /\ req'[i].made = 0
          /\ req'[i].run = runs + 1
      BY <3>1 DEF Idle
    <3> QED
      BY <1>3, <2>3, <3>2 DEF StartIngest, Starts
  <2> QED
    BY <2>1, <2>2, <2>3
<1>7. CASE InsertDocument(i) \/ RejectDocument(i) \/ MarkMissing(i) \/ MarkFailed(i)
           \/ InsertError(i) \/ MarkError(i) \/ MarkFailedError(i) \/ Crash(i)
  BY <1>3, <1>4, <1>7 DEF InsertDocument, RejectDocument, MarkMissing, MarkFailed,
     InsertError, MarkError, MarkFailedError, Crash, Ends
<1>8. CASE MarkIngesting(i)
  BY <1>3, <1>5, <1>8 DEF MarkIngesting, At, MovesOn, Ingesting
<1>9. CASE ExtractPages(i)
  <2>1. CASE req[i].doc \in Unreadable
    BY <1>3, <1>5, <1>9, <2>1 DEF ExtractPages, At, MovesOn, Ingesting
  <2>2. CASE req[i].doc \notin Unreadable
    <3>1. req'[i] = [req[i] EXCEPT !.pc = "saving", !.page = 1]
      BY <1>2, <1>9, <2>2 DEF ExtractPages
    <3>2. /\ req'[i].pc = "saving" /\ req'[i].run = req[i].run
          /\ req'[i].made = req[i].made
      BY <1>1, <3>1 DEF RequestRecord
    <3> QED
      BY <1>3, <1>9, <3>2 DEF ExtractPages, At, MovesOn, Ingesting
  <2> QED
    BY <2>1, <2>2
<1>10. CASE SaveChunk(i)
  <2>1. req'[i] = ChunkSaved(req[i]) /\ req[i].pc = "saving"
    BY <1>2, <1>10 DEF SaveChunk, OnPage, At
  <2>2. /\ req'[i].pc = "saving" /\ req'[i].run = req[i].run
        /\ req'[i].page = req[i].page /\ req'[i].ord = req[i].ord + 1
    BY <1>1, <2>1, ChunkSavedRequest
  <2>3. req'[i].made = req[i].made + 1
    BY <1>1, <2>1 DEF ChunkSaved, RequestRecord
  <2> QED
    BY <1>3, <1>10, <2>1, <2>2, <2>3 DEF SaveChunk, Stores, Ingesting
<1>11. CASE TurnPage(i)
  <2>1. req'[i] = PageTurned(req[i]) /\ req[i].pc = "saving"
    BY <1>2, <1>11 DEF TurnPage, OnPage, At
  <2>2. /\ req'[i].pc = "saving" /\ req'[i].run = req[i].run
        /\ req'[i].page = req[i].page + 1
    BY <1>1, <2>1, PageTurnedRequest
  <2>3. req'[i].made = req[i].made
    BY <1>1, <2>1 DEF PageTurned, RequestRecord
  <2> QED
    BY <1>3, <1>11, <2>1, <2>2, <2>3 DEF TurnPage, MovesOn, Ingesting
<1>12. CASE Complete(i)
  BY <1>3, <1>4, <1>12 DEF Complete, Ends, OwnAnswer
<1>13. CASE SaveChunkError(i) \/ CompleteError(i)
  BY <1>3, <1>5, <1>13 DEF SaveChunkError, CompleteError, OnPage, AllPagesDone, At,
     MovesOn, Stores, Ingesting
<1> QED
  BY <1>6, <1>7, <1>8, <1>9, <1>10, <1>11, <1>12, <1>13 DEF Proceed, Fault

LEMMA RunTypes ==
    ASSUME ReqOK, StoreOK
    PROVE  /\ runs \in Nat
           /\ \A i \in Instances : /\ req[i].run \in Nat /\ req[i].page \in Nat
                                   /\ req[i].ord \in Nat /\ req[i].made \in Nat
           /\ \A c \in chunks : c.run \in Nat /\ c.page \in Nat /\ c.ord \in Nat
           /\ \A a \in answers : a.run \in Nat /\ a.doc \in Documents
  BY DEF ReqOK, StoreOK, RequestRecord, ChunkRecord

(* The next chunk is not in the store yet, and it is the next to be counted. *)
LEMMA StoresCounted ==
    ASSUME ReqOK, StoreOK, StoreOK', ReqOK', NEW i \in Instances, CountOK(i), Stores(i)
    PROVE  CountOK(i)'
<1> DEFINE r == req[i].run
           n == NextChunk(i)
<1>1. /\ n.run = r /\ n.page = req[i].page /\ n.ord = req[i].ord + 1
  BY DEF NextChunk, Chunk
<1>2. /\ IsFiniteSet(RunChunks(r)) /\ Cardinality(RunChunks(r)) = req[i].made
      /\ \A c \in RunChunks(r) : Passed(i, c.page, c.ord)
  BY DEF Stores, CountOK
<1>3. RunChunks(r)' = RunChunks(r) \cup {n}
  <2>1. r' = r /\ chunks' = chunks \cup {n}
    BY DEF Stores
  <2> HIDE DEF n
  <2> QED
    BY <1>1, <2>1 DEF RunChunks
<1>4. n \notin RunChunks(r)
  BY <1>1, <1>2, RunTypes DEF Passed
<1>5. IsFiniteSet(RunChunks(r)') /\ Cardinality(RunChunks(r)') = req[i].made + 1
  <2> HIDE DEF n
  <2> QED
    BY <1>2, <1>3, <1>4, FS_AddElement
<1>6. ASSUME NEW c \in RunChunks(r)', req'[i].pc = "saving"
      PROVE  Passed(i, c.page, c.ord)'
  <2>1. req'[i].page = req[i].page /\ req'[i].ord = req[i].ord + 1
    BY <1>6 DEF Stores
  <2>2. CASE c \in RunChunks(r)
    <3>1. c \in chunks /\ Passed(i, c.page, c.ord)
      BY <1>2, <2>2 DEF RunChunks
    <3> QED
      BY <2>1, <3>1, RunTypes DEF Passed
  <2>3. CASE c = n
    BY <1>1, <2>1, <2>3, RunTypes DEF Passed
  <2> QED
    BY <1>3, <2>2, <2>3
<1> QED
  BY <1>5, <1>6 DEF Stores, CountOK

LEMMA MovesOnCounted ==
    ASSUME ReqOK, StoreOK, NEW i \in Instances, CountOK(i), MovesOn(i)
    PROVE  CountOK(i)'
<1>1. RunChunks(req[i].run)' = RunChunks(req[i].run) /\ req'[i].run = req[i].run
  BY DEF RunChunks, MovesOn
<1>2. \A c \in RunChunks(req[i].run) : c \in chunks
  BY DEF RunChunks
<1>3. CASE req[i].pc = "mark" /\ req'[i].pc = "extract" /\ req'[i].made = req[i].made
  BY <1>1, <1>3 DEF CountOK
<1>4. CASE req[i].pc = "extract" /\ req'[i].pc = "saving" /\ req'[i].made = req[i].made
  BY <1>1, <1>4, FS_EmptySet DEF CountOK
<1>5. CASE /\ req[i].pc = "saving" /\ req'[i].pc = "saving"
           /\ req'[i].made = req[i].made /\ req'[i].page = req[i].page + 1
  <2>1. \A c \in RunChunks(req[i].run) : Passed(i, c.page, c.ord)'
    BY <1>2, <1>5, RunTypes DEF CountOK, Passed
  <2> QED
    BY <1>1, <1>5, <2>1 DEF CountOK
<1> QED
  BY <1>3, <1>4, <1>5 DEF MovesOn, CountOK

(* A run that neither stores nor loses text keeps its chunks. *)
LEMMA RunUntouched ==
    ASSUME ReqOK, NEW i \in Instances, NEW r,
           UNCHANGED chunks \/ (Stores(i) /\ req[i].run # r)
    PROVE  RunChunks(r)' = RunChunks(r)
<1>1. NextChunk(i).run = req[i].run
  BY DEF NextChunk, Chunk
<1> QED
  BY <1>1 DEF RunChunks, Stores

LEMMA OtherCounted ==
    ASSUME ReqOK, NEW j \in Instances, CountOK(j), req'[j] = req[j],
           Ingesting(j) => RunChunks(req[j].run)' = RunChunks(req[j].run)
    PROVE  CountOK(j)'
  BY DEF CountOK, Passed, Ingesting

LEMMA CountedStep ==
    ASSUME ReqOK, StoreOK, RunsOK, Counted, [IngestionNext]_ingestionVars
    PROVE  Counted'
<1>1. CASE UNCHANGED ingestionVars
  BY <1>1 DEF ingestionVars, Counted, Numbered, Apart, CountOK, AnswerOK, RunChunks, Stored,
     Passed, Ingesting
<1>2. SUFFICES ASSUME NEW i \in Instances, Call(i) \/ Proceed(i) \/ Fault(i)
               PROVE  Counted'
  BY <1>1 DEF IngestionNext
<1>3. /\ \A j \in Instances : j # i => req'[j] = req[j]
      /\ Starts(i) \/ MovesOn(i) \/ Stores(i) \/ Ends(i)
  BY <1>2, ActorStep
<1>4. ReqOK' /\ StoreOK' /\ runs \in Nat /\ runs' \in Nat
  BY TypeStep DEF StoreOK
<1>5. /\ Numbered /\ Apart /\ (\A j \in Instances : CountOK(j))
      /\ \A a \in answers : AnswerOK(a)
  BY DEF Counted
<1>6. \A j \in Instances : Ingesting(j) => req[j].run \in 1 .. runs
  BY DEF RunsOK, RunOK, KnownRun
<1>7. Numbered'
  <2>1. runs <= runs'
    BY Growth
  <2>2. \A c \in chunks' : c \in chunks \/ (Ingesting(i) /\ c.run = req[i].run)
    BY <1>3 DEF Starts, MovesOn, Stores, Ends, NextChunk, Chunk
  <2>3. \A a \in answers' : a \in answers \/ (Ingesting(i) /\ a.run = req[i].run)
    BY <1>3 DEF Starts, MovesOn, Stores, Ends, OwnAnswer, AllPagesDone, At, Ingesting
  <2> QED
    BY <1>4, <1>5, <1>6, <2>1, <2>2, <2>3 DEF Numbered
<1>8. Apart'
  <2>1. CASE Starts(i)
    <3>1. \A j \in Instances : j # i /\ Ingesting(j)' => Ingesting(j) /\ req'[j].run = req[j].run
      BY <1>3 DEF Ingesting
    <3> QED
      BY <1>3, <1>4, <1>5, <1>6, <2>1, <3>1 DEF Starts, Apart, Numbered
  <2>2. CASE MovesOn(i) \/ Stores(i)
    <3>1. \A j \in Instances : Ingesting(j)' => Ingesting(j) /\ req'[j].run = req[j].run
      BY <1>3, <2>2 DEF Ingesting, MovesOn, Stores
    <3>2. answers' = answers
      BY <2>2 DEF MovesOn, Stores
    <3> QED
      BY <1>5, <3>1, <3>2 DEF Apart
  <2>3. CASE Ends(i)
    <3>1. \A j \in Instances : Ingesting(j)' => j # i /\ Ingesting(j) /\ req'[j].run = req[j].run
      BY <1>3, <2>3 DEF Ingesting, Ends
    <3>2. \A a \in answers' : a \in answers \/ (Ingesting(i) /\ a.run = req[i].run)
      BY <2>3 DEF Ends, OwnAnswer, AllPagesDone, At, Ingesting
    <3> QED
      BY <1>5, <3>1, <3>2 DEF Apart
  <2> QED
    BY <1>3, <2>1, <2>2, <2>3
<1>9. ASSUME NEW j \in Instances
      PROVE  CountOK(j)'
  <2>1. CASE j # i
    <3>1. Ingesting(j) /\ Stores(i) => req[i].run # req[j].run
      BY <1>5, <2>1 DEF Apart, Stores
    <3>2. UNCHANGED chunks \/ Stores(i)
      BY <1>3 DEF Starts, MovesOn, Ends
    <3>3. Ingesting(j) => RunChunks(req[j].run)' = RunChunks(req[j].run)
      BY <1>3, <2>1, <3>1, <3>2 DEF RunChunks, Stores, NextChunk, Chunk
    <3> QED
      BY <1>3, <1>5, <2>1, <3>3, OtherCounted
  <2>2. CASE Starts(i)
    <3>1. RunChunks(runs + 1) = {}
      BY <1>4, <1>5 DEF Numbered, RunChunks
    <3>2. RunChunks(req[i].run)' = {}
      BY <2>2, <3>1 DEF Starts, RunChunks
    <3>3. CountOK(i)'
      BY <2>2, <3>2 DEF Starts, CountOK
    <3> QED
      BY <2>1, <3>3
  <2>3. CASE Ends(i)
    BY <2>1, <2>3 DEF Ends, CountOK
  <2> QED
    BY <1>3, <1>4, <1>5, <2>1, <2>2, <2>3, MovesOnCounted, StoresCounted
<1>10. ASSUME NEW a \in answers'
       PROVE  AnswerOK(a)'
  <2>1. CASE a \in answers
    <3>1. AnswerOK(a) /\ a.doc \in Documents
      BY <1>5, <2>1, RunTypes
    <3>2. UNCHANGED chunks \/ (Stores(i) /\ req[i].run # a.run)
      BY <1>3, <1>5, <2>1 DEF Starts, MovesOn, Ends, Stores, Apart
    <3>3. RunChunks(a.run)' = RunChunks(a.run)
      BY <3>2, RunUntouched
    <3>4. Stored(a.doc, a.run)'
      BY <3>1, StoredStays DEF AnswerOK
    <3> QED
      BY <3>1, <3>3, <3>4 DEF AnswerOK, PageCount
  <2>2. CASE a \notin answers
    <3>1. AllPagesDone(i) /\ a = OwnAnswer(i) /\ UNCHANGED chunks
      BY <1>3, <2>2 DEF Starts, MovesOn, Ends, Stores
    <3>2. /\ a.doc = req[i].doc /\ a.run = req[i].run
          /\ a.pages = PageCount(req[i].doc) /\ a.chunks = req[i].made
      BY <3>1 DEF OwnAnswer
    <3>3. Stored(a.doc, a.run)
      BY <3>1, <3>2, AllPagesStored
    <3>4. /\ IsFiniteSet(RunChunks(a.run))
          /\ Cardinality(RunChunks(a.run)) = a.chunks
      BY <1>5, <3>1, <3>2 DEF CountOK, AllPagesDone, At
    <3>5. RunChunks(a.run)' = RunChunks(a.run)
      BY <3>1 DEF RunChunks
    <3>6. Stored(a.doc, a.run)'
      BY <3>1, <3>3 DEF Stored
    <3> QED
      BY <3>2, <3>4, <3>5, <3>6 DEF AnswerOK
  <2> QED
    BY <2>1, <2>2
<1> QED
  BY <1>7, <1>8, <1>9, <1>10 DEF Counted

-----------------------------------------------------------------------------
(* The file of a record.  Between its writing and the insertion of the      *)
(* record the file stays where it is, as long as no instance is killed.     *)

FiledFirst ==
    crashes = 0 =>
        \A i \in Instances : At(i, "insert") => req[i].doc \in disk[i]

LEMMA FiledFirstStep ==
    ASSUME ReqOK, StoreOK, RunsOK, FiledFirst, RecordHasFile, [IngestionNext]_ingestionVars
    PROVE  FiledFirst' /\ RecordHasFile'
<1>1. CASE UNCHANGED ingestionVars
  BY <1>1 DEF ingestionVars, FiledFirst, RecordHasFile, At
<1>2. SUFFICES ASSUME NEW j \in Instances, Call(j) \/ Proceed(j) \/ Fault(j),
                      crashes' = 0
               PROVE  FiledFirst' /\ RecordHasFile'
  BY <1>1 DEF IngestionNext, FiledFirst, RecordHasFile
<1>3. /\ crashes = 0 /\ ~Crash(j)
      /\ \A i \in Instances : At(i, "insert") => req[i].doc \in disk[i]
      /\ \A d \in Documents :
             docs[d].status # "absent" => \E i \in Instances : d \in disk[i]
  <2>1. crashes \in Nat /\ (crashes' = crashes \/ crashes' = crashes + 1)
    BY <1>2 DEF StoreOK, Call, WriteFile, StartIngest, Proceed, InsertDocument,
        RejectDocument, MarkMissing, MarkIngesting, ExtractPages, SaveChunk,
        TurnPage, Complete, MarkFailed, Fault, InsertError, MarkError,
        SaveChunkError, CompleteError, MarkFailedError, Crash
  <2>2. crashes = 0 /\ ~Crash(j)
    BY <1>2, <2>1 DEF Crash
  <2> QED
    BY <2>2 DEF FiledFirst, RecordHasFile
<1>4. /\ req \in [Instances -> RequestRecord] /\ disk \in [Instances -> SUBSET Documents]
      /\ docs \in [Documents -> [status : Status \cup {"absent"}, pages : Nat]]
      /\ req[j].pc # "idle" => req[j].doc \in Documents
  BY DEF ReqOK, HasDocument, StoreOK
<1>5. \A i \in Instances : i # j => req'[i] = req[i]
  BY <1>2, ActorStep
<1>6. ASSUME NEW d \in Documents, WriteFile(j, d)
      PROVE  FiledFirst' /\ RecordHasFile'
  <2>1. req'[j] = [Idle EXCEPT !.pc = "insert", !.doc = d]
    BY <1>4, <1>6 DEF WriteFile, Become
  <2>2. req'[j].doc = d
    BY <2>1 DEF Idle
  <2>3. d \in disk'[j] /\ (\A i \in Instances : disk[i] \subseteq disk'[i]) /\ docs' = docs
    BY <1>4, <1>6 DEF WriteFile
  <2> QED
    BY <1>3, <1>5, <2>2, <2>3 DEF FiledFirst, RecordHasFile, At
<1>7. ASSUME ~(\E d \in Documents : WriteFile(j, d))
      PROVE  FiledFirst' /\ RecordHasFile'
  <2>1. disk' = disk
    BY <1>2, <1>3, <1>7 DEF Call, StartIngest, Proceed, InsertDocument,
        RejectDocument, MarkMissing, MarkIngesting, ExtractPages, SaveChunk,
        TurnPage, Complete, MarkFailed, Fault, InsertError, MarkError,
        SaveChunkError, CompleteError, MarkFailedError
  <2>2. req'[j].pc # "insert"
    <3>1. CASE Call(j)
      <4>1. PICK d \in Documents : StartIngest(j, d)
        BY <1>7, <3>1 DEF Call
      <4>2. req'[j] = [Idle EXCEPT !.pc = IF d \in disk[j] THEN "mark" ELSE "missing",
                                   !.doc = d, !.mem = docs[d].status, !.run = runs + 1]
        BY <1>4, <4>1 DEF StartIngest, Become
      <4> QED
        BY <4>2 DEF Idle
    <3>2. CASE Answer(j)
      BY <1>4, <3>2, IdleRequest DEF Answer, Become
    <3>3. ASSUME NEW pc \in {"extract", "failing"}, GoTo(j, pc)
          PROVE  req'[j].pc # "insert"
      BY <1>4, <3>3 DEF GoTo, Become, RequestRecord
    <3>4. CASE Become(j, [req[j] EXCEPT !.pc = "saving", !.page = 1])
      BY <1>4, <3>4 DEF Become, RequestRecord
    <3>5. CASE SaveChunk(j) \/ TurnPage(j)
      <4>1. req'[j] = ChunkSaved(req[j]) \/ req'[j] = PageTurned(req[j])
        BY <1>4, <3>5 DEF SaveChunk, TurnPage, Become
      <4> QED
        BY <1>4, <3>5, <4>1, ChunkSavedRequest, PageTurnedRequest
           DEF SaveChunk, TurnPage, OnPage, At
    <3> QED
      BY <1>2, <1>3, <3>1, <3>2, <3>3, <3>4, <3>5
         DEF Proceed, InsertDocument, RejectDocument, MarkMissing, MarkIngesting,
             ExtractPages, Complete, MarkFailed, Fault, InsertError, MarkError,
             SaveChunkError, CompleteError, MarkFailedError
  <2>3. FiledFirst'
    BY <1>3, <1>5, <2>1, <2>2 DEF FiledFirst, At
  <2>4. ASSUME NEW d \in Documents, docs'[d].status # "absent"
        PROVE  \E i \in Instances : d \in disk[i]
    <3>1. CASE docs[d].status # "absent"
      BY <1>3, <3>1
    <3>2. CASE docs[d].status = "absent"
      <4>1. docs'[d] # docs[d]
        BY <2>4, <3>2
      <4>2. d = req[j].doc /\ req[j].pc # "idle"
        BY <1>2, <4>1, <1>4 DEF Call, WriteFile, StartIngest, Proceed, InsertDocument,
            RejectDocument, MarkMissing, MarkIngesting, ExtractPages, SaveChunk,
            TurnPage, Complete, MarkFailed, Fault, InsertError, MarkError,
            SaveChunkError, CompleteError, MarkFailedError, Crash, Save, SaveStatus,
            At, OnPage, AllPagesDone
      <4>3. CASE At(j, "insert")
        BY <1>3, <4>2, <4>3
      <4>4. CASE ~At(j, "insert")
        <5>1. Ingesting(j)
          BY <1>4, <4>2, <4>4 DEF Ingesting, At, RequestRecord
        <5>2. docs[d].status # "absent"
          BY <4>2, <5>1 DEF RunsOK, RunOK, KnownRun
        <5> QED
          BY <3>2, <5>2
      <4> QED
        BY <4>3, <4>4
    <3> QED
      BY <3>1, <3>2
  <2> QED
    BY <2>1, <2>3, <2>4 DEF RecordHasFile
<1> QED
  BY <1>2, <1>6, <1>7

-----------------------------------------------------------------------------
(* "ingesting" is only written by a handler that goes on to work, and every *)
(* end of its work that is not a fault writes a verdict over it.            *)

LEMMA AtWorkStep ==
    ASSUME ReqOK, StoreOK, IngestingIsAtWork, [IngestionNext]_ingestionVars
    PROVE  IngestingIsAtWork'
<1>1. CASE UNCHANGED ingestionVars
  BY <1>1 DEF ingestionVars, IngestingIsAtWork, AtWork
<1>2. SUFFICES ASSUME NEW j \in Instances, Call(j) \/ Proceed(j) \/ Fault(j),
                      crashes' = 0, dbErrors' = 0,
                      NEW d \in Documents, docs'[d].status = "ingesting"
               PROVE  AtWork(d)'
  BY <1>1 DEF IngestionNext, IngestingIsAtWork
<1>3. crashes \in Nat /\ dbErrors \in Nat
  BY DEF StoreOK
<1>4. ~Fault(j)
  BY <1>2, <1>3 DEF Fault, InsertError, MarkError, SaveChunkError, CompleteError,
     MarkFailedError, Crash, DbError
<1>5. crashes = 0 /\ dbErrors = 0
  BY <1>2, <1>4 DEF Call, WriteFile, StartIngest, Proceed, InsertDocument,
     RejectDocument, MarkMissing, MarkIngesting, ExtractPages, SaveChunk, TurnPage,
     Complete, MarkFailed
<1>6. docs[d].status = "ingesting" => AtWork(d)
  BY <1>5 DEF IngestingIsAtWork
<1>7. /\ req \in [Instances -> RequestRecord] /\ req[j] \in RequestRecord
      /\ docs \in [Documents -> [status : Status \cup {"absent"}, pages : Nat]]
      /\ req[j].pc # "idle" => req[j].doc \in Documents
  BY DEF ReqOK, HasDocument, StoreOK
<1>8. \A i \in Instances : i # j => req'[i] = req[i]
  BY <1>2, ActorStep
<1>9. ASSUME docs[d].status = "ingesting",
             ~(req[j].doc = d /\ req[j].pc \in {"extract", "saving", "failing"})
      PROVE  AtWork(d)'
  BY <1>6, <1>8, <1>9 DEF AtWork
<1>10. CASE Call(j) \/ InsertDocument(j) \/ RejectDocument(j)
  <2>1. docs[d].status = "ingesting"
    <3>1. CASE Call(j) \/ RejectDocument(j)
      BY <1>2, <3>1 DEF Call, WriteFile, StartIngest, RejectDocument
    <3>2. CASE InsertDocument(j)
      BY <1>2, <1>7, <3>2 DEF InsertDocument, Save, At
    <3> QED
      BY <1>10, <3>1, <3>2
  <2>2. req[j].pc \in {"idle", "insert"}
    BY <1>10 DEF Call, WriteFile, StartIngest, InsertDocument, RejectDocument, At
  <2> QED
    BY <1>9, <2>1, <2>2
<1>11. CASE MarkMissing(j)
  <2>1. docs[d].status = "ingesting" /\ req[j].pc = "missing"
    BY <1>2, <1>7, <1>11 DEF MarkMissing, SaveStatus, At
  <2> QED
    BY <1>9, <2>1
<1>12. CASE MarkIngesting(j)
  <2>1. req[j].pc = "mark" /\ req'[j].doc = req[j].doc /\ req'[j].pc = "extract"
    BY <1>7, <1>12 DEF MarkIngesting, GoTo, Become, At, RequestRecord
  <2>2. CASE d = req[j].doc
    BY <2>1, <2>2 DEF AtWork
  <2>3. CASE d # req[j].doc
    BY <1>2, <1>7, <1>9, <1>12, <2>1, <2>3 DEF MarkIngesting, SaveStatus
  <2> QED
    BY <2>2, <2>3
<1>13. CASE ExtractPages(j) \/ SaveChunk(j) \/ TurnPage(j)
  <2>1. docs[d].status = "ingesting"
    BY <1>2, <1>13 DEF ExtractPages, SaveChunk, TurnPage
  <2>2. req'[j].doc = req[j].doc /\ req'[j].pc \in {"saving", "failing"}
    <3>1. CASE ExtractPages(j)
      BY <1>7, <3>1, ZenonT(60) DEF ExtractPages, GoTo, Become, RequestRecord
    <3>2. CASE SaveChunk(j) \/ TurnPage(j)
      <4>1. req'[j] = ChunkSaved(req[j]) \/ req'[j] = PageTurned(req[j])
        BY <1>7, <3>2 DEF SaveChunk, TurnPage, Become
      <4> QED
        BY <1>7, <3>2, <4>1, ChunkSavedRequest, PageTurnedRequest
           DEF SaveChunk, TurnPage, OnPage, At
    <3> QED
      BY <1>13, <3>1, <3>2
  <2> QED
    BY <1>6, <1>8, <2>1, <2>2 DEF AtWork
<1>14. CASE Complete(j) \/ MarkFailed(j)
  <2>1. d # req[j].doc /\ docs'[d] = docs[d]
    BY <1>2, <1>7, <1>14 DEF Complete, MarkFailed, Save, FailedRecord, AllPagesDone, At
  <2> QED
    BY <1>2, <1>9, <2>1
<1> QED
  BY <1>2, <1>4, <1>10, <1>11, <1>12, <1>13, <1>14 DEF Proceed

-----------------------------------------------------------------------------
LEMMA TruthInit == IngestionInit => Counted /\ FiledFirst /\ RecordHasFile /\ IngestingIsAtWork
  BY IdleRequest DEF IngestionInit, Counted, Numbered, Apart, CountOK, Ingesting, FiledFirst,
     RecordHasFile, IngestingIsAtWork, At

(* What the service says of a document is true, whatever requests overlap:  *)
(* an answer of /ingest counts exactly the chunks of its run that are in    *)
(* the store, a record has its file unless an instance was killed, and      *)
(* "ingesting" means work in progress unless a fault cut it off.            *)
THEOREM RecordsAreTruthful == IngestionSpec => []RecordsTruthful
<1>1. IngestionSpec => []Inductive
  BY InductiveInvariant
<1>2. Inductive /\ Counted /\ [IngestionNext]_ingestionVars => Counted'
  BY CountedStep DEF Inductive
<1>3. Inductive /\ FiledFirst /\ RecordHasFile /\ [IngestionNext]_ingestionVars => FiledFirst' /\ RecordHasFile'
  BY FiledFirstStep DEF Inductive
<1>4. Inductive /\ IngestingIsAtWork /\ [IngestionNext]_ingestionVars => IngestingIsAtWork'
  BY AtWorkStep DEF Inductive
<1>5. Counted => AnswersTruthful
  BY DEF Counted, AnswerOK, RunChunks, AnswersTruthful
<1>6. Counted /\ RecordHasFile /\ IngestingIsAtWork => RecordsTruthful
  BY <1>5 DEF RecordsTruthful
<1> QED
  BY <1>1, <1>2, <1>3, <1>4, <1>6, TruthInit, PTL DEF IngestionSpec
=============================================================================
