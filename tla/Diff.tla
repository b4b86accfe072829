--------------------------------- MODULE Diff ---------------------------------
(***************************************************************************)
(* The comparison of two reports of one company, section by section, and   *)
(* its audit.                                                              *)
(*                                                                         *)
(* A request checks the two documents, reads the chunks of each, asks the  *)
(* language model about every section both have, marks the sections only   *)
(* one of them has, and stores a DiffReport.  Meanwhile other instances    *)
(* ingest the documents again and reclassify their chunks.  Documents      *)
(* follow DocumentLifecycle, which is all this service knows of ingestion; *)
(* two comparisons share nothing but the collection they add to, so one at *)
(* a time is modelled.                                                     *)
(***************************************************************************)
EXTENDS Naturals, Sequences, FiniteSets

CONSTANTS
    DiffDocuments,  \* the document ids
    Stock,          \* the company each document is about
    Chunks,         \* the chunks of all documents
    DocumentOf,     \* the document of each chunk
    Page,           \* its page
    Sections,       \* the section names, in the order of sorted()
    Labelings,      \* the sections the chunks may have to start with
    Answers,        \* the lists of raw items the model may return on a section
    MaxDiffs,       \* bound on the number of comparisons
    MaxChanges,     \* bound on the number of chunks reclassified
    MaxErrors,      \* bound on the number of database errors
    Blank,          \* a page field that is missing or empty
    Null,           \* a page field that holds a JSON null
    NoneText,       \* the text "None"
    NoSource        \* the empty document id

ASSUME DiffAssumption ==
    /\ DocumentOf \in [Chunks -> DiffDocuments]
    /\ Page \in [Chunks -> Nat \ {0}]
    /\ Labelings \subseteq [Chunks -> {Sections[k] : k \in DOMAIN Sections} \cup {"unknown"}]
    /\ Sections \in Seq({Sections[k] : k \in DOMAIN Sections})
    /\ \A k, l \in DOMAIN Sections : Sections[k] = Sections[l] => k = l
    /\ \A answer \in Answers :
          answer \in Seq([type : STRING, tone : {"absent", "true", "false"}, presence : STRING,
                         current : Nat \cup {Blank, Null}, previous : Nat \cup {Blank, Null},
                         valid : BOOLEAN])
    /\ MaxDiffs \in Nat
    /\ MaxChanges \in Nat
    /\ MaxErrors \in Nat
    /\ Blank # Null /\ NoneText # Blank
    /\ {Blank, Null, NoneText} \cap Nat = {}
    /\ NoSource \notin DiffDocuments

VARIABLES
    status, indexed,  \* as in DocumentLifecycle
    section,          \* the section of each chunk
    job,              \* the comparison in progress
    comparisons,      \* the DiffReport collection, in the order of storage
    changes,          \* number of reclassifications
    faults,           \* number of database errors
    response          \* what the last comparison that was let in has answered

documents == <<status, indexed>>
diffVars == <<status, indexed, section, job, comparisons, changes, faults, response>>

SectionNames == {Sections[k] : k \in DOMAIN Sections}

Labels == SectionNames \cup {"unknown"}

DiffTypes == {"new_language", "removed_language", "tone_shift", "numeric_change",
              "new_risk", "removed_risk"}

Presences == {"both", "only_in_current", "only_in_previous"}

(* Nothing yet, the report, or an error: of the collection's own check of   *)
(* the report, or of the database.                                          *)
Replies == {"none", "report", "invalid", "error"}

ChunksOf(d) == {c \in Chunks : DocumentOf[c] = d}

Life == INSTANCE DocumentLifecycle
            WITH Documents <- DiffDocuments,
                 Textless <- {d \in DiffDocuments : ChunksOf(d) = {}}

-----------------------------------------------------------------------------
(* The answer of the model, made into items of the report.  str() of a null *)
(* is the text "None".                                                      *)
PageText(raw) == IF raw = Null THEN NoneText ELSE raw

(* Mutant: whether it has a source is not asked. *)
AnySource(raw) == TRUE

(* An item with no page on either side has no source and is dropped. *)
Sourced(raw) == PageText(raw.current) # Blank \/ PageText(raw.previous) # Blank

Cited(page, d) == IF page = Blank THEN NoSource ELSE d

(* Mutant: a type the program does not know is kept. *)
AnyType(raw) == raw.type

(* A type that is not one of the six becomes the harmless first. *)
DiffType(raw) == IF raw.type \in DiffTypes THEN raw.type ELSE "new_language"

(* The model's own word on tone_only goes before the type of the item. *)
ToneOnly(raw) == IF raw.tone = "absent" THEN DiffType(raw) = "tone_shift"
                 ELSE raw.tone = "true"

(* valid: id and description are texts, as the collection requires of them. *)
Item(s, raw, cur, prev) ==
    LET c == PageText(raw.current)
        p == PageText(raw.previous)
    IN  [section |-> s, type |-> DiffType(raw),
         currentPage |-> c, currentDocument |-> Cited(c, cur),
         previousPage |-> p, previousDocument |-> Cited(p, prev),
         presence |-> IF raw.presence \in Presences THEN raw.presence ELSE "both",
         toneOnly |-> ToneOnly(raw), valid |-> raw.valid]

(* The members of a finite set of numbers, the least first. *)
Ascending(S) ==
    [n \in 1 .. Cardinality(S) |-> CHOOSE k \in S : Cardinality({j \in S : j <= k}) = n]

Items(s, answer, cur, prev) ==
    LET sourced == Ascending({k \in DOMAIN answer : Sourced(answer[k])})
    IN  [n \in DOMAIN sourced |-> Item(s, answer[sourced[n]], cur, prev)]

-----------------------------------------------------------------------------
(* What a read of the chunks of d returns: each chunk with its section.     *)
(* Chunks without a section take no part in a comparison.                   *)
Grouped(d) == {<<section[c], c>> : c \in {c \in ChunksOf(d) : d \in indexed
                                                  /\ section[c] \in SectionNames}}

SectionsOf(group) == {g[1] : g \in group}

FirstPage(group, s) ==
    CHOOSE p \in {Page[g[2]] : g \in group} :
        /\ \E g \in group : g[1] = s /\ Page[g[2]] = p
        /\ \A g \in group : g[1] = s => p <= Page[g[2]]

(* Mutant: the sections of the previous report are not compared with the new. *)
EverySectionGone(j) == SectionsOf(j.previous)

Shared(j) == SectionsOf(j.current) \cap SectionsOf(j.previous)
OnlyCurrent(j) == SectionsOf(j.current) \ SectionsOf(j.previous)
OnlyPrevious(j) == SectionsOf(j.previous) \ SectionsOf(j.current)

(* The mark of a section only one of the documents has, at its first page. *)
NewSection(j, s) ==
    [section |-> s, type |-> "new_language",
     currentPage |-> FirstPage(j.current, s), currentDocument |-> j.cur,
     previousPage |-> Blank, previousDocument |-> NoSource,
     presence |-> "only_in_current", toneOnly |-> FALSE, valid |-> TRUE]

RemovedSection(j, s) ==
    [section |-> s, type |-> "removed_language",
     currentPage |-> Blank, currentDocument |-> NoSource,
     previousPage |-> FirstPage(j.previous, s), previousDocument |-> j.prev,
     presence |-> "only_in_previous", toneOnly |-> FALSE, valid |-> TRUE]

(* The members of S in the order of Sections. *)
Sorted(S) ==
    LET places == Ascending({k \in DOMAIN Sections : Sections[k] \in S})
    IN  [n \in DOMAIN places |-> Sections[places[n]]]

Marks(S, mark(_)) == [k \in DOMAIN Sorted(S) |-> mark(Sorted(S)[k])]

-----------------------------------------------------------------------------
NoComparison == [pc |-> "idle", cur |-> NoSource, prev |-> NoSource,
         current |-> {}, previous |-> {}, todo |-> <<>>, items |-> <<>>]

DiffInit ==
    /\ Life!Init
    /\ section \in Labelings
    /\ job = NoComparison
    /\ comparisons = <<>>
    /\ changes = 0
    /\ faults = 0
    /\ response = "none"

(* Mutant: the earlier document is taken to be complete. *)
CurrentComparable(cur, prev) ==
    /\ status[cur] = "completed"
    /\ Life!Present(prev)
    /\ Stock[cur] = Stock[prev]

(* Both records were read and both say the whole text is there. *)
Comparable(cur, prev) ==
    /\ status[cur] = "completed"
    /\ status[prev] = "completed"
    /\ Stock[cur] = Stock[prev]

(* A request that fails the checks is refused and changes nothing. *)
StartDiff(cur, prev) ==
    /\ job.pc = "idle"
    /\ Len(comparisons) < MaxDiffs
    /\ Comparable(cur, prev)
    /\ job' = [NoComparison EXCEPT !.pc = "current", !.cur = cur, !.prev = prev]
    /\ response' = "none"
    /\ UNCHANGED <<documents, section, comparisons, changes, faults>>

ReadCurrent ==
    /\ job.pc = "current"
    /\ job' = [job EXCEPT !.pc = "previous", !.current = Grouped(job.cur)]
    /\ UNCHANGED <<documents, section, comparisons, changes, faults, response>>

(* With both documents read, the shared sections are listed for comparison. *)
ReadPrevious ==
    /\ job.pc = "previous"
    /\ LET read == [job EXCEPT !.previous = Grouped(job.prev)]
       IN  job' = [read EXCEPT !.pc = "compare", !.todo = Sorted(Shared(read))]
    /\ UNCHANGED <<documents, section, comparisons, changes, faults, response>>

CompareSection ==
    /\ job.pc = "compare"
    /\ job.todo # <<>>
    /\ \E answer \in Answers :
           job' = [job EXCEPT !.todo = Tail(@),
                              !.items = @ \o Items(Head(job.todo), answer, job.cur, job.prev)]
    /\ UNCHANGED <<documents, section, comparisons, changes, faults, response>>

(* Mutant: a section that fails is put back at the end of the list. *)
SectionRetried ==
    /\ job.pc = "compare"
    /\ job.todo # <<>>
    /\ job' = [job EXCEPT !.todo = Append(Tail(@), Head(@))]
    /\ UNCHANGED <<documents, section, comparisons, changes, faults, response>>

(* The call fails, or one item of the answer is malformed: the section      *)
(* yields nothing and the loop goes on.                                     *)
SectionFails ==
    /\ job.pc = "compare"
    /\ job.todo # <<>>
    /\ job' = [job EXCEPT !.todo = Tail(@)]
    /\ UNCHANGED <<documents, section, comparisons, changes, faults, response>>

Comparison(j) ==
    [current |-> j.cur, previous |-> j.prev,
     items |-> j.items \o Marks(OnlyCurrent(j), LAMBDA s : NewSection(j, s))
                       \o Marks(OnlyPrevious(j), LAMBDA s : RemovedSection(j, s)),
     compared |-> Shared(j), onlyCurrent |-> OnlyCurrent(j),
     onlyPrevious |-> OnlyPrevious(j)]

(* save() checks every item before it writes; marks are always valid. *)
Storable(items) == \A k \in DOMAIN items : items[k].valid

Ready == job.pc = "compare" /\ job.todo = <<>>

SaveDiff ==
    /\ Ready
    /\ Storable(job.items)
    /\ comparisons' = Append(comparisons, Comparison(job))
    /\ job' = NoComparison
    /\ response' = "report"
    /\ UNCHANGED <<documents, section, changes, faults>>

(* save() stands outside the loop over the sections and what that swallows: *)
(* one item that is not valid ends the request, and nothing is stored.      *)
RefuseReport ==
    /\ Ready
    /\ ~Storable(job.items)
    /\ job' = NoComparison
    /\ response' = "invalid"
    /\ UNCHANGED <<documents, section, comparisons, changes, faults>>

(* A read or the write raises; the write may have been done nevertheless. *)
DatabaseRaises ==
    /\ job.pc \in {"current", "previous"} \/ (Ready /\ Storable(job.items))
    /\ faults < MaxErrors
    /\ faults' = faults + 1
    /\ comparisons' = comparisons \/ (Ready /\ comparisons' = Append(comparisons, Comparison(job)))
    /\ job' = NoComparison
    /\ response' = "error"
    /\ UNCHANGED <<documents, section, changes>>

Handle ==
    \/ ReadCurrent \/ ReadPrevious \/ CompareSection \/ SectionFails
    \/ SaveDiff \/ RefuseReport

-----------------------------------------------------------------------------
(* The other requests: ingestion, and classification of a stored chunk. *)
Ingest ==
    /\ Life!Next
    /\ UNCHANGED <<section, job, comparisons, changes, faults, response>>

Reclassify(c, s) ==
    /\ changes < MaxChanges
    /\ changes' = changes + 1
    /\ DocumentOf[c] \in indexed
    /\ section' = [section EXCEPT ![c] = s]
    /\ UNCHANGED <<documents, job, comparisons, faults, response>>

DiffNext ==
    \/ \E cur, prev \in DiffDocuments : StartDiff(cur, prev)
    \/ Handle
    \/ DatabaseRaises
    \/ Ingest
    \/ \E c \in Chunks, s \in Labels : Reclassify(c, s)

DiffSpec == DiffInit /\ [][DiffNext]_diffVars

(* A comparison that was let in goes on: a call returns or raises, the      *)
(* client of the language model has a timeout.  That the database raises is *)
(* never something to wait for, so DatabaseRaises takes no part in it.      *)
DiffFairSpec == DiffSpec /\ WF_diffVars(Handle)

-----------------------------------------------------------------------------
(* R6: a tone shift has to be marked as such. *)
R6(item) == item.type # "tone_shift" \/ item.toneOnly

AuditPassed(r) == \A k \in DOMAIN r.items : R6(r.items[k])

-----------------------------------------------------------------------------
PageTexts == Nat \cup {Blank, NoneText}

ItemSet == [section : SectionNames, type : DiffTypes, currentPage : PageTexts,
            currentDocument : DiffDocuments \cup {NoSource}, previousPage : PageTexts,
            previousDocument : DiffDocuments \cup {NoSource}, presence : Presences,
            toneOnly : BOOLEAN, valid : BOOLEAN]

Groups == SUBSET (SectionNames \X Chunks)

DiffTypeOK ==
    /\ section \in [Chunks -> Labels]
    /\ changes \in Nat
    /\ faults \in Nat
    /\ response \in Replies
    /\ job \in [pc : {"idle", "current", "previous", "compare"},
                cur : DiffDocuments \cup {NoSource}, prev : DiffDocuments \cup {NoSource},
                current : Groups, previous : Groups,
                todo : Seq(SectionNames), items : Seq(ItemSet)]
    /\ comparisons \in Seq([current : DiffDocuments, previous : DiffDocuments, items : Seq(ItemSet),
                        compared : SUBSET SectionNames, onlyCurrent : SUBSET SectionNames,
                        onlyPrevious : SUBSET SectionNames])

ItemsOf(r) == {r.items[k] : k \in DOMAIN r.items}

(* A stored comparison is of two documents of one company whose whole text  *)
(* was there to be read, although nothing stops a new ingestion of them     *)
(* while it runs: a section it reports as gone was not merely unread.       *)
ComparesIndexed ==
    \A k \in DOMAIN comparisons :
        /\ {comparisons[k].current, comparisons[k].previous} \subseteq indexed
        /\ Stock[comparisons[k].current] = Stock[comparisons[k].previous]

(* Every item cites one of the two documents, each with what the model gave *)
(* for its page and the other with nothing.  What it gave is a number, or   *)
(* the text None where it gave a null: ItemsAsPromised asks for the number. *)
ItemsCite ==
    \A k \in DOMAIN comparisons : \A item \in ItemsOf(comparisons[k]) :
        /\ item.currentDocument \in {comparisons[k].current, NoSource}
        /\ item.previousDocument \in {comparisons[k].previous, NoSource}
        /\ item.currentDocument = NoSource <=> item.currentPage = Blank
        /\ item.previousDocument = NoSource <=> item.previousPage = Blank
        /\ {item.currentDocument, item.previousDocument} # {NoSource}

(* The mark of a section only one document has: it is there exactly once,   *)
(* and points at a page that document has, whatever became of its sections. *)
Marked(r, s, type, page(_), d) ==
    LET marks == {k \in DOMAIN r.items : r.items[k].section = s}
    IN  /\ Cardinality(marks) = 1
        /\ \A k \in marks : /\ r.items[k].type = type
                            /\ \E c \in ChunksOf(d) : Page[c] = page(r.items[k])

(* The three lists of sections of a report divide the sections it found,    *)
(* and each one-sided section is marked in the items, at a page of the      *)
(* document that has it.                                                    *)
SectionsAccountedFor ==
    \A k \in DOMAIN comparisons :
        LET r == comparisons[k]
        IN  /\ r.compared \cap (r.onlyCurrent \cup r.onlyPrevious) = {}
            /\ r.onlyCurrent \cap r.onlyPrevious = {}
            /\ \A s \in r.onlyCurrent :
                   Marked(r, s, "new_language", LAMBDA i : i.currentPage, r.current)
            /\ \A s \in r.onlyPrevious :
                   Marked(r, s, "removed_language", LAMBDA i : i.previousPage, r.previous)

(* What the head of the service says (services/diff/__init__.py:10-11):     *)
(* every item has a page of a source, and a change of tone is marked as     *)
(* one, which is what the audit asks of a stored report.                    *)
ItemsAsPromised ==
    \A k \in DOMAIN comparisons :
        /\ \A item \in ItemsOf(comparisons[k]) :
               item.currentPage \in Nat \/ item.previousPage \in Nat
        /\ AuditPassed(comparisons[k])

(* A comparison that was let in comes to an end, whichever sections fail on *)
(* the way: with its report in the store, or with an error because the      *)
(* collection did not take an item or the database raised.                  *)
DiffAnswered ==
    \A n \in 0 .. MaxDiffs - 1 :
        (job.pc # "idle" /\ Len(comparisons) = n) ~>
            \/ Len(comparisons) = n + 1 /\ response = "report"
            \/ job.pc = "idle" /\ response \in {"invalid", "error"}

(* A stored comparison is sound: it has its type, its items cite, and no    *)
(* section has got lost silently.                                           *)
DiffsSound == DiffTypeOK /\ ItemsCite /\ SectionsAccountedFor
=============================================================================
