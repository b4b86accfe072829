---------------------------- MODULE Classification ----------------------------
(***************************************************************************)
(* Sections of the chunks of one document: set by rule when a chunk is     *)
(* ingested, recomputed by a classification of the whole document, and     *)
(* corrected by hand chunk by chunk.                                       *)
(*                                                                         *)
(* A classification reads all chunks first and writes them back one by     *)
(* one; a correction reads its chunk and then writes it.  A write sends    *)
(* the section only if it differs from what was read.  Requests of two     *)
(* instances interleave between their database calls.                      *)
(***************************************************************************)
EXTENDS Absent, Naturals, Sequences, FiniteSets

CONSTANTS
    Instances,   \* processes of the service
    Chunks,      \* the chunks the document may get
    Page,        \* the page of each chunk
    Sections,    \* the section names, in the order of the keyword table
    Hits,        \* Hits[c][k]: keywords of the k-th section found in chunk c
    MaxPatches   \* bound on the number of corrections

ASSUME ClassificationAssumption ==
    /\ MaxPatches \in Nat
    /\ Sections \in Seq(STRING)
    /\ Page \in [Chunks -> Nat]
    /\ Hits \in [Chunks -> [DOMAIN Sections -> Nat]]
    /\ None \notin Chunks

VARIABLES
    store,     \* the PDFChunk collection: the section of each chunk
    job,       \* the request each instance is serving
    told,      \* history: the last section a user was told a chunk now has
    given,     \* history: every section a user has asked for, by chunk
    touched,   \* history: chunks others wrote since a classification read them
    patches    \* number of corrections requested

classificationVars == <<store, job, told, given, touched, patches>>

SectionNames == {Sections[k] : k \in DOMAIN Sections}

Labels == SectionNames \cup {"unknown"}

-----------------------------------------------------------------------------
Hit(c) == {k \in DOMAIN Sections : Hits[c][k] > 0}

(* The section with most keywords found; among equals the first of the      *)
(* table.  No keyword at all: the rule does not decide.                     *)
Rule(c) ==
    LET better(k, l) == Hits[c][k] > Hits[c][l] \/ (Hits[c][k] = Hits[c][l] /\ k <= l)
    IN  IF Hit(c) = {} THEN "unknown"
        ELSE Sections[CHOOSE k \in Hit(c) : \A l \in Hit(c) : better(k, l)]

(* Mutant: the model's answer is stored as it comes. *)
RawAnswers == Labels \cup {"the section on revenue"}

(* The language model may answer anything; what is not a section name is    *)
(* taken as "unknown", and so is an error of the call.                      *)
ModelAnswers == Labels

(* Mutant: the model is asked first. *)
ModelFirst(c, fallback) == IF fallback THEN ModelAnswers ELSE {Rule(c)}

Outcomes(c, fallback) ==
    IF Rule(c) # "unknown" THEN {Rule(c)}
    ELSE IF fallback THEN ModelAnswers
    ELSE {"unknown"}

-----------------------------------------------------------------------------
InStore(c) == store[c] # "absent"

(* A job: what it does, whether it asks the model, the chunks it read and   *)
(* has not written yet, the sections it read, those it reports, and for a   *)
(* correction its chunk and the section asked for.                          *)
NoRequest == [pc |-> "idle", fallback |-> FALSE, todo |-> {}, read |-> [c \in Chunks |-> "absent"],
         report |-> [c \in Chunks |-> "absent"], chunk |-> None, wanted |-> "unknown"]

ClassificationInit ==
    /\ store = [c \in Chunks |-> "absent"]
    /\ job = [i \in Instances |-> NoRequest]
    /\ told = [c \in Chunks |-> None]
    /\ given = [c \in Chunks |-> {}]
    /\ touched = [i \in Instances |-> {}]
    /\ patches = 0

(* save() of a chunk that was read with section old. *)
Write(c, old, s) == store' = [store EXCEPT ![c] = IF old = s THEN @ ELSE s]

(* Every other instance that holds the chunk in memory now holds an old one. *)
Touch(i, c) ==
    touched' = [j \in Instances |-> IF j # i /\ job[j].pc = "classify"
                                    THEN touched[j] \cup {c} ELSE touched[j]]

(* Ingestion stores a chunk: its section is what the rule says, without the *)
(* model.                                                                   *)
Arrive(c) ==
    /\ ~InStore(c)
    /\ store' = [store EXCEPT ![c] = Rule(c)]
    /\ UNCHANGED <<job, told, given, touched, patches>>

StartClassify(i, fallback) ==
    /\ job[i].pc = "idle"
    /\ \E c \in Chunks : InStore(c)
    /\ job' = [job EXCEPT ![i] =
                 [NoRequest EXCEPT !.pc = "classify", !.fallback = fallback,
                              !.todo = {c \in Chunks : InStore(c)},
                              !.read = store]]
    /\ UNCHANGED <<store, told, given, touched, patches>>

(* Chunks are listed by page; on one page the order is the database's. *)
NextUp(i) == {c \in job[i].todo : \A e \in job[i].todo : Page[c] <= Page[e]}

(* Mutant: a chunk nobody can classify is reported but not written. *)
ClassifyKnown(i) ==
    /\ job[i].pc = "classify"
    /\ \E c \in NextUp(i) : \E s \in Outcomes(c, job[i].fallback) :
           /\ IF s = "unknown" THEN UNCHANGED store ELSE Write(c, job[i].read[c], s)
           /\ job' = [job EXCEPT ![i].todo = @ \ {c}, ![i].report[c] = s]
           /\ Touch(i, c)
    /\ UNCHANGED <<told, given, patches>>

ClassifyNext(i) ==
    /\ job[i].pc = "classify"
    /\ \E c \in NextUp(i) : \E s \in Outcomes(c, job[i].fallback) :
           /\ Write(c, job[i].read[c], s)
           /\ job' = [job EXCEPT ![i].todo = @ \ {c}, ![i].report[c] = s]
           /\ Touch(i, c)
    /\ UNCHANGED <<told, given, patches>>

FinishClassify(i) ==
    /\ job[i].pc = "classify"
    /\ job[i].todo = {}
    /\ job' = [job EXCEPT ![i] = NoRequest]
    /\ touched' = [touched EXCEPT ![i] = {}]
    /\ UNCHANGED <<store, told, given, patches>>

(* PATCH /chunks/section.  An illegal section or an unknown chunk is a 400. *)
ReadForOverride(i, c, s) ==
    /\ job[i].pc = "idle"
    /\ patches < MaxPatches
    /\ InStore(c)
    /\ patches' = patches + 1
    /\ job' = [job EXCEPT ![i] =
                 [NoRequest EXCEPT !.pc = "override", !.chunk = c, !.wanted = s,
                              !.read = [NoRequest.read EXCEPT ![c] = store[c]]]]
    /\ given' = [given EXCEPT ![c] = @ \cup {s}]
    /\ UNCHANGED <<store, told, touched>>

SaveOverride(i) ==
    /\ job[i].pc = "override"
    /\ LET c == job[i].chunk
           s == job[i].wanted
       IN  /\ Write(c, job[i].read[c], s)
           /\ told' = [told EXCEPT ![c] = s]
           /\ Touch(i, c)
    /\ job' = [job EXCEPT ![i] = NoRequest]
    /\ UNCHANGED <<given, patches>>

(* The instance is killed, or a save raises: the chunks not yet written are *)
(* left as they are, the caller gets a 500 or nothing.                      *)
Abandon(i) ==
    /\ job[i].pc # "idle"
    /\ job' = [job EXCEPT ![i] = NoRequest]
    /\ touched' = [touched EXCEPT ![i] = {}]
    /\ UNCHANGED <<store, told, given, patches>>

ClassificationNext ==
    \/ \E c \in Chunks : Arrive(c)
    \/ \E i \in Instances :
        \/ \E fallback \in BOOLEAN : StartClassify(i, fallback)
        \/ ClassifyNext(i)
        \/ FinishClassify(i)
        \/ \E c \in Chunks, s \in Labels : ReadForOverride(i, c, s)
        \/ SaveOverride(i)
        \/ Abandon(i)

ClassificationSpec == ClassificationInit /\ [][ClassificationNext]_classificationVars

-----------------------------------------------------------------------------
(* Type correctness; a section is always a name of the table or "unknown". *)
JobRecord ==
    [pc : {"idle", "classify", "override"}, fallback : BOOLEAN, todo : SUBSET Chunks,
     read : [Chunks -> Labels \cup {"absent"}],
     report : [Chunks -> Labels \cup {"absent"}],
     chunk : Chunks \cup {None}, wanted : Labels]

SectionsTypeOK ==
    /\ store \in [Chunks -> Labels \cup {"absent"}]
    /\ job \in [Instances -> JobRecord]
    /\ told \in [Chunks -> Labels \cup {None}]
    /\ given \in [Chunks -> SUBSET Labels]
    /\ touched \in [Instances -> SUBSET Chunks]
    /\ patches \in Nat

(* A chunk the keywords decide carries that section or one a user asked     *)
(* for, whatever classifications overlap: the model never gets to place it. *)
RuleOutranksModel ==
    \A c \in Chunks :
        InStore(c) /\ Rule(c) # "unknown" =>
            store[c] \in {Rule(c)} \cup given[c]

(* At all times every section and every answer is one the model allows, and *)
(* the keywords are obeyed: what an interrupted or overlapped               *)
(* classification leaves behind is still a legal set of sections.           *)
SectionsSound == SectionsTypeOK /\ RuleOutranksModel

(* What a classification reports of a chunk is what the store holds, if     *)
(* nobody else wrote the chunk since the list was read: leaving out the     *)
(* writes that change nothing in memory loses no result.                    *)
ReportMatchesStore ==
    \A i \in Instances : \A c \in Chunks \ touched[i] :
        job[i].pc = "classify" /\ job[i].report[c] # "absent" =>
            store[c] = job[i].report[c]

(* manual_override's answer names the new section of the chunk: at the      *)
(* moment it is given, that is the section in the store.                    *)
CorrectionTakesEffect ==
    [][\A i \in Instances :
          job[i].pc = "override" /\ told' # told =>
              store'[job[i].chunk] = job[i].wanted]_classificationVars
=============================================================================
