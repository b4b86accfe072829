---------------------------- MODULE MemoryAuthority ----------------------------
(* The project's memory directory and the three commands that judge it
   (governance_tools/memory_record.py, memory_authority_guard.py,
   structural_promotion_gate.py, daily_memory_guard.py).  Several memory_record
   processes append entries to the daily file of the day they started on; people
   write into the same files, move sections of 00_long_term.md towards
   "authoritative", commit, and end sessions; the guards only read.  An entry is
   reduced to what the guards look for in its text: whether it opens a block,
   its memory_type, whether it names memory_record and a format version, and
   which anchors it has.  The promotion gate reads the long-term file twice. *)
EXTENDS Workspace, Integers, Sequences, FiniteSets
CONSTANTS
    HandEntries,    \* what people write into a daily file
    LongTerms,      \* the contents of 00_long_term.md people give it
    RuntimeCloseouts,      \* the closeout files the gate may be given
    Summaries,      \* what the session end core leaves of a session
    Cutoff,         \* the first day on which only memory_record may write
    MaxDay, MaxRecords, MaxMemoryEdits
Entries ==
    [opens : BOOLEAN, kind : {"session-derived", "other", None}, writer : BOOLEAN,
     version : BOOLEAN, commit : {"hash", "uncommitted", "pending", None}, session : BOOLEAN,
     id : Nat]
ASSUME MemoryAssumption ==
    /\ HandEntries \subseteq Entries
    /\ MaxDay \in Nat \ {0} /\ MaxRecords \in Nat /\ MaxMemoryEdits \in Nat
    /\ None \notin {"session-derived"} \union Nat \union Seq(Entries)
VARIABLES
    daily,      \* each day's file: None, or its entries in order
    long,       \* 00_long_term.md: None, or its sections in order
    runtimeCloseout,   \* the closeout file: None, or what the gate finds in it
    summaries,  \* artifacts/runtime/summaries
    git,        \* whether git answers
    commits,    \* the days with commits
    today, recording,
    written,    \* what finished runs have appended
    cleared,    \* days whose file was created over one that existed
    touched,    \* days people wrote into
    survey,     \* what the gate under way has taken from the guard
    promotion,    \* what the gate last answered, and what it was looking at
    records, memoryEdits
memoryVars == <<daily, long, runtimeCloseout, summaries, git, commits, today, recording,
                written, cleared, touched, survey, promotion, records, memoryEdits>>
Days == 1..MaxDay
-----------------------------------------------------------------------------
(* memory_record *)
Entry(id, commit) ==
    [opens |-> TRUE, kind |-> "session-derived", writer |-> TRUE, version |-> TRUE,
     commit |-> commit, session |-> TRUE, id |-> id]
Detected == IF git /\ commits # {} THEN "hash" ELSE "uncommitted"
Replaced(file, entry) == <<entry>>
Appended(file, entry) == Append(file, entry)

(* memory_authority_guard: the daily files *)
Openings(file) == {i \in DOMAIN file : file[i].opens}
Block(file, i) == {j \in i..Len(file) : \A k \in i + 1..j : ~file[k].opens}
Named(file, i, field) == \E j \in Block(file, i) : file[j][field]
BoundByCommit(file, i) == \E j \in Block(file, i) : file[j].commit = "hash"
Bound(file, i) ==
    \E j \in Block(file, i) : file[j].commit = "hash" \/ file[j].session
FirstKind(file, i) ==
    LET typed == {j \in Block(file, i) : file[j].kind # None}
    IN  IF typed = {} THEN None ELSE file[CHOOSE j \in typed : \A k \in typed : j <= k].kind
OfAnyWriter(file, i) == Named(file, i, "version")
FromRecorder(file, i) == Named(file, i, "writer") /\ Named(file, i, "version")
NonCanonical(day, file, i) ==
    \/ FirstKind(file, i) = "session-derived" /\ ~FromRecorder(file, i)
    \/ FirstKind(file, i) = None /\ day >= Cutoff
WrittenDays == {d \in Days : daily[d] # None}
Unbound(d) == {i \in Openings(daily[d]) : ~Bound(daily[d], i)}
Foreign(d) == {i \in Openings(daily[d]) : NonCanonical(d, daily[d], i)}
MissingDays == IF git THEN commits \ WrittenDays ELSE {}

(* memory_authority_guard and structural_promotion_gate: the long-term file.
   The guard takes a status whatever follows it in the comment and a promoted_by
   anywhere in the section; the gate wants both as complete comments. *)
Counted(s) == s.heading # "title"
PromotedAnyhow(s) == Counted(s) /\ s.by # "none"
Promoted(s) == Counted(s) /\ s.status = "authoritative" /\ s.by # "none"
Claimed(s) == s.status = "authoritative" /\ s.closed
Marked(s) == s.by = "comment" /\ s.dated /\ s.anchored
Sections == IF long = None THEN {} ELSE {long[i] : i \in DOMAIN long}
SomeMarked == long # None /\ \E s \in Sections : Claimed(s) => Marked(s)
AllMarked == long # None /\ \A s \in Sections : Claimed(s) => Marked(s)
Blocked(promoted) ==
    {r \in {"missing_structural_promotions", "claim_boundary_not_runtime_verified",
            "test_execution_degraded", "missing_required_promotion_markers"} :
        \/ r = "missing_structural_promotions" /\ ~promoted
        \/ /\ r = "claim_boundary_not_runtime_verified"
           /\ runtimeCloseout # None /\ runtimeCloseout.boundary \notin {None, "runtime_verified"}
        \/ r = "test_execution_degraded" /\ runtimeCloseout # None /\ runtimeCloseout.degraded
        \/ r = "missing_required_promotion_markers" /\ ~AllMarked}
FailureClass(reasons) ==
    CASE reasons \cap {"claim_boundary_not_runtime_verified", "test_execution_degraded"} # {} ->
            "runtime_unverifiable"
      [] reasons = {} -> None
      [] OTHER -> "authority_unqualified"

(* daily_memory_guard: one of the youngest readable summaries, in directory
   order, decides; only a session that has something to remember is warned of. *)
ReadableSummaries == {s \in summaries : ~s.torn}
Latest == {s \in ReadableSummaries : \A t \in ReadableSummaries : t.closed <= s.closed}
HasTodaysFile(s) == daily[today] # None
HasFile(s) == s.path # None /\ daily[s.path] # None
Warned(s) == s.mode # "stateless" /\ ~HasFile(s) /\ s.relevant
-----------------------------------------------------------------------------
MemoryInit ==
    /\ daily = [d \in Days |-> None] /\ long \in LongTerms \union {None}
    /\ runtimeCloseout \in RuntimeCloseouts \union {None} /\ summaries = {}
    /\ git \in BOOLEAN /\ commits = {} /\ today = 1
    /\ recording = [p \in Processes |-> None] /\ written = {} /\ cleared = {} /\ touched = {}
    /\ survey = None /\ promotion = None /\ records = 0 /\ memoryEdits = 0

Idle == \A p \in Processes : recording[p] = None
UnchangedFiles == UNCHANGED <<long, runtimeCloseout, summaries, git, commits, survey, promotion, touched, memoryEdits, today>>

(* The day is asked for once, the file looked for, and only then written. *)
StartRecord(p, given) ==
    LET commit == IF given = None THEN Detected ELSE given
    IN  /\ recording[p] = None /\ records < MaxRecords /\ records' = records + 1
        /\ recording' = [recording EXCEPT ![p] =
               [entry |-> Entry(records + 1, commit), day |-> today,
                step |-> IF daily[today] = None THEN "create" ELSE "append"]]
        /\ UnchangedFiles /\ UNCHANGED <<daily, written, cleared>>

CreateFile(p) ==
    /\ recording[p] # None /\ recording[p].step = "create"
    /\ LET d == recording[p].day
       IN  /\ cleared' = IF daily[d] = None THEN cleared ELSE cleared \union {d}
           /\ daily' = [daily EXCEPT ![d] = <<>>]
    /\ recording' = [recording EXCEPT ![p].step = "append"]
    /\ UnchangedFiles /\ UNCHANGED <<written, records>>

WriteEntry(p) ==
    /\ recording[p] # None /\ recording[p].step = "append"
    /\ LET w == recording[p]
       IN  /\ daily' = [daily EXCEPT ![w.day] = Appended(@, w.entry)]
           /\ written' = written \union {[id |-> w.entry.id, day |-> w.day]}
    /\ recording' = [recording EXCEPT ![p] = None]
    /\ UnchangedFiles /\ UNCHANGED <<cleared, records>>

DieRecording(p) ==
    /\ recording[p] # None /\ recording' = [recording EXCEPT ![p] = None]
    /\ UnchangedFiles /\ UNCHANGED <<daily, written, cleared, records>>

UnchangedRuns == UNCHANGED <<recording, written, cleared, records>>
EditDaily ==
    /\ memoryEdits < MaxMemoryEdits /\ memoryEdits' = memoryEdits + 1
    /\ \E d \in WrittenDays, e \in HandEntries :
          daily' = [daily EXCEPT ![d] = Append(@, e)] /\ touched' = touched \union {d}
    /\ UnchangedRuns
    /\ UNCHANGED <<long, runtimeCloseout, summaries, git, commits, survey, promotion, today>>
EditLong ==
    /\ memoryEdits < MaxMemoryEdits /\ memoryEdits' = memoryEdits + 1
    /\ \E l \in LongTerms : l # long /\ long' = l
    /\ UnchangedRuns
    /\ UNCHANGED <<daily, touched, runtimeCloseout, summaries, git, commits, survey, promotion, today>>
EndSession ==
    /\ memoryEdits < MaxMemoryEdits /\ memoryEdits' = memoryEdits + 1
    /\ \E s \in Summaries :
          summaries' = summaries \union {[torn |-> s.torn, mode |-> s.mode, relevant |-> s.relevant,
                             path |-> IF s.recorded THEN today ELSE None, closed |-> memoryEdits + 1]}
    /\ UnchangedRuns
    /\ UNCHANGED <<daily, touched, long, runtimeCloseout, git, commits, survey, promotion, today>>
Commit ==
    /\ today \notin commits /\ commits' = commits \union {today}
    /\ UnchangedRuns
    /\ UNCHANGED <<daily, touched, long, runtimeCloseout, summaries, git, survey, promotion, today, memoryEdits>>
NextDay ==
    /\ today < MaxDay /\ today' = today + 1
    /\ UnchangedRuns
    /\ UNCHANGED <<daily, touched, long, runtimeCloseout, summaries, git, commits, survey, promotion, memoryEdits>>

(* evaluate_gate: the guard's rate first, then the closeout and the file again. *)
Survey ==
    /\ survey = None
    /\ survey' = [promoted |-> \E s \in Sections : Promoted(s), long |-> long]
    /\ UnchangedRuns
    /\ UNCHANGED <<daily, touched, long, runtimeCloseout, summaries, git, commits, promotion, today, memoryEdits>>
Judge ==
    /\ survey # None /\ survey' = None
    /\ LET reasons == Blocked(survey.promoted)
       IN  promotion' = [open |-> reasons = {}, class |-> FailureClass(reasons),
                       first |-> survey.long, second |-> long, closeout |-> runtimeCloseout]
    /\ UnchangedRuns
    /\ UNCHANGED <<daily, touched, long, runtimeCloseout, summaries, git, commits, today, memoryEdits>>

MemoryNext ==
    \/ \E p \in Processes : \/ \E given \in {None, "hash", "pending"} : StartRecord(p, given)
                            \/ CreateFile(p) \/ WriteEntry(p) \/ DieRecording(p)
    \/ EditDaily \/ EditLong \/ EndSession \/ Commit \/ NextDay \/ Survey \/ Judge
MemorySpec == MemoryInit /\ [][MemoryNext]_memoryVars
-----------------------------------------------------------------------------
MemoryTypeOK ==
    /\ \A d \in Days : daily[d] = None \/ \A i \in DOMAIN daily[d] : daily[d][i].opens \in BOOLEAN
    /\ commits \subseteq Days /\ today \in Days /\ cleared \subseteq Days /\ touched \subseteq Days
    /\ \A p \in Processes : recording[p] = None \/ recording[p].step \in {"create", "append"}
    /\ records \in 0..MaxRecords /\ memoryEdits \in 0..MaxMemoryEdits
IdsOf(d) == IF daily[d] = None THEN {} ELSE {daily[d][i].id : i \in DOMAIN daily[d]}
(* What a finished run appended stays, however the runs interleave and die; only
   a file that was made anew over an existing one may have lost it. *)
EntriesKept == \A w \in written : w.day \in cleared \/ w.id \in IdsOf(w.day)
(* memory_record's own entries satisfy the guard: in a file nobody else wrote
   into each of them is counted, bound and from the canonical writer, whatever
   the commit was. *)
RecorderAccepted ==
    \A d \in WrittenDays \ touched :
        /\ Openings(daily[d]) = DOMAIN daily[d]
        /\ Unbound(d) \union Foreign(d) = {}
(* A hand-written entry that claims to be session-derived is found out, unless
   notes that follow it in the same block name the writer and a version. *)
ForgersFound ==
    \A d \in WrittenDays : \A i \in Openings(daily[d]) :
        (daily[d][i].kind = "session-derived" /\ ~daily[d][i].writer) =>
            \/ i \in Foreign(d)
            \/ \E j \in Block(daily[d], i) \ {i} : daily[d][j].writer
(* A day on which a run finished is not reported as lacking its memory. *)
FinishedDaysPresent == \A w \in written : w.day \notin MissingDays
(* An open gate means a section promoted in full: status, promoter, date and
   anchor as complete comments.  The exceptions are what the two readers see
   differently: a status comment with more text in it, and a file edited between
   the two readings. *)
OpenedOnPromotion ==
    (promotion # None /\ promotion.open) =>
        \/ promotion.first # promotion.second
        \/ \E i \in DOMAIN promotion.second : LET s == promotion.second[i]
               IN s.status = "authoritative" /\ (Marked(s) \/ ~s.closed)
(* An open gate never passes over a closeout that names a weaker boundary or a
   degraded test run, and never over an authoritative section without marks. *)
NothingWaived ==
    (promotion # None /\ promotion.open) =>
        /\ promotion.closeout # None =>
               promotion.closeout.boundary \in {None, "runtime_verified"} /\ ~promotion.closeout.degraded
        /\ \A i \in DOMAIN promotion.second :
               (promotion.second[i].status = "authoritative" /\ promotion.second[i].closed) =>
                   promotion.second[i].by = "comment"
(* The daily warning never falls on a session whose daily file a run finished. *)
WarningJustified ==
    \A s \in Latest : (\E w \in written : w.day = s.path) => ~Warned(s)
(* Nothing older hides the session that ended last: if its summary is readable
   and it has something to remember but no file, every run warns. *)
LastSessionWarned ==
    \A s \in ReadableSummaries :
        (s.closed = memoryEdits /\ s.mode # "stateless" /\ s.relevant /\ s.path = None) =>
            \A t \in Latest : Warned(t)
MemorySound ==
    /\ MemoryTypeOK /\ EntriesKept /\ RecorderAccepted /\ ForgersFound /\ FinishedDaysPresent
    /\ OpenedOnPromotion /\ NothingWaived /\ WarningJustified /\ LastSessionWarned
=============================================================================
