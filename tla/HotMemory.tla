------------------------------ MODULE HotMemory ------------------------------
(***************************************************************************)
(* The hot memory of a project, the file 01_active_task.md: the open tasks *)
(* in it are sent to Notion or to Linear, and each gets the identifier of  *)
(* its page or issue behind its title; and when the file has become too    *)
(* long, it is archived and cut down to its head and its next steps. All   *)
(* of them read the file and write it anew as a whole, none locks it.      *)
(*                                                                         *)
(* A line is a sequence of tokens: words, and the marks that the           *)
(* synchronisations put in.                                                *)
(***************************************************************************)
EXTENDS Naturals, Sequences, SequencesExt, FiniteSetsExt

CONSTANTS
    Processes,
    Words, Sensitive,   \* the words of titles; those that look like a secret
    Memories,           \* the files to begin with
    Additions,          \* lines somebody may add
    HeadLines,          \* lines that a cleanup leaves in front
    MaxTries,           \* attempts to send one task
    None, Torn,
    MaxRuns, MaxFaults, MaxEdits, MaxClock   \* bounds, the last one of the seconds

VARIABLES
    active,      \* the lines of the hot memory; None: no such file
    archives,    \* second -> the file archived in it, None
    manifest,    \* the archives it lists, in order; Torn
    pages,       \* service -> the titles created there; a page's number is its place
    logged,      \* service -> pages noted in 03_knowledge_base.md
    proc,        \* process -> what it is doing: None or a record with a stage
    result,      \* what the last synchronisation reported
    clock,
    ever,        \* the titles that have ever been in the hot memory
    harmed,      \* what has come between the runs so far
    runs, faults, edits

vars == <<active, archives, manifest, pages, logged, proc, result, clock, ever, harmed,
          runs, faults, edits>>
outside == <<pages, logged>>
janitors == <<archives, manifest>>
bounded == <<clock, ever, runs, faults, edits>>

Services == {"notion", "linear"}

-----------------------------------------------------------------------------
(* The lines of the file. *)
IsMark(t, service) == t \notin Words /\ t.service = service
WordsOf(text) == SelectSeq(text, LAMBDA t : t \in Words)
TitleFor(service, text) == SelectSeq(text, LAMBDA t : ~IsMark(t, service))
IsMarked(service, text) == \E n \in DOMAIN text : IsMark(text[n], service)
TasksIn(lines) == {n \in DOMAIN lines : lines[n].kind = "task"}
TitlesIn(lines) == {WordsOf(lines[n].text) : n \in TasksIn(lines)}

(* The open tasks without a mark of this service. *)
Pending(service, lines) ==
    LET open == SelectSeq(lines, LAMBDA l : l.kind = "task" /\ ~l.done
                                              /\ ~IsMarked(service, l.text))
    IN  [n \in DOMAIN open |-> TitleFor(service, open[n].text)]

(* Notion's pattern does not match where a mark follows; Linear's looks    *)
(* for one right behind the title, where there is a blank.                 *)
Followed(service, text, length) ==
    /\ service = "notion"
    /\ Len(text) > length
    /\ IsMark(text[length + 1], service)

(* Mutant: the first word of the title is enough. *)
MatchesFirstWord(service, line, title) ==
    line.kind = "task" /\ ~line.done /\ line.text[1] = title[1]

(* The title is looked for at the head of a line, not as the whole of it. *)
Matches(service, line, title) ==
    /\ line.kind = "task" /\ ~line.done
    /\ IsPrefix(title, line.text)
    /\ ~Followed(service, line.text, Len(title))

Marked(service, line, title, page) ==
    IF ~Matches(service, line, title) THEN line
    ELSE [line EXCEPT !.text = title \o <<[service |-> service, page |-> page]>>
                                 \o SubSeq(line.text, Len(title) + 1, Len(line.text))]

(* Titles are marked in the order in which they were sent; of two equal    *)
(* titles the page of the second is kept, in the place of the first.       *)
WithMarks(service, lines, mapping) ==
    FoldLeft(LAMBDA ls, e : [n \in DOMAIN ls |-> Marked(service, ls[n], e.title, e.page)],
             lines, mapping)

Noted(mapping, title, page) ==
    IF \E n \in DOMAIN mapping : mapping[n].title = title
    THEN [n \in DOMAIN mapping |->
             IF mapping[n].title = title THEN [title |-> title, page |-> page] ELSE mapping[n]]
    ELSE Append(mapping, [title |-> title, page |-> page])

(* Mutant: nothing is looked at before it is sent. *)
NeverSecret(title) == FALSE

HasSecret(title) == \E n \in DOMAIN title : title[n] \in Sensitive

-----------------------------------------------------------------------------
Init ==
    /\ active \in Memories \union {None}
    /\ archives = [s \in 1..MaxClock |-> None]
    /\ manifest = <<>>
    /\ pages = [s \in Services |-> <<>>]
    /\ logged = [s \in Services |-> {}]
    /\ proc = [p \in Processes |-> None]
    /\ result = None
    /\ clock = 1
    /\ ever = IF active = None THEN {} ELSE TitlesIn(active)
    /\ harmed = {}
    /\ runs = 0 /\ faults = 0 /\ edits = 0

Idle == \A p \in Processes : proc[p] = None
Begins(p) ==
    /\ proc[p] = None /\ runs < MaxRuns /\ active # None
    /\ runs' = runs + 1
    /\ harmed' = IF Idle THEN harmed ELSE harmed \union {"overlap"}

At(p, kind, stage) == proc[p] # None /\ proc[p].kind = kind /\ proc[p].stage = stage
Goes(p, stage) == proc' = [proc EXCEPT ![p].stage = stage]
Fault == faults < MaxFaults /\ faults' = faults + 1

-----------------------------------------------------------------------------
(* A synchronisation reads the tasks once, at its beginning. *)
StartSync(p) ==
    /\ Begins(p)
    /\ \E service \in Services :
          LET todo == Pending(service, active)
          IN  proc' = [proc EXCEPT ![p] =
                  [kind |-> "sync", stage |-> "send", service |-> service, asked |-> todo,
                   todo |-> todo, tries |-> 1, mapping |-> <<>>, failed |-> {}, lines |-> <<>>]]
    /\ UNCHANGED <<active, janitors, outside, result, clock, ever, faults, edits>>

GaveUp(p) ==
    [proc EXCEPT ![p].todo = Tail(@), ![p].tries = 1,
                 ![p].failed = @ \union {Head(proc[p].todo)}]

Sending(p) == At(p, "sync", "send") /\ proc[p].todo # <<>>
Title(p) == Head(proc[p].todo)
Created(p) == pages' = [pages EXCEPT ![proc[p].service] = Append(@, Title(p))]

Refuse(p) ==
    /\ Sending(p)
    /\ HasSecret(Title(p))
    /\ proc' = GaveUp(p)
    /\ UNCHANGED <<active, janitors, outside, result, harmed, bounded>>

(* Mutant: the attempt to note the page does not count. *)
AnsweredAnyway(p) ==
    /\ Sending(p) /\ ~HasSecret(Title(p))
    /\ Created(p)
    /\ proc' = [proc EXCEPT ![p].todo = Tail(@), ![p].tries = 1,
                            ![p].mapping = Noted(@, Title(p), Len(pages[proc[p].service]) + 1)]
    /\ \/ logged' = [logged EXCEPT ![proc[p].service] = @ \union {Len(pages[proc[p].service]) + 1}]
          /\ UNCHANGED faults
       \/ Fault /\ UNCHANGED logged
    /\ UNCHANGED <<active, janitors, result, harmed, clock, ever, runs, edits>>

(* The page is created and the answer arrives; then it is noted, and if    *)
(* that fails the task counts as failed, though its page is there.         *)
Answered(p) ==
    /\ Sending(p) /\ ~HasSecret(Title(p))
    /\ Created(p)
    /\ LET page == Len(pages[proc[p].service]) + 1
       IN  \/ /\ logged' = [logged EXCEPT ![proc[p].service] = @ \union {page}]
              /\ proc' = [proc EXCEPT ![p].todo = Tail(@), ![p].tries = 1,
                                      ![p].mapping = Noted(@, Title(p), page)]
              /\ UNCHANGED faults
           \/ Fault /\ proc' = GaveUp(p) /\ UNCHANGED logged
    /\ UNCHANGED <<active, janitors, result, harmed, clock, ever, runs, edits>>

(* The service is busy, the connection breaks before or after the page is  *)
(* created, or the service says no: the first two are tried again.         *)
Unanswered(p) ==
    /\ Sending(p) /\ ~HasSecret(Title(p))
    /\ Fault
    /\ Created(p) \/ UNCHANGED pages
    /\ proc' = IF proc[p].tries < MaxTries THEN [proc EXCEPT ![p].tries = @ + 1] ELSE GaveUp(p)
    /\ UNCHANGED <<active, janitors, logged, result, harmed, clock, ever, runs, edits>>

(* No answer in time, and a refusal, are not tried again. *)
Rejected(p) ==
    /\ Sending(p) /\ ~HasSecret(Title(p))
    /\ Fault
    /\ Created(p) \/ UNCHANGED pages
    /\ proc' = GaveUp(p)
    /\ UNCHANGED <<active, janitors, logged, result, harmed, clock, ever, runs, edits>>

Report(p) ==
    [service |-> proc[p].service, asked |-> proc[p].asked, failed |-> proc[p].failed,
     synced |-> {proc[p].mapping[n].page : n \in DOMAIN proc[p].mapping}]

(* All tasks tried: the file is read again, marked and written as a whole. *)
ReadBack(p) ==
    /\ At(p, "sync", "send") /\ proc[p].todo = <<>>
    /\ IF proc[p].mapping = <<>>
       THEN /\ proc' = [proc EXCEPT ![p] = None]
            /\ result' = Report(p)
       ELSE /\ proc' = [proc EXCEPT ![p].stage = "write",
                   ![p].lines = WithMarks(proc[p].service, active, proc[p].mapping)]
            /\ UNCHANGED result
    /\ UNCHANGED <<active, janitors, outside, harmed, bounded>>

WriteBack(p) ==
    /\ At(p, "sync", "write")
    /\ active' = proc[p].lines
    /\ result' = Report(p)
    /\ proc' = [proc EXCEPT ![p] = None]
    /\ UNCHANGED <<janitors, outside, harmed, bounded>>

-----------------------------------------------------------------------------
(* A cleanup: the file is copied to the archive of this second, then cut   *)
(* down, then listed.                                                      *)
StartCleanup(p) ==
    /\ Begins(p)
    /\ proc' = [proc EXCEPT ![p] =
           [kind |-> "cleanup", stage |-> "archive", second |-> clock, lines |-> active,
            manifest |-> <<>>]]
    /\ UNCHANGED <<active, janitors, outside, result, clock, ever, faults, edits>>

(* The head ends where the next steps begin, and they end with the next    *)
(* heading.                                                                *)
NextSteps(lines) ==
    LET starts == {n \in DOMAIN lines : lines[n].kind = "next"}
    IN  IF starts = {} THEN Len(lines) + 1 ELSE Min(starts)

SectionAt(lines, start) ==
    LET ends == {n \in DOMAIN lines : n > start /\ lines[n].kind \in {"next", "heading"}}
    IN  SubSeq(lines, start, IF ends = {} THEN Len(lines) ELSE Min(ends) - 1)

CutDown(lines, second) ==
    LET start == NextSteps(lines)
    IN  <<[kind |-> "pointer", to |-> second]>>
          \o SubSeq(lines, 1, Min({HeadLines, start - 1})) \o SectionAt(lines, start)

Reused(p) == IF archives[proc[p].second] = None THEN {} ELSE {"same second"}

(* Mutant: what is archived is what stays. *)
ArchiveStaying(p) ==
    /\ At(p, "cleanup", "archive")
    /\ archives' = [archives EXCEPT ![proc[p].second] = CutDown(proc[p].lines, proc[p].second)]
    /\ harmed' = harmed \union Reused(p)
    /\ Goes(p, "cut")
    /\ UNCHANGED <<active, manifest, outside, result, bounded>>

Archive(p) ==
    /\ At(p, "cleanup", "archive")
    /\ archives' = [archives EXCEPT ![proc[p].second] = proc[p].lines]
    /\ harmed' = harmed \union Reused(p)
    /\ Goes(p, "cut")
    /\ UNCHANGED <<active, manifest, outside, result, bounded>>

Cut(p) ==
    /\ At(p, "cleanup", "cut")
    /\ active' = CutDown(proc[p].lines, proc[p].second)
    /\ Goes(p, "load")
    /\ UNCHANGED <<janitors, outside, result, harmed, bounded>>

(* Mutant: the manifest starts anew each time. *)
LoadNothing(p) ==
    /\ At(p, "cleanup", "load")
    /\ proc' = [proc EXCEPT ![p].manifest = <<proc[p].second>>, ![p].stage = "save"]
    /\ UNCHANGED <<active, janitors, outside, result, harmed, bounded>>

(* A manifest that cannot be read is taken for an empty one. *)
Load(p) ==
    /\ At(p, "cleanup", "load")
    /\ proc' = [proc EXCEPT ![p].stage = "save",
           ![p].manifest = Append(IF manifest = Torn THEN <<>> ELSE manifest, proc[p].second)]
    /\ UNCHANGED <<active, janitors, outside, result, harmed, bounded>>

Save(p) ==
    /\ At(p, "cleanup", "save")
    /\ manifest' = proc[p].manifest
    /\ proc' = [proc EXCEPT ![p] = None]
    /\ UNCHANGED <<active, archives, outside, result, harmed, bounded>>

-----------------------------------------------------------------------------
(* A process dies; a file it was about to write may have been emptied.     *)
Die(p) ==
    /\ proc[p] # None
    /\ Fault
    /\ \/ UNCHANGED <<active, janitors>>
       \/ At(p, "sync", "write") /\ active' = <<>> /\ UNCHANGED janitors
       \/ At(p, "cleanup", "cut") /\ active' = <<>> /\ UNCHANGED janitors
       \/ /\ At(p, "cleanup", "archive")
          /\ archives' = [archives EXCEPT ![proc[p].second] = <<>>]
          /\ UNCHANGED <<active, manifest>>
       \/ At(p, "cleanup", "save") /\ manifest' = Torn /\ UNCHANGED <<active, archives>>
    /\ harmed' = harmed \union {"died in " \o proc[p].kind}
                  \union (IF archives' # archives THEN Reused(p) ELSE {})
    /\ proc' = [proc EXCEPT ![p] = None]
    /\ UNCHANGED <<outside, result, clock, ever, runs, edits>>

(* Somebody works on the tasks. *)
Edit ==
    /\ active # None /\ edits < MaxEdits
    /\ \/ \E n \in TasksIn(active) : active' = [active EXCEPT ![n].done = ~@]
       \/ \E l \in Additions : WordsOf(l.text) \notin ever /\ active' = Append(active, l)
    /\ ever' = ever \union TitlesIn(active')
    /\ harmed' = IF Idle THEN harmed ELSE harmed \union {"overlap"}
    /\ edits' = edits + 1
    /\ UNCHANGED <<janitors, outside, proc, result, clock, runs, faults>>

Tick ==
    /\ clock < MaxClock /\ clock' = clock + 1
    /\ UNCHANGED <<active, janitors, outside, proc, result, harmed, ever, runs, faults, edits>>

Next ==
    \/ \E p \in Processes :
          \/ StartSync(p) \/ Refuse(p) \/ Answered(p) \/ Unanswered(p) \/ Rejected(p)
          \/ ReadBack(p) \/ WriteBack(p)
          \/ StartCleanup(p) \/ Archive(p) \/ Cut(p) \/ Load(p) \/ Save(p)
          \/ Die(p)
    \/ Edit \/ Tick

-----------------------------------------------------------------------------
Archived == {archives[s] : s \in {t \in 1..MaxClock : archives[t] # None}}
Kept == Archived \union (IF active = None THEN {} ELSE {active})
MarksIn(text) == {text[n] : n \in {k \in DOMAIN text : text[k] \notin Words}}

TypeOK ==
    /\ clock \in 1..MaxClock
    /\ harmed \subseteq {"overlap", "same second", "died in sync", "died in cleanup"}
    /\ \A s \in Services : logged[s] \subseteq DOMAIN pages[s]
    /\ runs \in 0..MaxRuns /\ faults \in 0..MaxFaults /\ edits \in 0..MaxEdits

(* Cleaning up loses no task, wherever it dies: what is cut off has been   *)
(* archived. It takes two runs at once, two cleanups in one second, or a   *)
(* synchronisation that dies while it writes.                              *)
NoTaskLost ==
    harmed \subseteq {"died in cleanup"} =>
        \A title \in ever : \E lines \in Kept : title \in TitlesIn(lines)

(* Whoever follows a pointer or the manifest comes to an archive; and      *)
(* nothing is missing in the manifest unless cleanups met or died.         *)
ArchivesFound ==
    /\ \A lines \in Kept : \A n \in DOMAIN lines :
          lines[n].kind = "pointer" => archives[lines[n].to] # None
    /\ manifest # Torn => \A n \in DOMAIN manifest : archives[manifest[n]] # None
    /\ harmed = {} /\ Idle =>
          \A s \in 1..MaxClock : archives[s] # None => \E n \in DOMAIN manifest : manifest[n] = s

(* No title is the beginning of another, nor there twice. *)
TitlesApart ==
    /\ \A t, u \in ever : t # u => ~IsPrefix(t, u)
    /\ \A lines \in Kept : \A m, n \in TasksIn(lines) :
          m # n => WordsOf(lines[m].text) # WordsOf(lines[n].text)

(* A mark names a page, and when titles are apart a page of its own task,  *)
(* whoever has written the file in between.                                *)
MarksNamePages ==
    \A lines \in Kept : \A n \in TasksIn(lines) : \A t \in MarksIn(lines[n].text) :
        /\ t.page \in DOMAIN pages[t.service]
        /\ TitlesApart => WordsOf(pages[t.service][t.page]) = WordsOf(lines[n].text)

(* If titles are apart and nothing went wrong, no task has two pages, and  *)
(* each page is named behind its task.                                     *)
OnePagePerTask ==
    TitlesApart /\ harmed = {} /\ faults = 0 =>
        \A s \in Services :
            /\ \A m, n \in DOMAIN pages[s] :
                  m # n => WordsOf(pages[s][m]) # WordsOf(pages[s][n])
            /\ Idle => \A n \in DOMAIN pages[s] : \E lines \in Kept : \E k \in TasksIn(lines) :
                  \E t \in MarksIn(lines[k].text) : t.service = s /\ t.page = n

(* A task that was not reported as failed has a page, which is noted; and  *)
(* nothing that looks like a secret has been sent.                         *)
ReportedAndNoted ==
    /\ result # None =>
          /\ result.synced \subseteq logged[result.service]
          /\ \A n \in DOMAIN result.asked : result.asked[n] \notin result.failed =>
                \E page \in result.synced : pages[result.service][page] = result.asked[n]
    /\ \A s \in Services : \A n \in DOMAIN pages[s] : \A k \in DOMAIN pages[s][n] :
          pages[s][n][k] \notin Sensitive

HotMemorySound ==
    TypeOK /\ NoTaskLost /\ ArchivesFound /\ MarksNamePages /\ OnePagePerTask /\ ReportedAndNoted
=============================================================================
