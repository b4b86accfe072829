------------------------------ MODULE TestGate ------------------------------
(***************************************************************************)
(* The evidence of a test run on its way to the gate, and the trace that   *)
(* unclassified failures leave. A runner's report is ingested into one     *)
(* artifact, which may be torn by a crash, grow old or be replaced at any  *)
(* time; sessions read it, look at its age afterwards, judge it under the  *)
(* policy they loaded, and append to a log that operators rewrite.         *)
(***************************************************************************)
EXTENDS GatePolicy

CONSTANTS
    Reports,        \* what a runner may say
    Settings,       \* the policy files, or None, and PyYAML: [local, shipped, yaml]
    Reviews,        \* what operators enter: [status, note, evidence]
    MaxAge, MaxReports, MaxSessions, MaxReviews

Statuses == {"pending", "reviewed", "updated", "dismissed"}

EntryRecord ==
    [session : 1..MaxSessions, status : Statuses, note : BOOLEAN, evidence : BOOLEAN]

(* Matches gives rules that exist. The numbers of a policy file are        *)
(* integers, and None is none of the things that may be in its place.      *)
ASSUME TestGateAssumption ==
    /\ \A t \in DOMAIN Matches : Matches[t] \subseteq DOMAIN Rules
    /\ \A r \in Reports : r.lines \in Seq([test : DOMAIN Matches, tagged : BOOLEAN])
    /\ \A s \in Settings : \A f \in {s.local, s.shipped} \ {None, Unparsable} :
          /\ "threshold" \in DOMAIN f => f["threshold"] \in Int
          /\ "staleAfter" \in DOMAIN f => f["staleAfter"] \in Int
    /\ Reviews \subseteq [status : Statuses, note : BOOLEAN, evidence : BOOLEAN]
    /\ {MaxAge, MaxReports, MaxSessions, MaxReviews} \subseteq Nat
    /\ None # Unparsable
    /\ None \notin [entries : Seq(EntryRecord), open : BOOLEAN]
    /\ None \notin [actions : [Actions -> Nat], unknown : Nat, signal : BOOLEAN]

VARIABLES
    artifact,       \* latest.json
    age,            \* of the file, in units of the usual staleness threshold
    setting,        \* the policy files in place
    session,        \* the session between reading the artifact and judging it
    decision,       \* the last judgement
    log,            \* taxonomy_expansion_log.ndjson
    review,         \* the operator between reading the log and writing it back
    owed,           \* sessions whose unclassified failures called for an entry
    overlapped,     \* sessions that appended while an operator held the log
    reports, sessions, reviews

vars == <<artifact, age, setting, session, decision, log, review, owed, overlapped,
          reports, sessions, reviews>>

Init ==
    /\ artifact = None /\ age = 0
    /\ setting \in Settings
    /\ session = None /\ decision = None
    /\ log = <<>> /\ review = None /\ owed = {} /\ overlapped = {}
    /\ reports = 0 /\ sessions = 0 /\ reviews = 0

-----------------------------------------------------------------------------
(* test_result_ingestor --out: the file is truncated and written. *)
Ingest(report) ==
    /\ reports < MaxReports
    /\ artifact' = [torn |-> FALSE, of |-> report, disposition |-> Disposition(report)]
    /\ age' = 0
    /\ reports' = reports + 1
    /\ UNCHANGED <<setting, session, decision, log, review, owed, overlapped, sessions, reviews>>

Tear ==
    /\ reports < MaxReports
    /\ artifact' = [torn |-> TRUE, of |-> None, disposition |-> None]
    /\ age' = 0
    /\ reports' = reports + 1
    /\ UNCHANGED <<setting, session, decision, log, review, owed, overlapped, sessions, reviews>>

Grow ==
    /\ artifact # None /\ age < MaxAge
    /\ age' = age + 1
    /\ UNCHANGED <<artifact, setting, session, decision, log, review, owed, overlapped,
                   reports, sessions, reviews>>

-----------------------------------------------------------------------------
(* run_session_end_hook loads the policy and classify_artifact reads the   *)
(* text; the age is asked for afterwards.                                  *)
Read ==
    /\ session = None /\ sessions < MaxSessions
    /\ sessions' = sessions + 1
    /\ LET policy == Load(setting.local, setting.shipped, setting.yaml)
       IN  IF policy.source = Refused
           THEN decision' = [refused |-> TRUE] /\ UNCHANGED session
           ELSE /\ session' = [policy |-> policy, read |-> artifact,
                               before |-> reports, age |-> age]
                /\ UNCHANGED decision
    /\ UNCHANGED <<artifact, age, setting, log, review, owed, overlapped, reports, reviews>>

(* Mutant: an entry is written for any unclassified failure. *)
Expands(disposition) == disposition # None /\ disposition.signal

Entry(n) == [session |-> n, status |-> "pending", note |-> FALSE, evidence |-> FALSE]

(* The entry may fail to be written: the session goes on with a warning. *)
Trace(n, written) ==
    IF written
    THEN /\ log' = Append(log, Entry(n))
         /\ overlapped' = IF review = None THEN overlapped ELSE overlapped \union {n}
    ELSE log' = log /\ overlapped' = overlapped \union {n}

Unclassified(read) ==
    IF read = None \/ read.torn THEN 0
    ELSE Cardinality({t \in Failing(read.of) : Matches[t] = {}})

Close ==
    /\ session # None
    /\ session' = None
    /\ LET values == session.policy.values
           disposition == IF session.read = None THEN None ELSE session.read.disposition
           state == State(session.read, age, values)
       IN  /\ decision' = [refused |-> FALSE, policy |-> session.policy, read |-> session.read,
                           gate |-> Evaluate(disposition, values, state),
                           age |-> session.age, replaced |-> session.before # reports]
           /\ IF Expands(disposition)
              THEN \E written \in BOOLEAN : Trace(sessions, written)
              ELSE UNCHANGED <<log, overlapped>>
           /\ owed' = IF Unclassified(session.read) < EscalationThreshold THEN owed
                      ELSE owed \union {sessions}
    /\ UNCHANGED <<artifact, age, setting, review, reports, sessions, reviews>>

-----------------------------------------------------------------------------
(* Mutant: a closed entry needs no evidence of its own. *)
TraceableLoosely(entry) ==
    entry.status \in {"dismissed", "reviewed", "updated"} => entry.note \/ entry.evidence

(* _check_close_path_evidence *)
Traceable(entry) ==
    CASE entry.status = "dismissed" -> entry.note
      [] entry.status = "updated" -> entry.evidence
      [] entry.status = "reviewed" -> entry.note \/ entry.evidence
      [] OTHER -> TRUE

Reviewed(entry, r) ==
    [entry EXCEPT !.status = r.status, !.note = @ \/ r.note, !.evidence = @ \/ r.evidence]

(* update_entry_status up to the check, which leaves the file alone. *)
BeginReview(n, r) ==
    /\ review = None /\ reviews < MaxReviews
    /\ reviews' = reviews + 1
    /\ \E i \in DOMAIN log :
        /\ log[i].session = n
        /\ \A j \in 1..(i - 1) : log[j].session # n
        /\ Traceable(Reviewed(log[i], r))
        /\ review' = [entries |-> [log EXCEPT ![i] = Reviewed(log[i], r)], open |-> FALSE]
    /\ UNCHANGED <<artifact, age, setting, session, decision, log, owed, overlapped, reports, sessions>>

(* Opening for writing empties the file. *)
Truncate ==
    /\ review # None /\ ~review.open
    /\ review' = [review EXCEPT !.open = TRUE]
    /\ log' = <<>>
    /\ UNCHANGED <<artifact, age, setting, session, decision, owed, overlapped,
                   reports, sessions, reviews>>

(* Mutant: only the entry that changed is written. *)
WriteOne ==
    /\ review # None /\ review.open
    /\ log' = SubSeq(review.entries, Len(review.entries), Len(review.entries))
    /\ review' = None
    /\ UNCHANGED <<artifact, age, setting, session, decision, owed, overlapped,
                   reports, sessions, reviews>>

(* What a session appended to the emptied file is overwritten. *)
WriteBack ==
    /\ review # None /\ review.open
    /\ log' = review.entries
    /\ review' = None
    /\ UNCHANGED <<artifact, age, setting, session, decision, owed, overlapped,
                   reports, sessions, reviews>>

(* The operator's process ends with the file empty. *)
Crash ==
    /\ review # None /\ review.open
    /\ review' = None
    /\ overlapped' = overlapped \union {e.session : e \in Range(review.entries)}
    /\ UNCHANGED <<artifact, age, setting, session, decision, log, owed, reports, sessions, reviews>>

Next ==
    \/ \E r \in Reports : Ingest(r)
    \/ Tear
    \/ Grow
    \/ Read
    \/ Close
    \/ \E n \in 1..MaxSessions, r \in Reviews : BeginReview(n, r)
    \/ Truncate
    \/ WriteBack
    \/ Crash

Spec == Init /\ [][Next]_vars

-----------------------------------------------------------------------------
TypeOK ==
    /\ age \in 0..MaxAge
    /\ setting \in Settings
    /\ artifact # None => artifact.of \in Reports \union {None}
    /\ review # None => review.open \in BOOLEAN
    /\ overlapped \subseteq 1..MaxSessions
    /\ reports \in 0..MaxReports /\ sessions \in 0..MaxSessions /\ reviews \in 0..MaxReviews

(* A gate that lets a session close has seen what it has to see: under a   *)
(* strict policy a whole artifact whose failures, as far as its lines are  *)
(* tagged FAILED or ERROR, need no change of production code, and not too  *)
(* many unclassified ones.  Of failures reported in another way - counted  *)
(* without a line of their own, or by a JUnit or SARIF file - it knows     *)
(* nothing and lets them pass. Audit never blocks, and permissive only on  *)
(* a fresh artifact. A policy file of the repository that is there is      *)
(* never replaced by that of the framework; one that does not parse leaves *)
(* the built-in, strict values. An artifact is too old to be fresh only    *)
(* when it was replaced between the reading and the look at its age.       *)
DecisionSound ==
    decision # None /\ ~decision.refused =>
        LET policy == decision.policy.values
            gate == decision.gate
            failing == IF decision.read = None \/ decision.read.torn THEN {}
                       ELSE {l.test : l \in {x \in Range(decision.read.of.lines) : x.tagged}}
        IN  /\ policy.mode = "audit" => ~gate.blocked
            /\ policy.mode = "permissive" /\ gate.blocked => gate.state = "ok"
            /\ policy.mode = "strict" /\ ~gate.blocked =>
                    /\ decision.read # None /\ ~decision.read.torn
                    /\ \A t \in failing : ActionOf[Kind(t)] \notin policy.blocking
                    /\ policy.unknown = "always_block" => \A t \in failing : Matches[t] # {}
                    /\ policy.unknown = "block_if_count_exceeds" /\ failing # {} =>
                            Cardinality({t \in failing : Matches[t] = {}}) <= policy.threshold
            /\ setting.local # None => decision.policy.source # "framework_default"
            /\ setting.local = Unparsable => policy.mode = "strict" /\ decision.policy.broken
            /\ gate.state = "ok" /\ policy.staleAfter > 0 =>
                    decision.age <= policy.staleAfter \/ decision.replaced

(* Every session whose failures called for a wider taxonomy keeps its      *)
(* entry, whatever operators write, unless it appended while one of them   *)
(* held the log, its append failed, or an operator's process ended with    *)
(* the file open; and an entry that was closed says why.                   *)
TraceKept ==
    LET entries == Range(IF review # None /\ review.open THEN review.entries ELSE log)
    IN  /\ \A e \in entries :
               /\ e.status = "dismissed" => e.note
               /\ e.status = "updated" => e.evidence
               /\ e.status = "reviewed" => e.note \/ e.evidence
        /\ owed \subseteq overlapped \union {e.session : e \in entries}

(* The gate keeps its types and decides as it should. *)
GateSound == TypeOK /\ DecisionSound
=============================================================================
