----------------------------- MODULE RiskSignal -----------------------------
(***************************************************************************)
(* The risk signal of the framework and what a session starts with         *)
(* (governance_tools/framework_risk_signal.py, its three producers,        *)
(* task_level_detector.py, l0_domain_gate.py, authority_loader.py and      *)
(* runtime_hooks/core/session_start.py). Three tools that run on their own *)
(* write and remove one file; a session that finds it alive may not run at *)
(* the lowest level of governance.                                         *)
(***************************************************************************)
EXTENDS Workspace, Integers, Sequences, FiniteSets

CONSTANTS
    SessionInputs,  \* what sessions start with: [words, explicit, risk, force]
    GovernanceDocs, \* the governance documents: [name, audience, load, headed]
    CheckResults,   \* how the checks of one run end: [smoke, pytest]
    Calendar,       \* the days on which something happens
    MaxSignalRuns

Levels == {"L0", "L1", "L2"}

Drift == "governance_drift_checker"
Smoke == "runtime_enforcement_smoke"
Feedback == "runtime_enforcement_feedback"
Producers == {Drift, Smoke, Feedback}

(* KNOWN_COMPONENTS; every one of them asks for L1 at least. *)
Components ==
    {"task_level_detection", "domain_contract_loading", "summary_first_gate", "rule_selection",
     "runtime_enforcement_entrypoint", "runtime_enforcement_quality_trend", "drift_baseline_integrity"}

(* The file, and what a producer has to do to it. *)
Alarms == [op : {"write", "fill"}, components : (SUBSET Components) \ {{}},
           severity : {"critical", "warning"}]
Jobs == Alarms \union [op : {"clear", "look", "unlink"}]
Signals == [components : SUBSET Components, severity : {"critical", "warning"},
            source : Producers, day : Nat]

(* A document is known by its name; a day is a number, and neither a signal *)
(* nor an alarm is what stands for a file that is torn or not there.        *)
ASSUME SignalAssumption ==
    /\ \A input \in SessionInputs : input.explicit \in Levels \union {None}
    /\ \A f, g \in GovernanceDocs : f.name = g.name => f = g
    /\ Calendar \subseteq Nat /\ MaxSignalRuns \in Nat
    /\ None \notin {Torn} \union Nat \union Levels \union Signals \union Jobs /\ Torn \notin Signals

VARIABLES
    signal,         \* framework_risk_signal.json
    job,            \* what each producer still has to do to the file
    feedback,       \* enforcement_feedback.jsonl: [smoke, pytest, day]
    date,
    alarms,         \* the day on which each producer raised what it has not withdrawn
    masked,         \* producers whose signal another one emptied, replaced or removed,
                    \* or they themselves have emptied and not filled again
    started,        \* what the last session started with
    signalRuns

signalVars == <<signal, job, feedback, date, alarms, masked, started, signalRuns>>

(* COMPONENT_OVERRIDES *)
MinLevel == [c \in Components |-> "L1"]
SummaryOff == {"domain_contract_loading", "summary_first_gate"}

Rank == [L0 |-> 0, L1 |-> 1, L2 |-> 2]
Higher(a, b) == IF Rank[b] > Rank[a] THEN b ELSE a

MaxAge == 2         \* days: 48 hours
WindowDays == 7
MinSamples == 3

-----------------------------------------------------------------------------
(* _FRAMEWORK_DRIFT_TO_COMPONENT *)
DriftComponent ==
    [baseline_yaml_present |-> "drift_baseline_integrity",
     protected_files_present |-> "runtime_enforcement_entrypoint",
     protected_files_unmodified |-> "runtime_enforcement_entrypoint",
     protected_file_sentinel_present |-> "drift_baseline_integrity",
     contract_required_fields_present |-> "drift_baseline_integrity"]

Raise(components, severity) == [op |-> "write", components |-> components, severity |-> severity]
Clear == [op |-> "clear"]
ClearOwn == [op |-> "look"]

(* What a drift check leaves to do, by its critical findings; those of no  *)
(* component neither write nor clear.                                      *)
DriftJob(critical) ==
    IF critical = {} THEN Clear
    ELSE LET affected == {DriftComponent[c] : c \in critical \intersect DOMAIN DriftComponent}
         IN  IF affected = {} THEN None ELSE Raise(affected, "critical")

(* check_enforcement_boundary: three checks on the framework itself. *)
SmokeJob(failed) ==
    IF failed = {} THEN Clear ELSE Raise({"runtime_enforcement_entrypoint"}, "critical")

(* _score_for_status: 4 for a smoke test that fails, 2 for pytest; and the *)
(* sum of the scores of some records of the log.                           *)
Score(record) ==
    (IF record.smoke = "fail" THEN 4 ELSE 0) + (IF record.pytest = "fail" THEN 2 ELSE 0)
TotalScore(log, places) ==
    4 * Cardinality({i \in places : log[i].smoke = "fail"})
        + 2 * Cardinality({i \in places : log[i].pytest = "fail"})

(* read_feedback_history: where the records of the last week are. *)
Recent(log) == {i \in DOMAIN log : date - log[i].day <= WindowDays}

(* Mutant: an average is taken of however few samples there are. *)
TrendOfAny(log, places) ==
    LET total == TotalScore(log, places)
        samples == Cardinality(places)
    IN  IF total >= 6 * samples THEN "critical"
        ELSE IF total >= 4 * samples THEN "advisory" ELSE "ok"

(* summarize_feedback_trend *)
TrendOf(log, places) ==
    LET total == TotalScore(log, places)
        samples == Cardinality(places)
    IN  IF samples < MinSamples THEN "insufficient_data"
        ELSE IF total >= 6 * samples THEN "critical"
        ELSE IF total >= 4 * samples THEN "advisory" ELSE "ok"

FeedbackJob(log) ==
    LET trend == TrendOf(log, Recent(log))
    IN  CASE trend = "critical" -> Raise({"runtime_enforcement_quality_trend"}, "critical")
          [] trend = "advisory" -> Raise({"runtime_enforcement_quality_trend"}, "warning")
          [] trend = "ok" -> ClearOwn
          [] trend = "insufficient_data" -> None

-----------------------------------------------------------------------------
SignalInit ==
    /\ signal = None
    /\ job = [p \in Producers |-> None]
    /\ feedback = <<>> /\ date = 0
    /\ alarms = [p \in Producers |-> None] /\ masked = {}
    /\ started = None /\ signalRuns = 0

Run(p) ==
    /\ job[p] = None /\ signalRuns < MaxSignalRuns
    /\ signalRuns' = signalRuns + 1
    /\ started' = None

CheckDrift(critical) ==
    /\ Run(Drift)
    /\ job' = [job EXCEPT ![Drift] = DriftJob(critical)]
    /\ UNCHANGED <<signal, feedback, date, alarms, masked>>

CheckEnforcement(failed) ==
    /\ Run(Smoke)
    /\ job' = [job EXCEPT ![Smoke] = SmokeJob(failed)]
    /\ UNCHANGED <<signal, feedback, date, alarms, masked>>

(* record_feedback: the record is kept whatever comes of the signal. *)
RecordFeedback(smoke, pytest) ==
    /\ Run(Feedback)
    /\ feedback' = Append(feedback, [smoke |-> smoke, pytest |-> pytest, day |-> date])
    /\ job' = [job EXCEPT ![Feedback] = FeedbackJob(feedback')]
    /\ UNCHANGED <<signal, date, alarms, masked>>

OtherAlarms(p) == {q \in Producers \ {p} : alarms[q] # None}

(* write_risk_signal: opening the file empties it. What is written then    *)
(* goes nowhere if the file was removed in between, and over the text of   *)
(* another producer, of which the rest stays if it was longer.             *)
TruncateSignal(p) ==
    /\ job[p] # None /\ job[p].op = "write"
    /\ signal' = Torn
    /\ job' = [job EXCEPT ![p].op = "fill"]
    /\ masked' = masked \union OtherAlarms(p) \union {p}
    /\ started' = None
    /\ UNCHANGED <<feedback, date, alarms, signalRuns>>

FillSignal(p) ==
    /\ job[p] # None /\ job[p].op = "fill"
    /\ LET text == [components |-> job[p].components \intersect Components,
                    severity |-> job[p].severity, source |-> p, day |-> date]
       IN  /\ signal' \in (IF signal = None THEN {None} ELSE IF signal = Torn THEN {text} ELSE {text, Torn})
           /\ masked' = (masked \union OtherAlarms(p) \union {p}) \ (IF signal' = text THEN {p} ELSE {})
    /\ job' = [job EXCEPT ![p] = None]
    /\ alarms' = [alarms EXCEPT ![p] = date]
    /\ started' = None
    /\ UNCHANGED <<feedback, date, signalRuns>>

(* clear_risk_signal, and the last step of clear_risk_signal_for_source:   *)
(* the file goes, whoever wrote it.                                        *)
RemoveSignal(p) ==
    /\ job[p] # None /\ job[p].op \in {"clear", "unlink"}
    /\ signal' = None
    /\ job' = [job EXCEPT ![p] = None]
    /\ alarms' = [alarms EXCEPT ![p] = None]
    /\ masked' = masked \union OtherAlarms(p)
    /\ started' = None
    /\ UNCHANGED <<feedback, date, signalRuns>>

Own(p) == signal \notin {None, Torn} /\ signal.source = p

(* clear_risk_signal_for_source up to the removal. *)
LookForOwn(p) ==
    /\ job[p] # None /\ job[p].op = "look"
    /\ job' = [job EXCEPT ![p] = IF Own(p) THEN [op |-> "unlink"] ELSE None]
    /\ alarms' = [alarms EXCEPT ![p] = IF Own(p) THEN @ ELSE None]
    /\ started' = None
    /\ UNCHANGED <<signal, feedback, date, masked, signalRuns>>

(* A producer ends before it is through; an emptied file stays. *)
DieSignalling(p) ==
    /\ job[p] # None /\ signalRuns < MaxSignalRuns
    /\ signalRuns' = signalRuns + 1
    /\ job' = [job EXCEPT ![p] = None]
    /\ started' = None
    /\ UNCHANGED <<signal, feedback, date, alarms, masked>>

PassDays(d) ==
    /\ d > date
    /\ date' = d
    /\ started' = None
    /\ UNCHANGED <<signal, job, feedback, alarms, masked, signalRuns>>

-----------------------------------------------------------------------------
(* detect_task_level: the kinds of words a description holds, any of them  *)
(* inside another word.                                                    *)
DetectedLevel(words, explicit) ==
    CASE explicit # None -> explicit
      [] explicit = None /\ "L2" \in words -> "L2"
      [] explicit = None /\ "L2" \notin words /\ words \intersect {"veto", "schema", "external"} # {} -> "L1"
      [] explicit = None /\ words = {} -> "L1"
      [] OTHER -> IF "cosmetic" \in words THEN "L0" ELSE "L1"

(* Mutant: only the description is looked at. *)
TriggeredByWords(words, risk) == words \intersect {"schema", "external", "kdc"} # {}

(* apply_upgrade_triggers *)
Triggered(words, risk) ==
    words \intersect {"schema", "external", "kdc"} # {} \/ risk \in {"high", "critical"}

Upgraded(level, words, risk) == IF level = "L0" /\ Triggered(words, risk) THEN "L1" ELSE level

(* Mutant: a signal is taken as alive whatever its age. *)
ReadAnyAge == IF signal \in {None, Torn} THEN None ELSE signal

(* read_risk_signal *)
ReadSignal ==
    IF signal \in {None, Torn} \/ date - signal.day > MaxAge THEN None ELSE signal

(* compute_overrides *)
Overrides(read) ==
    LET affected == IF read = None THEN {} ELSE read.components
        levels == {MinLevel[c] : c \in affected}
    IN  [level |-> IF affected = {} THEN "L0"
                   ELSE CHOOSE l \in levels : \A k \in levels : Rank[k] <= Rank[l],
         full |-> affected \intersect SummaryOff # {}]

(* should_load_domain_contract *)
LoadsContract(level, input) == level # "L0" \/ input.force \/ "domain" \in input.words

Forbidden == {"ARCHITECTURE.md", "REVIEW_CRITERIA.md", "HUMAN-OVERSIGHT.md", "NATIVE-INTEROP.md"}

(* load_authority_table and filter_for_session; a document without a       *)
(* header is in no table.                                                  *)
Allowed(level) ==
    {f.name : f \in {g \in GovernanceDocs :
        /\ g.headed /\ g.audience # "human-only"
        /\ g.load = "always" \/ (g.load = "on-demand" /\ level # "L0")
        /\ level = "L0" => g.name \notin Forbidden}}

(* build_session_start_context up to the checks of the task. *)
StartSession(input) ==
    /\ started = None
    /\ LET read == ReadSignal
           asked == Upgraded(DetectedLevel(input.words, input.explicit), input.words, input.risk)
           level == Higher(asked, Overrides(read).level)
       IN  started' = [input |-> input, level |-> level, raised |-> level # asked,
                       contract |-> LoadsContract(level, input), files |-> Allowed(level),
                       full |-> Overrides(read).full]
    /\ UNCHANGED <<signal, job, feedback, date, alarms, masked, signalRuns>>

SignalNext ==
    \/ \E critical \in {{}, {"plan_freshness"}, {"protected_files_unmodified", "plan_freshness"}} :
           CheckDrift(critical)
    \/ \E failed \in {{}, {"pre_task_ok"}} : CheckEnforcement(failed)
    \/ \E r \in CheckResults : RecordFeedback(r.smoke, r.pytest)
    \/ \E p \in Producers : TruncateSignal(p) \/ FillSignal(p) \/ RemoveSignal(p) \/ LookForOwn(p) \/ DieSignalling(p)
    \/ \E d \in Calendar : PassDays(d)
    \/ \E input \in SessionInputs : StartSession(input)

SignalSpec == SignalInit /\ [][SignalNext]_signalVars

-----------------------------------------------------------------------------
(* While an alarm that its producer has not withdrawn is at most two days  *)
(* old, no session starts at L0, asked for or not, unless another producer *)
(* has emptied, replaced or removed the file, or the producer itself has   *)
(* emptied it to write the alarm again and is not through, or died there:  *)
(* one file holds one alarm, and is written in place. And a level is raised for a signal only within    *)
(* two days of an alarm. The file is never left without its own alarm      *)
(* standing. L0 is never given to risky work, to words that veto it unless *)
(* asked for, and never to what an upgrade is due for. A contract is       *)
(* skipped only at L0, and what a session may read holds nothing meant for *)
(* humans only, and at L0 only what is always read. A feedback alarm has   *)
(* three runs behind it, two of them bad.                                  *)
SignalSound ==
    /\ started # None =>
        LET words == started.input.words
        IN  /\ (\E p \in Producers \ masked : alarms[p] # None /\ date - alarms[p] <= 2)
                   => started.level # "L0"
            /\ started.raised => \E p \in Producers : alarms[p] # None /\ date - alarms[p] <= 2
            /\ started.level = "L0" =>
                   /\ started.input.risk \notin {"high", "critical"}
                   /\ words \intersect {"schema", "external", "kdc"} = {}
                   /\ started.input.explicit = None => words \intersect {"L2", "veto"} = {}
            /\ ~started.contract => started.level = "L0" /\ "domain" \notin words
            /\ \A f \in GovernanceDocs : f.name \in started.files =>
                   f.audience # "human-only" /\ (started.level = "L0" => f.load = "always")
    /\ signal \notin {None, Torn} => alarms[signal.source] # None
    /\ signal \notin {None, Torn} /\ signal.source = Feedback =>
           Cardinality({i \in DOMAIN feedback : Score(feedback[i]) >= 4}) >= 2 /\ Len(feedback) >= 3
=============================================================================
