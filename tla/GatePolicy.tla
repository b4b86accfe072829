----------------------------- MODULE GatePolicy -----------------------------
(***************************************************************************)
(* What a failing test means, which policy file is in force and whether    *)
(* the gate lets a session close: governance_tools/failure_disposition.py, *)
(* test_result_ingestor.py and gate_policy.py as operators without state.  *)
(* A test is a name; Matches gives the rules whose patterns find it and    *)
(* Categories what its name covers.                                        *)
(***************************************************************************)
EXTENDS Absent, Integers, Sequences, FiniteSets, SequencesExt, FiniteSetsExt

CONSTANTS
    Matches,        \* of a test: the positions in Rules whose patterns match its name
    Categories,     \* of a test: the kinds of failure test its name announces
    Unparsable      \* a policy file that is not YAML

Rules == <<"external_exclusion", "stale_assertion", "platform_mock",
           "integration_drift", "stale_assertion", "integration_drift">>

ActionOf ==
    [stale_assertion |-> "test_fix_only", platform_mock |-> "test_fix_only",
     integration_drift |-> "production_fix_required",
     external_exclusion |-> "quarantine", unknown |-> "escalate"]

Actions == {ActionOf[k] : k \in DOMAIN ActionOf}

EscalationThreshold == 3

(* classify_failure: the first rule that matches. *)
Kind(test) == IF Matches[test] = {} THEN "unknown" ELSE Rules[Min(Matches[test])]

Batch(tests) ==
    LET unknown == Cardinality({t \in tests : Kind(t) = "unknown"})
    IN  [actions |-> [a \in Actions |-> Cardinality({t \in tests : ActionOf[Kind(t)] = a})],
         unknown |-> unknown,
         signal |-> unknown >= EscalationThreshold]

-----------------------------------------------------------------------------
(* A report of a runner: its kind, its error lines (a test, and whether    *)
(* the line begins with FAILED or ERROR), the failures its summary counts  *)
(* and the other tests it names. When pytest counts failures and lists     *)
(* none, the one line is the ingestor's own, which is not tagged; neither  *)
(* are the lines of the other runners.                                     *)
Validated(report) == report.kind \in {"pytest-text", "junit-xml"}

NamedTests(report) == report.named \union {line.test : line \in Range(report.lines)}

Required(rollback) ==
    {"invalid_input", "boundary", "failure_path"}
        \union (IF rollback THEN {"rollback_cleanup"} ELSE {})

Uncovered(report, rollback) ==
    {c \in Required(rollback) : \A t \in NamedTests(report) : c \notin Categories[t]}

Failed(report) == IF Validated(report) THEN report.counted ELSE Len(report.lines)

(* Only a tagged line is read as a failing test. *)
Failing(report) == {line.test : line \in {l \in Range(report.lines) : l.tagged}}

Disposition(report) == IF Failing(report) = {} THEN None ELSE Batch(Failing(report))

IngestedOk(report, rollback) ==
    /\ Failed(report) = 0
    /\ report.lines = <<>>
    /\ Validated(report) => Uncovered(report, rollback) = {}

-----------------------------------------------------------------------------
Defaults ==
    [mode |-> "strict", blocking |-> {"production_fix_required"},
     unknown |-> "block_if_count_exceeds", threshold |-> 3, staleAfter |-> 1,
     skip |-> FALSE, tier |-> None]

Refused == "refused"

Build(values, source, fallback, broken) ==
    IF values.tier \notin {"A", "B", "C", None}
    THEN [source |-> Refused]
    ELSE [source |-> source, fallback |-> fallback, broken |-> broken, values |-> values]

(* Mutant: a policy file that cannot be read is passed over. *)
FromPathLenient(file, source, fallback, yaml) ==
    IF ~yaml \/ file = Unparsable
    THEN Build(Defaults, "builtin_default", TRUE, FALSE)
    ELSE Build([k \in DOMAIN Defaults |-> IF k \in DOMAIN file THEN file[k] ELSE Defaults[k]],
               source, fallback, FALSE)

(* _load_from_path: without YAML the policy of the repository is refused,  *)
(* never replaced; a file that does not parse leaves the built-in values.  *)
FromPath(file, source, fallback, yaml) ==
    IF ~yaml THEN
        IF source = "repo_local" THEN [source |-> Refused]
        ELSE Build(Defaults, "builtin_default", TRUE, FALSE)
    ELSE IF file = Unparsable THEN Build(Defaults, "builtin_default", TRUE, TRUE)
    ELSE Build([k \in DOMAIN Defaults |-> IF k \in DOMAIN file THEN file[k] ELSE Defaults[k]],
               source, fallback, FALSE)

Load(local, shipped, yaml) ==
    IF local # None THEN FromPath(local, "repo_local", FALSE, yaml)
    ELSE IF shipped # None THEN FromPath(shipped, "framework_default", TRUE, yaml)
    ELSE Build(Defaults, "builtin_default", TRUE, FALSE)

-----------------------------------------------------------------------------
(* The artifact: None, torn, or an object of some age. *)
Torn == "torn"

(* Mutant: an artifact of exactly the permitted age is kept, an older one too. *)
AgelessState(artifact, age, policy) ==
    IF artifact = None THEN "absent" ELSE IF artifact.torn THEN "malformed" ELSE "ok"

State(artifact, age, policy) ==
    IF artifact = None THEN "absent"
    ELSE IF artifact.torn THEN "malformed"
    ELSE IF policy.staleAfter > 0 /\ age > policy.staleAfter THEN "stale"
    ELSE "ok"

Signals(disposition) ==
    IF disposition # None /\ disposition.signal THEN {"taxonomy_expansion_signal"} ELSE {}

Verdict(state, errors, warnings) ==
    [state |-> state, blocked |-> errors # {}, errors |-> errors, warnings |-> warnings]

(* Mutant: a count that reaches the threshold is let through, one above it too. *)
JudgeKnown(disposition, policy, state) ==
    IF disposition = None THEN Verdict(state, {}, {})
    ELSE Verdict(state, {a \in policy.blocking : disposition.actions[a] > 0},
                 Signals(disposition))

(* _evaluate_disposition *)
Judge(disposition, policy, state) ==
    IF disposition = None THEN Verdict(state, {}, {})
    ELSE LET tooMany ==
                 \/ policy.unknown = "always_block" /\ disposition.unknown > 0
                 \/ policy.unknown = "block_if_count_exceeds"
                        /\ disposition.unknown > policy.threshold
         IN  Verdict(state,
                 {a \in policy.blocking : disposition.actions[a] > 0}
                     \union (IF tooMany THEN {"unknown"} ELSE {}),
                 Signals(disposition) \union
                     (IF ~tooMany /\ disposition.unknown > 0 THEN {"unclassified"} ELSE {}))

(* evaluate_gate *)
Evaluate(disposition, policy, state) ==
    CASE policy.mode = "audit" ->
            Verdict(state, {}, (IF state = "ok" THEN {} ELSE {state})
                                   \union Signals(disposition))
      [] policy.mode = "strict" /\ state \in {"absent", "malformed"} ->
            Verdict(state, {state}, {})
      [] policy.mode = "strict" /\ state = "stale" ->
            [Judge(disposition, policy, state) EXCEPT !.warnings = @ \union {"stale"}]
      [] policy.mode = "permissive" /\ state # "ok" ->
            Verdict(state, {}, {})
      [] OTHER -> Judge(disposition, policy, state)
=============================================================================
