----------------------------- MODULE SessionEnd -----------------------------
(***************************************************************************)
(* The end of a session (governance_tools/session_end_hook.py): the        *)
(* closeout file is judged in four layers, memory is updated at the tier   *)
(* it earns, the gate and the tier of the repository decide the exit code, *)
(* and one line goes to a rotated audit log from which the advisory trend  *)
(* is read. Hooks of several agents may run at once on one repository.     *)
(***************************************************************************)
EXTENDS GatePolicy

CONSTANTS
    Hooks,          \* the processes that may run the hook at the same time
    Inputs,         \* what a session may find, by its number
    Signalling,     \* the tools that leave something behind when they run
    LogLimit, Window, ThresholdPercent,
    MaxClosings, MaxFaults

(* A closeout: the fields that are filled in, those that say NONE or       *)
(* NO_UPDATE, those that are vague, those that name a file or a tool, and  *)
(* the files and tools that are claimed.                                   *)
Fields == {"TASK_INTENT", "WORK_COMPLETED", "FILES_TOUCHED", "CHECKS_RUN",
           "OPEN_RISKS", "NOT_DONE", "RECOMMENDED_MEMORY_UPDATE"}

(* A closeout is read for the fields it has to have and no others. The      *)
(* core's memory decision is in lower case; an empty one is None.          *)
ASSUME SessionEndAssumption ==
    /\ IsFiniteSet(Hooks)
    /\ {LogLimit, Window, MaxClosings, MaxFaults} \subseteq Nat
    /\ ThresholdPercent \in Nat \ {0}
    /\ DOMAIN Inputs = 1..MaxClosings
    /\ \A n \in 1..MaxClosings : \A in \in Inputs[n] :
          /\ in.outcome \in [ok : BOOLEAN, errors : SUBSET STRING, promoted : BOOLEAN,
                             memory : STRING \union {None}]
          /\ in.closeout # None => in.closeout.given \subseteq Fields

VARIABLES
    hooks,          \* where each process is
    candidates,     \* sessions whose closeout was handed to the canonical pipeline
    audits,         \* canonical-audit-log.jsonl
    tmp,            \* its temporary file, one path for every process
    history,        \* the sessions whose lines were put in place, in order
    disturbed,      \* two processes held the log at once, or a read failed
    result,         \* what a process has returned, until the next one starts
    clock, started, faults

sessionVars == <<hooks, candidates, audits, tmp, history, disturbed, result, clock, started, faults>>

Idle == [at |-> "idle"]

SessionInit ==
    /\ hooks = [h \in Hooks |-> Idle]
    /\ candidates = {} /\ audits = <<>> /\ tmp = None
    /\ history = <<>> /\ disturbed = FALSE /\ result = None
    /\ clock = 0 /\ started = 0 /\ faults = 0

-----------------------------------------------------------------------------
MissingFields(closeout) == Fields \ closeout.given

(* Mutant: a field that says nothing is passed over. *)
IssuesOfGiven(closeout) ==
    {f \in {"WORK_COMPLETED", "CHECKS_RUN"} \ closeout.none : f \in closeout.vague}

Issues(closeout) ==
    {f \in {"WORK_COMPLETED", "CHECKS_RUN"} \ closeout.none :
        f \in closeout.vague \/ f \notin closeout.anchored}
      \union (({"TASK_INTENT"} \ closeout.none) \intersect closeout.vague)

Claims(closeout, field) == field \in closeout.given /\ field \notin closeout.none

Inconsistencies(closeout, found) ==
    (IF Claims(closeout, "FILES_TOUCHED") THEN closeout.files \ found ELSE {})
      \union (IF Claims(closeout, "CHECKS_RUN")
              THEN (closeout.tools \intersect Signalling) \ found ELSE {})

Evidence(closeout, found) ==
    IF ~Claims(closeout, "FILES_TOUCHED") /\ ~Claims(closeout, "CHECKS_RUN") THEN "unchecked"
    ELSE IF Inconsistencies(closeout, found) = {} THEN "consistent" ELSE "inconsistent"

Status(closeout, found) ==
    IF closeout = None THEN "closeout_missing"
    ELSE IF MissingFields(closeout) # {} THEN "schema_invalid"
    ELSE IF Issues(closeout) # {} THEN "content_insufficient"
    ELSE IF Evidence(closeout, found) = "inconsistent" THEN "evidence_inconsistent"
    ELSE "valid"

(* Mutant: what is written down is trusted once it is complete. *)
TierOfSchema(closeout, found) ==
    IF closeout # None /\ MissingFields(closeout) = {} THEN "verified" ELSE "none"

(* _determine_memory_tier: content that is sufficient is remembered even   *)
(* when a required field is missing.                                       *)
MemoryTier(closeout, found) ==
    IF Status(closeout, found) = "valid" THEN "verified"
    ELSE IF closeout # None /\ Issues(closeout) = {} THEN "working"
    ELSE "none"

FailureSignals(closeout, found) ==
    IF closeout = None THEN {"closeout_file_missing"}
    ELSE (IF MissingFields(closeout) # {} THEN {"missing_required_fields"} ELSE {})
      \union (IF Issues(closeout) \intersect closeout.vague # {}
              THEN {"vague_phrase_detected"} ELSE {})
      \union (IF Issues(closeout) \ closeout.vague # {} THEN {"no_observable_anchor"} ELSE {})
      \union (IF Inconsistencies(closeout, found) # {} THEN {"cross_reference_failed"} ELSE {})

-----------------------------------------------------------------------------
(* What a repository has in place: readiness is reported, never decided on. *)
Structure == {"artifacts_writable", "schema_doc_present", "agents_base_has_obligation"}

Level(place) ==
    IF ~(Structure \subseteq place) THEN 0
    ELSE IF "agents_base_has_anchor_guidance" \notin place THEN 1 ELSE 3

Activation(place, newest) ==
    IF ~(Structure \subseteq place) THEN "unknown"
    ELSE IF newest = None THEN "pending"
    ELSE IF newest <= 30 THEN "recent" ELSE "stale"

(* The first word that is found decides: {words, event}. *)
Events ==
    <<[words |-> {"override"}, event |-> "reviewer_override"],
      [words |-> {"incident", "postmortem", "root cause"}, event |-> "incident_root_cause"],
      [words |-> {"contract", "governance rule", "enforcement"},
       event |-> "enforcement_semantic_change"],
      [words |-> {"architecture"}, event |-> "architecture_contract_change"],
      [words |-> {"external", "release", "client-facing"}, event |-> "external_behavior_change"]>>

Significance(intent, status) ==
    LET hits == {i \in DOMAIN Events : Events[i].words \intersect intent # {}}
    IN  IF hits # {} THEN [level |-> "L3", event |-> Events[Min(hits)].event, target |-> "decisions"]
        ELSE IF status = "valid" THEN [level |-> "L2", event |-> "other", target |-> "active task"]
        ELSE [level |-> "L1", event |-> "other", target |-> None]

-----------------------------------------------------------------------------
(* Mutant: a closeout is expected of every tier. *)
EffectOfAny(status, tier) ==
    IF status = "closeout_missing" /\ tier # "C" /\ tier # "A" THEN "fail" ELSE "pass"

(* _evaluate_closeout_by_tier: only a missing file has an effect. *)
Effect(status, tier) ==
    IF status = "closeout_missing" /\ tier \notin {"B", "C"} THEN "fail" ELSE "pass"

TierWarnings(status, tier) ==
    IF status # "closeout_missing" THEN {}
    ELSE IF tier = "B" THEN {"closeout_missing_tier_b"}
    ELSE IF tier = None THEN {"hook_coverage_tier_undeclared"}
    ELSE {}

(* _build_canonical_path_audit: an artifact without the key of the ingestor. *)
AuditSignals(artifact, skip) ==
    IF artifact = None THEN IF skip THEN {} ELSE {"test_result_artifact_absent"}
    ELSE IF artifact.torn \/ ~artifact.key THEN {"canonical_interpretation_missing"}
    ELSE {}

(* The run of the core hook, which is not in the repository: it may promote *)
(* memory unless the contract it was given is stateless.                   *)
Outcome(outcome, tier) ==
    [outcome EXCEPT !.promoted = outcome.promoted /\ tier # "none"]

Start(h) ==
    /\ hooks[h].at = "idle" /\ started < MaxClosings
    /\ started' = started + 1
    /\ \E in \in Inputs[started + 1] :
        LET tier == MemoryTier(in.closeout, in.found)
        IN  /\ hooks' = [hooks EXCEPT ![h] =
                   [at |-> "gate", id |-> started + 1, in |-> in,
                    outcome |-> Outcome(in.outcome, tier)]]
            /\ candidates' = IF in.closeout # None /\ MissingFields(in.closeout) = {}
                             THEN candidates \union {started + 1} ELSE candidates
    /\ result' = None
    /\ UNCHANGED <<audits, tmp, history, disturbed, clock, faults>>

DispositionOf(artifact) == IF artifact = None THEN None ELSE artifact.disposition

(* Everything the return value says that does not come from the log. *)
Base(hook, policy) ==
    LET in == hook.in
        status == Status(in.closeout, in.found)
        gate == Evaluate(DispositionOf(in.artifact), policy.values,
                         State(in.artifact, in.age, policy.values))
        signals == AuditSignals(in.artifact, policy.values.skip)
    IN  [id |-> hook.id, in |-> in, status |-> status,
         tier |-> MemoryTier(in.closeout, in.found),
         fails |-> FailureSignals(in.closeout, in.found),
         place |-> [level |-> Level(in.place), activation |-> Activation(in.place, in.newest)],
         state |-> gate.state, coverage |-> policy.values.tier, blocked |-> gate.blocked,
         ok |-> hook.outcome.ok /\ ~gate.blocked
                    /\ (status = "valid" \/ Effect(status, policy.values.tier) = "pass"),
         errors |-> gate.errors \union hook.outcome.errors,
         warnings |-> gate.warnings \union TierWarnings(status, policy.values.tier) \union signals
             \union (IF in.setting.local = None THEN {"repo_local_policy_missing"} ELSE {}),
         signals |-> signals, promoted |-> hook.outcome.promoted,
         memory |-> hook.outcome.memory]

(* load_policy may refuse, after the core hook has run: the process ends. *)
Gate(h) ==
    /\ hooks[h].at = "gate"
    /\ LET in == hooks[h].in
           policy == Load(in.setting.local, in.setting.shipped, in.setting.yaml)
       IN  IF policy.source = Refused
           THEN /\ hooks' = [hooks EXCEPT ![h] = Idle]
                /\ result' = [refused |-> TRUE, exit |-> 1, promoted |-> hooks[h].outcome.promoted]
           ELSE /\ hooks' = [hooks EXCEPT ![h] =
                       [at |-> "read", stamp |-> clock, base |-> Base(hooks[h], policy)]]
                /\ UNCHANGED result
    /\ clock' = clock + 1
    /\ UNCHANGED <<candidates, audits, tmp, history, disturbed, started, faults>>

-----------------------------------------------------------------------------
Line(hook) ==
    [session |-> hook.base.id, stamp |-> hook.stamp, signals |-> hook.base.signals,
     state |-> hook.base.state]

Holding(h) == \E g \in Hooks \ {h} : hooks[g].at \in {"write", "replace"}

LastN(lines, n) == SubSeq(lines, Len(lines) - Min({Len(lines), n}) + 1, Len(lines))

(* Mutant: the newest line is the first to go. *)
KeepFirst(lines) == SubSeq(lines, 1, Min({Len(lines), LogLimit}))

Rotated(lines) == LastN(lines, LogLimit)

ReadLog(h, existing) ==
    /\ hooks[h].at = "read"
    /\ hooks' = [hooks EXCEPT ![h] =
           [at |-> "write", base |-> @.base, line |-> Line(@),
            lines |-> Rotated(Append(existing, Line(@)))]]
    /\ UNCHANGED <<candidates, audits, tmp, history, result, clock, started>>

ReadAudits(h) ==
    /\ ReadLog(h, audits)
    /\ disturbed' = (disturbed \/ Holding(h))
    /\ UNCHANGED faults

(* An error of the file system: the history is taken to be empty. *)
ReadFails(h) ==
    /\ faults < MaxFaults
    /\ faults' = faults + 1
    /\ ReadLog(h, <<>>)
    /\ disturbed' = TRUE

WriteTmp(h) ==
    /\ hooks[h].at = "write"
    /\ tmp' = hooks[h].lines
    /\ hooks' = [hooks EXCEPT ![h].at = "replace"]
    /\ UNCHANGED <<candidates, audits, history, disturbed, result, clock, started, faults>>

(* The file another process has moved away is not there any more: silent. *)
Replace(h) ==
    /\ hooks[h].at = "replace"
    /\ IF tmp = None THEN UNCHANGED <<audits, history>>
       ELSE audits' = tmp /\ history' = Append(history, hooks[h].line.session)
    /\ tmp' = None
    /\ hooks' = [hooks EXCEPT ![h] = [at |-> "report", base |-> @.base]]
    /\ UNCHANGED <<candidates, disturbed, result, clock, started, faults>>

-----------------------------------------------------------------------------
(* By their stamps, of which no two are the same. *)
Sorted(lines) ==
    LET place(i) == Cardinality({j \in DOMAIN lines : lines[j].stamp <= lines[i].stamp})
    IN  [n \in DOMAIN lines |-> lines[CHOOSE i \in DOMAIN lines : place(i) = n]]

WindowOf(lines) ==
    IF Len(lines) > Window /\ Window > 0 THEN LastN(Sorted(lines), Window) ELSE Sorted(lines)

AtRisk(lines) ==
    /\ lines # <<>>
    /\ 100 * Cardinality({i \in DOMAIN lines : lines[i].signals # {}})
           >= ThresholdPercent * Len(lines)

Degenerate(lines) ==
    lines = <<>> \/ 10 * Cardinality({lines[i].state : i \in DOMAIN lines}) < 3 * Len(lines)

Usage(signals, risk) ==
    CASE signals = {} /\ ~risk -> "observed"
      [] signals # {} /\ ~risk -> "missing"
      [] signals = {} /\ risk -> "observed_with_trend_risk"
      [] OTHER -> "trend_risk_context"

(* Mutant: the exit code is read off the errors. *)
VerdictOfErrors(ok, blocked, warnings, errors) ==
    IF errors # {} THEN "BLOCKED" ELSE IF warnings # {} THEN "OK+ADVISORIES" ELSE "OK"

VerdictOf(ok, blocked, warnings, errors) ==
    IF blocked \/ errors # {} THEN "BLOCKED"
    ELSE IF ~ok THEN "NON-GATE-FAILURE"
    ELSE IF warnings # {} THEN "OK+ADVISORIES" ELSE "OK"

(* Any other decision is repeated in the reason. *)
SkippedReason(base) ==
    IF base.promoted THEN None
    ELSE IF base.status = "closeout_missing" THEN "missing_session_closeout_artifact"
    ELSE IF base.memory \in {"no_candidate", "skipped"} THEN "memory_closeout_no_candidate"
    ELSE IF base.memory = "blocked" THEN "memory_closeout_blocked"
    ELSE IF base.memory # None THEN "memory_closeout_other"
    ELSE "promotion_not_performed"

(* The pending entry and the memory artifacts may fail to be written; only *)
(* the first comes before the verdict.                                     *)
Finish(h) ==
    /\ hooks[h].at = "report"
    /\ hooks' = [hooks EXCEPT ![h] = Idle]
    /\ \E traced \in BOOLEAN :
        LET base == hooks[h].base
            window == WindowOf(audits)
            expands == Signals(DispositionOf(base.in.artifact)) # {}
            warnings == base.warnings \union
                (IF expands /\ ~traced THEN {"taxonomy_expansion_log"} ELSE {})
        IN  /\ traced \/ expands
            /\ result' =
                [refused |-> FALSE, exit |-> IF base.ok THEN 0 ELSE 1, base |-> base,
                 risk |-> AtRisk(window), degenerate |-> Degenerate(window),
                 usage |-> Usage(base.signals, AtRisk(window)), window |-> window,
                 verdict |-> VerdictOf(base.ok, base.blocked, warnings, base.errors),
                 skipped |-> SkippedReason(base),
                 significance |-> Significance(IF base.in.closeout = None THEN {}
                                               ELSE base.in.closeout.intent, base.status)]
    /\ UNCHANGED <<candidates, audits, tmp, history, disturbed, clock, started, faults>>

SessionNext ==
    \E h \in Hooks :
        \/ Start(h) \/ Gate(h) \/ ReadAudits(h) \/ ReadFails(h)
        \/ WriteTmp(h) \/ Replace(h) \/ Finish(h)

SessionSpec == SessionInit /\ [][SessionNext]_sessionVars

-----------------------------------------------------------------------------
SessionTyped ==
    /\ \A h \in Hooks : hooks[h].at \in {"idle", "gate", "read", "write", "replace", "report"}
    /\ candidates \subseteq 1..MaxClosings
    /\ disturbed \in BOOLEAN
    /\ result # None => result.exit \in {0, 1}
    /\ result # None /\ ~result.refused => result.skipped \in
           {None, "missing_session_closeout_artifact", "memory_closeout_no_candidate",
            "memory_closeout_blocked", "memory_closeout_other", "promotion_not_performed"}
    /\ clock \in 0..MaxClosings /\ started \in 0..MaxClosings /\ faults \in 0..MaxFaults

(* What a finished session says of itself hangs together. The exit code is *)
(* 0 only when the core hook was content, the gate let it close, and a     *)
(* closeout was there or its tier expects none; with a valid closeout, or  *)
(* none, also whenever that is so: nothing the log or the readiness of the *)
(* repository says has a part in it. The verdict never calls a failing session OK nor *)
(* a blocked one a failure outside the gate. Memory is verified only by a  *)
(* closeout that fills every field and whose claims are found, and every   *)
(* closeout that is not valid says why.                                    *)
ResultSound ==
    result # None /\ ~result.refused =>
        LET base == result.base
            closeout == base.in.closeout
            may == /\ base.in.outcome.ok /\ ~base.blocked
                   /\ closeout = None => base.coverage \in {"B", "C"}
        IN  /\ result.exit = 0 => may
            /\ may /\ (closeout = None \/ base.status = "valid") => result.exit = 0
            /\ result.verdict \in {"OK", "OK+ADVISORIES"} => result.exit = 0
            /\ result.verdict = "NON-GATE-FAILURE" => result.exit = 1 /\ ~base.blocked
            /\ base.tier = "verified" =>
                   /\ closeout # None /\ closeout.given = Fields
                   /\ Claims(closeout, "FILES_TOUCHED") => closeout.files \subseteq base.in.found
                   /\ \A f \in {"WORK_COMPLETED", "CHECKS_RUN"} :
                          f \in closeout.anchored \/ f \in closeout.none
            /\ base.promoted => closeout # None
            /\ base.status = "valid" <=> base.fails = {}
            /\ base.id \in candidates => base.status \notin {"closeout_missing", "schema_invalid"}
            /\ result.risk => \E i \in DOMAIN result.window : result.window[i].signals # {}
            /\ result.usage = "observed" => base.signals = {} /\ ~result.risk

(* Sessions keep their types, and what they say of themselves holds. *)
SessionSound == SessionTyped /\ ResultSound

(* The log never outgrows its limit and holds no session twice; as long as *)
(* no two processes held it at once and no read failed, it is exactly the  *)
(* last lines that were written.                                           *)
AuditKept ==
    /\ Len(audits) <= LogLimit
    /\ \A i, j \in DOMAIN audits : audits[i].session = audits[j].session => i = j
    /\ ~disturbed => [i \in DOMAIN audits |-> audits[i].session] = LastN(history, LogLimit)
=============================================================================
