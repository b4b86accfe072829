----------------------------- MODULE TaskChecks -----------------------------
(***************************************************************************)
(* The checks before and after a task (runtime_hooks/core/                 *)
(* pre_task_check.py and post_task_check.py, with the resolver of the      *)
(* contract, the rule packs, the validators of evidence and of domains     *)
(* that they call). Between two checks the contract of the repository, its *)
(* environment and its plan may change; an accepted answer may leave a     *)
(* snapshot in the memory.                                                 *)
(***************************************************************************)
EXTENDS Workspace, Integers, Sequences, FiniteSets, Functions

CONSTANTS
    Missing,        \* a path that leads nowhere
    ContractPlaces, \* where contracts can be: [env, found]
    Requests,       \* the tasks that are proposed
    Answers,        \* what is handed in for them
    MaxChanges

(* A path to a contract leads to one, no mode is not a mode, rules are      *)
(* listed in an order, and what fails is counted.                          *)
ASSUME TaskAssumption ==
    /\ \A p \in ContractPlaces : {None, Missing} \intersect p.found = {}
    /\ None \notin {Missing, "durable"}
    /\ \A request \in Requests : DOMAIN request.rules \subseteq Nat
    /\ \A answer \in Answers : answer.checks # None => answer.checks.failed \in Nat

VARIABLES
    reachable,      \* the contracts that a check can find
    plan,           \* the freshness of PLAN.md
    pre,            \* the last check before a task: [request, contract, plan, out]
    post,           \* the last check after a task: [answer, contract, out]
    memory,         \* the answers of which a snapshot is stored
    changes

taskVars == <<reachable, plan, pre, post, memory, changes>>

TaskLevels == {"L0", "L1", "L2"}
Preconditions == {"missing_sample", "missing_spec", "missing_fixture"}

(* BOUNDARY_EFFECT_ORDER *)
EffectRank == [pass |-> 0, warn |-> 1, escalate |-> 2, stop |-> 3]
Stronger(a, b) == IF EffectRank[b] > EffectRank[a] THEN b ELSE a

(* Mutant: the middle level only warns. *)
EffectWarning == [L0 |-> "warn", L1 |-> "warn", L2 |-> "warn"]

(* PRECONDITION_ACTIONS, by the effect that each action stands for. *)
LevelEffect == [L0 |-> "warn", L1 |-> "escalate", L2 |-> "stop"]
Normal(level) == IF level \in TaskLevels THEN level ELSE "L1"

-----------------------------------------------------------------------------
(* Mutant: an explicit path that leads nowhere is passed over as well. *)
ResolveSilently(explicit, beside) ==
    LET found == reachable.found \union beside
        path  == CASE explicit \notin {None, Missing} -> explicit
                   [] explicit \in {None, Missing} /\ reachable.env \notin {None, Missing} ->
                          reachable.env
                   [] OTHER -> IF Cardinality(found) = 1 THEN CHOOSE c \in found : TRUE ELSE None
    IN  [contract |-> path, failed |-> FALSE]

(* resolve_contract: an explicit path must exist, one of the environment   *)
(* that does not is passed over, and several contracts, above the project  *)
(* or above the evidence, are as good as none.                             *)
Resolve(explicit, beside) ==
    LET found == reachable.found \union beside
        path  == CASE explicit # None -> explicit
                   [] explicit = None /\ reachable.env \notin {None, Missing} ->
                          reachable.env
                   [] OTHER -> IF Cardinality(found) = 1 THEN CHOOSE c \in found : TRUE ELSE None
    IN  [contract |-> IF path = Missing THEN None ELSE path, failed |-> explicit = Missing]

(* governance/rules/, and the packs a contract brings itself. *)
FrameworkPacks ==
    {"avalonia", "common", "cpp", "csharp", "gl-hub-vendor-cmd", "kernel-driver",
     "python", "refactor", "swift"}
Packs(contract) ==
    FrameworkPacks \union IF contract \in {None, Torn} THEN {} ELSE contract.packs

(* _TOPIC_DENY_PACKS without the packs that are for everybody. *)
Universal == {"common", "refactor", "release", "review_gate"}
DriverPacks == {"kernel-driver", "kmdf", "wdm", "umdf"}
Frontend == {"avalonia", "electron", "nextjs", "typescript", "supabase"}
Denied ==
    [general |-> {}, runtime_governance |-> {},
     kernel_driver |-> Frontend \union {"firmware_isr"}, firmware |-> Frontend \union DriverPacks,
     ui_presentation |-> DriverPacks \union {"firmware_isr"},
     api_schema |-> DriverPacks \union {"firmware_isr", "avalonia"}]

(* _PACK_TOPIC_HINTS *)
Hints ==
    [p \in DriverPacks \union {"firmware", "firmware_isr"}
             \union {"avalonia", "electron", "nextjs"} \union {"supabase"} |->
        CASE p \in DriverPacks -> "kernel_driver"
          [] p \in {"firmware", "firmware_isr"} -> "firmware"
          [] p \in {"avalonia", "electron", "nextjs"} -> "ui_presentation"
          [] p = "supabase" -> "api_schema"]

(* classify_task_topic: the first pack that hints, then the first topic    *)
(* that the text is about.                                                 *)
TopicOrder ==
    <<"kernel_driver", "firmware", "ui_presentation", "runtime_governance", "api_schema">>
FirstOf(list, set) ==
    list[CHOOSE i \in DOMAIN list :
             list[i] \in set /\ \A j \in DOMAIN list : list[j] \in set => i <= j]
TopicOf(request) ==
    CASE request.topic # None -> request.topic
      [] request.topic = None /\ Range(request.rules) \intersect DOMAIN Hints # {} ->
             Hints[FirstOf(request.rules, DOMAIN Hints)]
      [] OTHER -> IF Range(TopicOrder) \intersect request.about # {}
                  THEN FirstOf(TopicOrder, request.about) ELSE "general"

(* filter_rules_by_topic, and the request itself when nothing is left. *)
ToLoad(request) ==
    LET topic == TopicOf(request)
        rules == Range(request.rules)
        kept  == rules \ (IF topic \in DOMAIN Denied THEN Denied[topic] \ Universal ELSE {})
    IN  IF kept = {} THEN rules ELSE kept

(* _task_matches_precondition and _precondition_present *)
Unmet(contract, request) ==
    IF contract = None THEN {}
    ELSE {t \in Preconditions : contract.applies[t] \intersect request.work # {}
                                /\ t \notin request.shown}

(* _evaluate_preconditions *)
BoundaryEffect(contract, request) ==
    IF Unmet(contract, request) = {} THEN "pass" ELSE LevelEffect[Normal(request.level)]

(* _evaluate_runtime_injection_snapshot with the snapshot of the framework, *)
(* which is for all levels and holds both triggers.                         *)
InjectionEffect(contract, request, summary) ==
    IF summary \/ Unmet(contract, request) # {} THEN LevelEffect[Normal(request.level)] ELSE "pass"

(* run_pre_task_check up to its output. *)
SummaryFirst(contract, request) ==
    contract # None /\ contract.summary /\ request.level # "L2" /\ ~request.full

PreErrors(contract, failed, request) ==
    LET effect == Stronger(BoundaryEffect(contract, request),
                           InjectionEffect(contract, request, SummaryFirst(contract, request)))
    IN  (IF plan \in {"CRITICAL", "ERROR"} THEN {"plan"} ELSE {})
          \union (IF ToLoad(request) \subseteq Packs(contract) THEN {} ELSE {"packs"})
          \union (IF request.risk = "high" /\ request.oversight = "auto" THEN {"oversight"} ELSE {})
          \union (IF failed THEN {"contract"} ELSE {})
          \union (IF effect = "stop" THEN {"boundary"} ELSE {})

PreCheck(request) ==
    LET resolved == IF request.skip THEN [contract |-> None, failed |-> FALSE]
                    ELSE Resolve(request.explicit, {})
        contract == resolved.contract
    IN  IF contract = Torn THEN Torn
        ELSE [errors |-> PreErrors(contract, resolved.failed, request),
              boundary |-> BoundaryEffect(contract, request),
              summary |-> SummaryFirst(contract, request),
              loaded |-> ToLoad(request) \intersect Packs(contract)]

-----------------------------------------------------------------------------
(* validate_contract: the fields of the block that are missing or not      *)
(* valid; the packs must be known wherever the contract looks for them.    *)
BlockErrors(block, contract) ==
    IF block = None THEN {"no block"}
    ELSE block.bad \union (IF block.rules = <<>> THEN {"RULES"} ELSE {})
                   \union (IF Range(block.rules) \subseteq Packs(contract) THEN {} ELSE {"RULES"})

Rules(answer) == IF answer.block = None THEN {} ELSE Range(answer.block.rules)

(* The memory mode: the parameter, the field, candidate. *)
MemoryMode(answer) ==
    CASE answer.mode # None -> answer.mode
      [] answer.mode = None /\ answer.block # None /\ answer.block.mode # None -> answer.block.mode
      [] OTHER -> "candidate"

(* The answer's evidence. "tests" are the kinds of names its tests have,   *)
(* "verified" the flags that are set, "diagnostics" what its analysis      *)
(* says, "covered" the kinds the test validation counted.                  *)
NoChecks == [tests |-> {}, verified |-> {}, diagnostics |-> {}, covered |-> {}, errors |-> FALSE,
             failed |-> 0, diff |-> None, inventory |-> None, behaviour |-> {}, kinds |-> {},
             required |-> {}, conflicts |-> {}]
Given(answer) == IF answer.checks = None THEN NoChecks ELSE answer.checks

(* _merge_public_api_diff_checks: what the checks bring, if it has the     *)
(* shape, or else a comparison of the files that were named.               *)
DiffOf(answer) ==
    LET diff == Given(answer).diff
    IN  CASE "refactor" \notin Rules(answer) -> None
          [] "refactor" \in Rules(answer) /\ diff # None -> IF diff = Torn THEN None ELSE diff
          [] OTHER -> answer.files

(* The flags with the diff taken over: its own verdict replaces what was   *)
(* claimed of the interface.                                               *)
Verified(answer) ==
    LET claimed == Given(answer).verified
        diff    == DiffOf(answer)
    IN  IF diff = None THEN claimed
        ELSE IF diff.ok THEN claimed \union {"interface"} ELSE claimed \ {"interface"}
HasChecks(answer) == answer.checks # None \/ DiffOf(answer) # None

(* validate_failure_completeness; only of an answer that brings checks. *)
FailureErrors(answer) ==
    LET c == Given(answer)
    IN  IF ~HasChecks(answer) THEN {}
        ELSE (IF "failure" \in c.tests \union c.covered THEN {} ELSE {"failure"})
               \union (IF "refactor" \in Rules(answer)
                          /\ "cleanup" \notin c.tests \union c.covered \union Verified(answer)
                       THEN {"cleanup"} ELSE {})

(* Mutant: any entry of the diff of behaviour stands for all. *)
RefactorErrorsLax(answer) ==
    LET c == Given(answer)
    IN  IF "refactor" \notin Rules(answer) THEN {}
        ELSE (IF "regression" \in c.tests THEN {} ELSE {"regression"})
               \union (IF "interface" \in c.tests \union Verified(answer)
                       THEN {} ELSE {"interface"})
               \union (IF c.inventory \in {None, Torn} THEN {"inventory"}
                       ELSE IF c.inventory # {} /\ c.behaviour = {} THEN {"behaviour"} ELSE {})

(* validate_refactor_evidence: the inventory gives the errors that the     *)
(* change touches, and each of them needs an entry of its own.             *)
RefactorErrors(answer) ==
    LET c == Given(answer)
    IN  IF "refactor" \notin Rules(answer) THEN {}
        ELSE (IF "regression" \in c.tests THEN {} ELSE {"regression"})
               \union (IF "interface" \in c.tests \union Verified(answer)
                       THEN {} ELSE {"interface"})
               \union (IF c.inventory \in {None, Torn} THEN {"inventory"}
                       ELSE IF c.inventory = {} THEN {}
                       ELSE IF c.behaviour = Torn \/ ~(c.inventory \subseteq c.behaviour)
                       THEN {"behaviour"} ELSE {})

(* validate_driver_evidence *)
DriverErrors(answer) ==
    LET c == Given(answer)
    IN  IF "kernel-driver" \notin Rules(answer) THEN {}
        ELSE (IF "sdv" \in Verified(answer) \union c.diagnostics THEN {} ELSE {"sdv"})
               \union (IF "irql" \in c.tests \union Verified(answer) \union c.diagnostics
                       THEN {} ELSE {"irql"})
               \union (IF "ioctl" \in c.tests \union Verified(answer) THEN {} ELSE {"ioctl"})
               \union (IF c.failed > 0 THEN {"failing"} ELSE {})

(* discover_domain_validators and run_domain_validators: one that cannot   *)
(* be loaded answers always, the others when a rule of theirs is declared. *)
Ran(contract, answer) ==
    IF contract = None THEN {}
    ELSE {v \in contract.validators : ~v.loads \/ v.rules \intersect Rules(answer) # {}}
Violates(validator, answer) == validator.loads /\ validator.name \in answer.violated

(* _classify_policy_conflicts, in which every conflict that is named is an *)
(* error, and _classify_domain_policy_inputs: the violations of a rule     *)
(* among hard_stop_rules.                                                  *)
PolicyErrors(contract, answer) ==
    (IF Given(answer).conflicts # {} THEN {"policy conflict"} ELSE {})
      \union IF \E v \in Ran(contract, answer) : Violates(v, answer)
                    /\ v.rules \intersect contract.hardStop # {}
             THEN {"domain policy"} ELSE {}

(* _observed_runtime_evidence_kinds *)
Observed(contract, answer) ==
    Given(answer).kinds
      \union (IF Given(answer).diff # None \/ DiffOf(answer) # None
              THEN {"public-api-diff"} ELSE {})
      \union (IF "kernel-driver" \in Rules(answer) /\ DriverErrors(answer) = {}
              THEN {"sdv-text"} ELSE {})
      \union (IF Ran(contract, answer) # {} THEN {"domain-validator-result"} ELSE {})

(* required_evidence_kinds, from the decision model. *)
RequiredKinds == {"sdv-text", "public-api-diff", "domain-validator-result"}

(* _classify_invalid_evidence_schema and _classify_missing_required_evidence *)
EvidenceErrors(contract, answer) ==
    LET missing == (Given(answer).required \intersect RequiredKinds) \ Observed(contract, answer)
    IN  (IF missing = {} THEN {} ELSE {"missing evidence"})
          \union (IF Given(answer).diff = Torn THEN {"invalid evidence"} ELSE {})

(* run_post_task_check up to the snapshot. *)
PostErrors(contract, failed, answer) ==
    BlockErrors(answer.block, contract)
      \union (IF answer.risk = "high" /\ answer.oversight = "auto" THEN {"oversight"} ELSE {})
      \union (IF MemoryMode(answer) = "durable" /\ answer.oversight = "auto"
              THEN {"durable"} ELSE {})
      \union (IF failed THEN {"contract"} ELSE {})
      \union (IF contract = None \/ Rules(answer) \subseteq Packs(contract) THEN {} ELSE {"packs"})
      \union (IF Given(answer).errors THEN {"runtime check"} ELSE {})
      \union (IF DiffOf(answer) # None /\ DiffOf(answer).errors THEN {"api diff"} ELSE {})
      \union FailureErrors(answer) \union RefactorErrors(answer) \union DriverErrors(answer)
      \union {"validator" : v \in {w \in Ran(contract, answer) : ~w.loads}}
      \union EvidenceErrors(contract, answer) \union PolicyErrors(contract, answer)

(* Mutant: a snapshot is made before the evidence is judged. *)
StoredEarly(answer, errors) ==
    answer.snapshot /\ answer.root /\ errors \intersect {"no block", "RULES", "oversight"} = {}

(* The snapshot of an answer without any error, if there is a memory. *)
Snapshotted(answer, errors) == answer.snapshot /\ answer.root /\ errors = {}

PostCheck(answer) ==
    LET resolved == Resolve(answer.explicit, answer.beside)
        errors   == PostErrors(resolved.contract, resolved.failed, answer)
    IN  IF resolved.contract = Torn THEN Torn
        ELSE [errors |-> errors \union IF answer.snapshot /\ ~answer.root /\ errors = {}
                                       THEN {"no memory root"} ELSE {},
              stored |-> Snapshotted(answer, errors)]

-----------------------------------------------------------------------------
TaskInit ==
    /\ reachable \in ContractPlaces
    /\ plan = "FRESH"
    /\ pre = None /\ post = None
    /\ memory = {} /\ changes = 0

TaskIdle == pre = None /\ post = None

Propose(request) ==
    /\ TaskIdle
    /\ pre' = [request |-> request, place |-> reachable, plan |-> plan, out |-> PreCheck(request)]
    /\ UNCHANGED <<reachable, plan, post, memory, changes>>

HandIn(answer) ==
    LET out == PostCheck(answer)
    IN  /\ TaskIdle
        /\ post' = [answer |-> answer, place |-> reachable, out |-> out]
        /\ memory' = IF out # Torn /\ out.stored THEN memory \union {answer} ELSE memory
        /\ UNCHANGED <<reachable, plan, pre, changes>>

(* The caller has read the result. *)
Read ==
    /\ ~TaskIdle
    /\ pre' = None /\ post' = None
    /\ UNCHANGED <<reachable, plan, memory, changes>>

(* The contracts or the environment change, or the plan grows old or is    *)
(* brought up to date.                                                     *)
Change ==
    /\ TaskIdle /\ changes < MaxChanges
    /\ changes' = changes + 1
    /\ \/ reachable' \in ContractPlaces \ {reachable} /\ UNCHANGED plan
       \/ plan' \in {"FRESH", "STALE", "CRITICAL", "ERROR"} \ {plan} /\ UNCHANGED reachable
    /\ UNCHANGED <<pre, post, memory>>

TaskNext ==
    \/ \E request \in Requests : Propose(request)
    \/ \E answer \in Answers : HandIn(answer)
    \/ Read
    \/ Change

TaskSpec == TaskInit /\ [][TaskNext]_taskVars

-----------------------------------------------------------------------------
(* What every answer that was accepted, or is remembered, has to show: a   *)
(* refactoring its regression tests, its cleanup, an API diff without an   *)
(* error if there is one, and an entry for each error it touches; a driver *)
(* its analysis; and evidence that is declared as required is there in a   *)
(* shape that can be read.                                                 *)
Evidenced(answer) ==
    LET c == Given(answer)
        rules == Range(answer.block.rules)
    IN  /\ "refactor" \in rules =>
               /\ "regression" \in c.tests
               /\ "cleanup" \in c.tests \union c.covered \union c.verified
               /\ c.inventory # Torn /\ c.inventory # None
               /\ c.inventory # {} => c.behaviour # Torn /\ c.inventory \subseteq c.behaviour
               /\ \A d \in {IF c.diff # None THEN c.diff ELSE answer.files} \ {None} : ~d.errors
        /\ "kernel-driver" \in rules =>
               c.failed = 0 /\ "sdv" \in c.verified \union c.diagnostics
        /\ "public-api-diff" \in c.required \ c.kinds =>
               c.diff # Torn /\ (c.diff # None \/ (answer.files # None /\ "refactor" \in rules))

Unambiguous(found, c) == found.env \in {None, Missing} /\ found.found = {c}

(* Work starts and ends under the rules that are in force. A task that may *)
(* start keeps the packs that hold for everybody through the filter of its *)
(* topic; it lacks no input that its one contract asks for at L2, and      *)
(* below L2 such a lack is told by its level. A contract that was named is *)
(* never done without, before the task and after it. An answer that is     *)
(* accepted has its evidence, nobody left durable memory to the machine    *)
(* alone, whichever of the two ways the mode was given, and no rule on     *)
(* which its one contract stops is broken. The memory holds such answers   *)
(* only, and each of them that asked for it.                               *)
(*   Nothing is said of the other packs that were asked for: a comment     *)
(* (pre_task_check:390-391) has them loaded "at minimum", the filter being *)
(* "advisory for L0/L1", while the code leaves out at every level what the *)
(* topic denies, unless nothing is left. Nor of the contract before and    *)
(* after a task: each check searches for its own (post_task_check:412).    *)
TaskSound ==
    /\ pre # None /\ pre.out # Torn /\ pre.out.errors = {} =>
        LET request == pre.request
        IN  /\ Range(request.rules) \intersect {"common", "refactor"} \subseteq pre.out.loaded
            /\ request.explicit = Missing => request.skip
            /\ \A c \in pre.place.found, t \in Preconditions :
                   /\ ~request.skip /\ request.explicit = None /\ Unambiguous(pre.place, c)
                   /\ c.applies[t] \intersect request.work # {} /\ t \notin request.shown
                   => /\ request.level # "L2"
                      /\ pre.out.boundary = IF request.level = "L0" THEN "warn" ELSE "escalate"
    /\ post # None /\ post.out # Torn =>
        LET answer == post.answer
        IN  /\ post.out.stored => answer \in memory
            /\ post.out.errors = {} =>
                /\ answer.explicit # Missing
                /\ answer.oversight = "auto" =>
                       answer.risk # "high" /\ "durable" # (IF answer.mode # None THEN answer.mode
                                                            ELSE answer.block.mode)
                /\ answer.snapshot => answer \in memory
                /\ Evidenced(answer)
                /\ \A c \in post.place.found : answer.explicit = None /\ answer.beside \subseteq {c}
                        /\ Unambiguous(post.place, c) =>
                      \A v \in c.validators : v.loads /\
                          (v.rules \intersect Range(answer.block.rules) # {}
                             /\ v.rules \intersect c.hardStop # {} => v.name \notin answer.violated)
    /\ \A answer \in memory :
           /\ Evidenced(answer)
           /\ ~(answer.risk = "high" /\ answer.oversight = "auto")
=============================================================================
