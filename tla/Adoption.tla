------------------------------ MODULE Adoption ------------------------------
(***************************************************************************)
(* Adopting the governance baseline in a repository and checking later     *)
(* whether its files have drifted from it (governance_tools/               *)
(* adopt_governance.py, governance_drift_checker.py, upgrade_closeout.py,  *)
(* plan_freshness.py). Commands write file after file while the            *)
(* maintainers edit the same files; days pass and the framework moves on.  *)
(***************************************************************************)
EXTENDS Workspace, Integers, Sequences, FiniteSets, Functions

CONSTANTS
    Contracts, Plans, Mandates,     \* what maintainers write
    Terms,                          \* how sections, fields and documents are called
    AgingDays,                      \* the days on which something is looked at again
    MaxAdoptionCommands, MaxFileEdits

VARIABLES
    base,           \* AGENTS.base.md
    agents,         \* AGENTS.md
    contract,       \* contract.yaml
    plans,          \* the PLAN.md of each place
    baseline,       \* .governance/baseline.yaml
    scaffold,       \* memory files, rule pack and workflow that are there
    release,        \* the version of the framework's AGENTS.base.md
    adopting,       \* the plan of the adoption that is between its two halves
    recordedBase,   \* AGENTS.base.md when a command last wrote the baseline
    mandate,        \* the sections that maintainers require and no adoption dropped
    listed,         \* the documents that maintainers list
    undisturbed,    \* nothing has happened since the last adoption ended
    commands, fileEdits, days

adoptionVars ==
    <<base, agents, contract, plans, baseline, scaffold, release, adopting, recordedBase,
      mandate, listed, undisturbed, commands, fileEdits, days>>

Places == <<"PLAN.md", "docs/PLAN.md">>
Protected == "AGENTS.base.md"
Documents == {Protected, "PLAN.md", "governance/TESTING.md", "governance/ARCHITECTURE.md"}
RequiredFields == {"name", "framework_interface_version", "framework_compatible", "domain"}
MemoryFiles == {"active_task", "tech_stack", "knowledge_base", "review_log"}
Pack == MemoryFiles \union {"governance", "rules", "workflow"}

(* What the files may hold. *)
Bases == [version : Nat, edits : Nat, sentinel : BOOLEAN, obligation : BOOLEAN]
ContractFiles ==
    [fields : SUBSET Terms,
     documents : {None} \union [scalar : BOOLEAN, items : SUBSET Terms],
     override : SUBSET Terms, placeholders : BOOLEAN, copied : BOOLEAN]
PlanFiles ==
    [sections : SUBSET Terms, policy : Nat \union {None}, age : Nat, dated : BOOLEAN]
Baselines ==
    [hash : Bases \union {None}, fields : SUBSET Terms, sections : SUBSET Terms,
     inventory : SUBSET Terms, threshold : Nat \union {None}, place : Range(Places),
     age : Nat, version : Nat]

(* What stands for a file that is not there or does not parse is none that does. *)
ASSUME AdoptionAssumption ==
    /\ Contracts \subseteq ContractFiles /\ Plans \subseteq PlanFiles
    /\ Mandates \subseteq
           [sections : SUBSET Terms, threshold : Nat \union {None}, fields : SUBSET Terms]
    /\ RequiredFields \union Documents \union {"goals"} \subseteq Terms
    /\ AgingDays \subseteq Nat /\ MaxAdoptionCommands \in Nat /\ MaxFileEdits \in Nat
    /\ None \notin Bases \union ContractFiles \union PlanFiles \union Baselines
                       \union [scalar : BOOLEAN, items : SUBSET Terms]
                       \union [place : Range(Places), edits : Nat, days : Nat, scalar : BOOLEAN]
    /\ Torn \notin ContractFiles \union Baselines \union {None}

(* The files of baselines/repo-min: the plan of the day and the contract. *)
TemplateContract ==
    [fields |-> RequiredFields, documents |-> [scalar |-> FALSE, items |-> Documents],
     override |-> {}, placeholders |-> TRUE, copied |-> FALSE]
TemplatePlan == [sections |-> {"goals"}, policy |-> None, age |-> 0, dated |-> TRUE]
TemplateBase == [version |-> release, edits |-> 0, sentinel |-> TRUE, obligation |-> TRUE]

-----------------------------------------------------------------------------
(* contract.yaml: documents is a list, a single value or not there. *)
Listed(c) == IF c.documents = None THEN {} ELSE c.documents.items

(* Mutant: the list starts anew with what is required. *)
WithRequiredOnly(c) == [c EXCEPT !.documents = [scalar |-> FALSE, items |-> Documents]]

(* A list gets what it lacks; otherwise a second key with what is missing  *)
(* is appended, and the parser takes the last.                             *)
WithDocuments(c) ==
    IF Documents \subseteq Listed(c) THEN c
    ELSE LET kept == IF c.documents = None \/ c.documents.scalar THEN {} ELSE Listed(c)
         IN  [c EXCEPT !.documents =
                 [scalar |-> FALSE, items |-> kept \union (Documents \ Listed(c))]]

WithReference(c) ==
    IF Protected \in Listed(c) \union c.override THEN c
    ELSE [c EXCEPT !.override = @ \union {Protected}]

-----------------------------------------------------------------------------
(* check_freshness with a threshold of its own or of the plan's header. *)
Freshness(plan, override) ==
    LET threshold == IF override # None THEN override
                     ELSE IF plan.policy # None THEN plan.policy ELSE 7
    IN  CASE ~plan.dated -> "ERROR"
          [] plan.dated /\ plan.age <= threshold -> "FRESH"
          [] plan.dated /\ plan.age > threshold /\ plan.age <= 2 * threshold -> "STALE"
          [] OTHER -> "CRITICAL"

(* Mutant: the default of the framework outranks the plan. *)
DefaultFirst(plan) == IF baseline.threshold # None THEN baseline.threshold ELSE 14

Threshold(plan) ==
    CASE baseline.threshold # None -> baseline.threshold
      [] baseline.threshold = None /\ plan.policy # None -> None
      [] OTHER -> 14

Parsable(file) == file \notin {None, Torn}

Plan == plans[baseline.place]

(* check_governance_drift: the checks that fail, of each severity. *)
BaselineFailures ==
    [critical |-> {},
     warning |-> {c \in {"framework_version_current", "baseline_yaml_freshness"} :
                    IF c = "baseline_yaml_freshness" THEN baseline.age > 90
                    ELSE baseline.version < release}]

ProtectedFailures ==
    [critical |->
        {c \in {"protected_files_present", "protected_file_sentinel_present"} : base = None}
        \union {c \in {"protected_files_unmodified"} : base # None /\ base # baseline.hash},
     warning |-> {c \in {"protected_file_sentinel_present"} : base # None /\ ~base.sentinel}]

ContractFailures ==
    IF ~Parsable(contract)
    THEN [critical |-> {"contract_required_fields_present"}, warning |-> {}]
    ELSE [critical |-> {c \in {"contract_required_fields_present"} :
                           ~(baseline.fields \subseteq contract.fields)},
          warning |-> {c \in {"contract_agents_base_referenced"} :
                           Protected \notin Listed(contract) \union contract.override}
              \union {c \in {"contract_no_placeholders"} : contract.placeholders}
              \union {c \in {"contract_not_framework_copy"} : contract.copied}]

PlanFailures ==
    LET missing == /\ baseline.sections # {}
                   /\ Plan = None \/ ~(baseline.sections \subseteq Plan.sections)
        status == IF Plan = None THEN None ELSE Freshness(Plan, Threshold(Plan))
    IN  [critical |-> {c \in {"plan_freshness"} : status \in {"CRITICAL", "ERROR"}},
         warning |-> {c \in {"plan_required_sections_present"} : missing}
             \union {c \in {"plan_inventory_current"} :
                        Plan # None /\ Plan.sections # baseline.inventory}]

TreeFailures ==
    [critical |-> {},
     warning |-> {c \in {"agents_sections_filled"} : agents # None /\ agents.stub}
         \union {c \in {"memory_schema_complete"} : ~(MemoryFiles \subseteq scaffold)}]

(* Without a baseline that parses nothing else is looked at. *)
DriftFound ==
    IF ~Parsable(baseline) THEN [critical |-> {"baseline_yaml_present"}, warning |-> {}]
    ELSE LET parts == {BaselineFailures, ProtectedFailures, ContractFailures, PlanFailures,
                       TreeFailures}
         IN  [critical |-> UNION {p.critical : p \in parts},
              warning |-> UNION {p.warning : p \in parts}]

-----------------------------------------------------------------------------
AdoptionInit ==
    /\ base \in {None, [version |-> 0, edits |-> 0, sentinel |-> FALSE, obligation |-> FALSE]}
    /\ agents = None
    /\ contract \in Contracts \union {None}
    /\ plans \in {[p \in Range(Places) |-> IF p = q THEN r ELSE None] :
                     q \in Range(Places), r \in Plans \union {None}}
    /\ baseline = None /\ scaffold = {"rules"}
    /\ release = 1 /\ adopting = None /\ recordedBase = None /\ mandate = {}
    /\ listed = IF Parsable(contract) THEN Listed(contract) ELSE {}
    /\ undisturbed = FALSE /\ commands = 0 /\ fileEdits = 0 /\ days = 0

(* _discover_plan_path *)
Discovered ==
    LET there == {i \in DOMAIN Places : plans[Places[i]] # None}
    IN  IF there = {} THEN None ELSE Places[CHOOSE i \in there : \A j \in there : i <= j]

Command == commands < MaxAdoptionCommands /\ commands' = commands + 1 /\ adopting = None

(* adopt_existing up to contract.yaml: AGENTS.base.md is always replaced,  *)
(* what else is there is kept. A contract that does not parse raises, with *)
(* the files before it already written.                                    *)
AdoptFiles ==
    /\ Command
    /\ LET place == IF Discovered = None THEN "PLAN.md" ELSE Discovered
       IN  /\ plans' = [plans EXCEPT ![place] = IF @ = None THEN TemplatePlan ELSE @]
           /\ adopting' = IF contract = Torn THEN None
                          ELSE [place |-> place, edits |-> fileEdits, days |-> days,
                                scalar |-> contract # None /\ contract.documents # None
                                           /\ contract.documents.scalar]
    /\ base' = TemplateBase
    /\ agents' = IF agents = None THEN [stub |-> TRUE, obligation |-> FALSE] ELSE agents
    /\ contract' = CASE contract = None -> TemplateContract
                     [] contract = Torn -> contract
                     [] OTHER -> WithDocuments(WithReference(contract))
    /\ listed' = CASE contract = None -> Documents
                   [] Parsable(contract) /\ adopting'.scalar -> {}
                   [] OTHER -> listed
    /\ scaffold' = scaffold \union {"workflow"}
    /\ undisturbed' = FALSE
    /\ UNCHANGED <<baseline, release, recordedBase, mandate, fileEdits, days>>

(* Mutant: the sections that are required are not carried over. *)
BaselineUnmandated(place, sections) ==
    [hash |-> base, fields |-> RequiredFields, sections |-> {},
     inventory |-> IF plans[place] = None THEN {} ELSE plans[place].sections,
     threshold |-> None, place |-> place, age |-> 0, version |-> 1]

(* _write_baseline_yaml; a missing file has a hash of zeros. *)
Baseline(place, sections) ==
    [hash |-> base, fields |-> RequiredFields, sections |-> sections,
     inventory |-> IF plans[place] = None THEN {} ELSE plans[place].sections,
     threshold |-> None, place |-> place, age |-> 0, version |-> 1]

(* The second half: the baseline, then what is missing of the rest. *)
AdoptRecord ==
    /\ adopting # None
    /\ baseline' = Baseline(adopting.place, {})
    /\ recordedBase' = base
    /\ mandate' = {}
    /\ scaffold' = Pack
    /\ undisturbed' = (adopting.edits = fileEdits /\ adopting.days = days)
    /\ adopting' = None
    /\ UNCHANGED <<base, agents, contract, plans, release, listed, commands, fileEdits, days>>

Killed ==
    /\ adopting # None
    /\ adopting' = None
    /\ UNCHANGED <<base, agents, contract, plans, baseline, scaffold, release, recordedBase,
                   mandate, listed, undisturbed, commands, fileEdits, days>>

(* refresh_baseline; without a baseline that parses it writes nothing. *)
Refresh ==
    /\ Command
    /\ Parsable(baseline)
    /\ baseline' = Baseline(baseline.place, baseline.sections)
    /\ recordedBase' = base
    /\ undisturbed' = FALSE
    /\ UNCHANGED <<base, agents, contract, plans, scaffold, release, adopting, mandate,
                   listed, fileEdits, days>>

(* upgrade_repo appends the closeout obligation to the first of the two    *)
(* files that is there; the baseline is left alone.                        *)
Patch ==
    /\ Command
    /\ IF base # None
       THEN base' = [base EXCEPT !.obligation = TRUE] /\ UNCHANGED agents
       ELSE /\ agents # None
            /\ agents' = [agents EXCEPT !.obligation = TRUE]
            /\ UNCHANGED base
    /\ undisturbed' = FALSE
    /\ UNCHANGED <<contract, plans, baseline, scaffold, release, adopting, recordedBase, mandate,
                   listed, fileEdits, days>>

-----------------------------------------------------------------------------
FileEdited == fileEdits < MaxFileEdits /\ fileEdits' = fileEdits + 1 /\ undisturbed' = FALSE

EditBase ==
    /\ FileEdited
    /\ base # None
    /\ base' \in {None, [base EXCEPT !.edits = @ + 1], [base EXCEPT !.sentinel = FALSE]}
    /\ UNCHANGED <<agents, contract, plans, baseline, scaffold, release, adopting, recordedBase,
                   mandate, listed, commands, days>>

EditContract ==
    /\ FileEdited
    /\ contract' \in Contracts \union {Torn}
    /\ listed' = IF contract' = Torn THEN {} ELSE Listed(contract')
    /\ UNCHANGED <<base, agents, plans, baseline, scaffold, release, adopting, recordedBase,
                   mandate, commands, days>>

EditTree ==
    /\ FileEdited
    /\ \/ /\ \E p \in Range(Places), q \in Plans \union {None} : plans' = [plans EXCEPT ![p] = q]
          /\ UNCHANGED <<agents, scaffold>>
       \/ /\ agents # None /\ agents' = [agents EXCEPT !.stub = FALSE]
          /\ UNCHANGED <<plans, scaffold>>
       \/ /\ scaffold' = scaffold \ {"review_log"}
          /\ UNCHANGED <<plans, agents>>
    /\ UNCHANGED <<base, contract, baseline, release, adopting, recordedBase, mandate, listed,
                   commands, days>>

(* The contract layer of the baseline is written by hand. *)
EditBaseline ==
    /\ FileEdited
    /\ \/ /\ Parsable(baseline)
          /\ \E m \in Mandates :
                 /\ baseline' = [baseline EXCEPT !.sections = m.sections, !.threshold = m.threshold,
                                                !.fields = m.fields]
                 /\ mandate' = m.sections
       \/ /\ baseline # None /\ baseline' \in {None, Torn}
          /\ mandate' = {}
    /\ UNCHANGED <<base, agents, contract, plans, scaffold, release, adopting, recordedBase,
                   listed, commands, days>>

Release ==
    /\ FileEdited
    /\ release = 1 /\ release' = 2
    /\ UNCHANGED <<base, agents, contract, plans, baseline, scaffold, adopting, recordedBase,
                   mandate, listed, commands, days>>

Older(file, n) == IF Parsable(file) THEN [file EXCEPT !.age = @ + n] ELSE file

Pass(day) ==
    /\ day > days
    /\ days' = day
    /\ plans' = [p \in DOMAIN plans |-> Older(plans[p], day - days)]
    /\ baseline' = Older(baseline, day - days)
    /\ undisturbed' = FALSE
    /\ UNCHANGED <<base, agents, contract, scaffold, release, adopting, recordedBase, mandate,
                   listed, commands, fileEdits>>

AdoptionNext ==
    \/ AdoptFiles \/ AdoptRecord \/ Killed
    \/ Refresh \/ Patch
    \/ EditBase \/ EditContract \/ EditTree \/ EditBaseline
    \/ Release
    \/ \E day \in AgingDays : Pass(day)

AdoptionSpec == AdoptionInit /\ [][AdoptionNext]_adoptionVars

-----------------------------------------------------------------------------
(* What the drift check says can be believed, whatever was run, edited or  *)
(* killed before. Its verdict on the protected file is critical exactly    *)
(* when the file is not what it was when a command last wrote the          *)
(* baseline: an adoption that was killed or raised half-way, or a patch    *)
(* by upgrade_closeout, shows. An adoption that nobody disturbed leaves no *)
(* critical finding but on what it keeps of the user's, and its own file   *)
(* referenced. Sections that maintainers require are asked for until an    *)
(* adoption or the loss of the baseline drops them, refreshing included.   *)
(* The documents that they list stay in the contract, unless they wrote a  *)
(* single value instead of a list. A plan that its own policy calls dead   *)
(* is critical, unless the baseline says otherwise.                        *)
AdoptionSound ==
    /\ Parsable(baseline) /\ base # None =>
           (base # recordedBase <=> "protected_files_unmodified" \in DriftFound.critical)
    /\ undisturbed =>
           /\ DriftFound.critical \subseteq {"contract_required_fields_present", "plan_freshness"}
           /\ DriftFound.warning
                  \intersect {"memory_schema_complete", "plan_inventory_current"} = {}
           /\ "contract_agents_base_referenced" \in DriftFound.warning => listed = {}
    /\ Parsable(baseline) /\ plans[baseline.place] # None =>
           (mandate \subseteq plans[baseline.place].sections
               <=> "plan_required_sections_present" \notin DriftFound.warning)
    /\ Parsable(contract) => listed \subseteq Listed(contract)
    /\ Parsable(baseline) /\ baseline.threshold = None =>
           LET plan == plans[baseline.place]
           IN  plan # None /\ plan.dated /\ plan.policy # None /\ plan.age > 2 * plan.policy =>
                   "plan_freshness" \in DriftFound.critical
=============================================================================
