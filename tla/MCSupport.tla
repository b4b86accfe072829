------------------------------ MODULE MCSupport ------------------------------
(***************************************************************************)
(* Instances for TLC of the parts around the services: Classification, the *)
(* readers of what is stored (Tables, Patterns, ExternalData, Reading, and *)
(* SectionBudget, the division Reading takes in one step), and TestGate    *)
(* and SessionEnd, which judge a session of work.  They share no state     *)
(* that one of them changes, so a behaviour of this module moves one of    *)
(* them; the others rest in one of their initial states.                   *)
(***************************************************************************)
EXTENDS Classification, Tables, Patterns, ExternalData, Reading, SectionBudget,
        TestGate, SessionEnd

CONSTANTS c1, c2, tied, plain, r1, r2, h1, h2

VARIABLE who

(* The instances that classify, those of the readers, and the hooks. *)
Symmetry ==
    Permutations({c1, c2}) \cup Permutations({r1, r2}) \cup Permutations({h1, h2})

-----------------------------------------------------------------------------
(* Classification: two sections; a chunk with keywords of both in equal    *)
(* number, and one without any keyword.                                    *)
MCPage == tied :> 1 @@ plain :> 2
MCSections == <<"revenue", "inventory">>
MCHits == tied :> <<1, 1>> @@ plain :> <<0, 0>>

-----------------------------------------------------------------------------
(* Claims of summaries, for Patterns. *)
Claim(id, section, says) ==
    [id |-> id, section |-> section, says |-> says, materiality |-> "tier_b",
     recurring |-> None, level |-> "observed_fact", contaminated |-> FALSE,
     narrative |-> FALSE, size |-> 1]

OneOff(id, says) ==
    [Claim(id, "key_financials", says) EXCEPT !.materiality = "tier_a", !.recurring = FALSE]

Told(id, size) == [Claim(id, "pipeline", {}) EXCEPT !.narrative = TRUE, !.size = size]

MCFirst ==
    {OneOff("a", {"impairment", "yuan"}),
     [OneOff("b", {"revenue"}) EXCEPT !.contaminated = TRUE],
     Claim("c", "key_financials", {"non-operating", "revenue"}),
     Claim("d", "liquidity", {"cash", "debt"}), Told("f", 1)}

MCSecond ==
    {OneOff("b", {"amount"}), Claim("d", "risk_register", {"fx", "concentration"}),
     [Claim("e", "liquidity", {"safety margin"}) EXCEPT !.level = "derived_metric"],
     Told("g", 3), [Told("h", 5) EXCEPT !.level = "insufficient_evidence"]}

MCBatches == {<<>>} \union {<<a>> : a \in MCFirst} \union (MCFirst \X MCSecond)

-----------------------------------------------------------------------------
MCReplies ==
    {<<[metric |-> "revenue", value |-> 5000]>>,
     <<[metric |-> "eps", value |-> 40], [metric |-> "revenue", value |-> -2000]>>,
     <<[metric |-> "eps", value |-> Unreadable]>>}

-----------------------------------------------------------------------------
Item(key, said, texts) == [key |-> key, status |-> said, texts |-> texts]

MCDisclosures ==
    {<<>>, <<Item("tax", "found", TRUE)>>,
     <<Item("tax", "found", TRUE), Item("tax", "not_found", TRUE)>>,
     <<Item("fx", None, TRUE), Item("bonds", "ambiguous", TRUE), Item("other", "found", FALSE)>>,
     <<Item("fx", "perhaps", TRUE), Item("tax", "found", TRUE)>>,
     <<Item("fx", "found", FALSE)>>, <<Item(None, "found", TRUE)>>,
     <<Item("bonds", "not_applicable", TRUE), Item("fx", "found_incomplete", TRUE)>>}

MCChunksOf == <<1, 0, 2, 1, 1>>
MCSectionOf == <<"a", "a", "b", "a", "b">>
MCSectionQuota == [s \in {"a", "b"} |-> 3]
MCRegistry == <<"tax", "fx", "bonds">>

-----------------------------------------------------------------------------
(* Four sections of different quotas and every count of chunks up to six. *)
MCQuota == [revenue |-> 5, eps |-> 3, outlook |-> 3, unknown |-> 2]

MCSupplies == [DOMAIN MCQuota -> 0..6]

-----------------------------------------------------------------------------
(* Three pages, one of them without tables and one whose first table is    *)
(* empty; rows that slip, and a figure that stands first in one table,     *)
(* after a dash in another.                                                *)
MCTable(widths, revenue) == [widths |-> widths, figures |-> [k \in {"revenue"} |-> revenue]]

MCTablesOn ==
    <<<<MCTable(<<3, 3, 1>>, <<Dash, 7>>), MCTable(<<4, 3, 4>>, <<5>>)>>, <<>>,
      <<MCTable(<<>>, <<>>), MCTable(<<3, 3>>, <<1, 2>>)>>>>

MCCells == {Dash} \cup 1..7

-----------------------------------------------------------------------------
(* The test gate: reports with a failure that needs a change of production *)
(* code, one that does not, and up to four that no rule knows; policies of *)
(* every mode, broken, absent and replaced. "count" stands for the line the *)
(* ingestor adds when failures are counted and none is listed.             *)
Tests == {"drift", "stale", "odd1", "odd2", "odd3", "odd4", "count"}
MCMatches ==
    [t \in Tests |-> CASE t = "drift" -> {4} [] t = "stale" -> {5}
                       [] OTHER -> {}]
MCCategories ==
    [t \in Tests |-> CASE t = "drift" -> {"invalid_input", "boundary"}
                       [] t = "stale" -> {"failure_path"} [] OTHER -> {}]
Report(kind, tests, tagged) ==
    [kind |-> kind, lines |-> [i \in DOMAIN tests |-> [test |-> tests[i], tagged |-> tagged]],
     counted |-> Len(tests), named |-> {"stale"}]
MCReports ==
    {Report("pytest-text", <<>>, TRUE), Report("pytest-text", <<"drift", "odd1", "drift">>, TRUE),
     Report("pytest-text", <<"odd1", "odd2", "odd3">>, TRUE),
     Report("pytest-text", <<"odd1", "odd2", "odd3", "odd4">>, TRUE),
     Report("pytest-text", <<"count">>, FALSE),
     Report("junit-xml", <<"drift">>, FALSE)}
Policy(mode) == [mode |-> mode]
MCSettings ==
    {[local |-> None, shipped |-> Policy("strict"), yaml |-> TRUE],
     [local |-> None, shipped |-> Policy("permissive"), yaml |-> FALSE],
     [local |-> Unparsable, shipped |-> Policy("permissive"), yaml |-> TRUE],
     [local |-> None, shipped |-> None, yaml |-> TRUE],
     [local |-> Policy("audit"), shipped |-> Policy("strict"), yaml |-> TRUE],
     [local |-> Policy("audit"), shipped |-> Policy("strict"), yaml |-> FALSE],
     [local |-> [mode |-> "permissive", tier |-> "B"], shipped |-> None, yaml |-> TRUE],
     [local |-> [mode |-> "strict", tier |-> "Z"], shipped |-> None, yaml |-> TRUE],
     [local |-> [unknown |-> "always_block", staleAfter |-> 0], shipped |-> None, yaml |-> TRUE]}
MCReviews ==
    {[status |-> "dismissed", note |-> TRUE, evidence |-> FALSE],
     [status |-> "updated", note |-> FALSE, evidence |-> TRUE],
     [status |-> "updated", note |-> TRUE, evidence |-> FALSE],
     [status |-> "reviewed", note |-> FALSE, evidence |-> FALSE]}

(* Nothing that happens to the log depends on the policy in force: it is    *)
(* reviewed under one of them.                                              *)
GateLimits == review' # review => setting.shipped = Policy("strict") /\ setting.local = None

-----------------------------------------------------------------------------
(* The end of a session: the first session takes any closeout, outcome of  *)
(* the core hook, artifact and policy, the others plain ones that fill the *)
(* log.                                                                    *)
AllFields ==
    {"TASK_INTENT", "WORK_COMPLETED", "FILES_TOUCHED", "CHECKS_RUN",
     "OPEN_RISKS", "NOT_DONE", "RECOMMENDED_MEMORY_UPDATE"}
Anchored == {"WORK_COMPLETED", "CHECKS_RUN"}
Full ==
    [given |-> AllFields, none |-> {}, vague |-> {}, anchored |-> Anchored,
     files |-> {"a.py"}, tools |-> {"pytest", "ruff"}, intent |-> {"release", "incident"}]
MCCloseouts ==
    {None, Full, [Full EXCEPT !.given = AllFields \ {"NOT_DONE"}, !.intent = {}],
     [Full EXCEPT !.none = {"FILES_TOUCHED", "CHECKS_RUN"}, !.intent = {}],
     [Full EXCEPT !.vague = {"TASK_INTENT"}],
     [Full EXCEPT !.anchored = {"CHECKS_RUN"}],
     [Full EXCEPT !.files = {"gone.py"}]}
Ran(ok, promoted, memory) ==
    [ok |-> ok, errors |-> IF ok THEN {} ELSE {"core"}, promoted |-> promoted, memory |-> memory]
Whole(disposition) == [torn |-> FALSE, key |-> TRUE, disposition |-> disposition]
MCGates ==
    {[local |-> None, shipped |-> [tier |-> "A"], yaml |-> TRUE],
     [local |-> [skip |-> TRUE, tier |-> "B", mode |-> "permissive"], shipped |-> None, yaml |-> TRUE],
     [local |-> [skip |-> TRUE, tier |-> "C", mode |-> "permissive"], shipped |-> None, yaml |-> TRUE],
     [local |-> [mode |-> "audit"], shipped |-> None, yaml |-> TRUE],
     [local |-> [mode |-> "audit"], shipped |-> None, yaml |-> FALSE]}
Structured == {"artifacts_writable", "schema_doc_present", "agents_base_has_obligation"}
Input(closeout, outcome, artifact_, gate) ==
    [closeout |-> closeout, outcome |-> outcome, artifact |-> artifact_, setting |-> gate,
     age |-> IF gate.local = None THEN 2 ELSE 0, found |-> {"a.py", "pytest"},
     place |-> IF closeout = None THEN {} ELSE Structured, newest |-> IF outcome.ok THEN 31 ELSE None]
MCRuns ==
    {<<Ran(TRUE, TRUE, None), Whole(None)>>, <<Ran(TRUE, FALSE, "no_candidate"), None>>,
     <<Ran(TRUE, FALSE, "candidate_created"), Whole(None)>>,
     <<Ran(FALSE, FALSE, "blocked"), [Whole(None) EXCEPT !.key = FALSE]>>,
     <<Ran(TRUE, FALSE, None),
       Whole([actions |-> [a \in {"production_fix_required", "escalate"} |->
                              IF a = "escalate" THEN 3 ELSE 0], unknown |-> 3, signal |-> TRUE])>>}
Audit == [local |-> [mode |-> "audit"], shipped |-> None, yaml |-> TRUE]
Plain == {Input(Full, Ran(TRUE, FALSE, None), a, Audit) : a \in {None, Whole(None)}}
MCInputs ==
    <<{Input(c, r[1], r[2], g) : c \in {None, Full}, r \in MCRuns, g \in MCGates}
        \union {Input(c, Ran(TRUE, TRUE, None), Whole(None), Audit) : c \in MCCloseouts},
      Plain, {Input(Full, Ran(TRUE, FALSE, None), None, Audit)}>>

(* Where no session closes. *)
MCNoInputs == <<>>

-----------------------------------------------------------------------------
readersVars == <<tablesVars, patternsVars, externalVars, readingVars, budgetVars>>

SupportInit ==
    /\ who \in {"classification", "tables", "patterns", "external", "reading", "budget",
               "gate", "hooks"}
    /\ ClassificationInit
    /\ TablesInit /\ PatternsInit /\ ExternalInit /\ ReadingInit /\ BudgetInit
    /\ who # "budget" => supply = Nothing
    /\ Init /\ SessionInit
    /\ who # "gate" => setting.local = None /\ setting.shipped = None

SupportNext ==
    /\ UNCHANGED who
    /\ \/ /\ who = "classification" /\ ClassificationNext
          /\ UNCHANGED <<readersVars, vars, sessionVars>>
       \/ /\ who = "tables" /\ TablesNext
          /\ UNCHANGED <<classificationVars, patternsVars, externalVars, readingVars,
                         budgetVars, vars, sessionVars>>
       \/ /\ who = "patterns" /\ PatternsNext
          /\ UNCHANGED <<classificationVars, tablesVars, externalVars, readingVars,
                         budgetVars, vars, sessionVars>>
       \/ /\ who = "external" /\ ExternalNext
          /\ UNCHANGED <<classificationVars, tablesVars, patternsVars, readingVars,
                         budgetVars, vars, sessionVars>>
       \/ /\ who = "reading" /\ ReadingNext
          /\ UNCHANGED <<classificationVars, tablesVars, patternsVars, externalVars,
                         budgetVars, vars, sessionVars>>
       \/ /\ who = "budget" /\ BudgetNext
          /\ UNCHANGED <<classificationVars, tablesVars, patternsVars, externalVars,
                         readingVars, vars, sessionVars>>
       \/ /\ who = "gate" /\ Next /\ GateLimits
          /\ UNCHANGED <<classificationVars, readersVars, sessionVars>>
       \/ /\ who = "hooks" /\ SessionNext
          /\ UNCHANGED <<classificationVars, readersVars, vars>>

SupportSpec ==
    SupportInit /\ [][SupportNext]_<<who, classificationVars, readersVars, vars, sessionVars>>
=============================================================================
