------------------------------ MODULE Patterns ------------------------------
(***************************************************************************)
(* The six review patterns and the completeness checks of a summary: both  *)
(* look for claims with certain properties, the patterns at any time later *)
(* and only in the report of a document that was created last.             *)
(*                                                                         *)
(* The text of a claim is the set of keyword kinds it contains; `size` is  *)
(* the length of the text.                                                 *)
(***************************************************************************)
EXTENDS Absent, Integers, Sequences, FiniteSets, Functions, SequencesExt

CONSTANTS
    Batches,        \* the claims a summary may end up with, as sequences
    Analysts,       \* requests that run the patterns at the same time
    MaxSummarised,
    MaxPatternRuns

ASSUME PatternsAssumption ==
    /\ \A claims \in Batches :
          /\ Len(claims) \in Nat /\ DOMAIN claims = 1..Len(claims)
          /\ \A n \in DOMAIN claims : claims[n].size \in Nat
    /\ MaxSummarised \in Nat /\ MaxPatternRuns \in Nat

VARIABLES
    pending,      \* reports constructed, with their time of creation, not saved yet
    summarised,   \* AIReport of one document
    analyses,     \* analyses under way: who, over which report, after how many runs
    patternRuns,  \* PatternRunReport, in the order of the saves
    instant

patternsVars == <<pending, summarised, analyses, patternRuns, instant>>

-----------------------------------------------------------------------------
(* A filter matches on everything it states; None: it does not state that. *)
Financial == {"key_financials", "accounting_adjustments"}

Filter(sections, materiality, recurring, keywords) ==
    [sections |-> sections, materiality |-> materiality, recurring |-> recurring,
     keywords |-> keywords]

OneTime == Filter(Financial, {"tier_a"}, {FALSE}, None)
Saying(sections, keywords) == Filter(sections, None, None, keywords)

OperatingVsNetIncome == <<OneTime, Saying(Financial, {"non-operating"})>>
NonRecurringEps == <<[OneTime EXCEPT !.keywords = {"amount", "yuan"}]>>
Exposed == Financial \union {"risk_register"}
FxDrivenProfit == <<Saying(Exposed, {"fx"}), Saying(Exposed, {"amount"})>>
ExpenseRatioOffset == <<Saying(Financial, {"revenue"}), OneTime>>
DebtMaturityRisk == <<Saying({"liquidity", "evidence_gaps", "key_financials"}, {"debt"})>>
CustomerConcentration == <<Saying(Exposed, {"concentration"})>>

PatternRegistry ==
    [operating_vs_net_income |-> OperatingVsNetIncome,
     non_recurring_eps |-> NonRecurringEps,
     fx_driven_profit |-> FxDrivenProfit,
     expense_ratio_offset |-> ExpenseRatioOffset,
     debt_maturity_risk |-> DebtMaturityRisk,
     customer_concentration |-> CustomerConcentration]

(* A claim that does not say whether it is recurring counts as recurring. *)
Recurs(claim) == claim.recurring # FALSE

Meets(claim, f) ==
    /\ claim.section \in f.sections
    /\ f.materiality = None \/ claim.materiality \in f.materiality
    /\ f.recurring = None \/ Recurs(claim) \in f.recurring
    /\ f.keywords = None \/ claim.says \intersect f.keywords # {}

(* Claims are looked at by their places in the summary. *)
Matching(claims, at, f) == {n \in at : Meets(claims[n], f)}

(* Mutant: one filter with a match is enough. *)
SomeMatch(claims, at, filters) ==
    IF \E n \in DOMAIN filters : Matching(claims, at, filters[n]) # {} THEN {}
    ELSE DOMAIN filters

Missing(claims, at, filters) == {n \in DOMAIN filters : Matching(claims, at, filters[n]) = {}}

(* Mutant: the claims of the first filter only. *)
FirstSources(claims, at, filters) == {claims[n].id : n \in Matching(claims, at, filters[1])}

(* The claims of all filters, each once. *)
Sources(claims, at, filters) ==
    {claims[n].id : n \in {x \in at : \E y \in DOMAIN filters : Meets(claims[x], filters[y])}}

RunFilters(claims, at, filters) ==
    LET missing == Missing(claims, at, filters)
        sources == Sources(claims, at, filters)
    IN  IF missing # {}
        THEN [status |-> "insufficient_evidence", sources |-> {},
              missing |-> missing, review |-> FALSE]
        ELSE [status |-> IF sources = {} THEN "not_triggered" ELSE "triggered",
              sources |-> sources, missing |-> {}, review |-> sources # {}]

-----------------------------------------------------------------------------
Liquid(claims, kind) == \E c \in ToSet(claims) : c.section = "liquidity" /\ kind \in c.says

(* _check_completeness: a one-time margin item needs an adjusted margin,    *)
(* cash beside debt or dividends a margin of safety. Contaminated claims    *)
(* are looked at as well.                                                   *)
AdjustmentMissing(claims) ==
    /\ \E c \in ToSet(claims) :
          c.recurring = FALSE /\ c.section \in Financial /\ "impairment" \in c.says
    /\ ~\E c \in ToSet(claims) :
          /\ c.level = "derived_metric" /\ c.section = "accounting_adjustments"
          /\ "adjusted margin" \in c.says

SafetyMissing(claims) ==
    /\ Liquid(claims, "cash") /\ Liquid(claims, "debt")
    /\ ~\E c \in ToSet(claims) :
          /\ c.level = "derived_metric" /\ c.section = "liquidity"
          /\ "safety margin" \in c.says

Warnings(claims) ==
    (IF AdjustmentMissing(claims) THEN {"OC-1"} ELSE {})
        \union (IF SafetyMissing(claims) THEN {"OC-2"} ELSE {})

Clean(claims) == {n \in DOMAIN claims : ~claims[n].contaminated}
Said(claims) == {n \in Clean(claims) : claims[n].level # "insufficient_evidence"}
Narratives(claims) == {n \in Said(claims) : claims[n].narrative}

Length(claims, at) == SumFunctionOnSet([n \in DOMAIN claims |-> claims[n].size], at)

(* More than 0.6 after rounding to hundredths. *)
OverSixTenths(part, whole) == whole > 0 /\ 200 * part > 121 * whole

(* Mutant: every claim counts, whether it says something or not. *)
FlagOfAll(claims) == OverSixTenths(Cardinality(Narratives(claims)), Len(claims))

NarrativeFlag(claims) ==
    \/ OverSixTenths(Cardinality(Narratives(claims)), Cardinality(Said(claims)))
    \/ OverSixTenths(Length(claims, Narratives(claims)), Length(claims, Said(claims)))

-----------------------------------------------------------------------------
PatternsInit ==
    /\ pending = {}
    /\ summarised = {}
    /\ analyses = {}
    /\ patternRuns = <<>>
    /\ instant = 0

(* generate_summary: a report is created and then saved; another instance *)
(* may create and save one of its own in between.                         *)
Create ==
    /\ instant < MaxSummarised
    /\ instant' = instant + 1
    /\ \E claims \in Batches :
          pending' = pending \union
              {[at |-> instant + 1, claims |-> claims, warnings |-> Warnings(claims),
                narrative |-> NarrativeFlag(claims)]}
    /\ UNCHANGED <<summarised, analyses, patternRuns>>

Save ==
    /\ \E r \in pending :
          /\ pending' = pending \ {r}
          /\ summarised' = summarised \union {r}
    /\ UNCHANGED <<analyses, patternRuns, instant>>

(* Mutant: the report created first. *)
Oldest == CHOOSE r \in summarised : \A s \in summarised : r.at <= s.at

Latest == CHOOSE r \in summarised : \A s \in summarised : r.at >= s.at

Results(claims, at) ==
    [p \in DOMAIN PatternRegistry |-> RunFilters(claims, at, PatternRegistry[p])]

Triggered(results) == {p \in DOMAIN results : results[p].status = "triggered"}

RunOf(analysis, at) ==
    LET results == Results(analysis.report.claims, at)
    IN  [at |-> analysis.report.at, after |-> analysis.after, results |-> results,
         triggered |-> Cardinality(Triggered(results))]

(* Mutant: contaminated claims are evaluated like the others. *)
RunOverAll(analysis) == RunOf(analysis, DOMAIN analysis.report.claims)

RunOver(analysis) == RunOf(analysis, Clean(analysis.report.claims))

(* run_pattern_analysis: refused without a report. Reports and runs may be  *)
(* saved by others between its read and its save.                           *)
ReadLatest(a) ==
    /\ summarised # {}
    /\ Len(patternRuns) < MaxPatternRuns
    /\ \A x \in analyses : x.by # a
    /\ analyses' = analyses \union {[by |-> a, report |-> Latest, after |-> Len(patternRuns)]}
    /\ UNCHANGED <<pending, summarised, patternRuns, instant>>

SaveRun(x) ==
    /\ patternRuns' = Append(patternRuns, RunOver(x))
    /\ analyses' = analyses \ {x}
    /\ UNCHANGED <<pending, summarised, instant>>

(* The save raises, or the instance is killed before it. *)
LoseRun(x) ==
    /\ analyses' = analyses \ {x}
    /\ UNCHANGED <<pending, summarised, patternRuns, instant>>

PatternsNext ==
    \/ Create \/ Save
    \/ \E a \in Analysts : ReadLatest(a)
    \/ \E x \in analyses : SaveRun(x) \/ LoseRun(x)

PatternsSpec == PatternsInit /\ [][PatternsNext]_patternsVars

-----------------------------------------------------------------------------
PatternsTyped ==
    /\ \A r \in summarised \union pending : r.at \in 1..instant /\ r.claims \in Batches
    /\ \A n \in DOMAIN patternRuns :
          /\ patternRuns[n].at \in 1..instant /\ patternRuns[n].after \in 0..(n - 1)
          /\ \A p \in DOMAIN PatternRegistry : patternRuns[n].results[p].missing \subseteq DOMAIN PatternRegistry[p]
    /\ instant \in 0..MaxSummarised

ReportOf(run) == CHOOSE r \in summarised : r.at = run.at

(* The engine: ALL filters of a pattern that is triggered are met, each by a *)
(* claim that is cited and clean; a pattern without evidence names filters   *)
(* that no clean claim meets. Also when claims share an identifier.          *)
TriggersAreEvidenced ==
    \A n \in DOMAIN patternRuns : \A p \in DOMAIN PatternRegistry :
        LET result == patternRuns[n].results[p]
            claims == ReportOf(patternRuns[n]).claims
            meets(f) == {x \in Clean(claims) : Meets(claims[x], PatternRegistry[p][f])}
        IN  /\ result.status = "triggered" =>
                  \A f \in DOMAIN PatternRegistry[p] : \E x \in meets(f) : claims[x].id \in result.sources
            /\ result.status # "triggered" =>
                  result.missing # {} /\ \A f \in result.missing : meets(f) = {}

(* An analysis that began when a run was stored is never about an older      *)
(* report than that run, although reports may be saved in another order than *)
(* they were created in. Analyses that overlap may be stored either way.     *)
NeverGoesBack ==
    \A n, o \in DOMAIN patternRuns :
        n <= patternRuns[o].after => patternRuns[n].at <= patternRuns[o].at

(* A summary is flagged as narrative when all it says is told by management, *)
(* and whenever that is clearly more than six tenths; not while it is at     *)
(* most six tenths of the claims and of their text. Gaps and contaminated    *)
(* claims neither raise nor lower the flag.                                  *)
FlagFollowsWhatIsSaid ==
    \A r \in summarised :
        LET said == Said(r.claims)
            told == Narratives(r.claims)
        IN  /\ said # {} /\ told = said => r.narrative
            /\ told = {} => ~r.narrative
            /\ 100 * Cardinality(told) > 61 * Cardinality(said) => r.narrative
            /\ 10 * Cardinality(told) <= 6 * Cardinality(said)
                  /\ 10 * Length(r.claims, told) <= 6 * Length(r.claims, said) => ~r.narrative

(* What patterns and flags say of a document is backed by its claims, and   *)
(* of its latest summary.                                                   *)
PatternsSound ==
    PatternsTyped /\ TriggersAreEvidenced /\ NeverGoesBack /\ FlagFollowsWhatIsSaid
=============================================================================
