------------------------------ MODULE Measurement ------------------------------
(***************************************************************************)
(* The measurement of the claim governance: sets of claims are parsed with *)
(* and without its rules, the rates before and after compared seed by seed *)
(* in two arms, and from the files of a run a decision is drawn on what    *)
(* may be claimed of the governance. What the rules make of a claim is     *)
(* ClaimParsing's matter. None is a file that is not there, or no run.     *)
(*                                                                         *)
(* A rate is twice a number of claims; it is held in tenths, so that the   *)
(* tolerance of -1.5 is a number.                                          *)
(***************************************************************************)
EXTENDS Absent, ClaimParsing, Integers, Sequences, FiniteSets

CONSTANTS
    Document,    \* the name the parsed claims are attributed to
    Sets,        \* the sets of claims that may be written down for a seed
    MaxHarnessRuns, MaxClaimEdits   \* bounds, the second one of changes of the claims

VARIABLES
    claims,      \* the claims the source has for each layer and seed, and held out
    results,     \* layer, seed and arm -> None or the rates in its file
    checkpoint,  \* the checkpoint of the synthetic layer
    bridge,      \* do the two layers move in one direction?
    verdict,     \* the decision over three layers
    suite,       \* the decision of the equivalence suite
    run,         \* the run under way: None or [todo, claims]
    whole,       \* did every run so far end by itself?
    runs, claimEdits

harnessVars == <<claims, results, checkpoint, bridge, verdict, suite, run, whole, runs, claimEdits>>
outputs == <<results, checkpoint, bridge, verdict, suite>>

Seeds == {350101, 350102, 350103}
Arms == {"arm-1", "arm-2"}
Layers == {"synthetic", "real"}
ClaimSets == Layers \union {"holdout"}

(* The files a run may write: the result of a case, or a summary of them. *)
ResultFiles == Layers \X Seeds \X Arms
Files == ResultFiles \union {<<"checkpoint">>, <<"bridge">>, <<"verdict">>, <<"suite">>}

Measured == [before : Int, after : Int]

ASSUME MeasurementAssumption ==
    /\ \A s \in Sets : s \subseteq RawClaim /\ IsFiniteSet(s)
    /\ None \notin BOOLEAN /\ None # "equivalence_confirmed"
    /\ None \notin Measured
    /\ None \notin [Seeds \X Arms -> Measured]
    /\ None \notin [todo : Seq(Files), claims : [ClaimSets -> [Seeds -> Sets]]]

Scale == 20
Tolerance == -15

-----------------------------------------------------------------------------
(* Without governance a claim keeps what the model wrote; only a claim     *)
(* without evidence is demoted.                                            *)
Ungoverned(r) ==
    [level |-> IF r.evidence = {} THEN "insufficient_evidence" ELSE r.level,
     source |-> r.source, confidence |-> r.confidence, forward |-> r.forward, prefix |-> ""]

Governed(r) == Claim(Document, r, TRUE)

Unblocked(c) ==
    c.level # "insufficient_evidence" /\ c.prefix = "" /\ c.confidence = "high" /\ ~c.forward

(* The audit's count of what is wrong with a claim before the rules: the   *)
(* last branch leaves no narrative out.                                    *)
Violates(r) == r.source \in Narrative

(* ... and after them. *)
Remains(c) ==
    /\ c.source \in Narrative
    /\ \/ c.level = "observed_fact"
       \/ c.source = "management_expectation" /\ c.confidence = "high"
       \/ c.prefix = ""

Rates(layer, set) ==
    IF layer = "synthetic"
    THEN [before |-> Scale * Cardinality({r \in set : Unblocked(Ungoverned(r))}),
          after |-> Scale * Cardinality({r \in set : Unblocked(Governed(r))})]
    ELSE [before |-> Scale * Cardinality({r \in set : Violates(r)}),
          after |-> Scale * Cardinality({r \in set : Remains(Governed(r))})]

Delta(rates) == rates.after - rates.before
(* Mutant: a rate that stands still passes. *)
PassesAtRest(rates) == Delta(rates) <= 0
Passes(rates) == Delta(rates) < Tolerance

(* The arm is recorded, and nothing is computed from it. *)
Outcome(layer, seed, arm, sets) == Rates(layer, sets[layer][seed])

(* Mutant: one seed that passes is enough. *)
DecisionOfAny(passes) ==
    IF \E arm \in Arms, seed \in Seeds : passes[seed, arm] THEN "mechanism_stable_candidate"
    ELSE "threshold_dependent_persists"

(* No case is ever unsupported, so no decision is "inconclusive". *)
Decision(passes) ==
    IF \E arm \in Arms : \A seed \in Seeds : passes[seed, arm]
    THEN "mechanism_stable_candidate" ELSE "threshold_dependent_persists"

DecisionOn(layer, sets) ==
    Decision([c \in Seeds \X Arms |-> Passes(Outcome(layer, c[1], c[2], sets))])

Bridged(sets) ==
    \A seed \in Seeds : \A layer \in Layers : Delta(Rates(layer, sets[layer][seed])) < 0

(* The bridge is reported, and does not take part in the decision. *)
Upgrade(sets) == \A layer \in Layers : DecisionOn(layer, sets) = "mechanism_stable_candidate"

-----------------------------------------------------------------------------
(* The equivalence suite: one probe for each rule, one for each source of  *)
(* claims, and sets held out.                                              *)
Probe(level, source, confidence, words) ==
    [level |-> level, source |-> source, confidence |-> confidence, words |-> words,
     evidence |-> {"quoted"}, forward |-> FALSE, review |-> FALSE, contaminated |-> FALSE]

RuleProbes ==
    {Probe("observed_fact", "strategic_narrative", "high", {}),
     Probe("interpretation", "management_expectation", "high", {}),
     Probe("interpretation", "strategic_narrative", "medium", Outlook),
     Probe("interpretation", "strategic_narrative", "medium", Boasts),
     Probe("interpretation", "strategic_narrative", "medium", {})}

Corrected(r) ==
    LET c == Governed(r)
    IN  /\ r.level = "observed_fact" => c.level # "observed_fact"
        /\ r.source = "management_expectation" => c.confidence # "high"
        /\ r.words = Outlook => c.forward
        /\ r.words = Boasts => c.review \/ c.rhetorical
        /\ r.words = {} /\ r.confidence = "medium" => c.prefix # ""

Untouched(r) ==
    Governed(r).prefix = "" /\ Governed(r).level = r.level /\ Governed(r).confidence = r.confidence

TransferPasses ==
    /\ \A s \in {"financial_evidence", "operational_evidence"} :
          Untouched(Probe("observed_fact", s, "high", {}))
    /\ Governed(Probe("interpretation", "strategic_narrative", "high", {})).prefix # ""
    /\ LET c == Governed(Probe("interpretation", "management_expectation", "high", Outlook))
       IN  c.prefix # "" /\ c.confidence # "high"

HoldoutPasses(sets) == \A seed \in Seeds : Passes(Rates("real", sets["holdout"][seed]))

Suite(sets) ==
    IF (\A r \in RuleProbes : Corrected(r) /\ Violates(r)) /\ TransferPasses /\ HoldoutPasses(sets)
    THEN "equivalence_confirmed" ELSE "equivalence_partial"

-----------------------------------------------------------------------------
HarnessInit ==
    /\ claims \in [ClaimSets -> [Seeds -> Sets]]
    /\ results = [c \in ResultFiles |-> None]
    /\ checkpoint = None /\ bridge = None /\ verdict = None /\ suite = None
    /\ run = None /\ whole = TRUE
    /\ runs = 0 /\ claimEdits = 0

Cases(layer) ==
    << <<layer, 350101, "arm-1">>, <<layer, 350101, "arm-2">>,
       <<layer, 350102, "arm-1">>, <<layer, 350102, "arm-2">>,
       <<layer, 350103, "arm-1">>, <<layer, 350103, "arm-2">> >>

Synthetic == Cases("synthetic") \o << <<"checkpoint">> >>

(* The files a mode writes, in order. *)
Modes ==
    {Synthetic, Cases("real"), Synthetic \o Cases("real") \o << <<"bridge">>, <<"verdict">> >>,
     << <<"suite">> >>}

BeginRun ==
    /\ run = None /\ runs < MaxHarnessRuns
    /\ \E todo \in Modes : run' = [todo |-> todo, claims |-> claims]
    /\ runs' = runs + 1
    /\ UNCHANGED <<claims, outputs, whole, claimEdits>>

WriteOutput ==
    /\ run # None
    /\ LET file == Head(run.todo)
           sets == run.claims
       IN  /\ results' = IF Len(file) = 3
                         THEN [results EXCEPT ![file] = Outcome(file[1], file[2], file[3], sets)]
                         ELSE results
           /\ checkpoint' = IF file = <<"checkpoint">>
                            THEN [c \in Seeds \X Arms |-> Outcome("synthetic", c[1], c[2], sets)]
                            ELSE checkpoint
           /\ bridge' = IF file = <<"bridge">> THEN Bridged(sets) ELSE bridge
           /\ verdict' = IF file = <<"verdict">> THEN Upgrade(sets) ELSE verdict
           /\ suite' = IF file = <<"suite">> THEN Suite(sets) ELSE suite
    /\ run' = IF Len(run.todo) = 1 THEN None ELSE [run EXCEPT !.todo = Tail(@)]
    /\ UNCHANGED <<claims, whole, runs, claimEdits>>

DieMeasuring ==
    /\ run # None
    /\ run' = None
    /\ whole' = FALSE
    /\ UNCHANGED <<claims, outputs, runs, claimEdits>>

(* Somebody rewrites the claims of a seed; a run under way has its own. *)
EditClaims ==
    /\ claimEdits < MaxClaimEdits
    /\ \E kind \in ClaimSets, seed \in Seeds, s \in Sets : claims' = [claims EXCEPT ![kind][seed] = s]
    /\ claimEdits' = claimEdits + 1
    /\ UNCHANGED <<outputs, run, whole, runs>>

HarnessNext == BeginRun \/ WriteOutput \/ DieMeasuring \/ EditClaims

HarnessSpec == HarnessInit /\ [][HarnessNext]_harnessVars

-----------------------------------------------------------------------------
OutcomesOf(layer) == {c \in {layer} \X Seeds \X Arms : results[c] # None}

(* Whatever claims are written down, governance makes no rate worse, and   *)
(* leaves nothing of what the real layer counts: its delta says how many   *)
(* narratives there were.                                                  *)
NeverWorse ==
    /\ \A c \in DOMAIN results : results[c] # None => results[c].after <= results[c].before
    /\ \A c \in OutcomesOf("real") : results[c].after = 0

(* Once runs have ended by themselves, the checkpoint is of the files      *)
(* beside it, and the two arms of a seed are alike.                        *)
FilesAgree ==
    whole /\ run = None =>
        /\ checkpoint # None =>
              \A c \in DOMAIN checkpoint : checkpoint[c] = results[<<"synthetic", c[1], c[2]>>]
        /\ \A layer \in Layers, seed \in Seeds :
              results[<<layer, seed, "arm-1">>] = results[<<layer, seed, "arm-2">>]

(* A claim is upgraded on a bridge that holds, though the decision never   *)
(* asks the bridge; and on files that all improve, until the claims of a   *)
(* seed or the files of a layer are written anew without the decision.     *)
UpgradeIsEarned ==
    verdict = TRUE /\ whole /\ run = None =>
        /\ bridge = TRUE
        /\ claimEdits = 0 => \A c \in DOMAIN results : results[c].after < results[c].before

(* A confirmed suite has seen every rule at work, and in each set held out *)
(* that it was given some narrative was corrected.                         *)
SuiteMeansNarratives ==
    suite = "equivalence_confirmed" /\ claimEdits = 0 =>
        \A seed \in Seeds : \E r \in claims["holdout"][seed] : r.source \in Narrative

MeasurementSound ==
    NeverWorse /\ FilesAgree /\ UpgradeIsEarned /\ SuiteMeansNarratives
=============================================================================
