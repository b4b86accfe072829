------------------------------ MODULE MCService ------------------------------
(***************************************************************************)
(* Instances for TLC of four services of the reader: Ingestion, Diff,      *)
(* ClaimGovernance and Trend.  None changes what another one keeps, so a   *)
(* behaviour of this module moves one of them; the others rest in their    *)
(* initial states.                                                         *)
(***************************************************************************)
EXTENDS Ingestion, Diff, ClaimGovernance, Trend, TLC

CONSTANTS i1, i2, report, broken, q1, q2, other, a1, a2, b1, gone

VARIABLE who

-----------------------------------------------------------------------------
(* Ingestion.  Two documents: an annual report of three pages, the first   *)
(* cut into two chunks and the second an image without text, and a file    *)
(* the PDF library cannot open.                                            *)
MCInstances == {i1, i2}
MCPageChunks == report :> <<2, 0, 1>> @@ broken :> <<1>>

-----------------------------------------------------------------------------
(* Comparisons: two quarters of one company, the later one with two pages, *)
(* and a report of another company.                                        *)
MCStock == q1 :> 1 @@ q2 :> 1 @@ other :> 2
MCChunks == {a1, a2, b1}
MCDocumentOf == a1 :> q2 @@ a2 :> q2 @@ b1 :> q1
MCPage == a1 :> 1 @@ a2 :> 2 @@ b1 :> 3
MCSections == <<"cash", "risk">>

MCLabelings ==
    {a1 :> l[1] @@ a2 :> l[2] @@ b1 :> l[3] :
        l \in {<<"cash", "risk", "risk">>, <<"unknown", "cash", "cash">>}}

ItemOf(type, tone, current, previous, presence) ==
    [type |-> type, tone |-> tone, current |-> current, previous |-> previous,
     presence |-> presence, valid |-> TRUE]

(* A tone shift the model denies to be one beside an item of no legal type  *)
(* with nulls for pages; one it says nothing of beside an item without a    *)
(* source; and one whose description is a null.                             *)
MCAnswers == {
    <<ItemOf("tone_shift", "false", 1, Blank, "both"),
      ItemOf("tone", "absent", Null, Null, "everywhere")>>,
    <<ItemOf("tone_shift", "absent", 2, 3, "both"),
      ItemOf("new_risk", "true", Blank, Blank, "both")>>,
    <<[ItemOf("new_risk", "true", 1, 1, "both") EXCEPT !.valid = FALSE]>>}

(* A tone shift the model denies to be one, and names no page of. *)
MCDenied == {<<ItemOf("tone_shift", "false", Null, Null, "both")>>}

(* Documents change before a comparison and until it has the first items;   *)
(* a chunk is reclassified when both quarters are complete, and they rest   *)
(* from then on.  The report of the other company comes to its end before a *)
(* comparison begins.                                                       *)
DiffLimits ==
    /\ documents' # documents => changes = 0 /\ response = "none" /\ job.items = <<>>
    /\ section' # section => status[q1] = "completed" /\ status[q2] = "completed"
    /\ status'[other] # status[other] =>
           job = NoComparison /\ status[other] # "completed"

-----------------------------------------------------------------------------
(* A few claims that between them take every branch of the parser, in       *)
(* responses of up to two.                                                  *)
Draft(level, evidence, source, confidence, contaminated, words) ==
    [level |-> level, evidence |-> evidence, source |-> source, confidence |-> confidence,
     forward |-> FALSE, review |-> FALSE, contaminated |-> contaminated, words |-> words]

Drafts ==
    {Draft("observed_fact", {"quoted"}, "financial_evidence", "high", FALSE, {}),
     Draft("observed_fact", {"quoted"}, "strategic_narrative", "high", FALSE, {"strong"}),
     Draft("derived_metric", {"bare"}, "other", "other", FALSE, {}),
     Draft("derived_metric", {"bare", "quoted"}, "operational_evidence", "low", TRUE, {}),
     Draft("hypothesis", {}, "management_expectation", "high", FALSE, {"expects"}),
     Draft("other", {}, "financial_evidence", "high", TRUE, {"long-term trend"}),
     Draft("interpretation", {"quoted"}, "financial_evidence", "medium", FALSE, {"target price"}),
     Draft("interpretation", {"quoted"}, "financial_evidence", "low", FALSE, {"outperform"})}

PairsOfClaims == {{}} \cup {{r, s} : r, s \in Drafts}

(* One claim the parser has taken the evidence from. *)
OneUnevidenced == {{Draft("observed_fact", {}, "financial_evidence", "high", FALSE, {})}}

-----------------------------------------------------------------------------
(* Trends over two quarters, the later named first, and responses of up to *)
(* two claims out of a few that between them take the branches of the      *)
(* dashboard.                                                              *)
MCRequests == {<<>>, <<q2>>, <<q2, q1>>, <<q1, q2, q2>>, <<q1, gone>>}

MCPeriod == q1 :> 1 @@ q2 :> 2

Said(id, topics, number, words, materiality, contaminated) ==
    [id |-> id, topics |-> topics, number |-> number, words |-> words,
     materiality |-> materiality, recurring |-> id # 3, contaminated |-> contaminated,
     review |-> id = 2]

Statements == {
    Said(1, {"revenue", "cash"}, -12, {}, "tier_b", FALSE),
    Said(2, {"revenue"}, 1, {"down"}, "tier_a", FALSE),
    Said(3, {"gross_margin"}, 12, {"down", "up"}, "tier_b", FALSE),
    Said(4, {"gross_margin", "operating_income"}, 16, {"decline"}, "tier_b", FALSE),
    Said(5, {"operating_income"}, NoDelta, {"improve"}, "tier_c", FALSE),
    Said(6, {"cash"}, NoDelta, {}, "tier_c", TRUE),
    Said(7, {"customer_concentration"}, NoDelta, {"decline"}, "tier_a", FALSE),
    Said(8, {"eps"}, 0, {"up"}, "tier_b", FALSE),
    Said(9, {}, 20, {"up"}, "tier_a", FALSE),
    Said(10, {"revenue"}, -16, {}, "tier_b", FALSE)}

MCResponses ==
    {<<>>} \cup {<<a>> : a \in Statements} \cup {<<a, b>> : a, b \in Statements}

(* The second summary comes to one claim. *)
TrendLimits == Len(summaries') = 2 => Len(summaries'[2].claims) = 1

-----------------------------------------------------------------------------
ServiceInit ==
    /\ who \in {"ingestion", "comparison", "governance", "trend"}
    /\ IngestionInit /\ DiffInit /\ GovernanceInit /\ TrendInit
    /\ who # "comparison" => section[a1] = "cash"

ServiceNext ==
    /\ UNCHANGED who
    /\ \/ /\ who = "ingestion" /\ IngestionNext
          /\ UNCHANGED <<diffVars, governanceVars, trendVars>>
       \/ /\ who = "comparison" /\ DiffNext /\ DiffLimits
          /\ UNCHANGED <<ingestionVars, governanceVars, trendVars>>
       \/ /\ who = "governance" /\ GovernanceNext
          /\ UNCHANGED <<ingestionVars, diffVars, trendVars>>
       \/ /\ who = "trend" /\ TrendNext /\ TrendLimits
          /\ UNCHANGED <<ingestionVars, diffVars, governanceVars>>

ServiceSpec ==
    ServiceInit /\ [][ServiceNext]_<<who, ingestionVars, diffVars, governanceVars, trendVars>>

(* The fairness of IngestionFairSpec and of DiffFairSpec. *)
ServiceFairSpec ==
    /\ ServiceSpec
    /\ \A i \in Instances : WF_ingestionVars(Proceed(i))
    /\ WF_diffVars(Handle)
=============================================================================
