------------------------------- MODULE Dashboard -------------------------------
(***************************************************************************)
(* The dashboard a summary derives from its claims, and the contract it is *)
(* validated against before it is stored.                                  *)
(*                                                                         *)
(* The text of a claim is abstracted to what the program finds in it: the  *)
(* metrics it has keywords of, the first number with a percent sign, and   *)
(* the words of direction.  Labels, wording and the scores of narrative    *)
(* density are left out.                                                   *)
(***************************************************************************)
EXTENDS Integers, Sequences, FiniteSets, SequencesExt

CONSTANT NoDelta   \* a text without a number in percent

ASSUME DashboardAssumption == NoDelta \notin Int

(* The registry in its order: a text on several metrics counts as the first. *)
Registry == <<"revenue", "gross_margin", "operating_income", "eps", "cash", "debt", "fx",
              "customer_concentration">>

Metrics == {Registry[k] : k \in DOMAIN Registry}

(* Metrics whose change is shown, and which of them drive which. *)
Headlines == {"revenue", "gross_margin", "operating_income", "eps", "cash"}

Drivers == {<<"revenue", "gross_margin">>, <<"gross_margin", "operating_income">>,
            <<"operating_income", "eps">>}

Materialities == {"tier_a", "tier_b", "tier_c"}

MetricClaim == [id : Nat, topics : SUBSET Metrics, number : Int \cup {NoDelta},
          words : SUBSET {"down", "decline", "up", "improve"}, materiality : Materialities,
          recurring : BOOLEAN, contaminated : BOOLEAN, review : BOOLEAN]

-----------------------------------------------------------------------------
(* The members of S, each after those that precede it in a total order. *)
ListedBy(S, order) ==
    [n \in 1 .. Cardinality(S) |->
        CHOOSE k \in S : Cardinality({j \in S : <<j, k>> \in order}) = n]

(* The elements of a sequence at some of its places, in its order. *)
Among(s, I) ==
    LET places == ListedBy(I, {p \in I \X I : p[1] <= p[2]})
    IN  [n \in DOMAIN places |-> s[places[n]]]

-----------------------------------------------------------------------------
(* Reading a claim. *)
Mentions(c) == {k \in DOMAIN Registry : Registry[k] \in c.topics}

About(c, metric) ==
    \E k \in Mentions(c) : Registry[k] = metric /\ \A l \in Mentions(c) : k <= l

Magnitude(n) == IF n < 0 THEN -n ELSE n

(* The number takes its sign from the words, the downward ones first. *)
Delta(c) ==
    IF c.number = NoDelta THEN NoDelta
    ELSE IF "down" \in c.words THEN -Magnitude(c.number)
    ELSE IF "up" \in c.words THEN Magnitude(c.number)
    ELSE c.number

(* Mutant: a claim that does not say is of unknown direction. *)
DirectionToldOnly(c) ==
    IF c.words \cap {"down", "decline"} # {} THEN "down"
    ELSE IF c.words \cap {"up", "improve"} # {} THEN "up"
    ELSE "unknown"

(* Words that give no sign to a number still give a direction without one. *)
Direction(c) ==
    IF Delta(c) # NoDelta
        THEN CASE Delta(c) > 0 -> "up" [] Delta(c) < 0 -> "down" [] OTHER -> "flat"
        ELSE IF c.words \cap {"down", "decline"} # {} THEN "down"
        ELSE IF c.words \cap {"up", "improve"} # {} THEN "up"
        ELSE "flat"

Priority(c) == CASE c.materiality = "tier_a" -> 3 [] c.materiality = "tier_b" -> 2 [] OTHER -> 1

-----------------------------------------------------------------------------
(* How much a change matters: the metric's own weight, raised by a large    *)
(* change, lowered by a tiny one, raised when revenue or cash fall.         *)
BaseImpact(metric) ==
    CASE metric \in {"gross_margin", "operating_income", "eps"} -> 2
      [] metric \in {"revenue", "cash", "debt"} -> 1
      [] OTHER -> 0

(* Mutant: a step does not stop at the ends of the scale. *)
StepUncapped(rank, up) == IF up THEN rank + 1 ELSE rank - 1

Step(rank, up) == IF up THEN IF rank = 2 THEN 2 ELSE rank + 1
                  ELSE IF rank = 0 THEN 0 ELSE rank - 1

(* Mutant: the tests for a large and for a tiny change are swapped. *)
SizedInverted(metric, delta) ==
    IF Magnitude(delta) >= 15 THEN Step(BaseImpact(metric), FALSE)
    ELSE IF Magnitude(delta) < 2 THEN Step(BaseImpact(metric), TRUE)
    ELSE BaseImpact(metric)

Sized(metric, delta) ==
    IF Magnitude(delta) >= 15 THEN Step(BaseImpact(metric), TRUE)
    ELSE IF Magnitude(delta) < 2 THEN Step(BaseImpact(metric), FALSE)
    ELSE BaseImpact(metric)

Impact(metric, delta, direction) ==
    IF delta = NoDelta THEN BaseImpact(metric)
    ELSE IF direction = "down" /\ metric \in {"revenue", "cash"} /\ Magnitude(delta) >= 10
        THEN Step(Sized(metric, delta), TRUE)
        ELSE Sized(metric, delta)

-----------------------------------------------------------------------------
(* Mutant: the first claim on a metric keeps its place among equals and     *)
(* against better ones.                                                     *)
FirstClaim(claims, metric) ==
    FoldLeft(LAMBDA shown, c : IF ~About(c, metric) \/ shown # <<>> THEN shown ELSE <<c>>,
             <<>>, claims)

(* The claim a metric shows, as a sequence of at most one: a claim gives    *)
(* way to a later one of the same or a higher priority.                     *)
ShownClaim(claims, metric) ==
    LET shown[n \in 0 .. Len(claims)] ==
            IF n = 0 THEN <<>>
            ELSE IF \/ ~About(claims[n], metric)
                    \/ shown[n - 1] # <<>> /\ Priority(shown[n - 1][1]) > Priority(claims[n])
                 THEN shown[n - 1] ELSE <<claims[n]>>
    IN  shown[Len(claims)]

Shown(claims) == {metric \in Metrics : ShownClaim(claims, metric) # <<>>}

Entry(c) == [direction |-> Direction(c), delta |-> Delta(c), evidence |-> <<c.id>>]

(* The metrics of the dashboard: an entry for every metric with a claim. *)
Entries(claims) == [metric \in Shown(claims) |-> Entry(ShownClaim(claims, metric)[1])]

Change(entry, metric) ==
    [direction |-> entry.direction, delta |-> entry.delta, evidence |-> entry.evidence,
     impact |-> Impact(metric, entry.delta, entry.direction)]

Changes(entries) ==
    [metric \in Headlines \cap DOMAIN entries |-> Change(entries[metric], metric)]

Edges(entries) ==
    {[source |-> d[1], target |-> d[2], relation |-> "positive_driver",
      evidence |-> entries[d[1]].evidence \o entries[d[2]].evidence] :
        d \in {d \in Drivers : {d[1], d[2]} \subseteq DOMAIN entries}}

Ids(claims) == [k \in DOMAIN claims |-> claims[k].id]

(* The claims on a metric, the first three of them as evidence. *)
On(claims, metric) == Among(claims, {k \in DOMAIN claims : About(claims[k], metric)})

Cite(claims) == SubSeq(Ids(claims), 1, IF Len(claims) > 3 THEN 3 ELSE Len(claims))

MarginDrop(changes) ==
    IF "gross_margin" \in DOMAIN changes /\ changes["gross_margin"].delta # NoDelta
       /\ changes["gross_margin"].delta < 0
    THEN -changes["gross_margin"].delta ELSE 0

MarginSeverity(drop) ==
    CASE drop >= 10 -> "high" [] drop >= 5 -> "medium" [] OTHER -> "low"

Risk(severity, trend, evidence) == [severity |-> severity, trend |-> trend, evidence |-> evidence]

(* Mutant: a concentration nobody spoke of is rated like one they did. *)
RisksWithoutClaims(clean, changes) ==
    [customer_concentration |->
         Risk("high", "up", Cite(On(clean, "customer_concentration"))),
     margin_pressure |-> Risk("low", "flat", <<>>),
     liquidity |-> Risk("low", "flat", <<>>),
     fx_exposure |-> Risk("low", "flat", <<>>)]

Risks(clean, changes) ==
    LET concentration == On(clean, "customer_concentration")
        cash == On(clean, "cash")
        fx == On(clean, "fx")
        drop == MarginDrop(changes)
    IN  [customer_concentration |->
             IF concentration = <<>> THEN Risk("medium", "flat", <<>>)
             ELSE Risk("high", "up", Cite(concentration)),
         margin_pressure |->
             Risk(MarginSeverity(drop), IF drop > 0 THEN "up" ELSE "flat",
                  IF "gross_margin" \in DOMAIN changes
                  THEN <<changes["gross_margin"].evidence[1]>> ELSE <<>>),
         liquidity |->
             IF cash = <<>> THEN Risk("medium", "up", <<>>) ELSE Risk("low", "flat", Cite(cash)),
         fx_exposure |->
             IF fx = <<>> THEN Risk("low", "flat", <<>>) ELSE Risk("medium", "up", Cite(fx))]

(* Mutant: contaminated claims are not left out. *)
AllClaims(claims) == claims

CleanClaims(claims) == Among(claims, {k \in DOMAIN claims : ~claims[k].contaminated})

Dashboard(claims) ==
    LET clean == CleanClaims(claims)
        entries == Entries(clean)
        changes == Changes(entries)
    IN  [metrics |-> entries, what_changed |-> changes, causal_edges |-> Edges(entries),
         adjustments |-> Ids(Among(clean, {k \in DOMAIN clean : ~clean[k].recurring})),
         risk_surface |-> Risks(clean, changes),
         contaminated |-> Len(claims) - Len(clean),
         review |-> Cardinality({k \in DOMAIN clean : clean[k].review})]

-----------------------------------------------------------------------------
(* The validator of the contract. *)
Trends == {"up", "down", "flat"}
Relations == {"derived_from", "compared_with", "inverse_driver", "positive_driver",
              "contextual_factor"}
Severities == {"low", "medium", "high", "critical", "unknown"}

ContractErrors(dashboard) ==
    {<<"metric direction", m>> : m \in {m \in DOMAIN dashboard.metrics :
                                          dashboard.metrics[m].direction \notin Trends}} \cup
    {<<"metric evidence", m>> : m \in {m \in DOMAIN dashboard.metrics :
                                          dashboard.metrics[m].evidence = <<>>}} \cup
    {<<"edge relation", e.source>> : e \in {e \in dashboard.causal_edges :
                                          e.relation \notin Relations}} \cup
    {<<"edge evidence", e.source>> : e \in {e \in dashboard.causal_edges :
                                          e.evidence = <<>>}} \cup
    {<<"risk severity", r>> : r \in {r \in DOMAIN dashboard.risk_surface :
                                          dashboard.risk_surface[r].severity \notin Severities}} \cup
    {<<"risk trend", r>> : r \in {r \in DOMAIN dashboard.risk_surface :
                                          dashboard.risk_surface[r].trend \notin Trends}}
=============================================================================
