--------------------------------- MODULE Trend ---------------------------------
(***************************************************************************)
(* Trends over the summaries of several periods.                           *)
(*                                                                         *)
(* A summary of a document stores a report with its dashboard; a trend     *)
(* request takes the latest report of each document it names, orders them  *)
(* by period and collects a point per metric and period.  The handlers     *)
(* await nothing, so in one process a request is one step; reports are     *)
(* kept in the order of created_at.                                        *)
(***************************************************************************)
EXTENDS Dashboard

CONSTANTS
    TrendDocuments,  \* ingested documents
    Unknown,         \* ids no document has
    Period,          \* the period of each document; numbers, as the texts sort
    Responses,       \* the lists of claims a summary may come to
    Requests,        \* the lists of documents a trend is asked over
    KpiLists,        \* what a request may ask to track; {} asks for all
    MaxSummaries,    \* bound on the number of summaries
    MaxTrends        \* bound on the number of stored trends

ASSUME TrendAssumption ==
    /\ Period \in [TrendDocuments -> Nat]
    /\ Responses \subseteq Seq(MetricClaim)
    /\ Requests \subseteq Seq(TrendDocuments \cup Unknown)
    /\ Unknown \cap TrendDocuments = {}
    /\ MaxSummaries \in Nat /\ MaxTrends \in Nat

VARIABLES
    summaries,  \* the AIReport collection
    trends,     \* the TrendReport collection
    outcome     \* the outcome of the last trend request

trendVars == <<summaries, trends, outcome>>

Tracked == {"revenue", "gross_margin", "operating_income", "eps", "cash", "net_income",
            "debt_ratio", "fx"}

MinPeriods == 3

-----------------------------------------------------------------------------
TrendInit ==
    /\ summaries = <<>>
    /\ trends = <<>>
    /\ outcome = "none"

(* The report, reduced to its claims and dashboard, with the verdict of the *)
(* contract's validator.                                                    *)
Summarise(d) ==
    /\ Len(summaries) < MaxSummaries
    /\ \E claims \in Responses :
           LET dashboard == Dashboard(claims)
           IN  summaries' = Append(summaries,
                   [document |-> d, claims |-> claims, dashboard |-> dashboard,
                    valid |-> ContractErrors(dashboard) = {}])
    /\ UNCHANGED <<trends, outcome>>

ReportsOn(d) == {n \in DOMAIN summaries : summaries[n].document = d}

Latest(d) == summaries[CHOOSE n \in ReportsOn(d) : \A k \in ReportsOn(d) : k <= n]

(* The points a dashboard gives: first from the changes, then from the      *)
(* metrics.  The second step reads the list of metrics as if it were a      *)
(* dictionary, which raises unless the list is empty.                       *)
Raises(dashboard) == DOMAIN dashboard.metrics # {}

Points(d) ==
    LET changes == Latest(d).dashboard.what_changed
    IN  [metric \in Tracked \cap DOMAIN changes |->
            [period |-> Period[d], document |-> d, direction |-> changes[metric].direction,
             delta |-> changes[metric].delta, claim |-> changes[metric].evidence[1]]]

Asked(kpis) == IF kpis = {} THEN Tracked ELSE kpis \cap Tracked

(* Mutant: documents are kept in the order of the request. *)
AsRequested(ds) == ds

(* The documents by period; sort() is stable. *)
ByPeriod(ds) ==
    LET before == {p \in (DOMAIN ds) \X (DOMAIN ds) :
                       \/ Period[ds[p[1]]] < Period[ds[p[2]]]
                       \/ Period[ds[p[1]]] = Period[ds[p[2]]] /\ p[1] <= p[2]}
        places == ListedBy(DOMAIN ds, before)
    IN  [k \in DOMAIN places |-> ds[places[k]]]

(* The series of each tracked metric some document has a point of. *)
Series(ordered, kpis) ==
    LET having(metric) ==
            Among(ordered, {k \in DOMAIN ordered : metric \in DOMAIN Points(ordered[k])})
        series == [metric \in Asked(kpis) |->
                     [k \in DOMAIN having(metric) |-> Points(having(metric)[k])[metric]]]
    IN  [metric \in {m \in Asked(kpis) : series[m] # <<>>} |-> series[metric]]

TrendOf(ds, kpis) ==
    LET ordered == ByPeriod(ds)
    IN  [documents |-> ordered,
         periods |-> [k \in DOMAIN ordered |-> Period[ordered[k]]],
         series |-> Series(ordered, kpis),
         warned |-> Len(ds) < MinPeriods]

(* Every document is there and has a report. *)
Answerable(ds) == \A k \in DOMAIN ds : ds[k] \in TrendDocuments /\ ReportsOn(ds[k]) # {}

RefuseTrend(ds) ==
    /\ Len(ds) < 2 \/ ~Answerable(ds)
    /\ outcome' = "refused"
    /\ UNCHANGED <<summaries, trends>>

BreakTrend(ds) ==
    /\ Len(ds) >= 2
    /\ Answerable(ds)
    /\ \E k \in DOMAIN ds : Raises(Latest(ds[k]).dashboard)
    /\ outcome' = "internal error"
    /\ UNCHANGED <<summaries, trends>>

ServeTrend(ds, kpis) ==
    /\ Len(trends) < MaxTrends
    /\ Len(ds) >= 2
    /\ Answerable(ds)
    /\ \A k \in DOMAIN ds : ~Raises(Latest(ds[k]).dashboard)
    /\ trends' = Append(trends, TrendOf(ds, kpis))
    /\ outcome' = "served"
    /\ UNCHANGED summaries

TrendNext ==
    \/ \E d \in TrendDocuments : Summarise(d)
    \/ \E ds \in Requests :
           \/ RefuseTrend(ds)
           \/ BreakTrend(ds)
           \/ \E kpis \in KpiLists : ServeTrend(ds, kpis)

TrendSpec == TrendInit /\ [][TrendNext]_trendVars

-----------------------------------------------------------------------------
Dashboards == {summaries[n].dashboard : n \in DOMAIN summaries}

TrendTypeOK ==
    /\ \A n \in DOMAIN summaries :
           /\ summaries[n].document \in TrendDocuments
           /\ summaries[n].claims \in Seq(MetricClaim)
           /\ DOMAIN summaries[n].dashboard.metrics \subseteq Metrics
           /\ DOMAIN summaries[n].dashboard.what_changed \subseteq Headlines
           /\ \A m \in DOMAIN summaries[n].dashboard.what_changed :
                  summaries[n].dashboard.what_changed[m].impact \in 0 .. 2
    /\ \A n \in DOMAIN trends :
           /\ trends[n].documents \in Seq(TrendDocuments)
           /\ trends[n].periods \in Seq(Nat)
           /\ DOMAIN trends[n].series \subseteq Tracked
    /\ outcome \in {"none", "served", "refused", "internal error"}

(* The service and the validator of the contract agree: no stored dashboard *)
(* breaks it, so the user interface never has to hide one.                  *)
ContractHolds == \A n \in DOMAIN summaries : summaries[n].valid

(* A metric shows a claim that nothing speaks against: no clean claim on it *)
(* is of higher priority, and none of the same priority comes later.        *)
BestClaimShown ==
    \A n \in DOMAIN summaries : \A metric \in DOMAIN summaries[n].dashboard.metrics :
        LET claims == summaries[n].claims
            rivals == {k \in DOMAIN claims : About(claims[k], metric) /\ ~claims[k].contaminated}
        IN  \E k \in rivals :
                /\ summaries[n].dashboard.metrics[metric] = Entry(claims[k])
                /\ \A l \in rivals : \/ Priority(claims[l]) < Priority(claims[k])
                                     \/ Priority(claims[l]) = Priority(claims[k]) /\ l <= k

(* Whatever a dashboard cites is a claim of the report that is not          *)
(* contaminated: metrics, changes, edges, risks and adjustments.            *)
CitesCleanClaims ==
    \A n \in DOMAIN summaries :
        LET db == summaries[n].dashboard
            clean == {c.id : c \in {c \in ToSet(summaries[n].claims) : ~c.contaminated}}
        IN  /\ \A m \in DOMAIN db.metrics : ToSet(db.metrics[m].evidence) \subseteq clean
            /\ \A m \in DOMAIN db.what_changed : ToSet(db.what_changed[m].evidence) \subseteq clean
            /\ \A e \in db.causal_edges : ToSet(e.evidence) \subseteq clean
            /\ \A r \in DOMAIN db.risk_surface : ToSet(db.risk_surface[r].evidence) \subseteq clean
            /\ ToSet(db.adjustments) \subseteq clean

(* No alarm without a claim: a risk of high severity cites one, and rising  *)
(* pressure on the margin means that the same dashboard shows a falling     *)
(* gross margin, backed by the same claim.                                  *)
AlarmsJustified ==
    \A db \in Dashboards :
        /\ \A r \in DOMAIN db.risk_surface :
               db.risk_surface[r].severity = "high" => db.risk_surface[r].evidence # <<>>
        /\ db.risk_surface.margin_pressure.trend = "up" =>
               /\ "gross_margin" \in DOMAIN db.what_changed
               /\ db.what_changed["gross_margin"].direction = "down"
               /\ db.what_changed["gross_margin"].evidence
                      = db.risk_surface.margin_pressure.evidence

(* Of two changes of a metric in the same direction, in any two reports,    *)
(* the larger is never given the lower impact, although the three factors   *)
(* raise and lower it one after the other.                                  *)
ImpactGrows ==
    \A a, b \in Dashboards :
        \A m \in DOMAIN a.what_changed \cap DOMAIN b.what_changed :
            LET x == a.what_changed[m]
                y == b.what_changed[m]
            IN  /\ NoDelta \notin {x.delta, y.delta}
                /\ x.direction = y.direction
                /\ Magnitude(x.delta) <= Magnitude(y.delta)
                => x.impact <= y.impact

(* A stored trend lists documents and periods in parallel, oldest first. *)
TrendsInOrder ==
    \A n \in DOMAIN trends :
        LET t == trends[n]
        IN  /\ \A k \in DOMAIN t.documents : Period[t.documents[k]] = t.periods[k]
            /\ \A k, l \in DOMAIN t.periods : k <= l => t.periods[k] <= t.periods[l]

(* The trend endpoint takes two to N documents that have their summaries    *)
(* and produces the report of their trend: it does not break on them.       *)
TrendServed == outcome # "internal error"

(* A stored dashboard is sound: it keeps its contract, cites clean claims   *)
(* only and the best of them for each metric, raises no alarm without a     *)
(* claim behind it, and rates a larger change no lower than a smaller one.  *)
DashboardsSound ==
    /\ TrendTypeOK /\ ContractHolds /\ CitesCleanClaims /\ BestClaimShown
    /\ AlarmsJustified /\ ImpactGrows
=============================================================================
