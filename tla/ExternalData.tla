----------------------------- MODULE ExternalData ----------------------------
(***************************************************************************)
(* Figures from FinMind and their comparison with a figure of the report.  *)
(* A fetch stores the rows of the answer one by one and never replaces     *)
(* what earlier fetches stored; a comparison takes the newest rows up to a *)
(* limit and compares with the first that names the metric.                *)
(***************************************************************************)
EXTENDS Absent, Integers, Sequences, FiniteSets, FiniteSetsExt

CONSTANTS
    Fetchers,       \* the instances of the service
    Replies,        \* what FinMind may answer with: sequences of [metric, value] rows
    Metrics,        \* names a row may have and a comparison may ask for
    Figures,        \* the figures of the report, in hundredths, or Unreadable
    Limit,          \* the rows a comparison looks at: 20 in the code
    Unreadable,
    MaxFetches,
    MaxBreaks

Kinds == {"monthly_revenue", "financial_statement"}
Row == [metric : Metrics, value : Int \union {Unreadable}]
Record == [kind : Kinds, number : Nat, metric : Metrics, value : Int \union {Unreadable}]

(* None is no record, and what cannot be read is no number. *)
ASSUME ExternalAssumption ==
    /\ Replies \subseteq Seq(Row)
    /\ Figures \subseteq Int \union {Unreadable}
    /\ Limit \in Nat /\ MaxFetches \in Nat /\ MaxBreaks \in Nat
    /\ Unreadable \notin Int
    /\ None \notin Record

VARIABLES
    records,    \* ExternalDataRecord of one stock, in the order of fetched_at
    fetch,      \* the rows each instance still has to store
    verdict,    \* the answer to the last comparison
    fetches,
    breaks

externalVars == <<records, fetch, verdict, fetches, breaks>>

NoFetch == [number |-> 0, kind |-> None, rows |-> <<>>]

ExternalInit ==
    /\ records = <<>>
    /\ fetch = [i \in Fetchers |-> NoFetch]
    /\ verdict = None
    /\ fetches = 0
    /\ breaks = 0

(* The request to FinMind. An invalid period or a failing request stores   *)
(* nothing and is not modelled: no state changes.                          *)
Fetch(i) ==
    /\ fetch[i] = NoFetch
    /\ fetches < MaxFetches
    /\ fetches' = fetches + 1
    /\ \E kind \in Kinds, rows \in Replies :
          fetch' = [fetch EXCEPT ![i] = [number |-> fetches + 1, kind |-> kind, rows |-> rows]]
    /\ UNCHANGED <<records, verdict, breaks>>

SaveRow(i) ==
    /\ fetch[i].rows # <<>>
    /\ records' = Append(records, [kind |-> fetch[i].kind, number |-> fetch[i].number,
                                   metric |-> Head(fetch[i].rows).metric,
                                   value |-> Head(fetch[i].rows).value])
    /\ fetch' = [fetch EXCEPT ![i].rows = Tail(@)]
    /\ UNCHANGED <<verdict, fetches, breaks>>

Fetched(i) ==
    /\ fetch[i].number > 0 /\ fetch[i].rows = <<>>
    /\ fetch' = [fetch EXCEPT ![i] = NoFetch]
    /\ UNCHANGED <<records, verdict, fetches, breaks>>

(* A save raises or the instance dies: the rows so far stay. *)
BreakOff(i) ==
    /\ fetch[i].rows # <<>>
    /\ breaks < MaxBreaks
    /\ breaks' = breaks + 1
    /\ fetch' = [fetch EXCEPT ![i] = NoFetch]
    /\ UNCHANGED <<records, verdict, fetches>>

-----------------------------------------------------------------------------
(* The statements, by their places in the order of fetched_at. *)
Statements == {n \in DOMAIN records : records[n].kind = "financial_statement"}

NewerThan(n) == {o \in Statements : o > n}

OlderThan(n) == {o \in Statements : o < n}

(* Mutant: the oldest rows instead of the newest. *)
OldestFirst == {n \in Statements : Cardinality(OlderThan(n)) < Limit}

(* Mutant: the window is one row short. *)
NewestButOne == {n \in Statements : Cardinality(NewerThan(n)) < Limit - 1}

(* The first rows by -fetched_at, Limit of them. *)
Newest == {n \in Statements : Cardinality(NewerThan(n)) < Limit}

Naming(metric) == {n \in Newest : records[n].metric = metric}

Size(n) == IF n < 0 THEN -n ELSE n

(* Mutant: the sign of the figures is lost. *)
CloseInSize(figure, value) == 100 * Size(Size(figure) - Size(value)) < 5 * Size(value)

(* The difference in per cent of the external value, of one at least. *)
IsClose(figure, value) ==
    100 * Size(figure - value) < 5 * (IF Size(value) > 100 THEN Size(value) ELSE 100)

Compare(metric, figure) ==
    IF Naming(metric) = {}
    THEN [answer |-> "not_comparable", metric |-> metric, figure |-> figure, with |-> None]
    ELSE LET row == records[Max(Naming(metric))]
         IN  [answer |-> IF figure # Unreadable /\ row.value # Unreadable
                            /\ IsClose(figure, row.value)
                         THEN "consistent" ELSE "needs_review",
              metric |-> metric, figure |-> figure, with |-> row]

Crosscheck ==
    /\ \E metric \in Metrics, figure \in Figures : verdict' = Compare(metric, figure)
    /\ UNCHANGED <<records, fetch, fetches, breaks>>

ExternalNext ==
    \/ \E i \in Fetchers : Fetch(i) \/ SaveRow(i) \/ Fetched(i) \/ BreakOff(i)
    \/ Crosscheck

ExternalSpec == ExternalInit /\ [][ExternalNext]_externalVars

-----------------------------------------------------------------------------
Verdicts ==
    [answer : {"consistent", "needs_review", "not_comparable"}, metric : Metrics,
     figure : Figures, with : Record \union {None}]

ExternalTyped ==
    /\ records \in Seq(Record)
    /\ fetch \in [Fetchers -> [number : Nat, kind : Kinds \union {None}, rows : Seq(Row)]]
    /\ \A i \in Fetchers :
          fetch[i].number \in 0..fetches /\ (fetch[i].rows # <<>> => fetch[i].kind \in Kinds)
    /\ \A n \in DOMAIN records : records[n].number \in 0..fetches
    /\ verdict \in Verdicts \union {None}
    /\ fetches \in 0..MaxFetches
    /\ breaks \in 0..MaxBreaks

(* A comparison said to be consistent is one: unless the external figure is *)
(* below one, the two have the same sign and are nearly of the same size;   *)
(* and it is made with a statement, never with a monthly figure.            *)
ConsistentIsClose ==
    verdict # None /\ verdict.answer = "consistent" =>
        /\ verdict.with.kind = "financial_statement"
        /\ verdict.with.metric = verdict.metric
        /\ Size(verdict.with.value) > 100 =>
              (verdict.figure > 0 <=> verdict.with.value > 0)
              /\ 2 * Size(verdict.figure) > Size(verdict.with.value)
              /\ Size(verdict.figure) < 2 * Size(verdict.with.value)

ExternalSound == ExternalTyped /\ ConsistentIsClose

(* A comparison is made with the newest figure of the metric: an older one  *)
(* is not brought back by a fetch that broke or overlapped; and what was    *)
(* comparable stays so until a whole window of newer rows names others.     *)
ComparesNewest ==
    [][verdict' # verdict =>
          \A n \in Statements :
              records[n].metric = verdict'.metric =>
                  IF verdict'.with = None
                  THEN Cardinality(NewerThan(n)) >= Limit
                  ELSE \E o \in Statements : o >= n /\ records[o] = verdict'.with]_externalVars
=============================================================================
