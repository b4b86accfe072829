------------------------------- MODULE Tables -------------------------------
(***************************************************************************)
(* The tables of one report: any instance may extract them, page by page,  *)
(* storing each table on its own; meanwhile the eight key figures may be   *)
(* read from whatever is stored. A page whose extraction raises is counted *)
(* and skipped. An extraction that is repeated stores every table again.   *)
(***************************************************************************)
EXTENDS Absent, Integers, Sequences, FiniteSets

CONSTANTS
    Extractors,
    TablesOn,       \* the tables of each page: [widths |-> cells of each row, figures |-> ...]
    Kpis,
    Cells,          \* what the cells beside the label of a figure may hold
    Dash,           \* one that holds no number
    MaxRuns,
    MaxRaises

(* None is neither a table nor a figure. *)
ASSUME TablesAssumption ==
    /\ TablesOn \in Seq(Seq([widths : Seq(Nat), figures : [Kpis -> Seq(Cells)]]))
    /\ MaxRuns \in Nat /\ MaxRaises \in Nat
    /\ None \notin Nat
    /\ None \notin [value : Cells, page : Nat, table : Nat, confidence : {"high", "medium"}]

Pages == 1..Len(TablesOn)

VARIABLES
    tables,      \* PDFTable, in the order of the saves
    extracting,  \* the extraction each instance is at
    answer,      \* the last summary an extraction has answered with, by instance
    shown,       \* the key figures of the last answer
    runs,
    raises

tablesVars == <<tables, extracting, answer, shown, runs, raises>>

NoExtraction == [run |-> 0, page |-> 0, index |-> 0, created |-> 0, failed |-> {}]

TablesInit ==
    /\ tables = <<>>
    /\ extracting = [i \in Extractors |-> NoExtraction]
    /\ answer = [i \in Extractors |-> None]
    /\ shown = [k \in Kpis |-> None]
    /\ runs = 0
    /\ raises = 0

Least(S) == CHOOSE x \in S : \A y \in S : x <= y
Most(S) == CHOOSE x \in S : \A y \in S : x >= y

(* Rows that differ in length: the columns may have slipped. *)
Quality(widths) ==
    IF Len(widths) < 2 THEN "low"
    ELSE LET most == Most({widths[n] : n \in DOMAIN widths})
             least == Least({widths[n] : n \in DOMAIN widths})
         IN  IF 2 * least < most THEN "low"
             ELSE IF 10 * least < 8 * most THEN "medium"
             ELSE "high"

NeedsReview(table) == Quality(table.widths) = "low"

Stored(run, page, index) ==
    LET table == TablesOn[page][index]
    IN  [run |-> run, page |-> page, index |-> index, figures |-> table.figures,
         quality |-> Quality(table.widths), review |-> NeedsReview(table)]

-----------------------------------------------------------------------------
StartExtraction(i) ==
    /\ extracting[i] = NoExtraction
    /\ runs < MaxRuns
    /\ runs' = runs + 1
    /\ extracting' = [extracting EXCEPT ![i] = [NoExtraction EXCEPT !.run = runs + 1, !.page = 1, !.index = 1]]
    /\ UNCHANGED <<tables, answer, shown, raises>>

Open(i) == extracting[i].page \in Pages

AtTable(i) == Open(i) /\ extracting[i].index <= Len(TablesOn[extracting[i].page])

(* extract_tables of the library raises: the page is counted and passed over. *)
PageRaises(i) ==
    /\ Open(i) /\ extracting[i].index = 1
    /\ raises < MaxRaises
    /\ raises' = raises + 1
    /\ extracting' = [extracting EXCEPT ![i].failed = @ \union {extracting[i].page}, ![i].page = @ + 1]
    /\ UNCHANGED <<tables, answer, shown, runs>>

(* Mutant: one table of a page is enough. *)
LeavePage(i) == [extracting[i] EXCEPT !.index = Len(TablesOn[extracting[i].page]) + 1, !.created = @ + 1]

NextTable(i) == [extracting[i] EXCEPT !.index = @ + 1, !.created = @ + 1]

SaveTable(i) ==
    /\ AtTable(i)
    /\ IF TablesOn[extracting[i].page][extracting[i].index].widths = <<>>
       THEN /\ extracting' = [extracting EXCEPT ![i].index = @ + 1]
            /\ UNCHANGED tables
       ELSE /\ tables' = Append(tables, Stored(extracting[i].run, extracting[i].page, extracting[i].index))
            /\ extracting' = [extracting EXCEPT ![i] = NextTable(i)]
    /\ UNCHANGED <<answer, shown, runs, raises>>

TurnPage(i) ==
    /\ Open(i) /\ ~AtTable(i)
    /\ extracting' = [extracting EXCEPT ![i].page = @ + 1, ![i].index = 1]
    /\ UNCHANGED <<tables, answer, shown, runs, raises>>

FinishExtraction(i) ==
    /\ extracting[i].run > 0 /\ ~Open(i)
    /\ answer' = [answer EXCEPT ![i] =
                    [run |-> extracting[i].run, created |-> extracting[i].created, failed |-> extracting[i].failed]]
    /\ extracting' = [extracting EXCEPT ![i] = NoExtraction]
    /\ UNCHANGED <<tables, shown, runs, raises>>

(* A save raises, or the instance is killed: what is stored stays stored. *)
Break(i) ==
    /\ extracting[i].run > 0
    /\ raises < MaxRaises
    /\ raises' = raises + 1
    /\ extracting' = [extracting EXCEPT ![i] = NoExtraction]
    /\ UNCHANGED <<tables, answer, shown, runs>>

-----------------------------------------------------------------------------
(* Where a number stands among the cells. *)
Numbers(cells) == {n \in DOMAIN cells : cells[n] # Dash}

HasFigure(table, k) == Numbers(table.figures[k]) # {}

TablesWith(k) == {n \in DOMAIN tables : HasFigure(tables[n], k)}

(* Mutant: the table stored last, whatever its page. *)
LastSaved(k) == {Most(TablesWith(k))}

(* Ordered by page; tables of one page come in any order. *)
First(k) == {n \in TablesWith(k) : \A o \in TablesWith(k) : tables[n].page <= tables[o].page}

(* Mutant: a medium table is as good as a high one. *)
LenientConfidence(table) == IF table.quality = "medium" THEN "medium" ELSE "high"

Confidence(table) == IF table.quality = "high" THEN "high" ELSE "medium"

Figure(n, k) ==
    LET cells == tables[n].figures[k]
    IN  [value |-> cells[Least(Numbers(cells))], page |-> tables[n].page, table |-> n,
         confidence |-> Confidence(tables[n])]

(* extract_kpis: without any table the request is refused. *)
ShowKpis ==
    /\ tables # <<>>
    /\ \E pick \in [Kpis -> {None} \union DOMAIN tables] :
          /\ \A k \in Kpis : pick[k] \in IF TablesWith(k) = {} THEN {None} ELSE First(k)
          /\ shown' = [k \in Kpis |-> IF pick[k] = None THEN None ELSE Figure(pick[k], k)]
    /\ UNCHANGED <<tables, extracting, answer, runs, raises>>

TablesNext ==
    \/ \E i \in Extractors :
          \/ StartExtraction(i) \/ PageRaises(i) \/ SaveTable(i) \/ TurnPage(i) \/ FinishExtraction(i) \/ Break(i)
    \/ ShowKpis

TablesSpec == TablesInit /\ [][TablesNext]_tablesVars

-----------------------------------------------------------------------------
TablesTypeOK ==
    /\ \A n \in DOMAIN tables :
          /\ tables[n].page \in Pages
          /\ tables[n].index \in DOMAIN TablesOn[tables[n].page]
          /\ tables[n].quality \in {"low", "medium", "high", "failed"}
          /\ tables[n].run \in 1..runs
    /\ \A i \in Extractors : extracting[i].page \in 0..Len(TablesOn) + 1 /\ extracting[i].failed \subseteq Pages
    /\ runs \in 0..MaxRuns
    /\ raises \in 0..MaxRaises

(* What a run has in the store, and what it should have of the pages that  *)
(* did not raise.                                                           *)
Mine(run) == {n \in DOMAIN tables : tables[n].run = run}

Places == Pages \X UNION {DOMAIN TablesOn[p] : p \in Pages}

Wanted(failed) ==
    {q \in Places : /\ q[1] \notin failed /\ q[2] \in DOMAIN TablesOn[q[1]]
                    /\ TablesOn[q[1]][q[2]].widths # <<>>}

(* extract_tables answers with what it has done on the pages that did not  *)
(* raise: as many of their tables are stored by its run as it has counted, *)
(* each exactly once, whatever other extraction runs at the same time.     *)
AnswerMatchesStore ==
    \A i \in Extractors : answer[i] # None =>
        LET mine == {n \in Mine(answer[i].run) : tables[n].page \notin answer[i].failed}
            wanted == Wanted(answer[i].failed)
        IN  /\ Cardinality(mine) = answer[i].created
            /\ answer[i].created = Cardinality(wanted)
            /\ {<<tables[n].page, tables[n].index>> : n \in mine} = wanted

(* What the head of text_extraction says: a page whose extraction failed is *)
(* marked in the store as failed and for a look by a person. The code       *)
(* counts it and stores nothing.                                            *)
FailedTablesMarked ==
    \A i \in Extractors : answer[i] # None =>
        \A p \in answer[i].failed : \E n \in Mine(answer[i].run) :
            tables[n].page = p /\ tables[n].quality = "failed" /\ tables[n].review

(* A figure that is shown with high confidence never comes from a table that *)
(* is marked for a look by a person, and always from a table still stored.   *)
ConfidenceEarned ==
    \A k \in Kpis : shown[k] # None =>
        /\ shown[k].table \in DOMAIN tables
        /\ shown[k].confidence = "high" => ~tables[shown[k].table].review

(* Extractions say what they stored and figures what they are worth. *)
TablesSound == TablesTypeOK /\ AnswerMatchesStore /\ ConfidenceEarned

(* Whatever is extracted again, breaks or raises in between: a figure that  *)
(* was found once is found again, on the same page or an earlier one.       *)
FiguresAreKept ==
    [][\A k \in Kpis : shown[k] # None =>
          shown'[k] # None /\ shown'[k].page <= shown[k].page]_tablesVars
=============================================================================
