------------------------------- MODULE Reading -------------------------------
(***************************************************************************)
(* Which pages of a report the language model gets to see, what is said of *)
(* that afterwards, and the check of the disclosures a report has to make. *)
(* A report may be ingested again: its chunks are stored once more, and a  *)
(* reader with a limit then sees fewer of its pages.                       *)
(***************************************************************************)
EXTENDS Absent, Integers, Sequences, FiniteSets, FiniteSetsExt, Functions

CONSTANTS
    ChunksOf,      \* the chunks of each page, by page
    SectionOf,     \* the section of the chunks of a page
    SectionQuota,  \* the most chunks of a section a summary reads
    ChunkWindow,   \* the most chunks that are read: 60 in the code
    Registry,      \* the disclosures a report has to make: 14 in the code
    Answers,       \* what the model may answer to a check of them
    Steps,         \* the steps a share is shown in: 1000, tenths of a per cent, in the code
    MaxIngestions,
    MaxSummaries

ASSUME ReadingAssumption ==
    /\ ChunksOf \in Seq(Nat)
    /\ Len(Registry) \in Nat /\ Registry = [n \in 1..Len(Registry) |-> Registry[n]]
    /\ Steps \in Nat \ {0}
    /\ ChunkWindow \in Nat /\ MaxIngestions \in Nat /\ MaxSummaries \in Nat

PageNumbers == 1..Len(ChunksOf)
PageSections == {SectionOf[p] : p \in PageNumbers}

VARIABLES
    status,         \* PDFDocument.status
    stored,         \* the chunks stored of each page
    summaries,      \* the summaries: the pages each was written from
    coverage,       \* the last answer about the pages of a summary
    disclosures,    \* the last stored check of disclosures
    ingestions

readingVars == <<status, stored, summaries, coverage, disclosures, ingestions>>

ReadingInit ==
    /\ status = "uploaded"
    /\ stored = [p \in PageNumbers |-> 0]
    /\ summaries = <<>>
    /\ coverage = None
    /\ disclosures = None
    /\ ingestions = 0

(* An ingestion that succeeds, or that stores the pages up to some page and *)
(* then fails; Ingestion has the steps.                                     *)
IngestAgain ==
    /\ ingestions < MaxIngestions
    /\ ingestions' = ingestions + 1
    /\ \E upto \in PageNumbers :
          /\ stored' = [p \in PageNumbers |-> stored[p] + IF p <= upto THEN ChunksOf[p] ELSE 0]
          /\ status' \in IF upto = Len(ChunksOf) THEN {"completed", "failed"} ELSE {"failed"}
    /\ UNCHANGED <<summaries, coverage, disclosures>>

-----------------------------------------------------------------------------
Fewer(m, n) == IF m <= n THEN m ELSE n

Before(p) == SumFunctionOnSet(stored, {q \in PageNumbers : q < p})

(* The first chunks by page, ChunkWindow of them. *)
FirstPages == {p \in PageNumbers : stored[p] > 0 /\ Before(p) < ChunkWindow}

OfSection(s) == SumFunctionOnSet(stored, {p \in PageNumbers : SectionOf[p] = s})

Asked(s) == Fewer(OfSection(s), SectionQuota[s])

Total(f) == SumFunctionOnSet(f, PageSections)

(* What SectionBudget promises of an allocation: the budget is kept and used *)
(* and no section gets more than it asks for.                                *)
Allocations ==
    {a \in [PageSections -> 0..ChunkWindow] :
        /\ \A s \in PageSections : a[s] <= Asked(s)
        /\ Total(a) = Fewer(ChunkWindow, Total([s \in PageSections |-> Asked(s)]))}

EarlierOfSection(p) ==
    SumFunctionOnSet(stored, {q \in PageNumbers : q < p /\ SectionOf[q] = SectionOf[p]})

(* Mutant: the last chunks of a section instead of the first. *)
TakesLast(a, p) ==
    stored[p] > 0 /\ OfSection(SectionOf[p]) - EarlierOfSection(p) <= a[SectionOf[p]]

Takes(a, p) == stored[p] > 0 /\ EarlierOfSection(p) < a[SectionOf[p]]

(* generate_summary: the report keeps the pages of the chunks it was given. *)
Summarise ==
    /\ status = "completed"
    /\ Len(summaries) < MaxSummaries
    /\ \E p \in PageNumbers : stored[p] > 0
    /\ \E a \in Allocations :
          summaries' = Append(summaries, {p \in PageNumbers : Takes(a, p)})
    /\ UNCHANGED <<status, stored, coverage, disclosures, ingestions>>

(* Mutant: pages are counted from zero. *)
FromZero(r) == (0..Len(ChunksOf) - 1) \ summaries[r]

PagesUncovered(r) == PageNumbers \ summaries[r]

TotalPages == IF ingestions > 0 THEN Len(ChunksOf) ELSE 0

(* Mutant: shares are rounded up. *)
RoundedUp(part, whole) == {(Steps * part + whole - 1) \div whole}

(* round(): the nearest step; halfway between two it is the error of the    *)
(* floating-point quotient that decides.                                    *)
Rounded(part, whole) ==
    {k \in 0..Steps : /\ 2 * whole * k - whole <= 2 * Steps * part
                      /\ 2 * Steps * part <= 2 * whole * k + whole}

(* get_coverage: the share is by page. *)
ShowCoverage ==
    /\ \E r \in DOMAIN summaries :
          \E share \in Rounded(Cardinality(summaries[r]), TotalPages) :
             coverage' = [report |-> r, covered |-> summaries[r],
                          uncovered |-> PagesUncovered(r), share |-> share]
    /\ UNCHANGED <<status, stored, summaries, disclosures, ingestions>>

-----------------------------------------------------------------------------
DisclosureStatuses == {"found", "found_incomplete", "not_found", "ambiguous", "not_applicable"}
Counted == DisclosureStatuses \ {"ambiguous"}

(* The items of an answer by key: the last one of a key counts. *)
ByKey(answer, key) ==
    LET of == {n \in DOMAIN answer : answer[n].key = key}
    IN  IF of = {} THEN None ELSE answer[Max(of)]

(* A missing status, and one that is null, get the default of the field. *)
StatusOf(answer, key) ==
    LET raw == ByKey(answer, key)
    IN  IF raw = None \/ raw.status = None THEN "ambiguous" ELSE raw.status

(* Mutant: whatever the model has answered is an item. *)
AsAnswered(answer) == [n \in DOMAIN answer |-> [key |-> answer[n].key, status |-> answer[n].status]]

Items(answer) ==
    [n \in DOMAIN Registry |->
        [key |-> Registry[n], status |-> StatusOf(answer, Registry[n])]]

(* Mutant: only the statuses that were answered are checked. *)
NoneIsValid(items) == TRUE

(* The field has choices; a save with another status raises, as does one *)
(* with page numbers that are no strings (PagesAreTexts).                *)
Valid(items) == \A n \in DOMAIN items : items[n].status \in DisclosureStatuses

PagesAreTexts(answer) ==
    \A n \in DOMAIN Registry :
        ByKey(answer, Registry[n]) # None => ByKey(answer, Registry[n]).texts

HasKeys(answer) == \A n \in DOMAIN answer : answer[n].key # None

Count(items, s) == Cardinality({n \in DOMAIN items : items[n].status = s})

(* check_disclosure_coverage: refused without text, lost without a key. *)
CheckDisclosures ==
    /\ status = "completed"
    /\ FirstPages # {}
    /\ \E answer \in Answers :
          /\ HasKeys(answer) /\ Valid(Items(answer)) /\ PagesAreTexts(answer)
          /\ disclosures' = [items |-> Items(answer), read |-> FirstPages,
                             counts |-> [s \in Counted |-> Count(Items(answer), s)],
                             total |-> Len(Registry)]
    /\ UNCHANGED <<status, stored, summaries, coverage, ingestions>>

ReadingNext == IngestAgain \/ Summarise \/ ShowCoverage \/ CheckDisclosures

ReadingSpec == ReadingInit /\ [][ReadingNext]_readingVars

-----------------------------------------------------------------------------
ReadingTyped ==
    /\ status \in {"uploaded", "completed", "failed"}
    /\ \A p \in PageNumbers : stored[p] \in 0..MaxIngestions * ChunksOf[p]
    /\ \A r \in DOMAIN summaries : summaries[r] \subseteq PageNumbers
    /\ ingestions \in 0..MaxIngestions

HasText(p) == ChunksOf[p] > 0

(* However often the report was ingested, and with however much of a failed  *)
(* ingestion left behind: a summary that reads a page has read the pages of  *)
(* that section before it; a check of disclosures all pages before it.       *)
ReadsPrefixes ==
    /\ \A r \in DOMAIN summaries : \A p \in summaries[r] : \A q \in 1..p :
          SectionOf[q] = SectionOf[p] /\ HasText(q) => q \in summaries[r]
    /\ disclosures # None =>
          \A p \in disclosures.read : \A q \in 1..p : HasText(q) => q \in disclosures.read

(* get_coverage: every page is reported once, as covered or as not covered, *)
(* and the share shown beside the two lists does not contradict them by     *)
(* more than its rounding: all of it is said of a summary that read every   *)
(* page, and else only when at most one page in twice Steps was not read;   *)
(* none of it only when at most as many were read.  A report of 2000 pages  *)
(* may thus be shown as read to 100.0 per cent with a page unread.          *)
CoverageAddsUp ==
    coverage # None =>
        /\ coverage.covered \intersect coverage.uncovered = {}
        /\ coverage.covered \union coverage.uncovered = PageNumbers
        /\ coverage.uncovered = {} => coverage.share = Steps
        /\ coverage.share = Steps =>
               2 * Steps * Cardinality(coverage.uncovered) <= Cardinality(PageNumbers)
        /\ coverage.share = 0 =>
               2 * Steps * Cardinality(coverage.covered) <= Cardinality(PageNumbers)

(* A stored check lists every disclosure once, each with a status the field *)
(* knows; those not counted are the ambiguous ones.                         *)
DisclosuresAddUp ==
    disclosures # None =>
        /\ [n \in DOMAIN disclosures.items |-> disclosures.items[n].key] = Registry
        /\ \A n \in DOMAIN disclosures.items : disclosures.items[n].status \in DisclosureStatuses
        /\ SumFunctionOnSet(disclosures.counts, Counted)
              + Count(disclosures.items, "ambiguous") = disclosures.total

(* What is said of the pages of a report is so: what was read has no holes, *)
(* what was not is told, and every disclosure has its answer.               *)
PagesSound == ReadingTyped /\ ReadsPrefixes /\ CoverageAddsUp /\ DisclosuresAddUp
=============================================================================
