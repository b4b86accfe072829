------------------------------- MODULE DiffProofs -------------------------------
(***************************************************************************)
(* Proofs about Diff, for any documents, chunks, answers of the model and  *)
(* bounds.  Two invariants carry them: the promise of DocumentLifecycle, by *)
(* which a completed document is indexed and stays so, and the soundness of *)
(* what a comparison has read and made so far, which is all its report     *)
(* rests on.                                                               *)
(***************************************************************************)
EXTENDS Diff, SequenceTheorems, FiniteSetTheorems, TLAPS

CompletedIndexed ==
    /\ status = [d \in DiffDocuments |-> status[d]]
    /\ \A d \in DiffDocuments : status[d] = "completed" => d \in indexed

Admitted(cur, prev) == {cur, prev} \subseteq indexed /\ Stock[cur] = Stock[prev]

(* A comparison under way keeps the documents it was let in with; the       *)
(* fields of its record are named because every step updates some of them.  *)
JobAdmitted ==
    /\ job = [pc |-> job.pc, cur |-> job.cur, prev |-> job.prev, current |-> job.current,
              previous |-> job.previous, todo |-> job.todo, items |-> job.items]
    /\ job.pc # "idle" => Admitted(job.cur, job.prev)

ReportsAdmitted ==
    /\ comparisons \in Seq({comparisons[k] : k \in DOMAIN comparisons})
    /\ \A k \in DOMAIN comparisons : Admitted(comparisons[k].current, comparisons[k].previous)

IInv == CompletedIndexed /\ JobAdmitted /\ ReportsAdmitted

-----------------------------------------------------------------------------
(* A sequence with one element more. *)
LEMMA AppendedReports ==
    ASSUME NEW s, NEW e, s \in Seq({s[k] : k \in DOMAIN s})
    PROVE  LET t == Append(s, e)
           IN  /\ t \in Seq({t[k] : k \in DOMAIN t})
               /\ \A k \in DOMAIN t : (k \in DOMAIN s /\ t[k] = s[k]) \/ t[k] = e
<1> DEFINE R == {s[k] : k \in DOMAIN s}
           t == Append(s, e)
<1>1. s \in Seq(R \cup {e})
  BY SeqMonotonic
<1>2. /\ t \in Seq(R \cup {e})
      /\ Len(t) = Len(s) + 1
      /\ \A k \in 1 .. Len(s) : t[k] = s[k]
      /\ t[Len(s) + 1] = e
  BY <1>1
<1>3. DOMAIN s = 1 .. Len(s) /\ DOMAIN t = 1 .. Len(t) /\ Len(s) \in Nat
  BY <1>1, <1>2
<1>4. t \in Seq({t[k] : k \in DOMAIN t})
  BY <1>2, <1>3
<1>5. \A k \in DOMAIN t : (k \in DOMAIN s /\ t[k] = s[k]) \/ t[k] = e
  BY <1>2, <1>3
<1> QED
  BY <1>4, <1>5

(* No step of the documents' life takes the text of one away. *)
LEMMA LifecycleKeepsText ==
    ASSUME CompletedIndexed, Life!Next
    PROVE  CompletedIndexed' /\ indexed \subseteq indexed'
<1>1. PICK d \in DiffDocuments :
          Life!Register(d) \/ Life!Begin(d) \/ Life!Index(d)
          \/ Life!Finish(d) \/ Life!Abort(d)
  BY DEF Life!Next
<1>2. CASE Life!Index(d)
  BY <1>2 DEF Life!Index, CompletedIndexed
<1>3. CASE Life!Finish(d)
  BY <1>3 DEF Life!Finish, Life!SetStatus, CompletedIndexed
<1>4. ASSUME NEW s \in {"uploaded", "ingesting", "failed"}, Life!SetStatus(d, s),
             UNCHANGED indexed
      PROVE  CompletedIndexed' /\ indexed \subseteq indexed'
  BY <1>4 DEF Life!SetStatus, CompletedIndexed
<1>5. CASE Life!Register(d) \/ Life!Begin(d) \/ Life!Abort(d)
  BY <1>4, <1>5 DEF Life!Register, Life!Begin, Life!Abort
<1> QED
  BY <1>1, <1>2, <1>3, <1>5

(* What was admitted stays admitted as long as no text is lost. *)
LEMMA AdmittedStays ==
    ASSUME JobAdmitted, ReportsAdmitted, indexed \subseteq indexed', UNCHANGED <<job, comparisons>>
    PROVE  JobAdmitted' /\ ReportsAdmitted'
  BY DEF JobAdmitted, ReportsAdmitted, Admitted

LEMMA InitAdmitted == DiffInit => IInv
  BY DEF DiffInit, Life!Init, NoComparison, IInv, CompletedIndexed, JobAdmitted, ReportsAdmitted

(* A step of the comparison that leaves its documents as they are. *)
LEMMA HandleKeepsAdmitted ==
    ASSUME IInv, ReadCurrent \/ ReadPrevious \/ CompareSection \/ SectionFails
    PROVE  IInv'
<1>1. UNCHANGED <<documents, comparisons>>
  BY DEF ReadCurrent, ReadPrevious, CompareSection, SectionFails
<1>2. /\ job.pc # "idle"
      /\ \E pc, current, previous, todo, items :
             job' = [pc |-> pc, cur |-> job.cur, prev |-> job.prev, current |-> current,
                     previous |-> previous, todo |-> todo, items |-> items]
  <2>1. CASE ReadCurrent
    BY <2>1 DEF ReadCurrent, IInv, JobAdmitted
  <2>2. CASE ReadPrevious
    BY <2>2 DEF ReadPrevious, IInv, JobAdmitted
  <2>3. CASE CompareSection
    BY <2>3 DEF CompareSection, IInv, JobAdmitted
  <2>4. CASE SectionFails
    BY <2>4 DEF SectionFails, IInv, JobAdmitted
  <2> QED
    BY <2>1, <2>2, <2>3, <2>4
<1>3. JobAdmitted'
  BY <1>1, <1>2 DEF IInv, JobAdmitted, Admitted, documents
<1> QED
  BY <1>1, <1>3 DEF IInv, CompletedIndexed, ReportsAdmitted, Admitted, documents

(* A report that is stored is of the documents of the comparison under way. *)
LEMMA StoreKeepsAdmitted ==
    ASSUME IInv, job.pc = "compare", job' = NoComparison, UNCHANGED <<status, indexed>>,
           comparisons' = Append(comparisons, Comparison(job))
    PROVE  IInv'
<1> USE DEF IInv
<1> DEFINE r == Comparison(job)
<1>1. Admitted(r.current, r.previous)
  BY DEF JobAdmitted, Comparison
<1>2. comparisons' = Append(comparisons, r)
  OBVIOUS
<1> HIDE DEF r
<1>3. /\ comparisons' \in Seq({comparisons'[k] : k \in DOMAIN comparisons'})
      /\ \A k \in DOMAIN comparisons' :
             (k \in DOMAIN comparisons /\ comparisons'[k] = comparisons[k]) \/ comparisons'[k] = r
  BY <1>2, AppendedReports DEF ReportsAdmitted
<1>4. ASSUME NEW k \in DOMAIN comparisons'
      PROVE  Admitted(comparisons'[k].current, comparisons'[k].previous)
  <2>1. CASE k \in DOMAIN comparisons /\ comparisons'[k] = comparisons[k]
    BY <2>1 DEF ReportsAdmitted
  <2>2. CASE comparisons'[k] = r
    BY <1>1, <2>2
  <2> QED
    BY <1>3, <2>1, <2>2
<1>5. \A a, b : Admitted(a, b) => Admitted(a, b)'
  BY DEF Admitted
<1>6. ReportsAdmitted'
  BY <1>3, <1>4, <1>5 DEF ReportsAdmitted
<1> QED
  BY <1>6 DEF CompletedIndexed, JobAdmitted, NoComparison

LEMMA NextKeepsAdmitted == IInv /\ [DiffNext]_diffVars => IInv'
<1> SUFFICES ASSUME IInv, [DiffNext]_diffVars PROVE IInv'
  OBVIOUS
<1> USE DEF IInv
<1>1. ASSUME NEW cur \in DiffDocuments, NEW prev \in DiffDocuments, StartDiff(cur, prev)
      PROVE  IInv'
  <2>1. Admitted(cur, prev)
    BY <1>1 DEF StartDiff, Comparable, CompletedIndexed, Admitted
  <2>2. JobAdmitted'
    BY <1>1, <2>1 DEF StartDiff, NoComparison, JobAdmitted, Admitted, documents
  <2> QED
    BY <1>1, <2>2 DEF StartDiff, CompletedIndexed, ReportsAdmitted, Admitted, documents
<1>2. CASE ReadCurrent \/ ReadPrevious \/ CompareSection \/ SectionFails
  BY <1>2, HandleKeepsAdmitted
<1>3. CASE SaveDiff \/ (DatabaseRaises /\ Ready /\ comparisons' = Append(comparisons, Comparison(job)))
  <2>1. /\ job.pc = "compare" /\ job' = NoComparison /\ UNCHANGED <<status, indexed>>
        /\ comparisons' = Append(comparisons, Comparison(job))
    BY <1>3 DEF SaveDiff, DatabaseRaises, Ready, documents
  <2> QED
    BY <2>1, StoreKeepsAdmitted
<1>7. CASE RefuseReport \/ (DatabaseRaises /\ comparisons' = comparisons)
  <2>1. job' = NoComparison /\ comparisons' = comparisons /\ UNCHANGED <<status, indexed>>
    BY <1>7 DEF RefuseReport, DatabaseRaises, documents
  <2> QED
    BY <2>1 DEF CompletedIndexed, JobAdmitted, ReportsAdmitted, Admitted, NoComparison
<1>4. CASE Ingest
  BY <1>4, LifecycleKeepsText, AdmittedStays DEF Ingest
<1>5. ASSUME NEW c \in Chunks, NEW s \in Labels, Reclassify(c, s)
      PROVE  IInv'
  BY <1>5, AdmittedStays DEF Reclassify, CompletedIndexed, documents
<1>6. CASE UNCHANGED diffVars
  BY <1>6, AdmittedStays DEF diffVars, CompletedIndexed
<1> QED
  BY <1>1, <1>2, <1>3, <1>4, <1>5, <1>6, <1>7 DEF DiffNext, Handle, DatabaseRaises

(* A stored comparison is of two documents of one company whose whole text  *)
(* was in the store when it was read, whatever was ingested meanwhile.      *)
THEOREM ComparisonsOfIndexed == DiffSpec => []ComparesIndexed
<1>1. IInv => ComparesIndexed
  BY DEF IInv, ReportsAdmitted, Admitted, ComparesIndexed
<1> QED
  BY <1>1, InitAdmitted, NextKeepsAdmitted, PTL DEF DiffSpec

-----------------------------------------------------------------------------
(* Lists in order. *)

(* A set of numbers that is not empty has a least member. *)
LEMMA LeastOf ==
    ASSUME NEW S, S \subseteq Nat, S # {}
    PROVE  \E x \in S : \A y \in S : x <= y
<1>1. PICK x \in S : \A y \in S : ~(<<y, x>> \in OpToRel(<, Nat))
  BY WFMin, NatLessThanWellFounded
<1>2. \A y \in S : y < x => <<y, x>> \in OpToRel(<, Nat)
  BY DEF OpToRel
<1>3. \A y \in S : ~(y < x)
  BY <1>1, <1>2
<1> QED
  BY <1>3

(* Ascending(S) lists every member of S once. *)
LEMMA AscendingLists ==
    ASSUME NEW S, S \subseteq Nat, IsFiniteSet(S)
    PROVE  /\ Ascending(S) \in Seq(S)
           /\ \A k \in S : \E n \in DOMAIN Ascending(S) : Ascending(S)[n] = k
           /\ \A m, n \in DOMAIN Ascending(S) : Ascending(S)[m] = Ascending(S)[n] => m = n
<1> DEFINE Upto(k) == {j \in S : j <= k}
           N == Cardinality(S)
           rank == [k \in S |-> Cardinality(Upto(k))]
<1>1. N \in Nat
  BY FS_CardinalityType
<1>2. \A k \in S : k \in Upto(k) /\ Upto(k) \in SUBSET S
  OBVIOUS
<1>3. ASSUME NEW k \in S
      PROVE  rank[k] \in 1 .. N /\ IsFiniteSet(Upto(k)) /\ rank[k] = Cardinality(Upto(k))
  <2>1. k \in Upto(k) /\ Upto(k) \in SUBSET S
    BY <1>2
  <2>2. rank[k] = Cardinality(Upto(k))
    OBVIOUS
  <2> HIDE DEF Upto, rank, N
  <2>3. IsFiniteSet(Upto(k)) /\ Cardinality(Upto(k)) <= N /\ Cardinality(Upto(k)) \in Nat
    BY <2>1, FS_Subset, FS_CardinalityType DEF N
  <2>4. Cardinality(Upto(k)) # 0
    BY <2>1, <2>3, FS_EmptySet
  <2> QED
    BY <1>1, <2>2, <2>3, <2>4
<1>4. ASSUME NEW k \in S, NEW l \in S, k < l
      PROVE  rank[k] # rank[l]
  <2>a. \A j \in S : j <= k => j <= l
    BY <1>4
  <2>b. ~(l <= k) /\ l <= l
    BY <1>4
  <2>1. Upto(k) \in SUBSET Upto(l) /\ l \notin Upto(k) /\ l \in Upto(l)
    BY <2>a, <2>b
  <2>2. IsFiniteSet(Upto(l)) /\ rank[k] = Cardinality(Upto(k)) /\ rank[l] = Cardinality(Upto(l))
    BY <1>3
  <2> DEFINE A == Upto(k)
             B == Upto(l)
  <2>3. A \in SUBSET B /\ A # B /\ IsFiniteSet(B)
    BY <2>1, <2>2
  <2> HIDE DEF A, B
  <2>4. Cardinality(A) # Cardinality(B)
    BY <2>3, FS_Subset
  <2> USE DEF A, B
  <2> HIDE DEF Upto, rank
  <2> QED
    BY <2>2, <2>4
<1>5. \A k, l \in S : k # l => k < l \/ l < k
  OBVIOUS
<1>6. \A k, l \in S : rank[k] = rank[l] => k = l
  BY <1>4, <1>5
<1>7. rank \in Injection(S, 1 .. N)
  <2> HIDE DEF rank, N
  <2>1. DOMAIN rank = S /\ rank \in [S -> 1 .. N]
    BY <1>3 DEF rank
  <2> QED
    BY <1>6, <2>1 DEF Injection, IsInjective
<1>8. IsFiniteSet(1 .. N) /\ Cardinality(1 .. N) = N
  BY <1>1, FS_Interval
<1>9. rank \in Surjection(S, 1 .. N)
  <2> HIDE DEF rank
  <2> QED
    BY <1>7, <1>8, FS_Injection
<1>10. \A n \in 1 .. N : \E k \in S : rank[k] = n
  BY <1>9 DEF Surjection
<1> DEFINE a == Ascending(S)
<1>11. a = [n \in 1 .. N |-> CHOOSE k \in S : Cardinality(Upto(k)) = n]
  BY DEF Ascending
<1>12. ASSUME NEW n \in 1 .. N
       PROVE  a[n] \in S /\ rank[a[n]] = n
  <2>1. \E k \in S : Cardinality(Upto(k)) = n
    BY <1>3, <1>10
  <2>2. a[n] = CHOOSE k \in S : Cardinality(Upto(k)) = n
    BY <1>11
  <2> HIDE DEF Upto, rank, a
  <2>3. a[n] \in S /\ Cardinality(Upto(a[n])) = n
    BY <2>1, <2>2
  <2> QED
    BY <1>3, <2>3
<1>13. DOMAIN a = 1 .. N
  BY <1>11
<1> HIDE DEF a, rank, N
<1>14. a \in Seq(S)
  <2>1. a = [n \in 1 .. N |-> a[n]]
    <3> DEFINE e(n) == CHOOSE k \in S : Cardinality(Upto(k)) = n
    <3>1. a = [n \in 1 .. N |-> e(n)]
      BY <1>11
    <3> HIDE DEF e
    <3> QED
      BY <3>1
  <2>2. a \in [1 .. N -> S]
    BY <1>12, <2>1
  <2> QED
    BY <1>1, <2>2
<1>15. \A k \in S : \E n \in 1 .. N : a[n] = k
  BY <1>3, <1>6, <1>12
<1>16. \A m, n \in 1 .. N : a[m] = a[n] => m = n
  BY <1>12
<1> QED
  BY <1>13, <1>14, <1>15, <1>16 DEF a

(* Sorted(S) lists every section of S once. *)
LEMMA SortedLists ==
    ASSUME NEW S, S \subseteq SectionNames
    PROVE  /\ Sorted(S) \in Seq(S)
           /\ \A s \in S : \E n \in DOMAIN Sorted(S) : Sorted(S)[n] = s
           /\ \A m, n \in DOMAIN Sorted(S) : Sorted(S)[m] = Sorted(S)[n] => m = n
<1> DEFINE P == {k \in DOMAIN Sections : Sections[k] \in S}
           places == Ascending(P)
           L == Sorted(S)
<1>1. Len(Sections) \in Nat /\ DOMAIN Sections = 1 .. Len(Sections)
      /\ \A k, l \in DOMAIN Sections : Sections[k] = Sections[l] => k = l
  BY DiffAssumption
<1>2. P \subseteq Nat /\ IsFiniteSet(P)
  <2>1. IsFiniteSet(1 .. Len(Sections))
    BY <1>1, FS_Interval
  <2>2. P \in SUBSET (1 .. Len(Sections))
    BY <1>1
  <2> QED
    BY <1>1, <2>1, <2>2, FS_Subset
<1>3. /\ places \in Seq(P)
      /\ \A k \in P : \E n \in DOMAIN places : places[n] = k
      /\ \A m, n \in DOMAIN places : places[m] = places[n] => m = n
  <2> HIDE DEF P
  <2> QED
    BY <1>2, AscendingLists
<1>4. L = [n \in DOMAIN places |-> Sections[places[n]]]
  BY DEF Sorted
<1>5. \A s \in S : \E k \in P : Sections[k] = s
  BY DEF SectionNames
<1>6. \A k \in P : Sections[k] \in S /\ k \in DOMAIN Sections
  OBVIOUS
<1> HIDE DEF P, places, L
<1>7. Len(places) \in Nat /\ DOMAIN places = 1 .. Len(places)
      /\ \A n \in DOMAIN places : places[n] \in P
  BY <1>3
<1>8. DOMAIN L = 1 .. Len(places) /\ \A n \in DOMAIN L : L[n] = Sections[places[n]] /\ L[n] \in S
  BY <1>4, <1>6, <1>7
<1>9. L \in Seq(S)
  BY <1>4, <1>7, <1>8
<1>10. \A s \in S : \E n \in DOMAIN L : L[n] = s
  BY <1>3, <1>5, <1>7, <1>8
<1>11. \A m, n \in DOMAIN L : L[m] = L[n] => m = n
  BY <1>1, <1>3, <1>6, <1>7, <1>8
<1> QED
  BY <1>9, <1>10, <1>11 DEF L

-----------------------------------------------------------------------------
(* Items. *)

(* An item of a comparison of cur with prev cites the one or the other, by  *)
(* a page of each document it names and of no other.                        *)
Cites(item, cur, prev) ==
    /\ item.currentDocument \in {cur, NoSource}
    /\ item.previousDocument \in {prev, NoSource}
    /\ item.currentDocument = NoSource <=> item.currentPage = Blank
    /\ item.previousDocument = NoSource <=> item.previousPage = Blank
    /\ {item.currentDocument, item.previousDocument} # {NoSource}

(* The items a comparison of cur with prev may have on the sections of S. *)
SoundItems(S, cur, prev) == {i \in ItemSet : Cites(i, cur, prev) /\ i.section \in S}

RawItems == [type : STRING, tone : {"absent", "true", "false"}, presence : STRING,
             current : Nat \cup {Blank, Null}, previous : Nat \cup {Blank, Null},
             valid : BOOLEAN]

LEMMA Pages ==
    ASSUME NEW p \in Nat \cup {Blank, Null}
    PROVE  PageText(p) \in PageTexts
  BY DiffAssumption DEF PageText, PageTexts

LEMMA CitedPages ==
    ASSUME NEW p, NEW d \in DiffDocuments
    PROVE  /\ Cited(p, d) \in DiffDocuments \cup {NoSource}
           /\ Cited(p, d) \in {d, NoSource}
           /\ Cited(p, d) = NoSource <=> p = Blank
  BY DiffAssumption DEF Cited

(* What an answer says of a section becomes an item on that section. *)
LEMMA ItemSound ==
    ASSUME NEW s \in SectionNames, NEW raw \in RawItems, Sourced(raw),
           NEW cur \in DiffDocuments, NEW prev \in DiffDocuments
    PROVE  Item(s, raw, cur, prev) \in SoundItems({s}, cur, prev)
<1> DEFINE t == DiffType(raw)
           c == PageText(raw.current)
           p == PageText(raw.previous)
           cd == Cited(c, cur)
           pd == Cited(p, prev)
           q == IF raw.presence \in Presences THEN raw.presence ELSE "both"
           o == ToneOnly(raw)
           i == Item(s, raw, cur, prev)
<1>1. t \in DiffTypes
  BY DEF DiffType, DiffTypes
<1>2. c \in PageTexts /\ p \in PageTexts
  BY Pages DEF RawItems
<1>3. /\ cd \in DiffDocuments \cup {NoSource} /\ cd \in {cur, NoSource}
      /\ cd = NoSource <=> c = Blank
  <2> HIDE DEF c
  <2> QED
    BY CitedPages
<1>4. /\ pd \in DiffDocuments \cup {NoSource} /\ pd \in {prev, NoSource}
      /\ pd = NoSource <=> p = Blank
  <2> HIDE DEF p
  <2> QED
    BY CitedPages
<1>5. q \in Presences
  BY DEF Presences
<1>6. o \in BOOLEAN /\ raw.valid \in BOOLEAN
  BY DEF ToneOnly, RawItems
<1>7. c # Blank \/ p # Blank
  BY DEF Sourced
<1>8. i = [section |-> s, type |-> t, currentPage |-> c, currentDocument |-> cd,
           previousPage |-> p, previousDocument |-> pd, presence |-> q, toneOnly |-> o,
           valid |-> raw.valid]
  BY DEF Item
<1> HIDE DEF t, c, p, cd, pd, q, o, i
<1>9. i \in ItemSet
  BY <1>1, <1>2, <1>3, <1>4, <1>5, <1>6, <1>8 DEF ItemSet
<1>10. Cites(i, cur, prev)
  BY <1>3, <1>4, <1>7, <1>8 DEF Cites
<1>11. i.section = s
  BY <1>8
<1> QED
  BY <1>9, <1>10, <1>11 DEF SoundItems, i

(* The items made of an answer are those of it that have a source. *)
LEMMA ItemsSound ==
    ASSUME NEW s \in SectionNames, NEW answer \in Answers,
           NEW cur \in DiffDocuments, NEW prev \in DiffDocuments
    PROVE  Items(s, answer, cur, prev) \in Seq(SoundItems({s}, cur, prev))
<1> DEFINE P == {k \in DOMAIN answer : Sourced(answer[k])}
           sourced == Ascending(P)
           e(n) == Item(s, answer[sourced[n]], cur, prev)
           T == SoundItems({s}, cur, prev)
<1>1. answer \in Seq(RawItems)
  BY DiffAssumption DEF RawItems
<1>2. Len(answer) \in Nat /\ DOMAIN answer = 1 .. Len(answer)
      /\ \A k \in DOMAIN answer : answer[k] \in RawItems
  BY <1>1
<1>3. P \subseteq Nat /\ IsFiniteSet(P)
  <2>1. IsFiniteSet(1 .. Len(answer))
    BY <1>2, FS_Interval
  <2>2. P \in SUBSET (1 .. Len(answer))
    BY <1>2
  <2> QED
    BY <1>2, <2>1, <2>2, FS_Subset
<1>4. sourced \in Seq(P)
  <2> HIDE DEF P
  <2> QED
    BY <1>3, AscendingLists
<1>5. \A k \in P : k \in DOMAIN answer /\ Sourced(answer[k])
  OBVIOUS
<1>6. Items(s, answer, cur, prev) = [n \in DOMAIN sourced |-> e(n)]
  BY DEF Items
<1>7. Len(sourced) \in Nat /\ DOMAIN sourced = 1 .. Len(sourced)
      /\ \A n \in DOMAIN sourced : sourced[n] \in P
  <2> HIDE DEF P, sourced
  <2> QED
    BY <1>4
<1>8. ASSUME NEW n \in DOMAIN sourced
      PROVE  e(n) \in T
  <2> DEFINE raw == answer[sourced[n]]
  <2>1. raw \in RawItems /\ Sourced(raw)
    <3> HIDE DEF P, sourced
    <3> QED
      BY <1>2, <1>5, <1>7
  <2> HIDE DEF raw, T
  <2>2. Item(s, raw, cur, prev) \in T
    BY <2>1, ItemSound DEF T
  <2> QED
    BY <2>2 DEF raw
<1> HIDE DEF e, T, sourced
<1>9. [n \in DOMAIN sourced |-> e(n)] \in [1 .. Len(sourced) -> T]
  BY <1>7, <1>8
<1> DEFINE made == [n \in DOMAIN sourced |-> e(n)]
<1>10. made \in [1 .. Len(sourced) -> T]
  BY <1>9
<1> HIDE DEF made
<1>11. made \in Seq(T)
  BY <1>7, <1>10
<1> QED
  BY <1>6, <1>11 DEF T, made

-----------------------------------------------------------------------------
(* Marks of the sections one document has. *)

(* The first page of a section a document was read to have is one of its. *)
LEMMA FirstPages ==
    ASSUME NEW d, NEW group, group \subseteq SectionNames \X ChunksOf(d),
           NEW s \in SectionsOf(group)
    PROVE  \E c \in ChunksOf(d) : Page[c] = FirstPage(group, s)
<1> DEFINE all == {Page[g[2]] : g \in group}
           here == {Page[g[2]] : g \in {g \in group : g[1] = s}}
           first(p) == /\ \E g \in group : g[1] = s /\ Page[g[2]] = p
                       /\ \A g \in group : g[1] = s => p <= Page[g[2]]
<1>1. \A g \in group : g[2] \in ChunksOf(d) /\ Page[g[2]] \in Nat
  BY DiffAssumption DEF ChunksOf
<1>2. here \subseteq Nat /\ here # {}
  BY <1>1 DEF SectionsOf
<1>3. PICK p \in here : \A q \in here : p <= q
  <2> HIDE DEF here
  <2> QED
    BY <1>2, LeastOf
<1>4. p \in all /\ first(p)
  BY <1>3
<1>5. FirstPage(group, s) = CHOOSE p1 \in all : first(p1)
  BY DEF FirstPage
<1> HIDE DEF all, first
<1>6. first(FirstPage(group, s))
  BY <1>4, <1>5
<1> QED
  BY <1>1, <1>6 DEF first

(* An item of M, the one at n0, is on s, and none else of three lists is. *)
OnlyAt(I, M, N, s, n0) ==
    /\ \A k \in DOMAIN I : I[k].section # s
    /\ \A k \in DOMAIN N : N[k].section # s
    /\ n0 \in DOMAIN M
    /\ \A n \in DOMAIN M : M[n].section = s <=> n = n0

OneOf(t, s, i) == \E k0 \in DOMAIN t : t[k0] = i /\ {k \in DOMAIN t : t[k].section = s} = {k0}

(* Then the lists together have it once. *)
LEMMA OneMark ==
    ASSUME NEW T, NEW I \in Seq(T), NEW M \in Seq(T), NEW N \in Seq(T), NEW s, NEW n0,
           OnlyAt(I, M, N, s, n0), NEW t, t = I \o M \o N
    PROVE  OneOf(t, s, M[n0])
<1> USE DEF OnlyAt
<1> DEFINE k0 == Len(I) + n0
<1>1. /\ Len(I) \in Nat /\ Len(M) \in Nat /\ Len(N) \in Nat
      /\ DOMAIN I = 1 .. Len(I) /\ DOMAIN M = 1 .. Len(M) /\ DOMAIN N = 1 .. Len(N)
  OBVIOUS
<1>2. DOMAIN t = 1 .. Len(I) + Len(M) + Len(N)
  OBVIOUS
<1>3. \A k \in DOMAIN t : t[k] = IF k <= Len(I) THEN I[k]
                                 ELSE IF k <= Len(I) + Len(M) THEN M[k - Len(I)]
                                 ELSE N[k - (Len(I) + Len(M))]
  BY <1>1, <1>2
<1>4. k0 \in DOMAIN t /\ t[k0] = M[n0]
  BY <1>1, <1>2, <1>3
<1>5. ASSUME NEW k \in DOMAIN t
      PROVE  t[k].section = s <=> k = k0
  <2>1. CASE k <= Len(I)
    BY <1>1, <1>2, <1>3, <2>1
  <2>2. CASE k > Len(I) /\ k <= Len(I) + Len(M)
    <3>1. k - Len(I) \in DOMAIN M /\ t[k] = M[k - Len(I)]
      BY <1>1, <1>2, <1>3, <2>2
    <3>2. k = k0 <=> k - Len(I) = n0
      BY <1>1, <1>2
    <3> QED
      BY <3>1, <3>2
  <2>3. CASE k > Len(I) + Len(M)
    <3>1. k - (Len(I) + Len(M)) \in DOMAIN N /\ t[k] = N[k - (Len(I) + Len(M))]
      BY <1>1, <1>2, <1>3, <2>3
    <3>2. k # k0
      BY <1>1, <2>3
    <3> QED
      BY <3>1, <3>2
  <2> QED
    BY <1>1, <1>2, <2>1, <2>2, <2>3
<1>6. {k \in DOMAIN t : t[k].section = s} = {k0}
  BY <1>4, <1>5
<1> QED
  BY <1>4, <1>6 DEF OneOf

(* M is the list of the items f has for the sections of S. *)
Lists(M, S, f) ==
    /\ \A s \in S : f[s].section = s
    /\ \A k \in DOMAIN Sorted(S) : M[k] = f[Sorted(S)[k]]

ListsEach(M, S, f) ==
    /\ \A n \in DOMAIN M : M[n].section \in S
    /\ \A s \in S : \E n0 \in DOMAIN M :
           /\ M[n0] = f[s]
           /\ \A n \in DOMAIN M : M[n].section = s <=> n = n0

LEMMA MarksList ==
    ASSUME NEW S, S \subseteq SectionNames, NEW T, NEW f \in [S -> T],
           NEW M \in [DOMAIN Sorted(S) -> T], Lists(M, S, f)
    PROVE  M \in Seq(T) /\ ListsEach(M, S, f)
<1> USE DEF Lists
<1> DEFINE L == Sorted(S)
<1>1. /\ L \in Seq(S)
      /\ \A s \in S : \E n \in DOMAIN L : L[n] = s
      /\ \A m, n \in DOMAIN L : L[m] = L[n] => m = n
  BY SortedLists
<1>2. M \in [DOMAIN L -> T] /\ \A k \in DOMAIN L : M[k] = f[L[k]]
  OBVIOUS
<1> HIDE DEF L
<1>3. Len(L) \in Nat /\ DOMAIN L = 1 .. Len(L) /\ \A n \in DOMAIN L : L[n] \in S
  BY <1>1
<1>4. DOMAIN M = DOMAIN L /\ \A n \in DOMAIN L : M[n] = f[L[n]] /\ M[n].section = L[n]
  BY <1>2, <1>3
<1>5. M \in [1 .. Len(L) -> T]
  BY <1>2, <1>3
<1>6. M \in Seq(T)
  BY <1>3, <1>5
<1>7. ASSUME NEW s \in S
      PROVE  \E n0 \in DOMAIN M : /\ M[n0] = f[s]
                                  /\ \A n \in DOMAIN M : M[n].section = s <=> n = n0
  <2>1. PICK n0 \in DOMAIN L : L[n0] = s
    BY <1>1
  <2>2. M[n0] = f[s] /\ n0 \in DOMAIN M
    BY <1>4, <2>1
  <2>3. \A n \in DOMAIN M : M[n].section = s <=> n = n0
    BY <1>1, <1>4, <2>1
  <2> QED
    BY <2>2, <2>3
<1> QED
  BY <1>3, <1>4, <1>6, <1>7 DEF ListsEach

(* What a comparison has read: its documents, and chunks of each. *)
Read(j) ==
    /\ j.cur \in DiffDocuments
    /\ j.prev \in DiffDocuments
    /\ j.current \subseteq SectionNames \X ChunksOf(j.cur)
    /\ j.previous \subseteq SectionNames \X ChunksOf(j.prev)

LEMMA SectionsRead ==
    ASSUME NEW d, NEW group, group \subseteq SectionNames \X ChunksOf(d)
    PROVE  SectionsOf(group) \subseteq SectionNames
  BY DEF SectionsOf

LEMMA NewSectionSound ==
    ASSUME NEW j, Read(j), NEW s \in SectionsOf(j.current)
    PROVE  /\ NewSection(j, s) \in SoundItems({s}, j.cur, j.prev)
           /\ NewSection(j, s).section = s
           /\ NewSection(j, s).type = "new_language"
           /\ \E c \in ChunksOf(j.cur) : Page[c] = NewSection(j, s).currentPage
<1> DEFINE p == FirstPage(j.current, s)
           i == NewSection(j, s)
<1>1. PICK c \in ChunksOf(j.cur) : Page[c] = p
  BY FirstPages DEF Read
<1>2. p \in Nat /\ p # Blank
  BY <1>1, DiffAssumption DEF ChunksOf
<1>3. s \in SectionNames
  BY SectionsRead DEF Read
<1> HIDE DEF p
<1>4. i = [section |-> s, type |-> "new_language", currentPage |-> p,
           currentDocument |-> j.cur, previousPage |-> Blank,
           previousDocument |-> NoSource, presence |-> "only_in_current",
           toneOnly |-> FALSE, valid |-> TRUE]
  BY DEF NewSection, p
<1> HIDE DEF i
<1>5. i \in ItemSet
  BY <1>2, <1>3, <1>4 DEF ItemSet, DiffTypes, PageTexts, Presences, Read
<1>6. Cites(i, j.cur, j.prev)
  BY <1>2, <1>4, DiffAssumption DEF Cites, Read
<1> QED
  BY <1>1, <1>4, <1>5, <1>6 DEF SoundItems, i

LEMMA RemovedSectionSound ==
    ASSUME NEW j, Read(j), NEW s \in SectionsOf(j.previous)
    PROVE  /\ RemovedSection(j, s) \in SoundItems({s}, j.cur, j.prev)
           /\ RemovedSection(j, s).section = s
           /\ RemovedSection(j, s).type = "removed_language"
           /\ \E c \in ChunksOf(j.prev) : Page[c] = RemovedSection(j, s).previousPage
<1> DEFINE p == FirstPage(j.previous, s)
           i == RemovedSection(j, s)
<1>1. PICK c \in ChunksOf(j.prev) : Page[c] = p
  BY FirstPages DEF Read
<1>2. p \in Nat /\ p # Blank
  BY <1>1, DiffAssumption DEF ChunksOf
<1>3. s \in SectionNames
  BY SectionsRead DEF Read
<1> HIDE DEF p
<1>4. i = [section |-> s, type |-> "removed_language", currentPage |-> Blank,
           currentDocument |-> NoSource, previousPage |-> p,
           previousDocument |-> j.prev, presence |-> "only_in_previous",
           toneOnly |-> FALSE, valid |-> TRUE]
  BY DEF RemovedSection, p
<1> HIDE DEF i
<1>5. i \in ItemSet
  BY <1>2, <1>3, <1>4 DEF ItemSet, DiffTypes, PageTexts, Presences, Read
<1>6. Cites(i, j.cur, j.prev)
  BY <1>2, <1>4, DiffAssumption DEF Cites, Read
<1> QED
  BY <1>1, <1>4, <1>5, <1>6 DEF SoundItems, i

ReportRecord == [current : DiffDocuments, previous : DiffDocuments, items : Seq(ItemSet),
                 compared : SUBSET SectionNames, onlyCurrent : SUBSET SectionNames,
                 onlyPrevious : SUBSET SectionNames]

Accounted(r) ==
    /\ r.compared \cap (r.onlyCurrent \cup r.onlyPrevious) = {}
    /\ r.onlyCurrent \cap r.onlyPrevious = {}
    /\ \A s \in r.onlyCurrent :
           Marked(r, s, "new_language", LAMBDA i : i.currentPage, r.current)
    /\ \A s \in r.onlyPrevious :
           Marked(r, s, "removed_language", LAMBDA i : i.previousPage, r.previous)

SoundReports ==
    {r \in ReportRecord :
         Accounted(r) /\ r.items \in Seq(SoundItems(SectionNames, r.current, r.previous))}

LEMMA ManySections ==
    ASSUME NEW cur, NEW prev, NEW S, S \subseteq SectionNames
    PROVE  /\ SoundItems(S, cur, prev) \subseteq SoundItems(SectionNames, cur, prev)
           /\ \A s \in S : SoundItems({s}, cur, prev) \subseteq SoundItems(S, cur, prev)
  BY DEF SoundItems

LEMMA WiderSeq ==
    ASSUME NEW S, NEW T, S \subseteq T, NEW q \in Seq(S)
    PROVE  q \in Seq(T)
  BY SeqMonotonic

(* The one item of a report on s is the mark of s. *)
LEMMA MarkedNew ==
    ASSUME NEW r, NEW s, NEW k0 \in DOMAIN r.items, NEW d, NEW c \in ChunksOf(d),
           {k \in DOMAIN r.items : r.items[k].section = s} = {k0},
           r.items[k0].type = "new_language", Page[c] = r.items[k0].currentPage
    PROVE  Marked(r, s, "new_language", LAMBDA i : i.currentPage, d)
<1> DEFINE marks == {k \in DOMAIN r.items : r.items[k].section = s}
<1>1. Cardinality(marks) = 1
  BY FS_Singleton
<1>2. \A k \in marks : k = k0
  OBVIOUS
<1> HIDE DEF marks
<1>3. \A k \in marks : /\ r.items[k].type = "new_language"
                       /\ \E c1 \in ChunksOf(d) : Page[c1] = r.items[k].currentPage
  BY <1>2
<1> QED
  BY <1>1, <1>3 DEF Marked, marks

LEMMA MarkedRemoved ==
    ASSUME NEW r, NEW s, NEW k0 \in DOMAIN r.items, NEW d, NEW c \in ChunksOf(d),
           {k \in DOMAIN r.items : r.items[k].section = s} = {k0},
           r.items[k0].type = "removed_language", Page[c] = r.items[k0].previousPage
    PROVE  Marked(r, s, "removed_language", LAMBDA i : i.previousPage, d)
<1> DEFINE marks == {k \in DOMAIN r.items : r.items[k].section = s}
<1>1. Cardinality(marks) = 1
  BY FS_Singleton
<1>2. \A k \in marks : k = k0
  OBVIOUS
<1> HIDE DEF marks
<1>3. \A k \in marks : /\ r.items[k].type = "removed_language"
                       /\ \E c1 \in ChunksOf(d) : Page[c1] = r.items[k].previousPage
  BY <1>2
<1> QED
  BY <1>1, <1>3 DEF Marked, marks

(* What a comparison is stored as is sound, if its items are. *)
LEMMA ReportSound ==
    ASSUME NEW j, Read(j), j.items \in Seq(SoundItems(Shared(j), j.cur, j.prev))
    PROVE  Comparison(j) \in SoundReports
<1> DEFINE A == OnlyCurrent(j)
           B == OnlyPrevious(j)
           C == Shared(j)
           T == SoundItems(SectionNames, j.cur, j.prev)
           f == [s \in A |-> NewSection(j, s)]
           g == [s \in B |-> RemovedSection(j, s)]
           LA == Sorted(A)
           LB == Sorted(B)
           MA == Marks(A, LAMBDA s : NewSection(j, s))
           MB == Marks(B, LAMBDA s : RemovedSection(j, s))
           I == j.items
           t == I \o MA \o MB
           r == Comparison(j)
<1>1. SectionsOf(j.current) \subseteq SectionNames /\ SectionsOf(j.previous) \subseteq SectionNames
  BY SectionsRead DEF Read
<1>2. /\ A \subseteq SectionNames /\ B \subseteq SectionNames /\ C \subseteq SectionNames
      /\ A \subseteq SectionsOf(j.current) /\ B \subseteq SectionsOf(j.previous)
      /\ A \cap B = {} /\ C \cap A = {} /\ C \cap B = {}
  BY <1>1 DEF OnlyCurrent, OnlyPrevious, Shared
<1>3. LA \in Seq(A) /\ LB \in Seq(B)
  <2> HIDE DEF A, B
  <2> QED
    BY <1>2, SortedLists
<1>4. /\ MA = [k \in DOMAIN LA |-> f[LA[k]]]
      /\ MB = [k \in DOMAIN LB |-> g[LB[k]]]
  <2>1. \A k \in DOMAIN LA : LA[k] \in A
    <3> HIDE DEF A, LA
    <3> QED
      BY <1>3
  <2>2. \A k \in DOMAIN LB : LB[k] \in B
    <3> HIDE DEF B, LB
    <3> QED
      BY <1>3
  <2>3. MA = [k \in DOMAIN LA |-> NewSection(j, LA[k])]
    BY DEF Marks
  <2>4. MB = [k \in DOMAIN LB |-> RemovedSection(j, LB[k])]
    BY DEF Marks
  <2> HIDE DEF MA, MB, LA, LB, A, B
  <2> QED
    BY <2>1, <2>2, <2>3, <2>4
<1>5. \A s \in A : /\ f[s] \in SoundItems({s}, j.cur, j.prev) /\ f[s].section = s
                   /\ f[s].type = "new_language"
                   /\ \E c \in ChunksOf(j.cur) : Page[c] = f[s].currentPage
  <2> SUFFICES ASSUME NEW s \in A
               PROVE  /\ f[s] \in SoundItems({s}, j.cur, j.prev) /\ f[s].section = s
                      /\ f[s].type = "new_language"
                      /\ \E c \in ChunksOf(j.cur) : Page[c] = f[s].currentPage
    OBVIOUS
  <2> DEFINE i == NewSection(j, s)
  <2>1. f[s] = i /\ s \in SectionsOf(j.current)
    BY <1>2
  <2>2. /\ i \in SoundItems({s}, j.cur, j.prev) /\ i.section = s
        /\ i.type = "new_language"
        /\ \E c \in ChunksOf(j.cur) : Page[c] = i.currentPage
    BY <2>1, NewSectionSound
  <2> HIDE DEF A, f, i
  <2> QED
    BY <2>1, <2>2
<1>6. \A s \in B : /\ g[s] \in SoundItems({s}, j.cur, j.prev) /\ g[s].section = s
                   /\ g[s].type = "removed_language"
                   /\ \E c \in ChunksOf(j.prev) : Page[c] = g[s].previousPage
  <2> SUFFICES ASSUME NEW s \in B
               PROVE  /\ g[s] \in SoundItems({s}, j.cur, j.prev) /\ g[s].section = s
                      /\ g[s].type = "removed_language"
                      /\ \E c \in ChunksOf(j.prev) : Page[c] = g[s].previousPage
    OBVIOUS
  <2> DEFINE i == RemovedSection(j, s)
  <2>1. g[s] = i /\ s \in SectionsOf(j.previous)
    BY <1>2
  <2>2. /\ i \in SoundItems({s}, j.cur, j.prev) /\ i.section = s
        /\ i.type = "removed_language"
        /\ \E c \in ChunksOf(j.prev) : Page[c] = i.previousPage
    BY <2>1, RemovedSectionSound
  <2> HIDE DEF B, g, i
  <2> QED
    BY <2>1, <2>2
<1>7. f = [s \in A |-> f[s]] /\ g = [s \in B |-> g[s]]
  OBVIOUS
<1>8. f \in [A -> T] /\ g \in [B -> T]
  <2> HIDE DEF A, B, f, g
  <2>1. \A s \in A : f[s] \in T
    BY <1>2, <1>5, ManySections
  <2>2. \A s \in B : g[s] \in T
    BY <1>2, <1>6, ManySections
  <2> HIDE DEF T
  <2> QED
    BY <1>7, <2>1, <2>2
<1>9. I \in Seq(T) /\ \A k \in DOMAIN I : I[k].section \in C
  <2> DEFINE U == SoundItems(C, j.cur, j.prev)
  <2>1. I \in Seq(U)
    OBVIOUS
  <2>2. U \subseteq T /\ \A i \in U : i.section \in C
    BY <1>2 DEF SoundItems
  <2> HIDE DEF U, T, C, I
  <2>3. I \in Seq(T)
    BY <2>1, <2>2, WiderSeq
  <2>4. \A k \in DOMAIN I : I[k] \in U
    BY <2>1
  <2> QED
    BY <2>2, <2>3, <2>4
<1>10. r = [current |-> j.cur, previous |-> j.prev, items |-> t, compared |-> C,
            onlyCurrent |-> A, onlyPrevious |-> B]
  BY DEF Comparison
<1>11. T \subseteq ItemSet
  BY DEF SoundItems
<1> HIDE DEF A, B, C, T, f, g, LA, LB, MA, MB, I
<1>12. /\ MA \in Seq(T)
       /\ \A n \in DOMAIN MA : MA[n].section \in A
       /\ \A s \in A : \E n0 \in DOMAIN MA :
              /\ MA[n0] = f[s]
              /\ \A n \in DOMAIN MA : MA[n].section = s <=> n = n0
  <2>1. A \subseteq SectionNames /\ f \in [A -> T] /\ \A s \in A : f[s].section = s
    BY <1>2, <1>5, <1>8
  <2>2. \A k \in DOMAIN LA : LA[k] \in A
    BY <1>3
  <2>3. MA \in [DOMAIN LA -> T]
    BY <1>4, <2>1, <2>2
  <2>4. Lists(MA, A, f)
    BY <1>4, <2>1 DEF Lists, LA
  <2>5. MA \in Seq(T) /\ ListsEach(MA, A, f)
    BY <2>1, <2>3, <2>4, MarksList DEF LA
  <2> QED
    BY <2>5 DEF ListsEach
<1>13. /\ MB \in Seq(T)
       /\ \A n \in DOMAIN MB : MB[n].section \in B
       /\ \A s \in B : \E n0 \in DOMAIN MB :
              /\ MB[n0] = g[s]
              /\ \A n \in DOMAIN MB : MB[n].section = s <=> n = n0
  <2>1. B \subseteq SectionNames /\ g \in [B -> T] /\ \A s \in B : g[s].section = s
    BY <1>2, <1>6, <1>8
  <2>2. \A k \in DOMAIN LB : LB[k] \in B
    BY <1>3
  <2>3. MB \in [DOMAIN LB -> T]
    BY <1>4, <2>1, <2>2
  <2>4. Lists(MB, B, g)
    BY <1>4, <2>1 DEF Lists, LB
  <2>5. MB \in Seq(T) /\ ListsEach(MB, B, g)
    BY <2>1, <2>3, <2>4, MarksList DEF LB
  <2> QED
    BY <2>5 DEF ListsEach
<1>14. I \o MA \in Seq(T) /\ t \in Seq(T)
  BY <1>9, <1>12, <1>13
<1>15. t \in Seq(ItemSet)
  BY <1>11, <1>14, WiderSeq
<1>16. ASSUME NEW s \in A
       PROVE  Marked(r, s, "new_language", LAMBDA i : i.currentPage, j.cur)
  <2>1. PICK n0 \in DOMAIN MA : /\ MA[n0] = f[s]
                                /\ \A n \in DOMAIN MA : MA[n].section = s <=> n = n0
    BY <1>12
  <2>2. OnlyAt(I, MA, MB, s, n0)
    BY <1>2, <1>9, <1>13, <2>1 DEF OnlyAt
  <2>3. PICK k0 \in DOMAIN t : /\ t[k0] = f[s]
                               /\ {k \in DOMAIN t : t[k].section = s} = {k0}
    <3>1. t = I \o MA \o MB
      OBVIOUS
    <3> HIDE DEF t
    <3> QED
      <4>1. OneOf(t, s, MA[n0])
        BY <1>9, <1>12, <1>13, <2>2, <3>1, OneMark
      <4> QED
        BY <2>1, <4>1 DEF OneOf
  <2>4. r.items = t
    BY <1>10
  <2>5. PICK c \in ChunksOf(j.cur) : Page[c] = f[s].currentPage
    BY <1>5
  <2>6. f[s].type = "new_language"
    BY <1>5
  <2> HIDE DEF t, r
  <2> QED
    BY <2>3, <2>4, <2>5, <2>6, MarkedNew
<1>17. ASSUME NEW s \in B
       PROVE  Marked(r, s, "removed_language", LAMBDA i : i.previousPage, j.prev)
  <2> DEFINE IM == I \o MA
  <2>1. PICK n0 \in DOMAIN MB : /\ MB[n0] = g[s]
                                /\ \A n \in DOMAIN MB : MB[n].section = s <=> n = n0
    BY <1>13
  <2>2. /\ \A k \in DOMAIN I : I[k].section # s
        /\ \A k \in DOMAIN MA : MA[k].section # s
    BY <1>2, <1>9, <1>12
  <2>3. IM \in Seq(T) /\ \A k \in DOMAIN IM : IM[k].section # s
    <3>1. /\ Len(I) \in Nat /\ Len(MA) \in Nat
          /\ DOMAIN I = 1 .. Len(I) /\ DOMAIN MA = 1 .. Len(MA)
      BY <1>9, <1>12
    <3>2. /\ DOMAIN IM = 1 .. Len(I) + Len(MA)
          /\ \A k \in DOMAIN IM : IM[k] = IF k <= Len(I) THEN I[k] ELSE MA[k - Len(I)]
      BY <1>9, <1>12
    <3> HIDE DEF IM
    <3>3. ASSUME NEW k \in DOMAIN IM PROVE IM[k].section # s
      <4>1. CASE k <= Len(I)
        BY <2>2, <3>1, <3>2, <4>1
      <4>2. CASE k > Len(I)
        BY <2>2, <3>1, <3>2, <4>2
      <4> QED
        BY <3>1, <3>2, <4>1, <4>2
    <3> QED
      BY <1>14, <3>3 DEF IM
  <2>4. t = IM \o MB \o <<>> /\ <<>> \in Seq(T)
    BY <1>13, <1>14
  <2> HIDE DEF IM
  <2>5. PICK k0 \in DOMAIN t : /\ t[k0] = g[s]
                               /\ {k \in DOMAIN t : t[k].section = s} = {k0}
    <3> DEFINE e == <<>>
    <3>1. \A k \in DOMAIN e : e[k].section # s
      OBVIOUS
    <3>2. t = IM \o MB \o e /\ e \in Seq(T)
      BY <2>4
    <3> HIDE DEF t, e
    <3>3. OnlyAt(IM, MB, e, s, n0)
      BY <2>1, <2>3, <3>1 DEF OnlyAt
    <3>4. OneOf(t, s, MB[n0])
      BY <1>13, <2>3, <3>2, <3>3, OneMark
    <3> QED
      BY <2>1, <3>4 DEF OneOf
  <2>6. r.items = t
    BY <1>10
  <2>7. PICK c \in ChunksOf(j.prev) : Page[c] = g[s].previousPage
    BY <1>6
  <2>8. g[s].type = "removed_language"
    BY <1>6
  <2> HIDE DEF t, r
  <2> QED
    BY <2>5, <2>6, <2>7, <2>8, MarkedRemoved
<1> HIDE DEF t, r
<1>18. Accounted(r)
  BY <1>2, <1>10, <1>16, <1>17 DEF Accounted
<1>19. r \in ReportRecord
  BY <1>2, <1>10, <1>15 DEF ReportRecord, Read
<1> QED
  BY <1>10, <1>14, <1>18, <1>19 DEF SoundReports, T, r

-----------------------------------------------------------------------------
(* The steps of a comparison. *)

JobRecord == [pc : {"idle", "current", "previous", "compare"},
              cur : DiffDocuments \cup {NoSource}, prev : DiffDocuments \cup {NoSource},
              current : Groups, previous : Groups,
              todo : Seq(SectionNames), items : Seq(ItemSet)]

(* The sections to compare, and those of the items so far, are shared ones; *)
(* nothing is listed and nothing made before both documents are read.       *)
JobSound(j) ==
    /\ j \in JobRecord
    /\ j.pc # "idle" => Read(j)
    /\ j.todo \in Seq(Shared(j))
    /\ j.items \in Seq(SoundItems(Shared(j), j.cur, j.prev))
    /\ j.pc # "compare" => j.todo = <<>> /\ j.items = <<>>

SInv ==
    /\ section \in [Chunks -> Labels]
    /\ changes \in Nat /\ faults \in Nat /\ response \in Replies
    /\ JobSound(job)
    /\ comparisons \in Seq(SoundReports)

LEMMA EmptySeqs == \A S : <<>> \in Seq(S)
  OBVIOUS

LEMMA IdleSound == JobSound(NoComparison)
<1>1. NoComparison \in JobRecord
  BY EmptySeqs DEF NoComparison, JobRecord, Groups
<1> QED
  BY <1>1, EmptySeqs DEF NoComparison, JobSound

LEMMA SharedSections ==
    ASSUME NEW j, Read(j)
    PROVE  Shared(j) \subseteq SectionNames
  BY SectionsRead DEF Read, Shared

(* A comparison under way, with sections and items as they have to be. *)
LEMMA JobMade ==
    ASSUME NEW j \in JobRecord, Read(j), j.pc \in {"current", "previous", "compare"},
           j.todo \in Seq(Shared(j)),
           j.items \in Seq(SoundItems(Shared(j), j.cur, j.prev)),
           j.pc # "compare" => j.todo = <<>> /\ j.items = <<>>
    PROVE  JobSound(j)
  BY DEF JobSound

LEMMA GroupedTyped == \A d : Grouped(d) \in Groups
  BY DEF Grouped, Groups, ChunksOf

LEMMA GroupedRead == \A d : Grouped(d) \subseteq SectionNames \X ChunksOf(d)
  BY DEF Grouped

LEMMA StartSound ==
    ASSUME NEW cur \in DiffDocuments, NEW prev \in DiffDocuments, StartDiff(cur, prev)
    PROVE  JobSound(job')
<1> DEFINE j == [NoComparison EXCEPT !.pc = "current", !.cur = cur, !.prev = prev]
<1>1. j \in JobRecord
  BY EmptySeqs DEF NoComparison, JobRecord, Groups
<1>2. /\ j.pc = "current" /\ j.cur = cur /\ j.prev = prev
      /\ j.current = {} /\ j.previous = {} /\ j.todo = <<>> /\ j.items = <<>>
  BY DEF NoComparison
<1>3. job' = j
  BY DEF StartDiff
<1> HIDE DEF j
<1>4. Read(j)
  BY <1>2 DEF Read
<1>5. JobSound(j)
  BY <1>1, <1>2, <1>4, EmptySeqs, JobMade
<1> QED
  BY <1>3, <1>5

LEMMA ReadCurrentSound ==
    ASSUME JobSound(job), ReadCurrent
    PROVE  JobSound(job')
<1> DEFINE j == [job EXCEPT !.pc = "previous", !.current = Grouped(job.cur)]
<1>0. job \in JobRecord
  BY DEF JobSound
<1>1. j \in JobRecord
  BY <1>0, GroupedTyped DEF JobRecord
<1>2. /\ j.pc = "previous" /\ j.cur = job.cur /\ j.prev = job.prev
      /\ j.current = Grouped(job.cur) /\ j.previous = job.previous
      /\ j.todo = job.todo /\ j.items = job.items
  BY <1>0 DEF JobRecord
<1>3. job' = j /\ job.pc = "current"
  BY DEF ReadCurrent
<1> HIDE DEF j
<1>4. Read(job) /\ job.todo = <<>> /\ job.items = <<>>
  BY <1>3 DEF JobSound
<1>5. Read(j)
  BY <1>2, <1>4, GroupedRead DEF Read
<1>6. JobSound(j)
  BY <1>1, <1>2, <1>4, <1>5, EmptySeqs, JobMade
<1> QED
  BY <1>3, <1>6

LEMMA ReadPreviousSound ==
    ASSUME JobSound(job), ReadPrevious
    PROVE  JobSound(job')
<1> DEFINE read == [job EXCEPT !.previous = Grouped(job.prev)]
           C == Shared(read)
           j == [read EXCEPT !.pc = "compare", !.todo = Sorted(C)]
<1>0. job \in JobRecord
  BY DEF JobSound
<1>1. /\ read \in JobRecord
      /\ read.pc = job.pc /\ read.cur = job.cur /\ read.prev = job.prev
      /\ read.current = job.current /\ read.previous = Grouped(job.prev)
      /\ read.todo = job.todo /\ read.items = job.items
  BY <1>0, GroupedTyped DEF JobRecord
<1>2. job' = j /\ job.pc = "previous"
  BY DEF ReadPrevious
<1> HIDE DEF read, C
<1>4. Read(job) /\ job.items = <<>>
  BY <1>2 DEF JobSound
<1>5. Read(read)
  BY <1>1, <1>4, GroupedRead DEF Read
<1>6. C \subseteq SectionNames /\ Sorted(C) \in Seq(C)
  BY <1>5, SharedSections, SortedLists DEF C
<1>7. Sorted(C) \in Seq(SectionNames)
  BY <1>6, WiderSeq
<1>3. /\ j \in JobRecord
      /\ j.pc = "compare" /\ j.cur = job.cur /\ j.prev = job.prev
      /\ j.current = job.current /\ j.previous = Grouped(job.prev)
      /\ j.todo = Sorted(C) /\ j.items = job.items
  BY <1>1, <1>7 DEF JobRecord
<1> HIDE DEF j
<1>9. Read(j)
  BY <1>3, <1>4, GroupedRead DEF Read
<1>10. Shared(j) = C
  BY <1>1, <1>3 DEF C, Shared
<1>8. JobSound(j)
  BY <1>3, <1>4, <1>6, <1>9, <1>10, EmptySeqs, JobMade
<1> QED
  BY <1>2, <1>8

LEMMA CompareSound ==
    ASSUME JobSound(job), CompareSection
    PROVE  JobSound(job')
<1>1. PICK answer \in Answers :
          job' = [job EXCEPT !.todo = Tail(@),
                             !.items = @ \o Items(Head(job.todo), answer, job.cur, job.prev)]
  BY DEF CompareSection
<1> DEFINE made == Items(Head(job.todo), answer, job.cur, job.prev)
           s == Head(job.todo)
           C == Shared(job)
           T == SoundItems(C, job.cur, job.prev)
           j == [job EXCEPT !.todo = Tail(@), !.items = @ \o made]
<1>2. job' = j
  BY <1>1
<1>3. job.pc = "compare" /\ job.todo # <<>>
  BY DEF CompareSection
<1>4. Read(job) /\ job.todo \in Seq(C) /\ job.items \in Seq(T)
  BY <1>3 DEF JobSound
<1>5. C \subseteq SectionNames
  BY <1>4, SharedSections
<1>6. s \in C /\ Tail(job.todo) \in Seq(C)
  <2> HIDE DEF C
  <2> QED
    BY <1>3, <1>4
<1>7. made \in Seq(SoundItems({s}, job.cur, job.prev))
  <2>1. s \in SectionNames /\ job.cur \in DiffDocuments /\ job.prev \in DiffDocuments
    BY <1>4, <1>5, <1>6 DEF Read
  <2> QED
    BY <2>1, ItemsSound
<1>8. SoundItems({s}, job.cur, job.prev) \subseteq T
  BY <1>5, <1>6, ManySections
<1>9. made \in Seq(T)
  <2> HIDE DEF made, T, s
  <2> QED
    BY <1>7, <1>8, WiderSeq
<1>10. job.items \o made \in Seq(T)
  <2> HIDE DEF made, T
  <2> QED
    BY <1>4, <1>9
<1>a. job.items \o made \in Seq(ItemSet)
  <2>1. T \subseteq ItemSet
    BY DEF SoundItems
  <2> HIDE DEF T, made
  <2> QED
    BY <1>10, <2>1, WiderSeq
<1> HIDE DEF made, s, C
<1>b. Tail(job.todo) \in Seq(SectionNames)
  BY <1>5, <1>6, WiderSeq
<1>c. job \in JobRecord
  BY DEF JobSound
<1>11. /\ j \in JobRecord
       /\ j.pc = job.pc /\ j.cur = job.cur /\ j.prev = job.prev
       /\ j.current = job.current /\ j.previous = job.previous
       /\ j.todo = Tail(job.todo) /\ j.items = job.items \o made
  BY <1>a, <1>b, <1>c DEF JobRecord
<1> HIDE DEF j
<1>12. Read(j) /\ Shared(j) = C
  BY <1>4, <1>11 DEF Read, C, Shared
<1>13. JobSound(j)
  BY <1>3, <1>6, <1>10, <1>11, <1>12, JobMade
<1> QED
  BY <1>2, <1>13

LEMMA FailsSound ==
    ASSUME JobSound(job), SectionFails
    PROVE  JobSound(job')
<1> DEFINE C == Shared(job)
           j == [job EXCEPT !.todo = Tail(@)]
<1>1. job' = j /\ job.pc = "compare" /\ job.todo # <<>>
  BY DEF SectionFails
<1>2. Read(job) /\ job.todo \in Seq(C)
      /\ job.items \in Seq(SoundItems(C, job.cur, job.prev))
  BY <1>1 DEF JobSound
<1>3. Tail(job.todo) \in Seq(C)
  <2> HIDE DEF C
  <2> QED
    BY <1>1, <1>2
<1>a. C \subseteq SectionNames
  BY <1>2, SharedSections
<1> HIDE DEF C
<1>b. Tail(job.todo) \in Seq(SectionNames)
  BY <1>3, <1>a, WiderSeq
<1>c. job \in JobRecord
  BY DEF JobSound
<1>4. /\ j \in JobRecord
      /\ j.pc = job.pc /\ j.cur = job.cur /\ j.prev = job.prev
      /\ j.current = job.current /\ j.previous = job.previous
      /\ j.todo = Tail(job.todo) /\ j.items = job.items
  BY <1>b, <1>c DEF JobRecord
<1> HIDE DEF j
<1>5. Read(j) /\ Shared(j) = C
  BY <1>2, <1>4 DEF Read, C, Shared
<1>6. JobSound(j)
  BY <1>1, <1>2, <1>3, <1>4, <1>5, JobMade
<1> QED
  BY <1>1, <1>6

(* A comparison ends, with its report in the store or without. *)
LEMMA EndSound ==
    ASSUME SInv, job' = NoComparison, UNCHANGED <<section, changes>>,
           faults' \in Nat, response' \in Replies,
           \/ comparisons' = comparisons
           \/ job.pc = "compare" /\ comparisons' = Append(comparisons, Comparison(job))
    PROVE  SInv'
<1>1. JobSound(job')
  BY IdleSound
<1>2. comparisons' \in Seq(SoundReports)
  <2>1. CASE comparisons' = comparisons
    BY <2>1 DEF SInv
  <2>2. CASE job.pc = "compare" /\ comparisons' = Append(comparisons, Comparison(job))
    <3> DEFINE r == Comparison(job)
    <3>1. r \in SoundReports
      BY <2>2, ReportSound DEF SInv, JobSound
    <3>2. comparisons' = Append(comparisons, r) /\ comparisons \in Seq(SoundReports)
      BY <2>2 DEF SInv
    <3> HIDE DEF r
    <3> QED
      BY <3>1, <3>2
  <2> QED
    BY <2>1, <2>2
<1> QED
  BY <1>1, <1>2 DEF SInv

LEMMA SaveSound ==
    ASSUME SInv, SaveDiff \/ RefuseReport \/ DatabaseRaises
    PROVE  SInv'
<1>1. job' = NoComparison /\ UNCHANGED <<section, changes>> /\ faults' \in Nat /\ response' \in Replies
  BY DEF SaveDiff, RefuseReport, DatabaseRaises, SInv, Replies
<1>2. \/ comparisons' = comparisons
      \/ job.pc = "compare" /\ comparisons' = Append(comparisons, Comparison(job))
  BY DEF SaveDiff, RefuseReport, DatabaseRaises, Ready
<1> QED
  BY <1>1, <1>2, EndSound

LEMMA InitSound == DiffInit => SInv
<1> SUFFICES ASSUME DiffInit PROVE SInv
  OBVIOUS
<1>1. section \in [Chunks -> Labels]
  BY DiffAssumption DEF DiffInit, Labels, SectionNames
<1>2. /\ job = NoComparison /\ comparisons = <<>> /\ changes = 0
      /\ faults \in Nat /\ response \in Replies
  BY DEF DiffInit, Replies
<1> QED
  BY <1>1, <1>2, IdleSound, EmptySeqs DEF SInv

(* Only a comparison under way, the sections and the store matter. *)
LEMMA SoundStays ==
    ASSUME SInv, UNCHANGED <<section, changes, comparisons, faults>>, response' \in Replies,
           JobSound(job')
    PROVE  SInv'
  BY DEF SInv

LEMMA NextKeepsSound == SInv /\ [DiffNext]_diffVars => SInv'
<1> SUFFICES ASSUME SInv, [DiffNext]_diffVars PROVE SInv'
  OBVIOUS
<1>1. JobSound(job) /\ response \in Replies /\ "none" \in Replies
  BY DEF SInv, Replies
<1>2. ASSUME NEW cur \in DiffDocuments, NEW prev \in DiffDocuments, StartDiff(cur, prev)
      PROVE  SInv'
  BY <1>1, <1>2, StartSound, SoundStays DEF StartDiff
<1>3. CASE ReadCurrent
  BY <1>1, <1>3, ReadCurrentSound, SoundStays DEF ReadCurrent
<1>4. CASE ReadPrevious
  <2>1. UNCHANGED <<section, changes, comparisons, faults, response>>
    BY <1>4 DEF ReadPrevious
  <2> QED
    BY <1>1, <1>4, <2>1, ReadPreviousSound, SoundStays
<1>5. CASE CompareSection
  BY <1>1, <1>5, CompareSound, SoundStays DEF CompareSection
<1>6. CASE SectionFails
  BY <1>1, <1>6, FailsSound, SoundStays DEF SectionFails
<1>7. CASE SaveDiff \/ RefuseReport \/ DatabaseRaises
  BY <1>7, SaveSound
<1>8. CASE Ingest
  BY <1>1, <1>8, SoundStays DEF Ingest
<1>9. ASSUME NEW c \in Chunks, NEW s \in Labels, Reclassify(c, s)
      PROVE  SInv'
  <2>1. section' = [section EXCEPT ![c] = s] /\ changes' = changes + 1
        /\ UNCHANGED <<job, comparisons, faults, response>>
    BY <1>9 DEF Reclassify
  <2> QED
    BY <1>9, <2>1 DEF SInv
<1>10. CASE UNCHANGED diffVars
  BY <1>10 DEF diffVars, SInv
<1> QED
  BY <1>2, <1>3, <1>4, <1>5, <1>6, <1>7, <1>8, <1>9, <1>10 DEF DiffNext, Handle

LEMMA SpecSound == DiffSpec => []SInv
  BY InitSound, NextKeepsSound, PTL DEF DiffSpec

LEMMA ReportsRead ==
    ASSUME SInv, NEW k \in DOMAIN comparisons
    PROVE  comparisons[k] \in SoundReports
  BY DEF SInv

(* The comparison in progress and the stored ones have the fields and the   *)
(* values the program reads from them.                                      *)
THEOREM ComparisonsTyped == DiffSpec => []DiffTypeOK
<1>1. SInv => DiffTypeOK
  <2> SUFFICES ASSUME SInv PROVE DiffTypeOK
    OBVIOUS
  <2>1. SoundReports \subseteq ReportRecord
    BY DEF SoundReports
  <2>2. comparisons \in Seq(ReportRecord)
    BY <2>1, WiderSeq DEF SInv
  <2>3. job \in JobRecord
    BY DEF SInv, JobSound
  <2> QED
    BY <2>2, <2>3 DEF SInv, DiffTypeOK, ReportRecord, JobRecord
<1> QED
  BY <1>1, SpecSound, PTL

(* A stored comparison is sound: its parts have their types; its items cite *)
(* one of its two documents by what the model gave for a page, a number or  *)
(* the text a null becomes; and every section that one document has and the *)
(* other has not is marked exactly once at a page of the one, however       *)
(* ingestion, reclassification and errors of the database interleave.       *)
THEOREM ComparisonsSound == DiffSpec => []DiffsSound
<1>1. SInv => ItemsCite
  <2> SUFFICES ASSUME SInv, NEW k \in DOMAIN comparisons, NEW n \in DOMAIN comparisons[k].items
               PROVE  Cites(comparisons[k].items[n], comparisons[k].current, comparisons[k].previous)
    BY DEF ItemsCite, ItemsOf, Cites
  <2> DEFINE r == comparisons[k]
             T == SoundItems(SectionNames, r.current, r.previous)
  <2>1. r.items \in Seq(T)
    BY ReportsRead DEF SoundReports
  <2>2. \A i \in T : Cites(i, r.current, r.previous)
    BY DEF SoundItems
  <2> HIDE DEF T, r
  <2>3. \A m \in DOMAIN r.items : r.items[m] \in T
    BY <2>1
  <2>4. \A m \in DOMAIN r.items : Cites(r.items[m], r.current, r.previous)
    BY <2>2, <2>3
  <2> QED
    BY <2>4 DEF r
<1>2. SInv => SectionsAccountedFor
  <2> SUFFICES ASSUME SInv, NEW k \in DOMAIN comparisons PROVE Accounted(comparisons[k])
    BY DEF SectionsAccountedFor, Accounted
  <2> QED
    BY ReportsRead DEF SoundReports
<1> QED
  BY <1>1, <1>2, SpecSound, ComparisonsTyped, PTL DEF DiffsSound
=============================================================================
