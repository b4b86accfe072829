------------------------------ MODULE TrendProofs ------------------------------
(***************************************************************************)
(* Proofs about Trend and the dashboards it rests on, for any documents,   *)
(* periods, claims and bounds.                                             *)
(***************************************************************************)
EXTENDS Trend, SequenceTheorems, FiniteSetTheorems, WellFoundedInduction, TLAPS

-----------------------------------------------------------------------------
(* Lists in order. *)

TotalOrder(S, R) ==
    /\ \A k \in S : <<k, k>> \in R
    /\ \A k, l \in S : <<k, l>> \in R \/ <<l, k>> \in R
    /\ \A k, l \in S : <<k, l>> \in R /\ <<l, k>> \in R => k = l
    /\ \A j, k, l \in S : <<j, k>> \in R /\ <<k, l>> \in R => <<j, l>> \in R

(* a lists S once each, in the order R. *)
Lists(a, S, R) ==
    /\ a \in Seq(S)
    /\ Len(a) = Cardinality(S)
    /\ \A k \in S : \E n \in DOMAIN a : a[n] = k
    /\ \A m, n \in DOMAIN a : m <= n => <<a[m], a[n]>> \in R
    /\ \A m, n \in DOMAIN a : a[m] = a[n] => m = n

(* The number of members up to a member is its place: a later member has    *)
(* more of them, so every place from the first to the last is taken.        *)
LEMMA ListedInOrder ==
    ASSUME NEW S, IsFiniteSet(S), NEW R, TotalOrder(S, R)
    PROVE  Lists(ListedBy(S, R), S, R)
<1> DEFINE Upto(k) == {j \in S : <<j, k>> \in R}
           N == Cardinality(S)
           rank == [k \in S |-> Cardinality(Upto(k))]
<1>1. N \in Nat
  BY FS_CardinalityType
<1>2. ASSUME NEW k \in S
      PROVE  rank[k] \in 1 .. N /\ IsFiniteSet(Upto(k)) /\ rank[k] = Cardinality(Upto(k))
  <2>1. k \in Upto(k) /\ Upto(k) \in SUBSET S
    BY DEF TotalOrder
  <2>2. rank[k] = Cardinality(Upto(k))
    OBVIOUS
  <2> HIDE DEF Upto, rank, N
  <2>3. IsFiniteSet(Upto(k)) /\ Cardinality(Upto(k)) <= N /\ Cardinality(Upto(k)) \in Nat
    BY <2>1, FS_Subset, FS_CardinalityType DEF N
  <2>4. Cardinality(Upto(k)) # 0
    BY <2>1, <2>3, FS_EmptySet
  <2> QED
    BY <1>1, <2>2, <2>3, <2>4
<1>3. ASSUME NEW k \in S, NEW l \in S, <<k, l>> \in R, k # l
      PROVE  rank[k] < rank[l]
  <2>1. Upto(k) \in SUBSET Upto(l) /\ l \notin Upto(k) /\ l \in Upto(l)
    BY <1>3 DEF TotalOrder
  <2>2. /\ IsFiniteSet(Upto(l)) /\ rank[k] = Cardinality(Upto(k))
        /\ rank[l] = Cardinality(Upto(l)) /\ rank[k] \in Nat /\ rank[l] \in Nat
    BY <1>2
  <2> DEFINE A == Upto(k)
             B == Upto(l)
  <2>3. A \in SUBSET B /\ A # B /\ IsFiniteSet(B)
    BY <2>1, <2>2
  <2>4. rank[k] = Cardinality(A) /\ rank[l] = Cardinality(B)
    BY <2>2
  <2> HIDE DEF A, B
  <2>5. Cardinality(A) <= Cardinality(B) /\ Cardinality(A) # Cardinality(B)
    BY <2>3, FS_Subset
  <2> HIDE DEF Upto, rank
  <2> QED
    BY <2>2, <2>4, <2>5
<1>4. \A k, l \in S : rank[k] = rank[l] => k = l
  <2> SUFFICES ASSUME NEW k \in S, NEW l \in S, k # l PROVE rank[k] # rank[l]
    OBVIOUS
  <2>1. <<k, l>> \in R \/ <<l, k>> \in R
    BY DEF TotalOrder
  <2>2. rank[k] \in Nat /\ rank[l] \in Nat
    BY <1>2
  <2>3. rank[k] < rank[l] \/ rank[l] < rank[k]
    BY <1>3, <2>1
  <2> HIDE DEF rank
  <2> QED
    BY <2>2, <2>3
<1>5. rank \in Injection(S, 1 .. N)
  <2> HIDE DEF N
  <2>1. rank \in [S -> 1 .. N]
    BY <1>2
  <2> HIDE DEF rank
  <2> QED
    BY <1>4, <2>1 DEF Injection, IsInjective
<1>6. IsFiniteSet(1 .. N) /\ Cardinality(1 .. N) = N
  BY <1>1, FS_Interval
<1>7. rank \in Surjection(S, 1 .. N)
  <2> HIDE DEF rank
  <2> QED
    BY <1>5, <1>6, FS_Injection
<1>8. \A n \in 1 .. N : \E k \in S : rank[k] = n
  BY <1>7 DEF Surjection
<1> DEFINE e(n) == CHOOSE k \in S : Cardinality(Upto(k)) = n
           a == ListedBy(S, R)
<1>9. a = [n \in 1 .. N |-> e(n)]
  BY DEF ListedBy
<1>10. ASSUME NEW n \in 1 .. N
       PROVE  e(n) \in S /\ rank[e(n)] = n
  <2>1. \E k \in S : Cardinality(Upto(k)) = n
    BY <1>2, <1>8
  <2> HIDE DEF Upto, rank
  <2>2. e(n) \in S /\ Cardinality(Upto(e(n))) = n
    BY <2>1
  <2> HIDE DEF e
  <2> QED
    BY <1>2, <2>2
<1> HIDE DEF a, e, rank, N
<1>11. /\ DOMAIN a = 1 .. N
       /\ \A n \in 1 .. N : a[n] \in S /\ rank[a[n]] = n
       /\ a \in Seq(S) /\ Len(a) = N
  <2>1. a \in [1 .. N -> S]
    BY <1>9, <1>10
  <2> QED
    BY <1>1, <1>9, <1>10, <2>1
<1>12. \A k \in S : \E n \in 1 .. N : a[n] = k
  <2> TAKE k \in S
  <2>1. rank[k] \in 1 .. N
    BY <1>2
  <2>2. a[rank[k]] \in S /\ rank[a[rank[k]]] = rank[k]
    BY <1>11, <2>1
  <2> QED
    BY <1>4, <2>1, <2>2
<1>13. \A m, n \in 1 .. N : m <= n => <<a[m], a[n]>> \in R
  <2> TAKE m, n \in 1 .. N
  <2> HAVE m <= n
  <2>1. a[m] \in S /\ a[n] \in S /\ rank[a[m]] = m /\ rank[a[n]] = n
    BY <1>11
  <2>2. <<a[n], a[m]>> \in R /\ a[n] # a[m] => n < m
    BY <1>3, <2>1
  <2>3. ~(n < m)
    BY <1>1
  <2> QED
    BY <2>1, <2>2, <2>3 DEF TotalOrder
<1>14. \A m, n \in 1 .. N : a[m] = a[n] => m = n
  BY <1>11
<1> QED
  BY <1>11, <1>12, <1>13, <1>14 DEF Lists, a, N

(* The order of numbers. *)
LEMMA NumbersOrdered ==
    ASSUME NEW I, I \subseteq Nat
    PROVE  TotalOrder(I, {p \in I \X I : p[1] <= p[2]})
<1> DEFINE R == {p \in I \X I : p[1] <= p[2]}
<1>1. \A k, l \in I : <<k, l>> \in R <=> k <= l
  OBVIOUS
<1> HIDE DEF R
<1> QED
  BY <1>1 DEF TotalOrder, R

(* a has the elements of s at the places I, by way of the places q. *)
Selects(a, s, I, q) ==
    /\ q \in [1 .. Len(a) -> I]
    /\ \A n \in 1 .. Len(a) : a[n] = s[q[n]]
    /\ \A k \in I : \E n \in 1 .. Len(a) : q[n] = k
    /\ \A m, n \in 1 .. Len(a) : m <= n => q[m] <= q[n]

LEMMA AmongSelects ==
    ASSUME NEW T, NEW s \in Seq(T), NEW I, I \subseteq DOMAIN s
    PROVE  /\ Among(s, I) \in Seq(T)
           /\ Len(Among(s, I)) = Cardinality(I)
           /\ \E q : Selects(Among(s, I), s, I, q)
<1> DEFINE R == {p \in I \X I : p[1] <= p[2]}
           places == ListedBy(I, R)
           a == Among(s, I)
<1>1. DOMAIN s = 1 .. Len(s) /\ Len(s) \in Nat
  OBVIOUS
<1>2. I \subseteq Nat /\ IsFiniteSet(I)
  <2>1. IsFiniteSet(1 .. Len(s)) /\ I \in SUBSET (1 .. Len(s))
    BY <1>1, FS_Interval
  <2> QED
    BY <1>1, <2>1, FS_Subset
<1>3. TotalOrder(I, R)
  BY <1>2, NumbersOrdered
<1>4. Lists(places, I, R)
  <2> HIDE DEF R
  <2> QED
    BY <1>2, <1>3, ListedInOrder
<1>5. a = [n \in DOMAIN places |-> s[places[n]]]
  BY DEF Among
<1>6. \A k, l : <<k, l>> \in R => k <= l
  OBVIOUS
<1> HIDE DEF R, places, a
<1>7. /\ places \in [1 .. Len(places) -> I] /\ DOMAIN places = 1 .. Len(places)
      /\ Len(places) \in Nat /\ Len(places) = Cardinality(I)
  BY <1>4 DEF Lists
<1>8. \A n \in 1 .. Len(places) : s[places[n]] \in T
  BY <1>1, <1>7
<1>9. a \in [1 .. Len(places) -> T]
  BY <1>5, <1>7, <1>8
<1>10. a \in Seq(T) /\ Len(a) = Len(places)
  BY <1>7, <1>9
<1>11. Selects(a, s, I, places)
  BY <1>4, <1>5, <1>6, <1>7, <1>10 DEF Selects, Lists
<1> QED
  BY <1>7, <1>10, <1>11 DEF a
-----------------------------------------------------------------------------
(* The claim a metric shows. *)

(* The first n claims that are about a metric. *)
Rivals(claims, metric, n) == {k \in DOMAIN claims : k <= n /\ About(claims[k], metric)}

(* No rival is of higher priority, and none of the same comes later. *)
Best(claims, R, k) ==
    /\ k \in R
    /\ \A l \in R : \/ Priority(claims[l]) < Priority(claims[k])
                    \/ Priority(claims[l]) = Priority(claims[k]) /\ l <= k

Shows(v, claims, R) ==
    \/ R = {} /\ v = <<>>
    \/ \E k \in R : Best(claims, R, k) /\ v = <<claims[k]>>

(* What is shown when one claim more is looked at. *)
After(v, c, metric) ==
    IF \/ ~About(c, metric)
       \/ v # <<>> /\ Priority(v[1]) > Priority(c)
    THEN v ELSE <<c>>

LEMMA PriorityIsNumber == \A c : Priority(c) \in Nat
BY DEF Priority

LEMMA ShowsOne ==
    ASSUME NEW claims, NEW R, R \subseteq Nat, NEW v, NEW w, Shows(v, claims, R), Shows(w, claims, R)
    PROVE  v = w
<1>1. CASE R = {}
  BY <1>1 DEF Shows
<1>2. CASE R # {}
  <2>1. PICK k \in R : Best(claims, R, k) /\ v = <<claims[k]>>
    BY <1>2 DEF Shows
  <2>2. PICK l \in R : Best(claims, R, l) /\ w = <<claims[l]>>
    BY <1>2 DEF Shows
  <2>3. /\ Priority(claims[l]) < Priority(claims[k])
           \/ (Priority(claims[l]) = Priority(claims[k]) /\ l <= k)
        /\ Priority(claims[k]) < Priority(claims[l])
           \/ (Priority(claims[k]) = Priority(claims[l]) /\ k <= l)
    BY <2>1, <2>2 DEF Best
  <2>4. Priority(claims[k]) \in Nat /\ Priority(claims[l]) \in Nat /\ k \in Nat /\ l \in Nat
    BY PriorityIsNumber
  <2>5. k = l
    BY <2>3, <2>4
  <2> QED
    BY <2>1, <2>2, <2>5
<1> QED
  BY <1>1, <1>2

LEMMA ShowsNext ==
    ASSUME NEW claims \in Seq(MetricClaim), NEW metric, NEW n \in DOMAIN claims, NEW v,
           Shows(v, claims, Rivals(claims, metric, n - 1))
    PROVE  Shows(After(v, claims[n], metric), claims, Rivals(claims, metric, n))
<1> DEFINE R == Rivals(claims, metric, n - 1)
           S == Rivals(claims, metric, n)
<1>1. n \in Nat /\ \A k \in DOMAIN claims : k \in Nat /\ (k <= n <=> k <= n - 1 \/ k = n)
  OBVIOUS
<1>2. /\ R \subseteq Nat /\ S \subseteq Nat /\ R \subseteq S
      /\ \A k \in S : k \in R \/ k = n
      /\ \A k \in R : k < n
      /\ n \in S <=> About(claims[n], metric)
  BY <1>1 DEF Rivals
<1>3. Shows(v, claims, R)
  OBVIOUS
<1> HIDE DEF R, S
<1>4. CASE ~About(claims[n], metric)
  <2>1. S = R /\ After(v, claims[n], metric) = v
    BY <1>1, <1>2, <1>4 DEF After
  <2> QED
    BY <1>3, <2>1 DEF S
<1>5. CASE About(claims[n], metric) /\ R = {}
  <2>1. v = <<>> /\ After(v, claims[n], metric) = <<claims[n]>>
    BY <1>3, <1>5 DEF Shows, After
  <2>2. S = {n}
    BY <1>2, <1>5
  <2>3. Best(claims, S, n)
    BY <1>1, <2>2 DEF Best
  <2> QED
    BY <2>1, <2>2, <2>3 DEF Shows, S
<1>6. CASE About(claims[n], metric) /\ R # {}
  <2>1. PICK k \in R : Best(claims, R, k) /\ v = <<claims[k]>>
    BY <1>3, <1>6 DEF Shows
  <2>2. v # <<>> /\ v[1] = claims[k]
    BY <2>1
  <2>3. \A l : Priority(claims[l]) \in Nat
    BY PriorityIsNumber
  <2>4. n \in S /\ k \in S
    BY <1>2, <1>6
  <2>5. CASE Priority(claims[k]) > Priority(claims[n])
    <3>1. After(v, claims[n], metric) = v
      BY <2>2, <2>5 DEF After
    <3>2. Best(claims, S, k)
      BY <1>2, <2>1, <2>3, <2>4, <2>5 DEF Best
    <3> QED
      BY <2>1, <2>4, <3>1, <3>2 DEF Shows, S
  <2>6. CASE ~(Priority(claims[k]) > Priority(claims[n]))
    <3>1. After(v, claims[n], metric) = <<claims[n]>>
      BY <1>6, <2>2, <2>6 DEF After
    <3>2. ASSUME NEW l \in S
          PROVE  \/ Priority(claims[l]) < Priority(claims[n])
                 \/ Priority(claims[l]) = Priority(claims[n]) /\ l <= n
      <4>1. CASE l = n
        BY <1>1, <4>1
      <4>2. CASE l \in R
        <5>1. Priority(claims[l]) < Priority(claims[k]) \/ Priority(claims[l]) = Priority(claims[k])
          BY <2>1, <4>2 DEF Best
        <5>2. l < n
          BY <1>2, <4>2
        <5>3. /\ Priority(claims[l]) \in Nat /\ Priority(claims[k]) \in Nat
              /\ Priority(claims[n]) \in Nat /\ l \in Nat /\ n \in Nat
          BY <1>1, <1>2, <2>3
        <5> QED
          BY <2>6, <5>1, <5>2, <5>3
      <4> QED
        BY <1>2, <4>1, <4>2
    <3>3. Best(claims, S, n)
      BY <2>4, <3>2 DEF Best
    <3> QED
      BY <2>4, <3>1, <3>3 DEF Shows, S
  <2> QED
    BY <2>5, <2>6
<1> QED
  BY <1>4, <1>5, <1>6

(* A set of numbers that is not empty has a least one. *)
LEMMA LeastNumber ==
    ASSUME NEW T \in SUBSET Nat, T # {}
    PROVE  \E x \in T : \A y \in T : ~(y < x)
<1>1. PICK x \in T : \A y \in T : ~(<<y, x>> \in OpToRel(<, Nat))
  BY NatLessThanWellFounded, WFMin
<1>2. \A y \in T : y < x => <<y, x>> \in OpToRel(<, Nat)
  BY DEF OpToRel
<1> QED
  BY <1>1, <1>2

(* The loop over the claims ends with the best of them: were there a first  *)
(* claim after which it shows something else, the claim before it and the   *)
(* step in between would contradict that.                                   *)
LEMMA ShownIsBest ==
    ASSUME NEW claims \in Seq(MetricClaim), NEW metric
    PROVE  Shows(ShownClaim(claims, metric), claims, Rivals(claims, metric, Len(claims)))
<1> DEFINE N == Len(claims)
           R(n) == Rivals(claims, metric, n)
<1>1. N \in Nat /\ DOMAIN claims = 1 .. N
  OBVIOUS
<1>2. \A n : R(n) \subseteq Nat
  BY DEF Rivals
<1>3. R(0) = {}
  BY DEF Rivals
<1>4. ASSUME NEW n \in 1 .. N, NEW v, Shows(v, claims, R(n - 1))
      PROVE  Shows(After(v, claims[n], metric), claims, R(n))
  BY <1>1, <1>4, ShowsNext
<1>5. \A n \in 1 .. N : n - 1 \in 0 .. N /\ n - 1 < n
  BY <1>1
<1>6. \A n \in 0 .. N : n \in Nat /\ (n # 0 => n \in 1 .. N)
  BY <1>1
<1> HIDE DEF N, R
<1>7. \A n \in 0 .. N : \E v : Shows(v, claims, R(n))
  <2> DEFINE Bad == {n \in 0 .. N : ~\E v : Shows(v, claims, R(n))}
  <2> SUFFICES ASSUME Bad # {} PROVE FALSE
    OBVIOUS
  <2>1. Bad \in SUBSET Nat
    BY <1>6
  <2>2. PICK n \in Bad : \A m \in Bad : ~(m < n)
    BY <2>1, LeastNumber
  <2>3. n # 0
    <3>1. Shows(<<>>, claims, R(0))
      BY <1>3 DEF Shows
    <3> QED
      BY <3>1
  <2>4. n \in 1 .. N /\ n - 1 \notin Bad /\ n - 1 \in 0 .. N
    BY <1>5, <1>6, <2>2, <2>3
  <2>5. PICK v : Shows(v, claims, R(n - 1))
    BY <2>4
  <2> QED
    BY <1>4, <2>4, <2>5
<1> DEFINE IsLoop(f) == f = [n \in 0 .. N |->
                                IF n = 0 THEN <<>>
                                ELSE IF \/ ~About(claims[n], metric)
                                        \/ f[n - 1] # <<>> /\ Priority(f[n - 1][1]) > Priority(claims[n])
                                     THEN f[n - 1] ELSE <<claims[n]>>]
           Looped(f) == /\ f[0] = <<>>
                        /\ \A n \in 1 .. N : f[n] = After(f[n - 1], claims[n], metric)
           g == [n \in 0 .. N |-> CHOOSE v : Shows(v, claims, R(n))]
           shown == CHOOSE f : IsLoop(f)
<1>8. ASSUME NEW f, f = [n \in 0 .. N |-> f[n]]
      PROVE  IsLoop(f) <=> Looped(f)
  <2>1. ASSUME IsLoop(f)
        PROVE  Looped(f)
    <3>1. 0 \in 0 .. N /\ \A n \in 1 .. N : n \in 0 .. N /\ n # 0
      BY <1>1 DEF N
    <3>2. f[0] = <<>>
      BY <2>1, <3>1
    <3>3. ASSUME NEW n \in 1 .. N
          PROVE  f[n] = After(f[n - 1], claims[n], metric)
      BY <2>1, <3>1 DEF After
    <3> QED
      BY <3>2, <3>3
  <2>2. ASSUME Looped(f)
        PROVE  IsLoop(f)
    <3>1. ASSUME NEW n \in 0 .. N
          PROVE  f[n] = IF n = 0 THEN <<>>
                        ELSE IF \/ ~About(claims[n], metric)
                                \/ f[n - 1] # <<>> /\ Priority(f[n - 1][1]) > Priority(claims[n])
                             THEN f[n - 1] ELSE <<claims[n]>>
      BY <1>6, <2>2 DEF After
    <3> QED
      BY <1>8, <3>1
  <2> QED
    BY <2>1, <2>2
<1>9. IsLoop(g)
  <2>1. \A n \in 0 .. N : Shows(g[n], claims, R(n))
    BY <1>7
  <2>2. g = [n \in 0 .. N |-> g[n]]
    OBVIOUS
  <2>3. 0 \in 0 .. N /\ \A n \in 1 .. N : n \in 0 .. N
    BY <1>1 DEF N
  <2> HIDE DEF g
  <2>4. Looped(g)
    <3>1. g[0] = <<>>
      BY <1>3, <2>1, <2>3 DEF Shows
    <3>2. ASSUME NEW n \in 1 .. N
          PROVE  g[n] = After(g[n - 1], claims[n], metric)
      <4>1. Shows(After(g[n - 1], claims[n], metric), claims, R(n))
        BY <1>4, <1>5, <2>1
      <4>2. Shows(g[n], claims, R(n))
        BY <2>1, <2>3
      <4> QED
        BY <1>2, <4>1, <4>2, ShowsOne
    <3> QED
      BY <3>1, <3>2
  <2> HIDE DEF IsLoop, Looped
  <2> QED
    BY <1>8, <2>2, <2>4
<1>10. IsLoop(shown)
  <2> HIDE DEF IsLoop, g
  <2> QED
    BY <1>9
<1>11. Looped(shown)
  <2>1. shown = [n \in 0 .. N |-> shown[n]]
    <3> HIDE DEF shown
    <3> QED
      BY <1>10
  <2> HIDE DEF IsLoop, Looped, shown
  <2> QED
    BY <1>8, <1>10, <2>1
<1>12. ShownClaim(claims, metric) = shown[N]
  BY DEF ShownClaim, N
<1> HIDE DEF shown
<1>13. \A n \in 0 .. N : Shows(shown[n], claims, R(n))
  <2> DEFINE Bad == {n \in 0 .. N : ~Shows(shown[n], claims, R(n))}
  <2> SUFFICES ASSUME Bad # {} PROVE FALSE
    OBVIOUS
  <2>1. Bad \in SUBSET Nat
    BY <1>6
  <2>2. PICK n \in Bad : \A m \in Bad : ~(m < n)
    BY <2>1, LeastNumber
  <2>3. n # 0
    <3>1. Shows(shown[0], claims, R(0))
      BY <1>3, <1>11 DEF Shows
    <3> QED
      BY <3>1
  <2>4. n \in 1 .. N /\ n - 1 \notin Bad /\ n - 1 \in 0 .. N
    BY <1>5, <1>6, <2>2, <2>3
  <2>5. Shows(shown[n - 1], claims, R(n - 1))
    BY <2>4
  <2>6. Shows(shown[n], claims, R(n))
    BY <1>4, <1>11, <2>4, <2>5
  <2> QED
    BY <2>6
<1>14. N \in 0 .. N
  BY <1>1 DEF N
<1> QED
  BY <1>12, <1>13, <1>14 DEF N, R
-----------------------------------------------------------------------------
(* What an entry of the dashboard says. *)

LEMMA EntrySays ==
    ASSUME NEW c \in MetricClaim
    PROVE  /\ Entry(c).direction = Direction(c) /\ Entry(c).delta = Delta(c)
           /\ Entry(c).evidence = <<c.id>>
           /\ Direction(c) \in Trends
           /\ Delta(c) \in Int \cup {NoDelta}
           /\ Delta(c) # NoDelta /\ Delta(c) < 0 => Direction(c) = "down"
<1>1. Delta(c) \in Int \cup {NoDelta}
  <2>1. c.number \in Int \cup {NoDelta}
    BY DEF MetricClaim
  <2> QED
    BY <2>1 DEF Delta, Magnitude
<1>2. Direction(c) \in Trends
  BY DEF Direction, Trends
<1>3. ASSUME Delta(c) # NoDelta, Delta(c) < 0
      PROVE  Direction(c) = "down"
  <2>1. Delta(c) \in Int /\ ~(Delta(c) > 0)
    BY <1>1, <1>3
  <2> QED
    BY <1>3, <2>1 DEF Direction
<1> QED
  BY <1>1, <1>2, <1>3 DEF Entry

(* The impact stays on the scale, and of two changes in one direction the   *)
(* larger has no lower one: the bounds at which a step up or down is taken  *)
(* only move it upwards.                                                    *)
LEMMA ImpactOnScale ==
    ASSUME NEW metric, NEW delta \in Int \cup {NoDelta}, NEW direction
    PROVE  Impact(metric, delta, direction) \in 0 .. 2
<1>1. BaseImpact(metric) \in 0 .. 2
  BY DEF BaseImpact
<1>2. \A r \in 0 .. 2 : Step(r, TRUE) \in 0 .. 2 /\ Step(r, FALSE) \in 0 .. 2
  BY DEF Step
<1>3. Sized(metric, delta) \in 0 .. 2
  BY <1>1, <1>2 DEF Sized
<1> QED
  BY <1>1, <1>2, <1>3 DEF Impact

LEMMA ImpactRises ==
    ASSUME NEW metric, NEW x \in Int, NEW y \in Int, Magnitude(x) <= Magnitude(y), NEW direction
    PROVE  Impact(metric, x, direction) <= Impact(metric, y, direction)
<1> DEFINE base == BaseImpact(metric)
           mx == Magnitude(x)
           my == Magnitude(y)
           sx == Sized(metric, x)
           sy == Sized(metric, y)
           falls == direction = "down" /\ metric \in {"revenue", "cash"}
<1>1. x # NoDelta /\ y # NoDelta
  BY DashboardAssumption
<1>2. base \in 0 .. 2 /\ mx \in Nat /\ my \in Nat /\ mx <= my
  BY DEF BaseImpact, Magnitude
<1>3. /\ sx = (IF mx >= 15 THEN Step(base, TRUE) ELSE IF mx < 2 THEN Step(base, FALSE) ELSE base)
      /\ sy = (IF my >= 15 THEN Step(base, TRUE) ELSE IF my < 2 THEN Step(base, FALSE) ELSE base)
  BY DEF Sized
<1>4. /\ Impact(metric, x, direction) = IF falls /\ mx >= 10 THEN Step(sx, TRUE) ELSE sx
      /\ Impact(metric, y, direction) = IF falls /\ my >= 10 THEN Step(sy, TRUE) ELSE sy
  BY <1>1 DEF Impact
<1> HIDE DEF base, mx, my, sx, sy, falls
<1>5. \A r, s \in 0 .. 2 : /\ Step(r, TRUE) \in 0 .. 2 /\ Step(r, FALSE) \in 0 .. 2
                           /\ r <= Step(r, TRUE) /\ Step(r, FALSE) <= r
                           /\ r <= s => Step(r, TRUE) <= Step(s, TRUE)
  BY DEF Step
<1>6. sx \in 0 .. 2 /\ sy \in 0 .. 2 /\ sx <= sy
  <2>1. sx \in 0 .. 2 /\ sy \in 0 .. 2
    BY <1>2, <1>3, <1>5
  <2> DEFINE up == Step(base, TRUE)
             down == Step(base, FALSE)
  <2>2. up \in 0 .. 2 /\ down \in 0 .. 2 /\ base <= up /\ down <= base
    BY <1>2, <1>5
  <2>3. /\ sx = (IF mx >= 15 THEN up ELSE IF mx < 2 THEN down ELSE base)
        /\ sy = (IF my >= 15 THEN up ELSE IF my < 2 THEN down ELSE base)
    BY <1>3
  <2> HIDE DEF up, down
  <2>4. sx <= sy
    BY <1>2, <2>2, <2>3
  <2> QED
    BY <2>1, <2>4
<1>7. CASE falls /\ mx >= 10
  <2>1. my >= 10
    BY <1>2, <1>7
  <2> QED
    BY <1>4, <1>5, <1>6, <1>7, <2>1
<1>8. CASE ~(falls /\ mx >= 10)
  <2>1. sy <= Step(sy, TRUE) /\ Step(sy, TRUE) \in 0 .. 2
    BY <1>5, <1>6
  <2> DEFINE up == Step(sy, TRUE)
  <2>2. sx <= up
    <3>1. sy <= up /\ up \in 0 .. 2
      BY <2>1
    <3> HIDE DEF up
    <3> QED
      BY <1>6, <3>1
  <2> QED
    BY <1>4, <1>6, <1>8, <2>2
<1> QED
  BY <1>7, <1>8

-----------------------------------------------------------------------------
(* The dashboard of a list of claims. *)

(* The claims a dashboard is built from are those that are clean. *)
LEMMA CleanAreClean ==
    ASSUME NEW claims \in Seq(MetricClaim)
    PROVE  /\ CleanClaims(claims) \in Seq(MetricClaim)
           /\ \E q : Selects(CleanClaims(claims), claims,
                             {k \in DOMAIN claims : ~claims[k].contaminated}, q)
<1> DEFINE I == {k \in DOMAIN claims : ~claims[k].contaminated}
<1>1. I \subseteq DOMAIN claims
  OBVIOUS
<1>2. CleanClaims(claims) = Among(claims, I)
  BY DEF CleanClaims
<1> HIDE DEF I
<1>3. Among(claims, I) \in Seq(MetricClaim) /\ \E q : Selects(Among(claims, I), claims, I, q)
  BY <1>1, AmongSelects
<1> QED
  BY <1>2, <1>3 DEF I

CleanIds(claims) == {c.id : c \in {c \in ToSet(claims) : ~c.contaminated}}

LEMMA CleanIdsCited ==
    ASSUME NEW claims \in Seq(MetricClaim), NEW k \in DOMAIN CleanClaims(claims)
    PROVE  CleanClaims(claims)[k].id \in CleanIds(claims)
<1> DEFINE clean == CleanClaims(claims)
           I == {l \in DOMAIN claims : ~claims[l].contaminated}
<1>1. PICK q : Selects(clean, claims, I, q)
  BY CleanAreClean
<1>2. DOMAIN clean = 1 .. Len(clean)
  BY CleanAreClean
<1>3. q[k] \in I /\ clean[k] = claims[q[k]]
  BY <1>1, <1>2 DEF Selects
<1> QED
  BY <1>3 DEF CleanIds, ToSet

(* An entry is that of the best claim on its metric. *)
LEMMA EntryOfBest ==
    ASSUME NEW clean \in Seq(MetricClaim), NEW metric \in DOMAIN Entries(clean)
    PROVE  /\ metric \in Metrics
           /\ \E k \in DOMAIN clean :
                  /\ Best(clean, Rivals(clean, metric, Len(clean)), k)
                  /\ Entries(clean)[metric] = Entry(clean[k])
<1> DEFINE R == Rivals(clean, metric, Len(clean))
           v == ShownClaim(clean, metric)
<1>1. metric \in Metrics /\ v # <<>> /\ Entries(clean)[metric] = Entry(v[1])
  BY DEF Entries, Shown
<1>2. Shows(v, clean, R)
  BY ShownIsBest
<1>3. R \subseteq DOMAIN clean
  BY DEF Rivals
<1> HIDE DEF R, v
<1>4. PICK k \in R : Best(clean, R, k) /\ v = <<clean[k]>>
  BY <1>1, <1>2 DEF Shows
<1>5. v[1] = clean[k]
  BY <1>4
<1> QED
  BY <1>1, <1>3, <1>4, <1>5 DEF R

(* What the claims on a metric are cited by. *)
LEMMA CitesMembers ==
    ASSUME NEW clean \in Seq(MetricClaim), NEW I, I \subseteq DOMAIN clean, NEW D,
           \A k \in DOMAIN clean : clean[k].id \in D
    PROVE  LET a == Among(clean, I)
           IN  /\ ToSet(Ids(a)) \subseteq D
               /\ ToSet(Cite(a)) \subseteq D
               /\ a # <<>> => Cite(a) # <<>>
<1> DEFINE a == Among(clean, I)
           N == IF Len(a) > 3 THEN 3 ELSE Len(a)
<1>1. a \in Seq(MetricClaim) /\ \E q : Selects(a, clean, I, q)
  BY AmongSelects
<1>2. Len(a) \in Nat /\ DOMAIN a = 1 .. Len(a)
  BY <1>1
<1>3. \A n \in 1 .. Len(a) : a[n].id \in D
  BY <1>1 DEF Selects
<1>4. Ids(a) = [n \in 1 .. Len(a) |-> a[n].id]
  BY <1>2 DEF Ids
<1>5. Cite(a) = SubSeq(Ids(a), 1, N)
  BY DEF Cite
<1> HIDE DEF a
<1>6. Ids(a) \in Seq(D) /\ Len(Ids(a)) = Len(a)
  BY <1>2, <1>3, <1>4
<1>7. N \in Nat /\ N <= Len(a) /\ (Len(a) # 0 => N # 0)
  BY <1>2
<1> HIDE DEF N
<1>8. Cite(a) \in Seq(D) /\ Len(Cite(a)) = N
  <2>1. SubSeq(Ids(a), 1, N) = [n \in 1 .. N |-> Ids(a)[n]]
    BY <1>6, <1>7
  <2>2. \A n \in 1 .. N : Ids(a)[n] \in D
    BY <1>2, <1>6, <1>7
  <2> QED
    BY <1>5, <1>7, <2>1, <2>2
<1>9. a # <<>> => Len(a) # 0
  BY <1>1, EmptySeq
<1>10. a # <<>> => Cite(a) # <<>>
  BY <1>7, <1>8, <1>9
<1>11. \A s \in Seq(D) : ToSet(s) \subseteq D
  BY DEF ToSet
<1> QED
  BY <1>6, <1>8, <1>10, <1>11 DEF a
(* What is asked of one dashboard: the conjuncts of the invariants, for the *)
(* report at hand.                                                          *)
BestShown(db, claims) ==
    \A metric \in DOMAIN db.metrics :
        LET rivals == {k \in DOMAIN claims : About(claims[k], metric) /\ ~claims[k].contaminated}
        IN  \E k \in rivals :
                /\ db.metrics[metric] = Entry(claims[k])
                /\ \A l \in rivals : \/ Priority(claims[l]) < Priority(claims[k])
                                     \/ Priority(claims[l]) = Priority(claims[k]) /\ l <= k

CitesOnly(db, D) ==
    /\ \A m \in DOMAIN db.metrics : ToSet(db.metrics[m].evidence) \subseteq D
    /\ \A m \in DOMAIN db.what_changed : ToSet(db.what_changed[m].evidence) \subseteq D
    /\ \A e \in db.causal_edges : ToSet(e.evidence) \subseteq D
    /\ \A r \in DOMAIN db.risk_surface : ToSet(db.risk_surface[r].evidence) \subseteq D
    /\ ToSet(db.adjustments) \subseteq D

Justified(db) ==
    /\ \A r \in DOMAIN db.risk_surface :
           db.risk_surface[r].severity = "high" => db.risk_surface[r].evidence # <<>>
    /\ db.risk_surface.margin_pressure.trend = "up" =>
           /\ "gross_margin" \in DOMAIN db.what_changed
           /\ db.what_changed["gross_margin"].direction = "down"
           /\ db.what_changed["gross_margin"].evidence = db.risk_surface.margin_pressure.evidence

(* A change is one of a headline metric, rated from its own numbers. *)
Rated(changes) ==
    /\ DOMAIN changes \subseteq Headlines
    /\ \A m \in DOMAIN changes :
           /\ changes[m].delta \in Int \cup {NoDelta}
           /\ changes[m].impact = Impact(m, changes[m].delta, changes[m].direction)

(* The order of the clean claims is that of all claims: the best of the one *)
(* list is the best of the other.                                           *)
LEMMA BestOfAll ==
    ASSUME NEW claims \in Seq(MetricClaim)
    PROVE  BestShown(Dashboard(claims), claims)
<1> DEFINE clean == CleanClaims(claims)
           I == {k \in DOMAIN claims : ~claims[k].contaminated}
<1>1. clean \in Seq(MetricClaim) /\ \E q : Selects(clean, claims, I, q)
  BY CleanAreClean
<1>2. Dashboard(claims).metrics = Entries(clean)
  BY DEF Dashboard
<1>3. \A k \in DOMAIN claims : k \in Nat
  OBVIOUS
<1>4. \A k : k \in I <=> k \in DOMAIN claims /\ ~claims[k].contaminated
  OBVIOUS
<1> HIDE DEF clean, I
<1>5. PICK q : Selects(clean, claims, I, q)
  BY <1>1
<1>6. DOMAIN clean = 1 .. Len(clean) /\ Len(clean) \in Nat /\ \A n \in DOMAIN clean : n <= Len(clean)
  BY <1>1
<1> SUFFICES ASSUME NEW metric \in DOMAIN Entries(clean)
             PROVE  LET rivals == {k \in DOMAIN claims :
                                      About(claims[k], metric) /\ ~claims[k].contaminated}
                    IN  \E k \in rivals :
                            /\ Entries(clean)[metric] = Entry(claims[k])
                            /\ \A l \in rivals :
                                   \/ Priority(claims[l]) < Priority(claims[k])
                                   \/ Priority(claims[l]) = Priority(claims[k]) /\ l <= k
  BY <1>2 DEF BestShown
<1> DEFINE R == Rivals(clean, metric, Len(clean))
           rivals == {k \in DOMAIN claims : About(claims[k], metric) /\ ~claims[k].contaminated}
<1>7. PICK n \in DOMAIN clean : Best(clean, R, n) /\ Entries(clean)[metric] = Entry(clean[n])
  BY <1>1, EntryOfBest
<1>8. \A m \in DOMAIN clean : m \in R <=> About(clean[m], metric)
  BY <1>6 DEF Rivals
<1> HIDE DEF R
<1>9. \A m \in DOMAIN clean : q[m] \in I /\ clean[m] = claims[q[m]]
  BY <1>5, <1>6 DEF Selects
<1>10. q[n] \in rivals /\ Entries(clean)[metric] = Entry(claims[q[n]])
  BY <1>4, <1>7, <1>8, <1>9 DEF Best
<1>11. ASSUME NEW l \in rivals
       PROVE  \/ Priority(claims[l]) < Priority(claims[q[n]])
              \/ Priority(claims[l]) = Priority(claims[q[n]]) /\ l <= q[n]
  <2>1. l \in I
    BY <1>4
  <2>2. PICK m \in DOMAIN clean : q[m] = l
    BY <1>5, <1>6, <2>1 DEF Selects
  <2>3. m \in R
    BY <1>8, <1>9, <2>2
  <2>4. \/ Priority(clean[m]) < Priority(clean[n])
        \/ Priority(clean[m]) = Priority(clean[n]) /\ m <= n
    BY <1>7, <2>3 DEF Best
  <2>5. m <= n => q[m] <= q[n]
    BY <1>5, <1>6 DEF Selects
  <2> QED
    BY <1>9, <2>2, <2>4, <2>5
<1> QED
  BY <1>10, <1>11

(* Entries and changes: each cites the one claim it is of. *)
LEMMA EntriesCite ==
    ASSUME NEW claims \in Seq(MetricClaim)
    PROVE  LET entries == Entries(CleanClaims(claims))
           IN  \A m \in DOMAIN entries :
                   /\ m \in Metrics
                   /\ \E id \in CleanIds(claims) : entries[m].evidence = <<id>>
                   /\ entries[m].direction \in Trends
                   /\ entries[m].delta \in Int \cup {NoDelta}
                   /\ entries[m].delta # NoDelta /\ entries[m].delta < 0
                          => entries[m].direction = "down"
<1> DEFINE clean == CleanClaims(claims)
           entries == Entries(clean)
<1> SUFFICES ASSUME NEW m \in DOMAIN entries
             PROVE  /\ m \in Metrics
                    /\ \E id \in CleanIds(claims) : entries[m].evidence = <<id>>
                    /\ entries[m].direction \in Trends
                    /\ entries[m].delta \in Int \cup {NoDelta}
                    /\ entries[m].delta # NoDelta /\ entries[m].delta < 0
                           => entries[m].direction = "down"
  OBVIOUS
<1>1. clean \in Seq(MetricClaim)
  BY CleanAreClean
<1>2. m \in Metrics /\ \E k \in DOMAIN clean : entries[m] = Entry(clean[k])
  <2> HIDE DEF clean
  <2> QED
    BY <1>1, EntryOfBest
<1>3. PICK k \in DOMAIN clean : entries[m] = Entry(clean[k])
  BY <1>2
<1>4. clean[k].id \in CleanIds(claims)
  BY CleanIdsCited
<1>5. clean[k] \in MetricClaim
  BY <1>1
<1> HIDE DEF clean, entries
<1> QED
  BY <1>2, <1>3, <1>4, <1>5, EntrySays

LEMMA ChangesRated ==
    ASSUME NEW claims \in Seq(MetricClaim)
    PROVE  LET entries == Entries(CleanClaims(claims))
               changes == Changes(entries)
           IN  /\ Rated(changes)
               /\ \A m \in DOMAIN changes :
                      /\ m \in DOMAIN entries
                      /\ changes[m].direction = entries[m].direction
                      /\ changes[m].delta = entries[m].delta
                      /\ changes[m].evidence = entries[m].evidence
<1> DEFINE entries == Entries(CleanClaims(claims))
           changes == Changes(entries)
<1>1. \A m \in DOMAIN entries : entries[m].delta \in Int \cup {NoDelta}
  BY EntriesCite
<1> HIDE DEF entries
<1>2. /\ DOMAIN changes = Headlines \cap DOMAIN entries
      /\ \A m \in DOMAIN changes : changes[m] = Change(entries[m], m)
  BY DEF Changes
<1> HIDE DEF changes
<1>3. \A m \in DOMAIN changes :
          /\ changes[m].direction = entries[m].direction
          /\ changes[m].delta = entries[m].delta
          /\ changes[m].evidence = entries[m].evidence
          /\ changes[m].impact = Impact(m, entries[m].delta, entries[m].direction)
  BY <1>2 DEF Change
<1> QED
  BY <1>1, <1>2, <1>3 DEF Rated, entries, changes
(* The risks: what each of the four says, and cites. *)
IdsAmong(clean, D) == \A k \in DOMAIN clean : clean[k].id \in D

ChangesCite(changes, D) ==
    \A m \in DOMAIN changes :
        /\ changes[m].delta \in Int \cup {NoDelta}
        /\ \E id \in D : changes[m].evidence = <<id>>

RisksHold(risks, changes, D) ==
    /\ DOMAIN risks = {"customer_concentration", "margin_pressure", "liquidity", "fx_exposure"}
    /\ \A r \in DOMAIN risks :
           /\ risks[r].severity \in Severities
           /\ risks[r].trend \in Trends
           /\ ToSet(risks[r].evidence) \subseteq D
           /\ risks[r].severity = "high" => risks[r].evidence # <<>>
    /\ risks.margin_pressure.trend = "up" =>
           /\ "gross_margin" \in DOMAIN changes
           /\ changes["gross_margin"].delta # NoDelta
           /\ changes["gross_margin"].delta < 0
           /\ risks.margin_pressure.evidence = changes["gross_margin"].evidence

LEMMA RisksSound ==
    ASSUME NEW clean \in Seq(MetricClaim), NEW D, IdsAmong(clean, D), NEW changes,
           ChangesCite(changes, D)
    PROVE  RisksHold(Risks(clean, changes), changes, D)
<1> DEFINE concentration == On(clean, "customer_concentration")
           cash == On(clean, "cash")
           fx == On(clean, "fx")
           drop == MarginDrop(changes)
           cited(metric) == Cite(On(clean, metric))
           margin == IF "gross_margin" \in DOMAIN changes
                     THEN <<changes["gross_margin"].evidence[1]>> ELSE <<>>
           c == IF concentration = <<>> THEN Risk("medium", "flat", <<>>)
                ELSE Risk("high", "up", cited("customer_concentration"))
           p == Risk(MarginSeverity(drop), IF drop > 0 THEN "up" ELSE "flat", margin)
           l == IF cash = <<>> THEN Risk("medium", "up", <<>>)
                ELSE Risk("low", "flat", cited("cash"))
           f == IF fx = <<>> THEN Risk("low", "flat", <<>>)
                ELSE Risk("medium", "up", cited("fx"))
           risks == Risks(clean, changes)
<1>1. \A metric : /\ ToSet(cited(metric)) \subseteq D
                  /\ On(clean, metric) # <<>> => cited(metric) # <<>>
  <2> TAKE metric
  <2> DEFINE I == {k \in DOMAIN clean : About(clean[k], metric)}
  <2>1. I \subseteq DOMAIN clean /\ On(clean, metric) = Among(clean, I)
    BY DEF On
  <2>2. \A k \in DOMAIN clean : clean[k].id \in D
    BY DEF IdsAmong
  <2> HIDE DEF I
  <2> QED
    BY <2>1, <2>2, CitesMembers
<1>2. risks = [customer_concentration |-> c, margin_pressure |-> p, liquidity |-> l,
               fx_exposure |-> f]
  BY DEF Risks
<1>3. ToSet(<<>>) = {} /\ \A id : ToSet(<<id>>) = {id}
  BY DEF ToSet
<1>4. /\ drop \in Int
      /\ drop > 0 => /\ "gross_margin" \in DOMAIN changes
                     /\ changes["gross_margin"].delta # NoDelta
                     /\ changes["gross_margin"].delta < 0
  BY DEF MarginDrop, ChangesCite
<1>5. "gross_margin" \in DOMAIN changes =>
          /\ margin = changes["gross_margin"].evidence
          /\ margin # <<>>
          /\ ToSet(margin) \subseteq D
  BY <1>3 DEF ChangesCite
<1>6. "gross_margin" \notin DOMAIN changes => margin = <<>>
  OBVIOUS
<1> HIDE DEF concentration, cash, fx, drop, cited, margin
<1>7. /\ c.severity \in Severities /\ c.trend \in Trends /\ ToSet(c.evidence) \subseteq D
      /\ c.severity = "high" => c.evidence # <<>>
  BY <1>1, <1>3 DEF Risk, Severities, Trends, concentration
<1>8. /\ p.severity \in Severities /\ p.trend \in Trends /\ ToSet(p.evidence) \subseteq D
      /\ p.severity = "high" => drop >= 10
      /\ p.trend = "up" => drop > 0
      /\ p.evidence = margin
  BY <1>3, <1>5, <1>6 DEF Risk, MarginSeverity, Severities, Trends
<1>9. p.severity = "high" => p.evidence # <<>>
  BY <1>4, <1>5, <1>8
<1>10. /\ l.severity \in Severities /\ l.trend \in Trends /\ ToSet(l.evidence) \subseteq D
       /\ l.severity # "high"
  BY <1>1, <1>3 DEF Risk, Severities, Trends
<1>11. /\ f.severity \in Severities /\ f.trend \in Trends /\ ToSet(f.evidence) \subseteq D
       /\ f.severity # "high"
  BY <1>1, <1>3 DEF Risk, Severities, Trends
<1>12. p.trend = "up" =>
           /\ "gross_margin" \in DOMAIN changes
           /\ changes["gross_margin"].delta # NoDelta
           /\ changes["gross_margin"].delta < 0
           /\ p.evidence = changes["gross_margin"].evidence
  BY <1>4, <1>5, <1>8
<1> HIDE DEF c, p, l, f, risks
<1>13. /\ DOMAIN risks = {"customer_concentration", "margin_pressure", "liquidity", "fx_exposure"}
       /\ risks["customer_concentration"] = c /\ risks["margin_pressure"] = p
       /\ risks["liquidity"] = l /\ risks["fx_exposure"] = f
       /\ risks.margin_pressure = p
  BY <1>2
<1>14. \A r \in DOMAIN risks :
           /\ risks[r].severity \in Severities
           /\ risks[r].trend \in Trends
           /\ ToSet(risks[r].evidence) \subseteq D
           /\ risks[r].severity = "high" => risks[r].evidence # <<>>
  BY <1>7, <1>8, <1>9, <1>10, <1>11, <1>13
<1> QED
  BY <1>12, <1>13, <1>14 DEF risks, RisksHold

(* The dashboard of any list of claims keeps its contract, cites clean      *)
(* claims only and raises no alarm that nothing backs.                      *)
LEMMA DashboardKeeps ==
    ASSUME NEW claims \in Seq(MetricClaim)
    PROVE  /\ CitesOnly(Dashboard(claims), CleanIds(claims))
           /\ Justified(Dashboard(claims))
           /\ Rated(Dashboard(claims).what_changed)
           /\ DOMAIN Dashboard(claims).metrics \subseteq Metrics
           /\ ContractErrors(Dashboard(claims)) = {}
<1> DEFINE clean == CleanClaims(claims)
           D == CleanIds(claims)
           entries == Entries(clean)
           changes == Changes(entries)
           risks == Risks(clean, changes)
           edges == Edges(entries)
           adjusted == Among(clean, {k \in DOMAIN clean : ~clean[k].recurring})
           db == Dashboard(claims)
<1>1. clean \in Seq(MetricClaim) /\ \A k \in DOMAIN clean : clean[k].id \in D
  BY CleanAreClean, CleanIdsCited
<1>2. \A m \in DOMAIN entries :
          /\ m \in Metrics
          /\ \E id \in D : entries[m].evidence = <<id>>
          /\ entries[m].direction \in Trends
          /\ entries[m].delta # NoDelta /\ entries[m].delta < 0 => entries[m].direction = "down"
  BY EntriesCite
<1>3. /\ Rated(changes)
      /\ \A m \in DOMAIN changes :
             /\ m \in DOMAIN entries
             /\ changes[m].direction = entries[m].direction
             /\ changes[m].delta = entries[m].delta
             /\ changes[m].evidence = entries[m].evidence
  BY ChangesRated
<1>4. ToSet(Ids(adjusted)) \subseteq D
  <2> HIDE DEF clean, D
  <2> DEFINE I == {k \in DOMAIN clean : ~clean[k].recurring}
  <2>1. I \subseteq DOMAIN clean
    OBVIOUS
  <2> HIDE DEF I
  <2>2. ToSet(Ids(Among(clean, I))) \subseteq D
    BY <1>1, <2>1, CitesMembers
  <2> QED
    BY <2>2 DEF I
<1>5. /\ db.metrics = entries /\ db.what_changed = changes /\ db.causal_edges = edges
      /\ db.risk_surface = risks /\ db.adjustments = Ids(adjusted)
  BY DEF Dashboard
<1>6. \A id : <<id>> # <<>> /\ ToSet(<<id>>) = {id}
  BY DEF ToSet
<1>7. \A x, y : <<x>> \o <<y>> # <<>> /\ ToSet(<<x>> \o <<y>>) = {x, y}
  BY DEF ToSet
<1> HIDE DEF clean, D, entries, changes, adjusted
<1>8. \A e \in edges : /\ e.relation \in Relations
                       /\ ToSet(e.evidence) \subseteq D
                       /\ e.evidence # <<>>
  <2> TAKE e \in edges
  <2>1. PICK d \in {d \in Drivers : {d[1], d[2]} \subseteq DOMAIN entries} :
            e = [source |-> d[1], target |-> d[2], relation |-> "positive_driver",
                 evidence |-> entries[d[1]].evidence \o entries[d[2]].evidence]
    BY DEF Edges
  <2>2. d[1] \in DOMAIN entries /\ d[2] \in DOMAIN entries
    OBVIOUS
  <2>3. e.relation = "positive_driver"
        /\ e.evidence = entries[d[1]].evidence \o entries[d[2]].evidence
    BY <2>1
  <2>4. PICK x \in D : entries[d[1]].evidence = <<x>>
    BY <1>2, <2>2
  <2>5. PICK y \in D : entries[d[2]].evidence = <<y>>
    BY <1>2, <2>2
  <2> QED
    BY <1>7, <2>3, <2>4, <2>5 DEF Relations
<1>9. IdsAmong(clean, D) /\ ChangesCite(changes, D)
  BY <1>1, <1>2, <1>3 DEF Rated, IdsAmong, ChangesCite
<1>10. RisksHold(risks, changes, D)
  BY <1>1, <1>9, RisksSound
<1> HIDE DEF risks, edges, db
<1>11. \A v : (\E id \in D : v = <<id>>) => v # <<>> /\ ToSet(v) \subseteq D
  <2> TAKE v
  <2> HAVE \E id \in D : v = <<id>>
  <2>1. PICK id \in D : v = <<id>>
    OBVIOUS
  <2>2. ToSet(v) = {id}
    BY <1>6, <2>1
  <2> QED
    BY <2>1, <2>2
<1>12. CitesOnly(db, D)
  <2>1. \A m \in DOMAIN entries : ToSet(entries[m].evidence) \subseteq D
    BY <1>2, <1>11
  <2>2. \A m \in DOMAIN changes : ToSet(changes[m].evidence) \subseteq D
    BY <1>9, <1>11 DEF ChangesCite
  <2> QED
    BY <1>4, <1>5, <1>8, <1>10, <2>1, <2>2 DEF CitesOnly, RisksHold
<1>13. Justified(db)
  BY <1>2, <1>3, <1>5, <1>10 DEF Justified, RisksHold
<1>14. ContractErrors(db) = {}
  <2>1. \A m \in DOMAIN entries : entries[m].direction \in Trends /\ entries[m].evidence # <<>>
    BY <1>2, <1>11
  <2> QED
    BY <1>5, <1>8, <1>10, <2>1 DEF ContractErrors, RisksHold
<1>15. Rated(db.what_changed) /\ DOMAIN db.metrics \subseteq Metrics
  BY <1>2, <1>3, <1>5
<1> QED
  BY <1>12, <1>13, <1>14, <1>15 DEF db, D
-----------------------------------------------------------------------------
(* The order of a trend. *)

Before(ds) ==
    {p \in (DOMAIN ds) \X (DOMAIN ds) :
        \/ Period[ds[p[1]]] < Period[ds[p[2]]]
        \/ Period[ds[p[1]]] = Period[ds[p[2]]] /\ p[1] <= p[2]}

(* A trend as it is stored: documents and periods in parallel and in order. *)
TrendOK(t) ==
    /\ t.documents \in Seq(TrendDocuments)
    /\ t.periods \in Seq(Nat)
    /\ DOMAIN t.series \subseteq Tracked
    /\ \A k \in DOMAIN t.documents : Period[t.documents[k]] = t.periods[k]
    /\ \A k, l \in DOMAIN t.periods : k <= l => t.periods[k] <= t.periods[l]

LEMMA BeforeIsOrder ==
    ASSUME NEW ds \in Seq(TrendDocuments)
    PROVE  TotalOrder(DOMAIN ds, Before(ds))
<1> DEFINE R == Before(ds)
           at(k) == Period[ds[k]]
<1>1. \A k \in DOMAIN ds : k \in Nat /\ at(k) \in Nat
  <2> TAKE k \in DOMAIN ds
  <2>1. ds[k] \in TrendDocuments /\ k \in Nat
    OBVIOUS
  <2> QED
    BY <2>1, TrendAssumption
<1>2. \A k, l \in DOMAIN ds : <<k, l>> \in R <=> at(k) < at(l) \/ (at(k) = at(l) /\ k <= l)
  BY DEF Before
<1> HIDE DEF R, at
<1>3. \A k \in DOMAIN ds : <<k, k>> \in R
  BY <1>1, <1>2
<1>4. \A k, l \in DOMAIN ds : <<k, l>> \in R \/ <<l, k>> \in R
  <2> TAKE k, l \in DOMAIN ds
  <2>1. at(k) \in Nat /\ at(l) \in Nat /\ k \in Nat /\ l \in Nat
    BY <1>1
  <2>2. \/ at(k) < at(l) \/ (at(k) = at(l) /\ k <= l)
        \/ at(l) < at(k) \/ (at(l) = at(k) /\ l <= k)
    BY <2>1
  <2> QED
    BY <1>2, <2>2
<1>5. \A k, l \in DOMAIN ds : <<k, l>> \in R /\ <<l, k>> \in R => k = l
  BY <1>1, <1>2
<1>6. \A j, k, l \in DOMAIN ds : <<j, k>> \in R /\ <<k, l>> \in R => <<j, l>> \in R
  BY <1>1, <1>2
<1> QED
  BY <1>3, <1>4, <1>5, <1>6 DEF TotalOrder, R

LEMMA ByPeriodOrders ==
    ASSUME NEW ds \in Seq(TrendDocuments)
    PROVE  /\ ByPeriod(ds) \in Seq(TrendDocuments)
           /\ \A m, n \in DOMAIN ByPeriod(ds) :
                  m <= n => Period[ByPeriod(ds)[m]] <= Period[ByPeriod(ds)[n]]
<1> DEFINE D == DOMAIN ds
           R == Before(ds)
           places == ListedBy(D, R)
           a == ByPeriod(ds)
<1>1. IsFiniteSet(D)
  BY FS_Interval
<1>2. TotalOrder(D, R)
  BY BeforeIsOrder
<1>3. a = [k \in DOMAIN places |-> ds[places[k]]]
  BY DEF ByPeriod, Before
<1>4. \A k, l : <<k, l>> \in R => Period[ds[k]] < Period[ds[l]] \/ Period[ds[k]] = Period[ds[l]]
  BY DEF Before
<1>5. \A k \in D : ds[k] \in TrendDocuments /\ Period[ds[k]] \in Nat
  <2> TAKE k \in D
  <2>1. ds[k] \in TrendDocuments
    OBVIOUS
  <2> QED
    BY <2>1, TrendAssumption
<1>6. Lists(places, D, R)
  <2> HIDE DEF D, R
  <2> QED
    BY <1>1, <1>2, ListedInOrder
<1> HIDE DEF D, R, places, a
<1>7. /\ Len(places) \in Nat /\ DOMAIN places = 1 .. Len(places)
      /\ \A k \in DOMAIN places : places[k] \in D
  BY <1>6 DEF Lists
<1>8. a \in Seq(TrendDocuments) /\ DOMAIN a = DOMAIN places
  BY <1>3, <1>5, <1>7
<1>9. ASSUME NEW m \in DOMAIN a, NEW n \in DOMAIN a, m <= n
      PROVE  Period[a[m]] <= Period[a[n]]
  <2>1. <<places[m], places[n]>> \in R
    BY <1>6, <1>8, <1>9 DEF Lists
  <2>2. a[m] = ds[places[m]] /\ a[n] = ds[places[n]] /\ places[m] \in D /\ places[n] \in D
    BY <1>3, <1>7, <1>8
  <2>3. Period[a[m]] \in Nat /\ Period[a[n]] \in Nat
    BY <1>5, <2>2
  <2> QED
    BY <1>4, <2>1, <2>2, <2>3
<1> QED
  BY <1>8, <1>9 DEF a

LEMMA TrendOfOK ==
    ASSUME NEW ds \in Seq(TrendDocuments), NEW kpis
    PROVE  TrendOK(TrendOf(ds, kpis))
<1> DEFINE o == ByPeriod(ds)
           periods == [k \in DOMAIN o |-> Period[o[k]]]
           series == Series(o, kpis)
           t == TrendOf(ds, kpis)
<1>1. o \in Seq(TrendDocuments) /\ \A m, n \in DOMAIN o : m <= n => Period[o[m]] <= Period[o[n]]
  BY ByPeriodOrders
<1>2. DOMAIN series \subseteq Tracked
  <2>1. Asked(kpis) \subseteq Tracked
    BY DEF Asked
  <2> HIDE DEF o
  <2> DEFINE having(metric) ==
                 Among(o, {k \in DOMAIN o : metric \in DOMAIN Points(o[k])})
             s == [metric \in Asked(kpis) |->
                     [k \in DOMAIN having(metric) |-> Points(having(metric)[k])[metric]]]
  <2>2. series = [metric \in {m \in Asked(kpis) : s[m] # <<>>} |-> s[metric]]
    BY DEF Series
  <2> HIDE DEF s, series
  <2>3. DOMAIN series \subseteq Asked(kpis)
    BY <2>2
  <2> QED
    BY <2>1, <2>3
<1>3. t = [documents |-> o, periods |-> periods, series |-> series,
           warned |-> Len(ds) < MinPeriods]
  BY DEF TrendOf
<1> HIDE DEF o, series, t
<1>4. t.documents = o /\ t.periods = periods /\ t.series = series
  BY <1>3
<1>5. \A k \in DOMAIN o : Period[o[k]] \in Nat
  <2> TAKE k \in DOMAIN o
  <2>1. o[k] \in TrendDocuments
    BY <1>1
  <2> QED
    BY <2>1, TrendAssumption
<1>6. periods \in Seq(Nat) /\ DOMAIN periods = DOMAIN o
  BY <1>1, <1>5
<1> QED
  BY <1>1, <1>2, <1>4, <1>6 DEF TrendOK, t

-----------------------------------------------------------------------------
(* The states. *)

(* Every report is built from a response, by the summary service alone. *)
BuiltReports ==
    {[document |-> d, claims |-> c, dashboard |-> Dashboard(c),
      valid |-> ContractErrors(Dashboard(c)) = {}] : d \in TrendDocuments, c \in Responses}

ReportsBuilt == summaries \in Seq(BuiltReports)

TrendsStored ==
    /\ trends \in Seq({trends[n] : n \in DOMAIN trends})
    /\ \A n \in DOMAIN trends : TrendOK(trends[n])

IInv ==
    /\ ReportsBuilt
    /\ TrendsStored
    /\ outcome \in {"none", "served", "refused", "internal error"}

LEMMA InitBuilt == TrendInit => IInv
BY DEF TrendInit, IInv, ReportsBuilt, TrendsStored

(* Sequences over a set. *)
LEMMA SeqOver ==
    ASSUME NEW S, NEW s \in Seq(S)
    PROVE  /\ \A k \in DOMAIN s : s[k] \in S
           /\ \A e \in S : Append(s, e) \in Seq(S)
OBVIOUS

(* A sequence with one element more. *)
LEMMA OneMore ==
    ASSUME NEW s, NEW e, s \in Seq({s[k] : k \in DOMAIN s})
    PROVE  LET t == Append(s, e)
           IN  /\ t \in Seq({t[k] : k \in DOMAIN t})
               /\ \A k \in DOMAIN t : (k \in DOMAIN s /\ t[k] = s[k]) \/ t[k] = e
<1> DEFINE S == {s[k] : k \in DOMAIN s}
           t == Append(s, e)
<1>1. s \in Seq(S \cup {e})
  BY SeqMonotonic
<1>2. /\ t \in Seq(S \cup {e})
      /\ Len(t) = Len(s) + 1
      /\ \A k \in 1 .. Len(s) : t[k] = s[k]
      /\ t[Len(s) + 1] = e
  BY <1>1
<1>3. DOMAIN s = 1 .. Len(s) /\ DOMAIN t = 1 .. Len(t) /\ Len(s) \in Nat
  BY <1>1, <1>2
<1>4. t \in Seq({t[k] : k \in DOMAIN t})
  BY <1>2, <1>3
<1>5. \A k \in DOMAIN t : (k \in DOMAIN s /\ t[k] = s[k]) \/ t[k] = e
  BY <1>2, <1>3
<1> QED
  BY <1>4, <1>5

LEMMA ServeStores ==
    ASSUME IInv, NEW ds \in Requests, NEW kpis, ServeTrend(ds, kpis)
    PROVE  IInv'
<1> DEFINE t == TrendOf(ds, kpis)
<1>1. ds \in Seq(TrendDocuments)
  <2>1. ds \in Seq(TrendDocuments \cup Unknown) /\ \A k \in DOMAIN ds : ds[k] \in TrendDocuments
    BY TrendAssumption DEF ServeTrend, Answerable
  <2> QED
    BY <2>1
<1>2. TrendOK(t)
  BY <1>1, TrendOfOK
<1>3. trends' = Append(trends, t) /\ outcome' = "served" /\ UNCHANGED summaries
  BY DEF ServeTrend
<1> HIDE DEF t
<1>4. /\ trends' \in Seq({trends'[n] : n \in DOMAIN trends'})
      /\ \A n \in DOMAIN trends' : (n \in DOMAIN trends /\ trends'[n] = trends[n]) \/ trends'[n] = t
  <2>1. trends \in Seq({trends[n] : n \in DOMAIN trends}) /\ trends' = Append(trends, t)
    BY <1>3 DEF IInv, TrendsStored
  <2> QED
    BY <2>1, OneMore
<1>5. \A n \in DOMAIN trends' : TrendOK(trends'[n])
  <2> TAKE n \in DOMAIN trends'
  <2>1. CASE n \in DOMAIN trends /\ trends'[n] = trends[n]
    BY <2>1 DEF IInv, TrendsStored
  <2>2. CASE trends'[n] = t
    BY <1>2, <2>2
  <2> QED
    BY <1>4, <2>1, <2>2
<1> QED
  BY <1>3, <1>4, <1>5 DEF IInv, ReportsBuilt, TrendsStored

LEMMA NextBuilt == IInv /\ [TrendNext]_trendVars => IInv'
<1> SUFFICES ASSUME IInv, [TrendNext]_trendVars PROVE IInv'
  OBVIOUS
<1>1. ASSUME NEW d \in TrendDocuments, Summarise(d)
      PROVE  IInv'
  <2>1. PICK claims \in Responses :
            summaries' = Append(summaries,
                [document |-> d, claims |-> claims, dashboard |-> Dashboard(claims),
                 valid |-> ContractErrors(Dashboard(claims)) = {}])
    BY <1>1 DEF Summarise
  <2> DEFINE r == [document |-> d, claims |-> claims, dashboard |-> Dashboard(claims),
                   valid |-> ContractErrors(Dashboard(claims)) = {}]
  <2>2. r \in BuiltReports
    BY DEF BuiltReports
  <2>3. summaries' = Append(summaries, r) /\ UNCHANGED <<trends, outcome>>
    BY <1>1, <2>1 DEF Summarise
  <2> HIDE DEF r
  <2>4. summaries' \in Seq(BuiltReports)
    BY <2>2, <2>3, SeqOver DEF IInv, ReportsBuilt
  <2> QED
    BY <2>3, <2>4 DEF IInv, ReportsBuilt, TrendsStored
<1>2. ASSUME NEW ds \in Requests, RefuseTrend(ds) \/ BreakTrend(ds)
      PROVE  IInv'
  BY <1>2 DEF RefuseTrend, BreakTrend, IInv, ReportsBuilt, TrendsStored
<1>3. ASSUME NEW ds \in Requests, NEW kpis \in KpiLists, ServeTrend(ds, kpis)
      PROVE  IInv'
  BY <1>3, ServeStores
<1>4. CASE UNCHANGED trendVars
  BY <1>4 DEF trendVars, IInv, ReportsBuilt, TrendsStored
<1> QED
  BY <1>1, <1>2, <1>3, <1>4 DEF TrendNext

(* A report that was built has all its dashboard's qualities. *)
LEMMA BuiltIsSound ==
    ASSUME NEW r \in BuiltReports
    PROVE  /\ r.document \in TrendDocuments /\ r.claims \in Seq(MetricClaim)
           /\ r.valid
           /\ DOMAIN r.dashboard.metrics \subseteq Metrics
           /\ Rated(r.dashboard.what_changed)
           /\ BestShown(r.dashboard, r.claims)
           /\ CitesOnly(r.dashboard, CleanIds(r.claims))
           /\ Justified(r.dashboard)
<1>1. PICK d \in TrendDocuments, c \in Responses :
          r = [document |-> d, claims |-> c, dashboard |-> Dashboard(c),
               valid |-> ContractErrors(Dashboard(c)) = {}]
  BY DEF BuiltReports
<1> DEFINE db == Dashboard(c)
           v == ContractErrors(db) = {}
<1>2. c \in Seq(MetricClaim)
  BY TrendAssumption
<1>3. /\ CitesOnly(db, CleanIds(c)) /\ Justified(db) /\ Rated(db.what_changed)
      /\ DOMAIN db.metrics \subseteq Metrics /\ v /\ BestShown(db, c)
  BY <1>2, BestOfAll, DashboardKeeps
<1>4. r = [document |-> d, claims |-> c, dashboard |-> db, valid |-> v]
  BY <1>1
<1> HIDE DEF db, v
<1>5. r.document = d /\ r.claims = c /\ r.dashboard = db /\ r.valid = v
  BY <1>4
<1> QED
  BY <1>2, <1>3, <1>5

LEMMA SoundThen == IInv => DashboardsSound
<1> SUFFICES ASSUME IInv PROVE DashboardsSound
  OBVIOUS
<1>1. \A n \in DOMAIN summaries : summaries[n] \in BuiltReports
  BY SeqOver DEF IInv, ReportsBuilt
<1>2. TrendTypeOK
  <2>1. ASSUME NEW n \in DOMAIN summaries, NEW m \in DOMAIN summaries[n].dashboard.what_changed
        PROVE  summaries[n].dashboard.what_changed[m].impact \in 0 .. 2
    <3> DEFINE change == summaries[n].dashboard.what_changed[m]
    <3>1. change.delta \in Int \cup {NoDelta}
          /\ change.impact = Impact(m, change.delta, change.direction)
      BY <1>1, BuiltIsSound DEF Rated
    <3> QED
      BY <3>1, ImpactOnScale
  <2>2. \A n \in DOMAIN summaries :
            /\ summaries[n].document \in TrendDocuments
            /\ summaries[n].claims \in Seq(MetricClaim)
            /\ DOMAIN summaries[n].dashboard.metrics \subseteq Metrics
            /\ DOMAIN summaries[n].dashboard.what_changed \subseteq Headlines
    BY <1>1, BuiltIsSound DEF Rated
  <2> QED
    BY <2>1, <2>2 DEF TrendTypeOK, IInv, TrendsStored, TrendOK
<1>3. ContractHolds
  BY <1>1, BuiltIsSound DEF ContractHolds
<1>4. CitesCleanClaims
  BY <1>1, BuiltIsSound DEF CitesCleanClaims, CitesOnly, CleanIds
<1>5. BestClaimShown
  BY <1>1, BuiltIsSound DEF BestClaimShown, BestShown
<1>6. AlarmsJustified
  BY <1>1, BuiltIsSound DEF AlarmsJustified, Dashboards, Justified
<1>7. ImpactGrows
  <2>1. \A a \in Dashboards : Rated(a.what_changed)
    BY <1>1, BuiltIsSound DEF Dashboards
  <2> SUFFICES ASSUME NEW a \in Dashboards, NEW b \in Dashboards,
                      NEW m \in DOMAIN a.what_changed \cap DOMAIN b.what_changed,
                      NoDelta \notin {a.what_changed[m].delta, b.what_changed[m].delta},
                      a.what_changed[m].direction = b.what_changed[m].direction,
                      Magnitude(a.what_changed[m].delta) <= Magnitude(b.what_changed[m].delta)
               PROVE  a.what_changed[m].impact <= b.what_changed[m].impact
    BY DEF ImpactGrows
  <2> DEFINE x == a.what_changed[m]
             y == b.what_changed[m]
  <2>2. /\ x.delta \in Int /\ y.delta \in Int
        /\ x.impact = Impact(m, x.delta, x.direction)
        /\ y.impact = Impact(m, y.delta, x.direction)
    BY <2>1 DEF Rated
  <2> QED
    BY <2>2, ImpactRises
<1> QED
  BY <1>2, <1>3, <1>4, <1>5, <1>6, <1>7 DEF DashboardsSound

(* A stored dashboard is sound, for any claims the model may answer with:   *)
(* it keeps the contract it is validated against, shows the best clean      *)
(* claim on each metric, cites clean claims only, raises no alarm without   *)
(* one, and rates larger changes no lower.                                  *)
THEOREM DashboardsAreSound == TrendSpec => []DashboardsSound
<1> QED
  BY InitBuilt, NextBuilt, SoundThen, PTL DEF TrendSpec

(* A stored trend lists documents and periods in parallel, oldest first,    *)
(* in whatever order the request names the documents.                       *)
THEOREM TrendsAreInOrder == TrendSpec => []TrendsInOrder
<1>1. IInv => TrendsInOrder
  BY DEF IInv, TrendsStored, TrendOK, TrendsInOrder
<1> QED
  BY <1>1, InitBuilt, NextBuilt, PTL DEF TrendSpec
=============================================================================
