---------------------------- MODULE ReadersProofs ----------------------------
(***************************************************************************)
(* Proofs about the components that read what is stored: sums over finite  *)
(* sets, then ExternalData, Patterns, SectionBudget, Reading and Tables.   *)
(***************************************************************************)
EXTENDS Tables, Patterns, ExternalData, Reading, SectionBudget, FiniteSetTheorems,
        SequenceTheorems, WellFoundedInduction, TLAPS

-----------------------------------------------------------------------------
(* Sums.  SumFunctionOnSet picks the members of a set one by one, so that   *)
(* its definition is a recursive function on the subsets of the set; what   *)
(* it is on larger and smaller sets is shown by a least counterexample.     *)

AnyOf(s) == CHOOSE x \in s : TRUE

Sums(f, S, iter) ==
    iter = [s \in SUBSET S |->
               IF s = {} THEN 0 ELSE f[AnyOf(s)] + iter[s \ {AnyOf(s)}]]

LEMMA SumIsChosen ==
    ASSUME NEW f, NEW S
    PROVE  SumFunctionOnSet(f, S) = (CHOOSE iter : Sums(f, S, iter))[S]
BY DEF SumFunctionOnSet, FoldFunctionOnSet, MapThenFoldSet, Sums, AnyOf

(* Among some subsets of a finite set one has no other of them inside it. *)
LEMMA SmallestSet ==
    ASSUME NEW S, IsFiniteSet(S), NEW Bad, Bad \subseteq SUBSET S, Bad # {}
    PROVE  \E T \in Bad : \A U \in Bad : U \subseteq T => U = T
<1>1. Bad \subseteq FiniteSubsetsOf(S)
  BY FS_Subset DEF FiniteSubsetsOf
<1>2. PICK T \in Bad : \A U \in Bad : ~(<<U, T>> \in StrictSubsetOrdering(S))
  BY <1>1, WFMin, FS_StrictSubsetOrderingWellFounded
<1>3. \A U \in Bad : U \subseteq T => U = T
  BY <1>2 DEF StrictSubsetOrdering
<1> QED
  BY <1>3

(* Induction over the subsets of a finite set: what holds of none, and of a *)
(* set if it does of the set without one member, holds of all.              *)
LEMMA SubsetsInduction ==
    ASSUME NEW S, IsFiniteSet(S), NEW Good, {} \in Good,
           \A U \in SUBSET S : \A x \in U : U \ {x} \in Good => U \in Good
    PROVE  S \in Good
<1> DEFINE Bad == {U \in SUBSET S : U \notin Good}
<1>0. Bad \subseteq SUBSET S
  OBVIOUS
<1>1. ASSUME Bad # {} PROVE FALSE
  <2>1. PICK U \in Bad : \A V \in Bad : V \subseteq U => V = U
    <3> HIDE DEF Bad
    <3> QED
      BY <1>0, <1>1, SmallestSet
  <2>2. {} \notin Bad
    OBVIOUS
  <2>3. U # {}
    <3> HIDE DEF Bad
    <3> QED
      BY <2>2
  <2>4. PICK x \in U : TRUE
    BY <2>3
  <2>5. U \ {x} \notin Bad
    BY <2>1, <2>4
  <2> QED
    BY <2>1, <2>4, <2>5
<1> QED
  BY <1>1

LEMMA AnyOfMember ==
    ASSUME NEW S, S # {}
    PROVE  AnyOf(S) \in S
BY DEF AnyOf

LEMMA SumsUnfold ==
    ASSUME NEW f, NEW S, NEW iter, Sums(f, S, iter), NEW T \in SUBSET S
    PROVE  iter[T] = IF T = {} THEN 0 ELSE f[AnyOf(T)] + iter[T \ {AnyOf(T)}]
BY DEF Sums

(* The recursion has one solution: two of them agree where both are defined. *)
LEMMA SumsAgree ==
    ASSUME NEW f, NEW S, NEW R, IsFiniteSet(S), NEW i, NEW j,
           Sums(f, S, i), Sums(f, R, j), NEW T \in SUBSET S, T \in SUBSET R
    PROVE  i[T] = j[T]
<1> DEFINE Bad == {U \in SUBSET S : U \in SUBSET R /\ i[U] # j[U]}
<1> SUFFICES ASSUME Bad # {} PROVE FALSE
  OBVIOUS
<1>1. PICK U \in Bad : \A V \in Bad : V \subseteq U => V = U
  <2> HIDE DEF Bad
  <2>1. Bad \subseteq SUBSET S
    BY DEF Bad
  <2> QED
    BY <2>1, SmallestSet
<1>2. CASE U = {}
  BY <1>1, <1>2, SumsUnfold
<1>3. CASE U # {}
  <2> DEFINE x == AnyOf(U)
  <2>1. x \in U
    BY <1>3, AnyOfMember
  <2>2. U \ {x} \notin Bad
    BY <1>1, <2>1
  <2>3. i[U \ {x}] = j[U \ {x}]
    BY <1>1, <2>2
  <2>4. i[U] = f[x] + i[U \ {x}]
    <3>1. U \in SUBSET S
      BY <1>1
    <3>2. i[U] = IF U = {} THEN 0 ELSE f[AnyOf(U)] + i[U \ {AnyOf(U)}]
      BY <3>1 DEF Sums
    <3> QED
      BY <3>2, <1>3
  <2>5. j[U] = f[x] + j[U \ {x}]
    BY <1>1, <1>3, SumsUnfold
  <2> QED
    BY <1>1, <2>3, <2>4, <2>5
<1> QED
  BY <1>2, <1>3

(* It has one. *)
LEMMA SumsExists ==
    ASSUME NEW f, NEW S, IsFiniteSet(S)
    PROVE  \E iter : Sums(f, S, iter)
<1> DEFINE Bad == {U \in SUBSET S : ~\E iter : Sums(f, U, iter)}
           Of(V) == CHOOSE iter : Sums(f, V, iter)
<1>s. Bad \subseteq SUBSET S
  OBVIOUS
<1>a. ASSUME Bad # {} PROVE FALSE
  <2>1. PICK U \in Bad : \A V \in Bad : V \subseteq U => V = U
    <3> HIDE DEF Bad
    <3> QED
      BY <1>s, <1>a, SmallestSet
  <2>f. IsFiniteSet(U) /\ \A V \in SUBSET U : IsFiniteSet(V)
    BY <2>1, FS_Subset
  <2>2. \A V \in SUBSET U : V # U => Sums(f, V, Of(V))
    BY <2>1
  <2> DEFINE g == [V \in SUBSET U |->
                      IF V = {} THEN 0 ELSE f[AnyOf(V)] + Of(V \ {AnyOf(V)})[V \ {AnyOf(V)}]]
  <2>3. \A V \in SUBSET U : V # U => g[V] = Of(V)[V]
    <3> SUFFICES ASSUME NEW V \in SUBSET U, V # U PROVE g[V] = Of(V)[V]
      OBVIOUS
    <3>1. Of(V)[V] = IF V = {} THEN 0 ELSE f[AnyOf(V)] + Of(V)[V \ {AnyOf(V)}]
      <4> HIDE DEF Of
      <4> QED
        BY <2>2, SumsUnfold
    <3>2. CASE V = {}
      BY <3>1, <3>2
    <3>3. CASE V # {}
      <4> DEFINE W == V \ {AnyOf(V)}
      <4>1. AnyOf(V) \in V /\ W # U /\ W \in SUBSET U
        BY <3>3, AnyOfMember
      <4>2. Of(V)[W] = Of(W)[W]
        <5> HIDE DEF Of
        <5>1. Sums(f, V, Of(V)) /\ Sums(f, W, Of(W))
          BY <2>2, <4>1
        <5> QED
          BY <5>1, <2>f, SumsAgree
      <4> QED
        BY <3>1, <3>3, <4>2
    <3> QED
      BY <3>2, <3>3
  <2>4. \A V \in SUBSET U : V # {} => g[V] = f[AnyOf(V)] + g[V \ {AnyOf(V)}]
    <3> SUFFICES ASSUME NEW V \in SUBSET U, V # {}
                 PROVE  g[V] = f[AnyOf(V)] + g[V \ {AnyOf(V)}]
      OBVIOUS
    <3>1. AnyOf(V) \in V
      BY AnyOfMember
    <3>2. g[V \ {AnyOf(V)}] = Of(V \ {AnyOf(V)})[V \ {AnyOf(V)}]
      <4>1. V \ {AnyOf(V)} \in SUBSET U /\ V \ {AnyOf(V)} # U
        BY <3>1
      <4> HIDE DEF g, Of
      <4> QED
        BY <4>1, <2>3
    <3> QED
      BY <3>2
  <2>5. Sums(f, U, g)
    <3>0. g[{}] = 0
      OBVIOUS
    <3>1. \A V \in SUBSET U : g[V] = IF V = {} THEN 0 ELSE f[AnyOf(V)] + g[V \ {AnyOf(V)}]
      <4> HIDE DEF g
      <4> QED
        BY <2>4, <3>0
    <3>2. g = [V \in SUBSET U |-> g[V]]
      OBVIOUS
    <3> HIDE DEF g
    <3> QED
      BY <3>1, <3>2 DEF Sums
  <2> QED
    BY <2>1, <2>5
<1> QED
  BY <1>a

LEMMA SumsFixed ==
    ASSUME NEW f, NEW S, IsFiniteSet(S)
    PROVE  /\ SumFunctionOnSet(f, {}) = 0
           /\ S # {} => SumFunctionOnSet(f, S)
                          = f[AnyOf(S)] + SumFunctionOnSet(f, S \ {AnyOf(S)})
<1> DEFINE Of(V) == CHOOSE iter : Sums(f, V, iter)
           T == S \ {AnyOf(S)}
<1>1. IsFiniteSet({}) /\ IsFiniteSet(T)
  BY FS_EmptySet, FS_RemoveElement
<1>2. Sums(f, S, Of(S)) /\ Sums(f, T, Of(T)) /\ Sums(f, {}, Of({}))
  BY <1>1, SumsExists
<1> HIDE DEF Of
<1>3. Of({})[{}] = 0
  BY <1>2, SumsUnfold
<1>4. S # {} => Of(S)[S] = f[AnyOf(S)] + Of(S)[T]
  BY <1>2, SumsUnfold
<1>5. Of(S)[T] = Of(T)[T]
  BY <1>1, <1>2, SumsAgree
<1> QED
  BY <1>3, <1>4, <1>5, SumIsChosen DEF Of

(* A sum of integers is one. *)
LEMMA SumType ==
    ASSUME NEW f, NEW S, IsFiniteSet(S), \A x \in S : f[x] \in Int
    PROVE  SumFunctionOnSet(f, S) \in Int
<1> DEFINE Bad == {U \in SUBSET S : SumFunctionOnSet(f, U) \notin Int}
<1>0. Bad \subseteq SUBSET S
  OBVIOUS
<1>1. ASSUME Bad # {} PROVE FALSE
  <2>1. PICK U \in Bad : \A V \in Bad : V \subseteq U => V = U
    <3> HIDE DEF Bad
    <3> QED
      BY <1>0, <1>1, SmallestSet
  <2>2. IsFiniteSet(U)
    BY <2>1, FS_Subset
  <2>z. SumFunctionOnSet(f, {}) = 0
    BY <2>2, SumsFixed
  <2>e. {} \notin Bad
    BY <2>z
  <2>3. U # {}
    <3> HIDE DEF Bad
    <3> QED
      BY <2>e
  <2>4. AnyOf(U) \in U
    BY <2>3, AnyOfMember
  <2>5. U \ {AnyOf(U)} \notin Bad
    BY <2>1, <2>4
  <2>6. SumFunctionOnSet(f, U \ {AnyOf(U)}) \in Int
    BY <2>5, <2>1
  <2>7. SumFunctionOnSet(f, U) = f[AnyOf(U)] + SumFunctionOnSet(f, U \ {AnyOf(U)})
    BY <2>2, <2>3, SumsFixed
  <2> QED
    BY <2>1, <2>4, <2>6, <2>7
<1> QED
  BY <1>1

(* Whichever member is taken out first, what it adds is its own value. *)
LEMMA SumWithout ==
    ASSUME NEW f, NEW S, IsFiniteSet(S), \A x \in S : f[x] \in Int, NEW y \in S
    PROVE  SumFunctionOnSet(f, S) = f[y] + SumFunctionOnSet(f, S \ {y})
<1> DEFINE Sum(U) == SumFunctionOnSet(f, U)
           Bad == {U \in SUBSET S : \E x \in U : Sum(U) # f[x] + Sum(U \ {x})}
<1>0. Bad \subseteq SUBSET S
  OBVIOUS
<1>f. \A U \in SUBSET S : IsFiniteSet(U) /\ Sum(U) \in Int
  BY FS_Subset, SumType
<1>s. \A U \in SUBSET S : U # {} => Sum(U) = f[AnyOf(U)] + Sum(U \ {AnyOf(U)})
  BY <1>f, SumsFixed
<1> HIDE DEF Sum
<1>1. ASSUME Bad # {} PROVE FALSE
  <2>1. PICK U \in Bad : \A V \in Bad : V \subseteq U => V = U
    <3> HIDE DEF Bad
    <3> QED
      BY <1>0, <1>1, SmallestSet
  <2>2. PICK x \in U : Sum(U) # f[x] + Sum(U \ {x})
    BY <2>1
  <2> DEFINE c == AnyOf(U)
  <2>3. c \in U /\ Sum(U) = f[c] + Sum(U \ {c})
    BY <1>s, <2>1, AnyOfMember
  <2> HIDE DEF c
  <2>4. x # c
    BY <2>2, <2>3
  <2>5. U \ {c} \notin Bad /\ U \ {x} \notin Bad
    BY <2>1, <2>3
  <2>6. Sum(U \ {c}) = f[x] + Sum((U \ {c}) \ {x})
    BY <2>5, <2>4, <2>1
  <2>7. Sum(U \ {x}) = f[c] + Sum((U \ {x}) \ {c})
    BY <2>5, <2>3, <2>4, <2>1
  <2>8. (U \ {c}) \ {x} = (U \ {x}) \ {c}
    OBVIOUS
  <2>9. /\ f[x] \in Int /\ f[c] \in Int
        /\ Sum((U \ {x}) \ {c}) \in Int
    BY <1>f, <2>1, <2>3
  <2> DEFINE rest == Sum((U \ {x}) \ {c})
  <2>10. Sum(U) = f[c] + (f[x] + rest)
    BY <2>3, <2>6, <2>8
  <2>11. f[c] + (f[x] + rest) = f[x] + (f[c] + rest)
    <3>1. f[x] \in Int /\ f[c] \in Int /\ rest \in Int
      BY <2>9
    <3> HIDE DEF rest
    <3> QED
      BY <3>1
  <2>12. Sum(U) = f[x] + Sum(U \ {x})
    BY <2>7, <2>10, <2>11
  <2> QED
    BY <2>2, <2>12
<1>2. S \notin Bad
  BY <1>1
<1> QED
  BY <1>2 DEF Sum

LEMMA SumWith ==
    ASSUME NEW f, NEW S, IsFiniteSet(S), NEW y, y \notin S,
           \A x \in S \union {y} : f[x] \in Int
    PROVE  SumFunctionOnSet(f, S \union {y}) = f[y] + SumFunctionOnSet(f, S)
<1>1. IsFiniteSet(S \union {y}) /\ (S \union {y}) \ {y} = S
  BY FS_AddElement
<1> QED
  BY <1>1, SumWithout

LEMMA SumAtMost ==
    ASSUME NEW f, NEW g, NEW S, IsFiniteSet(S),
           \A x \in S : f[x] \in Int /\ g[x] \in Int /\ f[x] <= g[x]
    PROVE  SumFunctionOnSet(f, S) <= SumFunctionOnSet(g, S)
<1> DEFINE F(U) == SumFunctionOnSet(f, U)
           G(U) == SumFunctionOnSet(g, U)
           Good == {U \in SUBSET S : F(U) <= G(U)}
<1>1. {} \in Good
  <2>e. IsFiniteSet({})
    BY FS_EmptySet
  <2>1. F({}) = 0
    BY <2>e, SumsFixed
  <2>2. G({}) = 0
    BY <2>e, SumsFixed
  <2> HIDE DEF F, G
  <2> QED
    BY <2>1, <2>2
<1>2. ASSUME NEW U \in SUBSET S, NEW x \in U, U \ {x} \in Good PROVE U \in Good
  <2>1. IsFiniteSet(U) /\ IsFiniteSet(U \ {x})
    BY FS_Subset
  <2>2. F(U) = f[x] + F(U \ {x}) /\ F(U \ {x}) \in Int
    BY <2>1, SumWithout, SumType
  <2>3. G(U) = g[x] + G(U \ {x}) /\ G(U \ {x}) \in Int
    BY <2>1, SumWithout, SumType
  <2> HIDE DEF F, G
  <2>4. F(U) <= G(U)
    BY <2>2, <2>3, <1>2
  <2> QED
    BY <2>4
<1>3. S \in Good
  <2> HIDE DEF Good
  <2> QED
    BY <1>1, <1>2, SubsetsInduction
<1> QED
  BY <1>3

LEMMA SumSame ==
    ASSUME NEW f, NEW g, NEW S, IsFiniteSet(S),
           \A x \in S : f[x] \in Int /\ g[x] \in Int /\ f[x] = g[x]
    PROVE  SumFunctionOnSet(f, S) = SumFunctionOnSet(g, S)
<1>1. SumFunctionOnSet(f, S) <= SumFunctionOnSet(g, S)
  BY SumAtMost
<1>2. SumFunctionOnSet(g, S) <= SumFunctionOnSet(f, S)
  BY SumAtMost
<1>3. SumFunctionOnSet(f, S) \in Int /\ SumFunctionOnSet(g, S) \in Int
  BY SumType
<1> QED
  BY <1>1, <1>2, <1>3

(* One strictly smaller value makes a smaller sum. *)
LEMMA SumLess ==
    ASSUME NEW f, NEW g, NEW S, IsFiniteSet(S), NEW y \in S, f[y] < g[y],
           \A x \in S : f[x] \in Int /\ g[x] \in Int /\ f[x] <= g[x]
    PROVE  SumFunctionOnSet(f, S) < SumFunctionOnSet(g, S)
<1> DEFINE F == SumFunctionOnSet(f, S \ {y})
           G == SumFunctionOnSet(g, S \ {y})
<1>1. IsFiniteSet(S \ {y})
  BY FS_RemoveElement
<1>2. F <= G
  BY <1>1, SumAtMost
<1>3. F \in Int /\ G \in Int
  BY <1>1, SumType
<1>4. SumFunctionOnSet(f, S) = f[y] + F
  BY SumWithout
<1>5. SumFunctionOnSet(g, S) = g[y] + G
  BY SumWithout
<1> HIDE DEF F, G
<1> QED
  BY <1>2, <1>3, <1>4, <1>5

LEMMA SumOfZeros ==
    ASSUME NEW f, NEW S, IsFiniteSet(S), \A x \in S : f[x] = 0
    PROVE  SumFunctionOnSet(f, S) = 0
<1> DEFINE F(U) == SumFunctionOnSet(f, U)
           Good == {U \in SUBSET S : F(U) = 0}
<1>1. {} \in Good
  <2>e. IsFiniteSet({})
    BY FS_EmptySet
  <2>1. F({}) = 0
    BY <2>e, SumsFixed
  <2> HIDE DEF F
  <2> QED
    BY <2>1
<1>2. ASSUME NEW U \in SUBSET S, NEW x \in U, U \ {x} \in Good PROVE U \in Good
  <2>1. IsFiniteSet(U)
    BY FS_Subset
  <2>2. F(U) = f[x] + F(U \ {x})
    BY <2>1, SumWithout
  <2> HIDE DEF F
  <2>3. F(U) = 0
    BY <2>2, <1>2
  <2> QED
    BY <2>3
<1>3. S \in Good
  <2> HIDE DEF Good
  <2> QED
    BY <1>1, <1>2, SubsetsInduction
<1> QED
  BY <1>3

(* The sum of a larger set of natural numbers is no smaller. *)
LEMMA SumSubset ==
    ASSUME NEW f, NEW S, IsFiniteSet(S), \A x \in S : f[x] \in Nat, NEW T \in SUBSET S
    PROVE  /\ SumFunctionOnSet(f, T) \in Nat
           /\ SumFunctionOnSet(f, T) <= SumFunctionOnSet(f, S)
<1> DEFINE F(U) == SumFunctionOnSet(f, U)
           Good == {U \in SUBSET (S \ T) : F(T) <= F(T \union U)}
           zero == [x \in S |-> 0]
<1>f. \A U \in SUBSET S : IsFiniteSet(U) /\ F(U) \in Int
  BY FS_Subset, SumType
<1>n. F(T) \in Nat
  <2>1. SumFunctionOnSet(zero, T) = 0
    BY <1>f, SumOfZeros
  <2>2. SumFunctionOnSet(zero, T) <= F(T)
    BY <1>f, SumAtMost
  <2> QED
    BY <2>1, <2>2, <1>f
<1>1. {} \in Good
  <2>1. T \union {} = T
    OBVIOUS
  <2> QED
    BY <2>1, <1>n
<1>2. ASSUME NEW U \in SUBSET (S \ T), NEW x \in U, U \ {x} \in Good PROVE U \in Good
  <2>1. T \union U \in SUBSET S /\ (T \union U) \ {x} = T \union (U \ {x})
    OBVIOUS
  <2>2. F(T \union U) = f[x] + F((T \union U) \ {x})
    BY <1>f, <2>1, SumWithout
  <2>3. F(T \union (U \ {x})) \in Int /\ f[x] \in Nat
    BY <1>f
  <2> HIDE DEF F
  <2>4. F(T) <= F(T \union U)
    BY <1>2, <1>n, <2>1, <2>2, <2>3
  <2> QED
    BY <2>4
<1>3. S \ T \in Good
  <2>1. IsFiniteSet(S \ T)
    BY <1>f
  <2> HIDE DEF Good
  <2> QED
    BY <1>1, <1>2, <2>1, SubsetsInduction
<1>4. T \union (S \ T) = S
  OBVIOUS
<1> QED
  BY <1>3, <1>4, <1>n

LEMMA SumOfTwo ==
    ASSUME NEW f, NEW g, NEW h, NEW S, IsFiniteSet(S),
           \A x \in S : f[x] \in Int /\ g[x] \in Int /\ h[x] = f[x] + g[x]
    PROVE  SumFunctionOnSet(h, S) = SumFunctionOnSet(f, S) + SumFunctionOnSet(g, S)
<1> DEFINE F(U) == SumFunctionOnSet(f, U)
           G(U) == SumFunctionOnSet(g, U)
           H(U) == SumFunctionOnSet(h, U)
           Good == {U \in SUBSET S : H(U) = F(U) + G(U)}
<1>1. {} \in Good
  <2>e. IsFiniteSet({})
    BY FS_EmptySet
  <2>1. F({}) = 0
    BY <2>e, SumsFixed
  <2>2. G({}) = 0
    BY <2>e, SumsFixed
  <2>3. H({}) = 0
    BY <2>e, SumsFixed
  <2> HIDE DEF F, G, H
  <2> QED
    BY <2>1, <2>2, <2>3
<1>2. ASSUME NEW U \in SUBSET S, NEW x \in U, U \ {x} \in Good PROVE U \in Good
  <2>1. IsFiniteSet(U) /\ IsFiniteSet(U \ {x})
    BY FS_Subset
  <2>2. F(U) = f[x] + F(U \ {x}) /\ F(U \ {x}) \in Int
    BY <2>1, SumWithout, SumType
  <2>3. G(U) = g[x] + G(U \ {x}) /\ G(U \ {x}) \in Int
    BY <2>1, SumWithout, SumType
  <2>4. H(U) = h[x] + H(U \ {x})
    BY <2>1, SumWithout
  <2> HIDE DEF F, G, H
  <2>5. H(U) = F(U) + G(U)
    BY <2>2, <2>3, <2>4, <1>2
  <2> QED
    BY <2>5
<1>3. S \in Good
  <2> HIDE DEF Good
  <2> QED
    BY <1>1, <1>2, SubsetsInduction
<1> QED
  BY <1>3

LEMMA SumScaled ==
    ASSUME NEW f, NEW g, NEW k \in Int, NEW S, IsFiniteSet(S),
           \A x \in S : f[x] \in Int /\ g[x] = k * f[x]
    PROVE  SumFunctionOnSet(g, S) = k * SumFunctionOnSet(f, S)
<1> DEFINE F(U) == SumFunctionOnSet(f, U)
           G(U) == SumFunctionOnSet(g, U)
           Good == {U \in SUBSET S : G(U) = k * F(U)}
<1>1. {} \in Good
  <2>e. IsFiniteSet({})
    BY FS_EmptySet
  <2>1. F({}) = 0
    BY <2>e, SumsFixed
  <2>2. G({}) = 0
    BY <2>e, SumsFixed
  <2> HIDE DEF F, G
  <2> QED
    BY <2>1, <2>2
<1>2. ASSUME NEW U \in SUBSET S, NEW x \in U, U \ {x} \in Good PROVE U \in Good
  <2>1. IsFiniteSet(U) /\ IsFiniteSet(U \ {x})
    BY FS_Subset
  <2>2. F(U) = f[x] + F(U \ {x}) /\ F(U \ {x}) \in Int
    BY <2>1, SumWithout, SumType
  <2>3. G(U) = g[x] + G(U \ {x})
    BY <2>1, SumWithout
  <2> HIDE DEF F, G
  <2>4. \A a, b \in Int : k * (a + b) = k * a + k * b
    OBVIOUS
  <2>5. G(U) = k * F(U)
    BY <2>2, <2>3, <2>4, <1>2
  <2> QED
    BY <2>5
<1>3. S \in Good
  <2> HIDE DEF Good
  <2> QED
    BY <1>1, <1>2, SubsetsInduction
<1> QED
  BY <1>3

(* A change of one value changes the sum by as much. *)
LEMMA SumChanged ==
    ASSUME NEW f, NEW g, NEW S, IsFiniteSet(S), NEW y \in S,
           \A x \in S : f[x] \in Int /\ g[x] \in Int /\ (x # y => g[x] = f[x])
    PROVE  SumFunctionOnSet(g, S) = SumFunctionOnSet(f, S) + (g[y] - f[y])
<1> DEFINE F == SumFunctionOnSet(f, S \ {y})
           G == SumFunctionOnSet(g, S \ {y})
<1>1. IsFiniteSet(S \ {y})
  BY FS_RemoveElement
<1>2. F = G
  BY <1>1, SumSame
<1>3. F \in Int
  BY <1>1, SumType
<1>4. SumFunctionOnSet(f, S) = f[y] + F
  BY SumWithout
<1>5. SumFunctionOnSet(g, S) = g[y] + G
  BY SumWithout
<1> HIDE DEF F, G
<1> QED
  BY <1>2, <1>3, <1>4, <1>5

-----------------------------------------------------------------------------
(* The budget of the sections.  While places are handed out, a section the  *)
(* loop has been at has its share, rounded down, and one place more if that *)
(* is below what it asked for.                                              *)

LEMMA Rounding ==
    ASSUME NEW a \in Nat, NEW d \in Nat, d > 0
    PROVE  /\ a \div d \in Nat
           /\ (a \div d) * d <= a
           /\ a < (a \div d) * d + d
OBVIOUS

LEMMA Monotone ==
    ASSUME NEW a \in Nat, NEW b \in Nat, NEW c \in Nat, a <= b
    PROVE  a * c <= b * c
OBVIOUS

(* What is smaller after multiplication was smaller before. *)
LEMMA Cancelled ==
    ASSUME NEW a \in Int, NEW b \in Int, NEW d \in Nat, d > 0, a * d < b * d + d
    PROVE  a <= b
<1> SUFFICES ASSUME a >= b + 1 PROVE FALSE
  OBVIOUS
<1> DEFINE c == a - (b + 1)
<1>1. c \in Nat /\ a = b + 1 + c
  OBVIOUS
<1> HIDE DEF c
<1>2. c * d >= 0
  BY <1>1
<1>3. (b + 1 + c) * d = b * d + d + c * d
  BY <1>1
<1> QED
  BY <1>1, <1>2, <1>3

Demand == SumFunction(desired)

TopUpOf(s) == IF desired[s] > Share(s) THEN 1 ELSE 0

Scaled ==
    /\ Demand > Budget
    /\ allocation = [s \in QuotaSections |-> Share(s) + IF s \in waiting THEN 0 ELSE TopUpOf(s)]
    /\ SumFunction(allocation) + remaining = Budget
    /\ remaining >= 0
    /\ \A s \in waiting : \A t \in QuotaSections \ waiting : desired[s] <= desired[t]

BudgetTyped ==
    /\ supply \in [QuotaSections -> Nat]
    /\ desired \in [QuotaSections -> Nat]
    /\ allocation \in [QuotaSections -> Nat]
    /\ remaining \in Int
    /\ waiting \subseteq QuotaSections
    /\ phase \in {"measure", "scale", "top up", "done"}

BudgetInv ==
    /\ BudgetTyped
    /\ \A s \in QuotaSections : desired[s] <= AtMost(supply[s], Quota[s])
    /\ phase \in {"measure", "scale"} => allocation = Nothing
    /\ phase = "scale" => Demand > Budget
    /\ phase = "top up" => Scaled
    /\ phase = "done" =>
          \/ allocation = desired /\ Demand <= Budget
          \/ Scaled /\ LoopEnds

(* The sum of a function of sections is a natural number. *)
LEMMA SectionSum ==
    ASSUME NEW f \in [QuotaSections -> Nat]
    PROVE  /\ SumFunction(f) = SumFunctionOnSet(f, QuotaSections)
           /\ SumFunction(f) \in Nat
<1>1. IsFiniteSet(QuotaSections) /\ DOMAIN f = QuotaSections
  BY BudgetAssumption DEF QuotaSections
<1>2. SumFunction(f) = SumFunctionOnSet(f, QuotaSections)
  BY <1>1 DEF SumFunction, SumFunctionOnSet, FoldFunction
<1>3. SumFunctionOnSet(f, QuotaSections) \in Nat
  <2>1. \A x \in QuotaSections : f[x] \in Nat
    OBVIOUS
  <2> QED
    BY <1>1, <2>1, SumSubset
<1> QED
  BY <1>2, <1>3

(* The shares of a demand above the budget: rounded down, of no more places *)
(* together than there are, and below what was asked for by who asked.      *)
LEMMA ShareBounds ==
    ASSUME BudgetTyped, Demand > Budget
    PROVE  /\ Demand \in Nat
           /\ \A s \in QuotaSections :
                 /\ Share(s) \in Nat
                 /\ Share(s) * Demand <= desired[s] * Budget
                 /\ desired[s] * Budget < Share(s) * Demand + Demand
                 /\ Share(s) + TopUpOf(s) <= desired[s]
                 /\ desired[s] > 0 => TopUpOf(s) = 1
           /\ \A s, t \in QuotaSections : desired[s] <= desired[t] => Share(s) <= Share(t)
<1>1. Demand \in Nat /\ Budget \in Nat /\ Demand > 0
  <2>1. Demand \in Nat
    BY SectionSum DEF BudgetTyped, Demand
  <2>2. Budget \in Nat
    BY BudgetAssumption
  <2> QED
    BY <2>1, <2>2
<1>2. ASSUME NEW s \in QuotaSections
      PROVE  /\ Share(s) \in Nat
             /\ Share(s) * Demand <= desired[s] * Budget
             /\ desired[s] * Budget < Share(s) * Demand + Demand
  <2>0. desired[s] \in Nat
    BY DEF BudgetTyped
  <2>1. desired[s] \in Nat /\ desired[s] * Budget \in Nat
    BY <1>1, <2>0
  <2>2. Share(s) = (desired[s] * Budget) \div Demand
    BY DEF Share, Demand
  <2> QED
    BY <1>1, <2>1, <2>2, Rounding
<1>3. ASSUME NEW s \in QuotaSections, desired[s] > 0
      PROVE  Share(s) < desired[s]
  <2>1. desired[s] \in Nat /\ Share(s) \in Nat
    BY <1>2 DEF BudgetTyped
  <2>2. desired[s] * Budget < desired[s] * Demand
    <3>1. \A a, b, c \in Nat : a > 0 /\ b < c => a * b < a * c
      OBVIOUS
    <3> QED
      BY <3>1, <2>1, <1>1, <1>3
  <2>3. Share(s) * Demand < desired[s] * Demand
    <3> DEFINE x == Share(s) * Demand
               y == desired[s] * Budget
               z == desired[s] * Demand
    <3>1. x \in Int /\ y \in Int /\ z \in Int /\ x <= y /\ y < z
      BY <1>1, <1>2, <2>1, <2>2
    <3> HIDE DEF x, y, z
    <3>2. x < z
      BY <3>1
    <3> QED
      BY <3>2 DEF x, z
  <2>4. Share(s) <= desired[s] - 1
    <3> DEFINE a == Share(s)
               b == desired[s] - 1
    <3>1. a \in Int /\ b \in Int /\ desired[s] = b + 1
      BY <2>1
    <3>2. a * Demand < (b + 1) * Demand
      BY <2>3, <3>1
    <3> HIDE DEF a, b
    <3>3. (b + 1) * Demand = b * Demand + Demand
      BY <3>1, <1>1
    <3>4. a * Demand < b * Demand + Demand
      BY <3>2, <3>3
    <3>5. a <= b
      BY <3>1, <3>4, <1>1, Cancelled
    <3> QED
      BY <3>5 DEF a, b
  <2> QED
    BY <2>1, <2>4
<1>4. ASSUME NEW s \in QuotaSections
      PROVE  /\ Share(s) + TopUpOf(s) <= desired[s]
             /\ desired[s] > 0 => TopUpOf(s) = 1
  <2>1. desired[s] \in Nat /\ Share(s) \in Nat
    BY <1>2 DEF BudgetTyped
  <2>2. CASE desired[s] > 0
    BY <2>1, <2>2, <1>3 DEF TopUpOf
  <2>3. CASE desired[s] = 0
    <3>1. Share(s) * Demand <= 0
      BY <1>1, <1>2, <2>3
    <3>2. Share(s) * Demand < 0 * Demand + Demand
      BY <1>1, <3>1, <2>1
    <3>3. Share(s) <= 0
      BY <1>1, <2>1, <3>2, Cancelled
    <3> QED
      BY <2>1, <2>3, <3>3 DEF TopUpOf
  <2> QED
    BY <2>1, <2>2, <2>3
<1>5. ASSUME NEW s \in QuotaSections, NEW t \in QuotaSections, desired[s] <= desired[t]
      PROVE  Share(s) <= Share(t)
  <2>1. desired[s] \in Nat /\ desired[t] \in Nat
    BY DEF BudgetTyped
  <2>2. desired[s] * Budget <= desired[t] * Budget
    BY <2>1, <1>1, <1>5, Monotone
  <2> DEFINE a == Share(s) * Demand
             b == desired[s] * Budget
             c == desired[t] * Budget
             d == Share(t) * Demand
  <2>3. /\ a \in Int /\ b \in Int /\ c \in Int /\ d \in Int
        /\ a <= b /\ b <= c /\ c < d + Demand
    BY <1>1, <1>2, <2>1, <2>2
  <2> HIDE DEF a, b, c, d
  <2>4. a < d + Demand
    BY <2>3, <1>1
  <2> QED
    BY <2>4, <1>1, <1>2, Cancelled DEF a, d
<1> QED
  BY <1>1, <1>2, <1>4, <1>5

(* What is not handed out is what rounding has left over, and the loop hands *)
(* out all of that before it runs out of sections.                           *)
LEMMA SharesFit ==
    ASSUME BudgetTyped, Demand > Budget, NEW g \in [QuotaSections -> Nat]
    PROVE  /\ (\A s \in QuotaSections : g[s] = Share(s)) => SumFunction(g) <= Budget
           /\ (\A s \in QuotaSections : g[s] = Share(s) + TopUpOf(s)) => SumFunction(g) >= Budget
<1> DEFINE times == [s \in QuotaSections |-> Demand * g[s]]
           parts == [s \in QuotaSections |-> Budget * desired[s]]
<1>0. IsFiniteSet(QuotaSections) /\ Budget \in Nat
  BY BudgetAssumption DEF QuotaSections
<1>1. Demand \in Nat /\ Demand > 0
  BY <1>0, ShareBounds
<1>2. SumFunction(g) = SumFunctionOnSet(g, QuotaSections) /\ SumFunction(g) \in Nat
  BY SectionSum
<1>3. \A s \in QuotaSections :
         /\ g[s] \in Nat /\ desired[s] \in Nat
         /\ times[s] = Demand * g[s] /\ parts[s] = Budget * desired[s]
         /\ times[s] = g[s] * Demand /\ parts[s] = desired[s] * Budget
         /\ times[s] \in Int /\ parts[s] \in Int
  <2> SUFFICES ASSUME NEW s \in QuotaSections
               PROVE  /\ g[s] \in Nat /\ desired[s] \in Nat
                      /\ Demand * g[s] = g[s] * Demand /\ Budget * desired[s] = desired[s] * Budget
                      /\ Demand * g[s] \in Int /\ Budget * desired[s] \in Int
    OBVIOUS
  <2>1. g[s] \in Nat /\ desired[s] \in Nat
    BY DEF BudgetTyped
  <2> QED
    BY <2>1, <1>0, <1>1
<1> HIDE DEF times, parts
<1>4. SumFunctionOnSet(times, QuotaSections) = Demand * SumFunction(g)
  <2>1. Demand \in Int /\ \A s \in QuotaSections : g[s] \in Int /\ times[s] = Demand * g[s]
    BY <1>1, <1>3
  <2>2. SumFunctionOnSet(times, QuotaSections) = Demand * SumFunctionOnSet(g, QuotaSections)
    BY <1>0, <2>1, SumScaled
  <2> QED
    BY <2>2, <1>2
<1>5. SumFunctionOnSet(parts, QuotaSections) = Budget * Demand
  <2>1. SumFunctionOnSet(parts, QuotaSections) = Budget * SumFunctionOnSet(desired, QuotaSections)
    BY <1>0, <1>3, SumScaled
  <2>2. Demand = SumFunctionOnSet(desired, QuotaSections)
    BY SectionSum DEF BudgetTyped, Demand
  <2> QED
    BY <2>1, <2>2
<1>6. ASSUME \A s \in QuotaSections : g[s] = Share(s)
      PROVE  SumFunction(g) <= Budget
  <2>1. \A s \in QuotaSections : times[s] <= parts[s]
    BY <1>3, <1>6, ShareBounds
  <2>2. SumFunctionOnSet(times, QuotaSections) <= SumFunctionOnSet(parts, QuotaSections)
    BY <1>0, <1>3, <2>1, SumAtMost
  <2>3. SumFunction(g) * Demand <= Budget * Demand
    BY <2>2, <1>1, <1>2, <1>4, <1>5
  <2>4. SumFunction(g) * Demand < Budget * Demand + Demand
    <3> DEFINE x == SumFunction(g) * Demand
               y == Budget * Demand
    <3>1. x \in Int /\ y \in Int /\ x <= y
      BY <2>3, <1>0, <1>1, <1>2
    <3> HIDE DEF x, y
    <3>2. x < y + Demand
      BY <3>1, <1>1
    <3> QED
      BY <3>2 DEF x, y
  <2> QED
    BY <2>4, <1>0, <1>1, <1>2, Cancelled
<1>7. ASSUME \A s \in QuotaSections : g[s] = Share(s) + TopUpOf(s)
      PROVE  SumFunction(g) >= Budget
  <2>1. \A s \in QuotaSections : parts[s] <= times[s]
    <3> SUFFICES ASSUME NEW s \in QuotaSections PROVE parts[s] <= times[s]
      OBVIOUS
    <3>1. CASE desired[s] = 0
      BY <3>1, <1>0, <1>1, <1>3
    <3>2. CASE desired[s] # 0
      <4>1. g[s] = Share(s) + 1 /\ Share(s) \in Nat
        BY <3>2, <1>3, <1>7, ShareBounds
      <4>2. g[s] * Demand = Share(s) * Demand + Demand
        BY <4>1, <1>1
      <4>3. desired[s] * Budget < g[s] * Demand
        BY <4>2, ShareBounds
      <4>4. parts[s] < times[s]
        BY <4>3, <1>3
      <4> QED
        BY <4>4, <1>3
    <3> QED
      BY <3>1, <3>2
  <2>2. SumFunctionOnSet(parts, QuotaSections) <= SumFunctionOnSet(times, QuotaSections)
    BY <1>0, <1>3, <2>1, SumAtMost
  <2>3. Budget * Demand <= SumFunction(g) * Demand
    BY <2>2, <1>1, <1>2, <1>4, <1>5
  <2>4. Budget * Demand < SumFunction(g) * Demand + Demand
    <3> DEFINE x == SumFunction(g) * Demand
               y == Budget * Demand
    <3>1. x \in Int /\ y \in Int /\ y <= x
      BY <2>3, <1>0, <1>1, <1>2
    <3> HIDE DEF x, y
    <3>2. y < x + Demand
      BY <3>1, <1>1
    <3> QED
      BY <3>2 DEF x, y
  <2> QED
    BY <2>4, <1>0, <1>1, <1>2, Cancelled
<1> QED
  BY <1>6, <1>7

LEMMA BudgetStarts == BudgetInit => BudgetInv
<1> SUFFICES ASSUME BudgetInit PROVE BudgetInv
  OBVIOUS
<1>1. /\ supply \in [QuotaSections -> Nat]
      /\ Nothing \in [QuotaSections -> Nat] /\ \A s \in QuotaSections : Nothing[s] = 0
  BY BudgetAssumption DEF BudgetInit, QuotaSections, Nothing
<1>2. \A s \in QuotaSections : Quota[s] \in Nat
  BY BudgetAssumption DEF QuotaSections
<1>3. BudgetTyped
  BY <1>1 DEF BudgetInit, BudgetTyped
<1>4. \A s \in QuotaSections : desired[s] <= AtMost(supply[s], Quota[s])
  BY <1>1, <1>2 DEF BudgetInit, AtMost
<1> QED
  BY <1>3, <1>4 DEF BudgetInit, BudgetInv

LEMMA MeasureKeeps == BudgetInv /\ Measure => BudgetInv'
<1> SUFFICES ASSUME BudgetInv, Measure PROVE BudgetInv'
  OBVIOUS
<1>1. \A s \in QuotaSections : Quota[s] \in Nat
  BY BudgetAssumption DEF QuotaSections
<1>2. \A s \in QuotaSections : supply[s] \in Nat
  BY DEF BudgetInv, BudgetTyped
<1>3. /\ desired' \in [QuotaSections -> Nat]
      /\ \A s \in QuotaSections : desired'[s] <= AtMost(supply[s], Quota[s])
  BY <1>1, <1>2 DEF Measure, Desired, AtMost
<1>4. BudgetTyped'
  BY <1>3 DEF Measure, BudgetInv, BudgetTyped
<1>5. Budget \in Nat /\ SumFunction(desired') \in Nat /\ Demand' = SumFunction(desired')
  BY <1>3, SectionSum, BudgetAssumption DEF Demand
<1>6. CASE SumFunction(desired') <= Budget
  BY <1>3, <1>4, <1>5, <1>6 DEF Measure, BudgetInv
<1>7. CASE SumFunction(desired') > Budget
  <2>1. phase' = "scale" /\ allocation' = allocation /\ allocation = Nothing
    BY <1>5, <1>7 DEF Measure, BudgetInv
  <2> QED
    BY <1>3, <1>4, <1>5, <1>7, <2>1 DEF Measure, BudgetInv, Nothing
<1> QED
  BY <1>5, <1>6, <1>7

LEMMA ScaleKeeps == BudgetInv /\ Scale => BudgetInv'
<1> SUFFICES ASSUME BudgetInv, Scale PROVE BudgetInv'
  OBVIOUS
<1>1. BudgetTyped /\ Demand > Budget /\ Budget \in Nat
  BY BudgetAssumption DEF BudgetInv, Scale
<1>2. /\ allocation' = [s \in QuotaSections |-> Share(s)]
      /\ allocation' \in [QuotaSections -> Nat]
  BY <1>1, ShareBounds DEF Scale
<1>3. SumFunction(allocation') <= Budget /\ SumFunction(allocation') \in Nat
  BY <1>1, <1>2, SharesFit, SectionSum
<1>4. remaining' \in Int /\ remaining' >= 0 /\ SumFunction(allocation') + remaining' = Budget
  <2>1. remaining' = Budget - SumFunction(allocation')
    BY DEF Scale
  <2> QED
    BY <2>1, <1>1, <1>3
<1>5. BudgetTyped'
  BY <1>1, <1>2, <1>4 DEF BudgetTyped, Scale
<1>6. \A s \in QuotaSections : (Share(s))' = Share(s)
  BY DEF Share, Scale
<1>7. allocation' = [s \in QuotaSections |-> (Share(s))' + IF s \in waiting' THEN 0 ELSE (TopUpOf(s))']
  <2>1. waiting' = QuotaSections
    BY DEF Scale
  <2>2. \A s \in QuotaSections : Share(s) = (Share(s))' + 0
    BY <1>1, <1>6, ShareBounds
  <2> QED
    BY <1>2, <2>1, <2>2
<1>8. Demand' = Demand /\ waiting' = QuotaSections
  BY DEF Demand, Scale
<1>9. Scaled'
  BY <1>1, <1>4, <1>7, <1>8 DEF Scaled
<1> QED
  BY <1>5, <1>9 DEF Scale, BudgetInv

(* The sections that are served next asked for no less than those who wait. *)
LEMMA TopUpKeeps == BudgetInv /\ TopUp => BudgetInv'
<1> SUFFICES ASSUME BudgetInv, TopUp PROVE BudgetInv'
  OBVIOUS
<1>1. BudgetTyped /\ Scaled /\ Budget \in Nat
  BY BudgetAssumption DEF BudgetInv, TopUp
<1>2. PICK s \in NextSections :
         /\ allocation' = [allocation EXCEPT ![s] = @ + Extra(s)]
         /\ remaining' = remaining - Extra(s)
         /\ waiting' = waiting \ {s}
  BY DEF TopUp
<1>3. s \in waiting /\ s \in QuotaSections /\ \A t \in waiting : desired[t] <= desired[s]
  BY <1>1, <1>2 DEF NextSections, BudgetTyped
<1>4. \A t \in QuotaSections : Share(t) \in Nat /\ TopUpOf(t) \in {0, 1} /\ desired[t] \in Nat
  BY <1>1, ShareBounds DEF Scaled, TopUpOf, BudgetTyped
<1>5. allocation[s] = Share(s) /\ Extra(s) = TopUpOf(s)
  <2>1. allocation[s] = Share(s)
    BY <1>1, <1>3, <1>4 DEF Scaled
  <2> QED
    BY <2>1, <1>3, <1>4 DEF Extra, Headroom, TopUpOf
<1>6. allocation' \in [QuotaSections -> Nat] /\ allocation'[s] = allocation[s] + Extra(s)
      /\ \A t \in QuotaSections : t # s => allocation'[t] = allocation[t]
  <2>1. allocation \in [QuotaSections -> Nat]
    BY <1>1 DEF BudgetTyped
  <2>2. allocation[s] + Extra(s) \in Nat
    BY <2>1, <1>3, <1>4, <1>5
  <2> QED
    BY <2>1, <2>2, <1>2, <1>3
<1>7. remaining' \in Int /\ remaining' >= 0
  <2>1. remaining \in Int /\ remaining > 0
    BY <1>1 DEF BudgetTyped, TopUp
  <2>2. Extra(s) \in {0, 1} /\ remaining' = remaining - Extra(s)
    BY <1>2, <1>3, <1>4, <1>5
  <2> QED
    BY <2>1, <2>2
<1>8. SumFunction(allocation') + remaining' = Budget
  <2>1. IsFiniteSet(QuotaSections)
    BY BudgetAssumption DEF QuotaSections
  <2>2. \A t \in QuotaSections : allocation[t] \in Int /\ allocation'[t] \in Int
    <3>1. allocation \in [QuotaSections -> Nat]
      BY <1>1 DEF BudgetTyped
    <3> QED
      BY <3>1, <1>6
  <2>3. SumFunctionOnSet(allocation', QuotaSections)
           = SumFunctionOnSet(allocation, QuotaSections) + (allocation'[s] - allocation[s])
    BY <2>1, <2>2, <1>3, <1>6, SumChanged
  <2>4. SumFunction(allocation') = SumFunctionOnSet(allocation', QuotaSections)
    BY <1>6, SectionSum
  <2>5. /\ SumFunction(allocation) = SumFunctionOnSet(allocation, QuotaSections)
        /\ SumFunction(allocation) \in Nat
    BY <1>1, SectionSum DEF BudgetTyped
  <2>6. SumFunction(allocation) + remaining = Budget
    BY <1>1 DEF Scaled
  <2> QED
    <3>1. /\ allocation[s] \in Int /\ Extra(s) \in Int /\ remaining \in Int
          /\ allocation'[s] = allocation[s] + Extra(s) /\ remaining' = remaining - Extra(s)
      <4>1. allocation[s] \in Int /\ Extra(s) \in Int
        BY <2>2, <1>3, <1>4, <1>5
      <4>2. remaining \in Int
        BY <1>1 DEF BudgetTyped
      <4> QED
        BY <4>1, <4>2, <1>2, <1>6
    <3>2. SumFunction(allocation') = SumFunction(allocation) + (allocation'[s] - allocation[s])
      BY <2>3, <2>4, <2>5
    <3> DEFINE total == SumFunction(allocation)
               later == SumFunction(allocation')
    <3>3. later = total + Extra(s) /\ total \in Int /\ total + remaining = Budget
      BY <3>1, <3>2, <2>5, <2>6
    <3> HIDE DEF total, later
    <3>4. later + remaining' = Budget
      BY <3>1, <3>3, <1>1
    <3> QED
      BY <3>4 DEF later
<1>9. BudgetTyped' /\ Demand' = Demand
  BY <1>1, <1>2, <1>6, <1>7 DEF BudgetTyped, Demand, TopUp
<1>10. \A t \in QuotaSections : (Share(t))' = Share(t) /\ (TopUpOf(t))' = TopUpOf(t)
  BY DEF Share, TopUpOf, TopUp
<1>11. allocation' = [t \in QuotaSections |-> (Share(t))' + IF t \in waiting' THEN 0 ELSE (TopUpOf(t))']
  <2>1. \A t \in QuotaSections :
           allocation'[t] = Share(t) + IF t \in waiting' THEN 0 ELSE TopUpOf(t)
    BY <1>1, <1>2, <1>3, <1>4, <1>5, <1>6 DEF Scaled
  <2>2. allocation' = [t \in QuotaSections |-> allocation'[t]]
    BY <1>6
  <2> QED
    BY <2>1, <2>2, <1>10
<1>12. \A t \in waiting' : \A u \in QuotaSections \ waiting' : desired'[t] <= desired'[u]
  BY <1>1, <1>2, <1>3, <1>4 DEF Scaled, TopUp
<1>13. Scaled'
  BY <1>1, <1>7, <1>8, <1>9, <1>11, <1>12 DEF Scaled
<1> QED
  BY <1>9, <1>13 DEF TopUp, BudgetInv

LEMMA SettleKeeps == BudgetInv /\ Settle => BudgetInv'
<1> SUFFICES ASSUME BudgetInv, Settle PROVE BudgetInv'
  OBVIOUS
<1>1. BudgetTyped'
  BY DEF BudgetInv, BudgetTyped, Settle
<1>2. Scaled' /\ LoopEnds'
  BY DEF BudgetInv, Scaled, Settle, LoopEnds, Demand, TopUpOf, Share
<1> QED
  BY <1>1, <1>2 DEF BudgetInv, Settle

LEMMA BudgetInductive == BudgetSpec => []BudgetInv
<1>1. BudgetInv /\ UNCHANGED budgetVars => BudgetInv'
  BY DEF BudgetInv, BudgetTyped, Scaled, LoopEnds, Demand, TopUpOf, Share, budgetVars, Nothing
<1>2. BudgetInv /\ [BudgetNext]_budgetVars => BudgetInv'
  BY <1>1, MeasureKeeps, ScaleKeeps, TopUpKeeps, SettleKeeps DEF BudgetNext
<1> QED
  BY <1>2, BudgetStarts, PTL DEF BudgetSpec

(* _allocate_section_budget hands out every place of the budget, in order   *)
(* and in proportion.                                                       *)
THEOREM BudgetIsApportioned == BudgetSpec => []Apportioned
<1>0. Budget \in Nat /\ IsFiniteSet(QuotaSections) /\ \A s \in QuotaSections : Quota[s] \in Nat
  BY BudgetAssumption DEF QuotaSections
<1>1. ASSUME BudgetInv, Scaled
      PROVE  /\ \A s \in QuotaSections :
                   /\ allocation[s] \in Nat /\ Share(s) \in Nat /\ desired[s] \in Nat
                   /\ allocation[s] = Share(s) \/ allocation[s] = Share(s) + 1
                   /\ s \in waiting => allocation[s] = Share(s)
                   /\ s \notin waiting /\ desired[s] > 0 => allocation[s] = Share(s) + 1
                   /\ allocation[s] <= desired[s]
             /\ Demand \in Nat /\ Demand > Budget
             /\ SumFunction(allocation) <= Budget
             /\ SumFunction(allocation) \in Nat
             /\ SumFunction(allocation) + remaining = Budget
  <2>1. BudgetTyped /\ Demand > Budget
    BY <1>1 DEF BudgetInv, Scaled
  <2>2. SumFunction(allocation) \in Nat /\ Demand \in Nat
    BY <2>1, SectionSum DEF BudgetTyped, Demand
  <2>3. SumFunction(allocation) <= Budget /\ SumFunction(allocation) + remaining = Budget
    <3>1. remaining \in Int /\ remaining >= 0 /\ SumFunction(allocation) + remaining = Budget
      BY <1>1, <2>1 DEF Scaled, BudgetTyped
    <3> QED
      BY <3>1, <2>2, <1>0
  <2>4. ASSUME NEW s \in QuotaSections
        PROVE  /\ allocation[s] \in Nat /\ Share(s) \in Nat /\ desired[s] \in Nat
               /\ allocation[s] = Share(s) \/ allocation[s] = Share(s) + 1
               /\ s \in waiting => allocation[s] = Share(s)
               /\ s \notin waiting /\ desired[s] > 0 => allocation[s] = Share(s) + 1
               /\ allocation[s] <= desired[s]
    <3>1. allocation[s] \in Nat /\ desired[s] \in Nat
      BY <2>1 DEF BudgetTyped
    <3>2. /\ Share(s) \in Nat /\ Share(s) + TopUpOf(s) <= desired[s]
          /\ desired[s] > 0 => TopUpOf(s) = 1
      BY <2>1, ShareBounds
    <3>3. allocation[s] = Share(s) + IF s \in waiting THEN 0 ELSE TopUpOf(s)
      BY <1>1 DEF Scaled
    <3>4. TopUpOf(s) \in {0, 1}
      BY DEF TopUpOf
    <3> QED
      BY <3>1, <3>2, <3>3, <3>4
  <2> QED
    BY <2>1, <2>2, <2>3, <2>4
<1>2. BudgetInv => BudgetRespected
  <2> SUFFICES ASSUME BudgetInv PROVE BudgetRespected
    OBVIOUS
  <2>1. \A s \in QuotaSections :
           /\ allocation[s] \in Nat /\ desired[s] \in Nat /\ supply[s] \in Nat
           /\ desired[s] <= AtMost(supply[s], Quota[s]) /\ AtMost(supply[s], Quota[s]) \in Nat
    BY <1>0 DEF BudgetInv, BudgetTyped, AtMost
  <2>2. CASE phase \in {"measure", "scale"}
    <3>1. allocation = Nothing /\ \A s \in QuotaSections : Nothing[s] = 0
      BY <2>2 DEF BudgetInv, Nothing
    <3>2. SumFunctionOnSet(allocation, QuotaSections) = 0
      BY <1>0, <3>1, SumOfZeros
    <3>3. SumFunction(allocation) = 0
      BY <3>2, SectionSum DEF BudgetInv, BudgetTyped
    <3>4. \A s \in QuotaSections : allocation[s] <= AtMost(supply[s], Quota[s])
      BY <2>1, <3>1
    <3>5. SumFunction(allocation) <= Budget
      BY <1>0, <3>3
    <3>6. phase # "top up"
      BY <2>2
    <3> QED
      BY <3>4, <3>5, <3>6 DEF BudgetRespected
  <2>3. CASE Scaled
    <3>1. /\ \A s \in QuotaSections : allocation[s] <= desired[s]
          /\ SumFunction(allocation) <= Budget
          /\ SumFunction(allocation) + remaining = Budget
      BY <2>3, <1>1
    <3>2. \A s \in QuotaSections : allocation[s] <= AtMost(supply[s], Quota[s])
      <4> SUFFICES ASSUME NEW s \in QuotaSections
                   PROVE  allocation[s] <= AtMost(supply[s], Quota[s])
        OBVIOUS
      <4> DEFINE most == AtMost(supply[s], Quota[s])
      <4>1. allocation[s] <= desired[s] /\ desired[s] <= most
            /\ allocation[s] \in Nat /\ desired[s] \in Nat /\ most \in Nat
        BY <2>1, <3>1
      <4> HIDE DEF most
      <4>2. allocation[s] <= most
        BY <4>1
      <4> QED
        BY <4>2 DEF most
    <3> QED
      BY <3>1, <3>2 DEF BudgetRespected
  <2>4. CASE phase = "done" /\ allocation = desired /\ Demand <= Budget
    BY <2>1, <2>4 DEF BudgetRespected, Demand
  <2> QED
    BY <2>2, <2>3, <2>4 DEF BudgetInv, BudgetTyped
<1>3. BudgetInv => BudgetUsed
  <2> SUFFICES ASSUME BudgetInv, phase = "done"
               PROVE  SumFunction(allocation) = AtMost(Budget, Demand)
    BY DEF BudgetUsed, Demand
  <2>1. Demand \in Nat /\ BudgetTyped
    BY SectionSum DEF BudgetInv, BudgetTyped, Demand
  <2>2. CASE allocation = desired /\ Demand <= Budget
    BY <2>1, <2>2, <1>0 DEF Demand, AtMost
  <2>3. CASE Scaled /\ LoopEnds
    <3>1. /\ remaining \in Int /\ remaining >= 0
          /\ SumFunction(allocation) + remaining = Budget
          /\ SumFunction(allocation) \in Nat /\ Demand > Budget
      BY <2>1, <2>3, <1>1 DEF Scaled, BudgetTyped
    <3>2. CASE remaining <= 0
      BY <3>1, <3>2, <2>1, <1>0 DEF AtMost
    <3>3. CASE waiting = {}
      <4>1. \A s \in QuotaSections : allocation[s] = Share(s) + TopUpOf(s)
        BY <2>3, <3>3 DEF Scaled
      <4>2. SumFunction(allocation) >= Budget
        BY <4>1, <3>1, <2>1, SharesFit DEF BudgetTyped
      <4> QED
        BY <4>2, <3>1, <2>1, <1>0 DEF AtMost
    <3> QED
      BY <2>3, <3>2, <3>3 DEF LoopEnds
  <2> QED
    BY <2>2, <2>3 DEF BudgetInv
<1>4. BudgetInv => OrderKept
  <2> SUFFICES ASSUME BudgetInv, phase = "done", NEW s \in QuotaSections, NEW t \in QuotaSections,
                      desired[s] > desired[t]
               PROVE  allocation[s] >= allocation[t]
    BY DEF OrderKept
  <2>1. BudgetTyped /\ desired[s] \in Nat /\ desired[t] \in Nat
    BY DEF BudgetInv, BudgetTyped
  <2>2. CASE allocation = desired
    BY <2>1, <2>2
  <2>3. CASE Scaled
    <3>1. Share(t) <= Share(s)
      BY <2>1, <2>3, ShareBounds DEF Scaled
    <3>2. s \in waiting => t \in waiting
      BY <2>1, <2>3 DEF Scaled
    <3>3. /\ allocation[s] \in Nat /\ allocation[t] \in Nat /\ Share(s) \in Nat /\ Share(t) \in Nat
          /\ allocation[t] = Share(t) \/ allocation[t] = Share(t) + 1
          /\ t \in waiting => allocation[t] = Share(t)
          /\ allocation[s] = Share(s) \/ allocation[s] = Share(s) + 1
          /\ s \notin waiting => allocation[s] = Share(s) + 1
      BY <2>1, <2>3, <1>1
    <3> QED
      BY <3>1, <3>2, <3>3
  <2> QED
    BY <2>2, <2>3 DEF BudgetInv
<1>5. BudgetInv => SharesAreFair
  <2> SUFFICES ASSUME BudgetInv, phase = "done", Demand > Budget, NEW s \in QuotaSections
               PROVE  /\ -Demand < allocation[s] * Demand - desired[s] * Budget
                      /\ allocation[s] * Demand - desired[s] * Budget <= Demand
    BY DEF SharesAreFair, Demand
  <2>1. Demand \in Nat
    BY SectionSum DEF BudgetInv, BudgetTyped, Demand
  <2>2. Scaled /\ BudgetTyped
    BY <2>1, <1>0 DEF BudgetInv
  <2>3. /\ Share(s) \in Nat /\ desired[s] \in Nat
        /\ allocation[s] = Share(s) \/ allocation[s] = Share(s) + 1
        /\ Share(s) * Demand <= desired[s] * Budget
        /\ desired[s] * Budget < Share(s) * Demand + Demand
    BY <2>2, <1>1, ShareBounds DEF Scaled
  <2> DEFINE part == Share(s) * Demand
             due == desired[s] * Budget
  <2>4. part \in Int /\ due \in Int /\ part <= due /\ due < part + Demand
    BY <2>1, <2>3, <1>0
  <2>5. allocation[s] * Demand = part \/ allocation[s] * Demand = part + Demand
    <3>1. (Share(s) + 1) * Demand = Share(s) * Demand + Demand
      BY <2>1, <2>3
    <3> QED
      BY <3>1, <2>3
  <2> DEFINE got == allocation[s] * Demand
  <2> HIDE DEF part, got
  <2>6. got = part \/ got = part + Demand
    BY <2>5 DEF got
  <2>7. -Demand < got - due /\ got - due <= Demand
    <3> HIDE DEF due
    <3> QED
      BY <2>1, <2>4, <2>6
  <2> QED
    BY <2>7 DEF got
<1> QED
  BY <1>2, <1>3, <1>4, <1>5, BudgetInductive, PTL DEF Apportioned

-----------------------------------------------------------------------------
(* The figures from FinMind.                                                *)

(* The largest of finitely many places is one of them. *)
LEMMA LargestPlace ==
    ASSUME NEW n \in Nat, NEW S \in SUBSET (1..n), S # {}
    PROVE  Max(S) \in S /\ \A x \in S : x <= Max(S)
<1> DEFINE Gaps == {n - x : x \in S}
<1>0. \A x \in S : x \in Nat /\ n - x \in Nat
  OBVIOUS
<1>1. Gaps \subseteq Nat /\ Gaps # {}
  BY <1>0
<1>2. PICK g \in Gaps : \A h \in Gaps : ~(<<h, g>> \in OpToRel(<, Nat))
  <2> HIDE DEF Gaps
  <2> QED
    BY <1>1, WFMin, NatLessThanWellFounded
<1>3. \A h \in Gaps : g <= h
  <2> SUFFICES ASSUME NEW h \in Gaps PROVE g <= h
    OBVIOUS
  <2>1. h \in Nat /\ g \in Nat
    BY <1>1
  <2>2. h < g => <<h, g>> \in OpToRel(<, Nat)
    BY <2>1 DEF OpToRel
  <2>3. ~(h < g)
    BY <1>2, <2>2
  <2> HIDE DEF Gaps
  <2> QED
    BY <2>1, <2>3
<1>4. PICK x \in S : g = n - x
  OBVIOUS
<1>5. \A y \in S : y <= x
  <2> SUFFICES ASSUME NEW y \in S PROVE y <= x
    OBVIOUS
  <2>1. n - y \in Gaps /\ g <= n - y
    BY <1>3
  <2> QED
    BY <1>0, <1>4, <2>1
<1> QED
  BY <1>5 DEF Max

(* A record is appended; those before it stay. *)
LEMMA StatementsHere ==
    ASSUME ExternalTyped
    PROVE  /\ Len(records) \in Nat
           /\ DOMAIN records = 1..Len(records)
           /\ \A n \in DOMAIN records : records[n] \in Record
           /\ Statements \subseteq 1..Len(records)
           /\ IsFiniteSet(Statements)
<1>1. records \in Seq(Record)
  BY DEF ExternalTyped
<1>2. /\ Len(records) \in Nat /\ DOMAIN records = 1..Len(records)
      /\ \A n \in DOMAIN records : records[n] \in Record
  BY <1>1
<1>3. Statements \subseteq 1..Len(records)
  BY <1>2 DEF Statements
<1>4. IsFiniteSet(1..Len(records))
  BY <1>2, FS_Interval
<1> QED
  BY <1>2, <1>3, <1>4, FS_Subset

(* What a comparison says, and with which record. *)
LEMMA CompareIs ==
    ASSUME ExternalTyped, NEW metric \in Metrics, NEW figure \in Figures
    PROVE  LET v == Compare(metric, figure)
           IN  /\ v \in Verdicts
               /\ v.metric = metric /\ v.figure = figure
               /\ Naming(metric) = {} => v.with = None /\ v.answer = "not_comparable"
               /\ Naming(metric) # {} =>
                     /\ Max(Naming(metric)) \in Naming(metric)
                     /\ \A n \in Naming(metric) : n <= Max(Naming(metric))
                     /\ v.with = records[Max(Naming(metric))] /\ v.with \in Record
                     /\ v.answer = "consistent" =>
                           /\ figure # Unreadable /\ v.with.value # Unreadable
                           /\ IsClose(figure, v.with.value)
<1>1. Naming(metric) \subseteq 1..Len(records) /\ Len(records) \in Nat
  BY StatementsHere DEF Naming, Newest
<1>2. CASE Naming(metric) = {}
  BY <1>2 DEF Compare, Verdicts
<1>3. CASE Naming(metric) # {}
  <2>1. Max(Naming(metric)) \in Naming(metric) /\ \A n \in Naming(metric) : n <= Max(Naming(metric))
    BY <1>1, <1>3, LargestPlace
  <2>2. Max(Naming(metric)) \in DOMAIN records
    BY <2>1 DEF Naming, Newest, Statements
  <2> DEFINE row == records[Max(Naming(metric))]
  <2>3. row \in Record
    BY <2>2, StatementsHere
  <2>4. Compare(metric, figure) =
           [answer |-> IF figure # Unreadable /\ row.value # Unreadable
                            /\ IsClose(figure, row.value)
                         THEN "consistent" ELSE "needs_review",
              metric |-> metric, figure |-> figure, with |-> row]
    BY <1>3 DEF Compare
  <2> HIDE DEF row
  <2>5. Compare(metric, figure) \in Verdicts
    BY <2>3, <2>4 DEF Verdicts
  <2>6. Compare(metric, figure).with = row
    BY <2>4
  <2>7. Compare(metric, figure).answer = "consistent" =>
           figure # Unreadable /\ row.value # Unreadable /\ IsClose(figure, row.value)
    BY <2>4
  <2>8. Compare(metric, figure).metric = metric /\ Compare(metric, figure).figure = figure
    BY <2>4
  <2> QED
    BY <1>3, <2>1, <2>3, <2>5, <2>6, <2>7, <2>8 DEF row
<1> QED
  BY <1>2, <1>3

(* Figures within five per cent of each other have a sign in common and are  *)
(* nearly of the same size.                                                  *)
LEMMA CloseMeans ==
    ASSUME NEW figure \in Int, NEW value \in Int, IsClose(figure, value), Size(value) > 100
    PROVE  /\ figure > 0 <=> value > 0
           /\ 2 * Size(figure) > Size(value)
           /\ Size(figure) < 2 * Size(value)
BY DEF IsClose, Size

(* A verdict that calls figures consistent is of a statement and close. *)
Founded ==
    verdict # None =>
        /\ verdict.with # None => verdict.with.kind = "financial_statement"
                                  /\ verdict.with.metric = verdict.metric
        /\ verdict.answer = "consistent" =>
              /\ verdict.with # None
              /\ verdict.figure \in Int /\ verdict.with.value \in Int
              /\ IsClose(verdict.figure, verdict.with.value)

ExternalInv == ExternalTyped /\ Founded

LEMMA ExternalStarts == ExternalInit => ExternalInv
<1> SUFFICES ASSUME ExternalInit PROVE ExternalInv
  OBVIOUS
<1>1. <<>> \in Seq(Record) /\ <<>> \in Seq(Row) /\ DOMAIN <<>> = {}
  BY EmptySeq
<1>2. fetch = [i \in Fetchers |-> NoFetch]
      /\ NoFetch \in [number : Nat, kind : Kinds \union {None}, rows : Seq(Row)]
      /\ NoFetch.number = 0 /\ NoFetch.rows = <<>>
  BY <1>1 DEF ExternalInit, NoFetch
<1>3. MaxFetches \in Nat /\ MaxBreaks \in Nat
  BY ExternalAssumption
<1> QED
  BY <1>1, <1>2, <1>3 DEF ExternalInit, ExternalInv, ExternalTyped, Founded

LEMMA FetchKeeps ==
    ASSUME ExternalInv, NEW i \in Fetchers, Fetch(i)
    PROVE  ExternalInv'
<1>1. PICK kind \in Kinds, rows \in Replies :
         fetch' = [fetch EXCEPT ![i] = [number |-> fetches + 1, kind |-> kind, rows |-> rows]]
  BY DEF Fetch
<1>2. /\ fetches \in Nat /\ fetches' = fetches + 1 /\ fetches' \in 0..MaxFetches
      /\ records' = records /\ verdict' = verdict /\ breaks' = breaks
      /\ 0..fetches \subseteq 0..fetches'
  BY ExternalAssumption DEF ExternalInv, ExternalTyped, Fetch
<1> DEFINE mine == [number |-> fetches + 1, kind |-> kind, rows |-> rows]
<1>3. mine \in [number : Nat, kind : Kinds \union {None}, rows : Seq(Row)]
      /\ mine.number \in 0..fetches' /\ mine.kind \in Kinds
  BY <1>2, ExternalAssumption
<1> HIDE DEF mine
<1>4. /\ fetch' \in [Fetchers -> [number : Nat, kind : Kinds \union {None}, rows : Seq(Row)]]
      /\ \A j \in Fetchers : fetch'[j] = IF j = i THEN mine ELSE fetch[j]
  BY <1>1, <1>3 DEF ExternalInv, ExternalTyped, mine
<1>5. \A j \in Fetchers :
         fetch'[j].number \in 0..fetches' /\ (fetch'[j].rows # <<>> => fetch'[j].kind \in Kinds)
  BY <1>2, <1>3, <1>4 DEF ExternalInv, ExternalTyped
<1>6. \A n \in DOMAIN records' : records'[n].number \in 0..fetches'
  BY <1>2 DEF ExternalInv, ExternalTyped
<1>7. ExternalTyped'
  BY <1>2, <1>4, <1>5, <1>6 DEF ExternalInv, ExternalTyped
<1>8. Founded'
  BY <1>2 DEF ExternalInv, Founded
<1> QED
  BY <1>7, <1>8 DEF ExternalInv

LEMMA SaveRowKeeps ==
    ASSUME ExternalInv, NEW i \in Fetchers, SaveRow(i)
    PROVE  ExternalInv'
<1> DEFINE rows == fetch[i].rows
           new == [kind |-> fetch[i].kind, number |-> fetch[i].number,
                   metric |-> Head(rows).metric, value |-> Head(rows).value]
<1>1. /\ rows \in Seq(Row) /\ rows # <<>> /\ fetch[i].kind \in Kinds
      /\ fetch[i].number \in 0..fetches /\ fetch[i].number \in Nat
      /\ fetch' = [fetch EXCEPT ![i].rows = Tail(rows)]
      /\ records' = Append(records, new)
      /\ verdict' = verdict /\ breaks' = breaks /\ fetches' = fetches
  BY DEF ExternalInv, ExternalTyped, SaveRow
<1>2. Head(rows) \in Row /\ Tail(rows) \in Seq(Row)
  BY <1>1, HeadTailProperties
<1>3. new \in Record /\ new.number \in 0..fetches
  BY <1>1, <1>2 DEF Row, Record
<1> HIDE DEF new
<1>4. /\ records' \in Seq(Record)
      /\ \A n \in DOMAIN records' : records'[n].number \in 0..fetches
  <2>1. records \in Seq(Record) /\ \A n \in DOMAIN records : records[n].number \in 0..fetches
    BY DEF ExternalInv, ExternalTyped
  <2> QED
    BY <1>1, <1>3, <2>1, AppendProperties
<1>5. /\ fetch' \in [Fetchers -> [number : Nat, kind : Kinds \union {None}, rows : Seq(Row)]]
      /\ \A j \in Fetchers : fetch'[j].number = fetch[j].number /\ fetch'[j].kind = fetch[j].kind
      /\ \A j \in Fetchers : j # i => fetch'[j] = fetch[j]
  <2>1. fetch \in [Fetchers -> [number : Nat, kind : Kinds \union {None}, rows : Seq(Row)]]
    BY DEF ExternalInv, ExternalTyped
  <2> HIDE DEF rows
  <2> QED
    BY <1>1, <1>2, <2>1
<1>6. \A j \in Fetchers :
         fetch'[j].number \in 0..fetches /\ (fetch'[j].rows # <<>> => fetch'[j].kind \in Kinds)
  BY <1>1, <1>5 DEF ExternalInv, ExternalTyped
<1>7. ExternalTyped'
  BY <1>1, <1>4, <1>5, <1>6 DEF ExternalInv, ExternalTyped
<1>8. Founded'
  BY <1>1 DEF ExternalInv, Founded
<1> QED
  BY <1>7, <1>8 DEF ExternalInv

(* An instance that is done, or that broke off, starts from nothing. *)
LEMMA ResetKeeps ==
    ASSUME ExternalInv, NEW i \in Fetchers, Fetched(i) \/ BreakOff(i)
    PROVE  ExternalInv'
<1>1. /\ fetch' = [fetch EXCEPT ![i] = NoFetch]
      /\ records' = records /\ verdict' = verdict /\ fetches' = fetches
      /\ breaks' \in 0..MaxBreaks
  BY ExternalAssumption DEF ExternalInv, ExternalTyped, Fetched, BreakOff
<1>2. /\ NoFetch \in [number : Nat, kind : Kinds \union {None}, rows : Seq(Row)]
      /\ NoFetch.number = 0 /\ NoFetch.rows = <<>>
  BY EmptySeq DEF NoFetch
<1>3. /\ fetch' \in [Fetchers -> [number : Nat, kind : Kinds \union {None}, rows : Seq(Row)]]
      /\ \A j \in Fetchers : fetch'[j] = IF j = i THEN NoFetch ELSE fetch[j]
  BY <1>1, <1>2 DEF ExternalInv, ExternalTyped
<1>4. fetches \in Nat
  BY ExternalAssumption DEF ExternalInv, ExternalTyped
<1>5. \A j \in Fetchers :
         fetch'[j].number \in 0..fetches /\ (fetch'[j].rows # <<>> => fetch'[j].kind \in Kinds)
  <2>1. NoFetch.number \in 0..fetches
    BY <1>2, <1>4
  <2>2. \A j \in Fetchers :
           fetch[j].number \in 0..fetches /\ (fetch[j].rows # <<>> => fetch[j].kind \in Kinds)
    BY DEF ExternalInv, ExternalTyped
  <2> QED
    BY <1>2, <1>3, <2>1, <2>2
<1>6. ExternalTyped'
  BY <1>1, <1>3, <1>5 DEF ExternalInv, ExternalTyped
<1>7. Founded'
  BY <1>1 DEF ExternalInv, Founded
<1> QED
  BY <1>6, <1>7 DEF ExternalInv

LEMMA CrosscheckKeeps == ExternalInv /\ Crosscheck => ExternalInv'
<1> SUFFICES ASSUME ExternalInv, Crosscheck PROVE ExternalInv'
  OBVIOUS
<1>1. PICK metric \in Metrics, figure \in Figures : verdict' = Compare(metric, figure)
  BY DEF Crosscheck
<1>2. ExternalTyped
  BY DEF ExternalInv
<1>3. verdict' \in Verdicts
  BY <1>1, <1>2, CompareIs
<1>4. ExternalTyped'
  BY <1>2, <1>3 DEF ExternalTyped, Crosscheck
<1>5. CASE Naming(metric) = {}
  <2>1. verdict'.with = None /\ verdict'.answer = "not_comparable"
    BY <1>1, <1>2, <1>5, CompareIs
  <2> QED
    BY <1>4, <2>1 DEF ExternalInv, Founded
<1>6. CASE Naming(metric) # {}
  <2>1. /\ Max(Naming(metric)) \in Naming(metric)
        /\ verdict'.metric = metric /\ verdict'.figure = figure
        /\ verdict'.with = records[Max(Naming(metric))] /\ verdict'.with \in Record
    BY <1>1, <1>2, <1>6, CompareIs
  <2>2. verdict'.answer = "consistent" =>
           /\ figure # Unreadable /\ verdict'.with.value # Unreadable
           /\ IsClose(figure, verdict'.with.value)
    BY <1>1, <1>2, <1>6, CompareIs
  <2>3. verdict'.with.kind = "financial_statement" /\ verdict'.with.metric = metric
    BY <2>1 DEF Naming, Newest, Statements
  <2>4. verdict'.with # None
    BY <2>1, ExternalAssumption
  <2>5. verdict'.answer = "consistent" => figure \in Int /\ verdict'.with.value \in Int
    BY <2>1, <2>2, ExternalAssumption DEF Record
  <2> QED
    BY <1>4, <2>1, <2>2, <2>3, <2>4, <2>5 DEF ExternalInv, Founded, IsClose, Size
<1> QED
  BY <1>5, <1>6

LEMMA ExternalInductive == ExternalSpec => []ExternalInv
<1>1. ExternalInv /\ UNCHANGED externalVars => ExternalInv'
  BY DEF ExternalInv, ExternalTyped, Founded, externalVars
<1>2. ExternalInv /\ ExternalNext => ExternalInv'
  BY FetchKeeps, SaveRowKeeps, ResetKeeps, CrosscheckKeeps DEF ExternalNext
<1> QED
  BY <1>1, <1>2, ExternalStarts, PTL DEF ExternalSpec

(* ExternalDataService.crosscheck: what it calls consistent is a statement   *)
(* of the metric it was asked about, of the same sign and nearly as large.   *)
THEOREM ExternalIsSound == ExternalSpec => []ExternalSound
<1>1. ASSUME ExternalInv, verdict # None, verdict.answer = "consistent"
      PROVE  /\ verdict.with.kind = "financial_statement"
             /\ verdict.with.metric = verdict.metric
             /\ Size(verdict.with.value) > 100 =>
                   (verdict.figure > 0 <=> verdict.with.value > 0)
                   /\ 2 * Size(verdict.figure) > Size(verdict.with.value)
                   /\ Size(verdict.figure) < 2 * Size(verdict.with.value)
  BY <1>1, CloseMeans DEF ExternalInv, Founded
<1>2. ExternalInv => ExternalSound
  BY <1>1 DEF ExternalSound, ConsistentIsClose, ExternalInv
<1> QED
  BY <1>2, ExternalInductive, PTL

(* It looks at the newest figure of the metric, and calls a metric not       *)
(* comparable only when a whole window of newer statements is of others.     *)
THEOREM ExternalComparesNewest == ExternalSpec => ComparesNewest
<1> DEFINE Step ==
        verdict' # verdict =>
          \A n \in Statements :
              records[n].metric = verdict'.metric =>
                  IF verdict'.with = None
                  THEN Cardinality(NewerThan(n)) >= Limit
                  ELSE \E o \in Statements : o >= n /\ records[o] = verdict'.with
<1>1. ASSUME ExternalInv, Crosscheck PROVE Step
  <2>1. PICK metric \in Metrics, figure \in Figures : verdict' = Compare(metric, figure)
    BY <1>1 DEF Crosscheck
  <2>2. ExternalTyped /\ verdict'.metric = metric
    BY <1>1, <2>1, CompareIs DEF ExternalInv
  <2>3. \A n \in Statements : IsFiniteSet(NewerThan(n)) /\ Cardinality(NewerThan(n)) \in Nat
    <3> SUFFICES ASSUME NEW n \in Statements
                 PROVE  IsFiniteSet(NewerThan(n)) /\ Cardinality(NewerThan(n)) \in Nat
      OBVIOUS
    <3>1. NewerThan(n) \subseteq Statements
      BY DEF NewerThan
    <3>2. IsFiniteSet(NewerThan(n))
      BY <3>1, <2>2, StatementsHere, FS_Subset
    <3> QED
      BY <3>2, FS_CardinalityType
  <2>4. Limit \in Nat /\ Statements \subseteq Nat
    BY <2>2, ExternalAssumption, StatementsHere
  <2> SUFFICES ASSUME NEW n \in Statements, records[n].metric = metric
               PROVE  IF verdict'.with = None
                      THEN Cardinality(NewerThan(n)) >= Limit
                      ELSE \E o \in Statements : o >= n /\ records[o] = verdict'.with
    BY <2>2
  <2>5. n \in Naming(metric) \/ Cardinality(NewerThan(n)) >= Limit
    BY <2>3, <2>4 DEF Naming, Newest
  <2>6. CASE Naming(metric) = {}
    <3>1. verdict'.with = None
      BY <2>1, <2>2, <2>6, CompareIs
    <3> QED
      BY <2>5, <2>6, <3>1
  <2>7. CASE Naming(metric) # {}
    <3> DEFINE o == Max(Naming(metric))
    <3>1. /\ o \in Naming(metric) /\ \A m \in Naming(metric) : m <= o
          /\ verdict'.with = records[o] /\ verdict'.with \in Record
      BY <2>1, <2>2, <2>7, CompareIs
    <3> HIDE DEF o
    <3>2. verdict'.with # None
      BY <3>1, ExternalAssumption
    <3>3. o \in Statements /\ Cardinality(NewerThan(o)) < Limit
      BY <3>1 DEF Naming, Newest
    <3>4. o >= n
      <4> SUFFICES ASSUME ~(o >= n) PROVE FALSE
        OBVIOUS
      <4>0. o < n /\ o \in Nat /\ n \in Nat
        BY <3>3, <2>4
      <4>1. o < n /\ NewerThan(n) \subseteq NewerThan(o)
        <5>1. \A m \in Nat : m > n => m > o
          BY <4>0
        <5> QED
          BY <4>0, <5>1, <2>4 DEF NewerThan
      <4>2. Cardinality(NewerThan(n)) <= Cardinality(NewerThan(o))
        BY <4>1, <2>3, <3>3, FS_Subset
      <4>3. Cardinality(NewerThan(n)) < Limit
        BY <4>2, <3>3, <2>3, <2>4
      <4>4. n \in Naming(metric)
        BY <4>3 DEF Naming, Newest
      <4> QED
        BY <4>1, <4>4, <3>1, <3>3, <2>4
    <3> QED
      BY <3>1, <3>2, <3>3, <3>4
  <2> QED
    BY <2>6, <2>7
<1>2. ExternalInv /\ [ExternalNext]_externalVars => [Step]_externalVars
  <2>1. ASSUME NEW i \in Fetchers, Fetch(i) \/ SaveRow(i) \/ Fetched(i) \/ BreakOff(i)
        PROVE  verdict' = verdict
    BY <2>1 DEF Fetch, SaveRow, Fetched, BreakOff
  <2> QED
    BY <1>1, <2>1 DEF ExternalNext
<1>3. [][Step]_externalVars => ComparesNewest
  BY PTL DEF ComparesNewest
<1> QED
  BY <1>2, <1>3, ExternalInductive, PTL DEF ExternalSpec

-----------------------------------------------------------------------------
(* The review patterns and the flags of a summary.                          *)

AnalysesOf == [by : Analysts, report : summarised, after : Nat]
RunsOf == {RunOver(x) : x \in AnalysesOf}

(* An analysis is about no older report than the runs stored before it. *)
Ahead(x) ==
    /\ x.after \in 0..Len(patternRuns)
    /\ \A n \in DOMAIN patternRuns : n <= x.after => patternRuns[n].at <= x.report.at

PatternsInv ==
    /\ instant \in 0..MaxSummarised
    /\ \A r \in summarised \union pending :
          /\ r.at \in 1..instant /\ r.claims \in Batches
          /\ r.narrative = NarrativeFlag(r.claims)
    /\ \A r, s \in summarised \union pending : r.at = s.at => r = s
    /\ patternRuns \in Seq(RunsOf)
    /\ analyses \subseteq AnalysesOf /\ \A x \in analyses : Ahead(x)
    /\ \A n \in DOMAIN patternRuns : patternRuns[n].after \in 0..(n - 1)
    /\ NeverGoesBack

(* Every pattern has a filter. *)
LEMMA PatternsHaveFilters ==
    \A p \in DOMAIN PatternRegistry : 1 \in DOMAIN PatternRegistry[p]
<1>1. /\ 1 \in DOMAIN OperatingVsNetIncome /\ 1 \in DOMAIN NonRecurringEps
      /\ 1 \in DOMAIN FxDrivenProfit /\ 1 \in DOMAIN ExpenseRatioOffset
      /\ 1 \in DOMAIN DebtMaturityRisk /\ 1 \in DOMAIN CustomerConcentration
  BY DEF OperatingVsNetIncome, NonRecurringEps, FxDrivenProfit, ExpenseRatioOffset,
         DebtMaturityRisk, CustomerConcentration
<1> QED
  BY <1>1 DEF PatternRegistry

(* The engine's verdict on one pattern. *)
LEMMA EvaluateIs ==
    ASSUME NEW claims, NEW at, NEW filters, 1 \in DOMAIN filters
    PROVE  LET result == RunFilters(claims, at, filters)
           IN  /\ result.missing \subseteq DOMAIN filters
               /\ result.status = "triggered" =>
                     \A f \in DOMAIN filters :
                        \E x \in at : Meets(claims[x], filters[f]) /\ claims[x].id \in result.sources
               /\ result.status # "triggered" =>
                     result.missing # {}
                     /\ \A f \in result.missing : \A x \in at : ~Meets(claims[x], filters[f])
<1> DEFINE missing == Missing(claims, at, filters)
           sources == Sources(claims, at, filters)
           result == RunFilters(claims, at, filters)
<1>1. /\ missing \subseteq DOMAIN filters
      /\ \A f \in missing : \A x \in at : ~Meets(claims[x], filters[f])
      /\ \A f \in DOMAIN filters \ missing : \E x \in at : Meets(claims[x], filters[f])
  BY DEF Missing, Matching
<1>2. \A f \in DOMAIN filters : \A x \in at : Meets(claims[x], filters[f]) => claims[x].id \in sources
  BY DEF Sources
<1>3. CASE missing # {}
  <2>1. result.status = "insufficient_evidence" /\ result.missing = missing
    BY <1>3 DEF RunFilters
  <2> QED
    BY <1>1, <1>3, <2>1
<1>4. CASE missing = {}
  <2>1. sources # {}
    BY <1>1, <1>2, <1>4
  <2>2. result.status = "triggered" /\ result.missing = {} /\ result.sources = sources
    BY <1>4, <2>1 DEF RunFilters
  <2> HIDE DEF missing, sources, result
  <2>3. \A f \in DOMAIN filters :
           \E x \in at : Meets(claims[x], filters[f]) /\ claims[x].id \in result.sources
    BY <1>1, <1>2, <1>4, <2>2
  <2> QED
    BY <2>2, <2>3 DEF result
<1> QED
  BY <1>3, <1>4

(* The report that was created last is one of the saved ones. *)
LEMMA LatestIs ==
    ASSUME PatternsInv, summarised # {}
    PROVE  Latest \in summarised /\ \A r \in summarised : r.at <= Latest.at
<1> DEFINE times == {r.at : r \in summarised}
<1>1. instant \in Nat /\ times \subseteq 1..instant /\ times # {}
  BY PatternsAssumption DEF PatternsInv
<1>2. Max(times) \in times /\ \A t \in times : t <= Max(times)
  <2> HIDE DEF times
  <2> QED
    BY <1>1, LargestPlace
<1>3. \E r \in summarised : \A s \in summarised : r.at >= s.at
  <2>1. PICK r \in summarised : r.at = Max(times)
    BY <1>2
  <2>2. \A s \in summarised : s.at \in times /\ s.at \in 1..instant
    BY DEF PatternsInv
  <2>3. \A s \in summarised : s.at <= r.at
    BY <1>2, <2>1, <2>2
  <2> QED
    BY <1>1, <2>2, <2>3
<1>4. Latest \in summarised /\ \A s \in summarised : Latest.at >= s.at
  BY <1>3 DEF Latest
<1> QED
  BY <1>1, <1>4 DEF PatternsInv

LEMMA RunsAreNumbered ==
    ASSUME PatternsInv
    PROVE  Len(patternRuns) \in Nat /\ DOMAIN patternRuns = 1..Len(patternRuns)
<1> DEFINE R == RunsOf
<1>1. patternRuns \in Seq(R)
  BY DEF PatternsInv
<1> HIDE DEF R
<1> QED
  BY <1>1

(* A stored run is about a stored report, its clean claims only. *)
LEMMA RunIsOfReport ==
    ASSUME PatternsInv, NEW n \in DOMAIN patternRuns
    PROVE  \E r \in summarised :
              /\ patternRuns[n].at = r.at
              /\ patternRuns[n].results = Results(r.claims, Clean(r.claims))
<1>1. patternRuns[n] \in RunsOf
  <2> DEFINE R == RunsOf
  <2>1. patternRuns \in Seq(R)
    BY DEF PatternsInv
  <2> HIDE DEF R
  <2>2. patternRuns[n] \in R
    BY <2>1
  <2> QED
    BY <2>2 DEF R
<1>2. PICK x \in AnalysesOf : patternRuns[n] = RunOver(x)
  BY <1>1 DEF RunsOf
<1> QED
  BY <1>2 DEF AnalysesOf, RunOver, RunOf

LEMMA PatternsStarts == PatternsInit => PatternsInv
<1> SUFFICES ASSUME PatternsInit PROVE PatternsInv
  OBVIOUS
<1>1. patternRuns \in Seq(RunsOf) /\ DOMAIN patternRuns = {}
  BY EmptySeq DEF PatternsInit
<1>2. MaxSummarised \in Nat
  BY PatternsAssumption
<1>3. NeverGoesBack
  BY <1>1 DEF NeverGoesBack
<1> QED
  BY <1>1, <1>2, <1>3 DEF PatternsInit, PatternsInv

LEMMA CreateKeeps == PatternsInv /\ Create => PatternsInv'
<1> SUFFICES ASSUME PatternsInv, Create PROVE PatternsInv'
  OBVIOUS
<1>1. /\ instant \in Nat /\ instant' = instant + 1 /\ instant' \in 0..MaxSummarised
      /\ summarised' = summarised /\ patternRuns' = patternRuns /\ analyses' = analyses
  BY PatternsAssumption DEF PatternsInv, Create
<1>2. PICK claims \in Batches :
         pending' = pending \union
            {[at |-> instant + 1, claims |-> claims, warnings |-> Warnings(claims),
              narrative |-> NarrativeFlag(claims)]}
  BY DEF Create
<1> DEFINE new == [at |-> instant + 1, claims |-> claims, warnings |-> Warnings(claims),
                   narrative |-> NarrativeFlag(claims)]
<1>3. /\ new.at = instant + 1 /\ new.claims = claims
      /\ new.narrative = NarrativeFlag(new.claims)
  OBVIOUS
<1> HIDE DEF new
<1>4. (summarised \union pending)' = (summarised \union pending) \union {new}
  BY <1>1, <1>2 DEF new
<1>5. \A r \in summarised \union pending :
         r.at \in 1..instant /\ r.at \in 1..instant' /\ r.at # new.at
  BY <1>1, <1>3 DEF PatternsInv
<1>6. new.at \in 1..instant'
  BY <1>1, <1>3
<1>7. \A r \in (summarised \union pending)' :
          /\ r.at \in 1..instant' /\ r.claims \in Batches
          /\ r.narrative = NarrativeFlag(r.claims)
  BY <1>3, <1>4, <1>5, <1>6, <1>2 DEF PatternsInv
<1>8. \A r, s \in (summarised \union pending)' : r.at = s.at => r = s
  BY <1>4, <1>5 DEF PatternsInv
<1>9. /\ patternRuns' \in Seq(RunsOf') /\ NeverGoesBack'
      /\ analyses' \subseteq AnalysesOf' /\ \A x \in analyses' : Ahead(x)'
      /\ \A n \in DOMAIN patternRuns' : patternRuns'[n].after \in 0..(n - 1)
  BY <1>1 DEF PatternsInv, RunsOf, AnalysesOf, Ahead, NeverGoesBack
<1> QED
  BY <1>1, <1>7, <1>8, <1>9 DEF PatternsInv

LEMMA SaveKeeps == PatternsInv /\ Save => PatternsInv'
<1> SUFFICES ASSUME PatternsInv, Save PROVE PatternsInv'
  OBVIOUS
<1>1. /\ instant' = instant /\ patternRuns' = patternRuns /\ analyses' = analyses
      /\ (summarised \union pending)' \subseteq summarised \union pending
      /\ summarised \subseteq summarised'
  BY DEF Save
<1>2. AnalysesOf \subseteq AnalysesOf' /\ RunsOf \subseteq RunsOf'
  <2>1. AnalysesOf \subseteq AnalysesOf'
    BY <1>1 DEF AnalysesOf
  <2>2. RunsOf' = {RunOver(x) : x \in AnalysesOf'}
    BY DEF RunsOf, RunOver, RunOf, Results, Clean
  <2> QED
    BY <2>1, <2>2 DEF RunsOf
<1>3. patternRuns' \in Seq(RunsOf')
  <2>1. patternRuns \in Seq(RunsOf)
    BY DEF PatternsInv
  <2> DEFINE R == RunsOf
             RR == RunsOf'
  <2>2. R \subseteq RR /\ patternRuns \in Seq(R)
    BY <1>2, <2>1
  <2> HIDE DEF R, RR
  <2>3. patternRuns \in Seq(RR)
    BY <2>2, SeqMonotonic
  <2> QED
    BY <2>3, <1>1 DEF RR
<1>4. /\ NeverGoesBack' /\ analyses' \subseteq AnalysesOf'
      /\ \A x \in analyses' : Ahead(x)'
      /\ \A n \in DOMAIN patternRuns' : patternRuns'[n].after \in 0..(n - 1)
  BY <1>1, <1>2 DEF PatternsInv, NeverGoesBack, Ahead
<1> QED
  BY <1>1, <1>3, <1>4 DEF PatternsInv

LEMMA ReadLatestKeeps ==
    ASSUME PatternsInv, NEW a \in Analysts, ReadLatest(a)
    PROVE  PatternsInv'
<1> DEFINE new == [by |-> a, report |-> Latest, after |-> Len(patternRuns)]
<1>1. /\ analyses' = analyses \union {new} /\ summarised # {}
      /\ pending' = pending /\ summarised' = summarised /\ instant' = instant
      /\ patternRuns' = patternRuns
  BY DEF ReadLatest
<1>2. Latest \in summarised /\ \A r \in summarised : r.at <= Latest.at
  BY <1>1, LatestIs
<1>3. Len(patternRuns) \in Nat /\ DOMAIN patternRuns = 1..Len(patternRuns)
  BY RunsAreNumbered
<1>4. new \in AnalysesOf /\ new.report = Latest /\ new.after = Len(patternRuns)
  BY <1>2, <1>3 DEF AnalysesOf
<1> HIDE DEF new
<1>5. AnalysesOf' = AnalysesOf /\ RunsOf' = RunsOf
  BY <1>1 DEF AnalysesOf, RunsOf
<1>6. \A n \in DOMAIN patternRuns : patternRuns[n].at <= Latest.at
  BY <1>2, RunIsOfReport
<1>7. analyses' \subseteq AnalysesOf' /\ \A x \in analyses' : Ahead(x)'
  <2>1. ASSUME NEW x, x = new
        PROVE  Ahead(x)'
    <3>1. x.report = Latest /\ x.after = Len(patternRuns)
      BY <2>1, <1>4
    <3> QED
      BY <3>1, <1>1, <1>3, <1>6 DEF Ahead
  <2>2. \A x \in analyses : Ahead(x)'
    BY <1>1 DEF PatternsInv, Ahead
  <2>3. \A x \in analyses' : Ahead(x)'
    BY <1>1, <2>1, <2>2
  <2> QED
    BY <1>1, <1>4, <1>5, <2>3 DEF PatternsInv
<1>8. NeverGoesBack' /\ patternRuns' \in Seq(RunsOf')
      /\ \A n \in DOMAIN patternRuns' : patternRuns'[n].after \in 0..(n - 1)
  BY <1>1, <1>5 DEF PatternsInv, NeverGoesBack
<1> QED
  BY <1>1, <1>7, <1>8 DEF PatternsInv

LEMMA SaveRunKeeps ==
    ASSUME PatternsInv, NEW x \in analyses, SaveRun(x)
    PROVE  PatternsInv'
<1> DEFINE new == RunOver(x)
<1>1. /\ patternRuns' = Append(patternRuns, new) /\ analyses' = analyses \ {x}
      /\ pending' = pending /\ summarised' = summarised /\ instant' = instant
  BY DEF SaveRun
<1>2. x \in AnalysesOf /\ Ahead(x)
  BY DEF PatternsInv
<1>3. new \in RunsOf /\ new.at = x.report.at /\ new.after = x.after
  BY <1>2 DEF RunOver, RunsOf, RunOf
<1>4. /\ patternRuns \in Seq(RunsOf) /\ RunsOf' = RunsOf /\ AnalysesOf' = AnalysesOf
  BY <1>1 DEF PatternsInv, RunsOf, AnalysesOf
<1> HIDE DEF new
<1>5. /\ patternRuns' \in Seq(RunsOf)
      /\ Len(patternRuns) \in Nat /\ DOMAIN patternRuns = 1..Len(patternRuns)
      /\ Len(patternRuns') = Len(patternRuns) + 1
      /\ DOMAIN patternRuns' = 1..(Len(patternRuns) + 1)
      /\ \A n \in DOMAIN patternRuns : patternRuns'[n] = patternRuns[n]
      /\ patternRuns'[Len(patternRuns) + 1] = new
  <2> DEFINE R == RunsOf
  <2>1. patternRuns \in Seq(R) /\ new \in R /\ patternRuns' = Append(patternRuns, new)
    BY <1>1, <1>3, <1>4
  <2> HIDE DEF R
  <2>2. /\ patternRuns' \in Seq(R)
        /\ Len(patternRuns) \in Nat /\ DOMAIN patternRuns = 1..Len(patternRuns)
        /\ Len(patternRuns') = Len(patternRuns) + 1
        /\ DOMAIN patternRuns' = 1..(Len(patternRuns) + 1)
        /\ \A n \in DOMAIN patternRuns : patternRuns'[n] = patternRuns[n]
        /\ patternRuns'[Len(patternRuns) + 1] = new
    BY <2>1, AppendProperties
  <2> QED
    BY <2>2 DEF R
<1>6. /\ x.after \in 0..Len(patternRuns)
      /\ \A n \in DOMAIN patternRuns : n <= x.after => patternRuns[n].at <= x.report.at
  BY <1>2 DEF Ahead
<1>7. NeverGoesBack'
  <2> SUFFICES ASSUME NEW n \in DOMAIN patternRuns', NEW o \in DOMAIN patternRuns',
                      n <= patternRuns'[o].after
               PROVE  patternRuns'[n].at <= patternRuns'[o].at
    BY DEF NeverGoesBack
  <2>1. CASE o \in DOMAIN patternRuns
    <3>1. patternRuns[o].after \in 0..(o - 1) /\ n <= patternRuns[o].after
      BY <2>1, <1>5 DEF PatternsInv
    <3>2. n \in DOMAIN patternRuns
      BY <2>1, <3>1, <1>5
    <3> QED
      BY <2>1, <3>1, <3>2, <1>5 DEF PatternsInv, NeverGoesBack
  <2>2. CASE o = Len(patternRuns) + 1
    <3>1. n <= x.after
      BY <2>2, <1>3, <1>5
    <3>2. n \in DOMAIN patternRuns
      BY <3>1, <1>5, <1>6
    <3> QED
      BY <2>2, <3>1, <3>2, <1>3, <1>5, <1>6
  <2> QED
    BY <2>1, <2>2, <1>5
<1>8. \A n \in DOMAIN patternRuns' : patternRuns'[n].after \in 0..(n - 1)
  <2> SUFFICES ASSUME NEW n \in DOMAIN patternRuns'
               PROVE  patternRuns'[n].after \in 0..(n - 1)
    OBVIOUS
  <2>1. CASE n \in DOMAIN patternRuns
    BY <2>1, <1>5 DEF PatternsInv
  <2>2. CASE n = Len(patternRuns) + 1
    <3>1. patternRuns'[n].after = x.after /\ n - 1 = Len(patternRuns)
      BY <2>2, <1>3, <1>5
    <3> QED
      BY <3>1, <1>6
  <2> QED
    BY <2>1, <2>2, <1>5
<1>9. \A y \in analyses' : Ahead(y)'
  <2> SUFFICES ASSUME NEW y \in analyses PROVE Ahead(y)'
    BY <1>1
  <2>1. y.after \in 0..Len(patternRuns) /\ Ahead(y)
    BY DEF PatternsInv, Ahead
  <2>2. y.after \in 0..Len(patternRuns')
    BY <2>1, <1>5
  <2>3. ASSUME NEW n \in DOMAIN patternRuns', n <= y.after
        PROVE  patternRuns'[n].at <= y.report.at
    <3>1. n \in DOMAIN patternRuns
      BY <2>1, <2>3, <1>5
    <3> QED
      BY <3>1, <2>1, <2>3, <1>5 DEF Ahead
  <2> QED
    BY <2>2, <2>3 DEF Ahead
<1>10. patternRuns' \in Seq(RunsOf') /\ analyses' \subseteq AnalysesOf'
  BY <1>1, <1>4, <1>5 DEF PatternsInv
<1> QED
  BY <1>1, <1>7, <1>8, <1>9, <1>10 DEF PatternsInv

LEMMA LoseRunKeeps ==
    ASSUME PatternsInv, NEW x \in analyses, LoseRun(x)
    PROVE  PatternsInv'
BY DEF PatternsInv, LoseRun, RunsOf, AnalysesOf, Ahead, NeverGoesBack

LEMMA PatternsInductive == PatternsSpec => []PatternsInv
<1>1. PatternsInv /\ UNCHANGED patternsVars => PatternsInv'
  BY DEF PatternsInv, patternsVars, RunsOf, AnalysesOf, Ahead, NeverGoesBack
<1>2. PatternsInv /\ PatternsNext => PatternsInv'
  BY CreateKeeps, SaveKeeps, ReadLatestKeeps, SaveRunKeeps, LoseRunKeeps DEF PatternsNext
<1> QED
  BY <1>1, <1>2, PatternsStarts, PTL DEF PatternsSpec

(* The flag against what is said, for any claims. *)
LEMMA FlagBounds ==
    ASSUME NEW claims \in Batches
    PROVE  LET said == Said(claims)
               told == Narratives(claims)
           IN  /\ said # {} /\ told = said => NarrativeFlag(claims)
               /\ told = {} => ~NarrativeFlag(claims)
               /\ 100 * Cardinality(told) > 61 * Cardinality(said) => NarrativeFlag(claims)
               /\ 10 * Cardinality(told) <= 6 * Cardinality(said)
                    /\ 10 * Length(claims, told) <= 6 * Length(claims, said) => ~NarrativeFlag(claims)
<1> DEFINE said == Said(claims)
           told == Narratives(claims)
           size == [n \in DOMAIN claims |-> claims[n].size]
<1>1. /\ IsFiniteSet(DOMAIN claims)
      /\ \A n \in DOMAIN claims : size[n] \in Nat
  <2>1. /\ Len(claims) \in Nat /\ DOMAIN claims = 1..Len(claims)
        /\ \A n \in DOMAIN claims : claims[n].size \in Nat
    BY PatternsAssumption
  <2> QED
    BY <2>1, FS_Interval
<1>2. told \subseteq said /\ said \subseteq DOMAIN claims
  BY DEF Narratives, Said, Clean
<1>3. Length(claims, said) = SumFunctionOnSet(size, said)
      /\ Length(claims, told) = SumFunctionOnSet(size, told)
  BY DEF Length
<1> HIDE DEF said, told, size
<1>4. /\ IsFiniteSet(said) /\ IsFiniteSet(told)
      /\ Cardinality(said) \in Nat /\ Cardinality(told) \in Nat
      /\ Cardinality(told) <= Cardinality(said)
      /\ Cardinality(said) = 0 <=> said = {}
      /\ told = {} => Cardinality(told) = 0
  BY <1>1, <1>2, FS_Subset, FS_CardinalityType, FS_EmptySet
<1>5. SumFunctionOnSet(size, said) \in Nat /\ SumFunctionOnSet(size, told) \in Nat
  BY <1>1, <1>2, SumSubset
<1>6. told = {} => SumFunctionOnSet(size, told) = 0
  BY <1>4, SumOfZeros
<1> DEFINE cs == Cardinality(said)
           ct == Cardinality(told)
           ls == SumFunctionOnSet(size, said)
           lt == SumFunctionOnSet(size, told)
<1>7. NarrativeFlag(claims) <=> (cs > 0 /\ 200 * ct > 121 * cs) \/ (ls > 0 /\ 200 * lt > 121 * ls)
  BY <1>3 DEF NarrativeFlag, OverSixTenths, said, told
<1>8. /\ cs \in Nat /\ ct \in Nat /\ ls \in Nat /\ lt \in Nat /\ ct <= cs
      /\ cs = 0 <=> said = {}
      /\ told = {} => ct = 0 /\ lt = 0
      /\ told = said => ct = cs
  BY <1>4, <1>5, <1>6
<1> HIDE DEF cs, ct, ls, lt
<1>9. /\ said # {} /\ told = said => NarrativeFlag(claims)
      /\ told = {} => ~NarrativeFlag(claims)
      /\ 100 * ct > 61 * cs => NarrativeFlag(claims)
      /\ 10 * ct <= 6 * cs /\ 10 * lt <= 6 * ls => ~NarrativeFlag(claims)
  <2>1. said # {} /\ told = said => NarrativeFlag(claims)
    BY <1>7, <1>8
  <2>2. told = {} => ~NarrativeFlag(claims)
    BY <1>7, <1>8
  <2>3. 100 * ct > 61 * cs => NarrativeFlag(claims)
    BY <1>7, <1>8
  <2>4. 10 * ct <= 6 * cs /\ 10 * lt <= 6 * ls => ~NarrativeFlag(claims)
    BY <1>7, <1>8
  <2> QED
    BY <2>1, <2>2, <2>3, <2>4
<1> QED
  BY <1>3, <1>9 DEF said, told, cs, ct, ls, lt

(* Every triggered pattern is backed by clean claims that meet each of its  *)
(* filters, an analysis never goes back behind the runs stored before it,   *)
(* and a summary is flagged by what it says.                                *)
THEOREM PatternsAreSound == PatternsSpec => []PatternsSound
<1>1. ASSUME PatternsInv, NEW n \in DOMAIN patternRuns
      PROVE  \E r \in summarised :
                /\ patternRuns[n].at = r.at /\ r.at \in 1..instant
                /\ ReportOf(patternRuns[n]) = r
                /\ \A p \in DOMAIN PatternRegistry :
                      patternRuns[n].results[p] =
                         RunFilters(r.claims, Clean(r.claims), PatternRegistry[p])
  <2>3. PICK r \in summarised :
           /\ patternRuns[n].at = r.at
           /\ patternRuns[n].results = Results(r.claims, Clean(r.claims))
    BY <1>1, RunIsOfReport
  <2>4. ReportOf(patternRuns[n]) = r
    <3>1. \A s \in summarised : s.at = patternRuns[n].at => s = r
      BY <1>1, <2>3 DEF PatternsInv
    <3> QED
      BY <3>1, <2>3 DEF ReportOf
  <2>5. \A p \in DOMAIN PatternRegistry :
           patternRuns[n].results[p] = RunFilters(r.claims, Clean(r.claims), PatternRegistry[p])
    BY <2>3 DEF Results
  <2>6. r.at \in 1..instant
    BY <1>1 DEF PatternsInv
  <2> QED
    BY <2>3, <2>4, <2>5, <2>6
<1>2. ASSUME PatternsInv
      PROVE  PatternsTyped
  <2>1. ASSUME NEW n \in DOMAIN patternRuns
        PROVE  /\ patternRuns[n].at \in 1..instant /\ patternRuns[n].after \in 0..(n - 1)
               /\ \A p \in DOMAIN PatternRegistry :
                     patternRuns[n].results[p].missing \subseteq DOMAIN PatternRegistry[p]
    BY <1>1, <1>2, EvaluateIs, PatternsHaveFilters DEF PatternsInv
  <2> QED
    BY <1>2, <2>1 DEF PatternsInv, PatternsTyped
<1>3. ASSUME PatternsInv
      PROVE  TriggersAreEvidenced
  <2> SUFFICES ASSUME NEW n \in DOMAIN patternRuns, NEW p \in DOMAIN PatternRegistry
               PROVE  LET result == patternRuns[n].results[p]
                          claims == ReportOf(patternRuns[n]).claims
                          meets(f) == {x \in Clean(claims) : Meets(claims[x], PatternRegistry[p][f])}
                      IN  /\ result.status = "triggered" =>
                                \A f \in DOMAIN PatternRegistry[p] :
                                   \E x \in meets(f) : claims[x].id \in result.sources
                          /\ result.status # "triggered" =>
                                result.missing # {} /\ \A f \in result.missing : meets(f) = {}
    BY DEF TriggersAreEvidenced
  <2>1. PICK r \in summarised :
           /\ ReportOf(patternRuns[n]) = r
           /\ patternRuns[n].results[p] =
                 RunFilters(r.claims, Clean(r.claims), PatternRegistry[p])
    BY <1>1, <1>3
  <2> DEFINE result == RunFilters(r.claims, Clean(r.claims), PatternRegistry[p])
  <2>2. /\ result.status = "triggered" =>
              \A f \in DOMAIN PatternRegistry[p] :
                 \E x \in Clean(r.claims) : Meets(r.claims[x], PatternRegistry[p][f])
                                            /\ r.claims[x].id \in result.sources
        /\ result.status # "triggered" =>
              result.missing # {}
              /\ \A f \in result.missing : \A x \in Clean(r.claims) :
                    ~Meets(r.claims[x], PatternRegistry[p][f])
    BY EvaluateIs, PatternsHaveFilters
  <2> HIDE DEF result
  <2> QED
    BY <2>1, <2>2 DEF result
<1>4. ASSUME PatternsInv
      PROVE  FlagFollowsWhatIsSaid
  <2>1. \A r \in summarised : r.claims \in Batches /\ r.narrative = NarrativeFlag(r.claims)
    BY <1>4 DEF PatternsInv
  <2> QED
    BY <2>1, FlagBounds DEF FlagFollowsWhatIsSaid
<1>5. PatternsInv => PatternsSound
  BY <1>2, <1>3, <1>4 DEF PatternsSound, PatternsInv
<1> QED
  BY <1>5, PatternsInductive, PTL

-----------------------------------------------------------------------------
(* The pages a reader gets.                                                 *)

(* Sets of pages that hold, with a page, those with text before it in its   *)
(* section.                                                                 *)
WithoutHoles ==
    {S \in SUBSET PageNumbers :
        \A p \in S : \A q \in 1..p : SectionOf[q] = SectionOf[p] /\ HasText(q) => q \in S}

(* What is stored of a page is a whole number of ingestions, and an         *)
(* ingestion that reached a page has stored those with text before it.      *)
StoredPages ==
    /\ stored \in [PageNumbers -> Nat]
    /\ \A p \in PageNumbers : stored[p] <= ingestions * ChunksOf[p]
    /\ \A p \in PageNumbers : \A q \in 1..p : stored[p] > 0 /\ HasText(q) => stored[q] > 0

ReadingInv ==
    /\ status \in {"uploaded", "completed", "failed"}
    /\ ingestions \in 0..MaxIngestions
    /\ StoredPages
    /\ summaries \in Seq(WithoutHoles)
    /\ summaries # <<>> => ingestions > 0 /\ PageNumbers # {}
    /\ disclosures # None =>
          \A p \in disclosures.read : \A q \in 1..p : HasText(q) => q \in disclosures.read
    /\ CoverageAddsUp
    /\ DisclosuresAddUp

LEMMA PagesAre ==
    /\ Len(ChunksOf) \in Nat /\ PageNumbers = 1..Len(ChunksOf) /\ PageNumbers \subseteq Nat
    /\ \A p \in PageNumbers : ChunksOf[p] \in Nat
    /\ \A p \in PageNumbers : 1..p \subseteq PageNumbers
    /\ IsFiniteSet(PageNumbers) /\ Cardinality(PageNumbers) = Len(ChunksOf)
<1>1. ChunksOf \in Seq(Nat)
  BY ReadingAssumption
<1>2. Len(ChunksOf) \in Nat /\ \A p \in 1..Len(ChunksOf) : ChunksOf[p] \in Nat
  BY <1>1
<1>3. PageNumbers = 1..Len(ChunksOf)
  BY DEF PageNumbers
<1>4. IsFiniteSet(1..Len(ChunksOf)) /\ Cardinality(1..Len(ChunksOf)) = Len(ChunksOf)
  <2> DEFINE n == Len(ChunksOf)
  <2>1. n \in Nat
    BY <1>2
  <2> HIDE DEF n
  <2>2. IsFiniteSet(1..n) /\ Cardinality(1..n) = IF 1 > n THEN 0 ELSE n - 1 + 1
    BY <2>1, FS_Interval
  <2>3. Cardinality(1..n) = n
    BY <2>1, <2>2
  <2> QED
    BY <2>2, <2>3 DEF n
<1>5. PageNumbers \subseteq Nat /\ \A p \in PageNumbers : 1..p \subseteq PageNumbers
  BY <1>2, <1>3
<1> QED
  BY <1>2, <1>3, <1>4, <1>5

LEMMA ReadingStarts == ReadingInit => ReadingInv
<1> SUFFICES ASSUME ReadingInit PROVE ReadingInv
  OBVIOUS
<1>1. summaries \in Seq(WithoutHoles) /\ summaries = <<>>
  BY EmptySeq DEF ReadingInit
<1>2. MaxIngestions \in Nat
  BY ReadingAssumption
<1>3. StoredPages
  BY PagesAre DEF ReadingInit, StoredPages
<1> QED
  BY <1>1, <1>2, <1>3 DEF ReadingInit, ReadingInv, CoverageAddsUp, DisclosuresAddUp

LEMMA IngestKeeps == ReadingInv /\ IngestAgain => ReadingInv'
<1> SUFFICES ASSUME ReadingInv, IngestAgain PROVE ReadingInv'
  OBVIOUS
<1>1. PICK upto \in PageNumbers :
         /\ stored' = [p \in PageNumbers |-> stored[p] + IF p <= upto THEN ChunksOf[p] ELSE 0]
         /\ status' \in IF upto = Len(ChunksOf) THEN {"completed", "failed"} ELSE {"failed"}
  BY DEF IngestAgain
<1>2. /\ ingestions \in Nat /\ ingestions' = ingestions + 1 /\ ingestions' \in 0..MaxIngestions
      /\ summaries' = summaries /\ coverage' = coverage /\ disclosures' = disclosures
  BY ReadingAssumption DEF ReadingInv, IngestAgain
<1>3. \A p \in PageNumbers : stored[p] \in Nat /\ ChunksOf[p] \in Nat
  BY PagesAre DEF ReadingInv, StoredPages
<1>4. \A p \in PageNumbers :
         /\ stored'[p] = stored[p] + IF p <= upto THEN ChunksOf[p] ELSE 0
         /\ stored'[p] \in Nat
  BY <1>1, <1>3
<1>5. stored' \in [PageNumbers -> Nat]
  BY <1>1, <1>4
<1>6. \A p \in PageNumbers : stored'[p] <= ingestions' * ChunksOf[p]
  <2> SUFFICES ASSUME NEW p \in PageNumbers PROVE stored'[p] <= (ingestions + 1) * ChunksOf[p]
    BY <1>2
  <2> DEFINE part == ingestions * ChunksOf[p]
  <2>1. (ingestions + 1) * ChunksOf[p] = part + ChunksOf[p]
    BY <1>2, <1>3
  <2>2. stored[p] <= part /\ part \in Nat
    BY <1>2, <1>3 DEF ReadingInv, StoredPages
  <2> HIDE DEF part
  <2>3. stored'[p] <= part + ChunksOf[p]
    BY <1>3, <1>4, <2>2
  <2> QED
    BY <2>1, <2>3
<1>7. \A p \in PageNumbers : \A q \in 1..p : stored'[p] > 0 /\ HasText(q) => stored'[q] > 0
  <2> SUFFICES ASSUME NEW p \in PageNumbers, NEW q \in 1..p, stored'[p] > 0, HasText(q)
               PROVE  stored'[q] > 0
    OBVIOUS
  <2>1. q \in PageNumbers /\ q \in Nat /\ p \in Nat /\ upto \in Nat /\ q <= p
    BY PagesAre
  <2>2. CASE stored[p] > 0
    <3>1. stored[q] > 0
      BY <2>2 DEF ReadingInv, StoredPages
    <3> QED
      BY <3>1, <1>3, <1>4, <2>1
  <2>3. CASE ~(stored[p] > 0)
    <3>1. p <= upto
      BY <2>3, <1>3, <1>4
    <3>2. q <= upto
      BY <2>1, <3>1
    <3> QED
      BY <3>2, <1>3, <1>4, <2>1 DEF HasText
  <2> QED
    BY <2>2, <2>3
<1>8. StoredPages'
  BY <1>5, <1>6, <1>7 DEF StoredPages
<1>9. status' \in {"uploaded", "completed", "failed"}
  BY <1>1
<1> QED
  BY <1>2, <1>8, <1>9 DEF ReadingInv, CoverageAddsUp, DisclosuresAddUp

(* The chunks of fewer pages are no more. *)
LEMMA FewerPages ==
    ASSUME StoredPages, NEW S \in SUBSET PageNumbers, NEW T \in SUBSET S
    PROVE  /\ SumFunctionOnSet(stored, S) \in Nat /\ SumFunctionOnSet(stored, T) \in Nat
           /\ SumFunctionOnSet(stored, T) <= SumFunctionOnSet(stored, S)
<1>1. IsFiniteSet(S)
  BY PagesAre, FS_Subset
<1>2. \A x \in S : stored[x] \in Nat
  BY DEF StoredPages
<1> QED
  BY <1>1, <1>2, SumSubset

LEMMA TakenHasNoHoles ==
    ASSUME StoredPages, NEW a \in Allocations
    PROVE  {p \in PageNumbers : Takes(a, p)} \in WithoutHoles
<1> SUFFICES ASSUME NEW p \in PageNumbers, Takes(a, p), NEW q \in 1..p,
                    SectionOf[q] = SectionOf[p], HasText(q)
             PROVE  q \in PageNumbers /\ Takes(a, q)
  BY DEF WithoutHoles
<1>1. q \in PageNumbers /\ q \in Nat /\ p \in Nat /\ q <= p
  BY PagesAre
<1>2. stored[q] > 0
  BY <1>1 DEF StoredPages, Takes
<1> DEFINE S == {r \in PageNumbers : r < p /\ SectionOf[r] = SectionOf[p]}
           T == {r \in PageNumbers : r < q /\ SectionOf[r] = SectionOf[q]}
<1>3. S \in SUBSET PageNumbers /\ T \in SUBSET S
  BY <1>1, PagesAre
<1>4. EarlierOfSection(p) = SumFunctionOnSet(stored, S)
      /\ EarlierOfSection(q) = SumFunctionOnSet(stored, T)
  BY DEF EarlierOfSection
<1> HIDE DEF S, T
<1>5. /\ EarlierOfSection(p) \in Nat /\ EarlierOfSection(q) \in Nat
      /\ EarlierOfSection(q) <= EarlierOfSection(p)
  BY <1>3, <1>4, FewerPages
<1>6. a[SectionOf[p]] \in Int
  BY ReadingAssumption DEF Allocations, PageSections
<1>7. EarlierOfSection(q) < a[SectionOf[q]]
  BY <1>5, <1>6 DEF Takes
<1> QED
  BY <1>1, <1>2, <1>7 DEF Takes

LEMMA SummariseKeeps == ReadingInv /\ Summarise => ReadingInv'
<1> SUFFICES ASSUME ReadingInv, Summarise PROVE ReadingInv'
  OBVIOUS
<1>1. /\ status' = status /\ stored' = stored /\ coverage' = coverage
      /\ disclosures' = disclosures /\ ingestions' = ingestions
  BY DEF Summarise
<1>2. PICK a \in Allocations : summaries' = Append(summaries, {p \in PageNumbers : Takes(a, p)})
  BY DEF Summarise
<1>3. PICK p \in PageNumbers : stored[p] > 0
  BY DEF Summarise
<1>4. ingestions > 0
  <2>1. /\ stored[p] \in Nat /\ stored[p] <= ingestions * ChunksOf[p]
        /\ ingestions \in Nat /\ ChunksOf[p] \in Nat
    BY PagesAre, ReadingAssumption DEF ReadingInv, StoredPages
  <2>2. CASE ingestions = 0
    <3>1. ingestions * ChunksOf[p] = 0
      BY <2>1, <2>2
    <3> QED
      BY <2>1, <3>1, <1>3
  <2> QED
    BY <2>1, <2>2
<1>5. summaries' \in Seq(WithoutHoles)
  <2> DEFINE new == {r \in PageNumbers : Takes(a, r)}
  <2>1. new \in WithoutHoles /\ summaries \in Seq(WithoutHoles)
    BY TakenHasNoHoles DEF ReadingInv
  <2> HIDE DEF new
  <2>2. Append(summaries, new) \in Seq(WithoutHoles)
    BY <2>1, AppendProperties
  <2> QED
    BY <2>2, <1>2 DEF new
<1>6. StoredPages'
  BY <1>1 DEF ReadingInv, StoredPages
<1> QED
  BY <1>1, <1>4, <1>5, <1>6 DEF ReadingInv, CoverageAddsUp, DisclosuresAddUp

(* The ends of the scale: all is shown of the whole, and all or nothing only *)
(* where next to nothing is left or there.                                   *)
LEMMA RoundedEnds ==
    ASSUME NEW n \in Nat, n > 0, NEW c \in 0..n, NEW k \in Rounded(c, n)
    PROVE  /\ c = n => k = Steps
           /\ k = Steps => 2 * Steps * (n - c) <= n
           /\ k = 0 => 2 * Steps * c <= n
<1>1. Steps \in Nat /\ Steps > 0
  BY ReadingAssumption
<1>2. /\ k \in 0..Steps
      /\ 2 * n * k - n <= 2 * Steps * c /\ 2 * Steps * c <= 2 * n * k + n
  BY DEF Rounded
<1>3. c = n => k = Steps
  <2> SUFFICES ASSUME c = n, k # Steps PROVE FALSE
    OBVIOUS
  <2>1. k \in Nat /\ k + 1 <= Steps
    BY <1>1, <1>2
  <2>2. n * (k + 1) <= n * Steps
    BY <1>1, <2>1
  <2>3. n * (k + 1) = n * k + n /\ 2 * Steps * n = 2 * (n * Steps) /\ 2 * n * k = 2 * (n * k)
    BY <1>1, <2>1
  <2> DEFINE a == n * Steps
             b == n * k
  <2>4. a \in Nat /\ b \in Nat /\ b + n <= a /\ 2 * a <= 2 * b + n
    BY <1>1, <1>2, <2>1, <2>2, <2>3
  <2> HIDE DEF a, b
  <2> QED
    BY <2>4
<1>4. k = Steps => 2 * Steps * (n - c) <= n
  <2> SUFFICES ASSUME k = Steps PROVE 2 * Steps * (n - c) <= n
    OBVIOUS
  <2>1. 2 * Steps * (n - c) = 2 * n * Steps - 2 * Steps * c
    BY <1>1
  <2> QED
    BY <1>1, <1>2, <2>1
<1>5. k = 0 => 2 * Steps * c <= n
  BY <1>1, <1>2
<1> QED
  BY <1>3, <1>4, <1>5

LEMMA ShowCoverageKeeps == ReadingInv /\ ShowCoverage => ReadingInv'
<1> SUFFICES ASSUME ReadingInv, ShowCoverage PROVE ReadingInv'
  OBVIOUS
<1>1. /\ status' = status /\ stored' = stored /\ summaries' = summaries
      /\ disclosures' = disclosures /\ ingestions' = ingestions
  BY DEF ShowCoverage
<1>2. PICK r \in DOMAIN summaries :
         \E share \in Rounded(Cardinality(summaries[r]), TotalPages) :
            coverage' = [report |-> r, covered |-> summaries[r],
                         uncovered |-> PagesUncovered(r), share |-> share]
  BY DEF ShowCoverage
<1>3. summaries[r] \subseteq PageNumbers /\ summaries # <<>>
  <2>1. summaries \in Seq(WithoutHoles)
    BY DEF ReadingInv
  <2>2. summaries[r] \in WithoutHoles /\ summaries # <<>>
    BY <2>1
  <2> QED
    BY <2>2 DEF WithoutHoles
<1>4. TotalPages = Len(ChunksOf)
  BY <1>3 DEF ReadingInv, TotalPages
<1> DEFINE n == Len(ChunksOf)
           read == summaries[r]
           rest == PageNumbers \ read
           c == Cardinality(read)
<1>5. /\ n \in Nat /\ c \in 0..n /\ Cardinality(PageNumbers) = n
      /\ Cardinality(rest) = n - c
      /\ rest = {} => c = n
  <2>1. IsFiniteSet(PageNumbers) /\ Cardinality(PageNumbers) = n /\ n \in Nat
    BY PagesAre
  <2>2. IsFiniteSet(read) /\ c <= n /\ read \subseteq PageNumbers
    BY <1>3, <2>1, FS_Subset
  <2>3. c \in Nat
    BY <2>2, FS_CardinalityType
  <2> HIDE DEF n, read
  <2>4. rest \subseteq PageNumbers /\ PageNumbers \cap read = read
    BY <2>2
  <2>5. Cardinality(rest) = Cardinality(PageNumbers) - Cardinality(PageNumbers \cap read)
    BY <2>1, FS_Difference
  <2>6. rest = {} => PageNumbers = read
    BY <2>2
  <2> QED
    BY <2>1, <2>2, <2>3, <2>4, <2>5, <2>6
<1>6. n > 0
  <2>1. PageNumbers = 1..n /\ PageNumbers # {}
    BY <1>3, PagesAre DEF ReadingInv
  <2> QED
    BY <2>1, <1>5
<1>7. PICK share \in Rounded(c, n) :
         /\ coverage'.covered = read /\ coverage'.uncovered = rest
         /\ coverage'.share = share
  BY <1>2, <1>4 DEF PagesUncovered
<1> HIDE DEF n, c, read
<1>8. /\ c = n => share = Steps
      /\ share = Steps => 2 * Steps * (n - c) <= n
      /\ share = 0 => 2 * Steps * c <= n
  BY <1>5, <1>6, RoundedEnds
<1>9. CoverageAddsUp'
  <2>1. read \cap rest = {} /\ read \union rest = PageNumbers
    BY <1>3 DEF read
  <2>2. /\ coverage'.uncovered = {} => coverage'.share = Steps
        /\ coverage'.share = Steps =>
               2 * Steps * Cardinality(coverage'.uncovered) <= Cardinality(PageNumbers)
        /\ coverage'.share = 0 =>
               2 * Steps * Cardinality(coverage'.covered) <= Cardinality(PageNumbers)
    <3> HIDE DEF rest
    <3> QED
      BY <1>5, <1>7, <1>8 DEF c
  <2> QED
    BY <2>1, <2>2, <1>7 DEF CoverageAddsUp
<1>10. StoredPages'
  BY <1>1 DEF ReadingInv, StoredPages
<1> QED
  BY <1>1, <1>9, <1>10 DEF ReadingInv, DisclosuresAddUp

(* The counts of the statuses in a set add up to the items with one of them. *)
LEMMA CountsAddUp ==
    ASSUME NEW items, IsFiniteSet(DOMAIN items)
    PROVE  SumFunctionOnSet([s \in Counted |-> Count(items, s)], Counted)
              = Cardinality({n \in DOMAIN items : items[n].status \in Counted})
<1> DEFINE counts == [s \in Counted |-> Count(items, s)]
           With(U) == {n \in DOMAIN items : items[n].status \in U}
           F(U) == SumFunctionOnSet(counts, U)
           Good == {U \in SUBSET Counted : F(U) = Cardinality(With(U))}
<1>0. IsFiniteSet(Counted)
  <2>1. Counted = (({"found"} \union {"found_incomplete"}) \union {"not_found"}) \union {"not_applicable"}
    BY DEF Counted, DisclosureStatuses
  <2>2. IsFiniteSet({"found"})
    BY FS_Singleton
  <2>3. IsFiniteSet({"found"} \union {"found_incomplete"})
    BY <2>2, FS_AddElement
  <2>4. IsFiniteSet(({"found"} \union {"found_incomplete"}) \union {"not_found"})
    BY <2>3, FS_AddElement
  <2> QED
    BY <2>1, <2>4, FS_AddElement
<1>1. \A U \in SUBSET Counted :
         /\ IsFiniteSet(U) /\ IsFiniteSet(With(U))
         /\ Cardinality(With(U)) \in Nat
  BY <1>0, FS_Subset, FS_CardinalityType
<1>2. \A s \in Counted : counts[s] = Cardinality(With({s})) /\ counts[s] \in Nat
  <2> SUFFICES ASSUME NEW s \in Counted
               PROVE  counts[s] = Cardinality(With({s})) /\ counts[s] \in Nat
    OBVIOUS
  <2>1. With({s}) = {n \in DOMAIN items : items[n].status = s}
    OBVIOUS
  <2>2. counts[s] = Cardinality(With({s}))
    BY <2>1 DEF Count
  <2>3. {s} \in SUBSET Counted
    OBVIOUS
  <2> QED
    BY <2>2, <2>3, <1>1
<1>3. {} \in Good
  <2>1. F({}) = 0
    BY <1>1, SumsFixed
  <2>2. With({}) = {}
    OBVIOUS
  <2>3. Cardinality(With({})) = 0
    BY <2>2, FS_EmptySet
  <2> HIDE DEF F, With
  <2> QED
    BY <2>1, <2>3
<1>4. ASSUME NEW U \in SUBSET Counted, NEW x \in U, U \ {x} \in Good
      PROVE  U \in Good
  <2>1. With(U) = With(U \ {x}) \union With({x}) /\ With(U \ {x}) \intersect With({x}) = {}
    OBVIOUS
  <2>2. /\ IsFiniteSet(With(U \ {x})) /\ IsFiniteSet(With({x}))
        /\ Cardinality(With(U \ {x})) \in Nat /\ Cardinality(With({x})) \in Nat
    <3>1. U \ {x} \in SUBSET Counted /\ {x} \in SUBSET Counted
      OBVIOUS
    <3> HIDE DEF With
    <3> QED
      BY <3>1, <1>1
  <2>3. F(U) = counts[x] + F(U \ {x})
    <3>1. \A s \in U : counts[s] \in Int
      <4> SUFFICES ASSUME NEW s \in U PROVE counts[s] \in Int
        OBVIOUS
      <4>1. s \in Counted
        OBVIOUS
      <4> HIDE DEF counts, With
      <4>2. counts[s] \in Nat
        BY <4>1, <1>2
      <4> QED
        BY <4>2
    <3> HIDE DEF counts, With
    <3>2. IsFiniteSet(U)
      BY <1>1
    <3> QED
      BY <3>1, <3>2, SumWithout
  <2> HIDE DEF With, F, counts
  <2>4. Cardinality(With(U)) = Cardinality(With(U \ {x})) + Cardinality(With({x}))
    <3>1. Cardinality(With(U \ {x}) \union With({x}))
             = Cardinality(With(U \ {x})) + Cardinality(With({x}))
               - Cardinality(With(U \ {x}) \intersect With({x}))
      BY <2>2, FS_Union
    <3>2. Cardinality(With(U \ {x}) \intersect With({x})) = 0
      BY <2>1, FS_EmptySet
    <3>3. Cardinality(With(U)) = Cardinality(With(U \ {x}) \union With({x}))
      BY <2>1
    <3> DEFINE a == Cardinality(With(U \ {x}))
               b == Cardinality(With({x}))
               c == Cardinality(With(U))
    <3>4. c = a + b - 0
      BY <3>1, <3>2, <3>3
    <3>5. a \in Nat /\ b \in Nat
      BY <2>2
    <3> HIDE DEF a, b, c
    <3>6. c = a + b
      BY <3>4, <3>5
    <3> QED
      BY <3>6 DEF a, b, c
  <2>5. F(U \ {x}) = Cardinality(With(U \ {x}))
    BY <1>4
  <2>6. counts[x] = Cardinality(With({x}))
    BY <1>2
  <2>7. F(U) = Cardinality(With(U))
    BY <2>2, <2>3, <2>4, <2>5, <2>6
  <2> QED
    BY <2>7
<1>5. Counted \in Good
  <2> HIDE DEF Good
  <2> QED
    BY <1>0, <1>3, <1>4, SubsetsInduction
<1> QED
  BY <1>5

LEMMA CheckKeeps == ReadingInv /\ CheckDisclosures => ReadingInv'
<1> SUFFICES ASSUME ReadingInv, CheckDisclosures PROVE ReadingInv'
  OBVIOUS
<1>1. /\ status' = status /\ stored' = stored /\ summaries' = summaries
      /\ coverage' = coverage /\ ingestions' = ingestions
  BY DEF CheckDisclosures
<1>2. PICK reply \in Answers :
         /\ Valid(Items(reply))
         /\ disclosures' = [items |-> Items(reply), read |-> FirstPages,
                            counts |-> [s \in Counted |-> Count(Items(reply), s)],
                            total |-> Len(Registry)]
  BY DEF CheckDisclosures
<1> DEFINE items == Items(reply)
           n == Len(Registry)
<1>3. /\ n \in Nat /\ DOMAIN Registry = 1..n /\ DOMAIN items = 1..n
      /\ Registry = [k \in 1..n |-> Registry[k]]
      /\ \A k \in 1..n : items[k].key = Registry[k]
  BY ReadingAssumption DEF Items
<1>4. \A k \in 1..n : items[k].status \in DisclosureStatuses
  BY <1>2, <1>3 DEF Valid
<1> HIDE DEF items, n
<1>5. [k \in DOMAIN items |-> items[k].key] = Registry
  BY <1>3
<1>6. SumFunctionOnSet([s \in Counted |-> Count(items, s)], Counted) + Count(items, "ambiguous") = n
  <2> DEFINE S == {k \in DOMAIN items : items[k].status \in Counted}
             A == {k \in DOMAIN items : items[k].status = "ambiguous"}
  <2>1. /\ IsFiniteSet(1..n) /\ Cardinality(1..n) = n
    <3>1. 1 \in Int /\ n \in Int
      BY <1>3
    <3>2. IsFiniteSet(1..n) /\ Cardinality(1..n) = IF 1 > n THEN 0 ELSE n - 1 + 1
      BY <3>1, FS_Interval, Zenon
    <3> QED
      BY <1>3, <3>2, SMT
  <2>2. S \union A = 1..n /\ S \intersect A = {}
    BY <1>3, <1>4 DEF Counted
  <2>3. SumFunctionOnSet([s \in Counted |-> Count(items, s)], Counted) = Cardinality(S)
    BY <1>3, <2>1, CountsAddUp
  <2>4. Count(items, "ambiguous") = Cardinality(A)
    BY DEF Count
  <2> HIDE DEF S, A
  <2>5. IsFiniteSet(S) /\ IsFiniteSet(A)
    BY <2>1, <2>2, FS_Subset
  <2>6. Cardinality(S) \in Nat /\ Cardinality(A) \in Nat
    BY <2>5, FS_CardinalityType
  <2>7. Cardinality(S \union A) = Cardinality(S) + Cardinality(A) - Cardinality(S \intersect A)
    BY <2>5, FS_Union
  <2>8. Cardinality(S \intersect A) = 0
    BY <2>2, FS_EmptySet
  <2> QED
    <3> DEFINE a == Cardinality(S)
               b == Cardinality(A)
               sum == SumFunctionOnSet([s \in Counted |-> Count(items, s)], Counted)
               rest == Count(items, "ambiguous")
    <3>1. n = a + b - 0
      BY <2>1, <2>2, <2>7, <2>8
    <3>2. sum = a /\ rest = b /\ a \in Nat /\ b \in Nat
      BY <2>3, <2>4, <2>6
    <3> HIDE DEF a, b, sum, rest
    <3>3. sum + rest = n
      BY <3>1, <3>2, <1>3
    <3> QED
      BY <3>3 DEF sum, rest
<1>7. /\ disclosures'.items = items /\ disclosures'.read = FirstPages
      /\ disclosures'.counts = [s \in Counted |-> Count(items, s)] /\ disclosures'.total = n
  BY <1>2 DEF items, n
<1>8. DisclosuresAddUp'
  BY <1>3, <1>4, <1>5, <1>6, <1>7 DEF DisclosuresAddUp
<1>9. \A p \in disclosures'.read : \A q \in 1..p : HasText(q) => q \in disclosures'.read
  <2> SUFFICES ASSUME NEW p \in FirstPages, NEW q \in 1..p, HasText(q) PROVE q \in FirstPages
    BY <1>7
  <2>1. /\ p \in PageNumbers /\ q \in PageNumbers /\ p \in Nat /\ q \in Nat /\ q <= p
        /\ stored[p] > 0 /\ Before(p) < ChunkWindow
    BY PagesAre DEF FirstPages
  <2>2. stored[q] > 0 /\ StoredPages
    BY <2>1 DEF ReadingInv, StoredPages
  <2> DEFINE S == {r \in PageNumbers : r < p}
             T == {r \in PageNumbers : r < q}
  <2>3. S \in SUBSET PageNumbers /\ T \in SUBSET S
    BY <2>1, PagesAre
  <2>4. Before(p) = SumFunctionOnSet(stored, S) /\ Before(q) = SumFunctionOnSet(stored, T)
    BY DEF Before
  <2> HIDE DEF S, T
  <2>5. Before(p) \in Nat /\ Before(q) \in Nat /\ Before(q) <= Before(p)
    BY <2>2, <2>3, <2>4, FewerPages
  <2>6. Before(q) < ChunkWindow
    BY <2>1, <2>5, ReadingAssumption
  <2> QED
    BY <2>1, <2>2, <2>6 DEF FirstPages
<1>10. StoredPages'
  BY <1>1 DEF ReadingInv, StoredPages
<1> QED
  BY <1>1, <1>8, <1>9, <1>10 DEF ReadingInv, CoverageAddsUp

LEMMA ReadingInductive == ReadingSpec => []ReadingInv
<1>1. ReadingInv /\ UNCHANGED readingVars => ReadingInv'
  BY DEF ReadingInv, StoredPages, CoverageAddsUp, DisclosuresAddUp, readingVars
<1>2. ReadingInv /\ ReadingNext => ReadingInv'
  BY IngestKeeps, SummariseKeeps, ShowCoverageKeeps, CheckKeeps DEF ReadingNext
<1> QED
  BY <1>1, <1>2, ReadingStarts, PTL DEF ReadingSpec

(* What a summary and a check of disclosures have read has no holes, the     *)
(* coverage shown of a summary is right but for its rounding, and a check    *)
(* answers every item.                                                       *)
THEOREM PagesAreSound == ReadingSpec => []PagesSound
<1>1. ASSUME ReadingInv
      PROVE  ReadingTyped
  <2>1. MaxIngestions \in Nat /\ ingestions \in 0..MaxIngestions /\ ingestions \in Nat
    BY <1>1, ReadingAssumption DEF ReadingInv
  <2>2. ASSUME NEW p \in PageNumbers
        PROVE  stored[p] \in 0..MaxIngestions * ChunksOf[p]
    <3>1. stored[p] \in Nat /\ stored[p] <= ingestions * ChunksOf[p] /\ ChunksOf[p] \in Nat
      BY <1>1, PagesAre DEF ReadingInv, StoredPages
    <3>2. ingestions * ChunksOf[p] <= MaxIngestions * ChunksOf[p]
      BY <2>1, <3>1, Monotone
    <3> DEFINE part == ingestions * ChunksOf[p]
               all == MaxIngestions * ChunksOf[p]
    <3>3. part \in Nat /\ all \in Nat /\ stored[p] <= part /\ part <= all
      BY <2>1, <3>1, <3>2
    <3> HIDE DEF part, all
    <3>4. stored[p] \in 0..all
      BY <3>1, <3>3
    <3> QED
      BY <3>4 DEF all
  <2>3. \A r \in DOMAIN summaries : summaries[r] \in WithoutHoles
    BY <1>1 DEF ReadingInv
  <2> QED
    BY <1>1, <2>1, <2>2, <2>3 DEF ReadingTyped, ReadingInv, WithoutHoles
<1>2. ASSUME ReadingInv
      PROVE  ReadsPrefixes
  <2>1. \A r \in DOMAIN summaries : summaries[r] \in WithoutHoles
    BY <1>2 DEF ReadingInv
  <2> QED
    BY <1>2, <2>1 DEF ReadsPrefixes, ReadingInv, WithoutHoles
<1>3. ReadingInv => PagesSound
  BY <1>1, <1>2 DEF PagesSound, ReadingInv
<1> QED
  BY <1>3, ReadingInductive, PTL

-----------------------------------------------------------------------------
(* Tables: what an extraction answers with is what it has stored, and a    *)
(* figure that was found once is never lost to a later page.               *)

TableRecord == [widths : Seq(Nat), figures : [Kpis -> Seq(Cells)]]

LEMMA ReportLayout ==
    /\ Len(TablesOn) \in Nat /\ Pages = 1 .. Len(TablesOn)
           /\ \A p \in Pages : /\ Len(TablesOn[p]) \in Nat
                               /\ DOMAIN TablesOn[p] = 1 .. Len(TablesOn[p])
                               /\ \A x \in DOMAIN TablesOn[p] :
                                      TablesOn[p][x].figures \in [Kpis -> Seq(Cells)]
<1>1. TablesOn \in Seq(Seq(TableRecord))
  BY TablesAssumption DEF TableRecord
<1>2. ASSUME NEW p \in Pages
      PROVE  TablesOn[p] \in Seq(TableRecord)
  BY <1>1 DEF Pages
<1>3. ASSUME NEW p \in Pages, NEW x \in DOMAIN TablesOn[p]
      PROVE  TablesOn[p][x] \in TableRecord
  BY <1>2
<1>4. \A t \in TableRecord : t.figures \in [Kpis -> Seq(Cells)]
  BY DEF TableRecord
<1> QED
  BY <1>1, <1>2, <1>3, <1>4 DEF Pages

(* A set of numbers that is not empty has a least member. *)
LEMMA LeastMember ==
    ASSUME NEW S, S \subseteq Nat, S # {}
    PROVE  Least(S) \in S /\ \A y \in S : Least(S) <= y
<1>1. PICK x \in S : \A y \in S : ~(<<y, x>> \in OpToRel(<, Nat))
  BY WFMin, NatLessThanWellFounded
<1>2. \A y \in S : y < x => <<y, x>> \in OpToRel(<, Nat)
  BY DEF OpToRel
<1>3. \A y \in S : ~(y < x)
  BY <1>1, <1>2
<1>4. \A y \in S : x <= y
  BY <1>3
<1> QED
  BY <1>4 DEF Least

-----------------------------------------------------------------------------
(* Type correctness. *)

StoredTable == [run : Nat, page : Pages, index : Nat, figures : [Kpis -> Seq(Cells)],
                quality : {"low", "medium", "high"}, review : BOOLEAN]

JobRecord == [run : Nat, page : Nat, index : Nat, created : Nat, failed : SUBSET Pages]

AnswerRecord == [run : Nat, created : Nat, failed : SUBSET Pages]

Typed ==
    /\ tables \in Seq(StoredTable)
    /\ extracting \in [Extractors -> JobRecord]
    /\ answer \in [Extractors -> AnswerRecord \cup {None}]
    /\ DOMAIN shown = Kpis
    /\ runs \in 0 .. MaxRuns
    /\ raises \in 0 .. MaxRaises

LEMMA QualityType ==
    ASSUME NEW w
    PROVE  Quality(w) \in {"low", "medium", "high"}
  BY DEF Quality

LEMMA StoredType ==
    ASSUME NEW r \in Nat, NEW p \in Pages, NEW x \in DOMAIN TablesOn[p]
    PROVE  /\ Stored(r, p, x) \in StoredTable
           /\ Stored(r, p, x).run = r /\ Stored(r, p, x).page = p
           /\ Stored(r, p, x).index = x
           /\ Stored(r, p, x).review = (Stored(r, p, x).quality = "low")
<1>1. /\ TablesOn[p][x].figures \in [Kpis -> Seq(Cells)] /\ x \in Nat
  BY ReportLayout
<1> DEFINE q == Quality(TablesOn[p][x].widths)
           f == TablesOn[p][x].figures
           b == q = "low"
<1>2. q \in {"low", "medium", "high"} /\ b \in BOOLEAN
  BY QualityType
<1>3. Stored(r, p, x) = [run |-> r, page |-> p, index |-> x, figures |-> f,
                         quality |-> q, review |-> b]
  BY DEF Stored, NeedsReview
<1>4. b = (q = "low") /\ f \in [Kpis -> Seq(Cells)]
  BY <1>1
<1> HIDE DEF q, f, b
<1>5. Stored(r, p, x) \in StoredTable
  BY <1>1, <1>2, <1>3, <1>4 DEF StoredTable
<1> QED
  BY <1>3, <1>4, <1>5

LEMMA IdleJob ==
    /\ NoExtraction \in JobRecord
    /\ NoExtraction.run = 0 /\ NoExtraction.page = 0
  BY DEF NoExtraction, JobRecord

(* The fields of an extraction, and those of one that has taken a step. *)
Fields(q, r, p, x, c, f) ==
    q \in JobRecord /\ q.run = r /\ q.page = p /\ q.index = x /\ q.created = c /\ q.failed = f

LEMMA JobUpdates ==
    ASSUME NEW q \in JobRecord, NEW n \in Nat, NEW c \in Nat, NEW x \in Nat,
           NEW f \in SUBSET Pages
    PROVE  /\ Fields([q EXCEPT !.failed = f, !.page = n], q.run, n, q.index, q.created, f)
           /\ Fields([q EXCEPT !.index = x], q.run, q.page, x, q.created, q.failed)
           /\ Fields([q EXCEPT !.index = x, !.created = c], q.run, q.page, x, c, q.failed)
           /\ Fields([q EXCEPT !.page = n, !.index = x], q.run, n, x, q.created, q.failed)
<1>1. Fields([q EXCEPT !.failed = f, !.page = n], q.run, n, q.index, q.created, f)
  BY DEF Fields, JobRecord
<1>2. Fields([q EXCEPT !.index = x], q.run, q.page, x, q.created, q.failed)
  BY DEF Fields, JobRecord
<1>3. Fields([q EXCEPT !.index = x, !.created = c], q.run, q.page, x, c, q.failed)
  BY DEF Fields, JobRecord
<1>4. Fields([q EXCEPT !.page = n, !.index = x], q.run, n, x, q.created, q.failed)
  BY DEF Fields, JobRecord
<1> QED
  BY <1>1, <1>2, <1>3, <1>4

Becomes(i, r, p, x, c, f) ==
    /\ extracting' \in [Extractors -> JobRecord]
    /\ \A j \in Extractors \ {i} : extracting'[j] = extracting[j]
    /\ Fields(extracting'[i], r, p, x, c, f)

LEMMA Replaced ==
    ASSUME extracting \in [Extractors -> JobRecord], NEW i \in Extractors, NEW q,
           extracting' = [extracting EXCEPT ![i] = q],
           NEW r, NEW p, NEW x, NEW c, NEW f, Fields(q, r, p, x, c, f)
    PROVE  Becomes(i, r, p, x, c, f)
  BY DEF Becomes, Fields

StartStep(i) ==
    /\ extracting[i] = NoExtraction /\ runs < MaxRuns
    /\ runs' = runs + 1 /\ Becomes(i, runs + 1, 1, 1, 0, {})
    /\ UNCHANGED <<tables, answer, shown, raises>>

RaiseStep(i) ==
    /\ Open(i) /\ extracting[i].index = 1
    /\ raises < MaxRaises /\ raises' = raises + 1
    /\ Becomes(i, extracting[i].run, extracting[i].page + 1, extracting[i].index, extracting[i].created,
               extracting[i].failed \cup {extracting[i].page})
    /\ UNCHANGED <<tables, answer, shown, runs>>

SkipStep(i) ==
    /\ AtTable(i) /\ TablesOn[extracting[i].page][extracting[i].index].widths = <<>>
    /\ Becomes(i, extracting[i].run, extracting[i].page, extracting[i].index + 1, extracting[i].created, extracting[i].failed)
    /\ UNCHANGED <<tables, answer, shown, runs, raises>>

SaveStep(i) ==
    /\ AtTable(i) /\ TablesOn[extracting[i].page][extracting[i].index].widths # <<>>
    /\ tables' = Append(tables, Stored(extracting[i].run, extracting[i].page, extracting[i].index))
    /\ Becomes(i, extracting[i].run, extracting[i].page, extracting[i].index + 1, extracting[i].created + 1, extracting[i].failed)
    /\ UNCHANGED <<answer, shown, runs, raises>>

TurnStep(i) ==
    /\ Open(i) /\ ~AtTable(i)
    /\ Becomes(i, extracting[i].run, extracting[i].page + 1, 1, extracting[i].created, extracting[i].failed)
    /\ UNCHANGED <<tables, answer, shown, runs, raises>>

LEMMA JobSteps ==
    ASSUME Typed, NEW i \in Extractors
    PROVE  /\ StartExtraction(i) => StartStep(i)
           /\ PageRaises(i) => RaiseStep(i)
           /\ SaveTable(i) => SkipStep(i) \/ SaveStep(i)
           /\ TurnPage(i) => TurnStep(i)
<1>1. /\ extracting \in [Extractors -> JobRecord] /\ extracting[i] \in JobRecord
      /\ extracting[i].page + 1 \in Nat /\ extracting[i].index + 1 \in Nat /\ extracting[i].created + 1 \in Nat
      /\ extracting[i].page \in Pages => extracting[i].failed \cup {extracting[i].page} \in SUBSET Pages
  BY DEF Typed, JobRecord
<1>2. ASSUME StartExtraction(i)
      PROVE  StartStep(i)
  <2> DEFINE q == [NoExtraction EXCEPT !.run = runs + 1, !.page = 1, !.index = 1]
  <2>1. runs + 1 \in Nat
    BY DEF Typed
  <2>2. Fields(q, runs + 1, 1, 1, 0, {})
    BY <2>1 DEF NoExtraction, Fields, JobRecord
  <2>3. extracting' = [extracting EXCEPT ![i] = q]
    BY <1>2 DEF StartExtraction
  <2>4. Becomes(i, runs + 1, 1, 1, 0, {})
    <3> HIDE DEF q
    <3> QED
      BY <1>1, <2>2, <2>3, Replaced
  <2> QED
    BY <1>2, <2>4 DEF StartExtraction, StartStep
<1>3. ASSUME PageRaises(i)
      PROVE  RaiseStep(i)
  <2> DEFINE f == extracting[i].failed \cup {extracting[i].page}
             q == [extracting[i] EXCEPT !.failed = f, !.page = extracting[i].page + 1]
  <2>1. extracting' = [extracting EXCEPT ![i] = q]
    BY <1>1, <1>3 DEF PageRaises, JobRecord
  <2>2. f \in SUBSET Pages
    BY <1>1, <1>3 DEF PageRaises, Open
  <2>3. Fields(q, extracting[i].run, extracting[i].page + 1, extracting[i].index, extracting[i].created, f)
    <3> HIDE DEF f
    <3> QED
      BY <1>1, <2>2, JobUpdates
  <2>4. Becomes(i, extracting[i].run, extracting[i].page + 1, extracting[i].index, extracting[i].created, f)
    <3> HIDE DEF q, f
    <3> QED
      BY <1>1, <2>1, <2>3, Replaced
  <2> QED
    BY <1>3, <2>4 DEF PageRaises, RaiseStep
<1>4. ASSUME SaveTable(i)
      PROVE  SkipStep(i) \/ SaveStep(i)
  <2> DEFINE x == extracting[i].index + 1
             c == extracting[i].created + 1
             skipped == [extracting[i] EXCEPT !.index = x]
             saved == [extracting[i] EXCEPT !.index = x, !.created = c]
  <2>1. /\ Fields(skipped, extracting[i].run, extracting[i].page, x, extracting[i].created, extracting[i].failed)
        /\ Fields(saved, extracting[i].run, extracting[i].page, x, c, extracting[i].failed)
    <3>1. x \in Nat /\ c \in Nat
      BY <1>1
    <3> HIDE DEF x, c
    <3> QED
      BY <1>1, <3>1, JobUpdates
  <2>2. [extracting EXCEPT ![i].index = @ + 1] = [extracting EXCEPT ![i] = skipped]
    BY <1>1 DEF JobRecord
  <2>3. NextTable(i) = saved
    BY DEF NextTable
  <2>4. /\ extracting' = [extracting EXCEPT ![i] = skipped] =>
               Becomes(i, extracting[i].run, extracting[i].page, x, extracting[i].created, extracting[i].failed)
        /\ extracting' = [extracting EXCEPT ![i] = saved] =>
               Becomes(i, extracting[i].run, extracting[i].page, x, c, extracting[i].failed)
    <3> HIDE DEF x, c, skipped, saved
    <3> QED
      BY <1>1, <2>1, Replaced
  <2> QED
    BY <1>4, <2>2, <2>3, <2>4 DEF SaveTable, SkipStep, SaveStep
<1>5. ASSUME TurnPage(i)
      PROVE  TurnStep(i)
  <2> DEFINE n == extracting[i].page + 1
             q == [extracting[i] EXCEPT !.page = n, !.index = 1]
  <2>1. extracting' = [extracting EXCEPT ![i] = q]
    BY <1>1, <1>5 DEF TurnPage, JobRecord
  <2>2. Fields(q, extracting[i].run, n, 1, extracting[i].created, extracting[i].failed)
    <3>1. n \in Nat
      BY <1>1
    <3> HIDE DEF n
    <3> QED
      BY <1>1, <3>1, JobUpdates
  <2>3. Becomes(i, extracting[i].run, n, 1, extracting[i].created, extracting[i].failed)
    <3> HIDE DEF q, n
    <3> QED
      BY <1>1, <2>1, <2>2, Replaced
  <2> QED
    BY <1>5, <2>3 DEF TurnPage, TurnStep
<1> QED
  BY <1>2, <1>3, <1>4, <1>5

-----------------------------------------------------------------------------
(* The store only grows. *)

Kept == DOMAIN tables \subseteq DOMAIN tables' /\ \A n \in DOMAIN tables : tables'[n] = tables[n]

LEMMA Appended ==
    ASSUME Typed, NEW e \in StoredTable, tables' = Append(tables, e)
    PROVE  /\ tables' \in Seq(StoredTable) /\ Kept
           /\ Len(tables) + 1 \in DOMAIN tables' /\ Len(tables) + 1 \notin DOMAIN tables
           /\ tables'[Len(tables) + 1] = e
           /\ DOMAIN tables' = DOMAIN tables \cup {Len(tables) + 1}
           /\ \A n \in DOMAIN tables' : n \in Nat
<1>1. tables \in Seq(StoredTable) /\ Len(tables) \in Nat
  BY DEF Typed
<1>2. /\ tables' \in Seq(StoredTable) /\ Len(tables') = Len(tables) + 1
      /\ \A n \in 1 .. Len(tables) : tables'[n] = tables[n]
      /\ tables'[Len(tables) + 1] = e
  BY <1>1
<1>3. DOMAIN tables = 1 .. Len(tables) /\ DOMAIN tables' = 1 .. Len(tables) + 1
  BY <1>1, <1>2
<1> QED
  BY <1>1, <1>2, <1>3 DEF Kept

LEMMA AtTablePlace ==
    ASSUME Typed, NEW i \in Extractors, AtTable(i), extracting[i].index >= 1
    PROVE  /\ extracting[i].page \in Pages /\ extracting[i].index \in DOMAIN TablesOn[extracting[i].page]
           /\ extracting[i].run \in Nat /\ extracting[i].created \in Nat
           /\ Stored(extracting[i].run, extracting[i].page, extracting[i].index) \in StoredTable
<1>1. /\ extracting[i].page \in Pages /\ extracting[i].run \in Nat /\ extracting[i].index \in Nat
      /\ extracting[i].created \in Nat
  BY DEF Typed, JobRecord, AtTable, Open
<1>2. extracting[i].index \in DOMAIN TablesOn[extracting[i].page]
  BY <1>1, ReportLayout DEF AtTable
<1> QED
  BY <1>1, <1>2, StoredType

-----------------------------------------------------------------------------
(* The inductive invariant.  An extraction that is under way has stored     *)
(* just the tables before its cursor, under a run nobody else has.          *)

Done(i) ==
    {q \in Wanted(extracting[i].failed) :
        q[1] < extracting[i].page \/ (q[1] = extracting[i].page /\ q[2] < extracting[i].index)}

(* The tables of run r in s: n of them, one for each place of W. *)
Of(s, r) == {k \in DOMAIN s : s[k].run = r}

WrittenIn(s, r, n, W) ==
    /\ IsFiniteSet(Of(s, r)) /\ Cardinality(Of(s, r)) = n
    /\ IsFiniteSet(W) /\ Cardinality(W) = n
    /\ \A k \in Of(s, r) : <<s[k].page, s[k].index>> \in W
    /\ \A q \in W : \E k \in Of(s, r) : q = <<s[k].page, s[k].index>>

Written(r, n, W) == WrittenIn(tables, r, n, W)

Cursor(i) ==
    /\ extracting[i].page \in 1 .. Len(TablesOn) + 1
    /\ \A p \in extracting[i].failed : p < extracting[i].page
    /\ extracting[i].index \in Nat \ {0}

Apart(i) ==
    /\ \A j \in Extractors : j # i => extracting[j].run # extracting[i].run
    /\ \A j \in Extractors : answer[j] # None => answer[j].run # extracting[i].run

JobOK(i) ==
    IF extracting[i].run = 0 THEN extracting[i].page = 0
    ELSE /\ extracting[i].run <= runs
         /\ Cursor(i)
         /\ Apart(i)
         /\ Written(extracting[i].run, extracting[i].created, Done(i))

AnswerOK(i) ==
    answer[i] # None =>
        /\ answer[i].run <= runs
        /\ Written(answer[i].run, answer[i].created, Wanted(answer[i].failed))

StoreOK ==
    \A n \in DOMAIN tables :
        /\ tables[n].run \in 1 .. runs
        /\ tables[n].index \in DOMAIN TablesOn[tables[n].page]
        /\ tables[n].review = (tables[n].quality = "low")

(* What is shown still stands in the store. *)
ShownOK ==
    \A k \in Kpis : shown[k] # None =>
        /\ shown[k].table \in TablesWith(k)
        /\ shown[k].page = tables[shown[k].table].page
        /\ shown[k].confidence = Confidence(tables[shown[k].table])

IInv ==
    /\ Typed /\ StoreOK /\ ShownOK
    /\ \A i \in Extractors : JobOK(i) /\ AnswerOK(i)

-----------------------------------------------------------------------------
(* How the places before the cursor change with it. *)

LEMMA PlaceOf ==
    ASSUME NEW failed, NEW q \in Wanted(failed)
    PROVE  /\ q = <<q[1], q[2]>> /\ q[1] \in Pages /\ q[1] \in Nat /\ q[1] <= Len(TablesOn)
           /\ q[2] \in Nat /\ 1 <= q[2] /\ q[2] <= Len(TablesOn[q[1]])
           /\ q[1] \notin failed /\ TablesOn[q[1]][q[2]].widths # <<>>
<1>1. /\ q = <<q[1], q[2]>> /\ q[1] \in Pages /\ q[2] \in DOMAIN TablesOn[q[1]]
      /\ q[1] \notin failed /\ TablesOn[q[1]][q[2]].widths # <<>>
  BY DEF Wanted, Places
<1> QED
  BY <1>1, ReportLayout

LEMMA WantedPlace ==
    ASSUME NEW failed, NEW p \in Pages, NEW x \in DOMAIN TablesOn[p],
           p \notin failed, TablesOn[p][x].widths # <<>>
    PROVE  <<p, x>> \in Wanted(failed)
  BY DEF Wanted, Places

LEMMA DoneAtStart ==
    ASSUME NEW i \in Extractors, StartStep(i)
    PROVE  Done(i)' = {}
<1>1. extracting'[i].page = 1 /\ extracting'[i].index = 1 /\ extracting'[i].failed = {}
  BY DEF StartStep, Becomes, Fields
<1>2. Wanted(extracting[i].failed)' = Wanted({})
  BY <1>1 DEF Wanted, Places, Pages
<1>3. \A q \in Wanted({}) : ~(q[1] < 1 \/ (q[1] = 1 /\ q[2] < 1))
  BY PlaceOf, ReportLayout
<1> QED
  BY <1>1, <1>2, <1>3 DEF Done

LEMMA DoneRaised ==
    ASSUME Typed, NEW i \in Extractors, RaiseStep(i)
    PROVE  Done(i)' = Done(i)
<1>1. /\ extracting'[i].page = extracting[i].page + 1 /\ extracting'[i].index = 1 /\ extracting[i].index = 1
      /\ extracting'[i].failed = extracting[i].failed \cup {extracting[i].page} /\ extracting[i].page \in Nat
  BY DEF RaiseStep, Becomes, Fields, Typed, JobRecord
<1>2. ASSUME NEW q \in Done(i)
      PROVE  q \in Done(i)'
  <2>1. q \in Wanted(extracting[i].failed) /\ q[1] < extracting[i].page
    BY <1>1, <1>2, PlaceOf DEF Done
  <2>2. q[1] \notin extracting[i].failed \cup {extracting[i].page} /\ q[1] < extracting[i].page + 1
    BY <1>1, <2>1, PlaceOf
  <2>3. q \in Wanted(extracting'[i].failed)
    BY <1>1, <2>1, <2>2 DEF Wanted
  <2> QED
    BY <1>1, <2>2, <2>3 DEF Done, Wanted, Places, Pages
<1>3. ASSUME NEW q \in Done(i)'
      PROVE  q \in Done(i)
  <2>1. q \in Wanted(extracting'[i].failed)
    BY <1>3 DEF Done, Wanted, Places, Pages
  <2>2. q[1] < extracting[i].page + 1 \/ (q[1] = extracting[i].page + 1 /\ q[2] < 1)
    BY <1>1, <1>3 DEF Done
  <2>3. q[1] # extracting[i].page /\ q[1] < extracting[i].page
    BY <1>1, <2>1, <2>2, PlaceOf
  <2>4. q \in Wanted(extracting[i].failed)
    BY <1>1, <2>1 DEF Wanted
  <2> QED
    BY <2>3, <2>4 DEF Done
<1> QED
  BY <1>2, <1>3

LEMMA DoneTurned ==
    ASSUME Typed, NEW i \in Extractors, TurnStep(i)
    PROVE  Done(i)' = Done(i)
<1>1. /\ extracting'[i].page = extracting[i].page + 1 /\ extracting'[i].index = 1
      /\ extracting'[i].failed = extracting[i].failed /\ extracting[i].page \in Pages
      /\ ~(extracting[i].index <= Len(TablesOn[extracting[i].page]))
      /\ extracting[i].page \in Nat /\ extracting[i].index \in Nat
  BY DEF TurnStep, Becomes, Fields, Typed, JobRecord, AtTable, Open
<1>2. Wanted(extracting[i].failed)' = Wanted(extracting[i].failed)
  BY <1>1 DEF Wanted, Places, Pages
<1>3. ASSUME NEW q \in Wanted(extracting[i].failed)
      PROVE  q[1] < extracting[i].page \/ (q[1] = extracting[i].page /\ q[2] < extracting[i].index)
               <=> q[1] < extracting[i].page + 1 \/ (q[1] = extracting[i].page + 1 /\ q[2] < 1)
  BY <1>1, <1>3, PlaceOf, ReportLayout
<1> QED
  BY <1>1, <1>2, <1>3 DEF Done

LEMMA DoneSkipped ==
    ASSUME Typed, NEW i \in Extractors, SkipStep(i)
    PROVE  Done(i)' = Done(i)
<1>1. /\ extracting'[i].page = extracting[i].page /\ extracting'[i].index = extracting[i].index + 1
      /\ extracting'[i].failed = extracting[i].failed
      /\ TablesOn[extracting[i].page][extracting[i].index].widths = <<>>
      /\ extracting[i].page \in Nat /\ extracting[i].index \in Nat
  BY DEF SkipStep, Becomes, Fields, Typed, JobRecord
<1>2. Wanted(extracting[i].failed)' = Wanted(extracting[i].failed)
  BY <1>1 DEF Wanted, Places, Pages
<1>3. ASSUME NEW q \in Wanted(extracting[i].failed)
      PROVE  q[1] < extracting[i].page \/ (q[1] = extracting[i].page /\ q[2] < extracting[i].index)
               <=> q[1] < extracting[i].page \/ (q[1] = extracting[i].page /\ q[2] < extracting[i].index + 1)
  <2>1. q[1] \in Nat /\ q[2] \in Nat /\ TablesOn[q[1]][q[2]].widths # <<>>
    BY <1>3, PlaceOf
  <2>2. ~(q[1] = extracting[i].page /\ q[2] = extracting[i].index)
    BY <1>1, <2>1
  <2> QED
    BY <1>1, <2>1, <2>2
<1> QED
  BY <1>1, <1>2, <1>3 DEF Done

LEMMA DoneSaved ==
    ASSUME Typed, NEW i \in Extractors, SaveStep(i), Cursor(i)
    PROVE  /\ Done(i)' = Done(i) \cup {<<extracting[i].page, extracting[i].index>>}
           /\ <<extracting[i].page, extracting[i].index>> \notin Done(i)
<1> DEFINE here == <<extracting[i].page, extracting[i].index>>
<1>1. /\ extracting'[i].page = extracting[i].page /\ extracting'[i].index = extracting[i].index + 1
      /\ extracting'[i].failed = extracting[i].failed
      /\ TablesOn[extracting[i].page][extracting[i].index].widths # <<>>
      /\ extracting[i].page \in Nat /\ extracting[i].index \in Nat /\ extracting[i].index >= 1
      /\ extracting[i].page \in Pages /\ extracting[i].index \in DOMAIN TablesOn[extracting[i].page]
    BY AtTablePlace DEF SaveStep, Becomes, Fields, Typed, JobRecord, Cursor
<1>2. Wanted(extracting[i].failed)' = Wanted(extracting[i].failed)
  BY <1>1 DEF Wanted, Places, Pages
<1>3. here \in Wanted(extracting[i].failed)
  <2>1. extracting[i].page \notin extracting[i].failed
    BY <1>1 DEF Cursor
  <2> QED
    BY <1>1, <2>1, WantedPlace
<1>4. here[1] = extracting[i].page /\ here[2] = extracting[i].index
  OBVIOUS
<1>5. ASSUME NEW q \in Wanted(extracting[i].failed)
      PROVE  q[1] < extracting[i].page \/ (q[1] = extracting[i].page /\ q[2] < extracting[i].index + 1)
               <=> q[1] < extracting[i].page \/ (q[1] = extracting[i].page /\ q[2] < extracting[i].index) \/ q = here
  <2>1. q[1] \in Nat /\ q[2] \in Nat /\ q = <<q[1], q[2]>>
    BY <1>5, PlaceOf
  <2>2. q = here <=> q[1] = extracting[i].page /\ q[2] = extracting[i].index
    BY <2>1
  <2> QED
    BY <1>1, <2>1, <2>2
<1> HIDE DEF here
<1>6. here \notin Done(i)
  BY <1>1, <1>4 DEF Done
<1>7. Done(i)' = Done(i) \cup {here}
  BY <1>1, <1>2, <1>3, <1>5 DEF Done
<1> QED
  BY <1>6, <1>7 DEF here

LEMMA DoneAtEnd ==
    ASSUME Typed, NEW i \in Extractors, Cursor(i), ~Open(i)
    PROVE  Done(i) = Wanted(extracting[i].failed)
<1>1. extracting[i].page \in Nat /\ extracting[i].page = Len(TablesOn) + 1 /\ Len(TablesOn) \in Nat
  BY ReportLayout DEF Cursor, Open, Typed, JobRecord
<1> QED
  BY <1>1, PlaceOf DEF Done

-----------------------------------------------------------------------------
(* Every step keeps the types. *)

FinishStep(i) ==
    /\ extracting[i].run # 0 /\ ~Open(i)
    /\ answer' \in [Extractors -> AnswerRecord \cup {None}]
    /\ \A j \in Extractors \ {i} : answer'[j] = answer[j]
    /\ answer'[i].run = extracting[i].run
    /\ answer'[i].created = extracting[i].created /\ answer'[i].failed = extracting[i].failed
    /\ Becomes(i, 0, 0, 0, 0, {})
    /\ UNCHANGED <<tables, shown, runs, raises>>

BreakStep(i) ==
    /\ raises < MaxRaises /\ raises' = raises + 1
    /\ Becomes(i, 0, 0, 0, 0, {})
    /\ UNCHANGED <<tables, answer, shown, runs>>

LEMMA EndSteps ==
    ASSUME Typed, NEW i \in Extractors
    PROVE  (FinishExtraction(i) => FinishStep(i)) /\ (Break(i) => BreakStep(i))
<1>1. extracting \in [Extractors -> JobRecord] /\ extracting[i] \in JobRecord
  BY DEF Typed
<1>2. Fields(NoExtraction, 0, 0, 0, 0, {})
  BY DEF Fields, NoExtraction, JobRecord
<1>3. extracting' = [extracting EXCEPT ![i] = NoExtraction] => Becomes(i, 0, 0, 0, 0, {})
  BY <1>1, <1>2, Replaced
<1>4. ASSUME FinishExtraction(i)
      PROVE  FinishStep(i)
  <2> DEFINE a == [run |-> extracting[i].run, created |-> extracting[i].created, failed |-> extracting[i].failed]
  <2>1. a \in AnswerRecord /\ a.run = extracting[i].run /\ a.created = extracting[i].created
        /\ a.failed = extracting[i].failed
    BY <1>1 DEF AnswerRecord, JobRecord
  <2>2. answer' = [answer EXCEPT ![i] = a]
    BY <1>4 DEF FinishExtraction
  <2>3. extracting[i].run # 0 /\ ~Open(i)
    BY <1>1, <1>4 DEF FinishExtraction
  <2> HIDE DEF a
  <2>4. /\ answer' \in [Extractors -> AnswerRecord \cup {None}]
        /\ answer'[i] = a /\ \A j \in Extractors \ {i} : answer'[j] = answer[j]
    BY <2>1, <2>2 DEF Typed
  <2> QED
    BY <1>3, <1>4, <2>1, <2>3, <2>4 DEF FinishExtraction, FinishStep
<1>5. Break(i) => BreakStep(i)
  BY <1>3 DEF Break, BreakStep
<1> QED
  BY <1>4, <1>5

JobStep(i) ==
    StartStep(i) \/ RaiseStep(i) \/ SkipStep(i) \/ SaveStep(i) \/ TurnStep(i)
        \/ FinishStep(i) \/ BreakStep(i)

LEMMA StepKinds ==
    ASSUME Typed, [TablesNext]_tablesVars
    PROVE  (\E i \in Extractors : JobStep(i)) \/ ShowKpis \/ UNCHANGED tablesVars
  BY JobSteps, EndSteps DEF TablesNext, JobStep

(* A page or a table to take belongs to an extraction that is under way. *)
LEMMA Busy ==
    ASSUME Typed, NEW i \in Extractors, JobOK(i), Open(i) \/ AtTable(i)
    PROVE  extracting[i].run # 0 /\ Cursor(i) /\ Apart(i) /\ extracting[i].page \in Pages
           /\ Written(extracting[i].run, extracting[i].created, Done(i)) /\ extracting[i].run <= runs
<1>1. extracting[i].page \in Pages /\ extracting[i].page >= 1
  BY ReportLayout DEF Open, AtTable
<1> QED
  BY <1>1 DEF JobOK

LEMMA SavedEntry ==
    ASSUME Typed, NEW i \in Extractors, JobOK(i), SaveStep(i)
    PROVE  /\ Stored(extracting[i].run, extracting[i].page, extracting[i].index) \in StoredTable
           /\ Kept /\ tables' \in Seq(StoredTable)
           /\ DOMAIN tables' = DOMAIN tables \cup {Len(tables) + 1}
           /\ Len(tables) + 1 \notin DOMAIN tables
           /\ tables'[Len(tables) + 1] = Stored(extracting[i].run, extracting[i].page, extracting[i].index)
           /\ tables'[Len(tables) + 1].run = extracting[i].run
           /\ tables'[Len(tables) + 1].page = extracting[i].page
           /\ tables'[Len(tables) + 1].index = extracting[i].index
           /\ tables'[Len(tables) + 1].review = (tables'[Len(tables) + 1].quality = "low")
           /\ extracting[i].run \in Nat /\ extracting[i].page \in Pages
           /\ extracting[i].index \in DOMAIN TablesOn[extracting[i].page]
<1>1. AtTable(i) /\ tables' = Append(tables, Stored(extracting[i].run, extracting[i].page, extracting[i].index))
  BY DEF SaveStep
<1>2. extracting[i].index >= 1
  BY <1>1, Busy DEF Cursor
<1>3. /\ extracting[i].page \in Pages /\ extracting[i].index \in DOMAIN TablesOn[extracting[i].page]
      /\ extracting[i].run \in Nat /\ extracting[i].created \in Nat
      /\ Stored(extracting[i].run, extracting[i].page, extracting[i].index) \in StoredTable
  BY <1>1, <1>2, AtTablePlace
<1>4. /\ Stored(extracting[i].run, extracting[i].page, extracting[i].index).run = extracting[i].run
      /\ Stored(extracting[i].run, extracting[i].page, extracting[i].index).page = extracting[i].page
      /\ Stored(extracting[i].run, extracting[i].page, extracting[i].index).index = extracting[i].index
      /\ Stored(extracting[i].run, extracting[i].page, extracting[i].index).review
            = (Stored(extracting[i].run, extracting[i].page, extracting[i].index).quality = "low")
  BY <1>3, StoredType
<1> QED
  BY <1>1, <1>3, <1>4, Appended

LEMMA StoreGrows ==
    ASSUME IInv, [TablesNext]_tablesVars
    PROVE  Kept /\ tables' \in Seq(StoredTable)
<1>1. UNCHANGED tables => Kept /\ tables' \in Seq(StoredTable)
  BY DEF Kept, IInv, Typed
<1>2. ASSUME NEW i \in Extractors, SaveStep(i)
      PROVE  Kept /\ tables' \in Seq(StoredTable)
  BY <1>2, SavedEntry DEF IInv
<1>3. ASSUME NEW i \in Extractors, JobStep(i)
      PROVE  Kept /\ tables' \in Seq(StoredTable)
  BY <1>1, <1>2, <1>3
  DEF JobStep, StartStep, RaiseStep, SkipStep, TurnStep, FinishStep, BreakStep
<1> QED
  BY <1>1, <1>3, StepKinds DEF IInv, ShowKpis, tablesVars

LEMMA TypedStep ==
    ASSUME IInv, [TablesNext]_tablesVars
    PROVE  Typed'
<1> USE DEF IInv
<1>1. tables' \in Seq(StoredTable)
  BY StoreGrows
<1>2. MaxRuns \in Nat /\ MaxRaises \in Nat /\ runs \in 0 .. MaxRuns /\ raises \in 0 .. MaxRaises
  BY TablesAssumption DEF Typed
<1>3. ASSUME NEW i \in Extractors, JobStep(i)
      PROVE  Typed'
  <2>1. extracting' \in [Extractors -> JobRecord] /\ DOMAIN shown' = Kpis
    BY <1>3 DEF JobStep, StartStep, RaiseStep, SkipStep, SaveStep, TurnStep, FinishStep,
                BreakStep, Becomes, Typed
  <2>2. answer' \in [Extractors -> AnswerRecord \cup {None}]
    BY <1>3 DEF JobStep, StartStep, RaiseStep, SkipStep, SaveStep, TurnStep, FinishStep,
                BreakStep, Typed
  <2>3. runs' \in 0 .. MaxRuns
    BY <1>2, <1>3 DEF JobStep, StartStep, RaiseStep, SkipStep, SaveStep, TurnStep, FinishStep,
                BreakStep
  <2>4. raises' \in 0 .. MaxRaises
    BY <1>2, <1>3 DEF JobStep, StartStep, RaiseStep, SkipStep, SaveStep, TurnStep, FinishStep,
                BreakStep
  <2>5. StoredTable' = StoredTable /\ JobRecord' = JobRecord /\ AnswerRecord' = AnswerRecord
    BY DEF StoredTable, JobRecord, AnswerRecord, Pages
  <2> QED
    BY <1>1, <2>1, <2>2, <2>3, <2>4, <2>5 DEF Typed
<1>4. ASSUME ShowKpis \/ UNCHANGED tablesVars
      PROVE  Typed'
  BY <1>1, <1>4 DEF Typed, ShowKpis, tablesVars, StoredTable, JobRecord, AnswerRecord, Pages
<1> QED
  BY <1>3, <1>4, StepKinds

LEMMA StoreStep ==
    ASSUME IInv, [TablesNext]_tablesVars
    PROVE  StoreOK'
<1> USE DEF IInv
<1>1. runs \in Nat /\ runs' \in Nat /\ runs <= runs'
  <2>1. runs \in Nat /\ runs + 1 \in Nat
    BY DEF Typed
  <2>2. ASSUME NEW i \in Extractors, JobStep(i)
        PROVE  runs' = runs \/ runs' = runs + 1
    BY <2>2 DEF JobStep, StartStep, RaiseStep, SkipStep, SaveStep, TurnStep, FinishStep, BreakStep
  <2> QED
    BY <2>1, <2>2, StepKinds DEF ShowKpis, tablesVars
<1>2. Kept
  BY StoreGrows
<1>3. ASSUME NEW n \in DOMAIN tables
      PROVE  /\ tables'[n].run \in 1 .. runs'
             /\ tables'[n].index \in DOMAIN TablesOn[tables'[n].page]
             /\ tables'[n].review = (tables'[n].quality = "low")
  BY <1>1, <1>2 DEF Kept, StoreOK
<1>4. DOMAIN tables' = DOMAIN tables => StoreOK'
  BY <1>3 DEF StoreOK
<1>5. ASSUME NEW i \in Extractors, SaveStep(i)
      PROVE  StoreOK'
  <2> DEFINE n == Len(tables) + 1
  <2>1. extracting[i].run # 0 /\ extracting[i].run <= runs
    BY <1>5, Busy DEF SaveStep
  <2>2. /\ tables'[n].run \in 1 .. runs'
        /\ tables'[n].index \in DOMAIN TablesOn[tables'[n].page]
        /\ tables'[n].review = (tables'[n].quality = "low")
    BY <1>1, <1>5, <2>1, SavedEntry
  <2>3. DOMAIN tables' = DOMAIN tables \cup {n}
    BY <1>5, SavedEntry
  <2> QED
    BY <1>3, <2>2, <2>3 DEF StoreOK
<1>6. ASSUME NEW i \in Extractors, JobStep(i)
      PROVE  StoreOK'
  BY <1>4, <1>5, <1>6
  DEF JobStep, StartStep, RaiseStep, SkipStep, TurnStep, FinishStep, BreakStep
<1> QED
  BY <1>4, <1>6, StepKinds DEF ShowKpis, tablesVars

-----------------------------------------------------------------------------
(* What a run has written stays written, and grows with its own saves only. *)

LEMMA WrittenKept ==
    ASSUME NEW s, NEW t, DOMAIN s \subseteq DOMAIN t, \A k \in DOMAIN s : t[k] = s[k],
           NEW r, \A k \in DOMAIN t \ DOMAIN s : t[k].run # r,
           NEW n, NEW W, WrittenIn(s, r, n, W)
    PROVE  WrittenIn(t, r, n, W)
<1>1. Of(t, r) = Of(s, r) /\ \A k \in Of(s, r) : t[k] = s[k]
  BY DEF Of
<1> QED
  BY <1>1 DEF WrittenIn

LEMMA WrittenMore ==
    ASSUME NEW s, NEW t, NEW e, e \notin DOMAIN s, DOMAIN t = DOMAIN s \cup {e},
           \A k \in DOMAIN s : t[k] = s[k],
           NEW n \in Nat, NEW W, WrittenIn(s, t[e].run, n, W),
           <<t[e].page, t[e].index>> \notin W
    PROVE  WrittenIn(t, t[e].run, n + 1, W \cup {<<t[e].page, t[e].index>>})
<1> DEFINE r == t[e].run
           here == <<t[e].page, t[e].index>>
<1>1. Of(t, r) = Of(s, r) \cup {e} /\ e \notin Of(s, r) /\ \A k \in Of(s, r) : t[k] = s[k]
  BY DEF Of
<1>2. <<t[e].page, t[e].index>> = here
  OBVIOUS
<1> HIDE DEF here, r
<1>3. /\ IsFiniteSet(Of(t, r)) /\ Cardinality(Of(t, r)) = n + 1
      /\ IsFiniteSet(W \cup {here}) /\ Cardinality(W \cup {here}) = n + 1
  <2>1. /\ IsFiniteSet(Of(s, r)) /\ Cardinality(Of(s, r)) = n
        /\ IsFiniteSet(W) /\ Cardinality(W) = n /\ here \notin W
    BY DEF WrittenIn, r, here
  <2> QED
    BY <1>1, <2>1, FS_AddElement
<1>4. \A k \in Of(t, r) : <<t[k].page, t[k].index>> \in W \cup {here}
  BY <1>1, <1>2 DEF WrittenIn, r
<1>5. ASSUME NEW q \in W \cup {here}
      PROVE  \E k \in Of(t, r) : q = <<t[k].page, t[k].index>>
  <2>1. CASE q = here
    BY <1>1, <1>2, <2>1
  <2>2. CASE q \in W
    <3>1. PICK k \in Of(s, r) : q = <<s[k].page, s[k].index>>
      BY <2>2 DEF WrittenIn, r
    <3> QED
      BY <1>1, <3>1
  <2> QED
    BY <2>1, <2>2
<1> QED
  BY <1>3, <1>4, <1>5 DEF WrittenIn, r, here

(* Nobody has written under a number that has not been given out. *)
LEMMA NothingYet ==
    ASSUME Typed, StoreOK
    PROVE  WrittenIn(tables, runs + 1, 0, {})
<1>1. Of(tables, runs + 1) = {}
  <2>1. runs \in Nat
    BY DEF Typed
  <2> QED
    BY <2>1 DEF Of, StoreOK
<1> QED
  BY <1>1, FS_EmptySet DEF WrittenIn

-----------------------------------------------------------------------------
(* An extraction keeps its own books, and no step of another disturbs them. *)

(* No step but a save of run r adds a table of run r. *)
LEMMA Others ==
    ASSUME IInv, NEW i \in Extractors, JobStep(i),
           NEW r, r # extracting[i].run \/ ~SaveStep(i), NEW n, NEW W, WrittenIn(tables, r, n, W)
    PROVE  WrittenIn(tables', r, n, W)
<1>1. CASE SaveStep(i)
  <2>1. /\ Kept /\ DOMAIN tables' = DOMAIN tables \cup {Len(tables) + 1}
        /\ tables'[Len(tables) + 1].run = extracting[i].run
    BY <1>1, SavedEntry DEF IInv
  <2>2. \A k \in DOMAIN tables' \ DOMAIN tables : tables'[k].run # r
    BY <1>1, <2>1
  <2> QED
    BY <2>1, <2>2, WrittenKept DEF Kept
<1>2. CASE ~SaveStep(i)
  BY <1>2 DEF JobStep, StartStep, RaiseStep, SkipStep, TurnStep, FinishStep, BreakStep
<1> QED
  BY <1>1, <1>2

(* The step of an extraction leaves the others as they were. *)
LEMMA Bystanders ==
    ASSUME IInv, NEW i \in Extractors, JobStep(i), NEW j \in Extractors, j # i,
           Typed'
    PROVE  JobOK(j)'
<1> USE DEF IInv
<1>1. extracting'[j] = extracting[j] /\ answer'[j] = answer[j]
  BY DEF JobStep, StartStep, RaiseStep, SkipStep, SaveStep, TurnStep, FinishStep, BreakStep,
         Becomes
<1>2. CASE extracting[j].run = 0
  BY <1>1, <1>2 DEF JobOK
<1>3. CASE extracting[j].run # 0
  <2>1. extracting[j].run <= runs /\ Cursor(j) /\ Apart(j)
        /\ WrittenIn(tables, extracting[j].run, extracting[j].created, Done(j))
    BY <1>3 DEF JobOK, Written
  <2>2. runs \in Nat /\ extracting[j].run \in Nat
    BY DEF Typed, JobRecord
  <2>3. extracting'[j].run <= runs'
    BY <1>1, <2>1, <2>2
    DEF JobStep, StartStep, RaiseStep, SkipStep, SaveStep, TurnStep, FinishStep, BreakStep
  <2>4. Cursor(j)'
    BY <1>1, <2>1 DEF Cursor
  <2>5. Done(j)' = Done(j)
    BY <1>1 DEF Done, Wanted, Places, Pages
  <2>6. extracting'[i].run # extracting[j].run
    BY <1>3, <2>1, <2>2 DEF JobStep, StartStep, RaiseStep, SkipStep, SaveStep, TurnStep,
                            FinishStep, BreakStep, Becomes, Fields, Apart
  <2>7. answer'[i] # None => answer'[i].run # extracting[j].run
    BY <2>1 DEF JobStep, StartStep, RaiseStep, SkipStep, SaveStep, TurnStep, FinishStep,
                BreakStep, Apart
  <2>8. \A l \in Extractors \ {i} : extracting'[l] = extracting[l] /\ answer'[l] = answer[l]
    BY DEF JobStep, StartStep, RaiseStep, SkipStep, SaveStep, TurnStep, FinishStep, BreakStep,
           Becomes
  <2>9. Apart(j)'
    BY <1>1, <2>1, <2>6, <2>7, <2>8 DEF Apart
  <2>10. WrittenIn(tables', extracting[j].run, extracting[j].created, Done(j))
    BY <2>1, Others DEF Apart
  <2>11. Written(extracting[j].run, extracting[j].created, Done(j))'
    BY <1>1, <2>5, <2>10 DEF Written
  <2> QED
    BY <1>1, <1>3, <2>3, <2>4, <2>9, <2>11 DEF JobOK
<1> QED
  BY <1>2, <1>3

LEMMA OwnStart ==
    ASSUME IInv, NEW i \in Extractors, StartStep(i)
    PROVE  JobOK(i)'
<1> USE DEF IInv
<1>1. /\ extracting'[i].run = runs + 1 /\ runs' = runs + 1 /\ extracting'[i].page = 1 /\ extracting'[i].index = 1
      /\ extracting'[i].created = 0 /\ extracting'[i].failed = {} /\ answer' = answer /\ tables' = tables
      /\ \A j \in Extractors \ {i} : extracting'[j] = extracting[j]
  BY DEF StartStep, Becomes, Fields
<1>2. runs \in Nat /\ Len(TablesOn) \in Nat
  BY ReportLayout DEF Typed
<1>3. \A j \in Extractors : extracting[j].run <= runs
  BY <1>2 DEF JobOK
<1>4. \A j \in Extractors : answer[j] # None => answer[j].run <= runs /\ answer[j].run \in Nat
  BY DEF AnswerOK, Typed, AnswerRecord
<1>5. \A j \in Extractors : extracting[j].run \in Nat
  BY DEF Typed, JobRecord
<1>6. Apart(i)'
  BY <1>1, <1>2, <1>3, <1>4, <1>5 DEF Apart
<1>7. Cursor(i)'
  BY <1>1, <1>2 DEF Cursor
<1>8. Written(extracting[i].run, extracting[i].created, Done(i))'
  BY <1>1, NothingYet, DoneAtStart DEF Written
<1> QED
  BY <1>1, <1>2, <1>6, <1>7, <1>8 DEF JobOK

LEMMA OwnMove ==
    ASSUME IInv, NEW i \in Extractors,
           RaiseStep(i) \/ SkipStep(i) \/ TurnStep(i) \/ SaveStep(i)
    PROVE  JobOK(i)'
<1> USE DEF IInv
<1>1. /\ extracting[i].run # 0 /\ Cursor(i) /\ Apart(i) /\ extracting[i].page \in Pages
      /\ WrittenIn(tables, extracting[i].run, extracting[i].created, Done(i)) /\ extracting[i].run <= runs
  BY Busy DEF RaiseStep, SkipStep, TurnStep, SaveStep, Written
<1>2. /\ extracting'[i].run = extracting[i].run /\ runs' = runs /\ answer' = answer
      /\ \A j \in Extractors \ {i} : extracting'[j] = extracting[j]
  BY DEF RaiseStep, SkipStep, TurnStep, SaveStep, Becomes, Fields
<1>3. Apart(i)'
  BY <1>1, <1>2 DEF Apart
<1>4. Cursor(i)'
  <2>1. extracting[i].page \in 1 .. Len(TablesOn) /\ extracting[i].index \in Nat \ {0} /\ Len(TablesOn) \in Nat
    BY <1>1, ReportLayout DEF Cursor
  <2>2. extracting'[i].page \in {extracting[i].page, extracting[i].page + 1}
        /\ extracting'[i].index \in {1, extracting[i].index, extracting[i].index + 1}
    BY DEF RaiseStep, SkipStep, TurnStep, SaveStep, Becomes, Fields
  <2>3. extracting'[i].page \in 1 .. Len(TablesOn) + 1 /\ extracting'[i].index \in Nat \ {0}
    BY <2>1, <2>2
  <2>4. ASSUME NEW p \in extracting'[i].failed
        PROVE  p < extracting'[i].page
    <3>1. p \in extracting[i].failed \/ (p = extracting[i].page /\ extracting'[i].page = extracting[i].page + 1)
      BY <2>4 DEF RaiseStep, SkipStep, TurnStep, SaveStep, Becomes, Fields
    <3>2. p \in extracting[i].failed => p < extracting[i].page /\ p \in Nat
      BY <1>1, ReportLayout DEF Cursor, Typed, JobRecord
    <3> QED
      BY <2>1, <2>2, <3>1, <3>2
  <2> QED
    BY <2>3, <2>4 DEF Cursor
<1>5. Written(extracting[i].run, extracting[i].created, Done(i))'
  <2>1. CASE SaveStep(i)
    <3> DEFINE here == <<extracting[i].page, extracting[i].index>>
               e == Len(tables) + 1
    <3>1. Done(i)' = Done(i) \cup {here} /\ here \notin Done(i)
      BY <1>1, <2>1, DoneSaved
    <3>2. /\ e \notin DOMAIN tables /\ DOMAIN tables' = DOMAIN tables \cup {e}
          /\ \A k \in DOMAIN tables : tables'[k] = tables[k]
          /\ tables'[e].run = extracting[i].run /\ <<tables'[e].page, tables'[e].index>> = here
      BY <2>1, SavedEntry DEF Kept
    <3>3. extracting'[i].created = extracting[i].created + 1 /\ extracting[i].created \in Nat
      BY <2>1 DEF SaveStep, Becomes, Fields, Typed, JobRecord
    <3> HIDE DEF here, e
    <3>4. WrittenIn(tables', extracting[i].run, extracting[i].created + 1, Done(i) \cup {here})
      BY <1>1, <3>1, <3>2, <3>3, WrittenMore
    <3> QED
      BY <1>2, <3>1, <3>3, <3>4 DEF Written
  <2>2. CASE ~SaveStep(i)
    <3>1. tables' = tables /\ extracting'[i].created = extracting[i].created
      BY <2>2 DEF RaiseStep, SkipStep, TurnStep, Becomes, Fields
    <3>2. Done(i)' = Done(i)
      BY <2>2, DoneRaised, DoneSkipped, DoneTurned
    <3> QED
      BY <1>1, <1>2, <3>1, <3>2 DEF Written
  <2> QED
    BY <2>1, <2>2
<1> QED
  BY <1>1, <1>2, <1>3, <1>4, <1>5 DEF JobOK

LEMMA OwnStep ==
    ASSUME IInv, NEW i \in Extractors, JobStep(i)
    PROVE  JobOK(i)'
<1>1. FinishStep(i) \/ BreakStep(i) => JobOK(i)'
  BY DEF FinishStep, BreakStep, Becomes, Fields, JobOK
<1> QED
  BY <1>1, OwnStart, OwnMove DEF JobStep

(* An answer is given when the last page is turned, and nothing under its    *)
(* run is stored later.                                                      *)
LEMMA AnswerStep ==
    ASSUME IInv, NEW i \in Extractors, JobStep(i), NEW j \in Extractors
    PROVE  AnswerOK(j)'
<1> USE DEF IInv
<1>1. runs \in Nat /\ (runs' = runs \/ runs' = runs + 1)
  BY DEF Typed, JobStep, StartStep, RaiseStep, SkipStep, SaveStep, TurnStep, FinishStep, BreakStep
<1>2. CASE answer'[j] = answer[j]
  <2>1. SUFFICES ASSUME answer'[j] # None
                 PROVE  answer'[j].run <= runs'
                        /\ Written(answer[j].run, answer[j].created, Wanted(answer[j].failed))'
    BY DEF AnswerOK
  <2>2. /\ answer[j].run <= runs /\ answer[j].run \in Nat
        /\ WrittenIn(tables, answer[j].run, answer[j].created, Wanted(answer[j].failed))
    BY <1>2, <2>1 DEF AnswerOK, Typed, AnswerRecord, Written
  <2>3. SaveStep(i) => answer[j].run # extracting[i].run
    BY <1>2, <2>1, Busy DEF SaveStep, Apart
  <2>4. WrittenIn(tables', answer[j].run, answer[j].created, Wanted(answer[j].failed))
    BY <2>2, <2>3, Others
  <2>5. Wanted(answer[j].failed)' = Wanted(answer[j].failed)
    BY <1>2 DEF Wanted, Places, Pages
  <2> QED
    BY <1>1, <1>2, <2>2, <2>4, <2>5 DEF Written
<1>3. CASE answer'[j] # answer[j]
  <2>1. FinishStep(i) /\ i = j
    BY <1>3 DEF JobStep, StartStep, RaiseStep, SkipStep, SaveStep, TurnStep, FinishStep, BreakStep
  <2>2. /\ extracting[j].run # 0 /\ ~Open(j) /\ tables' = tables /\ runs' = runs
        /\ answer'[j].run = extracting[j].run /\ answer'[j].created = extracting[j].created
        /\ answer'[j].failed = extracting[j].failed
    BY <2>1 DEF FinishStep
  <2>3. extracting[j].run <= runs /\ Cursor(j) /\ WrittenIn(tables, extracting[j].run, extracting[j].created, Done(j))
    BY <2>2 DEF JobOK, Written
  <2>4. Done(j) = Wanted(extracting[j].failed)
    BY <2>2, <2>3, DoneAtEnd
  <2>5. Wanted(answer[j].failed)' = Wanted(extracting[j].failed)
    BY <2>2 DEF Wanted, Places, Pages
  <2>6. Written(answer[j].run, answer[j].created, Wanted(answer[j].failed))'
    BY <2>2, <2>3, <2>4, <2>5 DEF Written
  <2> QED
    BY <2>2, <2>3, <2>6 DEF AnswerOK
<1> QED
  BY <1>2, <1>3

-----------------------------------------------------------------------------
(* The figures shown. *)

LEMMA StoredEntry ==
    ASSUME Typed, NEW n \in DOMAIN tables
    PROVE  /\ tables[n] \in StoredTable /\ tables[n].page \in Pages /\ tables[n].page \in Nat
           /\ tables[n].quality \in {"low", "medium", "high"}
<1>1. tables[n] \in StoredTable
  BY DEF Typed
<1> QED
  BY <1>1, ReportLayout DEF StoredTable

LEMMA HoldingGrows ==
    ASSUME Kept, NEW k
    PROVE  /\ TablesWith(k) \subseteq TablesWith(k)'
           /\ \A n \in TablesWith(k) : tables'[n] = tables[n]
  BY DEF Kept, TablesWith, HasFigure, Numbers

(* What is shown of a table, and that it is something. *)
LEMMA FigureOf ==
    ASSUME Typed, NEW k \in Kpis, NEW n \in TablesWith(k)
    PROVE  /\ Figure(n, k) # None /\ Figure(n, k).table = n
           /\ Figure(n, k).page = tables[n].page
           /\ Figure(n, k).confidence = Confidence(tables[n])
<1> DEFINE cells == tables[n].figures[k]
<1>1. tables[n] \in StoredTable /\ n \in Nat
  BY DEF TablesWith, Typed
<1>2. cells \in Seq(Cells) /\ tables[n].page \in Nat
  BY <1>1, ReportLayout DEF StoredTable
<1>3. Numbers(cells) # {} /\ Numbers(cells) \subseteq Nat /\ Numbers(cells) \subseteq DOMAIN cells
  BY <1>2 DEF TablesWith, HasFigure, Numbers
<1> HIDE DEF cells
<1>4. cells[Least(Numbers(cells))] \in Cells
  BY <1>2, <1>3, LeastMember
<1>5. Confidence(tables[n]) \in {"high", "medium"}
  BY DEF Confidence
<1> DEFINE v == cells[Least(Numbers(cells))]
           p == tables[n].page
           c == Confidence(tables[n])
<1>6. Figure(n, k) = [value |-> v, page |-> p, table |-> n, confidence |-> c]
  BY DEF Figure, cells
<1>7. v \in Cells /\ p \in Nat /\ c \in {"high", "medium"}
  BY <1>2, <1>4, <1>5
<1> HIDE DEF v, p, c
<1>8. Figure(n, k) \in [value : Cells, page : Nat, table : Nat, confidence : {"high", "medium"}]
  BY <1>1, <1>6, <1>7
<1>9. Figure(n, k) # None
  BY <1>8, TablesAssumption
<1> QED
  BY <1>6, <1>9 DEF p, c

(* A figure is shown when some table holds one, from the first page that does. *)
LEMMA PickedFirst ==
    ASSUME Typed, ShowKpis, NEW k \in Kpis
    PROVE  IF TablesWith(k) = {} THEN shown'[k] = None
           ELSE \E n \in First(k) : shown'[k] = Figure(n, k)
<1>1. PICK pick \in [Kpis -> {None} \cup DOMAIN tables] :
        /\ \A l \in Kpis : pick[l] \in IF TablesWith(l) = {} THEN {None} ELSE First(l)
        /\ shown' = [l \in Kpis |-> IF pick[l] = None THEN None ELSE Figure(pick[l], l)]
  BY DEF ShowKpis
<1>2. \A n \in First(k) : n # None
  BY TablesAssumption DEF First, TablesWith, Typed
<1> QED
  BY <1>1, <1>2

LEMMA ShownStep ==
    ASSUME IInv, [TablesNext]_tablesVars
    PROVE  ShownOK'
<1> USE DEF IInv
<1>1. Kept
  BY StoreGrows
<1>2. ASSUME shown' = shown
      PROVE  ShownOK'
  BY <1>1, <1>2, HoldingGrows DEF ShownOK, Confidence
<1>3. ASSUME ShowKpis
      PROVE  ShownOK'
  <2>1. tables' = tables /\ \A l : TablesWith(l)' = TablesWith(l)
    BY <1>3 DEF ShowKpis, TablesWith, HasFigure, Numbers
  <2>2. ASSUME NEW k \in Kpis, shown'[k] # None
        PROVE  /\ shown'[k].table \in TablesWith(k)
               /\ shown'[k].page = tables[shown'[k].table].page
               /\ shown'[k].confidence = Confidence(tables[shown'[k].table])
    <3>1. PICK n \in First(k) : shown'[k] = Figure(n, k)
      BY <1>3, <2>2, PickedFirst
    <3>2. n \in TablesWith(k)
      BY DEF First
    <3> QED
      BY <3>1, <3>2, FigureOf
  <2> QED
    BY <2>1, <2>2 DEF ShownOK, Confidence
<1>4. (\E i \in Extractors : JobStep(i)) \/ UNCHANGED tablesVars => shown' = shown
  BY DEF JobStep, StartStep, RaiseStep, SkipStep, SaveStep, TurnStep, FinishStep, BreakStep, tablesVars
<1> QED
  BY <1>2, <1>3, <1>4, StepKinds

LEMMA FiguresStep ==
    ASSUME IInv, [TablesNext]_tablesVars, NEW k \in Kpis, shown[k] # None
    PROVE  shown'[k] # None /\ shown'[k].page <= shown[k].page
<1> USE DEF IInv
<1>1. /\ shown[k].table \in TablesWith(k) /\ shown[k].page = tables[shown[k].table].page
      /\ shown[k].page \in Nat
  <2>1. shown[k].table \in TablesWith(k) /\ shown[k].page = tables[shown[k].table].page
    BY DEF ShownOK
  <2>2. shown[k].table \in DOMAIN tables
    BY <2>1 DEF TablesWith
  <2> QED
    BY <2>1, <2>2, StoredEntry
<1>2. CASE ShowKpis
  <2>1. PICK n \in First(k) : shown'[k] = Figure(n, k)
    BY <1>1, <1>2, PickedFirst
  <2>2. n \in TablesWith(k) /\ tables[n].page <= tables[shown[k].table].page
    BY <1>1 DEF First
  <2> QED
    BY <1>1, <2>1, <2>2, FigureOf
<1>3. CASE shown' = shown
  BY <1>1, <1>3
<1>4. (\E i \in Extractors : JobStep(i)) \/ UNCHANGED tablesVars => shown' = shown
  BY DEF JobStep, StartStep, RaiseStep, SkipStep, SaveStep, TurnStep, FinishStep, BreakStep, tablesVars
<1> QED
  BY <1>2, <1>3, <1>4, StepKinds

-----------------------------------------------------------------------------
(* The theorems. *)

LEMMA IInvInit == ASSUME TablesInit PROVE IInv
<1>1. Typed
  BY IdleJob, TablesAssumption DEF TablesInit, Typed
<1>2. DOMAIN tables = {}
  BY DEF TablesInit
<1>3. \A i \in Extractors : extracting[i] = NoExtraction /\ answer[i] = None
  BY DEF TablesInit
<1>4. \A k \in Kpis : shown[k] = None
  BY DEF TablesInit
<1> QED
  BY <1>1, <1>2, <1>3, <1>4, IdleJob DEF IInv, StoreOK, ShownOK, JobOK, AnswerOK

LEMMA IInvStep ==
    ASSUME IInv, [TablesNext]_tablesVars
    PROVE  IInv'
<1>1. Typed' /\ StoreOK' /\ ShownOK'
  BY TypedStep, StoreStep, ShownStep
<1>2. ASSUME NEW i \in Extractors, JobStep(i), NEW j \in Extractors
      PROVE  JobOK(j)' /\ AnswerOK(j)'
  BY <1>1, <1>2, OwnStep, Bystanders, AnswerStep
<1>3. ASSUME ShowKpis \/ UNCHANGED tablesVars, NEW j \in Extractors
      PROVE  JobOK(j)' /\ AnswerOK(j)'
  <2>1. UNCHANGED <<tables, extracting, answer, runs>>
    BY <1>3 DEF ShowKpis, tablesVars
  <2>2. JobOK(j) /\ AnswerOK(j)
    BY DEF IInv
  <2> QED
    BY <2>1, <2>2 DEF JobOK, AnswerOK, Cursor, Apart, Written, Done, Wanted, Places, Pages
<1>4. \A j \in Extractors : JobOK(j)' /\ AnswerOK(j)'
  BY <1>2, <1>3, StepKinds DEF IInv
<1> QED
  BY <1>1, <1>4 DEF IInv

LEMMA IInvTypes == ASSUME IInv PROVE TablesTypeOK
<1>1. ASSUME NEW i \in Extractors
      PROVE  extracting[i].page \in 0 .. Len(TablesOn) + 1 /\ extracting[i].failed \subseteq Pages
  <2>1. JobOK(i) /\ extracting[i] \in JobRecord
    BY DEF IInv, Typed
  <2> QED
    BY <2>1, ReportLayout DEF JobOK, Cursor, JobRecord
<1>2. /\ tables \in Seq(StoredTable) /\ StoreOK
      /\ runs \in 0 .. MaxRuns /\ raises \in 0 .. MaxRaises
  BY DEF IInv, Typed
<1>3. \A n \in DOMAIN tables :
          tables[n].page \in Pages /\ tables[n].quality \in {"low", "medium", "high"}
  BY StoredEntry DEF IInv
<1> QED
  BY <1>1, <1>2, <1>3 DEF TablesTypeOK, StoreOK

LEMMA IInvSound == ASSUME IInv PROVE TablesSound
<1>1. AnswerMatchesStore
  <2>1. SUFFICES ASSUME NEW i \in Extractors, answer[i] # None
                 PROVE  /\ Cardinality(Mine(answer[i].run)) = answer[i].created
                        /\ answer[i].created = Cardinality(Wanted(answer[i].failed))
                        /\ {<<tables[n].page, tables[n].index>> : n \in Mine(answer[i].run)}
                              = Wanted(answer[i].failed)
    <3>1. ASSUME NEW i \in Extractors, answer[i] # None,
                 {<<tables[n].page, tables[n].index>> : n \in Mine(answer[i].run)}
                    = Wanted(answer[i].failed)
          PROVE  {n \in Mine(answer[i].run) : tables[n].page \notin answer[i].failed}
                    = Mine(answer[i].run)
      <4>1. \A n \in Mine(answer[i].run) :
               <<tables[n].page, tables[n].index>> \in Wanted(answer[i].failed)
        BY <3>1
      <4>2. \A n \in Mine(answer[i].run) : tables[n].page \notin answer[i].failed
        BY <4>1 DEF Wanted
      <4> QED
        BY <4>2
    <3> QED
      BY <3>1 DEF AnswerMatchesStore
  <2>2. WrittenIn(tables, answer[i].run, answer[i].created, Wanted(answer[i].failed))
    BY <2>1 DEF IInv, AnswerOK, Written
  <2>3. Of(tables, answer[i].run) = Mine(answer[i].run)
    BY DEF Of, Mine
  <2> QED
    BY <2>2, <2>3 DEF WrittenIn
<1>2. ConfidenceEarned
  BY DEF ConfidenceEarned, IInv, ShownOK, StoreOK, TablesWith, Confidence
<1> QED
  BY <1>1, <1>2, IInvTypes DEF TablesSound

(* The inductive invariant holds in every behaviour. *)
LEMMA IInvAlways == TablesSpec => []IInv
<1>1. TablesInit => IInv
  BY IInvInit
<1>2. IInv /\ [TablesNext]_tablesVars => IInv'
  BY IInvStep
<1> QED
  BY <1>1, <1>2, PTL DEF TablesSpec

(* PDFTable holds what a page of the report can hold (apis/v1/routers/tables.py). *)
THEOREM TablesTyped == TablesSpec => []TablesTypeOK
<1>1. IInv => TablesTypeOK
  BY IInvTypes
<1> QED
  BY <1>1, IInvAlways, PTL

(* extract_tables answers with just what it has stored, each table of a page *)
(* that did not raise once, whatever extracts beside it; and no figure is    *)
(* shown with high confidence from a table a person is to look at.           *)
THEOREM TablesAreSound == TablesSpec => []TablesSound
<1>1. IInv => TablesSound
  BY IInvSound
<1> QED
  BY <1>1, IInvAlways, PTL

(* extract_kpis, asked again at any time, never loses a figure it has given  *)
(* and never gives it from a later page.                                     *)
THEOREM FiguresStay == TablesSpec => FiguresAreKept
<1> DEFINE Keeps == \A k \in Kpis : shown[k] # None =>
                        shown'[k] # None /\ shown'[k].page <= shown[k].page
<1>1. IInv /\ [TablesNext]_tablesVars => Keeps
  BY FiguresStep
<1>2. TablesSpec => []IInv /\ [][TablesNext]_tablesVars
  BY IInvAlways DEF TablesSpec
<1>3. []IInv /\ [][TablesNext]_tablesVars => [][Keeps]_tablesVars
  <2>1. IInv /\ [TablesNext]_tablesVars => [Keeps]_tablesVars
    BY <1>1
  <2> QED
    BY <2>1, PTL
<1> QED
  BY <1>2, <1>3 DEF FiguresAreKept
=============================================================================
