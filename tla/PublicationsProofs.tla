-------------------------- MODULE PublicationsProofs --------------------------
(***************************************************************************)
(* Proofs about Publications, for any requests, versions, documents,       *)
(* seconds and processes: what the files say after crashes, overlapping    *)
(* runs and repairs, and what an answer read from them was worth.          *)
(***************************************************************************)
EXTENDS Publications, SequenceTheorems, FiniteSetTheorems, TLAPS

-----------------------------------------------------------------------------
(* The step that writes a file, and what a step may write.                 *)
FileStep(d, n) == [dir |-> d, name |-> n]
StepNames == Names \union {"history", "INDEX", "policy history", "read back"}
(* What a run writes, in its three directories, is a list of steps.        *)
LEMMA NameLists ==
    ASSUME NEW r \in SnapshotRequests
    PROVE  /\ BundleSteps(r) \in Seq(StepNames)
           /\ SiteSteps(r) \in Seq(StepNames)
           /\ RootSteps(r) \in Seq(StepNames)
<1>1. <<"latest", "history", "INDEX", "policy", "policy history", "MANIFEST">> \in Seq(StepNames)
  BY DEF StepNames, Names
<1>2. <<"latest", "history", "INDEX", "MANIFEST">> \in Seq(StepNames)
  BY DEF StepNames, Names
<1>3. <<"latest", "history", "INDEX", "policy", "README", "MANIFEST">> \in Seq(StepNames)
  BY DEF StepNames, Names
<1>4. <<"latest", "history", "INDEX", "README", "MANIFEST">> \in Seq(StepNames)
  BY DEF StepNames, Names
<1>5. <<"latest", "history", "INDEX", "MANIFEST", "PUBLICATION", "README">> \in Seq(StepNames)
  BY DEF StepNames, Names
<1>a. <<"read back", "latest", "README", "PUBLICATION">> \in Seq(StepNames)
  BY DEF StepNames, Names
<1>b. <<"PUBLICATION", "README">> \in Seq(StepNames)
  BY DEF StepNames, Names
<1>c. <<>> \in Seq(StepNames)
  OBVIOUS
<1>6. TrustBundle(r) \in Seq(StepNames)
  BY <1>1, <1>2, Zenon DEF TrustBundle
<1>7. TrustSite(r) \in Seq(StepNames)
  BY <1>3, <1>4, Zenon DEF TrustSite
<1>8. BundleSteps(r) \in Seq(StepNames)
  BY <1>5, <1>6 DEF BundleSteps, ReleaseBundle, HandoffBundle
<1>9. SiteSteps(r) \in Seq(StepNames)
  BY <1>4, <1>7, <1>c DEF SiteSteps, HandoffSite
<1>10. RootSteps(r) \in Seq(StepNames)
  BY <1>a, <1>b, <1>c DEF RootSteps, TrustRoot, ReleaseRoot, HandoffRoot
<1> QED
  BY <1>8, <1>9, <1>10

LEMMA IntoIsList ==
    ASSUME NEW names \in Seq(StepNames), NEW D, NEW d \in D
    PROVE  /\ Len(names) \in Nat
           /\ Into(d, names) \in Seq([dir : D, name : StepNames])
           /\ Len(Into(d, names)) = Len(names)
           /\ \A n \in 1..Len(names) : Into(d, names)[n] = FileStep(d, names[n])
<1>1. Len(names) \in Nat /\ \A n \in 1..Len(names) : names[n] \in StepNames
  OBVIOUS
<1>2. \A n \in 1..Len(names) : [dir |-> d, name |-> names[n]] \in [dir : D, name : StepNames]
  BY <1>1
<1>3. Into(d, names) \in Seq([dir : D, name : StepNames])
  BY <1>1, <1>2 DEF Into
<1>4. Len(Into(d, names)) = Len(names)
  BY <1>1 DEF Into
<1> QED
  BY <1>1, <1>3, <1>4 DEF Into, FileStep

LEMMA Joined ==
    ASSUME NEW T, NEW B \in Seq(T), NEW S \in Seq(T), NEW R \in Seq(T), NEW Q, Q = B \o S \o R
    PROVE  /\ Len(Q) = Len(B) + Len(S) + Len(R)
           /\ \A n \in 1..Len(B) : Q[n] = B[n]
           /\ \A n \in 1..Len(S) : Q[Len(B) + n] = S[n]
           /\ \A n \in 1..Len(R) : Q[Len(B) + Len(S) + n] = R[n]
OBVIOUS

LEMMA StepsParts ==
    ASSUME NEW r \in SnapshotRequests
    PROVE  \E b, s, t \in Nat :
               /\ b = Len(BundleSteps(r)) /\ s = Len(SiteSteps(r)) /\ t = Len(RootSteps(r))
               /\ Len(Steps(r)) = b + s + t
               /\ \A n \in 1..b : Steps(r)[n] = FileStep(BundleDir(r), BundleSteps(r)[n])
               /\ \A n \in 1..s : Steps(r)[b + n] = FileStep(SiteDir(r), SiteSteps(r)[n])
               /\ \A n \in 1..t : Steps(r)[b + s + n] = FileStep(RootDir(r), RootSteps(r)[n])
<1>0. PICK b, s, t : b = Len(BundleSteps(r)) /\ s = Len(SiteSteps(r)) /\ t = Len(RootSteps(r))
  OBVIOUS
<1> DEFINE D == {BundleDir(r), SiteDir(r), RootDir(r)}
           T == [dir : D, name : StepNames]
           B == Into(BundleDir(r), BundleSteps(r))
           S == Into(SiteDir(r), SiteSteps(r))
           R == Into(RootDir(r), RootSteps(r))
<1>1. BundleDir(r) \in D /\ SiteDir(r) \in D /\ RootDir(r) \in D
  OBVIOUS
<1> HIDE DEF D
<1>2. /\ B \in Seq(T) /\ Len(B) = b /\ b \in Nat
      /\ \A n \in 1..b : B[n] = FileStep(BundleDir(r), BundleSteps(r)[n])
  BY <1>0, <1>1, IntoIsList, NameLists
<1>3. /\ S \in Seq(T) /\ Len(S) = s /\ s \in Nat
      /\ \A n \in 1..s : S[n] = FileStep(SiteDir(r), SiteSteps(r)[n])
  BY <1>0, <1>1, IntoIsList, NameLists
<1>4. /\ R \in Seq(T) /\ Len(R) = t /\ t \in Nat
      /\ \A n \in 1..t : R[n] = FileStep(RootDir(r), RootSteps(r)[n])
  BY <1>0, <1>1, IntoIsList, NameLists
<1>5. Steps(r) = B \o S \o R
  BY DEF Steps
<1> HIDE DEF B, S, R, T
<1>6. PICK Q : Q = Steps(r) /\ Q = B \o S \o R
  BY <1>5
<1>a. B \in Seq(T) /\ S \in Seq(T) /\ R \in Seq(T)
  BY <1>2, <1>3, <1>4
<1>7. /\ Len(Q) = Len(B) + Len(S) + Len(R)
      /\ \A n \in 1..Len(B) : Q[n] = B[n]
      /\ \A n \in 1..Len(S) : Q[Len(B) + n] = S[n]
      /\ \A n \in 1..Len(R) : Q[Len(B) + Len(S) + n] = R[n]
  BY <1>a, <1>6, Joined
<1>8. /\ Len(Steps(r)) = b + s + t
      /\ \A n \in 1..b : Steps(r)[n] = FileStep(BundleDir(r), BundleSteps(r)[n])
      /\ \A n \in 1..s : Steps(r)[b + n] = FileStep(SiteDir(r), SiteSteps(r)[n])
      /\ \A n \in 1..t : Steps(r)[b + s + n] = FileStep(RootDir(r), RootSteps(r)[n])
  BY <1>2, <1>3, <1>4, <1>6, <1>7, ZenonT(60)
<1> QED
  BY <1>0, <1>2, <1>3, <1>4, <1>8, Zenon

(* The lists have two to six steps.                                        *)
LEMMA ListsCounted ==
    /\ 1..6 = {1, 2, 3, 4, 5, 6} /\ 6 \in 4..6
    /\ 1..5 = {1, 2, 3, 4, 5} /\ 5 \in 4..6
    /\ 1..4 = {1, 2, 3, 4} /\ 4 \in 4..6
    /\ 1..2 = {1, 2}
<1>1. 1..6 = {1, 2, 3, 4, 5, 6} /\ 6 \in 4..6
  OBVIOUS
<1>2. 1..5 = {1, 2, 3, 4, 5} /\ 5 \in 4..6
  OBVIOUS
<1>3. 1..4 = {1, 2, 3, 4} /\ 4 \in 4..6
  OBVIOUS
<1>4. 1..2 = {1, 2}
  OBVIOUS
<1> QED
  BY <1>1, <1>2, <1>3, <1>4

(* Where the names stand in the lists.                                      *)
LEMMA BundleNames ==
    ASSUME NEW r \in SnapshotRequests
    PROVE  /\ BundleSteps(r)[1] = "latest" /\ BundleSteps(r)[2] = "history"
              /\ BundleSteps(r)[3] = "INDEX" /\ Len(BundleSteps(r)) \in 4..6
           /\ r.policy => BundleSteps(r)[4] = "policy"
           /\ \A n \in 1..Len(BundleSteps(r)) : BundleSteps(r)[n] = "MANIFEST" => n \in {4, 6}
              /\ (r.policy => n = 6)
           /\ \E n \in 1..Len(BundleSteps(r)) : BundleSteps(r)[n] = "MANIFEST"
           /\ \A n, m \in 1..Len(BundleSteps(r)) : BundleSteps(r)[n] = BundleSteps(r)[m] => n = m
           /\ \A n \in 1..Len(BundleSteps(r)) :
                 /\ BundleSteps(r)[n] # "read back"
                 /\ BundleSteps(r)[n] = "PUBLICATION" => r.kind # "trust" /\ n = 5
                    /\ BundleSteps(r)[4] = "MANIFEST"
                 /\ BundleSteps(r)[n] = "README" => r.kind # "trust"
<1> SUFFICES ASSUME NEW B, B = BundleSteps(r)
      PROVE  /\ B[1] = "latest" /\ B[2] = "history" /\ B[3] = "INDEX" /\ Len(B) \in 4..6
             /\ r.policy => B[4] = "policy"
             /\ \A n \in 1..Len(B) : B[n] = "MANIFEST" => n \in {4, 6} /\ (r.policy => n = 6)
             /\ \E n \in 1..Len(B) : B[n] = "MANIFEST"
             /\ \A n, m \in 1..Len(B) : B[n] = B[m] => n = m
             /\ \A n \in 1..Len(B) :
                   /\ B[n] # "read back"
                   /\ B[n] = "PUBLICATION" => r.kind # "trust" /\ n = 5 /\ B[4] = "MANIFEST"
                   /\ B[n] = "README" => r.kind # "trust"
  OBVIOUS
<1>1. /\ r.kind \in {"trust", "release", "handoff"}
      /\ r.policy \in BOOLEAN /\ (r.policy => r.kind = "trust")
  BY PublicationsAssumption
<1>2. CASE r.kind = "trust" /\ r.policy
  <2>0. Len(B) = 6
    BY <1>2 DEF BundleSteps, TrustBundle
  <2>1. B[1] = "latest" /\ B[2] = "history" /\ B[3] = "INDEX" /\ B[4] = "policy"
        /\ B[5] = "policy history" /\ B[6] = "MANIFEST"
    BY <1>2 DEF BundleSteps, TrustBundle
  <2>2. 1..Len(B) = 1..6
    BY <2>0, Zenon
  <2>3. 1..Len(B) = {1, 2, 3, 4, 5, 6}
    BY <2>2, ListsCounted
  <2>4. Len(B) \in 4..6
    BY <2>0, ListsCounted, Zenon
  <2>5. \A n \in 1..Len(B) : B[n] = "MANIFEST" => n \in {4, 6} /\ (r.policy => n = 6)
    BY <1>1, <1>2, <2>1, <2>3
  <2>6. \A n, m \in 1..Len(B) : B[n] = B[m] => n = m
    BY <2>1, <2>3, ZenonT(60)
  <2>7. \A n \in 1..Len(B) :
           /\ B[n] # "read back"
           /\ B[n] = "PUBLICATION" => r.kind # "trust" /\ n = 5 /\ B[4] = "MANIFEST"
           /\ B[n] = "README" => r.kind # "trust"
    BY <1>2, <2>1, <2>3
  <2>8. \E n \in 1..Len(B) : B[n] = "MANIFEST"
    BY <2>1, <2>3
  <2> QED
    BY <1>1, <1>2, <2>1, <2>4, <2>5, <2>6, <2>7, <2>8
<1>3. CASE r.kind = "trust" /\ ~r.policy
  <2>0. Len(B) = 4
    BY <1>3 DEF BundleSteps, TrustBundle
  <2>1. B[1] = "latest" /\ B[2] = "history" /\ B[3] = "INDEX" /\ B[4] = "MANIFEST"
    BY <1>3 DEF BundleSteps, TrustBundle
  <2>2. 1..Len(B) = 1..4
    BY <2>0, Zenon
  <2>3. 1..Len(B) = {1, 2, 3, 4}
    BY <2>2, ListsCounted
  <2>4. Len(B) \in 4..6
    BY <2>0, ListsCounted, Zenon
  <2>5. \A n \in 1..Len(B) : B[n] = "MANIFEST" => n \in {4, 6} /\ (r.policy => n = 6)
    BY <1>1, <1>3, <2>1, <2>3
  <2>6. \A n, m \in 1..Len(B) : B[n] = B[m] => n = m
    BY <2>1, <2>3
  <2>7. \A n \in 1..Len(B) :
           /\ B[n] # "read back"
           /\ B[n] = "PUBLICATION" => r.kind # "trust" /\ n = 5 /\ B[4] = "MANIFEST"
           /\ B[n] = "README" => r.kind # "trust"
    BY <1>3, <2>1, <2>3
  <2>8. \E n \in 1..Len(B) : B[n] = "MANIFEST"
    BY <2>1, <2>3
  <2> QED
    BY <1>1, <1>3, <2>1, <2>4, <2>5, <2>6, <2>7, <2>8
<1>4. CASE r.kind = "release"
  <2>0. Len(B) = 6
    BY <1>4 DEF BundleSteps, ReleaseBundle
  <2>1. B[1] = "latest" /\ B[2] = "history" /\ B[3] = "INDEX" /\ B[4] = "MANIFEST"
        /\ B[5] = "PUBLICATION" /\ B[6] = "README"
    BY <1>4 DEF BundleSteps, ReleaseBundle
  <2>2. 1..Len(B) = 1..6
    BY <2>0, Zenon
  <2>3. 1..Len(B) = {1, 2, 3, 4, 5, 6}
    BY <2>2, ListsCounted
  <2>4. Len(B) \in 4..6
    BY <2>0, ListsCounted, Zenon
  <2>5. \A n \in 1..Len(B) : B[n] = "MANIFEST" => n \in {4, 6} /\ (r.policy => n = 6)
    BY <1>1, <1>4, <2>1, <2>3
  <2>6. \A n, m \in 1..Len(B) : B[n] = B[m] => n = m
    BY <2>1, <2>3
  <2>7. \A n \in 1..Len(B) :
           /\ B[n] # "read back"
           /\ B[n] = "PUBLICATION" => r.kind # "trust" /\ n = 5 /\ B[4] = "MANIFEST"
           /\ B[n] = "README" => r.kind # "trust"
    BY <1>4, <2>1, <2>3
  <2>8. \E n \in 1..Len(B) : B[n] = "MANIFEST"
    BY <2>1, <2>3
  <2> QED
    BY <1>1, <1>4, <2>1, <2>4, <2>5, <2>6, <2>7, <2>8
<1>5. CASE r.kind = "handoff"
  <2>0. Len(B) = 6
    BY <1>5 DEF BundleSteps, HandoffBundle
  <2>1. B[1] = "latest" /\ B[2] = "history" /\ B[3] = "INDEX" /\ B[4] = "MANIFEST"
        /\ B[5] = "PUBLICATION" /\ B[6] = "README"
    BY <1>5 DEF BundleSteps, HandoffBundle
  <2>2. 1..Len(B) = 1..6
    BY <2>0, Zenon
  <2>3. 1..Len(B) = {1, 2, 3, 4, 5, 6}
    BY <2>2, ListsCounted
  <2>4. Len(B) \in 4..6
    BY <2>0, ListsCounted, Zenon
  <2>5. \A n \in 1..Len(B) : B[n] = "MANIFEST" => n \in {4, 6} /\ (r.policy => n = 6)
    BY <1>1, <1>5, <2>1, <2>3
  <2>6. \A n, m \in 1..Len(B) : B[n] = B[m] => n = m
    BY <2>1, <2>3
  <2>7. \A n \in 1..Len(B) :
           /\ B[n] # "read back"
           /\ B[n] = "PUBLICATION" => r.kind # "trust" /\ n = 5 /\ B[4] = "MANIFEST"
           /\ B[n] = "README" => r.kind # "trust"
    BY <1>5, <2>1, <2>3
  <2>8. \E n \in 1..Len(B) : B[n] = "MANIFEST"
    BY <2>1, <2>3
  <2> QED
    BY <1>1, <1>5, <2>1, <2>4, <2>5, <2>6, <2>7, <2>8
<1> QED
  BY <1>1, <1>2, <1>3, <1>4, <1>5

(* The site, too, begins with the files its manifest names.                *)
LEMMA SiteNames ==
    ASSUME NEW r \in SnapshotRequests
    PROVE  /\ ~HasSite(r) => Len(SiteSteps(r)) = 0
           /\ HasSite(r) =>
                 /\ SiteSteps(r)[1] = "latest" /\ SiteSteps(r)[2] = "history"
                    /\ SiteSteps(r)[3] = "INDEX" /\ Len(SiteSteps(r)) \in 4..6
                 /\ r.policy => SiteSteps(r)[4] = "policy"
                 /\ \A n \in 1..Len(SiteSteps(r)) : SiteSteps(r)[n] = "MANIFEST" => n \in {5, 6}
                 /\ \E n \in 1..Len(SiteSteps(r)) : SiteSteps(r)[n] = "MANIFEST"
                 /\ \A n, m \in 1..Len(SiteSteps(r)) : SiteSteps(r)[n] = SiteSteps(r)[m] => n = m
                 /\ \A n \in 1..Len(SiteSteps(r)) : SiteSteps(r)[n] # "read back"
                    /\ SiteSteps(r)[n] # "PUBLICATION"
<1> SUFFICES ASSUME NEW S, S = SiteSteps(r)
      PROVE  /\ ~HasSite(r) => Len(S) = 0
             /\ HasSite(r) =>
                   /\ S[1] = "latest" /\ S[2] = "history" /\ S[3] = "INDEX" /\ Len(S) \in 4..6
                   /\ r.policy => S[4] = "policy"
                   /\ \A n \in 1..Len(S) : S[n] = "MANIFEST" => n \in {5, 6}
                   /\ \E n \in 1..Len(S) : S[n] = "MANIFEST"
                   /\ \A n, m \in 1..Len(S) : S[n] = S[m] => n = m
                   /\ \A n \in 1..Len(S) : S[n] # "read back" /\ S[n] # "PUBLICATION"
  OBVIOUS
<1>1. /\ r.kind \in {"trust", "release", "handoff"}
      /\ r.policy \in BOOLEAN /\ (r.policy => r.kind = "trust")
  BY PublicationsAssumption
<1>2. CASE HasSite(r) /\ r.kind = "trust" /\ r.policy
  <2>0. Len(S) = 6
    BY <1>2 DEF SiteSteps, TrustSite
  <2>1. S[1] = "latest" /\ S[2] = "history" /\ S[3] = "INDEX" /\ S[4] = "policy"
        /\ S[5] = "README" /\ S[6] = "MANIFEST"
    BY <1>2 DEF SiteSteps, TrustSite
  <2>2. 1..Len(S) = 1..6
    BY <2>0, Zenon
  <2>3. 1..Len(S) = {1, 2, 3, 4, 5, 6}
    BY <2>2, ListsCounted
  <2>4. Len(S) \in 4..6
    BY <2>0, ListsCounted, Zenon
  <2>5. \A n \in 1..Len(S) : S[n] = "MANIFEST" => n \in {5, 6}
    BY <2>1, <2>3
  <2>6. \E n \in 1..Len(S) : S[n] = "MANIFEST"
    BY <2>1, <2>3
  <2>7. \A n, m \in 1..Len(S) : S[n] = S[m] => n = m
    BY <2>1, <2>3
  <2>8. \A n \in 1..Len(S) : S[n] # "read back" /\ S[n] # "PUBLICATION"
    BY <2>1, <2>3
  <2> QED
    BY <1>1, <1>2, <2>1, <2>4, <2>5, <2>6, <2>7, <2>8
<1>3. CASE HasSite(r) /\ r.kind = "trust" /\ ~r.policy
  <2>0. Len(S) = 5
    BY <1>3 DEF SiteSteps, TrustSite
  <2>1. S[1] = "latest" /\ S[2] = "history" /\ S[3] = "INDEX" /\ S[4] = "README"
        /\ S[5] = "MANIFEST"
    BY <1>3 DEF SiteSteps, TrustSite
  <2>2. 1..Len(S) = 1..5
    BY <2>0, Zenon
  <2>3. 1..Len(S) = {1, 2, 3, 4, 5}
    BY <2>2, ListsCounted
  <2>4. Len(S) \in 4..6
    BY <2>0, ListsCounted, Zenon
  <2>5. \A n \in 1..Len(S) : S[n] = "MANIFEST" => n \in {5, 6}
    BY <2>1, <2>3
  <2>6. \E n \in 1..Len(S) : S[n] = "MANIFEST"
    BY <2>1, <2>3
  <2>7. \A n, m \in 1..Len(S) : S[n] = S[m] => n = m
    BY <2>1, <2>3
  <2>8. \A n \in 1..Len(S) : S[n] # "read back" /\ S[n] # "PUBLICATION"
    BY <2>1, <2>3
  <2> QED
    BY <1>1, <1>3, <2>1, <2>4, <2>5, <2>6, <2>7, <2>8
<1>4. CASE HasSite(r) /\ r.kind # "trust"
  <2>0. Len(S) = 5
    BY <1>4 DEF SiteSteps, HandoffSite
  <2>1. S[1] = "latest" /\ S[2] = "history" /\ S[3] = "INDEX" /\ S[4] = "README"
        /\ S[5] = "MANIFEST"
    BY <1>4 DEF SiteSteps, HandoffSite
  <2>2. 1..Len(S) = 1..5
    BY <2>0, Zenon
  <2>3. 1..Len(S) = {1, 2, 3, 4, 5}
    BY <2>2, ListsCounted
  <2>4. Len(S) \in 4..6
    BY <2>0, ListsCounted, Zenon
  <2>5. \A n \in 1..Len(S) : S[n] = "MANIFEST" => n \in {5, 6}
    BY <2>1, <2>3
  <2>6. \E n \in 1..Len(S) : S[n] = "MANIFEST"
    BY <2>1, <2>3
  <2>7. \A n, m \in 1..Len(S) : S[n] = S[m] => n = m
    BY <2>1, <2>3
  <2>8. \A n \in 1..Len(S) : S[n] # "read back" /\ S[n] # "PUBLICATION"
    BY <2>1, <2>3
  <2> QED
    BY <1>1, <1>4, <2>1, <2>4, <2>5, <2>6, <2>7, <2>8
<1>5. CASE ~HasSite(r)
  <2>0. S = <<>>
    BY <1>5 DEF SiteSteps
  <2>1. Len(S) = 0 /\ 1..Len(S) = {}
    BY <2>0
  <2> QED
    BY <1>5, <2>1
<1> QED
  BY <1>1, <1>2, <1>3, <1>4, <1>5

(* The root has no manifest of its own and no history.                     *)
LEMMA RootNames ==
    ASSUME NEW r \in SnapshotRequests
    PROVE  /\ ~HasRoot(r) => Len(RootSteps(r)) = 0
           /\ \A n, m \in 1..Len(RootSteps(r)) : RootSteps(r)[n] = RootSteps(r)[m] => n = m
           /\ \A n \in 1..Len(RootSteps(r)) :
                 /\ RootSteps(r)[n] \in {"PUBLICATION", "README", "latest", "read back"}
                 /\ RootSteps(r)[n] \in {"latest", "read back"} => r.kind = "release"
<1> SUFFICES ASSUME NEW R, R = RootSteps(r)
      PROVE  /\ ~HasRoot(r) => Len(R) = 0
             /\ \A n, m \in 1..Len(R) : R[n] = R[m] => n = m
             /\ \A n \in 1..Len(R) :
                   /\ R[n] \in {"PUBLICATION", "README", "latest", "read back"}
                   /\ R[n] \in {"latest", "read back"} => r.kind = "release"
  OBVIOUS
<1>1. r.kind \in {"trust", "release", "handoff"}
  BY PublicationsAssumption
<1>2. CASE HasRoot(r) /\ r.kind = "trust"
  <2>0. Len(R) = 2
    BY <1>2 DEF RootSteps, TrustRoot
  <2>1. R[1] = "PUBLICATION" /\ R[2] = "README"
    BY <1>2 DEF RootSteps, TrustRoot
  <2>2. 1..Len(R) = 1..2
    BY <2>0, Zenon
  <2>3. 1..Len(R) = {1, 2}
    BY <2>2, ListsCounted
  <2> QED
    BY <1>1, <1>2, <2>1, <2>3
<1>3. CASE HasRoot(r) /\ r.kind = "release"
  <2>0. Len(R) = 4
    BY <1>3 DEF RootSteps, ReleaseRoot
  <2>1. R[1] = "read back" /\ R[2] = "latest" /\ R[3] = "README" /\ R[4] =
        "PUBLICATION"
    BY <1>3 DEF RootSteps, ReleaseRoot
  <2>2. 1..Len(R) = 1..4
    BY <2>0, Zenon
  <2>3. 1..Len(R) = {1, 2, 3, 4}
    BY <2>2, ListsCounted
  <2> QED
    BY <1>1, <1>3, <2>1, <2>3
<1>4. CASE HasRoot(r) /\ r.kind = "handoff"
  <2>0. Len(R) = 2
    BY <1>4 DEF RootSteps, HandoffRoot
  <2>1. R[1] = "PUBLICATION" /\ R[2] = "README"
    BY <1>4 DEF RootSteps, HandoffRoot
  <2>2. 1..Len(R) = 1..2
    BY <2>0, Zenon
  <2>3. 1..Len(R) = {1, 2}
    BY <2>2, ListsCounted
  <2> QED
    BY <1>1, <1>4, <2>1, <2>3
<1>5. CASE ~HasRoot(r)
  <2>0. R = <<>>
    BY <1>5 DEF RootSteps
  <2>1. Len(R) = 0 /\ 1..Len(R) = {}
    BY <2>0
  <2> QED
    BY <1>5, <2>1
<1> QED
  BY <1>1, <1>2, <1>3, <1>4, <1>5

(* The three directories of a run are apart, but for the trust signals,    *)
(* whose bundle of artifacts is the root.                                  *)
LEMMA DirsApart ==
    ASSUME NEW r \in SnapshotRequests
    PROVE  /\ BundleDir(r) \in Dirs
           /\ HasSite(r) => SiteDir(r) \in Dirs
           /\ HasRoot(r) => RootDir(r) \in Dirs
           /\ HasSite(r) => BundleDir(r) # SiteDir(r)
           /\ SiteDir(r) # RootDir(r)
           /\ BundleDir(r) = RootDir(r) => r.kind = "trust"
           /\ r.kind = "trust" => r.version \in Versions
<1>1. /\ r.kind \in {"trust", "release", "handoff"} /\ r.place \in {"docs", "artifacts"}
      /\ r.version \in Versions /\ "root" \notin Versions
  BY PublicationsAssumption
<1> QED
  BY <1>1 DEF BundleDir, SiteDir, RootDir, TrustDir, ReleaseDir, HandoffDir, HasSite, HasRoot,
      Dirs

(* Once a run has come to the root it writes no manifest and no history.   *)
InRootPart(r, n) ==
    \E k \in 1..Len(RootSteps(r)) : n = Len(BundleSteps(r)) + Len(SiteSteps(r)) + k

LEMMA RootComesLast ==
    ASSUME NEW r \in SnapshotRequests, NEW n, InRootPart(r, n)
    PROVE  \A m \in 1..Len(Steps(r)) :
               m >= n => Steps(r)[m].name \notin {"MANIFEST", "history"}
<1>1. PICK b, s, t \in Nat :
             /\ b = Len(BundleSteps(r)) /\ s = Len(SiteSteps(r)) /\ t = Len(RootSteps(r))
             /\ Len(Steps(r)) = b + s + t
             /\ \A k \in 1..b : Steps(r)[k] = FileStep(BundleDir(r), BundleSteps(r)[k])
             /\ \A k \in 1..s : Steps(r)[b + k] = FileStep(SiteDir(r), SiteSteps(r)[k])
             /\ \A k \in 1..t : Steps(r)[b + s + k] = FileStep(RootDir(r), RootSteps(r)[k])
  BY StepsParts
<1>2. PICK k \in 1..t : n = b + s + k
  BY <1>1 DEF InRootPart
<1>3. ASSUME NEW m \in 1..(b + s + t), m >= b + s + k
      PROVE  Steps(r)[m].name \notin {"MANIFEST", "history"}
  <2>1. PICK l \in 1..t : m = b + s + l
    <3>1. m - (b + s) \in 1..t /\ m = b + s + (m - (b + s))
      BY <1>3
    <3> QED
      BY <3>1
  <2>2. Steps(r)[m] = FileStep(RootDir(r), RootSteps(r)[l])
    BY <1>1, <2>1
  <2>3. RootSteps(r)[l] \in {"PUBLICATION", "README", "latest", "read back"}
    BY <1>1, RootNames
  <2>4. FileStep(RootDir(r), RootSteps(r)[l]).name = RootSteps(r)[l]
    BY Zenon DEF FileStep
  <2>5. Steps(r)[m].name = RootSteps(r)[l]
    BY <2>2, <2>4, Zenon
  <2> QED
    BY <2>3, <2>5
<1>4. 1..Len(Steps(r)) = 1..(b + s + t)
  BY <1>1, Zenon
<1> QED
  BY <1>2, <1>3, <1>4, Zenon

(* A step is one of the bundle, one of the site or one of the root.         *)
LEMMA StepPlaces ==
    ASSUME NEW r \in SnapshotRequests, NEW n \in 1..Len(Steps(r))
    PROVE  \/ n \in 1..Len(BundleSteps(r))
              /\ Steps(r)[n] = FileStep(BundleDir(r), BundleSteps(r)[n])
           \/ /\ HasSite(r)
              /\ \E k \in 1..Len(SiteSteps(r)) :
                    /\ n = Len(BundleSteps(r)) + k
                    /\ Steps(r)[n] = FileStep(SiteDir(r), SiteSteps(r)[k])
           \/ /\ HasRoot(r)
              /\ \E k \in 1..Len(RootSteps(r)) :
                    /\ n = Len(BundleSteps(r)) + Len(SiteSteps(r)) + k
                    /\ Steps(r)[n] = FileStep(RootDir(r), RootSteps(r)[k])
<1>1. PICK b, s, t \in Nat :
             /\ b = Len(BundleSteps(r)) /\ s = Len(SiteSteps(r)) /\ t = Len(RootSteps(r))
             /\ Len(Steps(r)) = b + s + t
             /\ \A k \in 1..b : Steps(r)[k] = FileStep(BundleDir(r), BundleSteps(r)[k])
             /\ \A k \in 1..s : Steps(r)[b + k] = FileStep(SiteDir(r), SiteSteps(r)[k])
             /\ \A k \in 1..t : Steps(r)[b + s + k] = FileStep(RootDir(r), RootSteps(r)[k])
  BY StepsParts
<1>2. /\ b \in Nat /\ s \in Nat /\ t \in Nat
      /\ Len(Steps(r)) = b + s + t
      /\ \A k \in 1..b : Steps(r)[k] = FileStep(BundleDir(r), BundleSteps(r)[k])
      /\ \A k \in 1..s : Steps(r)[b + k] = FileStep(SiteDir(r), SiteSteps(r)[k])
      /\ \A k \in 1..t : Steps(r)[b + s + k] = FileStep(RootDir(r), RootSteps(r)[k])
  BY <1>1
<1>3. n \in 1..(b + s + t)
  BY <1>2
<1>4. n \in 1..b \/ (\E k \in 1..s : n = b + k) \/ (\E k \in 1..t : n = b + s + k)
  <2>1. CASE n <= b
    BY <1>2, <1>3, <2>1
  <2>2. CASE n > b /\ n <= b + s
    <3>1. n - b \in 1..s /\ n = b + (n - b)
      BY <1>2, <1>3, <2>2
    <3> QED
      BY <3>1
  <2>3. CASE n > b + s
    <3>1. n - b - s \in 1..t /\ n = b + s + (n - b - s)
      BY <1>2, <1>3, <2>3
    <3> QED
      BY <3>1
  <2> QED
    BY <1>2, <1>3, <2>1, <2>2, <2>3
<1>5. (s # 0 => HasSite(r)) /\ (t # 0 => HasRoot(r))
  <2>1. ~HasSite(r) => s = 0
    BY <1>1, SiteNames, Zenon
  <2>2. ~HasRoot(r) => t = 0
    BY <1>1, RootNames, Zenon
  <2> QED
    BY <2>1, <2>2
<1>6. (\A k \in 1..s : s # 0) /\ (\A k \in 1..t : t # 0)
  BY <1>2
<1> QED
  <2>1. /\ \A k \in 1..b : Steps(r)[k] = FileStep(BundleDir(r), BundleSteps(r)[k])
        /\ \A k \in 1..s : Steps(r)[b + k] = FileStep(SiteDir(r), SiteSteps(r)[k]) /\ HasSite(r)
        /\ \A k \in 1..t : Steps(r)[b + s + k] = FileStep(RootDir(r), RootSteps(r)[k])
           /\ HasRoot(r)
    BY <1>2, <1>5, <1>6, Zenon
  <2> QED
    BY <1>1, <1>4, <2>1, ZenonT(60)

EarlierStep(r, n, x) == \E m \in 1..Len(Steps(r)) : m < n /\ Steps(r)[m] = x

(* The steps of a run are different, and each of them is in a directory the *)
(* run writes into.                                                         *)
LEMMA StepsDiffer ==
    ASSUME NEW r \in SnapshotRequests, NEW n \in 1..Len(Steps(r)), NEW m \in 1..Len(Steps(r)),
           Steps(r)[n] = Steps(r)[m]
    PROVE  n = m
<1> DEFINE B == BundleSteps(r)
           S == SiteSteps(r)
           R == RootSteps(r)
<1>2. /\ \A k, l \in 1..Len(B) : B[k] = B[l] => k = l
      /\ \A k \in 1..Len(B) : (B[k] \in {"PUBLICATION", "README"} => r.kind # "trust")
         /\ B[k] # "read back"
  BY BundleNames
<1>3. HasSite(r) => \A k, l \in 1..Len(S) : S[k] = S[l] => k = l
  BY SiteNames
<1>4. /\ \A k, l \in 1..Len(R) : R[k] = R[l] => k = l
      /\ \A k \in 1..Len(R) : R[k] \in {"PUBLICATION", "README", "latest", "read back"}
                              /\ (R[k] \in {"latest", "read back"} => r.kind = "release")
  BY RootNames
<1>5. /\ HasSite(r) => BundleDir(r) # SiteDir(r)
      /\ SiteDir(r) # RootDir(r)
      /\ BundleDir(r) = RootDir(r) => r.kind = "trust"
  BY DirsApart
<1>6. \A d, e, x, y : FileStep(d, x) = FileStep(e, y) => d = e /\ x = y
  BY DEF FileStep
<1> HIDE DEF B, S, R
<1> DEFINE InBundle(i) == i \in 1..Len(B) /\ Steps(r)[i] = FileStep(BundleDir(r), B[i])
           InSite(i) == /\ HasSite(r)
                        /\ \E k \in 1..Len(S) : i = Len(B) + k
                           /\ Steps(r)[i] = FileStep(SiteDir(r), S[k])
           InRoot(i) == \E k \in 1..Len(R) :
                            i = Len(B) + Len(S) + k /\ Steps(r)[i] = FileStep(RootDir(r), R[k])
<1>7. /\ InBundle(n) \/ InSite(n) \/ InRoot(n)
      /\ InBundle(m) \/ InSite(m) \/ InRoot(m)
  <2>1. \A i \in 1..Len(Steps(r)) : InBundle(i) \/ InSite(i) \/ InRoot(i)
    BY StepPlaces DEF B, S, R
  <2> QED
    BY <2>1
<1>8. ASSUME NEW i \in 1..Len(Steps(r)), NEW j \in 1..Len(Steps(r)), Steps(r)[i] = Steps(r)[j],
             InBundle(i)
      PROVE  i = j \/ ~(InBundle(j) \/ InSite(j) \/ InRoot(j))
  <2>1. CASE InBundle(j)
    <3>1. B[i] = B[j]
      BY <1>6, <1>8, <2>1, Zenon
    <3> QED
      BY <1>2, <1>8, <2>1, <3>1, Zenon
  <2>2. CASE InSite(j)
    BY <1>5, <1>6, <1>8, <2>2
  <2>3. CASE InRoot(j)
    <3>1. PICK k \in 1..Len(R) : Steps(r)[j] = FileStep(RootDir(r), R[k])
      BY <2>3
    <3>0. FileStep(BundleDir(r), B[i]) = FileStep(RootDir(r), R[k])
      BY <1>8, <3>1
    <3>2. BundleDir(r) = RootDir(r) /\ B[i] = R[k]
      BY <3>0 DEF FileStep
    <3>3. r.kind = "trust" /\ R[k] \in {"PUBLICATION", "README", "latest", "read back"}
          /\ (R[k] \in {"latest", "read back"} => r.kind = "release")
      BY <1>4, <1>5, <3>2, Zenon
    <3>4. R[k] \in {"PUBLICATION", "README"}
      BY <3>3
    <3> QED
      BY <1>2, <1>8, <3>2, <3>3, <3>4, Zenon
  <2> QED
    BY <2>1, <2>2, <2>3
<1>9. ~(InSite(n) /\ InRoot(m)) /\ ~(InSite(m) /\ InRoot(n))
  BY <1>5, <1>6
<1>10. InSite(n) /\ InSite(m) => n = m
  <2> SUFFICES ASSUME InSite(n), InSite(m) PROVE n = m
    OBVIOUS
  <2>1. PICK k \in 1..Len(S) : n = Len(B) + k /\ Steps(r)[n] = FileStep(SiteDir(r), S[k])
    OBVIOUS
  <2>2. PICK l \in 1..Len(S) : m = Len(B) + l /\ Steps(r)[m] = FileStep(SiteDir(r), S[l])
    OBVIOUS
  <2>3. FileStep(SiteDir(r), S[k]) = FileStep(SiteDir(r), S[l])
    BY <2>1, <2>2
  <2>4. S[k] = S[l]
    BY <2>3 DEF FileStep
  <2>5. k = l
    BY <1>3, <2>4, Zenon
  <2> QED
    BY <2>1, <2>2, <2>5
<1>11. InRoot(n) /\ InRoot(m) => n = m
  <2> SUFFICES ASSUME InRoot(n), InRoot(m) PROVE n = m
    OBVIOUS
  <2>1. PICK k \in 1..Len(R) : n = Len(B) + Len(S) + k /\ Steps(r)[n] = FileStep(RootDir(r), R[k])
    OBVIOUS
  <2>2. PICK l \in 1..Len(R) : m = Len(B) + Len(S) + l /\ Steps(r)[m] = FileStep(RootDir(r), R[l])
    OBVIOUS
  <2>3. FileStep(RootDir(r), R[k]) = FileStep(RootDir(r), R[l])
    BY <2>1, <2>2
  <2>4. R[k] = R[l]
    BY <2>3 DEF FileStep
  <2>5. k = l
    BY <1>4, <2>4, Zenon
  <2> QED
    BY <2>1, <2>2, <2>5
<1> HIDE DEF InBundle, InSite, InRoot
<1>12. InBundle(n) \/ InBundle(m) => n = m
  BY <1>7, <1>8
<1> QED
  BY <1>7, <1>9, <1>10, <1>11, <1>12

StepDirs(r) ==
    {BundleDir(r)} \union (IF HasSite(r) THEN {SiteDir(r)} ELSE {})
        \union (IF HasRoot(r) THEN {RootDir(r)} ELSE {})
ReleaseRootDir == <<"release", "docs", "root">>

(* The order in which a run writes: whatever a manifest, an index or a      *)
(* publication names has been written before it.                            *)
LEMMA StepOrder ==
    ASSUME NEW r \in SnapshotRequests, NEW n \in 1..Len(Steps(r)), NEW x, NEW d,
           Steps(r)[n] = FileStep(d, x)
    PROVE  /\ x = "MANIFEST" =>
                 /\ \A y \in {"latest", "history", "INDEX"} : EarlierStep(r, n, FileStep(d, y))
                 /\ r.policy => EarlierStep(r, n, FileStep(d, "policy"))
           /\ x = "INDEX" => EarlierStep(r, n, FileStep(d, "history"))
           /\ x = "PUBLICATION" =>
                 /\ EarlierStep(r, n, FileStep(BundleDir(r), "MANIFEST"))
                 /\ d = RootDir(r) /\ HasSite(r)
                    => EarlierStep(r, n, FileStep(SiteDir(r), "MANIFEST"))
           /\ x = "read back" =>
                 /\ EarlierStep(r, n, FileStep(BundleDir(r), "MANIFEST"))
                 /\ \A m \in 1..Len(Steps(r)) :
                       m >= n => Steps(r)[m].name \notin {"MANIFEST", "history"}
<1>1. PICK b, s, t \in Nat :
             /\ b = Len(BundleSteps(r)) /\ s = Len(SiteSteps(r)) /\ t = Len(RootSteps(r))
             /\ Len(Steps(r)) = b + s + t
             /\ \A k \in 1..b : Steps(r)[k] = FileStep(BundleDir(r), BundleSteps(r)[k])
             /\ \A k \in 1..s : Steps(r)[b + k] = FileStep(SiteDir(r), SiteSteps(r)[k])
             /\ \A k \in 1..t : Steps(r)[b + s + k] = FileStep(RootDir(r), RootSteps(r)[k])
  BY StepsParts
<1>2. n \in 1..(b + s + t) /\ n \in Nat
  BY <1>1
<1>3. \A e, f, y, z : FileStep(e, y) = FileStep(f, z) => e = f /\ y = z
  BY DEF FileStep
<1>4. b \in 4..6 /\ (HasSite(r) => s \in 4..6)
  BY <1>1, BundleNames, SiteNames
<1>5. /\ \A k \in {1, 2, 3, 4} : k \in 1..b /\ k \in 1..(b + s + t)
      /\ HasSite(r) => \A k \in {1, 2, 3, 4} : k \in 1..s /\ b + k \in 1..(b + s + t)
      /\ \A k \in 1..b : k \in 1..(b + s + t)
      /\ \A k \in 1..s : b + k \in 1..(b + s + t)
  BY <1>4
<1>6. ASSUME n \in 1..b, Steps(r)[n] = FileStep(BundleDir(r), BundleSteps(r)[n])
      PROVE  /\ d = BundleDir(r) /\ x = BundleSteps(r)[n]
             /\ x = "MANIFEST" =>
                   /\ \A y \in {"latest", "history", "INDEX"} : EarlierStep(r, n, FileStep(d, y))
                   /\ r.policy => EarlierStep(r, n, FileStep(d, "policy"))
             /\ x = "INDEX" => EarlierStep(r, n, FileStep(d, "history"))
             /\ x = "PUBLICATION" => EarlierStep(r, n, FileStep(d, "MANIFEST"))
                /\ r.kind # "trust"
             /\ x # "read back"
  <2>1. d = BundleDir(r) /\ x = BundleSteps(r)[n]
    BY <1>6 DEF FileStep
  <2>2. /\ Steps(r)[1] = FileStep(d, "latest") /\ Steps(r)[2] = FileStep(d, "history")
        /\ Steps(r)[3] = FileStep(d, "INDEX")
        /\ r.policy => Steps(r)[4] = FileStep(d, "policy")
    BY <1>1, <1>5, <2>1, BundleNames, ZenonT(60)
  <2>3. 1 \in 1..Len(Steps(r)) /\ 2 \in 1..Len(Steps(r)) /\ 3 \in 1..Len(Steps(r))
          /\ 4 \in 1..Len(Steps(r))
    BY <1>1, <1>5
  <2>4. CASE x = "MANIFEST"
    <3>1. n \in {4, 6} /\ (r.policy => n = 6)
      BY <1>1, <1>6, <2>1, <2>4, BundleNames
    <3> QED
      BY <2>1, <2>2, <2>3, <2>4, <3>1 DEF EarlierStep
  <2>5. CASE x = "INDEX"
    <3>1. n = 3
      <4>1. BundleSteps(r)[3] = BundleSteps(r)[n] /\ 3 \in 1..Len(BundleSteps(r))
              /\ n \in 1..Len(BundleSteps(r))
        BY <1>1, <1>5, <1>6, <2>1, <2>5, BundleNames
      <4> QED
        BY <4>1, BundleNames
    <3> QED
      BY <2>1, <2>2, <2>3, <2>5, <3>1 DEF EarlierStep
  <2>6. CASE x = "PUBLICATION"
    <3>1. n = 5 /\ BundleSteps(r)[4] = "MANIFEST" /\ r.kind # "trust"
      BY <1>1, <1>6, <2>1, <2>6, BundleNames
    <3>2. Steps(r)[4] = FileStep(d, "MANIFEST")
      BY <1>1, <1>5, <2>1, <3>1
    <3> QED
      BY <2>1, <2>3, <2>6, <3>1, <3>2 DEF EarlierStep
  <2>7. x # "read back"
    BY <1>1, <1>6, <2>1, BundleNames
  <2> QED
    BY <2>1, <2>4, <2>5, <2>6, <2>7
<1>7. ASSUME HasSite(r), NEW k \in 1..s, n = b + k, Steps(r)[n] = FileStep(SiteDir(r),
        SiteSteps(r)[k])
      PROVE  /\ d = SiteDir(r)
             /\ x = "MANIFEST" =>
                   /\ \A y \in {"latest", "history", "INDEX"} : EarlierStep(r, n, FileStep(d, y))
                   /\ r.policy => EarlierStep(r, n, FileStep(d, "policy"))
             /\ x = "INDEX" => EarlierStep(r, n, FileStep(d, "history"))
             /\ x \notin {"PUBLICATION", "read back"}
  <2>1. d = SiteDir(r) /\ x = SiteSteps(r)[k]
    BY <1>7 DEF FileStep
  <2>2. /\ Steps(r)[b + 1] = FileStep(d, "latest") /\ Steps(r)[b + 2] = FileStep(d, "history")
        /\ Steps(r)[b + 3] = FileStep(d, "INDEX")
        /\ r.policy => Steps(r)[b + 4] = FileStep(d, "policy")
    BY <1>1, <1>5, <1>7, <2>1, SiteNames, ZenonT(60)
  <2>3. /\ b + 1 \in 1..Len(Steps(r)) /\ b + 2 \in 1..Len(Steps(r)) /\ b + 3 \in 1..Len(Steps(r))
        /\ b + 4 \in 1..Len(Steps(r))
    BY <1>1, <1>5, <1>7
  <2>4. CASE x = "MANIFEST"
    <3>1. k \in {5, 6}
      BY <1>1, <1>7, <2>1, <2>4, SiteNames
    <3>2. b + 1 < n /\ b + 2 < n /\ b + 3 < n /\ b + 4 < n
      BY <1>7, <3>1
    <3> QED
      BY <2>1, <2>2, <2>3, <2>4, <3>2 DEF EarlierStep
  <2>5. CASE x = "INDEX"
    <3>1. k = 3
      <4>1. SiteSteps(r)[3] = SiteSteps(r)[k] /\ 3 \in 1..Len(SiteSteps(r))
              /\ k \in 1..Len(SiteSteps(r))
        BY <1>1, <1>5, <1>7, <2>1, <2>5, SiteNames
      <4> QED
        BY <1>7, <4>1, SiteNames
    <3>2. b + 2 < n
      BY <1>7, <3>1
    <3> QED
      BY <2>1, <2>2, <2>3, <2>5, <3>2 DEF EarlierStep
  <2>6. x \notin {"PUBLICATION", "read back"}
    BY <1>1, <1>7, <2>1, SiteNames
  <2> QED
    BY <2>1, <2>4, <2>5, <2>6
<1>8. ASSUME NEW k \in 1..t, n = b + s + k, Steps(r)[n] = FileStep(RootDir(r), RootSteps(r)[k])
      PROVE  /\ d = RootDir(r)
             /\ x \in {"PUBLICATION", "README", "latest", "read back"}
             /\ EarlierStep(r, n, FileStep(BundleDir(r), "MANIFEST"))
             /\ HasSite(r) => EarlierStep(r, n, FileStep(SiteDir(r), "MANIFEST"))
  <2>1. d = RootDir(r) /\ x = RootSteps(r)[k]
    BY <1>8 DEF FileStep
  <2>2. x \in {"PUBLICATION", "README", "latest", "read back"}
    BY <1>1, <1>8, <2>1, RootNames
  <2>3. EarlierStep(r, n, FileStep(BundleDir(r), "MANIFEST"))
    <3>1. PICK l \in 1..b : BundleSteps(r)[l] = "MANIFEST"
      BY <1>1, BundleNames
    <3>2. l < n /\ l \in 1..Len(Steps(r)) /\ Steps(r)[l] = FileStep(BundleDir(r), "MANIFEST")
      BY <1>1, <1>5, <1>8, <3>1
    <3> QED
      BY <3>2 DEF EarlierStep
  <2>4. ASSUME HasSite(r)
        PROVE  EarlierStep(r, n, FileStep(SiteDir(r), "MANIFEST"))
    <3>1. PICK l \in 1..s : SiteSteps(r)[l] = "MANIFEST"
      BY <1>1, <2>4, SiteNames
    <3>2. b + l < n /\ b + l \in 1..Len(Steps(r))
            /\ Steps(r)[b + l] = FileStep(SiteDir(r), "MANIFEST")
      BY <1>1, <1>5, <1>8, <3>1
    <3> QED
      BY <3>2 DEF EarlierStep
  <2> QED
    BY <2>1, <2>2, <2>3, <2>4
<1>9. /\ ~HasSite(r) => s = 0
      /\ ~HasRoot(r) => t = 0
  BY <1>1, SiteNames, RootNames
<1>10. \/ n \in 1..b /\ Steps(r)[n] = FileStep(BundleDir(r), BundleSteps(r)[n])
       \/ HasSite(r) /\ \E k \in 1..s : n = b + k
          /\ Steps(r)[n] = FileStep(SiteDir(r), SiteSteps(r)[k])
       \/ \E k \in 1..t : n = b + s + k /\ Steps(r)[n] = FileStep(RootDir(r), RootSteps(r)[k])
  BY <1>1, StepPlaces, Zenon
<1>11. x = "read back" => \A m \in 1..Len(Steps(r)) :
                             m >= n => Steps(r)[m].name \notin {"MANIFEST", "history"}
  <2>1. x = "read back" => InRootPart(r, n)
    BY <1>1, <1>6, <1>7, <1>10 DEF InRootPart
  <2> QED
    BY <2>1, RootComesLast, Zenon
<1>12. BundleDir(r) = RootDir(r) => r.kind = "trust"
  BY DirsApart
<1>13. CASE n \in 1..b /\ Steps(r)[n] = FileStep(BundleDir(r), BundleSteps(r)[n])
  BY <1>6, <1>11, <1>12, <1>13
<1>14. CASE HasSite(r) /\ \E k \in 1..s : n = b + k
              /\ Steps(r)[n] = FileStep(SiteDir(r), SiteSteps(r)[k])
  BY <1>7, <1>11, <1>14
<1>15. CASE \E k \in 1..t : n = b + s + k /\ Steps(r)[n] = FileStep(RootDir(r), RootSteps(r)[k])
  BY <1>8, <1>11, <1>15
<1> QED
  BY <1>10, <1>13, <1>14, <1>15

(* Where a run writes: the overview of the releases belongs to releases in  *)
(* docs, and the manifest of a release in a directory of its version.       *)
LEMMA StepDirsSound ==
    ASSUME NEW r \in SnapshotRequests, NEW n \in 1..Len(Steps(r)), NEW x, NEW d,
           Steps(r)[n] = FileStep(d, x)
    PROVE  /\ d \in StepDirs(r) /\ d \in Dirs /\ x \in StepNames
           /\ d = ReleaseRootDir => r.kind = "release" /\ r.place = "docs"
           /\ \A place, v : x = "MANIFEST" /\ d = <<"release", place, v>> => r.version = v
<1>1. \A e, f, y, z : FileStep(e, y) = FileStep(f, z) => e = f /\ y = z
  BY DEF FileStep
<1>2. /\ r.kind \in {"trust", "release", "handoff"} /\ r.place \in {"docs", "artifacts"}
      /\ r.version \in Versions /\ "root" \notin Versions
  BY PublicationsAssumption
<1>3. \A k \in 1..Len(BundleSteps(r)) : BundleSteps(r)[k] \in StepNames
  BY NameLists
<1>4. \A k \in 1..Len(SiteSteps(r)) : SiteSteps(r)[k] \in StepNames
  BY NameLists
<1>5. \A k \in 1..Len(RootSteps(r)) : RootSteps(r)[k] \in StepNames
        /\ RootSteps(r)[k] # "MANIFEST"
  <2>1. \A k \in 1..Len(RootSteps(r)) : RootSteps(r)[k] \in StepNames
    BY NameLists
  <2>2. \A k \in 1..Len(RootSteps(r)) :
            RootSteps(r)[k] \in {"PUBLICATION", "README", "latest", "read back"}
    BY RootNames
  <2> QED
    BY <2>1, <2>2
<1>6. /\ BundleDir(r) \in Dirs
      /\ HasSite(r) => SiteDir(r) \in Dirs
      /\ HasRoot(r) => RootDir(r) \in Dirs
  BY DirsApart
<1>7. /\ BundleDir(r) = ReleaseRootDir => r.kind = "release" /\ r.place = "docs"
      /\ \A place, v : BundleDir(r) = <<"release", place, v>> => r.version = v
  BY <1>2 DEF BundleDir, TrustDir, ReleaseDir, HandoffDir, ReleaseRootDir
<1>8. /\ HasSite(r) => SiteDir(r) # ReleaseRootDir
      /\ HasSite(r) => \A place, v : SiteDir(r) # <<"release", place, v>>
  BY <1>2 DEF SiteDir, HasSite, ReleaseRootDir
<1>9. RootDir(r) = ReleaseRootDir => r.kind = "release" /\ r.place = "docs"
  BY <1>2 DEF RootDir, ReleaseRootDir
<1>10. CASE n \in 1..Len(BundleSteps(r))
              /\ Steps(r)[n] = FileStep(BundleDir(r), BundleSteps(r)[n])
  <2>1. d = BundleDir(r) /\ x = BundleSteps(r)[n]
    BY <1>10 DEF FileStep
  <2> QED
    BY <1>3, <1>6, <1>7, <1>10, <2>1 DEF StepDirs
<1>11. CASE HasSite(r) /\ \E k \in 1..Len(SiteSteps(r)) : Steps(r)[n] = FileStep(SiteDir(r),
              SiteSteps(r)[k])
  <2>1. PICK k \in 1..Len(SiteSteps(r)) : Steps(r)[n] = FileStep(SiteDir(r), SiteSteps(r)[k])
    BY <1>11
  <2>2. d = SiteDir(r) /\ x = SiteSteps(r)[k]
    BY <2>1 DEF FileStep
  <2> QED
    BY <1>4, <1>6, <1>8, <1>11, <2>2 DEF StepDirs
<1>12. CASE HasRoot(r) /\ \E k \in 1..Len(RootSteps(r)) : Steps(r)[n] = FileStep(RootDir(r),
              RootSteps(r)[k])
  <2>1. PICK k \in 1..Len(RootSteps(r)) : Steps(r)[n] = FileStep(RootDir(r), RootSteps(r)[k])
    BY <1>12
  <2>2. d = RootDir(r) /\ x = RootSteps(r)[k]
    BY <2>1 DEF FileStep
  <2> QED
    BY <1>5, <1>6, <1>9, <1>12, <2>2 DEF StepDirs
<1> QED
  BY StepPlaces, <1>10, <1>11, <1>12

LEMMA StepsAreList ==
    ASSUME NEW r \in SnapshotRequests
    PROVE  DOMAIN Steps(r) = 1..Len(Steps(r))
<1> DEFINE T == [dir : {BundleDir(r), SiteDir(r), RootDir(r)}, name : StepNames]
<1>1. Into(BundleDir(r), BundleSteps(r)) \in Seq(T)
  BY IntoIsList, NameLists
<1>2. Into(SiteDir(r), SiteSteps(r)) \in Seq(T)
  BY IntoIsList, NameLists
<1>3. Into(RootDir(r), RootSteps(r)) \in Seq(T)
  BY IntoIsList, NameLists
<1> HIDE DEF T
<1>4. Steps(r) \in Seq(T)
  BY <1>1, <1>2, <1>3 DEF Steps
<1> QED
  BY <1>4

(* The steps of a run, those it has done and those it has not; and whether *)
(* it was the only snapshot of its second that was written there.          *)
AllSteps(i) == {StepsOf(i)[n] : n \in 1..Len(StepsOf(i))}
DoneSteps(p) == {StepsOf(publishing[p].id)[n] : n \in 1..publishing[p].done}
ToCome(p) ==
    {StepsOf(publishing[p].id)[n] :
        n \in (publishing[p].done + 1)..Len(StepsOf(publishing[p].id))}
OwnSecond(i, d) == \A j \in RunsInto(d) : shots[j].at = shots[i].at => j = i

(* The invariant. First what everything is.                                *)
PubTyped ==
    /\ published \in [Dirs -> [Names -> {None, Empty} \union DOMAIN shots]]
    /\ histories \in [Dirs -> [1..LastSecond -> {None, Empty} \union DOMAIN shots]]
    /\ keptPolicies \in [Dirs -> [1..LastSecond -> {None, Empty} \union DOMAIN shots]]
    /\ indexes = [d \in Dirs |-> indexes[d]]
    /\ shots \in Seq(Shot)
    /\ publishing \in [Processes -> {None} \union PublishingRun]
    /\ finished \subseteq DOMAIN shots
    /\ second \in 1..LastSecond /\ rewrites \in 0..MaxRewrites

(* Where a run is, and what it is about to write. *)
PlacedRun(p) ==
    LET run == publishing[p]
    IN  /\ run.id \in DOMAIN shots /\ run.id \notin finished /\ run.tells \in DOMAIN shots
        /\ run.done <= Len(StepsOf(run.id))
        /\ run.stage = "open" =>
              At(p) /\ Step(p).name # "read back"
        /\ run.tells # run.id => \A s \in ToCome(p) : s.name \notin {"MANIFEST", "history"}

(* What it has done. *)
WrittenRun(p) ==
    LET run == publishing[p]
    IN  \A s \in DoneSteps(p) :
            /\ s.name \in Names => published[s.dir][s.name] # None
            /\ s.name = "history" /\ OwnSecond(run.id, s.dir) =>
                  histories[s.dir][shots[run.id].at] = run.id

(* Two processes never work for the same snapshot.                         *)
RunsApart ==
    \A p, q \in Processes :
        publishing[p] # None /\ publishing[q] # None /\ publishing[p].id = publishing[q].id
            => p = q

(* A manifest was written as such by the run it tells of, after the        *)
(* history it names.                                                       *)
ManifestKept(d) ==
    LET m == published[d]["MANIFEST"]
    IN  Whole(m) =>
            /\ FileStep(d, "MANIFEST") \in AllSteps(m)
            /\ \A p \in Processes : publishing[p] # None /\ publishing[p].id = m =>
                  FileStep(d, "MANIFEST") \in DoneSteps(p)
            /\ OwnSecond(m, d) => histories[d][shots[m].at] = m

(* The page of the releases, and what was there before it.                 *)
ReleasePage == published[<<"release", "docs", "root">>]["README"]
PublishedRelease(i) == shots[i].request.kind = "release" /\ shots[i].request.place = "docs"

PageExplained ==
    /\ ReleasePage # None => \E i \in DOMAIN shots : PublishedRelease(i)
    /\ (\E i \in DOMAIN shots : shots[i].ok) => ReleasePage # None
    /\ \A i \in DOMAIN shots : shots[i].ok => \E j \in 1..(i - 1) : PublishedRelease(j)

(* A hand-off has seen manifests of earlier snapshots, and if it is ok it  *)
(* is justified.                                                           *)
SeenSound ==
    /\ \A i \in DOMAIN shots :
          shots[i].request.kind = "handoff" =>
              \A m \in {shots[i].seen.bundle, shots[i].seen.publication} : m \in {None,
                  Empty} \union 1..(i - 1)
    /\ HandoffJustified

(* A run that nobody is in the way of. *)
LoneRun(p) ==
    LET run == publishing[p]
    IN  /\ run.id = Len(shots) /\ run.tells = run.id
        /\ \A s \in DoneSteps(p) :
              /\ s.name \in Names => published[s.dir][s.name] = run.id
              /\ s.name = "history" => histories[s.dir][shots[run.id].at] = run.id
              /\ s.name = "INDEX" => run.id \in indexes[s.dir].reports
        /\ run.stage = "open" /\ Step(p).name = "INDEX" => run.list = Listing(Step(p).dir)

(* As long as runs do not overlap, each is alone with what it writes; the  *)
(* history a manifest names can only have given way to a later snapshot of *)
(* the same second.                                                        *)
Later(i, d) == \E j \in RunsInto(d) : j > i /\ shots[j].at = shots[i].at

Undisturbed ==
    ~crossed =>
        /\ \A p \in Processes : publishing[p] # None => LoneRun(p)
        /\ \A d \in Dirs : LET m == published[d]["MANIFEST"] IN
              Whole(m) => histories[d][shots[m].at] = m \/ Later(m, d)

PubInv ==
    /\ PubTyped
    /\ \A p \in Processes : publishing[p] # None => PlacedRun(p) /\ WrittenRun(p)
    /\ RunsApart
    /\ \A d \in Dirs : ManifestKept(d)
    /\ PageExplained /\ SeenSound
    /\ Undisturbed /\ NothingAhead /\ Repaired

(* The state of a run.                                                      *)
LEMMA RunTyped ==
    ASSUME PubTyped, NEW p \in Processes, publishing[p] # None, PlacedRun(p)
    PROVE  /\ publishing[p] \in PublishingRun
           /\ publishing[p].id \in DOMAIN shots /\ publishing[p].tells \in DOMAIN shots
           /\ publishing[p].done \in Nat
           /\ shots[publishing[p].id] \in Shot
           /\ shots[publishing[p].id].request \in SnapshotRequests
           /\ shots[publishing[p].id].at \in 1..LastSecond
           /\ DOMAIN shots = 1..Len(shots) /\ Len(shots) \in Nat
<1>1. publishing[p] \in PublishingRun
  BY DEF PubTyped
<1>2. publishing[p].id \in DOMAIN shots /\ publishing[p].tells \in DOMAIN shots
  BY DEF PlacedRun
<1>3. DOMAIN shots = 1..Len(shots) /\ Len(shots) \in Nat
        /\ \A i \in DOMAIN shots : shots[i] \in Shot
  BY DEF PubTyped
<1>4. publishing[p].done \in Nat
  BY <1>1 DEF PublishingRun
<1>5. shots[publishing[p].id] \in Shot
  BY <1>2, <1>3
<1> QED
  BY <1>1, <1>2, <1>3, <1>4, <1>5 DEF Shot

LEMMA ShotTyped ==
    ASSUME PubTyped, NEW i \in DOMAIN shots
    PROVE  /\ DOMAIN shots = 1..Len(shots) /\ Len(shots) \in Nat /\ i \in Nat
           /\ shots[i] \in Shot /\ shots[i].request \in SnapshotRequests
           /\ shots[i].at \in 1..LastSecond
           /\ Len(StepsOf(i)) \in Nat
           /\ DirsOf(i) = StepDirs(shots[i].request)
<1>1. DOMAIN shots = 1..Len(shots) /\ Len(shots) \in Nat /\ shots[i] \in Shot
  BY DEF PubTyped
<1>2. shots[i].request \in SnapshotRequests
  BY <1>1 DEF Shot
<1>3. Len(Steps(shots[i].request)) \in Nat
  BY <1>2, StepsParts
<1> QED
  BY <1>1, <1>2, <1>3 DEF Shot, StepsOf, DirsOf, StepDirs

(* Whatever a run does is in a directory it writes into.                    *)
LEMMA StepIsPlaced ==
    ASSUME PubTyped, NEW i \in DOMAIN shots, NEW s \in AllSteps(i)
    PROVE  /\ s = FileStep(s.dir, s.name)
           /\ s.dir \in Dirs /\ s.name \in StepNames
           /\ i \in RunsInto(s.dir)
           /\ s.dir = ReleaseRootDir => PublishedRelease(i)
           /\ \A place, v : s.name = "MANIFEST" /\ s.dir = <<"release", place, v>> =>
                                shots[i].request.version = v
<1> DEFINE r == shots[i].request
<1>1. r \in SnapshotRequests /\ DirsOf(i) = StepDirs(r)
  BY ShotTyped
<1>2. PICK n \in 1..Len(Steps(r)) : s = Steps(r)[n]
  BY DEF AllSteps, StepsOf
<1>3. PICK d, x : Steps(r)[n] = FileStep(d, x)
  BY <1>1, StepPlaces
<1>4. s.dir = d /\ s.name = x
  BY <1>2, <1>3 DEF FileStep
<1>5. /\ d \in StepDirs(r) /\ d \in Dirs /\ x \in StepNames
      /\ d = ReleaseRootDir => r.kind = "release" /\ r.place = "docs"
      /\ \A place, v : x = "MANIFEST" /\ d = <<"release", place, v>> => r.version = v
  BY <1>1, <1>3, StepDirsSound
<1> QED
  BY <1>1, <1>2, <1>3, <1>4, <1>5 DEF RunsInto, PublishedRelease

(* The step a run is about to do: it has not been done, what it names has,  *)
(* and what was done is what its names say.                                 *)
LEMMA NextStep ==
    ASSUME PubTyped, NEW p \in Processes, publishing[p] # None, PlacedRun(p), At(p),
           NEW i, i = publishing[p].id, NEW d, d = Step(p).dir, NEW x, x = Step(p).name
    PROVE  /\ Step(p) = FileStep(d, x) /\ Step(p) \in AllSteps(i) /\ Step(p) \in ToCome(p)
           /\ Step(p) \notin DoneSteps(p)
           /\ DoneSteps(p) \subseteq AllSteps(i)
           /\ x = "MANIFEST" =>
                 /\ \A y \in {"latest", "history", "INDEX"} : FileStep(d, y) \in DoneSteps(p)
                 /\ shots[i].request.policy => FileStep(d, "policy") \in DoneSteps(p)
           /\ x = "INDEX" => FileStep(d, "history") \in DoneSteps(p)
           /\ x = "PUBLICATION" =>
                 /\ FileStep(BundleDir(shots[i].request), "MANIFEST") \in DoneSteps(p)
                 /\ d = RootDir(shots[i].request) /\ HasSite(shots[i].request) =>
                        FileStep(SiteDir(shots[i].request), "MANIFEST") \in DoneSteps(p)
           /\ x = "read back" =>
                 /\ FileStep(BundleDir(shots[i].request), "MANIFEST") \in DoneSteps(p)
                 /\ \A s \in ToCome(p) : s.name \notin {"MANIFEST", "history"}
           /\ x = "history" => FileStep(d, "MANIFEST") \notin DoneSteps(p)
<1> DEFINE r == shots[i].request
           n == publishing[p].done + 1
<1>1. /\ i \in DOMAIN shots /\ r \in SnapshotRequests /\ publishing[p].done \in Nat
      /\ StepsOf(i) = Steps(r) /\ Len(Steps(r)) \in Nat
  BY RunTyped, ShotTyped DEF StepsOf
<1>2. n \in 1..Len(Steps(r)) /\ Step(p) = Steps(r)[n] /\ n \in Nat
  BY <1>1 DEF At, Step
<1>3. DoneSteps(p) = {Steps(r)[m] : m \in 1..publishing[p].done}
  BY <1>1 DEF DoneSteps
<1>4. ToCome(p) = {Steps(r)[m] : m \in n..Len(Steps(r))}
        /\ AllSteps(i) = {Steps(r)[m] : m \in 1..Len(Steps(r))}
  BY <1>1 DEF ToCome, AllSteps
<1>5. Step(p) \in AllSteps(i) /\ Step(p) \in ToCome(p)
  <2>1. n \in n..Len(Steps(r))
    BY <1>1, <1>2
  <2> QED
    BY <1>2, <1>4, <2>1
<1>6. Step(p) = FileStep(d, x) /\ Steps(r)[n] = FileStep(d, x)
  BY <1>1, <1>2, <1>5, StepIsPlaced
<1>7. \A m \in 1..publishing[p].done : m \in 1..Len(Steps(r)) /\ m # n /\ m < n
  BY <1>1, <1>2
<1>8. Step(p) \notin DoneSteps(p)
  <2> SUFFICES ASSUME NEW m \in 1..publishing[p].done, Steps(r)[m] = Steps(r)[n]
               PROVE  FALSE
    BY <1>2, <1>3
  <2> QED
    BY <1>1, <1>2, <1>7, StepsDiffer
<1>9. DoneSteps(p) \subseteq AllSteps(i)
  BY <1>3, <1>4, <1>7
<1>10. ASSUME NEW y, EarlierStep(r, n, y)
       PROVE  y \in DoneSteps(p)
  <2>1. PICK m \in 1..Len(Steps(r)) : m < n /\ Steps(r)[m] = y
    BY <1>10 DEF EarlierStep
  <2>2. m \in 1..publishing[p].done
    BY <1>1, <2>1
  <2> QED
    BY <1>3, <2>1, <2>2
<1>11. /\ x = "MANIFEST" =>
             /\ \A y \in {"latest", "history", "INDEX"} : EarlierStep(r, n, FileStep(d, y))
             /\ r.policy => EarlierStep(r, n, FileStep(d, "policy"))
       /\ x = "INDEX" => EarlierStep(r, n, FileStep(d, "history"))
       /\ x = "PUBLICATION" =>
             /\ EarlierStep(r, n, FileStep(BundleDir(r), "MANIFEST"))
             /\ d = RootDir(r) /\ HasSite(r)
                => EarlierStep(r, n, FileStep(SiteDir(r), "MANIFEST"))
       /\ x = "read back" =>
             /\ EarlierStep(r, n, FileStep(BundleDir(r), "MANIFEST"))
             /\ \A m \in 1..Len(Steps(r)) :
                   m >= n => Steps(r)[m].name \notin {"MANIFEST", "history"}
  BY <1>1, <1>2, <1>6, StepOrder, ZenonT(60)
<1>a. \A m \in n..Len(Steps(r)) : m \in 1..Len(Steps(r)) /\ m >= n
  BY <1>1, <1>2
<1>12. x = "read back" => \A s \in ToCome(p) : s.name \notin {"MANIFEST", "history"}
  <2> SUFFICES ASSUME x = "read back", NEW m \in n..Len(Steps(r))
               PROVE  Steps(r)[m].name \notin {"MANIFEST", "history"}
    BY <1>4
  <2> QED
    BY <1>11, <1>a, Zenon
<1>13. x = "history" => FileStep(d, "MANIFEST") \notin DoneSteps(p)
  <2> SUFFICES ASSUME x = "history", NEW m \in 1..publishing[p].done,
                      Steps(r)[m] = FileStep(d, "MANIFEST")
               PROVE  FALSE
    BY <1>3
  <2>1. EarlierStep(r, m, FileStep(d, "history"))
    BY <1>1, <1>7, StepOrder
  <2>2. PICK l \in 1..Len(Steps(r)) : l < m /\ Steps(r)[l] = Steps(r)[n]
    BY <1>6, <2>1 DEF EarlierStep
  <2>3. l = n
    BY <1>1, <1>2, <2>2, StepsDiffer
  <2> QED
    BY <1>7, <2>2, <2>3
<1> HIDE DEF r, n
<1> QED
  BY <1>5, <1>6, <1>8, <1>9, <1>10, <1>11, <1>12, <1>13 DEF r

(* A run writes: it opens the file of its step, or it fills it.             *)
Writes(p, c) ==
    LET run == publishing[p]
        next == publishing'[p]
    IN  /\ p \in Processes /\ run # None
        /\ At(p) /\ Step(p).name # "read back"
        /\ Put(p, c)
        /\ \A q \in Processes : q # p => publishing'[q] = publishing[q]
        /\ publishing' \in [Processes -> {None} \union PublishingRun]
        /\ next # None /\ next.id = run.id /\ next.tells = run.tells
        /\ \/ /\ next.done = run.done /\ next.stage = "open" /\ c = Empty
              /\ Step(p).name = "INDEX" => next.list = Listing(Step(p).dir)
           \/ /\ next.done = run.done + 1 /\ next.stage = "next"
              /\ run.stage = "open" /\ c = IF Step(p).name = "INDEX" THEN run.list ELSE run.tells
        /\ UNCHANGED <<shots, finished, crossed, second, rewrites>>

LEMMA ListingTyped ==
    ASSUME PubTyped, NEW d \in Dirs
    PROVE  Listing(d) \in Lists
<1> DEFINE h == histories[d]
           k == keptPolicies[d]
<1>1. /\ \A s \in 1..LastSecond : h[s] \in {None, Empty} \union DOMAIN shots
      /\ \A s \in 1..LastSecond : k[s] \in {None, Empty} \union DOMAIN shots
      /\ DOMAIN shots \subseteq Nat
  <2>1. DOMAIN shots \subseteq Nat
    BY DEF PubTyped
  <2>2. /\ histories \in [Dirs -> [1..LastSecond -> {None, Empty} \union DOMAIN shots]]
        /\ keptPolicies \in [Dirs -> [1..LastSecond -> {None, Empty} \union DOMAIN shots]]
    BY DEF PubTyped
  <2> QED
    BY <2>1, <2>2
<1>2. ASSUME NEW f
      PROVE  IsFiniteSet(Found(f) \ Filled(f)) /\ Found(f) \subseteq 1..LastSecond
  <2>1. Found(f) \subseteq 1..LastSecond /\ Found(f) \ Filled(f) \subseteq 1..LastSecond
    BY DEF Found
  <2>2. IsFiniteSet(1..LastSecond)
    BY PublicationsAssumption, FS_Interval
  <2> QED
    BY <2>1, <2>2, FS_Subset
<1>3. Cardinality(Found(h) \ Filled(h)) \in Nat /\ Cardinality(Found(k) \ Filled(k)) \in Nat
  BY <1>2, FS_CardinalityType
<1>4. {h[s] : s \in Filled(h)} \subseteq Nat /\ {k[s] : s \in Filled(k)} \subseteq Nat
  BY <1>1 DEF Filled, Found
<1>5. Cardinality(Found(h) \ Filled(h)) + Cardinality(Found(k) \ Filled(k)) \in Nat
  BY <1>3
<1> HIDE DEF h, k
<1> QED
  BY <1>4, <1>5 DEF Listing, Lists, h, k

LEMMA WriteFacts ==
    ASSUME PubInv, NEW p, NEW c, Writes(p, c)
    PROVE  /\ p \in Processes /\ publishing[p] # None /\ PubTyped /\ PlacedRun(p) /\ WrittenRun(p)
           /\ At(p) /\ Step(p).dir \in Dirs /\ Step(p).name \in StepNames
           /\ Step(p) = FileStep(Step(p).dir, Step(p).name)
           /\ publishing[p].id \in RunsInto(Step(p).dir)
           /\ Second(p) \in 1..LastSecond
           /\ Step(p).name # "INDEX" => c \in {Empty} \union DOMAIN shots /\ c # None
           /\ Step(p).name \in {"MANIFEST", "history"} /\ c # Empty => c = publishing[p].id
<1>1. /\ p \in Processes /\ publishing[p] # None /\ PubTyped /\ PlacedRun(p) /\ WrittenRun(p)
         /\ At(p)
  BY DEF Writes, PubInv
<1>2. Step(p) \in AllSteps(publishing[p].id) /\ Step(p) \in ToCome(p)
  BY <1>1, NextStep
<1>3. /\ Step(p).dir \in Dirs /\ Step(p).name \in StepNames
      /\ Step(p) = FileStep(Step(p).dir, Step(p).name)
      /\ publishing[p].id \in RunsInto(Step(p).dir)
  BY <1>1, <1>2, RunTyped, StepIsPlaced
<1>4. Second(p) \in 1..LastSecond /\ publishing[p].tells \in DOMAIN shots
        /\ DOMAIN shots \subseteq Nat
  BY <1>1, RunTyped DEF Second
<1>5. Step(p).name # "INDEX" => c = Empty \/ c = publishing[p].tells
  BY DEF Writes
<1>6. Step(p).name \in {"MANIFEST", "history"} => publishing[p].tells = publishing[p].id
  BY <1>1, <1>2 DEF PlacedRun
<1> QED
  BY <1>1, <1>3, <1>4, <1>5, <1>6, PublicationsAssumption

(* What is on disk after it.                                                *)
LEMMA PutWrites ==
    ASSUME PubInv, NEW p, NEW c, Writes(p, c)
    PROVE  /\ \A e \in Dirs : \A m \in Names :
                 published'[e][m] = IF FileStep(e, m) = Step(p) THEN c ELSE published[e][m]
           /\ \A e \in Dirs : \A s \in 1..LastSecond :
                 histories'[e][s] =
                     IF FileStep(e, "history") = Step(p)
                         /\ s = Second(p) THEN c ELSE histories[e][s]
           /\ \A e \in Dirs :
                 indexes'[e] = IF FileStep(e, "INDEX") = Step(p) THEN c ELSE indexes[e]
           /\ Step(p).name = "INDEX" => histories' = histories /\ keptPolicies' = keptPolicies
           /\ published' \in [Dirs -> [Names -> {None, Empty} \union DOMAIN shots]]
           /\ histories' \in [Dirs -> [1..LastSecond -> {None, Empty} \union DOMAIN shots]]
           /\ keptPolicies' \in [Dirs -> [1..LastSecond -> {None, Empty} \union DOMAIN shots]]
           /\ indexes' = [e \in Dirs |-> indexes'[e]]
<1> DEFINE d == Step(p).dir
           x == Step(p).name
           legal == {None, Empty} \union DOMAIN shots
<1>1. /\ PubTyped /\ d \in Dirs /\ x \in StepNames /\ Step(p) = FileStep(d, x)
      /\ Second(p) \in 1..LastSecond /\ (x # "INDEX" => c \in legal)
  BY WriteFacts
<1>2. \A e, y : FileStep(e, y) = Step(p) <=> e = d /\ y = x
  BY <1>1 DEF FileStep
<1>3. /\ histories' = IF x = "history" THEN [histories EXCEPT ![d][Second(p)] = c] ELSE histories
      /\ keptPolicies' = IF x = "policy history" THEN [keptPolicies EXCEPT ![d][Second(p)] = c]
                         ELSE keptPolicies
      /\ indexes' = IF x = "INDEX" THEN [indexes EXCEPT ![d] = c] ELSE indexes
      /\ published' = IF x \in Names THEN [published EXCEPT ![d][x] = c] ELSE published
  BY DEF Writes, Put
<1>4. /\ published \in [Dirs -> [Names -> legal]]
      /\ histories \in [Dirs -> [1..LastSecond -> legal]]
      /\ keptPolicies \in [Dirs -> [1..LastSecond -> legal]]
      /\ indexes = [e \in Dirs |-> indexes[e]]
  BY <1>1 DEF PubTyped
<1>5. "INDEX" \notin Names
  BY DEF Names
<1> HIDE DEF d, x, legal
<1>6. /\ \A e \in Dirs : \A m \in Names :
            published'[e][m] = IF e = d /\ m = x THEN c ELSE published[e][m]
      /\ published' \in [Dirs -> [Names -> legal]]
  <2>1. CASE x \in Names
    BY <1>1, <1>3, <1>4, <1>5, <2>1
  <2>2. CASE x \notin Names
    BY <1>1, <1>3, <1>4, <2>2
  <2> QED
    BY <2>1, <2>2
<1>7. /\ \A e \in Dirs : \A s \in 1..LastSecond :
            histories'[e][s] = IF e = d /\ x = "history"
                /\ s = Second(p) THEN c ELSE histories[e][s]
      /\ histories' \in [Dirs -> [1..LastSecond -> legal]]
  <2>1. CASE x = "history"
    BY <1>1, <1>3, <1>4, <2>1
  <2>2. CASE x # "history"
    BY <1>1, <1>3, <1>4, <2>2
  <2> QED
    BY <2>1, <2>2
<1>8. keptPolicies' \in [Dirs -> [1..LastSecond -> legal]]
  <2>1. CASE x = "policy history"
    BY <1>1, <1>3, <1>4, <2>1
  <2>2. CASE x # "policy history"
    BY <1>1, <1>3, <1>4, <2>2
  <2> QED
    BY <2>1, <2>2
<1>9. /\ \A e \in Dirs : indexes'[e] = IF e = d /\ x = "INDEX" THEN c ELSE indexes[e]
      /\ indexes' = [e \in Dirs |-> indexes'[e]]
  <2>1. CASE x = "INDEX"
    BY <1>1, <1>3, <1>4, <2>1
  <2>2. CASE x # "INDEX"
    BY <1>1, <1>3, <1>4, <2>2
  <2> QED
    BY <2>1, <2>2
<1>10. x = "INDEX" => histories' = histories /\ keptPolicies' = keptPolicies
  BY <1>3
<1> QED
  BY <1>2, <1>6, <1>7, <1>8, <1>9, <1>10 DEF legal, x

(* What the runs have done when one of them goes on.                        *)
LEMMA DoneMoves ==
    ASSUME PubTyped, NEW p \in Processes, publishing[p] # None, PlacedRun(p), At(p),
        shots' = shots,
           \A q \in Processes : q # p => publishing'[q] = publishing[q],
           publishing'[p] # None, publishing'[p].id = publishing[p].id,
           publishing'[p].done \in {publishing[p].done, publishing[p].done + 1}
    PROVE  /\ \A i : AllSteps(i)' = AllSteps(i) /\ StepsOf(i)' = StepsOf(i)
           /\ \A e : RunsInto(e)' = RunsInto(e)
           /\ \A i, e : OwnSecond(i, e)' = OwnSecond(i, e)
           /\ \A q \in Processes : q # p /\ publishing[q] # None =>
                  /\ DoneSteps(q)' = DoneSteps(q) /\ ToCome(q)' = ToCome(q)
           /\ DoneSteps(p)' = IF publishing'[p].done = publishing[p].done THEN DoneSteps(p)
                              ELSE DoneSteps(p) \union {Step(p)}
           /\ ToCome(p)' \subseteq ToCome(p)
           /\ publishing'[p].done = publishing[p].done => At(p)' /\ Step(p)' = Step(p)
<1> DEFINE i == publishing[p].id
           n == publishing[p].done
<1>1. /\ shots' = shots /\ publishing'[p].id = i /\ p \in Processes /\ publishing[p] # None
      /\ n \in Nat /\ publishing'[p].done \in {n, n + 1} /\ publishing'[p] # None
      /\ PubTyped /\ PlacedRun(p) /\ At(p)
  BY RunTyped
<1>2. Len(StepsOf(i)) \in Nat /\ n < Len(StepsOf(i)) /\ Step(p) = StepsOf(i)[n + 1]
  BY <1>1, RunTyped, ShotTyped DEF At, Step
<1>3. /\ \A j : AllSteps(j)' = AllSteps(j) /\ StepsOf(j)' = StepsOf(j)
      /\ \A e : RunsInto(e)' = RunsInto(e)
      /\ \A j, e : OwnSecond(j, e)' = OwnSecond(j, e)
  BY <1>1 DEF AllSteps, StepsOf, RunsInto, DirsOf, OwnSecond
<1>4. \A q \in Processes : q # p => DoneSteps(q)' = DoneSteps(q) /\ ToCome(q)' = ToCome(q)
  BY <1>1 DEF DoneSteps, ToCome, StepsOf
<1>5. DoneSteps(p)' = {StepsOf(i)[m] : m \in 1..publishing'[p].done}
  BY <1>1 DEF DoneSteps, StepsOf
<1>6. ToCome(p)' = {StepsOf(i)[m] : m \in (publishing'[p].done + 1)..Len(StepsOf(i))}
  BY <1>1 DEF ToCome, StepsOf
<1>7. DoneSteps(p) = {StepsOf(i)[m] : m \in 1..n}
        /\ ToCome(p) = {StepsOf(i)[m] : m \in (n + 1)..Len(StepsOf(i))}
  BY DEF DoneSteps, ToCome
<1>8. publishing'[p].done = n => At(p)' /\ Step(p)' = Step(p)
  BY <1>1, <1>2, <1>3 DEF At, Step
<1>9. 1..(n + 1) = (1..n) \union {n + 1}
        /\ (n + 1 + 1)..Len(StepsOf(i)) \subseteq (n + 1)..Len(StepsOf(i))
  BY <1>1, <1>2
<1> HIDE DEF i, n
<1>10. DoneSteps(p)' = IF publishing'[p].done = n THEN DoneSteps(p) ELSE DoneSteps(p) \union {Step(p)}
  <2>1. CASE publishing'[p].done = n
    BY <1>5, <1>7, <2>1
  <2>2. CASE publishing'[p].done = n + 1
    <3>1. DoneSteps(p)' = {StepsOf(i)[m] : m \in (1..n) \union {n + 1}}
      BY <1>5, <1>9, <2>2
    <3>2. n + 1 # n
      BY <1>1
    <3> QED
      BY <1>2, <1>7, <2>2, <3>1, <3>2, ZenonT(60)
  <2> QED
    BY <1>1, <2>1, <2>2
<1>11. ToCome(p)' \subseteq ToCome(p)
  <2>1. CASE publishing'[p].done = n
    BY <1>6, <1>7, <2>1
  <2>2. CASE publishing'[p].done = n + 1
    BY <1>6, <1>7, <1>9, <2>2
  <2> QED
    BY <1>1, <2>1, <2>2
<1> QED
  BY <1>3, <1>4, <1>8, <1>10, <1>11 DEF i, n

LEMMA DoneAfter ==
    ASSUME PubInv, NEW p, NEW c, Writes(p, c)
    PROVE  /\ \A i : AllSteps(i)' = AllSteps(i) /\ StepsOf(i)' = StepsOf(i)
           /\ \A e : RunsInto(e)' = RunsInto(e)
           /\ \A i, e : OwnSecond(i, e)' = OwnSecond(i, e)
           /\ \A q \in Processes : q # p /\ publishing[q] # None =>
                  /\ DoneSteps(q)' = DoneSteps(q) /\ ToCome(q)' = ToCome(q)
           /\ DoneSteps(p)' = IF publishing'[p].done = publishing[p].done THEN DoneSteps(p)
                              ELSE DoneSteps(p) \union {Step(p)}
           /\ ToCome(p)' \subseteq ToCome(p)
           /\ publishing'[p].done = publishing[p].done => At(p)' /\ Step(p)' = Step(p)
<1>1. /\ shots' = shots /\ publishing'[p] # None /\ publishing'[p].id = publishing[p].id
      /\ publishing'[p].done \in {publishing[p].done, publishing[p].done + 1}
      /\ \A q \in Processes : q # p => publishing'[q] = publishing[q]
  BY DEF Writes
<1>2. PubTyped /\ p \in Processes /\ publishing[p] # None /\ PlacedRun(p) /\ At(p)
  BY WriteFacts
<1> QED
  BY <1>1, <1>2, DoneMoves

(* Opening a file or filling it keeps the invariant, part by part.         *)
LEMMA WritesTyped ==
    ASSUME PubInv, NEW p, NEW c, Writes(p, c)
    PROVE  PubTyped'
<1>1. /\ shots' = shots /\ finished' = finished /\ second' = second /\ rewrites' = rewrites
      /\ publishing' \in [Processes -> {None} \union PublishingRun]
  BY DEF Writes
<1>2. PubTyped
  BY DEF PubInv
<1> QED
  BY <1>1, <1>2, PutWrites DEF PubTyped

LEMMA WritesPlaced ==
    ASSUME PubInv, NEW p, NEW c, Writes(p, c), NEW q \in Processes, publishing'[q] # None
    PROVE  PlacedRun(q)' /\ WrittenRun(q)'
<1> DEFINE i == publishing[p].id
           d == Step(p).dir
           x == Step(p).name
<1>1. /\ p \in Processes /\ publishing[p] # None /\ PubTyped /\ PlacedRun(p) /\ WrittenRun(p)
      /\ At(p) /\ d \in Dirs /\ x \in StepNames /\ Step(p) = FileStep(d, x)
      /\ i \in RunsInto(d) /\ Second(p) \in 1..LastSecond
      /\ (x # "INDEX" => c \in {Empty} \union DOMAIN shots /\ c # None)
      /\ (x \in {"MANIFEST", "history"} /\ c # Empty => c = i)
  BY WriteFacts
<1>2. /\ shots' = shots /\ finished' = finished
      /\ publishing'[p].id = i /\ publishing'[p].tells = publishing[p].tells
      /\ x # "read back"
      /\ \A o \in Processes : o # p => publishing'[o] = publishing[o]
      /\ publishing'[p].stage = "open" <=> publishing'[p].done = publishing[p].done
      /\ publishing'[p].done # publishing[p].done => c # Empty \/ x = "INDEX"
  <2>1. publishing[p].done \in Nat /\ publishing[p].done + 1 # publishing[p].done
        /\ publishing[p].tells \in Nat
    BY <1>1, RunTyped DEF PublishingRun
  <2> QED
    BY <2>1, PublicationsAssumption DEF Writes
<1>3. PlacedRun(p)'
  <2>1. /\ i \in DOMAIN shots /\ i \notin finished /\ publishing[p].tells \in DOMAIN shots
        /\ publishing[p].tells # i => \A s \in ToCome(p) : s.name \notin {"MANIFEST", "history"}
    BY <1>1 DEF PlacedRun
  <2>2. publishing'[p].done <= Len(StepsOf(i)) /\ StepsOf(i)' = StepsOf(i)
    <3>1. publishing'[p].done <= Len(StepsOf(i))
      <4>1. publishing[p].done \in Nat /\ Len(StepsOf(i)) \in Nat
              /\ publishing[p].done < Len(StepsOf(i))
        BY <1>1, RunTyped, ShotTyped DEF At
      <4>2. publishing'[p].done = publishing[p].done
              \/ publishing'[p].done = publishing[p].done + 1
        BY DEF Writes
      <4>3. publishing[p].done <= Len(StepsOf(i)) /\ publishing[p].done + 1 <= Len(StepsOf(i))
        BY <4>1
      <4> QED
        BY <4>2, <4>3, Zenon
    <3>2. StepsOf(i)' = StepsOf(i)
      BY <1>2 DEF StepsOf
    <3> QED
      BY <3>1, <3>2
  <2>3. publishing'[p].stage = "open" => At(p)' /\ Step(p)'.name # "read back"
    BY <1>2, DoneAfter
  <2>4. ToCome(p)' \subseteq ToCome(p)
    BY DoneAfter
  <2> QED
    BY <1>2, <2>1, <2>2, <2>3, <2>4 DEF PlacedRun
<1>4. CASE q # p
  <2>1. publishing'[q] = publishing[q] /\ publishing[q] # None /\ PlacedRun(q) /\ WrittenRun(q)
        /\ publishing[q].id # i /\ PubTyped
    BY <1>1, <1>2, <1>4 DEF PubInv, RunsApart
  <2>2. DoneSteps(q)' = DoneSteps(q) /\ ToCome(q)' = ToCome(q)
    BY <1>4, <2>1, DoneAfter
  <2>3. At(q)' = At(q) /\ Step(q)' = Step(q)
          /\ StepsOf(publishing[q].id)' = StepsOf(publishing[q].id)
    BY <1>2, <2>1 DEF At, Step, StepsOf
  <2>4. PlacedRun(q)'
    BY <1>2, <2>1, <2>2, <2>3 DEF PlacedRun
  <2>5. ASSUME NEW s \in DoneSteps(q)
        PROVE  /\ s.name \in Names => published'[s.dir][s.name] # None
               /\ s.name = "history" /\ OwnSecond(publishing[q].id, s.dir) =>
                     histories'[s.dir][shots[publishing[q].id].at] = publishing[q].id
    <3>1. s.dir \in Dirs /\ s = FileStep(s.dir, s.name) /\ publishing[q].id \in RunsInto(s.dir)
          /\ publishing[q].id \in DOMAIN shots /\ shots[publishing[q].id].at \in 1..LastSecond
      <4>1. s \in AllSteps(publishing[q].id)
        <5>1. publishing[q].done \in Nat /\ Len(StepsOf(publishing[q].id)) \in Nat
              /\ publishing[q].done <= Len(StepsOf(publishing[q].id))
          BY <2>1, RunTyped, ShotTyped DEF PlacedRun
        <5>2. \A m \in 1..publishing[q].done : m \in 1..Len(StepsOf(publishing[q].id))
          BY <5>1
        <5> QED
          BY <5>2 DEF AllSteps, DoneSteps
      <4> QED
        BY <2>1, <4>1, RunTyped, StepIsPlaced
    <3>2. s.name \in Names => published'[s.dir][s.name] # None
      <4>1. s.name \in Names => published[s.dir][s.name] # None
        BY <2>1, <2>5 DEF WrittenRun
      <4>2. s.name \in Names => published'[s.dir][s.name] =
                                    IF FileStep(s.dir, s.name) = Step(p) THEN c ELSE published[s.dir][s.name]
        BY <3>1, PutWrites
      <4>3. Step(p) = s /\ s.name \in Names => x # "INDEX"
        BY DEF Names
      <4> QED
        BY <1>1, <3>1, <4>1, <4>2, <4>3
    <3>3. ASSUME s.name = "history", OwnSecond(publishing[q].id, s.dir)
          PROVE  histories'[s.dir][shots[publishing[q].id].at] = publishing[q].id
      <4>1. histories[s.dir][shots[publishing[q].id].at] = publishing[q].id
        BY <2>1, <2>5, <3>3 DEF WrittenRun
      <4>2. ~(Step(p) = s /\ shots[publishing[q].id].at = Second(p))
        BY <1>1, <2>1, <3>3 DEF OwnSecond, Second
      <4> QED
        BY <3>1, <3>3, <4>1, <4>2, PutWrites
    <3> QED
      BY <3>2, <3>3
  <2>6. \A e : RunsInto(e)' = RunsInto(e)
    BY <1>2 DEF RunsInto, DirsOf
  <2>7. \A e : OwnSecond(publishing[q].id, e)' = OwnSecond(publishing[q].id, e)
    BY <1>2, <2>1, <2>6 DEF OwnSecond
  <2> QED
    BY <1>2, <2>1, <2>2, <2>4, <2>5, <2>7 DEF WrittenRun
<1>5. WrittenRun(p)'
  <2>1. ASSUME NEW s \in DoneSteps(p)
        PROVE  /\ s.name \in Names => published'[s.dir][s.name] # None
               /\ s.name = "history" /\ OwnSecond(i, s.dir) => histories'[s.dir][shots[i].at] = i
    <3>1. s # Step(p) /\ s \in AllSteps(i)
      BY <1>1, <2>1, NextStep
    <3>2. s.dir \in Dirs /\ s = FileStep(s.dir, s.name) /\ shots[i].at \in 1..LastSecond
      BY <1>1, <3>1, RunTyped, StepIsPlaced
    <3>3. /\ s.name \in Names => published[s.dir][s.name] # None
          /\ s.name = "history" /\ OwnSecond(i, s.dir) => histories[s.dir][shots[i].at] = i
      BY <1>1, <2>1 DEF WrittenRun
    <3>4. s.name \in Names => published'[s.dir][s.name] = published[s.dir][s.name]
      BY <3>1, <3>2, PutWrites
    <3>5. s.name = "history" => histories'[s.dir][shots[i].at] = histories[s.dir][shots[i].at]
      BY <3>1, <3>2, PutWrites
    <3> QED
      BY <3>3, <3>4, <3>5
  <2>2. ASSUME publishing'[p].done # publishing[p].done
        PROVE  /\ x \in Names => published'[d][x] # None
               /\ x = "history" => histories'[d][shots[i].at] = i
    <3>1. x \in Names => published'[d][x] = c /\ x # "INDEX"
      BY <1>1, PutWrites DEF Names
    <3>2. x = "history" => histories'[d][Second(p)] = c /\ c = i
      BY <1>1, <1>2, <2>2, PutWrites
    <3> QED
      BY <1>1, <3>1, <3>2 DEF Second
  <2>3. DoneSteps(p)' = IF publishing'[p].done = publishing[p].done THEN DoneSteps(p)
                        ELSE DoneSteps(p) \union {Step(p)}
    BY DoneAfter
  <2>4. \A e : OwnSecond(i, e)' = OwnSecond(i, e)
    BY <1>2 DEF OwnSecond, RunsInto, DirsOf
  <2> QED
    BY <1>2, <2>1, <2>2, <2>3, <2>4 DEF WrittenRun
<1> QED
  BY <1>3, <1>4, <1>5

LEMMA WritesApart ==
    ASSUME PubInv, NEW p, NEW c, Writes(p, c)
    PROVE  RunsApart'
<1>1. /\ \A q \in Processes : q # p => publishing'[q] = publishing[q]
      /\ publishing'[p] # None /\ publishing'[p].id = publishing[p].id
      /\ p \in Processes /\ publishing[p] # None /\ RunsApart
  BY WriteFacts DEF Writes, PubInv
<1>2. \A q \in Processes : publishing'[q] # None => publishing[q] # None
        /\ publishing'[q].id = publishing[q].id
  BY <1>1
<1> QED
  BY <1>1, <1>2 DEF RunsApart

LEMMA WritesKept ==
    ASSUME PubInv, NEW p, NEW c, Writes(p, c), NEW e \in Dirs
    PROVE  ManifestKept(e)'
<1> DEFINE i == publishing[p].id
           d == Step(p).dir
           x == Step(p).name
           m == published[e]["MANIFEST"]
<1>1. /\ p \in Processes /\ publishing[p] # None /\ PubTyped /\ PlacedRun(p) /\ WrittenRun(p)
      /\ At(p) /\ d \in Dirs /\ x \in StepNames /\ Step(p) = FileStep(d, x)
      /\ i \in RunsInto(d) /\ Second(p) \in 1..LastSecond
      /\ (x \in {"MANIFEST", "history"} /\ c # Empty => c = i)
  BY WriteFacts
<1>2. /\ shots' = shots /\ publishing'[p].id = i /\ publishing'[p] # None
      /\ \A o \in Processes : o # p => publishing'[o] = publishing[o]
      /\ \A j : AllSteps(j)' = AllSteps(j)
      /\ \A j, f : OwnSecond(j, f)' = OwnSecond(j, f)
      /\ \A q \in Processes : q # p /\ publishing[q] # None => DoneSteps(q)' = DoneSteps(q)
      /\ DoneSteps(p) \subseteq DoneSteps(p)'
  BY DoneAfter DEF Writes
<1>3. ManifestKept(e) /\ RunsApart
  BY DEF PubInv
<1>4. \A f, y : FileStep(f, y) = Step(p) <=> f = d /\ y = x
  BY <1>1 DEF FileStep
<1>5. /\ published'[e]["MANIFEST"] = IF FileStep(e, "MANIFEST") = Step(p) THEN c ELSE m
      /\ \A s \in 1..LastSecond :
            histories'[e][s] = IF FileStep(e, "history") = Step(p)
                /\ s = Second(p) THEN c ELSE histories[e][s]
  BY PutWrites DEF Names
<1>6. CASE FileStep(e, "MANIFEST") = Step(p)
  <2>1. CASE c = Empty
    BY <1>5, <1>6, <2>1 DEF ManifestKept, Whole
  <2>2. CASE c # Empty
    <3>1. c = i /\ e = d /\ x = "MANIFEST"
      BY <1>1, <1>4, <1>6, <2>2
    <3>2. Step(p) \in AllSteps(i) /\ FileStep(d, "history") \in DoneSteps(p)
      BY <1>1, <3>1, NextStep
    <3>3. Step(p) \in DoneSteps(p)'
      <4>1. publishing[p].done \in Nat /\ publishing[p].done + 1 # publishing[p].done
        BY <1>1, RunTyped
      <4>2. publishing'[p].done # publishing[p].done
        BY <2>2, <4>1 DEF Writes
      <4> QED
        BY <4>2, DoneAfter
    <3>4. OwnSecond(i, e) => histories'[e][shots[i].at] = i
      <4>1. FileStep(d, "history").name = "history" /\ FileStep(d, "history").dir = d
        BY DEF FileStep
      <4>2. OwnSecond(i, d) => histories[d][shots[i].at] = i
        BY <1>1, <3>2, <4>1 DEF WrittenRun
      <4>3. shots[i].at \in 1..LastSecond
        BY <1>1 DEF Second
      <4> QED
        BY <1>4, <1>5, <3>1, <4>2, <4>3
    <3>5. \A q \in Processes : publishing'[q] # None /\ publishing'[q].id = i => q = p
      BY <1>1, <1>2, <1>3 DEF RunsApart
    <3>6. published'[e]["MANIFEST"] = i
      BY <1>5, <1>6, <3>1
    <3> QED
      BY <1>2, <1>6, <3>2, <3>3, <3>4, <3>5, <3>6 DEF ManifestKept
  <2> QED
    BY <2>1, <2>2
<1>7. CASE FileStep(e, "MANIFEST") # Step(p)
  <2>1. published'[e]["MANIFEST"] = m
    BY <1>5, <1>7
  <2> SUFFICES ASSUME Whole(m)
               PROVE  /\ FileStep(e, "MANIFEST") \in AllSteps(m)
                      /\ \A q \in Processes : publishing'[q] # None /\ publishing'[q].id = m =>
                            FileStep(e, "MANIFEST") \in DoneSteps(q)'
                      /\ OwnSecond(m, e) => histories'[e][shots[m].at] = m
    BY <1>2, <2>1 DEF ManifestKept
  <2>2. /\ FileStep(e, "MANIFEST") \in AllSteps(m)
        /\ \A q \in Processes : publishing[q] # None /\ publishing[q].id = m =>
              FileStep(e, "MANIFEST") \in DoneSteps(q)
        /\ OwnSecond(m, e) => histories[e][shots[m].at] = m
    BY <1>3 DEF ManifestKept
  <2>3. ASSUME NEW q \in Processes, publishing'[q] # None, publishing'[q].id = m
        PROVE  FileStep(e, "MANIFEST") \in DoneSteps(q)'
    <3>1. CASE q = p
      BY <1>1, <1>2, <2>2, <2>3, <3>1
    <3>2. CASE q # p
      BY <1>2, <2>2, <2>3, <3>2
    <3> QED
      BY <3>1, <3>2
  <2>4. ASSUME OwnSecond(m, e)
        PROVE  histories'[e][shots[m].at] = m
    <3>1. m \in DOMAIN shots
      BY <1>1 DEF PubTyped, Whole, Names
    <3>2. shots[m].at \in 1..LastSecond
      BY <1>1, <3>1, ShotTyped
    <3>3. ~(FileStep(e, "history") = Step(p) /\ shots[m].at = Second(p))
      <4> SUFFICES ASSUME FileStep(e, "history") = Step(p), shots[m].at = Second(p)
                   PROVE  FALSE
        OBVIOUS
      <4>1. e = d /\ x = "history"
        BY <1>4
      <4>2. i = m
        BY <1>1, <2>4, <4>1 DEF OwnSecond, Second
      <4>3. FileStep(e, "MANIFEST") \in DoneSteps(p)
        BY <1>1, <2>2, <4>2
      <4> QED
        BY <1>1, <4>1, <4>3, NextStep
    <3> QED
      BY <1>5, <2>2, <2>4, <3>2, <3>3
  <2> QED
    BY <2>2, <2>3, <2>4
<1> QED
  BY <1>6, <1>7

LEMMA PageNamed == ReleaseRootDir \in Dirs /\ "README" \in Names
BY DEF ReleaseRootDir, Dirs, Names

LEMMA WritesPage ==
    ASSUME PubInv, NEW p, NEW c, Writes(p, c)
    PROVE  PageExplained' /\ SeenSound'
<1>1. shots' = shots /\ PageExplained /\ SeenSound
  BY DEF Writes, PubInv
<1>2. /\ publishing[p].id \in RunsInto(Step(p).dir) /\ Step(p).name # "INDEX" => c # None
      /\ PubTyped /\ PlacedRun(p) /\ At(p) /\ p \in Processes /\ publishing[p] # None
  BY WriteFacts
<1>3. ReleasePage' = IF FileStep(ReleaseRootDir, "README") = Step(p) THEN c ELSE ReleasePage
  BY PageNamed, PutWrites DEF ReleasePage, ReleaseRootDir
<1>4. FileStep(ReleaseRootDir, "README") = Step(p) => c # None
        /\ PublishedRelease(publishing[p].id)
  <2>1. Step(p) \in AllSteps(publishing[p].id) /\ publishing[p].id \in DOMAIN shots
    BY <1>2, NextStep, RunTyped
  <2>2. Step(p).dir = ReleaseRootDir => PublishedRelease(publishing[p].id)
    BY <1>2, <2>1, StepIsPlaced
  <2>3. FileStep(ReleaseRootDir, "README") = Step(p) => Step(p).dir = ReleaseRootDir
          /\ Step(p).name = "README"
    BY DEF FileStep
  <2>4. "README" # "INDEX"
    OBVIOUS
  <2> QED
    BY <1>2, <2>2, <2>3, <2>4, WriteFacts
<1>5. publishing[p].id \in DOMAIN shots
  BY <1>2, RunTyped
<1>6. \A j : PublishedRelease(j)' = PublishedRelease(j)
  BY <1>1 DEF PublishedRelease
<1>7. /\ ReleasePage' # None => \E i \in DOMAIN shots : PublishedRelease(i)
      /\ (\E i \in DOMAIN shots : shots[i].ok) => ReleasePage' # None
  BY <1>1, <1>3, <1>4, <1>5 DEF PageExplained
<1>8. PageExplained'
  BY <1>1, <1>6, <1>7 DEF PageExplained
<1>9. SeenSound'
  BY <1>1 DEF SeenSound, HandoffJustified
<1> QED
  BY <1>8, <1>9

(* A run that nobody is in the way of.                                      *)
LEMMA WritesLone ==
    ASSUME PubInv, NEW p, NEW c, Writes(p, c), ~crossed
    PROVE  /\ Undisturbed /\ NothingAhead /\ Repaired /\ LoneRun(p)
           /\ publishing[p].id = Len(shots) /\ publishing[p].id \in DOMAIN shots
           /\ \A j \in DOMAIN shots : j <= publishing[p].id /\ j \in Nat
           /\ \A q \in Processes : publishing[q] # None => q = p
           /\ \A q \in Processes : publishing'[q] # None => q = p
           /\ Step(p).name = "INDEX" /\ publishing'[p].done # publishing[p].done =>
                  c = Listing(Step(p).dir)
           /\ Step(p).name # "INDEX" => c \in {Empty, publishing[p].id}
           /\ Step(p).name # "INDEX" /\ publishing'[p].done # publishing[p].done
              => c = publishing[p].id
           /\ publishing'[p].done = publishing[p].done => c = Empty
<1>1. /\ Undisturbed /\ NothingAhead /\ Repaired /\ RunsApart
      /\ p \in Processes /\ publishing[p] # None /\ PubTyped /\ PlacedRun(p)
  BY WriteFacts DEF PubInv
<1>2. \A q \in Processes : publishing[q] # None => LoneRun(q)
  BY <1>1 DEF Undisturbed
<1>3. LoneRun(p) /\ publishing[p].id = Len(shots) /\ publishing[p].tells = publishing[p].id
  BY <1>1, <1>2 DEF LoneRun
<1>4. \A q \in Processes : publishing[q] # None => q = p
  BY <1>1, <1>2, <1>3 DEF LoneRun, RunsApart
<1>5. \A q \in Processes : publishing'[q] # None => q = p
  BY <1>4 DEF Writes
<1>6. publishing[p].id \in DOMAIN shots /\ \A j \in DOMAIN shots : j <= publishing[p].id
        /\ j \in Nat
  BY <1>1, <1>3, RunTyped
<1>7. publishing[p].done \in Nat /\ publishing[p].done # publishing[p].done + 1
  BY <1>1, RunTyped
<1>8. Step(p).name = "INDEX" /\ publishing'[p].done # publishing[p].done =>
          c = Listing(Step(p).dir)
  BY <1>3 DEF Writes, LoneRun
<1>9. /\ Step(p).name # "INDEX" => c \in {Empty, publishing[p].id}
      /\ Step(p).name # "INDEX" /\ publishing'[p].done # publishing[p].done
         => c = publishing[p].id
      /\ publishing'[p].done = publishing[p].done => c = Empty
  BY <1>3, <1>7 DEF Writes
<1> QED
  BY <1>1, <1>3, <1>4, <1>5, <1>6, <1>8, <1>9

(* An index lists what the history holds.                                   *)
LEMMA ListedWhole ==
    ASSUME PubTyped, NEW d \in Dirs, NEW s \in 1..LastSecond, NEW i \in DOMAIN shots,
        histories[d][s] = i
    PROVE  i \in Listing(d).reports
<1>1. i # None /\ i # Empty
  BY PublicationsAssumption, ShotTyped
<1> QED
  BY <1>1 DEF Listing, Filled, Found

LEMMA WritesAlone ==
    ASSUME PubInv, NEW p, NEW c, Writes(p, c), ~crossed
    PROVE  LoneRun(p)'
<1> DEFINE i == publishing[p].id
           d == Step(p).dir
           x == Step(p).name
<1>1. /\ p \in Processes /\ publishing[p] # None /\ PubTyped /\ PlacedRun(p)
      /\ At(p) /\ d \in Dirs /\ x \in StepNames /\ Step(p) = FileStep(d, x)
      /\ Second(p) \in 1..LastSecond
  BY WriteFacts
<1>2. /\ shots' = shots /\ publishing'[p].id = i /\ publishing'[p].tells = publishing[p].tells
      /\ publishing'[p].stage = "open" => publishing'[p].done = publishing[p].done
      /\ publishing'[p].stage = "open" /\ x = "INDEX" => publishing'[p].list = Listing(d)
  BY DEF Writes
<1>3. /\ LoneRun(p) /\ i = Len(shots) /\ i \in DOMAIN shots
      /\ x = "INDEX" /\ publishing'[p].done # publishing[p].done => c = Listing(d)
      /\ x # "INDEX" /\ publishing'[p].done # publishing[p].done => c = i
  BY WritesLone
<1>4. ASSUME NEW s \in DoneSteps(p)
      PROVE  /\ s.name \in Names => published'[s.dir][s.name] = i
             /\ s.name = "history" => histories'[s.dir][shots[i].at] = i
             /\ s.name = "INDEX" => i \in indexes'[s.dir].reports
  <2>1. s # Step(p) /\ s \in AllSteps(i)
    BY <1>1, <1>4, NextStep
  <2>2. s.dir \in Dirs /\ s = FileStep(s.dir, s.name) /\ shots[i].at \in 1..LastSecond
    BY <1>1, <1>3, <2>1, ShotTyped, StepIsPlaced
  <2>3. /\ s.name \in Names => published[s.dir][s.name] = i
        /\ s.name = "history" => histories[s.dir][shots[i].at] = i
        /\ s.name = "INDEX" => i \in indexes[s.dir].reports
    BY <1>3, <1>4 DEF LoneRun
  <2>4. s.name \in Names => published'[s.dir][s.name] = published[s.dir][s.name]
    BY <2>1, <2>2, PutWrites
  <2>5. s.name = "history" => histories'[s.dir][shots[i].at] = histories[s.dir][shots[i].at]
    BY <2>1, <2>2, PutWrites
  <2>6. s.name = "INDEX" => indexes'[s.dir] = indexes[s.dir]
    BY <2>1, <2>2, PutWrites
  <2> QED
    BY <2>3, <2>4, <2>5, <2>6
<1>5. ASSUME publishing'[p].done # publishing[p].done
      PROVE  /\ x \in Names => published'[d][x] = i
             /\ x = "history" => histories'[d][shots[i].at] = i
             /\ x = "INDEX" => i \in indexes'[d].reports
  <2>1. x \in Names => published'[d][x] = c /\ x # "INDEX"
    BY <1>1, PutWrites DEF Names
  <2>2. x = "history" => histories'[d][Second(p)] = c
    BY <1>1, PutWrites
  <2>3. x = "INDEX" => indexes'[d] = c
    BY <1>1, PutWrites
  <2>4. x = "INDEX" => histories[d][shots[i].at] = i
    <3>1. x = "INDEX" => FileStep(d, "history") \in DoneSteps(p)
      BY <1>1, NextStep
    <3>2. FileStep(d, "history").dir = d /\ FileStep(d, "history").name = "history"
      BY DEF FileStep
    <3> QED
      BY <1>3, <3>1, <3>2 DEF LoneRun
  <2>5. x = "INDEX" => i \in Listing(d).reports
    BY <1>1, <1>3, <2>4, ListedWhole DEF Second
  <2> QED
    BY <1>3, <1>5, <2>1, <2>2, <2>3, <2>5 DEF Second
<1>6. ASSUME publishing'[p].stage = "open", (Step(p).name)' = "INDEX"
      PROVE  publishing'[p].list = Listing(Step(p).dir)'
  <2>1. Step(p)' = Step(p)
    BY <1>2, <1>6, DoneAfter
  <2>2. histories' = histories /\ keptPolicies' = keptPolicies
    BY <1>6, <2>1, PutWrites
  <2>3. \A e : Listing(e)' = Listing(e)
    BY <2>2 DEF Listing
  <2> QED
    BY <1>2, <1>6, <2>1, <2>3
<1>7. DoneSteps(p)' = IF publishing'[p].done = publishing[p].done THEN DoneSteps(p)
                      ELSE DoneSteps(p) \union {Step(p)}
  BY DoneAfter
<1>8. publishing[p].tells = i
  BY <1>3 DEF LoneRun
<1> QED
  BY <1>2, <1>3, <1>4, <1>5, <1>6, <1>7, <1>8 DEF LoneRun

(* Nothing is ahead of the files it names, as long as nobody is in the way. *)
AheadOfLatest(d) ==
    LET m == published[d]["MANIFEST"]
    IN  Whole(m) => published[d]["latest"] = Empty \/ published[d]["latest"] >= m
AheadOfPolicy(d) ==
    LET m == published[d]["MANIFEST"]
    IN  Whole(m) /\ shots[m].request.policy =>
            published[d]["policy"] = Empty \/ published[d]["policy"] >= m
AheadOfIndex(d) ==
    LET m == published[d]["MANIFEST"]
    IN  Whole(m) => indexes[d] = Empty \/ m \in indexes[d].reports \/ Later(m, d)
AheadOfManifests(d) ==
    LET u == published[d]["PUBLICATION"]
        r == shots[u].request
    IN  Whole(u) =>
            /\ published[BundleDir(r)]["MANIFEST"] = Empty
               \/ published[BundleDir(r)]["MANIFEST"] >= u
            /\ d = RootDir(r) /\ HasSite(r) =>
                   published[SiteDir(r)]["MANIFEST"] = Empty
                       \/ published[SiteDir(r)]["MANIFEST"] >= u
BackedOrLater(d) ==
    LET m == published[d]["MANIFEST"]
    IN  Whole(m) => histories[d][shots[m].at] = m \/ Later(m, d)

LEMMA NothingAheadParts ==
    NothingAhead <=> (~crossed => \A d \in Dirs : AheadOfLatest(d) /\ AheadOfPolicy(d)
                                       /\ AheadOfIndex(d) /\ AheadOfManifests(d))
BY Zenon DEF NothingAhead, AheadOfLatest, AheadOfPolicy, AheadOfIndex, AheadOfManifests, Later

LEMMA WholeTyped ==
    ASSUME PubTyped, NEW d \in Dirs, NEW n \in Names, Whole(published[d][n])
    PROVE  published[d][n] \in DOMAIN shots /\ published[d][n] \in Nat
<1>1. published[d][n] \in DOMAIN shots
  BY DEF PubTyped, Whole
<1> QED
  BY <1>1, ShotTyped

LEMMA WritesAhead ==
    ASSUME PubInv, NEW p, NEW c, Writes(p, c), ~crossed, NEW e \in Dirs
    PROVE  /\ AheadOfLatest(e)' /\ AheadOfPolicy(e)' /\ AheadOfIndex(e)' /\ AheadOfManifests(e)'
           /\ BackedOrLater(e)'
<1> DEFINE i == publishing[p].id
           d == Step(p).dir
           x == Step(p).name
           m == published[e]["MANIFEST"]
           r == shots[i].request
<1>1. /\ p \in Processes /\ publishing[p] # None /\ PubTyped /\ PlacedRun(p)
      /\ At(p) /\ d \in Dirs /\ x \in StepNames /\ Step(p) = FileStep(d, x)
      /\ i \in RunsInto(d) /\ Second(p) \in 1..LastSecond
  BY WriteFacts
<1>2. /\ LoneRun(p) /\ i \in DOMAIN shots /\ i \in Nat
      /\ \A j \in DOMAIN shots : j <= i /\ j \in Nat
      /\ x = "INDEX" /\ c # Empty => c = Listing(d)
      /\ x # "INDEX" => c \in {Empty, i}
      /\ Undisturbed /\ NothingAhead
  BY WritesLone
<1>3. /\ shots' = shots
      /\ \A j, f : Later(j, f)' = Later(j, f)
  BY DEF Writes, Later, RunsInto, DirsOf
<1>4. \A f, y : FileStep(f, y) = Step(p) <=> f = d /\ y = x
  BY <1>1 DEF FileStep
<1>5. /\ \A f \in Dirs : \A n \in Names :
            published'[f][n] = IF f = d /\ n = x THEN c ELSE published[f][n]
      /\ \A f \in Dirs : \A s \in 1..LastSecond :
            histories'[f][s] = IF f = d /\ x = "history"
                /\ s = Second(p) THEN c ELSE histories[f][s]
      /\ \A f \in Dirs : indexes'[f] = IF f = d /\ x = "INDEX" THEN c ELSE indexes[f]
  BY <1>4, PutWrites
<1>6. /\ AheadOfLatest(e) /\ AheadOfPolicy(e) /\ AheadOfIndex(e) /\ AheadOfManifests(e)
      /\ BackedOrLater(e)
  BY <1>2, NothingAheadParts DEF Undisturbed, BackedOrLater
<1>7. /\ "MANIFEST" \in Names /\ "latest" \in Names /\ "policy" \in Names
         /\ "PUBLICATION" \in Names
      /\ "INDEX" \notin Names
  BY DEF Names
<1>8. \A f, y : FileStep(f, y) \in DoneSteps(p) =>
          /\ y \in Names => published[f][y] = i
          /\ y = "history" => histories[f][shots[i].at] = i
          /\ y = "INDEX" => i \in indexes[f].reports
  <2>1. \A f, y : FileStep(f, y).dir = f /\ FileStep(f, y).name = y
    BY DEF FileStep
  <2> QED
    BY <1>2, <2>1 DEF LoneRun
<1>9. i # Empty /\ i # None
  BY <1>2, PublicationsAssumption
<1>a. Whole(m) => m \in DOMAIN shots /\ m <= i /\ m \in Nat /\ shots[m].at \in 1..LastSecond
  BY <1>1, <1>2, <1>7, WholeTyped, ShotTyped
<1>10. ASSUME e = d, x = "MANIFEST"
       PROVE  AheadOfLatest(e)' /\ AheadOfPolicy(e)' /\ AheadOfIndex(e)' /\ BackedOrLater(e)'
  <2>1. published'[e]["MANIFEST"] = c /\ c \in {Empty, i}
    BY <1>2, <1>5, <1>7, <1>10
  <2>2. /\ FileStep(d, "latest") \in DoneSteps(p) /\ FileStep(d, "history") \in DoneSteps(p)
        /\ FileStep(d, "INDEX") \in DoneSteps(p)
        /\ r.policy => FileStep(d, "policy") \in DoneSteps(p)
    BY <1>1, <1>10, NextStep
  <2>3. /\ published'[d]["latest"] = i /\ (r.policy => published'[d]["policy"] = i)
        /\ i \in indexes'[d].reports /\ histories'[d][shots[i].at] = i
    <3>1. /\ published[d]["latest"] = i /\ (r.policy => published[d]["policy"] = i)
          /\ i \in indexes[d].reports /\ histories[d][shots[i].at] = i
      BY <1>7, <1>8, <2>2
    <3> QED
      BY <1>1, <1>5, <1>7, <1>10, <3>1 DEF Second
  <2>4. i >= i
    BY <1>2
  <2>5. published'[d]["PUBLICATION"] = published[d]["PUBLICATION"]
    BY <1>1, <1>5, <1>7, <1>10
  <2>6. AheadOfLatest(e)' /\ AheadOfPolicy(e)' /\ AheadOfIndex(e)' /\ BackedOrLater(e)'
    <3>1. CASE c = Empty
      BY <2>1, <3>1 DEF AheadOfLatest, AheadOfPolicy, AheadOfIndex, BackedOrLater, Whole
    <3>2. CASE c = i
      BY <1>3, <1>10, <2>1, <2>3, <2>4, <3>2 DEF AheadOfLatest, AheadOfPolicy, AheadOfIndex,
          BackedOrLater
    <3> QED
      BY <2>1, <3>1, <3>2
  <2> QED
    BY <2>6
<1>11. ASSUME ~(e = d /\ x = "MANIFEST")
       PROVE  AheadOfLatest(e)' /\ AheadOfPolicy(e)' /\ AheadOfIndex(e)' /\ BackedOrLater(e)'
  <2>1. published'[e]["MANIFEST"] = m
    BY <1>5, <1>7, <1>11
  <2>2. \A n \in {"latest", "policy"} : published'[e][n] \in {published[e][n], Empty, i}
    BY <1>2, <1>5, <1>7
  <2> SUFFICES ASSUME Whole(m)
               PROVE  AheadOfLatest(e)' /\ AheadOfPolicy(e)' /\ AheadOfIndex(e)'
                   /\ BackedOrLater(e)'
    BY <2>1 DEF AheadOfLatest, AheadOfPolicy, AheadOfIndex, BackedOrLater
  <2>3. m \in DOMAIN shots /\ i >= m /\ m \in Nat /\ shots[m].at \in 1..LastSecond
    BY <1>2, <1>a
  <2>4. /\ published[e]["latest"] = Empty \/ published[e]["latest"] >= m
        /\ shots[m].request.policy => published[e]["policy"] = Empty
           \/ published[e]["policy"] >= m
        /\ indexes[e] = Empty \/ m \in indexes[e].reports \/ Later(m, e)
        /\ histories[e][shots[m].at] = m \/ Later(m, e)
    BY <1>6 DEF AheadOfLatest, AheadOfPolicy, AheadOfIndex, BackedOrLater
  <2>5. published'[e]["latest"] = Empty \/ published'[e]["latest"] >= m
    BY <2>2, <2>3, <2>4
  <2>6. shots[m].request.policy => published'[e]["policy"] = Empty \/ published'[e]["policy"] >= m
    BY <2>2, <2>3, <2>4
  <2>7. indexes'[e] = Empty \/ m \in indexes'[e].reports \/ Later(m, e)
    <3>1. CASE e = d /\ x = "INDEX" /\ c # Empty
      <4>1. indexes'[e] = Listing(e)
        BY <1>2, <1>5, <3>1
      <4>2. histories[e][shots[m].at] = m => m \in Listing(e).reports
        BY <1>1, <2>3, ListedWhole
      <4> QED
        BY <2>4, <4>1, <4>2
    <3>2. CASE ~(e = d /\ x = "INDEX" /\ c # Empty)
      BY <1>5, <2>4, <3>2
    <3> QED
      BY <3>1, <3>2
  <2>8. histories'[e][shots[m].at] = m \/ Later(m, e)
    <3>1. CASE e = d /\ x = "history" /\ shots[m].at = Second(p)
      <4>1. m # i
        <5> SUFFICES ASSUME m = i PROVE FALSE
          OBVIOUS
        <5>1. ManifestKept(e)
          BY DEF PubInv
        <5>2. FileStep(e, "MANIFEST") \in DoneSteps(p)
          BY <1>1, <5>1 DEF ManifestKept
        <5> QED
          BY <1>1, <3>1, <5>2, NextStep
      <4>2. i > m
        BY <1>2, <2>3, <4>1
      <4> QED
        BY <1>1, <3>1, <4>2 DEF Later, Second
    <3>2. CASE ~(e = d /\ x = "history" /\ shots[m].at = Second(p))
      BY <1>5, <2>3, <2>4, <3>2
    <3> QED
      BY <3>1, <3>2
  <2> QED
    BY <1>3, <2>1, <2>5, <2>6, <2>7, <2>8 DEF AheadOfLatest, AheadOfPolicy, AheadOfIndex,
        BackedOrLater
<1>12. AheadOfManifests(e)'
  <2>1. CASE e = d /\ x = "PUBLICATION"
    <3>1. published'[e]["PUBLICATION"] = c /\ c \in {Empty, i}
      BY <1>2, <1>5, <1>7, <2>1
    <3>2. /\ FileStep(BundleDir(r), "MANIFEST") \in DoneSteps(p)
          /\ d = RootDir(r) /\ HasSite(r) => FileStep(SiteDir(r), "MANIFEST") \in DoneSteps(p)
      BY <1>1, <2>1, NextStep
    <3>3. r \in SnapshotRequests /\ BundleDir(r) \in Dirs /\ (HasSite(r) => SiteDir(r) \in Dirs)
      BY <1>1, <1>2, ShotTyped, DirsApart
    <3>4. /\ published'[BundleDir(r)]["MANIFEST"] = i
          /\ d = RootDir(r) /\ HasSite(r) => published'[SiteDir(r)]["MANIFEST"] = i
      <4>1. /\ published[BundleDir(r)]["MANIFEST"] = i
            /\ d = RootDir(r) /\ HasSite(r) => published[SiteDir(r)]["MANIFEST"] = i
        BY <1>7, <1>8, <3>2
      <4> QED
        BY <1>5, <1>7, <2>1, <3>3, <4>1
    <3>5. i >= i
      BY <1>2
    <3>6. CASE c = Empty
      BY <3>1, <3>6 DEF AheadOfManifests, Whole
    <3>7. CASE c = i
      BY <1>3, <2>1, <3>1, <3>4, <3>5, <3>7 DEF AheadOfManifests
    <3> QED
      BY <3>1, <3>6, <3>7
  <2>2. CASE ~(e = d /\ x = "PUBLICATION")
    <3> DEFINE u == published[e]["PUBLICATION"]
               o == shots[u].request
    <3>1. published'[e]["PUBLICATION"] = u
      BY <1>5, <1>7, <2>2
    <3> SUFFICES ASSUME Whole(u)
                 PROVE  /\ published'[BundleDir(o)]["MANIFEST"] = Empty
                           \/ published'[BundleDir(o)]["MANIFEST"] >= u
                        /\ e = RootDir(o) /\ HasSite(o) =>
                               published'[SiteDir(o)]["MANIFEST"] = Empty
                                   \/ published'[SiteDir(o)]["MANIFEST"] >= u
      BY <1>3, <3>1 DEF AheadOfManifests
    <3>2. u \in DOMAIN shots /\ i >= u
      BY <1>1, <1>2, <1>7, WholeTyped
    <3>3. BundleDir(o) \in Dirs /\ (HasSite(o) => SiteDir(o) \in Dirs)
      BY <1>1, <3>2, ShotTyped, DirsApart
    <3>4. /\ published[BundleDir(o)]["MANIFEST"] = Empty
             \/ published[BundleDir(o)]["MANIFEST"] >= u
          /\ e = RootDir(o) /\ HasSite(o) =>
                 published[SiteDir(o)]["MANIFEST"] = Empty
                     \/ published[SiteDir(o)]["MANIFEST"] >= u
      BY <1>6 DEF AheadOfManifests
    <3>5. \A f \in Dirs : published'[f]["MANIFEST"] \in {published[f]["MANIFEST"], Empty, i}
      BY <1>2, <1>5, <1>7
    <3> QED
      BY <3>2, <3>3, <3>4, <3>5
  <2> QED
    BY <2>1, <2>2
<1> QED
  BY <1>10, <1>11, <1>12

(* Where later runs write, and what a run that came to its end has left.   *)
Again(i) == UNION {DirsOf(j) : j \in {k \in DOMAIN shots : k > i}}
RunRepaired(i) ==
    \A s \in AllSteps(i) :
        s.name \in Names /\ s.dir \notin Again(i) => published[s.dir][s.name] = i

LEMMA RepairedParts ==
    PubTyped => (Repaired <=> (~crossed => \A i \in finished : RunRepaired(i)))
<1> SUFFICES ASSUME PubTyped
             PROVE  Repaired <=> (~crossed => \A i \in finished : RunRepaired(i))
  OBVIOUS
<1>1. \A i \in finished : DOMAIN StepsOf(i) = 1..Len(StepsOf(i))
  <2> SUFFICES ASSUME NEW i \in finished PROVE DOMAIN StepsOf(i) = 1..Len(StepsOf(i))
    OBVIOUS
  <2>1. i \in DOMAIN shots
    BY DEF PubTyped
  <2>2. shots[i].request \in SnapshotRequests
    BY <2>1, ShotTyped
  <2> QED
    BY <2>2, StepsAreList DEF StepsOf
<1> QED
  BY <1>1 DEF Repaired, RunRepaired, AllSteps, Again

LEMMA RepairedPartsNext ==
    PubTyped' => (Repaired <=> (~crossed => \A i \in finished : RunRepaired(i)))'
BY RepairedParts, PTL

(* What was repaired stays so: a run that writes there again is a later one. *)
LEMMA WritesRepair ==
    ASSUME PubInv, NEW p, NEW c, Writes(p, c)
    PROVE  Repaired'
<1>1. shots' = shots /\ finished' = finished /\ crossed' = crossed
  BY DEF Writes
<1>2. PubTyped' /\ PubTyped
  BY WritesTyped DEF PubInv
<1> SUFFICES ASSUME ~crossed, NEW j \in finished, NEW s \in AllSteps(j), s.name \in Names,
                    s.dir \notin Again(j)
             PROVE  published'[s.dir][s.name] = j
  <2>1. /\ \A j : AllSteps(j)' = AllSteps(j)
        /\ \A j : Again(j)' = Again(j)
    BY <1>1 DEF AllSteps, StepsOf, Again, DirsOf
  <2>2. (Repaired <=> (~crossed => \A i \in finished : RunRepaired(i)))'
    BY <1>2, RepairedPartsNext
  <2> QED
    BY <1>1, <2>1, <2>2 DEF RunRepaired
<1> DEFINE i == publishing[p].id
<1>3. /\ p \in Processes /\ publishing[p] # None /\ PubTyped /\ PlacedRun(p)
      /\ i \in RunsInto(Step(p).dir) /\ Step(p) = FileStep(Step(p).dir, Step(p).name)
  BY WriteFacts
<1>4. i \in DOMAIN shots /\ \A k \in DOMAIN shots : k <= i /\ k \in Nat
  BY WritesLone
<1>5. j \in DOMAIN shots /\ i \notin finished /\ i # j
  BY <1>3 DEF PubTyped, PlacedRun
<1>6. i > j /\ j \in DOMAIN shots
  BY <1>4, <1>5
<1>7. Step(p).dir \in Again(j)
  BY <1>3, <1>4, <1>6 DEF Again, RunsInto
<1>8. s.dir \in Dirs /\ s = FileStep(s.dir, s.name)
  BY <1>2, <1>5, StepIsPlaced
<1>9. published[s.dir][s.name] = j
  BY <1>2, RepairedParts DEF PubInv, RunRepaired
<1>10. FileStep(s.dir, s.name) # Step(p)
  BY <1>7, <1>8
<1> QED
  BY <1>8, <1>9, <1>10, PutWrites

LEMMA WritesKeep ==
    ASSUME PubInv, NEW p, NEW c, Writes(p, c)
    PROVE  PubInv'
<1>1. PubTyped' /\ RunsApart' /\ PageExplained' /\ SeenSound' /\ Repaired'
  BY WritesTyped, WritesApart, WritesPage, WritesRepair
<1>2. (\A q \in Processes : publishing[q] # None => PlacedRun(q) /\ WrittenRun(q))'
  BY WritesPlaced
<1>3. (\A d \in Dirs : ManifestKept(d))'
  BY WritesKept
<1>4. crossed' = crossed
  BY DEF Writes
<1>5. NothingAhead'
  <2>1. (NothingAhead <=> (~crossed => \A d \in Dirs : AheadOfLatest(d) /\ AheadOfPolicy(d)
                                       /\ AheadOfIndex(d) /\ AheadOfManifests(d)))'
    BY NothingAheadParts, PTL
  <2> QED
    BY <1>4, <2>1, WritesAhead
<1>6. Undisturbed'
  <2>1. ASSUME ~crossed, NEW q \in Processes, publishing'[q] # None
        PROVE  LoneRun(q)'
    <3>1. q = p /\ LoneRun(p)'
      BY <2>1, WritesLone, WritesAlone
    <3> QED
      BY <3>1
  <2>2. ASSUME ~crossed, NEW d \in Dirs
        PROVE  BackedOrLater(d)'
    BY <2>2, WritesAhead
  <2> QED
    BY <1>4, <2>1, <2>2 DEF Undisturbed, BackedOrLater
<1> QED
  BY <1>1, <1>2, <1>3, <1>5, <1>6 DEF PubInv

LEMMA OpenNextKeeps ==
    ASSUME PubInv, NEW p \in Processes, OpenNext(p)
    PROVE  PubInv'
<1> DEFINE run == publishing[p]
           list == IF Step(p).name = "INDEX" THEN Listing(Step(p).dir) ELSE None
<1>1. /\ run # None /\ At(p) /\ Step(p).name # "read back" /\ Put(p, Empty)
      /\ publishing' = [publishing EXCEPT ![p].stage = "open", ![p].list = list]
      /\ UNCHANGED <<shots, finished, crossed, second, rewrites>>
  BY DEF OpenNext, At
<1>2. PubTyped /\ PlacedRun(p) /\ run \in PublishingRun
  BY <1>1, RunTyped DEF PubInv
<1>3. publishing \in [Processes -> {None} \union PublishingRun]
  BY <1>2 DEF PubTyped
<1>4. list \in {None} \union Lists
  <2>1. Step(p) \in AllSteps(run.id) /\ run.id \in DOMAIN shots
    BY <1>1, <1>2, NextStep, RunTyped
  <2>2. Step(p).dir \in Dirs
    BY <1>2, <2>1, StepIsPlaced
  <2> QED
    BY <1>2, <2>2, ListingTyped
<1>5. [run EXCEPT !.stage = "open", !.list = list] \in PublishingRun
  BY <1>2, <1>4 DEF PublishingRun
<1>6. publishing' = [publishing EXCEPT ![p] = [run EXCEPT !.stage = "open", !.list = list]]
  BY <1>1, <1>3
<1> HIDE DEF list
<1>7. /\ \A q \in Processes : q # p => publishing'[q] = publishing[q]
      /\ publishing' \in [Processes -> {None} \union PublishingRun]
      /\ publishing'[p] = [run EXCEPT !.stage = "open", !.list = list]
  BY <1>3, <1>5, <1>6
<1>8. publishing'[p] # None
  BY <1>5, <1>7, PublicationsAssumption
<1>9. /\ publishing'[p].id = run.id /\ publishing'[p].tells = run.tells
         /\ publishing'[p].done = run.done
      /\ publishing'[p].stage = "open" /\ publishing'[p].list = list
  BY <1>2, <1>7 DEF PublishingRun
<1>10. Writes(p, Empty)
  BY <1>1, <1>7, <1>8, <1>9 DEF Writes, list
<1> QED
  BY <1>10, WritesKeep

LEMMA FillOpenedKeeps ==
    ASSUME PubInv, NEW p \in Processes, FillOpened(p)
    PROVE  PubInv'
<1> DEFINE run == publishing[p]
           content == IF Step(p).name = "INDEX" THEN run.list ELSE run.tells
           next == [run EXCEPT !.done = @ + 1, !.stage = "next", !.list = None]
<1>1. /\ run # None /\ At(p) /\ run.stage = "open" /\ Put(p, content)
      /\ publishing' = [publishing EXCEPT ![p].done = @ + 1, ![p].stage = "next",
         ![p].list = None]
      /\ UNCHANGED <<shots, finished, crossed, second, rewrites>>
  BY DEF FillOpened, At
<1>2. PubTyped /\ PlacedRun(p) /\ run \in PublishingRun
  BY <1>1, RunTyped DEF PubInv
<1>3. publishing \in [Processes -> {None} \union PublishingRun]
  BY <1>2 DEF PubTyped
<1>4. Step(p).name # "read back"
  BY <1>1, <1>2 DEF PlacedRun
<1>5. next \in PublishingRun
  <2>1. run.done + 1 \in Nat
    BY <1>2 DEF PublishingRun
  <2> QED
    BY <1>2, <2>1 DEF PublishingRun
<1>6. publishing' = [publishing EXCEPT ![p] = next]
  BY <1>1, <1>3
<1>7. /\ next.id = run.id /\ next.tells = run.tells /\ next.done = run.done + 1
         /\ next.stage = "next"
  BY <1>2 DEF PublishingRun
<1> HIDE DEF next
<1>8. /\ \A q \in Processes : q # p => publishing'[q] = publishing[q]
      /\ publishing' \in [Processes -> {None} \union PublishingRun]
      /\ publishing'[p] = next
  BY <1>3, <1>5, <1>6
<1>9. publishing'[p] # None
  BY <1>5, <1>8, PublicationsAssumption
<1>10. Writes(p, content)
  BY <1>1, <1>4, <1>7, <1>8, <1>9 DEF Writes
<1> QED
  BY <1>10, WritesKeep

(* What does not move stays as it is.                                       *)
LEMMA SameShots ==
    ASSUME shots' = shots
    PROVE  /\ \A i : AllSteps(i)' = AllSteps(i) /\ StepsOf(i)' = StepsOf(i)
              /\ Again(i)' = Again(i)
                     /\ PublishedRelease(i)' = PublishedRelease(i)
           /\ \A e : RunsInto(e)' = RunsInto(e)
           /\ \A i, e : OwnSecond(i, e)' = OwnSecond(i, e) /\ Later(i, e)' = Later(i, e)
BY DEF AllSteps, StepsOf, Again, PublishedRelease, RunsInto, DirsOf, OwnSecond, Later

LEMMA SameRun ==
    ASSUME NEW q \in Processes, publishing'[q] = publishing[q], shots' = shots,
           published' = published, histories' = histories, keptPolicies' = keptPolicies,
           indexes' = indexes
    PROVE  /\ DoneSteps(q)' = DoneSteps(q) /\ ToCome(q)' = ToCome(q)
           /\ At(q)' = At(q) /\ Step(q)' = Step(q)
           /\ WrittenRun(q)' = WrittenRun(q) /\ LoneRun(q)' = LoneRun(q)
           /\ publishing[q].id \notin finished' => (PlacedRun(q) => PlacedRun(q)')
<1>1. /\ DoneSteps(q)' = DoneSteps(q) /\ ToCome(q)' = ToCome(q)
      /\ At(q)' = At(q) /\ Step(q)' = Step(q)
      /\ \A i : StepsOf(i)' = StepsOf(i)
  BY DEF DoneSteps, ToCome, At, Step, StepsOf
<1>2. \A i, e : OwnSecond(i, e)' = OwnSecond(i, e)
  BY SameShots
<1>3. \A e : Listing(e)' = Listing(e)
  BY DEF Listing
<1>4. WrittenRun(q)' = WrittenRun(q)
  BY <1>1, <1>2 DEF WrittenRun
<1>5. LoneRun(q)' = LoneRun(q)
  BY <1>1, <1>3 DEF LoneRun
<1>6. publishing[q].id \notin finished' => (PlacedRun(q) => PlacedRun(q)')
  BY <1>1 DEF PlacedRun
<1> QED
  BY <1>1, <1>4, <1>5, <1>6

(* What was published and taken is as it was.                               *)
Still ==
    /\ published' = published /\ histories' = histories /\ keptPolicies' = keptPolicies
    /\ indexes' = indexes /\ shots' = shots

LEMMA StillKeeps ==
    ASSUME PubInv, Still, crossed' = crossed
    PROVE  PageExplained' /\ SeenSound' /\ NothingAhead'
        /\ (\A d \in Dirs : BackedOrLater(d)' = BackedOrLater(d))
<1>1. PageExplained /\ SeenSound /\ NothingAhead
  BY DEF PubInv
<1>2. PageExplained'
  BY <1>1, SameShots DEF Still, PageExplained, ReleasePage
<1>3. SeenSound'
  BY <1>1 DEF Still, SeenSound, HandoffJustified
<1>4. NothingAhead'
  BY <1>1, SameShots DEF Still, NothingAhead
<1>5. \A d \in Dirs : BackedOrLater(d)' = BackedOrLater(d)
  BY SameShots DEF Still, BackedOrLater
<1> QED
  BY <1>2, <1>3, <1>4, <1>5

(* A run ends, at its end or before it.                                     *)
LEMMA LeavingKeeps ==
    ASSUME PubInv, NEW p \in Processes, publishing[p] # None,
           publishing' = [publishing EXCEPT ![p] = None], Still, crossed' = crossed,
           second' = second, rewrites' = rewrites,
           finished' = finished \/ (finished' = finished \union {publishing[p].id} /\ ~At(p))
    PROVE  PubInv'
<1> DEFINE i == publishing[p].id
<1>1. /\ PubTyped /\ RunsApart /\ Undisturbed /\ Repaired
      /\ \A q \in Processes : publishing[q] # None => PlacedRun(q) /\ WrittenRun(q)
      /\ \A d \in Dirs : ManifestKept(d)
  BY DEF PubInv
<1>2. publishing \in [Processes -> {None} \union PublishingRun]
  BY <1>1 DEF PubTyped
<1>3. /\ \A q \in Processes : publishing'[q] # None => q # p /\ publishing'[q] = publishing[q]
         /\ publishing[q] # None
      /\ publishing' \in [Processes -> {None} \union PublishingRun]
  BY <1>2
<1>4. i \in DOMAIN shots /\ Len(StepsOf(i)) \in Nat /\ publishing[p].done \in Nat
      /\ publishing[p].done <= Len(StepsOf(i))
  BY <1>1, RunTyped, ShotTyped DEF PlacedRun
<1>5. PubTyped'
  BY <1>1, <1>3, <1>4 DEF PubTyped, Still
<1>6. ASSUME NEW q \in Processes, publishing'[q] # None
      PROVE  PlacedRun(q)' /\ WrittenRun(q)'
  <2>1. q # p /\ publishing'[q] = publishing[q] /\ publishing[q] # None /\ PlacedRun(q)
          /\ WrittenRun(q)
    BY <1>1, <1>3, <1>6
  <2>2. publishing[q].id # i /\ publishing[q].id \notin finished
    BY <1>1, <2>1 DEF RunsApart, PlacedRun
  <2>3. publishing[q].id \notin finished'
    BY <2>2
  <2> QED
    BY <2>1, <2>3, SameRun DEF Still
<1>7. RunsApart'
  BY <1>1, <1>3 DEF RunsApart
<1>8. ASSUME NEW d \in Dirs
      PROVE  ManifestKept(d)'
  <2>1. \A q \in Processes : publishing'[q] # None => DoneSteps(q)' = DoneSteps(q)
    BY <1>3, SameRun DEF Still
  <2>2. ManifestKept(d) /\ published' = published /\ histories' = histories /\ shots' = shots
    BY <1>1 DEF Still
  <2>3. \A m, e : AllSteps(m)' = AllSteps(m) /\ OwnSecond(m, e)' = OwnSecond(m, e)
    BY <2>2, SameShots
  <2> QED
    BY <1>3, <2>1, <2>2, <2>3 DEF ManifestKept
<1>9. PageExplained' /\ SeenSound' /\ NothingAhead'
        /\ \A d \in Dirs : BackedOrLater(d)' = BackedOrLater(d)
  BY StillKeeps
<1>10. Undisturbed'
  <2>1. ASSUME ~crossed, NEW q \in Processes, publishing'[q] # None
        PROVE  LoneRun(q)'
    BY <1>1, <1>3, <2>1, SameRun DEF Still, Undisturbed
  <2> QED
    BY <1>1, <1>9, <2>1 DEF Undisturbed, BackedOrLater
<1>11. Repaired'
  <2>1. (Repaired <=> (~crossed => \A j \in finished : RunRepaired(j)))'
    BY <1>5, RepairedPartsNext
  <2>2. /\ shots' = shots /\ published' = published
        /\ \A j : AllSteps(j)' = AllSteps(j) /\ Again(j)' = Again(j)
    BY SameShots DEF Still
  <2>3. \A j : RunRepaired(j)' = RunRepaired(j)
    BY <2>2 DEF RunRepaired
  <2>4. ~crossed => \A j \in finished : RunRepaired(j)
    BY <1>1, RepairedParts
  <2>5. ASSUME ~crossed, ~At(p)
        PROVE  RunRepaired(i)
    <3>1. LoneRun(p)
      BY <1>1, <2>5 DEF Undisturbed
    <3>2. publishing[p].done = Len(StepsOf(i))
      BY <1>4, <2>5 DEF At
    <3>3. AllSteps(i) = DoneSteps(p)
      BY <3>2 DEF AllSteps, DoneSteps
    <3> QED
      BY <3>1, <3>3 DEF LoneRun, RunRepaired
  <2> QED
    BY <2>1, <2>3, <2>4, <2>5
<1> QED
  BY <1>5, <1>6, <1>7, <1>8, <1>9, <1>10, <1>11 DEF PubInv

LEMMA LeaveKeeps ==
    ASSUME PubInv, NEW p \in Processes, Finish(p) \/ DiePublishing(p)
    PROVE  PubInv'
<1>1. /\ publishing[p] # None /\ publishing' = [publishing EXCEPT ![p] = None] /\ Still
      /\ crossed' = crossed /\ second' = second /\ rewrites' = rewrites
      /\ finished' = finished \/ (finished' = finished \union {publishing[p].id} /\ ~At(p))
  BY DEF Finish, DiePublishing, At, Still, disk
<1> QED
  BY <1>1, LeavingKeeps

(* The run reads back what was published.                                   *)
LEMMA ReadBackKeeps ==
    ASSUME PubInv, NEW p \in Processes, ReadBack(p)
    PROVE  PubInv'
<1> DEFINE run == publishing[p]
<1>0. PICK i, r, m :
            /\ i = publishing[p].id /\ r = shots[i].request
            /\ m = published[BundleDir(r)]["MANIFEST"]
  OBVIOUS
<1>1. /\ run # None /\ At(p) /\ Step(p).name = "read back" /\ Still
      /\ crossed' = crossed /\ finished' = finished /\ second' = second /\ rewrites' = rewrites
      /\ publishing' = IF m = Empty THEN [publishing EXCEPT ![p] = None]
                       ELSE [publishing EXCEPT ![p].done = @ + 1, ![p].tells = m]
  BY <1>0 DEF ReadBack, At, Still, disk
<1>2. CASE m = Empty
  BY <1>1, <1>2, LeavingKeeps
<1>3. CASE m # Empty
  <2>1. /\ PubTyped /\ RunsApart /\ Undisturbed /\ Repaired
        /\ \A q \in Processes : publishing[q] # None => PlacedRun(q) /\ WrittenRun(q)
        /\ \A d \in Dirs : ManifestKept(d)
    BY DEF PubInv
  <2>2. /\ i \in DOMAIN shots /\ Len(StepsOf(i)) \in Nat /\ run.done \in Nat
           /\ run.done < Len(StepsOf(i))
        /\ r \in SnapshotRequests /\ run \in PublishingRun /\ DOMAIN shots \subseteq Nat
    BY <1>0, <1>1, <2>1, RunTyped, ShotTyped DEF At
  <2>3. FileStep(BundleDir(r), "MANIFEST") \in DoneSteps(p)
        /\ \A s \in ToCome(p) : s.name \notin {"MANIFEST", "history"}
    BY <1>0, <1>1, <2>1, NextStep
  <2>4. m # None
    <3>1. FileStep(BundleDir(r), "MANIFEST").dir = BundleDir(r)
          /\ FileStep(BundleDir(r), "MANIFEST").name = "MANIFEST" /\ "MANIFEST" \in Names
      BY DEF FileStep, Names
    <3> QED
      BY <1>0, <1>1, <2>1, <2>3, <3>1 DEF WrittenRun
  <2>5. m \in DOMAIN shots
    <3>1. BundleDir(r) \in Dirs
      BY <2>2, DirsApart
    <3>2. Whole(m)
      BY <1>3, <2>4 DEF Whole
    <3> QED
      BY <1>0, <2>1, <3>1, <3>2, WholeTyped DEF Names
  <2>6. publishing \in [Processes -> {None} \union PublishingRun]
    BY <2>1 DEF PubTyped
  <2>a. PICK next : next = [run EXCEPT !.done = @ + 1, !.tells = m]
    OBVIOUS
  <2>7. publishing' = [publishing EXCEPT ![p] = next]
    BY <1>1, <1>3, <2>6, <2>a
  <2>8. next \in PublishingRun
    <3>1. run.done + 1 \in Nat /\ m \in Nat
      BY <2>2, <2>5
    <3> QED
      BY <2>2, <2>a, <3>1 DEF PublishingRun
  <2>9. next.id = i /\ next.tells = m /\ next.done = run.done + 1 /\ next.stage = run.stage
    BY <1>0, <2>2, <2>a DEF PublishingRun
  <2>10. /\ \A q \in Processes : q # p => publishing'[q] = publishing[q]
         /\ publishing' \in [Processes -> {None} \union PublishingRun]
         /\ publishing'[p] = next /\ next # None
    BY <2>6, <2>7, <2>8, PublicationsAssumption
  <2>11. /\ \A q \in Processes : q # p /\ publishing[q] # None =>
                DoneSteps(q)' = DoneSteps(q)
         /\ DoneSteps(p)' = DoneSteps(p) \union {Step(p)}
         /\ ToCome(p)' \subseteq ToCome(p)
    <3>1. shots' = shots /\ publishing'[p].done \in {run.done, run.done + 1}
            /\ publishing'[p].done # run.done
          /\ publishing'[p] # None /\ publishing'[p].id = i
      <4>1. run.done + 1 # run.done
        BY <2>2
      <4> QED
        BY <1>0, <1>1, <2>9, <2>10, <4>1, Zenon DEF Still
    <3> QED
      BY <1>0, <1>1, <2>1, <2>10, <3>1, DoneMoves
  <2>12. PubTyped'
    BY <1>1, <2>1, <2>10 DEF PubTyped, Still
  <2>13. PlacedRun(p)'
    <3>1. i \notin finished' /\ run.stage # "open"
      BY <1>0, <1>1, <2>1 DEF PlacedRun
    <3>2. run.done + 1 <= Len(StepsOf(i)) /\ StepsOf(next.id)' = StepsOf(i)
      <4>1. run.done + 1 <= Len(StepsOf(i))
        BY <2>2
      <4>2. StepsOf(next.id)' = StepsOf(next.id)
        BY <1>1, Zenon DEF Still, StepsOf
      <4> QED
        BY <2>9, <4>1, <4>2, Zenon
    <3>3. shots' = shots
      BY <1>1 DEF Still
    <3> QED
      BY <2>2, <2>3, <2>5, <2>9, <2>10, <2>11, <3>1, <3>2, <3>3 DEF PlacedRun
  <2>14. WrittenRun(p)'
    <3>1. Step(p).name \notin Names /\ Step(p).name # "history"
      BY <1>1 DEF Names
    <3>2. /\ shots' = shots /\ published' = published /\ histories' = histories
          /\ \A e : OwnSecond(i, e)' = OwnSecond(i, e)
      BY <1>1, SameShots DEF Still
    <3>3. \A s \in DoneSteps(p) :
              /\ s.name \in Names => published[s.dir][s.name] # None
              /\ s.name = "history" /\ OwnSecond(i, s.dir) => histories[s.dir][shots[i].at] = i
      BY <1>0, <1>1, <2>1, Zenon DEF WrittenRun
    <3>4. \A s \in DoneSteps(p)' :
              /\ s.name \in Names => published'[s.dir][s.name] # None
              /\ s.name = "history" /\ OwnSecond(i, s.dir)' => histories'[s.dir][shots'[i].at] = i
      BY <2>11, <3>1, <3>2, <3>3
    <3>5. publishing'[p].id = i
      BY <2>9, <2>10, Zenon
    <3> QED
      BY <3>4, <3>5 DEF WrittenRun
  <2>15. ASSUME NEW q \in Processes, publishing'[q] # None
         PROVE  PlacedRun(q)' /\ WrittenRun(q)'
    <3>1. CASE q = p
      BY <2>13, <2>14, <3>1
    <3>2. CASE q # p
      <4>1. publishing'[q] = publishing[q] /\ publishing[q] # None /\ PlacedRun(q)
              /\ WrittenRun(q)
        BY <2>1, <2>10, <2>15, <3>2
      <4>2. publishing[q].id \notin finished'
        BY <1>1, <4>1 DEF PlacedRun
      <4> QED
        BY <1>1, <4>1, <4>2, SameRun DEF Still
    <3> QED
      BY <3>1, <3>2
  <2>16. RunsApart'
    <3>1. \A q \in Processes : publishing'[q] # None =>
              publishing[q] # None /\ publishing'[q].id = publishing[q].id
      BY <1>0, <1>1, <2>9, <2>10
    <3> QED
      BY <2>1, <3>1 DEF RunsApart
  <2>17. ASSUME NEW d \in Dirs
         PROVE  ManifestKept(d)'
    <3>1. \A q \in Processes : publishing'[q] # None =>
              publishing[q] # None /\ publishing'[q].id = publishing[q].id
                  /\ DoneSteps(q) \subseteq DoneSteps(q)'
      BY <1>0, <1>1, <2>9, <2>10, <2>11
    <3>2. ManifestKept(d) /\ published' = published /\ histories' = histories /\ shots' = shots
      BY <1>1, <2>1 DEF Still
    <3>3. \A o, e : AllSteps(o)' = AllSteps(o) /\ OwnSecond(o, e)' = OwnSecond(o, e)
      BY <3>2, SameShots
    <3> QED
      BY <3>1, <3>2, <3>3 DEF ManifestKept
  <2>18. PageExplained' /\ SeenSound' /\ NothingAhead'
           /\ \A d \in Dirs : BackedOrLater(d)' = BackedOrLater(d)
    BY <1>1, StillKeeps
  <2>19. Undisturbed'
    <3>1. ASSUME ~crossed, NEW q \in Processes, publishing'[q] # None
          PROVE  LoneRun(q)'
      <4>1. CASE q # p
        <5>1. LoneRun(q) /\ publishing'[q] = publishing[q]
          BY <2>1, <2>10, <3>1, <4>1 DEF Undisturbed
        <5> QED
          BY <1>1, <5>1, SameRun DEF Still
      <4>2. CASE q = p
        <5>1. LoneRun(p)
          BY <1>1, <2>1, <3>1 DEF Undisturbed
        <5>2. m = i
          <6>1. FileStep(BundleDir(r), "MANIFEST").dir = BundleDir(r)
                /\ FileStep(BundleDir(r), "MANIFEST").name = "MANIFEST" /\ "MANIFEST" \in Names
            BY DEF FileStep, Names
          <6> QED
            BY <1>0, <2>3, <5>1, <6>1 DEF LoneRun
        <5>3. Step(p).name \notin Names /\ Step(p).name # "history" /\ Step(p).name # "INDEX"
          BY <1>1 DEF Names
        <5>4. shots' = shots /\ published' = published /\ histories' = histories
                /\ indexes' = indexes
          BY <1>1 DEF Still
        <5>5. next.stage # "open"
          BY <1>1, <2>1, <2>9 DEF PlacedRun
        <5> QED
          BY <1>0, <2>9, <2>10, <2>11, <4>2, <5>1, <5>2, <5>3, <5>4, <5>5 DEF LoneRun
      <4> QED
        BY <4>1, <4>2
    <3> QED
      BY <1>1, <2>1, <2>18, <3>1 DEF Undisturbed, BackedOrLater
  <2>20. Repaired'
    <3>1. (Repaired <=> (~crossed => \A j \in finished : RunRepaired(j)))'
      BY <2>12, RepairedPartsNext
    <3>2. /\ shots' = shots /\ published' = published
          /\ \A j : AllSteps(j)' = AllSteps(j) /\ Again(j)' = Again(j)
      BY <1>1, SameShots DEF Still
    <3>3. \A j : RunRepaired(j)' = RunRepaired(j)
      BY <3>2 DEF RunRepaired
    <3> QED
      BY <1>1, <2>1, <3>1, <3>3, RepairedParts
  <2> QED
    BY <2>12, <2>15, <2>16, <2>17, <2>18, <2>19, <2>20 DEF PubInv
<1> QED
  BY <1>2, <1>3

(* What a snapshot is taken from is there to be read.                       *)
LEMMA ManifestsRead ==
    ASSUME PubTyped, NEW v \in Versions
    PROVE  /\ BundleManifest(v) \in {None, Empty} \union DOMAIN shots
           /\ PublicationManifest(v) \in {None, Empty} \union DOMAIN shots
           /\ \E place \in {"docs", "artifacts"} :
                 /\ <<"release", place, v>> \in Dirs
                 /\ BundleManifest(v) = published[<<"release", place, v>>]["MANIFEST"]
<1>1. /\ <<"release", "docs", v>> \in Dirs /\ <<"release", "artifacts", v>> \in Dirs
      /\ <<"release", "docs", "root">> \in Dirs
      /\ "MANIFEST" \in Names /\ "PUBLICATION" \in Names
  BY DEF Dirs, Names
<1>2. \A d \in Dirs, x \in Names : published[d][x] \in {None, Empty} \union DOMAIN shots
  BY DEF PubTyped
<1>3. /\ DocsManifest(v) \in {None, Empty} \union DOMAIN shots
      /\ ArtifactManifest(v) \in {None, Empty} \union DOMAIN shots
  BY <1>1, <1>2 DEF DocsManifest, ArtifactManifest
<1>4. BundleManifest(v) \in {DocsManifest(v), ArtifactManifest(v)}
  BY DEF BundleManifest
<1>5. PublicationManifest(v) \in {None, Empty} \union DOMAIN shots
  BY <1>1, <1>2 DEF PublicationManifest
<1>6. \E place \in {"docs", "artifacts"} :
         /\ <<"release", place, v>> \in Dirs
         /\ BundleManifest(v) = published[<<"release", place, v>>]["MANIFEST"]
  BY <1>1, <1>4 DEF DocsManifest, ArtifactManifest
<1> QED
  BY <1>3, <1>4, <1>5, <1>6

NewShot(r) == [request |-> r, ok |-> SnapshotOk(r), at |-> second, seen |-> Seen(r)]

LEMMA NewShotTyped ==
    ASSUME PubTyped, NEW r \in SnapshotRequests
    PROVE  NewShot(r) \in Shot
<1>1. r.kind \in {"trust", "release", "handoff"} /\ r.version \in Versions
  BY PublicationsAssumption
<1>2. SnapshotOk(r) \in BOOLEAN
  <2>1. TrustOk(r) \in BOOLEAN /\ ReleaseOk(r) \in BOOLEAN /\ HandoffOk(r) \in BOOLEAN
    BY DEF TrustOk, ReleaseOk, HandoffOk, Ready
  <2>2. SnapshotOk(r) = TrustOk(r) \/ SnapshotOk(r) = ReleaseOk(r) \/ SnapshotOk(r) = HandoffOk(r)
    BY <1>1 DEF SnapshotOk
  <2> QED
    BY <2>1, <2>2
<1>3. Seen(r) \in {None} \union [bundle : Content, publication : Content]
  <2>1. {None, Empty} \union DOMAIN shots \subseteq Content
    BY DEF PubTyped, Content
  <2>2. BundleManifest(r.version) \in Content /\ PublicationManifest(r.version) \in Content
    BY <1>1, <2>1, ManifestsRead
  <2> QED
    BY <2>2 DEF Seen
<1>4. second \in 1..LastSecond
  BY DEF PubTyped
<1> QED
  BY <1>2, <1>3, <1>4 DEF NewShot, Shot

(* The snapshots taken before keep their numbers.                           *)
LEMMA OldShots ==
    ASSUME PubTyped, NEW s \in Shot, shots' = Append(shots, s), NEW n, n = Len(shots) + 1
    PROVE  /\ n \in Nat /\ n \notin DOMAIN shots /\ DOMAIN shots' = DOMAIN shots \union {n}
           /\ DOMAIN shots = 1..(n - 1) /\ Len(shots') = n /\ shots'[n] = s
           /\ shots' \in Seq(Shot)
           /\ \A i \in DOMAIN shots :
                 i \in Nat /\ i < n /\ 1..(i - 1) \subseteq DOMAIN shots /\ shots'[i] = shots[i]
<1>1. shots \in Seq(Shot)
  BY DEF PubTyped
<1> QED
  BY <1>1

LEMMA OldRuns ==
    ASSUME PubTyped, NEW s \in Shot, shots' = Append(shots, s)
    PROVE  /\ \A i \in DOMAIN shots :
                 /\ StepsOf(i)' = StepsOf(i) /\ AllSteps(i)' = AllSteps(i)
                    /\ DirsOf(i)' = DirsOf(i)
                 /\ PublishedRelease(i)' = PublishedRelease(i)
                 /\ Again(i) \subseteq Again(i)'
           /\ \A d : RunsInto(d) \subseteq RunsInto(d)'
           /\ \A i \in DOMAIN shots : \A d :
                 /\ OwnSecond(i, d)' => OwnSecond(i, d)
                 /\ Later(i, d) => Later(i, d)'
<1>1. /\ DOMAIN shots \subseteq DOMAIN shots'
      /\ \A i \in DOMAIN shots : shots'[i] = shots[i]
  BY OldShots
<1>2. \A i \in DOMAIN shots :
         /\ StepsOf(i)' = StepsOf(i) /\ AllSteps(i)' = AllSteps(i) /\ DirsOf(i)' = DirsOf(i)
         /\ PublishedRelease(i)' = PublishedRelease(i)
  BY <1>1 DEF StepsOf, AllSteps, DirsOf, PublishedRelease
<1>3. \A i \in DOMAIN shots : Again(i) \subseteq Again(i)'
  BY <1>1, <1>2 DEF Again
<1>4. \A d : RunsInto(d) \subseteq RunsInto(d)'
  BY <1>1, <1>2 DEF RunsInto
<1>5. \A d : RunsInto(d) \subseteq DOMAIN shots
  BY DEF RunsInto
<1>6. \A i \in DOMAIN shots : \A d : OwnSecond(i, d)' => OwnSecond(i, d)
  BY <1>1, <1>4, <1>5 DEF OwnSecond
<1>7. \A i \in DOMAIN shots : \A d : Later(i, d) => Later(i, d)'
  BY <1>1, <1>4, <1>5 DEF Later
<1> QED
  BY <1>2, <1>3, <1>4, <1>6, <1>7

(* What one snapshot more leaves as it is.                                  *)
Took(p, r, n) ==
    /\ n = Len(shots) + 1
    /\ PubInv /\ p \in Processes /\ r \in SnapshotRequests /\ publishing[p] = None
    /\ shots' = Append(shots, NewShot(r))
    /\ publishing' = [publishing EXCEPT ![p] =
           [id |-> Len(shots) + 1, tells |-> Len(shots) + 1, done |-> 0, stage |-> "next",
               list |-> None]]
    /\ crossed' = (crossed \/ ~NobodyPublishes)
    /\ published' = published /\ histories' = histories /\ keptPolicies' = keptPolicies
    /\ indexes' = indexes /\ finished' = finished /\ second' = second /\ rewrites' = rewrites

TookFacts(p, r, n) ==
    /\ PubTyped /\ NewShot(r) \in Shot
    /\ n \in Nat /\ n \notin DOMAIN shots /\ DOMAIN shots' = DOMAIN shots \union {n}
    /\ DOMAIN shots = 1..(n - 1) /\ Len(shots') = n /\ shots'[n] = NewShot(r)
    /\ \A i \in DOMAIN shots :
          i \in Nat /\ i < n /\ 1..(i - 1) \subseteq DOMAIN shots /\ shots'[i] = shots[i]
    /\ publishing' \in [Processes -> {None} \union PublishingRun]
    /\ publishing'[p] # None /\ publishing'[p].id = n /\ publishing'[p].tells = n
    /\ publishing'[p].done = 0 /\ publishing'[p].stage = "next"
    /\ \A q \in Processes : q # p => publishing'[q] = publishing[q]
    /\ \A q \in Processes : q # p /\ publishing[q] # None => publishing[q].id \in DOMAIN shots

LEMMA TookRuns ==
    ASSUME NEW p, NEW r, NEW n, Took(p, r, n)
    PROVE  TookFacts(p, r, n)
<1>1. PubTyped /\ NewShot(r) \in Shot
  BY NewShotTyped DEF Took, PubInv
<1>2. shots' = Append(shots, NewShot(r))
  BY DEF Took
<1>3. /\ n \in Nat /\ n \notin DOMAIN shots /\ DOMAIN shots' = DOMAIN shots \union {n}
      /\ DOMAIN shots = 1..(n - 1) /\ Len(shots') = n /\ shots'[n] = NewShot(r)
      /\ \A i \in DOMAIN shots :
            i \in Nat /\ i < n /\ 1..(i - 1) \subseteq DOMAIN shots /\ shots'[i] = shots[i]
  <2>1. n = Len(shots) + 1
    BY DEF Took
  <2> QED
    BY <1>1, <1>2, <2>1, OldShots
<1>4. PICK new : new = [id |-> n, tells |-> n, done |-> 0, stage |-> "next", list |-> None]
  OBVIOUS
<1>5. new \in PublishingRun /\ new # None
  BY <1>3, <1>4, PublicationsAssumption DEF PublishingRun
<1>6. publishing' = [publishing EXCEPT ![p] = new] /\ p \in Processes
  BY <1>4 DEF Took
<1>7. publishing \in [Processes -> {None} \union PublishingRun]
  BY <1>1 DEF PubTyped
<1>8. /\ publishing' \in [Processes -> {None} \union PublishingRun]
      /\ publishing'[p] = new
      /\ \A q \in Processes : q # p => publishing'[q] = publishing[q]
  BY <1>5, <1>6, <1>7
<1>9. \A q \in Processes : publishing[q] # None => publishing[q].id \in DOMAIN shots
  BY DEF Took, PubInv, PlacedRun
<1> QED
  BY <1>1, <1>3, <1>4, <1>5, <1>8, <1>9 DEF TookFacts

LEMMA TookTyped ==
    ASSUME NEW p, NEW r, NEW n, Took(p, r, n)
    PROVE  PubTyped'
<1>1. TookFacts(p, r, n)
  BY TookRuns
<1>2. /\ PubTyped /\ NewShot(r) \in Shot /\ DOMAIN shots \subseteq DOMAIN shots'
      /\ publishing' \in [Processes -> {None} \union PublishingRun]
  BY <1>1 DEF TookFacts
<1>3. shots' \in Seq(Shot)
  BY <1>2 DEF Took, PubTyped
<1>4. /\ published' = published /\ histories' = histories /\ keptPolicies' = keptPolicies
      /\ indexes' = indexes /\ finished' = finished /\ second' = second /\ rewrites' = rewrites
  BY DEF Took
<1> QED
  BY <1>2, <1>3, <1>4 DEF PubTyped

LEMMA StepsCounted ==
    PubTyped => \A i \in DOMAIN shots : Len(StepsOf(i)) \in Nat
BY ShotTyped

LEMMA StepsCountedNext ==
    (PubTyped => \A i \in DOMAIN shots : Len(StepsOf(i)) \in Nat)'
BY StepsCounted, PTL

(* A run that is just beginning has done nothing.                           *)
LEMMA TookPlaced ==
    ASSUME NEW p, NEW r, NEW n, Took(p, r, n), NEW q \in Processes, publishing'[q] # None
    PROVE  /\ PlacedRun(q)' /\ WrittenRun(q)'
           /\ q # p => publishing[q] # None /\ DoneSteps(q)' = DoneSteps(q)
           /\ q = p => DoneSteps(q)' = {}
<1>1. TookFacts(p, r, n)
  BY TookRuns
<1>2. /\ PubTyped /\ DOMAIN shots' = DOMAIN shots \union {n} /\ n \notin DOMAIN shots /\ n \in Nat
      /\ \A i \in DOMAIN shots : shots'[i] = shots[i]
      /\ publishing'[p] # None /\ publishing'[p].id = n /\ publishing'[p].tells = n
      /\ publishing'[p].done = 0 /\ publishing'[p].stage = "next"
      /\ \A o \in Processes : o # p => publishing'[o] = publishing[o]
  BY <1>1 DEF TookFacts
<1>3. /\ published' = published /\ histories' = histories /\ finished' = finished
      /\ shots' = Append(shots, NewShot(r)) /\ NewShot(r) \in Shot
  BY <1>2, NewShotTyped DEF Took
<1>4. CASE q = p
  <2>1. DoneSteps(p)' = {}
    BY <1>2 DEF DoneSteps
  <2>2. Len(StepsOf(n))' \in Nat
    <3>1. n \in DOMAIN shots' /\ PubTyped'
      BY <1>2, TookTyped
    <3> QED
      BY <3>1, StepsCountedNext
  <2>3. finished \subseteq DOMAIN shots
    BY <1>2 DEF PubTyped
  <2>4. PlacedRun(p)'
    BY <1>2, <1>3, <2>2, <2>3 DEF PlacedRun
  <2>5. WrittenRun(p)'
    BY <2>1 DEF WrittenRun
  <2> QED
    BY <1>4, <2>1, <2>4, <2>5
<1>5. CASE q # p
  <2>1. publishing'[q] = publishing[q] /\ publishing[q] # None
    BY <1>2, <1>5
  <2>2. PlacedRun(q) /\ WrittenRun(q)
    BY <2>1 DEF Took, PubInv
  <2>3. PICK i : i = publishing[q].id
    OBVIOUS
  <2>4. i \in DOMAIN shots
    BY <2>2, <2>3 DEF PlacedRun
  <2>5. /\ StepsOf(i)' = StepsOf(i) /\ shots'[i] = shots[i]
        /\ \A d : OwnSecond(i, d)' => OwnSecond(i, d)
    BY <1>2, <1>3, <2>4, OldRuns
  <2>6. /\ DoneSteps(q)' = DoneSteps(q) /\ ToCome(q)' = ToCome(q)
        /\ At(q)' = At(q) /\ Step(q)' = Step(q)
    BY <2>1, <2>3, <2>5 DEF DoneSteps, ToCome, At, Step
  <2>7. PlacedRun(q)'
    BY <1>2, <1>3, <2>1, <2>2, <2>3, <2>5, <2>6 DEF PlacedRun
  <2>8. WrittenRun(q)'
    BY <1>3, <2>1, <2>2, <2>3, <2>5, <2>6 DEF WrittenRun
  <2> QED
    BY <1>5, <2>1, <2>6, <2>7, <2>8
<1> QED
  BY <1>4, <1>5

LEMMA TookApart ==
    ASSUME NEW p, NEW r, NEW n, Took(p, r, n)
    PROVE  RunsApart' /\ \A e \in Dirs : ManifestKept(e)'
<1>1. TookFacts(p, r, n)
  BY TookRuns
<1>2. /\ PubTyped /\ n \notin DOMAIN shots
      /\ \A i \in DOMAIN shots : shots'[i] = shots[i]
      /\ publishing'[p].id = n
      /\ \A q \in Processes : q # p => publishing'[q] = publishing[q]
      /\ \A q \in Processes : q # p /\ publishing[q] # None => publishing[q].id \in DOMAIN shots
  BY <1>1 DEF TookFacts
<1>3. /\ published' = published /\ histories' = histories /\ RunsApart
      /\ shots' = Append(shots, NewShot(r)) /\ NewShot(r) \in Shot
      /\ \A e \in Dirs : ManifestKept(e)
  BY <1>2, NewShotTyped DEF Took, PubInv
<1>4. RunsApart'
  BY <1>2, <1>3 DEF RunsApart
<1>5. ASSUME NEW e \in Dirs
      PROVE  ManifestKept(e)'
  <2>1. PICK m : m = published[e]["MANIFEST"]
    OBVIOUS
  <2> SUFFICES ASSUME Whole(m)
               PROVE  /\ FileStep(e, "MANIFEST") \in AllSteps(m)'
                      /\ \A q \in Processes : publishing'[q] # None /\ publishing'[q].id = m =>
                             FileStep(e, "MANIFEST") \in DoneSteps(q)'
                      /\ OwnSecond(m, e)' => histories'[e][shots'[m].at] = m
    <3>1. published'[e]["MANIFEST"] = m
      BY <1>3, <2>1
    <3> QED
      BY <3>1 DEF ManifestKept, Whole
  <2>2. m \in DOMAIN shots
    BY <1>2, <2>1, WholeTyped DEF Names
  <2>3. /\ FileStep(e, "MANIFEST") \in AllSteps(m)
        /\ \A q \in Processes : publishing[q] # None /\ publishing[q].id = m =>
               FileStep(e, "MANIFEST") \in DoneSteps(q)
        /\ OwnSecond(m, e) => histories[e][shots[m].at] = m
    BY <1>3, <2>1 DEF ManifestKept
  <2>4. /\ AllSteps(m)' = AllSteps(m)
        /\ OwnSecond(m, e)' => OwnSecond(m, e)
        /\ shots'[m] = shots[m]
    BY <1>2, <1>3, <2>2, OldRuns
  <2>5. ASSUME NEW q \in Processes, publishing'[q] # None, publishing'[q].id = m
        PROVE  FileStep(e, "MANIFEST") \in DoneSteps(q)'
    <3>1. q # p
      BY <1>2, <2>2, <2>5
    <3>2. publishing'[q] = publishing[q] /\ DoneSteps(q)' = DoneSteps(q)
      BY <1>2, <2>5, <3>1, TookPlaced
    <3> QED
      BY <2>3, <2>5, <3>2
  <2> QED
    BY <1>3, <2>3, <2>4, <2>5
<1> QED
  BY <1>4, <1>5

(* Nothing is ok before there is a page of the releases.                    *)
LEMMA OkNeedsPage ==
    ASSUME NEW r \in SnapshotRequests, SnapshotOk(r)
    PROVE  ReleasePage # None
<1>1. r.kind \in {"trust", "release", "handoff"}
  BY PublicationsAssumption
<1>2. SnapshotOk(r) => TrustOk(r) \/ ReleaseOk(r) \/ HandoffOk(r)
  BY <1>1 DEF SnapshotOk
<1>3. Ready(r.version)
  BY <1>2 DEF TrustOk, ReleaseOk, HandoffOk
<1> QED
  BY <1>3 DEF Ready, ReleasePage

LEMMA TookPage ==
    ASSUME NEW p, NEW r, NEW n, Took(p, r, n)
    PROVE  PageExplained'
<1>1. TookFacts(p, r, n)
  BY TookRuns
<1>2. /\ PubTyped /\ NewShot(r) \in Shot /\ DOMAIN shots' = DOMAIN shots \union {n}
      /\ DOMAIN shots = 1..(n - 1) /\ shots'[n] = NewShot(r)
      /\ \A i \in DOMAIN shots : 1..(i - 1) \subseteq DOMAIN shots /\ shots'[i] = shots[i]
  BY <1>1 DEF TookFacts
<1>3. /\ published' = published /\ shots' = Append(shots, NewShot(r)) /\ PageExplained
      /\ r \in SnapshotRequests
  BY DEF Took, PubInv
<1>4. \A i \in DOMAIN shots : PublishedRelease(i)' = PublishedRelease(i)
  BY <1>2, <1>3, OldRuns
<1>5. ReleasePage' = ReleasePage
  BY <1>3 DEF ReleasePage
<1>6. NewShot(r).ok => ReleasePage # None
  BY <1>3, OkNeedsPage DEF NewShot
<1>7. ReleasePage # None => \E i \in DOMAIN shots : PublishedRelease(i)'
  BY <1>3, <1>4 DEF PageExplained
<1>8. \A i \in DOMAIN shots' : shots'[i].ok => ReleasePage # None
  BY <1>2, <1>3, <1>6 DEF PageExplained
<1>9. ASSUME NEW i \in DOMAIN shots', shots'[i].ok
      PROVE  \E j \in 1..(i - 1) : PublishedRelease(j)'
  <2>1. CASE i = n
    BY <1>2, <1>7, <1>8, <1>9, <2>1
  <2>2. CASE i \in DOMAIN shots
    <3>1. \E j \in 1..(i - 1) : PublishedRelease(j)
      BY <1>2, <1>3, <1>9, <2>2 DEF PageExplained
    <3> QED
      BY <1>2, <1>4, <2>2, <3>1
  <2> QED
    BY <1>2, <2>1, <2>2
<1> QED
  BY <1>2, <1>5, <1>7, <1>8, <1>9 DEF PageExplained

(* What a hand-off that is ok was taken from.                               *)
LEMMA HandoffSeen ==
    ASSUME PubInv, NEW r \in SnapshotRequests, r.kind = "handoff"
    PROVE  /\ Seen(r).bundle \in {None, Empty} \union DOMAIN shots
           /\ Seen(r).publication \in {None, Empty} \union DOMAIN shots
           /\ SnapshotOk(r) =>
                 /\ \A m \in {Seen(r).bundle, Seen(r).publication} :
                       m # None => m # Empty /\ shots[m].ok
                 /\ Seen(r).bundle # None => shots[Seen(r).bundle].request.version = r.version
                 /\ r.lint # "clean" /\ r.override.fails =>
                       r.override.code \in ReasonCodes /\ r.lint # "forbidden"
<1>1. PubTyped /\ r.version \in Versions
  BY PublicationsAssumption DEF PubInv
<1>2. /\ Seen(r).bundle = BundleManifest(r.version)
      /\ Seen(r).publication = PublicationManifest(r.version)
  BY DEF Seen
<1>3. PICK place \in {"docs", "artifacts"} :
          /\ <<"release", place, r.version>> \in Dirs
          /\ BundleManifest(r.version) = published[<<"release", place, r.version>>]["MANIFEST"]
  BY <1>1, ManifestsRead
<1>4. ASSUME SnapshotOk(r)
      PROVE  /\ \A m \in {Seen(r).bundle, Seen(r).publication} :
                   m # None => m # Empty /\ shots[m].ok
             /\ Seen(r).bundle # None => shots[Seen(r).bundle].request.version = r.version
             /\ r.lint # "clean" /\ r.override.fails =>
                   r.override.code \in ReasonCodes /\ r.lint # "forbidden"
  <2>1. HandoffOk(r)
    BY <1>4 DEF SnapshotOk
  <2>2. \A m \in {Seen(r).bundle, Seen(r).publication} : m # None => m # Empty /\ shots[m].ok
    BY <1>2, <2>1 DEF HandoffOk, SurfaceOk, NotAgainst, ManifestOk
  <2>3. ASSUME Seen(r).bundle # None
        PROVE  shots[Seen(r).bundle].request.version = r.version
    <3>1. PICK d, m : d = <<"release", place, r.version>> /\ m = published[d]["MANIFEST"]
      OBVIOUS
    <3>2. m = Seen(r).bundle /\ Whole(m) /\ d \in Dirs
      BY <1>2, <1>3, <2>2, <2>3, <3>1 DEF Whole
    <3>3. FileStep(d, "MANIFEST") \in AllSteps(m)
      BY <3>1, <3>2 DEF PubInv, ManifestKept
    <3>4. m \in DOMAIN shots
      BY <1>1, <3>1, <3>2, WholeTyped DEF Names
    <3>5. FileStep(d, "MANIFEST").name = "MANIFEST" /\ FileStep(d, "MANIFEST").dir = d
      BY DEF FileStep
    <3>6. shots[m].request.version = r.version
      BY <1>1, <3>1, <3>3, <3>4, <3>5, StepIsPlaced
    <3> QED
      BY <3>2, <3>6
  <2>4. r.lint # "clean" /\ r.override.fails => r.override.code \in ReasonCodes
          /\ r.lint # "forbidden"
    BY <2>1 DEF HandoffOk, OverrideActive, RequestValid
  <2> QED
    BY <2>2, <2>3, <2>4
<1> QED
  BY <1>1, <1>2, <1>4, ManifestsRead

LEMMA TookSeen ==
    ASSUME NEW p, NEW r, NEW n, Took(p, r, n)
    PROVE  SeenSound'
<1>1. TookFacts(p, r, n)
  BY TookRuns
<1>2. /\ PubTyped /\ NewShot(r) \in Shot /\ DOMAIN shots' = DOMAIN shots \union {n}
      /\ DOMAIN shots = 1..(n - 1) /\ shots'[n] = NewShot(r)
      /\ \A i \in DOMAIN shots : 1..(i - 1) \subseteq DOMAIN shots /\ shots'[i] = shots[i]
  BY <1>1 DEF TookFacts
<1>3. PubInv /\ SeenSound /\ r \in SnapshotRequests
  BY DEF Took, PubInv
<1>4. NewShot(r).request = r /\ NewShot(r).seen = Seen(r) /\ NewShot(r).ok = SnapshotOk(r)
  BY DEF NewShot
<1>5. None \notin DOMAIN shots /\ Empty \notin DOMAIN shots
  BY <1>2, PublicationsAssumption, ShotTyped
<1>6. ASSUME NEW i \in DOMAIN shots', shots'[i].request.kind = "handoff"
      PROVE  /\ \A m \in {shots'[i].seen.bundle, shots'[i].seen.publication} :
                   m \in {None, Empty} \union 1..(i - 1)
             /\ shots'[i].ok =>
                  /\ \A m \in {shots'[i].seen.bundle, shots'[i].seen.publication} :
                        m # None => m # Empty /\ shots'[m].ok
                  /\ shots'[i].seen.bundle # None =>
                        shots'[shots'[i].seen.bundle].request.version = shots'[i].request.version
                  /\ shots'[i].request.lint # "clean" /\ shots'[i].request.override.fails =>
                        /\ shots'[i].request.override.code \in ReasonCodes
                        /\ shots'[i].request.lint # "forbidden"
  <2>1. PICK b, u, t :
            b = shots'[i].seen.bundle /\ u = shots'[i].seen.publication /\ t = shots'[i].request
    OBVIOUS
  <2>2. /\ b \in {None, Empty} \union 1..(i - 1) /\ u \in {None, Empty} \union 1..(i - 1)
        /\ 1..(i - 1) \subseteq DOMAIN shots
        /\ shots'[i].ok =>
             /\ \A m \in {b, u} : m # None => m # Empty /\ shots[m].ok
             /\ b # None => shots[b].request.version = t.version
             /\ t.lint # "clean" /\ t.override.fails => t.override.code \in ReasonCodes
                /\ t.lint # "forbidden"
    <3>1. CASE i = n
      <4>1. shots'[i].request = r /\ shots'[i].seen = Seen(r) /\ shots'[i].ok = SnapshotOk(r)
        BY <1>2, <1>4, <3>1
      <4>2. r.kind = "handoff" /\ b = Seen(r).bundle /\ u = Seen(r).publication /\ t = r
        BY <1>6, <2>1, <4>1
      <4> QED
        BY <1>2, <1>3, <3>1, <4>1, <4>2, HandoffSeen
    <3>2. CASE i \in DOMAIN shots
      <4>1. shots'[i] = shots[i] /\ 1..(i - 1) \subseteq DOMAIN shots
        BY <1>2, <3>2
      <4>2. /\ b = shots[i].seen.bundle /\ u = shots[i].seen.publication /\ t = shots[i].request
            /\ shots[i].request.kind = "handoff"
        BY <1>6, <2>1, <4>1
      <4>3. b \in {None, Empty} \union 1..(i - 1) /\ u \in {None, Empty} \union 1..(i - 1)
        BY <1>3, <3>2, <4>2 DEF SeenSound
      <4>4. shots[i].ok =>
               /\ \A m \in {b, u} : m # None => m # Empty /\ shots[m].ok
               /\ b # None => shots[b].request.version = t.version
               /\ t.lint # "clean" /\ t.override.fails => t.override.code \in ReasonCodes
                  /\ t.lint # "forbidden"
        BY <1>3, <3>2, <4>2, Zenon DEF SeenSound, HandoffJustified
      <4> QED
        BY <4>1, <4>3, <4>4
    <3> QED
      BY <1>2, <3>1, <3>2
  <2>3. \A m \in {b, u} : m # None /\ m # Empty => shots'[m] = shots[m]
    BY <1>2, <2>2
  <2>4. shots'[i].ok =>
             /\ \A m \in {b, u} : m # None => m # Empty /\ shots'[m].ok
             /\ b # None => shots'[b].request.version = t.version
    BY <2>2, <2>3
  <2> QED
    BY <2>1, <2>2, <2>4
<1> QED
  BY <1>6 DEF SeenSound, HandoffJustified

(* A run that begins alone has nobody in its way.                          *)
LEMMA TookAlone ==
    ASSUME NEW p, NEW r, NEW n, Took(p, r, n)
    PROVE  Undisturbed' /\ NothingAhead'
<1>1. TookFacts(p, r, n)
  BY TookRuns
<1>2. /\ PubTyped /\ NewShot(r) \in Shot
      /\ \A i \in DOMAIN shots : shots'[i] = shots[i]
      /\ Len(shots') = n
      /\ publishing'[p].id = n /\ publishing'[p].tells = n /\ publishing'[p].stage = "next"
      /\ \A q \in Processes : q # p => publishing'[q] = publishing[q]
  BY <1>1 DEF TookFacts
<1>3. /\ published' = published /\ histories' = histories /\ indexes' = indexes
      /\ shots' = Append(shots, NewShot(r)) /\ crossed' = (crossed \/ ~NobodyPublishes)
      /\ Undisturbed /\ NothingAhead
  BY DEF Took, PubInv
<1>4. \A m \in DOMAIN shots : \A d : Later(m, d) => Later(m, d)'
  BY <1>2, <1>3, OldRuns
<1>5. ASSUME ~crossed', NEW q \in Processes, publishing'[q] # None
      PROVE  LoneRun(q)'
  <2>1. q = p
    BY <1>2, <1>3, <1>5 DEF NobodyPublishes
  <2>2. DoneSteps(p)' = {}
    BY <1>5, <2>1, TookPlaced
  <2> QED
    BY <1>2, <2>1, <2>2 DEF LoneRun
<1>6. ASSUME ~crossed', NEW d \in Dirs
      PROVE  /\ AheadOfLatest(d)' /\ AheadOfPolicy(d)' /\ AheadOfIndex(d)' /\ AheadOfManifests(d)'
             /\ BackedOrLater(d)'
  <2>1. /\ AheadOfLatest(d) /\ AheadOfPolicy(d) /\ AheadOfIndex(d) /\ AheadOfManifests(d)
        /\ BackedOrLater(d)
    BY <1>3, <1>6, NothingAheadParts DEF Undisturbed, BackedOrLater
  <2>2. PICK m, u : m = published[d]["MANIFEST"] /\ u = published[d]["PUBLICATION"]
    OBVIOUS
  <2>3. /\ Whole(m) => m \in DOMAIN shots /\ shots'[m] = shots[m]
        /\ Whole(u) => u \in DOMAIN shots /\ shots'[u] = shots[u]
    BY <1>2, <2>2, WholeTyped DEF Names
  <2>4. AheadOfLatest(d)' /\ AheadOfPolicy(d)'
    BY <1>3, <2>1, <2>2, <2>3 DEF AheadOfLatest, AheadOfPolicy, Whole
  <2>5. AheadOfIndex(d)'
    BY <1>3, <1>4, <2>1, <2>2, <2>3 DEF AheadOfIndex, Whole
  <2>6. AheadOfManifests(d)'
    BY <1>3, <2>1, <2>2, <2>3 DEF AheadOfManifests, Whole
  <2>7. BackedOrLater(d)'
    BY <1>3, <1>4, <2>1, <2>2, <2>3 DEF BackedOrLater, Whole
  <2> QED
    BY <2>4, <2>5, <2>6, <2>7
<1>7. (NothingAhead <=> (~crossed => \A d \in Dirs : AheadOfLatest(d) /\ AheadOfPolicy(d)
                                       /\ AheadOfIndex(d) /\ AheadOfManifests(d)))'
  BY NothingAheadParts, PTL
<1> QED
  BY <1>5, <1>6, <1>7 DEF Undisturbed, BackedOrLater

LEMMA TookRepaired ==
    ASSUME NEW p, NEW r, NEW n, Took(p, r, n)
    PROVE  Repaired'
<1>1. PubTyped /\ NewShot(r) \in Shot
  BY TookRuns DEF TookFacts
<1>2. /\ published' = published /\ finished' = finished /\ shots' = Append(shots, NewShot(r))
      /\ crossed' = (crossed \/ ~NobodyPublishes) /\ Repaired
  BY DEF Took, PubInv
<1>3. finished \subseteq DOMAIN shots
  BY <1>1 DEF PubTyped
<1>4. \A i \in DOMAIN shots : AllSteps(i)' = AllSteps(i) /\ Again(i) \subseteq Again(i)'
  BY <1>1, <1>2, OldRuns
<1>5. ~crossed' => \A i \in finished : RunRepaired(i)
  BY <1>1, <1>2, RepairedParts
<1>6. \A i \in DOMAIN shots : RunRepaired(i) => RunRepaired(i)'
  BY <1>2, <1>4 DEF RunRepaired
<1>7. (Repaired <=> (~crossed => \A i \in finished : RunRepaired(i)))'
  BY TookTyped, RepairedPartsNext
<1> QED
  BY <1>2, <1>3, <1>5, <1>6, <1>7

LEMMA TakeKeeps ==
    ASSUME PubInv, NEW p \in Processes, Take(p)
    PROVE  PubInv'
<1>1. PICK r, n : Took(p, r, n)
  BY DEF Take, Took, NewShot, disk
<1> QED
  BY <1>1, TookTyped, TookPlaced, TookApart, TookPage, TookSeen, TookAlone,
      TookRepaired DEF PubInv

(* Nothing that concerns a run changes.                                     *)
LEMMA RestKeeps ==
    ASSUME PubInv, Still, publishing' = publishing, finished' = finished, crossed' = crossed,
           second' \in 1..LastSecond, rewrites' \in 0..MaxRewrites
    PROVE  PubInv'
<1>1. PubTyped'
  BY DEF PubInv, PubTyped, Still
<1>2. \A q \in Processes : publishing[q] # None =>
         /\ DoneSteps(q)' = DoneSteps(q) /\ LoneRun(q)' = LoneRun(q)
         /\ PlacedRun(q)' /\ WrittenRun(q)'
  <2> SUFFICES ASSUME NEW q \in Processes, publishing[q] # None
               PROVE  /\ DoneSteps(q)' = DoneSteps(q) /\ LoneRun(q)' = LoneRun(q)
                      /\ PlacedRun(q)' /\ WrittenRun(q)'
    OBVIOUS
  <2>1. PlacedRun(q) /\ WrittenRun(q)
    BY DEF PubInv
  <2>2. publishing[q].id \notin finished'
    BY <2>1 DEF PlacedRun
  <2> QED
    BY <2>1, <2>2, SameRun DEF Still
<1>3. RunsApart' /\ \A d \in Dirs : ManifestKept(d)'
  <2>1. RunsApart'
    BY DEF PubInv, RunsApart
  <2>2. ASSUME NEW d \in Dirs
        PROVE  ManifestKept(d)'
    <3>1. ManifestKept(d) /\ published' = published /\ histories' = histories /\ shots' = shots
      BY DEF PubInv, Still
    <3>2. \A m, e : AllSteps(m)' = AllSteps(m) /\ OwnSecond(m, e)' = OwnSecond(m, e)
      BY <3>1, SameShots
    <3> QED
      BY <1>2, <3>1, <3>2 DEF ManifestKept
  <2> QED
    BY <2>1, <2>2
<1>4. PageExplained' /\ SeenSound' /\ NothingAhead'
        /\ \A d \in Dirs : BackedOrLater(d)' = BackedOrLater(d)
  BY StillKeeps
<1>5. Undisturbed'
  BY <1>2, <1>4 DEF PubInv, Undisturbed, BackedOrLater
<1>6. Repaired'
  <2>1. (Repaired <=> (~crossed => \A j \in finished : RunRepaired(j)))'
    BY <1>1, RepairedPartsNext
  <2>2. /\ shots' = shots /\ published' = published
        /\ \A j : AllSteps(j)' = AllSteps(j) /\ Again(j)' = Again(j)
    BY SameShots DEF Still
  <2>3. \A j : RunRepaired(j)' = RunRepaired(j)
    BY <2>2 DEF RunRepaired
  <2> QED
    BY <2>1, <2>3, RepairedParts DEF PubInv
<1> QED
  BY <1>1, <1>2, <1>3, <1>4, <1>5, <1>6 DEF PubInv

(* The invariant holds at first, is kept, and has the property in it.      *)
LEMMA PubStarts == PublicationsInit => PubInv
<1> SUFFICES ASSUME PublicationsInit PROVE PubInv
  OBVIOUS
<1>1. /\ \A d \in Dirs, n \in Names : published[d][n] = None
      /\ published \in [Dirs -> [Names -> {None}]]
      /\ histories \in [Dirs -> [1..LastSecond -> {None}]] /\ keptPolicies = histories
      /\ indexes = [d \in Dirs |-> None]
      /\ shots = <<>> /\ finished = {} /\ second = 1 /\ rewrites = 0
      /\ \A p \in Processes : publishing[p] = None
      /\ publishing \in [Processes -> {None}]
  BY DEF PublicationsInit
<1>2. DOMAIN shots = {} /\ shots \in Seq(Shot)
  BY <1>1
<1>3. PubTyped
  BY <1>1, <1>2, PublicationsAssumption DEF PubTyped
<1>4. \A p \in Processes : publishing[p] # None => PlacedRun(p) /\ WrittenRun(p)
  BY <1>1
<1>5. RunsApart
  BY <1>1 DEF RunsApart
<1>6. \A d \in Dirs, n \in Names : ~Whole(published[d][n])
  BY <1>1 DEF Whole
<1>7. "MANIFEST" \in Names /\ "PUBLICATION" \in Names
  BY DEF Names
<1>8. \A d \in Dirs : ManifestKept(d)
  BY <1>6, <1>7 DEF ManifestKept
<1>9. PageExplained
  <2>1. ReleasePage = None
    BY <1>1, PageNamed DEF ReleasePage, ReleaseRootDir
  <2> QED
    BY <1>2, <2>1 DEF PageExplained
<1>10. SeenSound
  BY <1>2 DEF SeenSound, HandoffJustified
<1>11. Undisturbed
  BY <1>1, <1>6, <1>7 DEF Undisturbed
<1>12. NothingAhead
  BY <1>6, <1>7 DEF NothingAhead
<1>13. Repaired
  BY <1>1 DEF Repaired
<1> QED
  BY <1>3, <1>4, <1>5, <1>8, <1>9, <1>10, <1>11, <1>12, <1>13 DEF PubInv

LEMMA PubKept == PubInv /\ [PublicationsNext]_publicationVars => PubInv'
<1> SUFFICES ASSUME PubInv, [PublicationsNext]_publicationVars
             PROVE  PubInv'
  OBVIOUS
<1>1. ASSUME NEW p \in Processes, Take(p)
      PROVE  PubInv'
  BY <1>1, TakeKeeps
<1>2. ASSUME NEW p \in Processes, OpenNext(p)
      PROVE  PubInv'
  BY <1>2, OpenNextKeeps
<1>3. ASSUME NEW p \in Processes, FillOpened(p)
      PROVE  PubInv'
  BY <1>3, FillOpenedKeeps
<1>4. ASSUME NEW p \in Processes, ReadBack(p)
      PROVE  PubInv'
  BY <1>4, ReadBackKeeps
<1>5. ASSUME NEW p \in Processes, Finish(p) \/ DiePublishing(p)
      PROVE  PubInv'
  BY <1>5, LeaveKeeps
<1>6. second \in 1..LastSecond /\ rewrites \in 0..MaxRewrites
  BY DEF PubInv, PubTyped
<1>7. ASSUME EditReleaseDocuments
      PROVE  PubInv'
  <2>1. Still /\ publishing' = publishing /\ finished' = finished /\ crossed' = crossed
          /\ second' = second
    BY <1>7 DEF EditReleaseDocuments, Still, disk
  <2>2. rewrites' \in 0..MaxRewrites
    BY <1>6, <1>7, PublicationsAssumption DEF EditReleaseDocuments
  <2> QED
    BY <1>6, <2>1, <2>2, RestKeeps
<1>8. ASSUME Tick
      PROVE  PubInv'
  <2>1. Still /\ publishing' = publishing /\ finished' = finished /\ crossed' = crossed
          /\ rewrites' = rewrites
    BY <1>8 DEF Tick, Still, disk
  <2>2. second' \in 1..LastSecond
    BY <1>6, <1>8, PublicationsAssumption DEF Tick
  <2> QED
    BY <1>6, <2>1, <2>2, RestKeeps
<1>9. CASE UNCHANGED publicationVars
  <2>1. /\ Still /\ publishing' = publishing /\ finished' = finished /\ crossed' = crossed
        /\ rewrites' = rewrites /\ second' = second
    BY <1>9 DEF publicationVars, Still
  <2> QED
    BY <1>6, <2>1, RestKeeps
<1> QED
  BY <1>1, <1>2, <1>3, <1>4, <1>5, <1>7, <1>8, <1>9 DEF PublicationsNext

LEMMA PubShows == PubInv => PublicationsSound
<1> SUFFICES ASSUME PubInv PROVE PublicationsSound
  OBVIOUS
<1>1. /\ PubTyped /\ PageExplained /\ SeenSound /\ NothingAhead /\ Repaired
      /\ \A d \in Dirs : ManifestKept(d)
  BY DEF PubInv
<1>2. PublicationsTypeOK
  BY <1>1 DEF PubTyped, PublicationsTypeOK
<1>3. ManifestBacked
  BY <1>1 DEF ManifestBacked, ManifestKept, OwnSecond
<1>4. OkOnlyAfterPublishing
  <2>1. ASSUME NEW i \in DOMAIN shots, shots[i].ok
        PROVE  \E j \in 1..(i - 1) : /\ shots[j].request.kind = "release"
                                     /\ shots[j].request.place = "docs"
    BY <1>1, <2>1 DEF PageExplained, PublishedRelease
  <2>2. ASSUME NEW m \in {TrustManifest("docs"), TrustManifest("artifacts"),
          HandoffPublication("docs"),
                          HandoffPublication("artifacts")} \union {HandoffManifest(v) : v \in Versions},
               ManifestOk(m)
        PROVE  published[<<"release", "docs", "root">>]["README"] # None
    <3>1. \E d \in Dirs : m = published[d]["MANIFEST"] \/ m = published[d]["PUBLICATION"]
      BY <2>2 DEF TrustManifest, HandoffPublication, HandoffManifest, Dirs
    <3>2. m \in DOMAIN shots
      BY <1>1, <2>2, <3>1, WholeTyped DEF ManifestOk, Whole, Names
    <3> QED
      BY <1>1, <2>2, <3>2 DEF ManifestOk, PageExplained, ReleasePage
  <2> QED
    BY <2>1, <2>2 DEF OkOnlyAfterPublishing
<1> QED
  BY <1>1, <1>2, <1>3, <1>4 DEF PublicationsSound, SeenSound

(* Whatever runs crash, overlap or repeat, for any requests, versions,     *)
(* documents, seconds and processes: a manifest names a history that tells *)
(* of the same snapshot unless two were taken in one second; runs that do  *)
(* not overlap leave no manifest or publication ahead of its files, and what *)
(* they finish is repaired; nothing is ok before a release was published;  *)
(* and a hand-off that is ok was justified by what it had seen.            *)
THEOREM PublicationsAreSound == PublicationsSpec => []PublicationsSound
BY PubStarts, PubKept, PubShows, PTL DEF PublicationsSpec
=============================================================================
