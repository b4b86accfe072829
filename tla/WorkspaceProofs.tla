--------------------------- MODULE WorkspaceProofs ---------------------------
(***************************************************************************)
(* Proofs about what the tools of the governance framework keep in a       *)
(* working tree: the register of excluded tests, the triage file, the      *)
(* memory of the project, the authority over escalations, the settings     *)
(* files of the agents, the adopted baseline, the risk signal and the      *)
(* snapshots of accepted answers.                                          *)
(***************************************************************************)
EXTENDS Triage, MemoryAuthority, Escalation, HookAdapters, Adoption, RiskSignal,
        TaskChecks, SequenceTheorems, FiniteSetTheorems, NaturalsInduction, WellFoundedInduction,
        TLAPS

-----------------------------------------------------------------------------
(* The register of excluded tests.                                          *)

(* The entries a run has read are those of some register; what it answered  *)
(* follows from them, from the tests that failed and from the day.          *)
LastAnswer ==
    last # None =>
        /\ last.day \in 1..LastDay
        /\ last.failing \subseteq Tests
        /\ last.entries = {} \/ last.entries \in Registers
        /\ \/ last.code = 2 \/ last.code = Exit(last.entries, last.failing)
        /\ ~last.warned =>
              /\ last.audited => AuditOk(last.entries, last.day)
              /\ \A e \in Active(last.entries) : ~Expired(e, last.day)

ExclusionsInv ==
    /\ ExclusionsTypeOK
    /\ exclusions \in Registers \union {Unavailable}
    /\ LastAnswer

LEMMA ExitIsCode ==
    ASSUME NEW entries, NEW bad
    PROVE  Exit(entries, bad) \in {0, 1, 4, 5}
BY DEF Exit

LEMMA ExclusionsStarts == ExclusionsInit => ExclusionsInv
BY ExclusionsAssumption DEF ExclusionsInit, ExclusionsInv, ExclusionsTypeOK, LastAnswer

LEMMA RunFilteredKeeps ==
    ASSUME ExclusionsInv, NEW audited \in BOOLEAN, RunFiltered(audited)
    PROVE  ExclusionsInv'
<1> DEFINE read == IF exclusions = Unavailable THEN {} ELSE exclusions
<1>1. read = {} \/ read \in Registers
  BY DEF ExclusionsInv
<1>2. /\ last'.code = IF exclusions = Unavailable THEN 2 ELSE Exit(read, failing)
      /\ last'.warned = \/ audited /\ ~AuditOk(read, day)
                        \/ \E e \in Active(read) : Expired(e, day)
      /\ last'.entries = read /\ last'.failing = failing /\ last'.day = day
      /\ last'.audited = audited
      /\ UNCHANGED <<exclusions, failing, day, registerEdits>>
  BY DEF RunFiltered
<1>3. last'.code \in {0, 1, 2, 4, 5}
  BY <1>2, ExitIsCode
<1>4. LastAnswer'
  <2>1. last'.code = 2 \/ last'.code = Exit(last'.entries, last'.failing)
    BY <1>2
  <2>2. ~last'.warned =>
            /\ last'.audited => AuditOk(last'.entries, last'.day)
            /\ \A e \in Active(last'.entries) : ~Expired(e, last'.day)
    BY <1>2
  <2>3. last'.day \in 1..LastDay /\ last'.failing \subseteq Tests
    BY <1>2 DEF ExclusionsInv, ExclusionsTypeOK
  <2> QED
    BY <1>1, <1>2, <2>1, <2>2, <2>3 DEF LastAnswer, Exit, AuditOk, Active, Expired, Parses, Selected
<1> QED
  BY <1>2, <1>3, <1>4 DEF ExclusionsInv, ExclusionsTypeOK

LEMMA LastAnswerStays == LastAnswer /\ last' = last => LastAnswer'
BY DEF LastAnswer, Exit, AuditOk, Active, Expired, Parses, Selected, EntryErrors

LEMMA ExclusionsInductive == ExclusionsSpec => []ExclusionsInv
<1>1. ExclusionsInv /\ [ExclusionsNext]_exclusionVars => ExclusionsInv'
  <2> SUFFICES ASSUME ExclusionsInv, [ExclusionsNext]_exclusionVars PROVE ExclusionsInv'
    OBVIOUS
  <2>1. ASSUME NEW audited \in BOOLEAN, RunFiltered(audited) PROVE ExclusionsInv'
    BY <2>1, RunFilteredKeeps
  <2>2. CASE EditRegister
    BY <2>2, LastAnswerStays, ExclusionsAssumption
    DEF EditRegister, ExclusionsInv, ExclusionsTypeOK
  <2>3. CASE Midnight
    BY <2>3, LastAnswerStays, ExclusionsAssumption
    DEF Midnight, ExclusionsInv, ExclusionsTypeOK
  <2>4. CASE UNCHANGED exclusionVars
    BY <2>4, LastAnswerStays DEF exclusionVars, ExclusionsInv, ExclusionsTypeOK
  <2> QED
    BY <2>1, <2>2, <2>3, <2>4 DEF ExclusionsNext
<1> QED
  BY <1>1, ExclusionsStarts, PTL DEF ExclusionsSpec

(* In a green run every test that fails is one that an active entry takes   *)
(* out by its pattern.                                                      *)
LEMMA GreenIsHidden ==
    ASSUME ExclusionsInv, last # None, last.code = 0, NEW t \in last.failing
    PROVE  \E e \in last.entries : e.active /\ e.pattern # None /\ t \in Hides[e.pattern]
<1>1. 0 = Exit(last.entries, last.failing) /\ last.failing \subseteq Tests
  BY DEF ExclusionsInv, LastAnswer
<1>2. Parses(last.entries) /\ Selected(last.entries) \cap last.failing = {}
  BY <1>1 DEF Exit
<1>3. t \in UNION {Hides[e.pattern] : e \in Active(last.entries)}
  BY <1>1, <1>2 DEF Selected
<1> QED
  BY <1>2, <1>3 DEF Parses, Active

(* A green run of the suite that warned of nothing hides a failing test     *)
(* only behind an active exclusion in date and, when audited, complete;     *)
(* whatever was edited and however many days have passed since.             *)
THEOREM ExclusionsAreSound == ExclusionsSpec => []ExclusionsSound
<1>1. ExclusionsInv => ExclusionsSound
  <2> SUFFICES ASSUME ExclusionsInv PROVE ExclusionsSound
    OBVIOUS
  <2>1. GreenHidesByEntries
    BY GreenIsHidden DEF GreenHidesByEntries
  <2>2. SilentGreenVouched
    <3> SUFFICES ASSUME last # None, last.code = 0, ~last.warned, NEW t \in last.failing
                 PROVE  \E e \in last.entries :
                            e.pattern # None /\ t \in Hides[e.pattern] /\ Vouched(e, last.audited)
      BY DEF SilentGreenVouched
    <3>1. PICK e \in last.entries : e.active /\ e.pattern # None /\ t \in Hides[e.pattern]
      BY GreenIsHidden
    <3>2. last.day \in 1..LastDay /\ last.entries \in Registers
      BY <3>1 DEF ExclusionsInv, LastAnswer
    <3>3. e.filled \subseteq Fields /\ e.expiry \in Int \union {Unparsable}
      BY <3>2, ExclusionsAssumption
    <3>4. ~Expired(e, last.day)
      BY <3>1 DEF ExclusionsInv, LastAnswer, Active
    <3>5. e.expiry = Unparsable \/ e.expiry >= last.day
      BY <3>2, <3>3, <3>4, ExclusionsAssumption DEF Expired
    <3>6. last.audited => EntryErrors(e) = {}
      BY <3>1 DEF ExclusionsInv, LastAnswer, AuditOk
    <3>7. last.audited => e.filled = Fields /\ e.expiry # Unparsable
      BY <3>3, <3>6 DEF EntryErrors
    <3> QED
      BY <3>1, <3>5, <3>7 DEF Vouched
  <2> QED
    BY <2>1, <2>2 DEF ExclusionsSound, ExclusionsInv
<1> QED
  BY <1>1, ExclusionsInductive, PTL
-----------------------------------------------------------------------------
(* The triage file.                                                         *)

(* Of finitely many places one is the last. *)
LEMMA LastPlace ==
    ASSUME NEW n \in Nat, NEW S \in SUBSET (1..n), S # {}
    PROVE  \E i \in S : \A j \in S : j <= i
<1> DEFINE Gaps == {n - x : x \in S}
<1>0. \A x \in S : x \in Nat /\ n - x \in Nat
  OBVIOUS
<1>1. Gaps \subseteq Nat /\ Gaps # {}
  BY <1>0
<1>2. PICK g \in Gaps : \A h \in Gaps : ~(<<h, g>> \in OpToRel(<, Nat))
  <2> HIDE DEF Gaps
  <2> QED
    BY <1>1, WFMin, NatLessThanWellFounded
<1>3. PICK i \in S : g = n - i
  OBVIOUS
<1>4. \A j \in S : j <= i
  <2> SUFFICES ASSUME NEW j \in S, ~(j <= i) PROVE FALSE
    OBVIOUS
  <2>1. n - j \in Gaps /\ n - j \in Nat /\ g \in Nat /\ n - j < g
    BY <1>3
  <2>2. <<n - j, g>> \in OpToRel(<, Nat)
    BY <2>1 DEF OpToRel
  <2> QED
    BY <1>2, <2>1, <2>2
<1> QED
  BY <1>4

(* The violations of a list and of the file it is merged with. *)
Violated(list) == list \in Seq(Violations)

LEMMA ConvertedIs ==
    ASSUME NEW r \in Reports
    PROVE  /\ Converted(r) \in Seq(Violations)
           /\ r.format # "triage" => \A i \in DOMAIN Converted(r) : Converted(r)[i].type = None
<1>1. r.findings \in Seq(Findings)
  BY TriageAssumption
<1> DEFINE n == Len(r.findings)
<1>2. /\ n \in Nat /\ DOMAIN r.findings = 1..n
      /\ \A i \in 1..n : r.findings[i] \in Findings
  BY <1>1
<1> HIDE DEF n
<1>3. /\ FromValidator(r) \in [1..n -> Violations]
      /\ FromAuditor(r) \in [1..n -> Violations]
      /\ FromTriage(r) \in [1..n -> Violations]
  <2> DEFINE Severity(f) == IF f.error THEN "CRITICAL" ELSE "WARNING"
             Place(f) == IF f.error THEN f.rule ELSE None
  <2>1. \A i \in 1..n : LET f == r.findings[i]
                        IN  /\ f.rule \in STRING /\ f.place \in STRING \union {None}
                            /\ f.type \in Classes \union {None}
    BY <1>2 DEF Findings
  <2>3. \A f : Severity(f) \in {"CRITICAL", "WARNING"}
    OBVIOUS
  <2>4. \A i \in 1..n : Place(r.findings[i]) \in STRING \union {None}
    BY <2>1
  <2> HIDE DEF Severity, Place
  <2>5. \A f : \A rule \in STRING, place \in STRING \union {None}, type \in Classes \union {None} :
            Violation(rule, place, Severity(f), type) \in Violations
    BY <2>3 DEF Violation, Violations
  <2>6. FromValidator(r) = [i \in 1..n |-> Violation(r.findings[i].rule, r.findings[i].place,
                                                     Severity(r.findings[i]), None)]
    BY <1>2, Zenon DEF FromValidator, Severity
  <2>7. FromAuditor(r) = [i \in 1..n |-> Violation(r.findings[i].rule, Place(r.findings[i]),
                                                   Severity(r.findings[i]), None)]
    BY <1>2, Zenon DEF FromAuditor, Severity, Place
  <2>8. FromTriage(r) = [i \in 1..n |-> Violation(r.findings[i].rule, r.findings[i].place,
                                            Severity(r.findings[i]), r.findings[i].type)]
    BY <1>2, Zenon DEF FromTriage, Severity
  <2>9. \A i \in 1..n : LET f == r.findings[i]
                        IN  /\ Violation(f.rule, f.place, Severity(f), None) \in Violations
                            /\ Violation(f.rule, Place(f), Severity(f), None) \in Violations
                            /\ Violation(f.rule, f.place, Severity(f), f.type) \in Violations
    BY <2>1, <2>4, <2>5
  <2> QED
    BY <2>6, <2>7, <2>8, <2>9
<1>4. Converted(r) \in [1..n -> Violations]
  BY <1>3 DEF Converted
<1>5. Converted(r) \in Seq(Violations)
  BY <1>2, <1>4, SeqDef
<1>6. r.format # "triage" => \A i \in DOMAIN Converted(r) : Converted(r)[i].type = None
  <2>1. \A i \in DOMAIN FromValidator(r) : FromValidator(r)[i].type = None
    BY DEF FromValidator, Violation
  <2>2. \A i \in DOMAIN FromAuditor(r) : FromAuditor(r)[i].type = None
    <3>1. \A rule, place, severity : Violation(rule, place, severity, None).type = None
      BY DEF Violation
    <3> QED
      BY <3>1, Zenon DEF FromAuditor
  <2>3. r.format \in {"contract_validator", "governance_auditor", "triage"}
    BY TriageAssumption
  <2>4. r.format # "triage" => Converted(r) \in {FromValidator(r), FromAuditor(r)}
    BY <2>3 DEF Converted
  <2> QED
    BY <2>1, <2>2, <2>4
<1> QED
  BY <1>5, <1>6

(* A review is one of the old file, for the same rule and place, or there   *)
(* is none and the violation keeps what the report gave it.                 *)
LEMMA ReviewIs ==
    ASSUME NEW old \in Seq(Violations), NEW v
    PROVE  \/ /\ ReviewOf(old, v) = v.type
              /\ \A i \in DOMAIN old : old[i].type = None \/ KeyOf(old[i]) # KeyOf(v)
           \/ \E i \in DOMAIN old : /\ old[i].type # None /\ KeyOf(old[i]) = KeyOf(v)
                                    /\ ReviewOf(old, v) = old[i].type
<1> DEFINE same == {i \in DOMAIN old : old[i].type # None /\ Fingerprint(old[i]) = Fingerprint(v)}
<1>1. Len(old) \in Nat /\ same \subseteq 1..Len(old) /\ same \subseteq DOMAIN old
  OBVIOUS
<1>2. ReviewOf(old, v) = IF same = {} THEN v.type
                         ELSE old[CHOOSE i \in same : \A j \in same : j <= i].type
  BY DEF ReviewOf
<1>3. \A i \in DOMAIN old : i \in same <=> old[i].type # None /\ KeyOf(old[i]) = KeyOf(v)
  BY DEF Fingerprint, KeyOf
<1> HIDE DEF same
<1>4. CASE same = {}
  BY <1>2, <1>3, <1>4
<1>5. CASE same # {}
  <2>1. \E i \in same : \A j \in same : j <= i
    BY <1>1, <1>5, LastPlace
  <2>2. PICK i \in same : i = CHOOSE k \in same : \A j \in same : j <= k
    BY <2>1, Zenon
  <2>3. ReviewOf(old, v) = old[i].type
    BY <1>2, <1>5, <2>2, Zenon
  <2>4. i \in DOMAIN old
    BY <1>1, Zenon
  <2> QED
    BY <1>3, <2>2, <2>3, <2>4
<1> QED
  BY <1>4, <1>5

LEMMA ReviewIsTyped ==
    ASSUME NEW old \in Seq(Violations), NEW v \in Violations
    PROVE  ReviewOf(old, v) \in Classes \union {None}
<1>1. \A i \in DOMAIN old : old[i] \in Violations
  OBVIOUS
<1>2. \A w \in Violations : w.type \in Classes \union {None}
  BY DEF Violations
<1> QED
  BY <1>1, <1>2, ReviewIs, Zenon

(* Merging changes nothing of the new list but its reviews. *)
LEMMA MergedIs ==
    ASSUME NEW old \in Seq(Violations), NEW new \in Seq(Violations)
    PROVE  /\ Merged(old, new) \in Seq(Violations)
           /\ DOMAIN Merged(old, new) = DOMAIN new
           /\ \A i \in DOMAIN new : /\ KeyOf(Merged(old, new)[i]) = KeyOf(new[i])
                                    /\ Merged(old, new)[i].type = ReviewOf(old, new[i])
<1> DEFINE n == Len(new)
<1>1. n \in Nat /\ DOMAIN new = 1..n /\ \A i \in 1..n : new[i] \in Violations
  OBVIOUS
<1>2. Merged(old, new) = [i \in 1..n |-> [new[i] EXCEPT !.type = ReviewOf(old, new[i])]]
  BY <1>1 DEF Merged
<1> HIDE DEF n
<1>3. ASSUME NEW i \in 1..n
      PROVE  LET e == [new[i] EXCEPT !.type = ReviewOf(old, new[i])]
             IN  e \in Violations /\ KeyOf(e) = KeyOf(new[i]) /\ e.type = ReviewOf(old, new[i])
  <2>1. new[i] \in Violations /\ ReviewOf(old, new[i]) \in Classes \union {None}
    BY <1>1, ReviewIsTyped
  <2> QED
    BY <2>1 DEF Violations, KeyOf
<1>4. Merged(old, new) \in [1..n -> Violations]
  BY <1>2, <1>3
<1> QED
  BY <1>1, <1>2, <1>3, <1>4, SeqDef, ZenonT(60)

(* Every review in a list was given for that rule and place; and of some    *)
(* rules and places, some violation carries a review.                       *)
Justified(list, by) ==
    \A i \in DOMAIN list : list[i].type = None \/ <<KeyOf(list[i]), list[i].type>> \in by
Carries(list, keys) ==
    \A k \in keys : \E i \in DOMAIN list : KeyOf(list[i]) = k /\ list[i].type # None

(* What stands of reviews, as long as no run overlapped with anything.      *)
StandingKept ==
    /\ \A p, q \in Processes : triaging[p] # None /\ triaging[q] # None => p = q
    /\ file = None => standing = {}
    /\ file \in Seq(Violations) => Carries(file, standing)
    /\ \A p \in Processes : triaging[p] # None =>
          Carries(triaging[p].out, standing \cap KeysOf(triaging[p].out))

Runs == [step : {"open", "fill"}, out : Seq(Violations)]

TriageInv ==
    /\ TriageTypeOK
    /\ triaging \in [Processes -> Runs \union {None}]
    /\ overlapped \in BOOLEAN
    /\ file \in Seq(Violations) => Justified(file, given)
    /\ \A p \in Processes : triaging[p] # None => Justified(triaging[p].out, given)
    /\ ~overlapped => StandingKept

LEMMA JustifiedStays ==
    ASSUME NEW list, NEW by, NEW more, Justified(list, by), by \subseteq more
    PROVE  Justified(list, more)
BY DEF Justified

LEMMA JustifiedMerge ==
    ASSUME NEW old \in Seq(Violations), NEW new \in Seq(Violations), NEW by,
           Justified(old, by), Justified(new, by)
    PROVE  Justified(Merged(old, new), by)
<1> SUFFICES ASSUME NEW i \in DOMAIN new, ReviewOf(old, new[i]) # None
             PROVE  <<KeyOf(new[i]), ReviewOf(old, new[i])>> \in by
  BY MergedIs DEF Justified
<1>1. CASE ReviewOf(old, new[i]) = new[i].type
  BY <1>1 DEF Justified
<1>2. CASE ReviewOf(old, new[i]) # new[i].type
  BY <1>2, ReviewIs DEF Justified
<1> QED
  BY <1>1, <1>2

(* A review stays with its rule and place when the new list has them.       *)
LEMMA CarriesMerge ==
    ASSUME NEW old \in Seq(Violations), NEW new \in Seq(Violations), NEW keys,
           Carries(old, keys)
    PROVE  Carries(Merged(old, new), keys \cap KeysOf(Merged(old, new)))
<1> DEFINE merged == Merged(old, new)
<1>1. /\ DOMAIN merged = DOMAIN new
      /\ \A i \in DOMAIN new : /\ KeyOf(merged[i]) = KeyOf(new[i])
                               /\ merged[i].type = ReviewOf(old, new[i])
  BY MergedIs, Zenon
<1> HIDE DEF merged
<1>2. ASSUME NEW k \in keys, NEW i \in DOMAIN merged, KeyOf(merged[i]) = k
      PROVE  merged[i].type # None
  <2>1. PICK j \in DOMAIN old : KeyOf(old[j]) = k /\ old[j].type # None
    BY DEF Carries
  <2>2. KeyOf(old[j]) = KeyOf(new[i])
    BY <1>1, <1>2, <2>1
  <2> QED
    BY <1>1, <2>1, <2>2, ReviewIs
<1> QED
  BY <1>2 DEF Carries, KeysOf, Range1, merged

LEMMA TriageStarts == TriageInit => TriageInv
<1> SUFFICES ASSUME TriageInit PROVE TriageInv
  OBVIOUS
<1>1. file = None /\ file \notin Seq(Violations) /\ standing = {}
      /\ \A p \in Processes : triaging[p] = None
  BY TriageAssumption DEF TriageInit
<1>2. TriageTypeOK
  BY <1>1, TriageAssumption DEF TriageInit, TriageTypeOK
<1>3. StandingKept
  BY <1>1 DEF StandingKept
<1> QED
  BY <1>1, <1>2, <1>3 DEF TriageInit, TriageInv

LEMMA ListIsNoMark ==
    ASSUME NEW list \in Seq(Violations)
    PROVE  list # None /\ list # Torn
BY TriageAssumption

LEMMA GenerateKeeps ==
    ASSUME TriageInv, NEW p \in Processes, Generate(p)
    PROVE  TriageInv'
<1>1. PICK r \in Reports :
         /\ triaging' = IF file = Torn THEN triaging
                        ELSE [triaging EXCEPT ![p] =
                              [step |-> "open",
                               out |-> IF file = None THEN Converted(r)
                                       ELSE Merged(file, Converted(r))]]
         /\ given' = given \union {<<KeyOf(v), v.type>> :
                                      v \in {w \in Range1(Converted(r)) : w.type # None}}
  BY DEF Generate
<1> DEFINE new == Converted(r)
           out == IF file = None THEN new ELSE Merged(file, new)
<1>2. /\ triaging[p] = None /\ reports' = reports + 1 /\ reports < MaxTriages
      /\ overlapped' = (overlapped \/ Others(p)) /\ UNCHANGED <<file, standing, reviews>>
  BY DEF Generate
<1>3. new \in Seq(Violations)
  BY ConvertedIs
<1>4. Justified(new, given')
  BY <1>1 DEF Justified, Range1
<1> HIDE DEF new
<1>5. given \subseteq given'
  BY <1>1
<1>6. file \in Seq(Violations) => Justified(file, given')
  BY <1>5, JustifiedStays DEF TriageInv
<1>7. file # Torn => file = None \/ file \in Seq(Violations)
  BY DEF TriageInv, TriageTypeOK
<1>8. file # Torn => out \in Seq(Violations) /\ Justified(out, given')
  BY <1>3, <1>4, <1>6, <1>7, MergedIs, JustifiedMerge
<1>9. ~overlapped' /\ file # Torn => Carries(out, standing \cap KeysOf(out))
  <2> SUFFICES ASSUME ~overlapped, file # Torn PROVE Carries(out, standing \cap KeysOf(out))
    BY <1>2
  <2>1. CASE file = None
    BY <2>1 DEF TriageInv, StandingKept, Carries
  <2>2. CASE file # None
    BY <1>3, <1>7, <2>2, CarriesMerge DEF TriageInv, StandingKept
  <2> QED
    BY <2>1, <2>2
<1>10. ~overlapped' => StandingKept'
  <2> SUFFICES ASSUME ~overlapped' PROVE StandingKept'
    OBVIOUS
  <2>1. StandingKept /\ \A q \in Processes \ {p} : triaging[q] = None
    BY <1>2 DEF TriageInv, Others
  <2> HIDE DEF out
  <2>2. \A q \in Processes : triaging'[q] # None =>
            q = p /\ file # Torn /\ triaging'[q] = [step |-> "open", out |-> out]
    BY <1>1, <1>2, <2>1 DEF TriageInv, out, new
  <2> QED
    BY <1>2, <1>9, <2>1, <2>2 DEF StandingKept, Carries, KeysOf, Range1, KeyOf
<1> HIDE DEF out
<1>11. \A q \in Processes :
           \/ triaging'[q] = triaging[q]
           \/ file # Torn /\ triaging'[q] = [step |-> "open", out |-> out]
  BY <1>1 DEF TriageInv, out, new
<1>12. triaging' \in [Processes -> Runs \union {None}]
  BY <1>1, <1>8 DEF TriageInv, Runs, out, new
<1>13. \A q \in Processes : triaging'[q] # None => Justified(triaging'[q].out, given')
  BY <1>5, <1>8, <1>11, JustifiedStays DEF TriageInv
<1>14. TriageTypeOK'
  BY <1>2, <1>12, TriageAssumption DEF TriageInv, TriageTypeOK, Runs
<1> QED
  BY <1>2, <1>6, <1>10, <1>12, <1>13, <1>14 DEF TriageInv

LEMMA OpenKeeps ==
    ASSUME TriageInv, NEW p \in Processes, Open(p)
    PROVE  TriageInv'
<1>1. /\ file' = Torn /\ triaging' = [triaging EXCEPT ![p].step = "fill"] /\ triaging[p] # None
      /\ UNCHANGED <<given, standing, overlapped, reports, reviews>>
  BY DEF Open
<1>2. triaging[p] \in Runs /\ [triaging[p] EXCEPT !.step = "fill"] \in Runs
  BY <1>1 DEF TriageInv, Runs
<1>3. triaging' \in [Processes -> Runs \union {None}]
  BY <1>1, <1>2 DEF TriageInv
<1>4. \A q \in Processes : triaging'[q] # None => triaging[q] # None /\ triaging'[q].out = triaging[q].out
  BY <1>1, <1>2 DEF TriageInv, Runs
<1>6. file' \notin Seq(Violations)
  BY <1>1, TriageAssumption
<1>7. ~overlapped' => StandingKept'
  BY <1>1, <1>3, <1>4, <1>6, TriageAssumption DEF TriageInv, StandingKept
<1>8. TriageTypeOK'
  BY <1>1, <1>3 DEF TriageInv, TriageTypeOK, Runs
<1> QED
  BY <1>1, <1>3, <1>4, <1>6, <1>7, <1>8 DEF TriageInv

LEMMA FillKeeps ==
    ASSUME TriageInv, NEW p \in Processes, Fill(p)
    PROVE  TriageInv'
<1>1. /\ file' = triaging[p].out /\ triaging' = [triaging EXCEPT ![p] = None] /\ triaging[p] # None
      /\ standing' = standing \cap KeysOf(triaging[p].out)
      /\ UNCHANGED <<given, overlapped, reports, reviews>>
  BY DEF Fill
<1>2. file' \in Seq(Violations) /\ file' # None /\ Justified(file', given')
  BY <1>1, ListIsNoMark DEF TriageInv, Runs
<1>3. triaging' \in [Processes -> Runs \union {None}]
  BY <1>1 DEF TriageInv
<1>4. \A q \in Processes : triaging'[q] # None => q # p /\ triaging'[q] = triaging[q]
  BY <1>1 DEF TriageInv
<1>5. ~overlapped' => StandingKept'
  <2> SUFFICES ASSUME ~overlapped PROVE StandingKept'
    BY <1>1
  <2>1. Carries(file', standing')
    BY <1>1 DEF TriageInv, StandingKept
  <2>2. \A q \in Processes : triaging'[q] = None
    BY <1>1, <1>4 DEF TriageInv, StandingKept
  <2> QED
    BY <1>2, <2>1, <2>2 DEF StandingKept
<1>6. TriageTypeOK'
  BY <1>1, <1>2, <1>3 DEF TriageInv, TriageTypeOK, Runs
<1> QED
  BY <1>1, <1>2, <1>3, <1>4, <1>5, <1>6 DEF TriageInv

LEMMA DieTriagingKeeps ==
    ASSUME TriageInv, NEW p \in Processes, DieTriaging(p)
    PROVE  TriageInv'
<1>1. /\ triaging' = [triaging EXCEPT ![p] = None]
      /\ UNCHANGED <<file, given, standing, overlapped, reports, reviews>>
  BY DEF DieTriaging
<1>2. triaging' \in [Processes -> Runs \union {None}]
  BY <1>1 DEF TriageInv
<1>3. \A q \in Processes : triaging'[q] # None => triaging'[q] = triaging[q]
  BY <1>1 DEF TriageInv
<1>4. ~overlapped' => StandingKept'
  BY <1>1, <1>3 DEF TriageInv, StandingKept
<1>5. TriageTypeOK'
  BY <1>1, <1>2 DEF TriageInv, TriageTypeOK, Runs
<1> QED
  BY <1>1, <1>2, <1>3, <1>4, <1>5 DEF TriageInv

LEMMA ReviewKeeps == TriageInv /\ Review => TriageInv'
<1> SUFFICES ASSUME TriageInv, Review PROVE TriageInv'
  OBVIOUS
<1>1. PICK i \in DOMAIN file, type \in Classes :
         /\ file' = [file EXCEPT ![i].type = type]
         /\ given' = given \union {<<KeyOf(file[i]), type>>}
         /\ standing' = standing \union {KeyOf(file[i])}
  BY DEF Review
<1>2. /\ file \in Seq(Violations) /\ file # None /\ UNCHANGED <<triaging, reports>>
      /\ reviews < MaxReviews /\ reviews' = reviews + 1
      /\ overlapped' = (overlapped \/ \E p \in Processes : triaging[p] # None)
  BY DEF Review, TriageInv, TriageTypeOK
<1>3. \A n \in DOMAIN file : file[n] \in Violations
  BY <1>2
<1>4. /\ [file[i] EXCEPT !.type = type] \in Violations
      /\ KeyOf([file[i] EXCEPT !.type = type]) = KeyOf(file[i])
      /\ [file[i] EXCEPT !.type = type].type = type
  BY <1>3 DEF Violations, KeyOf
<1>5. /\ file' \in Seq(Violations) /\ DOMAIN file' = DOMAIN file
      /\ \A n \in DOMAIN file : n # i => file'[n] = file[n]
      /\ file'[i] = [file[i] EXCEPT !.type = type]
  <2>1. file' = [file EXCEPT ![i] = [file[i] EXCEPT !.type = type]]
    BY <1>1
  <2> QED
    BY <1>2, <1>4, <2>1
<1>6. Justified(file', given')
  BY <1>1, <1>2, <1>4, <1>5 DEF TriageInv, Justified
<1>7. type # None
  BY TriageAssumption
<1>8. ~overlapped' => StandingKept'
  <2> SUFFICES ASSUME ~overlapped' PROVE StandingKept'
    OBVIOUS
  <2>1. StandingKept /\ \A p \in Processes : triaging'[p] = None
    BY <1>2 DEF TriageInv
  <2>2. Carries(file', standing')
    <3> SUFFICES ASSUME NEW k \in standing'
                 PROVE  \E n \in DOMAIN file' : KeyOf(file'[n]) = k /\ file'[n].type # None
      BY DEF Carries
    <3>1. CASE k = KeyOf(file[i])
      BY <1>4, <1>5, <1>7, <3>1
    <3>2. CASE k # KeyOf(file[i])
      <4>1. k \in standing
        BY <1>1, <3>2
      <4>2. PICK n \in DOMAIN file : KeyOf(file[n]) = k /\ file[n].type # None
        BY <1>2, <2>1, <4>1 DEF StandingKept, Carries
      <4> QED
        BY <1>5, <3>2, <4>2
    <3> QED
      BY <3>1, <3>2
  <2>3. file' # None
    BY <1>5, ListIsNoMark
  <2> QED
    BY <2>1, <2>2, <2>3 DEF StandingKept
<1>9. \A p \in Processes : triaging'[p] # None => Justified(triaging'[p].out, given')
  BY <1>1, <1>2, JustifiedStays DEF TriageInv
<1>10. TriageTypeOK'
  BY <1>2, <1>5, TriageAssumption DEF TriageInv, TriageTypeOK
<1> QED
  BY <1>2, <1>6, <1>8, <1>9, <1>10 DEF TriageInv

LEMMA RemoveKeeps == TriageInv /\ Remove => TriageInv'
<1> SUFFICES ASSUME TriageInv, Remove PROVE TriageInv'
  OBVIOUS
<1>1. /\ file' = None /\ standing' = {}
      /\ UNCHANGED <<triaging, given, overlapped, reports, reviews>>
  BY DEF Remove
<1>2. file' \notin Seq(Violations)
  BY <1>1, TriageAssumption
<1>3. ~overlapped' => StandingKept'
  BY <1>1, <1>2 DEF TriageInv, StandingKept, Carries
<1>4. TriageTypeOK'
  BY <1>1 DEF TriageInv, TriageTypeOK
<1> QED
  BY <1>1, <1>2, <1>3, <1>4 DEF TriageInv

LEMMA TriageInductive == TriageSpec => []TriageInv
<1>1. TriageInv /\ [TriageNext]_triageVars => TriageInv'
  <2>1. ASSUME TriageInv, UNCHANGED triageVars PROVE TriageInv'
    BY <2>1 DEF triageVars, TriageInv, TriageTypeOK, StandingKept, Carries, KeysOf, Range1, KeyOf
  <2> QED
    BY <2>1, GenerateKeeps, OpenKeeps, FillKeeps, DieTriagingKeeps, ReviewKeeps, RemoveKeeps
    DEF TriageNext
<1> QED
  BY <1>1, TriageStarts, PTL DEF TriageSpec

(* Merged a second time with its own result a list without reviews stays    *)
(* what the first time made of it: a violation takes its review from the    *)
(* last one of its rule and place, and those all took theirs from the same. *)
LEMMA ReviewByKey ==
    ASSUME NEW old \in Seq(Violations), NEW v, NEW w,
           KeyOf(v) = KeyOf(w), v.type = w.type
    PROVE  ReviewOf(old, v) = ReviewOf(old, w)
<1>1. Fingerprint(v) = Fingerprint(w)
  BY DEF KeyOf, Fingerprint
<1> QED
  BY <1>1 DEF ReviewOf

LEMMA MergedAgain ==
    ASSUME NEW old \in Seq(Violations), NEW new \in Seq(Violations),
           \A i \in DOMAIN new : new[i].type = None
    PROVE  Merged(Merged(old, new), new) = Merged(old, new)
<1> DEFINE once == Merged(old, new)
<1>1. /\ once \in Seq(Violations) /\ DOMAIN once = DOMAIN new
      /\ \A i \in DOMAIN new : /\ KeyOf(once[i]) = KeyOf(new[i])
                               /\ once[i].type = ReviewOf(old, new[i])
  BY MergedIs, Zenon
<1>2. Merged(once, new) = [i \in DOMAIN new |-> [new[i] EXCEPT !.type = ReviewOf(once, new[i])]]
  BY DEF Merged
<1>3. once = [i \in DOMAIN new |-> [new[i] EXCEPT !.type = ReviewOf(old, new[i])]]
  BY DEF Merged
<1> HIDE DEF once
<1>4. ASSUME NEW i \in DOMAIN new
      PROVE  ReviewOf(once, new[i]) = ReviewOf(old, new[i])
  <2>1. CASE \A j \in DOMAIN once : once[j].type = None \/ KeyOf(once[j]) # KeyOf(new[i])
    <3>1. ReviewOf(old, new[i]) = None
      BY <1>1, <2>1
    <3>2. ReviewOf(once, new[i]) = new[i].type
      BY <1>1, <2>1, ReviewIs
    <3> QED
      BY <3>1, <3>2
  <2>2. CASE \E j \in DOMAIN once : once[j].type # None /\ KeyOf(once[j]) = KeyOf(new[i])
    <3>1. \/ \E j \in DOMAIN once : /\ once[j].type # None /\ KeyOf(once[j]) = KeyOf(new[i])
                                    /\ ReviewOf(once, new[i]) = once[j].type
          \/ \A j \in DOMAIN once : once[j].type = None \/ KeyOf(once[j]) # KeyOf(new[i])
      BY <1>1, ReviewIs, SMTT(30)
    <3>2. PICK j \in DOMAIN once : /\ once[j].type # None /\ KeyOf(once[j]) = KeyOf(new[i])
                                   /\ ReviewOf(once, new[i]) = once[j].type
      BY <2>2, <3>1
    <3>3. KeyOf(new[j]) = KeyOf(new[i]) /\ new[j].type = new[i].type
      BY <1>1, <3>2
    <3>4. ReviewOf(old, new[j]) = ReviewOf(old, new[i])
      BY <3>3, ReviewByKey
    <3> QED
      BY <1>1, <3>2, <3>4
  <2> QED
    BY <2>1, <2>2
<1> QED
  BY <1>2, <1>3, <1>4, Zenon DEF once

(* Whatever reports, crashes and reviews follow each other: a critical      *)
(* violation that is unreviewed or of one of the three types passes the     *)
(* gate only when a person called one of its rule at its place a false      *)
(* positive, no review is invented, none is dropped while its finding is    *)
(* reported and no run overlaps, and generating twice is generating once.   *)
THEOREM TriageIsSound == TriageSpec => []TriageSound
<1>1. TriageInv => TriageSound
  <2> SUFFICES ASSUME TriageInv PROVE TriageSound
    OBVIOUS
  <2>1. file \in {None, Torn} \/ (file \in Seq(Violations) /\ file # None /\ file # Torn)
    BY ListIsNoMark DEF TriageInv, TriageTypeOK
  <2>2. NothingInvented
    BY <2>1, Zenon DEF NothingInvented, Shown, Range1, TriageInv, Justified
  <2>3. PassedOnlyReviewed
    <3> SUFFICES ASSUME Evaluate(file) = 0, NEW v \in Shown, v.severity = "CRITICAL",
                        v.type \in {None, "TP", "FP", "FN"}
                 PROVE  <<KeyOf(v), "FP">> \in given
      BY DEF PassedOnlyReviewed
    <3>1. v \in Range1(file) /\ file \notin {None, Torn}
      BY DEF Shown
    <3>2. ~Fails(v)
      BY <3>1 DEF Evaluate
    <3>3. v.type # None /\ v.type = "FP"
      BY <3>2 DEF Fails
    <3>4. <<KeyOf(v), v.type>> \in given
      BY <2>2, <3>3 DEF NothingInvented
    <3> QED
      BY <3>3, <3>4
  <2>4. ReviewsKept
    <3> SUFFICES ASSUME ~overlapped, file \notin {None, Torn}, NEW k \in standing
                 PROVE  \E v \in Shown : KeyOf(v) = k /\ v.type # None
      BY DEF ReviewsKept
    <3>1. PICK i \in DOMAIN file : KeyOf(file[i]) = k /\ file[i].type # None
      BY <2>1 DEF TriageInv, StandingKept, Carries
    <3> QED
      BY <3>1 DEF Shown, Range1
  <2>5. Repeatable
    <3> SUFFICES ASSUME file \in Seq(Violations), NEW r \in Reports, r.format # "triage"
                 PROVE  Merged(Merged(file, Converted(r)), Converted(r))
                            = Merged(file, Converted(r))
      BY <2>1 DEF Repeatable
    <3> QED
      BY ConvertedIs, MergedAgain
  <2> QED
    BY <2>2, <2>3, <2>4, <2>5 DEF TriageSound, TriageInv
<1> QED
  BY <1>1, TriageInductive, PTL
-----------------------------------------------------------------------------
(* The memory of the project: the daily files, the promotion gate and the   *)
(* summaries of sessions.                                                   *)

(* What memory_record writes opens a block, has the kind the guard asks     *)
(* for, names its writer and a version, and is bound to a session.          *)
IsRecorded(e) == e.opens /\ e.kind = "session-derived" /\ e.writer /\ e.version /\ e.session
Recordings == [entry : {e \in Entries : IsRecorded(e)}, day : Days, step : {"create", "append"}]

(* The daily files: what is to be appended goes to a file that is there,    *)
(* finished runs left a file, and only hands write anything else.           *)
DailyFilesOK ==
    /\ daily \in [Days -> Seq(Entries) \union {None}]
    /\ recording \in [Processes -> Recordings \union {None}]
    /\ \A p \in Processes : (recording[p] # None /\ recording[p].step = "append") =>
                                daily[recording[p].day] # None
    /\ \A w \in written : w.day \in Days /\ daily[w.day] # None
    /\ \A d \in Days \ touched : daily[d] # None =>
           \A i \in DOMAIN daily[d] : IsRecorded(daily[d][i])
    /\ EntriesKept

(* What the gate found when it looked, first through the guard and then     *)
(* itself.                                                                  *)
SurveyGrounded ==
    survey # None /\ survey.promoted => \E i \in DOMAIN survey.long : Promoted(survey.long[i])
PromotionGrounded ==
    promotion # None /\ promotion.open =>
        /\ \E i \in DOMAIN promotion.first : Promoted(promotion.first[i])
        /\ \A i \in DOMAIN promotion.second :
              Claimed(promotion.second[i]) => Marked(promotion.second[i])
        /\ promotion.closeout # None =>
              /\ promotion.closeout.boundary \in {None, "runtime_verified"}
              /\ ~promotion.closeout.degraded

(* Every summary has a time of its own, and none lies ahead. *)
SummariesOK ==
    /\ \A s \in summaries : s.closed \in 1..memoryEdits
    /\ \A s, t \in summaries : s.closed = t.closed => s = t

MemoryInv ==
    /\ MemoryTypeOK /\ DailyFilesOK /\ SurveyGrounded /\ PromotionGrounded /\ SummariesOK

(* The guards on a file.                                                    *)
LEMMA AloneInBlock ==
    ASSUME NEW list \in Seq(Entries), \A j \in DOMAIN list : IsRecorded(list[j]),
           NEW i \in DOMAIN list
    PROVE  Block(list, i) = {i}
<1>1. i \in 1..Len(list) /\ Len(list) \in Nat /\ \A k \in 1..Len(list) : list[k].opens
  BY DEF IsRecorded
<1>2. i \in Block(list, i)
  BY <1>1 DEF Block
<1>3. \A j \in Block(list, i) : j = i
  <2> SUFFICES ASSUME NEW j \in i..Len(list), \A k \in i + 1..j : ~list[k].opens PROVE j = i
    BY DEF Block
  <2>1. j # i => j \in i + 1..j /\ j \in 1..Len(list)
    BY <1>1
  <2> QED
    BY <1>1, <2>1
<1> QED
  BY <1>2, <1>3

LEMMA FirstKindIs ==
    ASSUME NEW list \in Seq(Entries), NEW i \in DOMAIN list, list[i].kind # None
    PROVE  FirstKind(list, i) = list[i].kind
<1> DEFINE typed == {j \in Block(list, i) : list[j].kind # None}
<1>1. i \in 1..Len(list) /\ Len(list) \in Nat
  OBVIOUS
<1>2. typed \subseteq i..Len(list) /\ i \in typed
  BY <1>1 DEF Block
<1>3. FirstKind(list, i) = IF typed = {} THEN None
                           ELSE list[CHOOSE j \in typed : \A k \in typed : j <= k].kind
  BY DEF FirstKind
<1> HIDE DEF typed
<1>4. PICK j \in typed : j = (CHOOSE m \in typed : \A k \in typed : m <= k) /\ \A k \in typed : j <= k
  <2>1. \E m \in typed : \A k \in typed : m <= k
    BY <1>1, <1>2
  <2> QED
    BY <2>1, Zenon
<1>5. j = i
  BY <1>1, <1>2, <1>4
<1> QED
  BY <1>2, <1>3, <1>4, <1>5, Zenon

LEMMA DerivedIsAKind == "session-derived" # None
BY MemoryAssumption

LEMMA RecordedIsAccepted ==
    ASSUME NEW list \in Seq(Entries), \A j \in DOMAIN list : IsRecorded(list[j]),
           NEW i \in DOMAIN list, NEW d
    PROVE  i \in Openings(list) /\ Bound(list, i) /\ ~NonCanonical(d, list, i)
<1>1. IsRecorded(list[i]) /\ Block(list, i) = {i}
  BY AloneInBlock
<1>2. "session-derived" # None
  BY DerivedIsAKind
<1>3. FirstKind(list, i) = "session-derived"
  BY <1>1, <1>2, FirstKindIs DEF IsRecorded
<1>4. FromRecorder(list, i)
  BY <1>1 DEF FromRecorder, Named, IsRecorded
<1> QED
  BY <1>1, <1>2, <1>3, <1>4 DEF Openings, Bound, NonCanonical, IsRecorded

LEMMA ForgerIsForeign ==
    ASSUME NEW list \in Seq(Entries), NEW i \in DOMAIN list, NEW d,
           list[i].kind = "session-derived",
           ~\E j \in Block(list, i) : list[j].writer
    PROVE  NonCanonical(d, list, i)
<1>1. FirstKind(list, i) = "session-derived"
  BY FirstKindIs, DerivedIsAKind
<1>2. ~FromRecorder(list, i)
  BY DEF FromRecorder, Named
<1> QED
  BY <1>1, <1>2 DEF NonCanonical

(* Appending an entry to a file keeps the others and what their ids say.    *)
LEMMA AppendedKeeps ==
    ASSUME NEW list \in Seq(Entries), NEW e \in Entries
    PROVE  /\ Append(list, e) \in Seq(Entries) /\ Append(list, e) # None
           /\ \A i \in DOMAIN list : i \in DOMAIN Append(list, e) /\ Append(list, e)[i] = list[i]
           /\ \A i \in DOMAIN Append(list, e) : i \in DOMAIN list \/ Append(list, e)[i] = e
           /\ \E i \in DOMAIN Append(list, e) : Append(list, e)[i] = e
<1>1. Append(list, e) \in Seq(Entries) /\ Len(Append(list, e)) = Len(list) + 1
      /\ DOMAIN Append(list, e) = 1..Len(list) + 1 /\ DOMAIN list = 1..Len(list)
  OBVIOUS
<1>2. /\ \A i \in 1..Len(list) : Append(list, e)[i] = list[i]
      /\ Append(list, e)[Len(list) + 1] = e /\ Len(list) \in Nat
  OBVIOUS
<1> QED
  BY <1>1, <1>2, MemoryAssumption

LEMMA AppendedIds ==
    ASSUME NEW list \in Seq(Entries), NEW e \in Entries
    PROVE  /\ \A i \in DOMAIN list :
                  list[i].id \in {Append(list, e)[j].id : j \in DOMAIN Append(list, e)}
           /\ e.id \in {Append(list, e)[j].id : j \in DOMAIN Append(list, e)}
<1> DEFINE longer == Append(list, e)
<1>1. /\ \A i \in DOMAIN list : i \in DOMAIN longer /\ longer[i] = list[i]
      /\ \E i \in DOMAIN longer : longer[i] = e
  BY AppendedKeeps
<1> HIDE DEF longer
<1>2. (\A i \in DOMAIN list : list[i].id \in {longer[j].id : j \in DOMAIN longer})
      /\ e.id \in {longer[j].id : j \in DOMAIN longer}
  BY <1>1, Zenon
<1> QED
  BY <1>2 DEF longer

LEMMA EntriesAreTyped ==
    ASSUME NEW list \in Seq(Entries), NEW i \in DOMAIN list
    PROVE  list[i] \in Entries /\ list[i].opens \in BOOLEAN
<1>1. list[i] \in Entries
  OBVIOUS
<1> QED
  BY <1>1 DEF Entries

LEMMA MemoryStarts == MemoryInit => MemoryInv
<1> SUFFICES ASSUME MemoryInit PROVE MemoryInv
  OBVIOUS
<1>1. MemoryTypeOK
  BY MemoryAssumption DEF MemoryInit, MemoryTypeOK, Days
<1>2. DailyFilesOK
  BY DEF MemoryInit, DailyFilesOK, EntriesKept
<1> QED
  BY <1>1, <1>2 DEF MemoryInit, MemoryInv, SurveyGrounded, PromotionGrounded, SummariesOK

(* Parts of the invariant a step leaves alone.                              *)
LEMMA DailyStay ==
    ASSUME DailyFilesOK, UNCHANGED <<daily, recording, written, cleared, touched>>
    PROVE  DailyFilesOK'
BY ZenonT(60) DEF DailyFilesOK, EntriesKept, IdsOf, IsRecorded, Recordings, Days

LEMMA GatesStay ==
    ASSUME SurveyGrounded, PromotionGrounded, UNCHANGED <<survey, promotion>>
    PROVE  SurveyGrounded' /\ PromotionGrounded'
BY DEF SurveyGrounded, PromotionGrounded, Promoted, Counted, Claimed, Marked

LEMMA SummariesStay ==
    ASSUME SummariesOK, memoryEdits \in Nat, summaries' = summaries,
           memoryEdits' \in {memoryEdits, memoryEdits + 1}
    PROVE  SummariesOK'
BY DEF SummariesOK

LEMMA StartRecordKeeps ==
    ASSUME MemoryInv, NEW p \in Processes, NEW commit \in {None, "hash", "pending"},
           StartRecord(p, commit)
    PROVE  MemoryInv'
<1> DEFINE named == IF commit = None THEN Detected ELSE commit
           run == [entry |-> Entry(records + 1, named), day |-> today,
                   step |-> IF daily[today] = None THEN "create" ELSE "append"]
<1>1. /\ recording' = [recording EXCEPT ![p] = run]
      /\ records < MaxRecords /\ records' = records + 1
      /\ UNCHANGED <<daily, written, cleared>>
      /\ UnchangedFiles
  BY DEF StartRecord
<1>2. named \in {"hash", "uncommitted", "pending"}
  BY DEF Detected
<1> HIDE DEF named
<1>3. records + 1 \in Nat /\ today \in Days
  BY <1>1, MemoryAssumption DEF MemoryInv, MemoryTypeOK
<1>4. Entry(records + 1, named) \in {e \in Entries : IsRecorded(e)}
  BY <1>2, <1>3 DEF Entry, Entries, IsRecorded
<1>5. run \in Recordings /\ (run.step = "append" => daily[run.day] # None)
  BY <1>3, <1>4 DEF Recordings
<1> HIDE DEF run
<1>6. DailyFilesOK'
  <2>1. recording' \in [Processes -> Recordings \union {None}]
    BY <1>1, <1>5 DEF MemoryInv, DailyFilesOK
  <2>2. \A q \in Processes : recording'[q] # None /\ recording'[q].step = "append" =>
                                  daily[recording'[q].day] # None
    BY <1>1, <1>5 DEF MemoryInv, DailyFilesOK
  <2>3. UNCHANGED <<daily, written, cleared, touched>>
    BY <1>1 DEF UnchangedFiles
  <2>4. EntriesKept'
    BY <2>3 DEF MemoryInv, DailyFilesOK, EntriesKept, IdsOf
  <2> QED
    BY <2>1, <2>2, <2>3, <2>4 DEF MemoryInv, DailyFilesOK
<1>7. MemoryTypeOK'
  BY <1>1, <1>6, MemoryAssumption DEF MemoryInv, MemoryTypeOK, DailyFilesOK, Recordings, UnchangedFiles, Days
<1> QED
  BY <1>1, <1>6, <1>7, GatesStay, SummariesStay, MemoryAssumption
  DEF MemoryInv, UnchangedFiles, MemoryTypeOK

LEMMA CreateFileKeeps ==
    ASSUME MemoryInv, NEW p \in Processes, CreateFile(p)
    PROVE  MemoryInv'
<1>0. PICK d : d = recording[p].day
  OBVIOUS
<1>1. /\ recording[p] # None
      /\ cleared' = IF daily[d] = None THEN cleared ELSE cleared \union {d}
      /\ daily' = [daily EXCEPT ![d] = <<>>]
      /\ recording' = [recording EXCEPT ![p].step = "append"]
      /\ UnchangedFiles /\ UNCHANGED <<written, records>>
  BY <1>0 DEF CreateFile
<1>2. recording[p] \in Recordings /\ d \in Days
  BY <1>0, <1>1 DEF MemoryInv, DailyFilesOK, Recordings
<1> DEFINE r == [recording[p] EXCEPT !.step = "append"]
<1>3. r \in Recordings /\ r.day = d
  BY <1>0, <1>2 DEF Recordings
<1>4. <<>> \in Seq(Entries) /\ <<>> # None /\ DOMAIN <<>> = {}
  <2>1. <<>> \in Seq(Entries)
    OBVIOUS
  <2>2. DOMAIN <<>> = {}
    OBVIOUS
  <2>3. <<>> # None
    BY <2>1, MemoryAssumption, Zenon
  <2> QED
    BY <2>1, <2>2, <2>3
<1>5. /\ daily' \in [Days -> Seq(Entries) \union {None}]
      /\ \A e \in Days : e # d => daily'[e] = daily[e]
      /\ daily'[d] = <<>>
  BY <1>1, <1>2, <1>4 DEF MemoryInv, DailyFilesOK
<1>6. /\ recording' \in [Processes -> Recordings \union {None}]
      /\ \A q \in Processes : q # p => recording'[q] = recording[q]
      /\ recording'[p] = r
  BY <1>1, <1>3 DEF MemoryInv, DailyFilesOK
<1> HIDE DEF r
<1>7. DailyFilesOK'
  <2>1. \A q \in Processes : recording'[q] # None /\ recording'[q].step = "append" =>
                                  daily'[recording'[q].day] # None
    <3>1. ASSUME NEW q \in Processes, q # p, recording'[q] # None, recording'[q].step = "append"
          PROVE  daily'[recording'[q].day] # None
      <4>1. recording'[q] = recording[q] /\ recording[q].day \in Days /\ daily[recording[q].day] # None
        BY <1>6, <3>1 DEF MemoryInv, DailyFilesOK, Recordings
      <4> QED
        BY <1>4, <1>5, <4>1
    <3>2. daily'[recording'[p].day] # None
      <4>1. recording'[p].day = d
        BY <1>3, <1>6, Zenon
      <4> QED
        BY <1>4, <1>5, <4>1, Zenon
    <3> QED
      BY <3>1, <3>2
  <2>2. \A w \in written' : w.day \in Days /\ daily'[w.day] # None
    BY <1>1, <1>4, <1>5 DEF MemoryInv, DailyFilesOK
  <2>3. \A e \in Days \ touched' : daily'[e] # None =>
            \A i \in DOMAIN daily'[e] : IsRecorded(daily'[e][i])
    BY <1>1, <1>4, <1>5 DEF MemoryInv, DailyFilesOK, UnchangedFiles
  <2>4. EntriesKept'
    <3> SUFFICES ASSUME NEW w \in written
                 PROVE  w.day \in cleared' \/ w.id \in IdsOf(w.day)'
      BY <1>1 DEF EntriesKept
    <3>1. w.day \in Days /\ daily[w.day] # None /\ (w.day \in cleared \/ w.id \in IdsOf(w.day))
      BY DEF MemoryInv, DailyFilesOK, EntriesKept
    <3>2. CASE w.day = d
      BY <1>1, <3>1, <3>2
    <3>3. CASE w.day # d
      BY <1>1, <1>5, <3>1, <3>3 DEF IdsOf
    <3> QED
      BY <3>2, <3>3
  <2> QED
    BY <1>5, <1>6, <2>1, <2>2, <2>3, <2>4 DEF DailyFilesOK, IsRecorded, Recordings, Days
<1>8. MemoryTypeOK'
  BY <1>1, <1>2, <1>5, <1>6 DEF MemoryInv, MemoryTypeOK, DailyFilesOK, Recordings, UnchangedFiles,
     Days, Entries
<1> QED
  BY <1>1, <1>7, <1>8, GatesStay, SummariesStay, MemoryAssumption
  DEF MemoryInv, UnchangedFiles, MemoryTypeOK

LEMMA WriteEntryKeeps ==
    ASSUME MemoryInv, NEW p \in Processes, WriteEntry(p)
    PROVE  MemoryInv'
<1>0. PICK d, e : d = recording[p].day /\ e = recording[p].entry
  OBVIOUS
<1>1. /\ recording[p] # None /\ recording[p].step = "append"
      /\ daily' = [daily EXCEPT ![d] = Append(daily[d], e)]
      /\ written' = written \union {[id |-> e.id, day |-> d]}
      /\ recording' = [recording EXCEPT ![p] = None]
      /\ UnchangedFiles /\ UNCHANGED <<cleared, records>>
  BY <1>0 DEF WriteEntry, Appended
<1>2. d \in Days /\ e \in Entries /\ IsRecorded(e) /\ daily[d] \in Seq(Entries)
  BY <1>0, <1>1 DEF MemoryInv, DailyFilesOK, Recordings
<1>3. /\ daily' \in [Days -> Seq(Entries) \union {None}]
      /\ \A f \in Days : f # d => daily'[f] = daily[f]
      /\ daily'[d] = Append(daily[d], e) /\ daily'[d] # None
  BY <1>1, <1>2, AppendedKeeps DEF MemoryInv, DailyFilesOK
<1>4. recording' \in [Processes -> Recordings \union {None}]
      /\ \A q \in Processes : recording'[q] # None => recording'[q] = recording[q]
  BY <1>1 DEF MemoryInv, DailyFilesOK
<1>5. DailyFilesOK'
  <2>1. \A q \in Processes : recording'[q] # None /\ recording'[q].step = "append" =>
                                  daily'[recording'[q].day] # None
    <3> SUFFICES ASSUME NEW q \in Processes, recording'[q] # None, recording'[q].step = "append"
                 PROVE  daily'[recording'[q].day] # None
      OBVIOUS
    <3>1. /\ recording'[q] = recording[q] /\ recording[q].day \in Days
          /\ daily[recording[q].day] # None
      BY <1>4 DEF MemoryInv, DailyFilesOK, Recordings
    <3> QED
      BY <1>3, <3>1, Zenon
  <2>2. \A w \in written' : w.day \in Days /\ daily'[w.day] # None
    <3>1. \A w \in written' : w \in written \/ w.day = d
      BY <1>1
    <3> QED
      BY <1>2, <1>3, <3>1, Zenon DEF MemoryInv, DailyFilesOK
  <2>3. \A f \in Days \ touched' : daily'[f] # None =>
            \A i \in DOMAIN daily'[f] : IsRecorded(daily'[f][i])
    <3> SUFFICES ASSUME NEW f \in Days, f \notin touched, daily'[f] # None,
                        NEW i \in DOMAIN daily'[f]
                 PROVE  IsRecorded(daily'[f][i])
      BY <1>1 DEF UnchangedFiles
    <3>1. CASE f # d
      BY <1>3, <3>1, Zenon DEF MemoryInv, DailyFilesOK
    <3>2. CASE f = d
      <4>1. daily[d] # None
        BY <1>2, MemoryAssumption
      <4>2. \A j \in DOMAIN daily[d] : IsRecorded(daily[d][j])
        BY <1>2, <3>2, <4>1 DEF MemoryInv, DailyFilesOK
      <4> HIDE DEF IsRecorded
      <4>3. daily'[f] = Append(daily[d], e)
        BY <1>3, <3>2
      <4>4. \A j \in DOMAIN Append(daily[d], e) :
                \/ Append(daily[d], e)[j] = e
                \/ j \in DOMAIN daily[d] /\ Append(daily[d], e)[j] = daily[d][j]
        BY <1>2, AppendedKeeps
      <4> QED
        BY <1>2, <4>2, <4>3, <4>4, Zenon
    <3> QED
      BY <3>1, <3>2
  <2>4. EntriesKept'
    <3>0. IdsOf(d)' = {Append(daily[d], e)[i].id : i \in DOMAIN Append(daily[d], e)}
      BY <1>3, Zenon DEF IdsOf
    <3>1. \A i \in DOMAIN daily[d] : daily[d][i].id \in IdsOf(d)'
      BY <1>2, <3>0, AppendedIds, Zenon
    <3>2. e.id \in IdsOf(d)'
      BY <1>2, <3>0, AppendedIds, Zenon
    <3>3. \A f \in Days : IdsOf(f) \subseteq IdsOf(f)'
      BY <1>3, <3>1 DEF IdsOf
    <3>4. \A w \in written' : w \in written \/ (w.day = d /\ w.id = e.id)
      BY <1>1
    <3>5. cleared' = cleared
      BY <1>1
    <3> SUFFICES ASSUME NEW w \in written' PROVE w.day \in cleared' \/ w.id \in IdsOf(w.day)'
      BY DEF EntriesKept
    <3>6. CASE w \in written
      BY <3>3, <3>5, <3>6 DEF MemoryInv, DailyFilesOK, EntriesKept
    <3>7. CASE w.day = d /\ w.id = e.id
      BY <3>2, <3>7
    <3> QED
      BY <3>4, <3>6, <3>7
  <2> QED
    BY <1>3, <1>4, <2>1, <2>2, <2>3, <2>4 DEF DailyFilesOK
<1>6. MemoryTypeOK'
  <2>1. \A f \in Days : daily'[f] = None \/ \A i \in DOMAIN daily'[f] : daily'[f][i].opens \in BOOLEAN
    BY <1>3, EntriesAreTyped
  <2>2. \A q \in Processes : recording'[q] = None \/ recording'[q].step \in {"create", "append"}
    BY <1>4 DEF Recordings
  <2> QED
    BY <1>1, <2>1, <2>2 DEF MemoryInv, MemoryTypeOK, UnchangedFiles, Days
<1> QED
  BY <1>1, <1>5, <1>6, GatesStay, SummariesStay, MemoryAssumption
  DEF MemoryInv, UnchangedFiles, MemoryTypeOK

LEMMA DieRecordingKeeps ==
    ASSUME MemoryInv, NEW p \in Processes, DieRecording(p)
    PROVE  MemoryInv'
<1>1. /\ recording' = [recording EXCEPT ![p] = None]
      /\ UnchangedFiles /\ UNCHANGED <<daily, written, cleared, records>>
  BY DEF DieRecording
<1>2. recording' \in [Processes -> Recordings \union {None}]
      /\ \A q \in Processes : recording'[q] # None => recording'[q] = recording[q]
  BY <1>1 DEF MemoryInv, DailyFilesOK
<1>3. DailyFilesOK'
  <2>1. EntriesKept'
    BY <1>1 DEF MemoryInv, DailyFilesOK, EntriesKept, IdsOf
  <2> QED
    BY <1>1, <1>2, <2>1 DEF MemoryInv, DailyFilesOK, UnchangedFiles
<1>4. MemoryTypeOK'
  BY <1>1, <1>2 DEF MemoryInv, MemoryTypeOK, UnchangedFiles, Days
<1> QED
  BY <1>1, <1>3, <1>4, GatesStay, SummariesStay, MemoryAssumption
  DEF MemoryInv, UnchangedFiles, MemoryTypeOK

LEMMA EditDailyKeeps == MemoryInv /\ EditDaily => MemoryInv'
<1> SUFFICES ASSUME MemoryInv, EditDaily PROVE MemoryInv'
  OBVIOUS
<1>1. PICK d \in WrittenDays, e \in HandEntries :
          daily' = [daily EXCEPT ![d] = Append(daily[d], e)] /\ touched' = touched \union {d}
  BY DEF EditDaily
<1>2. /\ memoryEdits < MaxMemoryEdits /\ memoryEdits' = memoryEdits + 1
      /\ UNCHANGED <<recording, written, cleared, records>>
      /\ UNCHANGED <<long, runtimeCloseout, summaries, git, commits, survey, promotion, today>>
  BY DEF EditDaily, UnchangedRuns
<1>3. d \in Days /\ e \in Entries /\ daily[d] \in Seq(Entries) /\ daily[d] # None
  BY MemoryAssumption DEF WrittenDays, MemoryInv, DailyFilesOK
<1>4. /\ daily' \in [Days -> Seq(Entries) \union {None}]
      /\ \A f \in Days : f # d => daily'[f] = daily[f]
      /\ daily'[d] = Append(daily[d], e) /\ daily'[d] # None
  BY <1>1, <1>3, AppendedKeeps DEF MemoryInv, DailyFilesOK
<1>5. DailyFilesOK'
  <2>1. \A f \in Days : daily[f] # None => daily'[f] # None
    BY <1>4
  <2>2. \A q \in Processes : recording'[q] # None /\ recording'[q].step = "append" =>
                                  daily'[recording'[q].day] # None
    <3>1. \A q \in Processes : recording[q] # None => recording[q].day \in Days
      BY DEF MemoryInv, DailyFilesOK, Recordings
    <3> QED
      BY <1>2, <2>1, <3>1 DEF MemoryInv, DailyFilesOK
  <2>3. \A f \in Days \ touched' : f \in Days \ touched /\ daily'[f] = daily[f]
    BY <1>1, <1>4
  <2>4. \A i \in DOMAIN daily[d] : daily[d][i].id \in IdsOf(d)'
    <3>1. IdsOf(d)' = {Append(daily[d], e)[i].id : i \in DOMAIN Append(daily[d], e)}
      BY <1>4, Zenon DEF IdsOf
    <3> QED
      BY <1>3, <3>1, AppendedIds, Zenon
  <2>5. \A f \in Days : IdsOf(f) \subseteq IdsOf(f)'
    BY <1>4, <2>4 DEF IdsOf
  <2>6. EntriesKept'
    BY <1>2, <2>5 DEF MemoryInv, DailyFilesOK, EntriesKept
  <2> QED
    BY <1>2, <1>4, <2>1, <2>2, <2>3, <2>6 DEF MemoryInv, DailyFilesOK
<1>6. MemoryTypeOK'
  <2>1. \A f \in Days : daily'[f] = None \/ \A i \in DOMAIN daily'[f] : daily'[f][i].opens \in BOOLEAN
    BY <1>4, EntriesAreTyped
  <2>2. memoryEdits' \in 0..MaxMemoryEdits
    BY <1>2, MemoryAssumption DEF MemoryInv, MemoryTypeOK
  <2>3. touched' \subseteq Days
    BY <1>1, <1>3 DEF MemoryInv, MemoryTypeOK
  <2> QED
    BY <1>2, <2>1, <2>2, <2>3 DEF MemoryInv, MemoryTypeOK
<1> QED
  BY <1>2, <1>5, <1>6, GatesStay, SummariesStay, MemoryAssumption DEF MemoryInv, MemoryTypeOK

LEMMA EditLongKeeps == MemoryInv /\ EditLong => MemoryInv'
<1> SUFFICES ASSUME MemoryInv, EditLong PROVE MemoryInv'
  OBVIOUS
<1>1. /\ memoryEdits < MaxMemoryEdits /\ memoryEdits' = memoryEdits + 1
      /\ UNCHANGED <<recording, written, cleared, records>>
      /\ UNCHANGED <<daily, touched, runtimeCloseout, summaries, git, commits, survey, promotion, today>>
  BY DEF EditLong, UnchangedRuns
<1>2. memoryEdits \in Nat /\ memoryEdits' \in 0..MaxMemoryEdits
  BY <1>1, MemoryAssumption DEF MemoryInv, MemoryTypeOK
<1>3. MemoryTypeOK'
  BY <1>1, <1>2 DEF MemoryInv, MemoryTypeOK
<1> QED
  BY <1>1, <1>2, <1>3, DailyStay, GatesStay, SummariesStay DEF MemoryInv

LEMMA EndSessionKeeps == MemoryInv /\ EndSession => MemoryInv'
<1> SUFFICES ASSUME MemoryInv, EndSession PROVE MemoryInv'
  OBVIOUS
<1>1. PICK s \in Summaries :
          summaries' = summaries \union
              {[torn |-> s.torn, mode |-> s.mode, relevant |-> s.relevant,
                path |-> IF s.recorded THEN today ELSE None, closed |-> memoryEdits + 1]}
  BY DEF EndSession
<1>2. /\ memoryEdits < MaxMemoryEdits /\ memoryEdits' = memoryEdits + 1
      /\ UNCHANGED <<recording, written, cleared, records>>
      /\ UNCHANGED <<daily, touched, long, runtimeCloseout, git, commits, survey, promotion, today>>
  BY DEF EndSession, UnchangedRuns
<1>3. memoryEdits \in Nat /\ memoryEdits' \in 0..MaxMemoryEdits
  BY <1>2, MemoryAssumption DEF MemoryInv, MemoryTypeOK
<1>4. SummariesOK'
  <2>1. PICK new : summaries' = summaries \union {new} /\ new.closed = memoryEdits + 1
    <3> DEFINE left == [torn |-> s.torn, mode |-> s.mode, relevant |-> s.relevant,
                        path |-> IF s.recorded THEN today ELSE None, closed |-> memoryEdits + 1]
    <3>1. left.closed = memoryEdits + 1 /\ summaries' = summaries \union {left}
      BY <1>1
    <3> HIDE DEF left
    <3> QED
      BY <3>1
  <2> QED
    BY <1>2, <1>3, <2>1 DEF MemoryInv, SummariesOK
<1>5. MemoryTypeOK'
  BY <1>2, <1>3 DEF MemoryInv, MemoryTypeOK
<1> QED
  BY <1>2, <1>4, <1>5, DailyStay, GatesStay DEF MemoryInv

LEMMA CommitKeeps == MemoryInv /\ Commit => MemoryInv'
<1> SUFFICES ASSUME MemoryInv, Commit PROVE MemoryInv'
  OBVIOUS
<1>1. /\ commits' = commits \union {today}
      /\ UNCHANGED <<recording, written, cleared, records, memoryEdits>>
      /\ UNCHANGED <<daily, touched, long, runtimeCloseout, summaries, git, survey, promotion, today>>
  BY DEF Commit, UnchangedRuns
<1>2. MemoryTypeOK' /\ memoryEdits \in Nat
  BY <1>1, MemoryAssumption DEF MemoryInv, MemoryTypeOK
<1> QED
  BY <1>1, <1>2, DailyStay, GatesStay, SummariesStay DEF MemoryInv

LEMMA NextDayKeeps == MemoryInv /\ NextDay => MemoryInv'
<1> SUFFICES ASSUME MemoryInv, NextDay PROVE MemoryInv'
  OBVIOUS
<1>1. /\ today < MaxDay /\ today' = today + 1
      /\ UNCHANGED <<recording, written, cleared, records, memoryEdits>>
      /\ UNCHANGED <<daily, touched, long, runtimeCloseout, summaries, git, commits, survey, promotion>>
  BY DEF NextDay, UnchangedRuns
<1>2. today' \in Days /\ memoryEdits \in Nat
  BY <1>1, MemoryAssumption DEF MemoryInv, MemoryTypeOK, Days
<1>3. MemoryTypeOK'
  BY <1>1, <1>2 DEF MemoryInv, MemoryTypeOK
<1> QED
  BY <1>1, <1>2, <1>3, DailyStay, GatesStay, SummariesStay DEF MemoryInv

LEMMA SurveyKeeps == MemoryInv /\ Survey => MemoryInv'
<1> SUFFICES ASSUME MemoryInv, Survey PROVE MemoryInv'
  OBVIOUS
<1>1. /\ survey' = [promoted |-> \E s \in Sections : Promoted(s), long |-> long]
      /\ UNCHANGED <<recording, written, cleared, records, memoryEdits>>
      /\ UNCHANGED <<daily, touched, long, runtimeCloseout, summaries, git, commits, promotion, today>>
  BY DEF Survey, UnchangedRuns
<1>2. SurveyGrounded'
  <2> SUFFICES ASSUME survey'.promoted PROVE \E i \in DOMAIN survey'.long : Promoted(survey'.long[i])
    BY DEF SurveyGrounded, Promoted, Counted
  <2>1. survey'.long = long /\ \E s \in Sections : Promoted(s)
    BY <1>1
  <2>2. \E i \in DOMAIN long : Promoted(long[i])
    BY <2>1 DEF Sections
  <2> QED
    BY <2>1, <2>2
<1>3. PromotionGrounded'
  BY <1>1 DEF MemoryInv, PromotionGrounded, Promoted, Counted, Claimed, Marked
<1>4. MemoryTypeOK' /\ memoryEdits \in Nat
  BY <1>1, MemoryAssumption DEF MemoryInv, MemoryTypeOK
<1> QED
  BY <1>1, <1>2, <1>3, <1>4, DailyStay, SummariesStay DEF MemoryInv

LEMMA OpenIsUnblocked ==
    ASSUME NEW promoted, Blocked(promoted) = {}
    PROVE  /\ promoted
           /\ long # None
           /\ \A i \in DOMAIN long : Claimed(long[i]) => Marked(long[i])
           /\ runtimeCloseout # None =>
                 /\ runtimeCloseout.boundary \in {None, "runtime_verified"}
                 /\ ~runtimeCloseout.degraded
<1>1. /\ promoted /\ AllMarked
      /\ ~(runtimeCloseout # None /\ runtimeCloseout.boundary \notin {None, "runtime_verified"})
      /\ ~(runtimeCloseout # None /\ runtimeCloseout.degraded)
  <2>1. /\ "missing_structural_promotions" \notin Blocked(promoted)
        /\ "missing_required_promotion_markers" \notin Blocked(promoted)
        /\ "claim_boundary_not_runtime_verified" \notin Blocked(promoted)
        /\ "test_execution_degraded" \notin Blocked(promoted)
    OBVIOUS
  <2> QED
    BY <2>1 DEF Blocked
<1>2. long # None /\ \A s \in Sections : Claimed(s) => Marked(s)
  BY <1>1 DEF AllMarked
<1>3. \A i \in DOMAIN long : long[i] \in Sections
  BY <1>2 DEF Sections
<1> QED
  BY <1>1, <1>2, <1>3

LEMMA JudgeKeeps == MemoryInv /\ Judge => MemoryInv'
<1> SUFFICES ASSUME MemoryInv, Judge PROVE MemoryInv'
  OBVIOUS
<1>1. /\ survey # None /\ survey' = None
      /\ promotion' = [open |-> Blocked(survey.promoted) = {},
                       class |-> FailureClass(Blocked(survey.promoted)),
                       first |-> survey.long, second |-> long, closeout |-> runtimeCloseout]
      /\ UNCHANGED <<recording, written, cleared, records, memoryEdits>>
      /\ UNCHANGED <<daily, touched, long, runtimeCloseout, summaries, git, commits, today>>
  BY DEF Judge, UnchangedRuns
<1>2. PromotionGrounded'
  <2> SUFFICES ASSUME promotion'.open
               PROVE  /\ \E i \in DOMAIN promotion'.first : Promoted(promotion'.first[i])
                      /\ \A i \in DOMAIN promotion'.second :
                            Claimed(promotion'.second[i]) => Marked(promotion'.second[i])
                      /\ promotion'.closeout # None =>
                            /\ promotion'.closeout.boundary \in {None, "runtime_verified"}
                            /\ ~promotion'.closeout.degraded
    BY DEF PromotionGrounded, Promoted, Counted, Claimed, Marked
  <2>1. /\ Blocked(survey.promoted) = {}
        /\ promotion'.first = survey.long /\ promotion'.second = long
        /\ promotion'.closeout = runtimeCloseout
    BY <1>1
  <2>2. survey.promoted
    BY <2>1, OpenIsUnblocked
  <2> QED
    BY <1>1, <2>1, <2>2, OpenIsUnblocked DEF MemoryInv, SurveyGrounded
<1>3. SurveyGrounded'
  BY <1>1 DEF SurveyGrounded
<1>4. MemoryTypeOK' /\ memoryEdits \in Nat
  BY <1>1, MemoryAssumption DEF MemoryInv, MemoryTypeOK
<1> QED
  BY <1>1, <1>2, <1>3, <1>4, DailyStay, SummariesStay DEF MemoryInv

LEMMA MemoryInductive == MemorySpec => []MemoryInv
<1>1. MemoryInv /\ [MemoryNext]_memoryVars => MemoryInv'
  <2>1. ASSUME MemoryInv, UNCHANGED memoryVars PROVE MemoryInv'
    <3>1. UNCHANGED <<daily, recording, written, cleared, touched, survey, promotion, summaries,
                      memoryEdits, commits, today, records>>
      BY <2>1 DEF memoryVars
    <3>2. MemoryTypeOK' /\ memoryEdits \in Nat
      BY <2>1, <3>1, MemoryAssumption DEF MemoryInv, MemoryTypeOK
    <3> QED
      BY <2>1, <3>1, <3>2, DailyStay, GatesStay, SummariesStay DEF MemoryInv
  <2> QED
    BY <2>1, StartRecordKeeps, CreateFileKeeps, WriteEntryKeeps, DieRecordingKeeps,
       EditDailyKeeps, EditLongKeeps, EndSessionKeeps, CommitKeeps, NextDayKeeps, SurveyKeeps,
       JudgeKeeps
    DEF MemoryNext
<1> QED
  BY <1>1, MemoryStarts, PTL DEF MemorySpec

(* However processes interleave and die and people write, promote and       *)
(* commit: finished runs keep their entries, the guard accepts what         *)
(* memory_record wrote and finds what only claims to be, the gate opens on  *)
(* a promotion alone, and the daily warning falls on the right session.     *)
THEOREM MemoryIsSound == MemorySpec => []MemorySound
<1>1. MemoryInv => MemorySound
  <2> SUFFICES ASSUME MemoryInv PROVE MemorySound
    OBVIOUS
  <2>1. \A d \in WrittenDays : d \in Days /\ daily[d] \in Seq(Entries) /\ daily[d] # None
    BY DEF MemoryInv, DailyFilesOK, WrittenDays
  <2>2. RecorderAccepted
    <3> SUFFICES ASSUME NEW d \in WrittenDays, d \notin touched
                 PROVE  Openings(daily[d]) = DOMAIN daily[d] /\ Unbound(d) \union Foreign(d) = {}
      BY DEF RecorderAccepted
    <3>1. \A i \in DOMAIN daily[d] : IsRecorded(daily[d][i])
      BY <2>1 DEF MemoryInv, DailyFilesOK
    <3>2. \A i \in DOMAIN daily[d] :
             i \in Openings(daily[d]) /\ Bound(daily[d], i) /\ ~NonCanonical(d, daily[d], i)
      BY <2>1, <3>1, RecordedIsAccepted
    <3>3. Openings(daily[d]) = DOMAIN daily[d]
      BY <3>2 DEF Openings
    <3>4. Unbound(d) = {} /\ Foreign(d) = {}
      BY <3>2, <3>3 DEF Unbound, Foreign
    <3> QED
      BY <3>3, <3>4
  <2>3. ForgersFound
    <3> SUFFICES ASSUME NEW d \in WrittenDays, NEW i \in Openings(daily[d]),
                        daily[d][i].kind = "session-derived", ~daily[d][i].writer,
                        ~\E j \in Block(daily[d], i) \ {i} : daily[d][j].writer
                 PROVE  i \in Foreign(d)
      BY DEF ForgersFound
    <3>1. i \in DOMAIN daily[d]
      BY DEF Openings
    <3>2. NonCanonical(d, daily[d], i)
      BY <2>1, <3>1, ForgerIsForeign
    <3> QED
      BY <3>2 DEF Foreign
  <2>4. FinishedDaysPresent
    BY DEF FinishedDaysPresent, MissingDays, WrittenDays, MemoryInv, DailyFilesOK
  <2>5. OpenedOnPromotion /\ NothingWaived
    <3> SUFFICES ASSUME promotion # None, promotion.open
                 PROVE  OpenedOnPromotion /\ NothingWaived
      BY DEF OpenedOnPromotion, NothingWaived
    <3>1. /\ \E i \in DOMAIN promotion.first : Promoted(promotion.first[i])
          /\ \A i \in DOMAIN promotion.second :
                Claimed(promotion.second[i]) => Marked(promotion.second[i])
          /\ promotion.closeout # None =>
                /\ promotion.closeout.boundary \in {None, "runtime_verified"}
                /\ ~promotion.closeout.degraded
      BY DEF MemoryInv, PromotionGrounded
    <3>2. OpenedOnPromotion
      BY <3>1 DEF OpenedOnPromotion, Promoted, Claimed
    <3>3. NothingWaived
      BY <3>1 DEF NothingWaived, Claimed, Marked
    <3> QED
      BY <3>2, <3>3
  <2>6. WarningJustified
    <3> SUFFICES ASSUME NEW s \in Latest, NEW w \in written, w.day = s.path PROVE ~Warned(s)
      BY DEF WarningJustified
    <3>1. s.path \in Days /\ daily[s.path] # None
      BY DEF MemoryInv, DailyFilesOK
    <3>2. s.path # None
      BY <3>1, MemoryAssumption DEF Days
    <3> QED
      BY <3>1, <3>2 DEF Warned, HasFile
  <2>7. LastSessionWarned
    <3> SUFFICES ASSUME NEW s \in ReadableSummaries, s.closed = memoryEdits,
                        s.mode # "stateless", s.relevant, s.path = None, NEW t \in Latest
                 PROVE  Warned(t)
      BY DEF LastSessionWarned
    <3>1. s \in summaries /\ t \in summaries /\ s.closed <= t.closed
      BY DEF ReadableSummaries, Latest
    <3>2. t.closed = s.closed
      BY <3>1, MemoryAssumption DEF MemoryInv, SummariesOK, MemoryTypeOK
    <3>3. t = s
      BY <3>1, <3>2 DEF MemoryInv, SummariesOK
    <3> QED
      BY <3>3 DEF Warned, HasFile
  <2> QED
    BY <2>2, <2>3, <2>4, <2>5, <2>6, <2>7 DEF MemorySound, MemoryInv, DailyFilesOK
<1> QED
  BY <1>1, MemoryInductive, PTL
-----------------------------------------------------------------------------
(* The authority over escalations.                                          *)

(* What a payload is refused or blocked for does not follow from the        *)
(* reasons and the flag that the writer adds, and refusal and blocking only *)
(* read fields the writer leaves alone.                                     *)
SameFacts(p, q) ==
    /\ q.id = p.id /\ q.mitigation = p.mitigation /\ q.track = p.track /\ q.owned = p.owned
    /\ q.route = p.route /\ q.resolved = p.resolved /\ q.claim = p.claim /\ q.era = p.era
    /\ q.caveat = p.caveat /\ q.contamination = p.contamination /\ q.closed = p.closed
    /\ q.state = p.state /\ q.transition = p.transition

LEMMA SameErrors ==
    ASSUME NEW p, NEW q, SameFacts(p, q)
    PROVE  Errors(q) = Errors(p) /\ Blocking(q) = Blocking(p)
<1>1. FieldErrors(q) = FieldErrors(p)
  BY DEF SameFacts, FieldErrors
<1>2. CoverageErrors(q) = CoverageErrors(p)
  BY DEF SameFacts, CoverageErrors
<1>3. StateErrors(q) = StateErrors(p)
  BY DEF SameFacts, StateErrors
<1>4. \A before : TransitionErrors(q, before) = TransitionErrors(p, before)
  BY DEF SameFacts, TransitionErrors
<1>5. Errors(q) = Errors(p)
  BY <1>1, <1>2, <1>3, <1>4, Zenon DEF Errors
<1>6. Blocking(q) = Blocking(p)
  BY <1>1, <1>2 DEF SameFacts, Blocking
<1> QED
  BY <1>5, <1>6

LEMMA RecordedEqual ==
    ASSUME NEW p \in Recorded, NEW q \in Recorded, SameFacts(p, q),
           p.reasons = q.reasons, p.blocked = q.blocked
    PROVE  p = q
BY DEF SameFacts, Recorded

LEMMA NormalizedIs ==
    ASSUME NEW p \in Recorded
    PROVE  /\ Normalized(p) \in Recorded /\ SameFacts(p, Normalized(p))
           /\ Normalized(p).reasons = p.reasons \union Blocking(p)
           /\ Normalized(p).blocked = (p.blocked \/ Blocking(p) # {})
<1> DEFINE more == p.reasons \union Blocking(p)
           blocks == p.blocked \/ Blocking(p) # {}
<1>1. Blocking(p) \subseteq Reasons
  BY DEF Blocking
<1>2. more \in SUBSET Reasons /\ blocks \in BOOLEAN
  BY <1>1 DEF Recorded
<1>3. Normalized(p) = [p EXCEPT !.reasons = more, !.blocked = blocks]
  BY DEF Normalized
<1> HIDE DEF more, blocks
<1>4. /\ Normalized(p) \in Recorded /\ SameFacts(p, Normalized(p))
      /\ Normalized(p).reasons = more /\ Normalized(p).blocked = blocks
  BY <1>2, <1>3 DEF Recorded, SameFacts
<1> QED
  BY <1>4 DEF more, blocks

(* Normalizing twice changes nothing. *)
LEMMA NormalizedAgain ==
    ASSUME NEW p \in Recorded
    PROVE  Normalized(Normalized(p)) = Normalized(p)
<1>1. Normalized(p) \in Recorded /\ SameFacts(p, Normalized(p))
  BY NormalizedIs
<1>2. Blocking(Normalized(p)) = Blocking(p)
  BY <1>1, SameErrors
<1>3. SameFacts(Normalized(Normalized(p)), Normalized(p))
      /\ Normalized(Normalized(p)) \in Recorded
  BY <1>1, NormalizedIs DEF SameFacts
<1>4. /\ Normalized(Normalized(p)).reasons = Normalized(p).reasons
      /\ Normalized(Normalized(p)).blocked = Normalized(p).blocked
  <2>1. Normalized(p).reasons = p.reasons \union Blocking(p)
        /\ Normalized(p).blocked = (p.blocked \/ Blocking(p) # {})
    BY NormalizedIs
  <2>2. /\ Normalized(Normalized(p)).reasons = Normalized(p).reasons \union Blocking(p)
        /\ Normalized(Normalized(p)).blocked = (Normalized(p).blocked \/ Blocking(p) # {})
    BY <1>1, <1>2, NormalizedIs
  <2> QED
    BY <2>1, <2>2
<1> QED
  BY <1>1, <1>3, <1>4, RecordedEqual

LEMMA CanonicalIs ==
    ASSUME NEW p \in Recorded
    PROVE  /\ Canonical(p) \in Recorded /\ Canonical(p).closed = FALSE
           /\ Canonical(p).reasons = Normalized(p).reasons
           /\ Canonical(p).blocked = Normalized(p).blocked
           /\ SameFacts(p, [Canonical(p) EXCEPT !.closed = p.closed])
<1> DEFINE n == Normalized(p)
<1>1. n \in Recorded /\ SameFacts(p, n)
  BY NormalizedIs
<1>2. Canonical(p) = [n EXCEPT !.closed = FALSE]
  BY DEF Canonical
<1> HIDE DEF n
<1>3. /\ Canonical(p) \in Recorded /\ Canonical(p).closed = FALSE
      /\ Canonical(p).reasons = n.reasons /\ Canonical(p).blocked = n.blocked
  BY <1>1, <1>2 DEF Recorded
<1>4. SameFacts(p, [Canonical(p) EXCEPT !.closed = p.closed])
  BY <1>1, <1>2 DEF Recorded, SameFacts
<1> QED
  BY <1>3, <1>4 DEF n

(* An artifact is trusted exactly when its payload was taken for valid.     *)
LEMMA ArtifactIs ==
    ASSUME NEW p \in Recorded
    PROVE  /\ Artifact(p) \in Artifacts
           /\ Artifact(p).payload = Normalized(p)
           /\ Trusted(Artifact(p)) <=> Artifact(p).valid
<1>1. Normalized(p) \in Recorded /\ Canonical(p) \in Recorded
  BY NormalizedIs, CanonicalIs
<1>2. /\ Artifact(p).payload = Normalized(p) /\ Artifact(p).sealed = Canonical(p)
      /\ Artifact(p).valid = (Errors(p) = {}) /\ Artifact(p).writer = TRUE
  BY DEF Artifact
<1>3. Artifact(p) \in Artifacts
  BY <1>1 DEF Artifact, Artifacts
<1>4. Artifact(p) \notin {None, Torn}
  BY <1>3, EscalationAssumption
<1>5. Errors(Normalized(p)) = Errors(p)
  BY NormalizedIs, SameErrors
<1>6. Canonical(Normalized(p)) = Canonical(p)
  BY NormalizedAgain, Zenon DEF Canonical
<1>7. Trusted(Artifact(p)) <=> Errors(p) = {}
  BY <1>2, <1>4, <1>5, <1>6 DEF Trusted
<1> QED
  BY <1>2, <1>3, <1>7

(* The gate that was built is the gate of the files as they are, of         *)
(* evidence that is well formed.                                            *)
GateIsCurrent ==
    gate # None =>
        /\ gate.evidence \in Evidence /\ ~Malformed(gate.evidence)
        /\ gate = Gate(gate.evidence, gate.required)

(* Without a directory there are no artifacts, what is being written is     *)
(* torn until it is filled, and a refused escalation has an artifact.       *)
FilesInOrder ==
    /\ ~directory => \A f \in ArtifactFiles : artifacts[f] = None
    /\ writing # None =>
          /\ directory /\ artifacts[writing.file] = Torn
          /\ \E p \in Payloads : writing.artifact = Artifact(p)
    /\ edits = 0 => \A e \in refused : artifacts[e] # None
    /\ log # {}

EscalationInv == EscalationTypeOK /\ GateIsCurrent /\ FilesInOrder

LEMMA EscalationStarts == EscalationInit => EscalationInv
<1> SUFFICES ASSUME EscalationInit PROVE EscalationInv
  OBVIOUS
<1>1. artifacts \in [ArtifactFiles -> Artifacts \union {None, Torn}]
      /\ \A f \in ArtifactFiles : artifacts[f] = None
  BY DEF EscalationInit
<1>2. log # {}
  BY EscalationAssumption DEF EscalationInit
<1>3. writes \in 0..MaxWrites /\ edits \in 0..MaxEdits
  BY EscalationAssumption DEF EscalationInit
<1>4. EscalationTypeOK
  BY <1>1, <1>3 DEF EscalationInit, EscalationTypeOK
<1> QED
  BY <1>1, <1>2, <1>4 DEF EscalationInit, EscalationInv, GateIsCurrent, FilesInOrder

(* The gate only depends on the files. *)
LEMMA GateStays ==
    ASSUME UNCHANGED authorityFiles, NEW o, NEW required
    PROVE  Gate(o, required)' = Gate(o, required)
<1>1. artifacts' = artifacts /\ directory' = directory /\ register' = register /\ log' = log
  BY DEF authorityFiles
<1>2. Stored' = Stored
  BY <1>1 DEF Stored
<1>3. Readable' = Readable
  BY <1>1, <1>2 DEF Readable
<1>4. \A e : Effective(e)' = Effective(e)
  <2> SUFFICES ASSUME NEW e PROVE Effective(e)' = Effective(e)
    OBVIOUS
  <2> DEFINE ranks == {n \in DOMAIN Precedence :
                         \E f \in Readable : /\ artifacts[f].payload.id = e
                                             /\ artifacts[f].payload.state = Precedence[n]}
  <2>1. ranks' = ranks
    BY <1>1, <1>3
  <2>2. Effective(e) = IF ranks = {} THEN None
                       ELSE Precedence[CHOOSE n \in ranks : \A k \in ranks : n <= k]
    BY DEF Effective
  <2>3. Effective(e)' = IF ranks' = {} THEN None
                        ELSE Precedence[CHOOSE n \in ranks' : \A k \in ranks' : n <= k]
    BY DEF Effective
  <2> DEFINE First(R) == CHOOSE n \in R : \A k \in R : n <= k
             Of(R) == IF R = {} THEN None ELSE Precedence[First(R)]
  <2>4. Effective(e) = Of(ranks) /\ Effective(e)' = Of(ranks')
    BY <2>2, <2>3, Zenon
  <2> HIDE DEF ranks, Of
  <2> QED
    BY <2>1, <2>4
<1>5. ActiveIds' = ActiveIds /\ RegisterBad' = RegisterBad
  BY <1>1, Zenon DEF ActiveIds, RegisterBad
<1>6. Conflicts' = Conflicts
  BY <1>4, <1>5, Zenon DEF Conflicts
<1>7. \A state : Standing(state)' = Standing(state)
  BY <1>4, Zenon DEF Standing
<1>8. AssessPresent(required)' = AssessPresent(required)
  BY <1>1, <1>2, <1>5, <1>6, <1>7, Zenon DEF AssessPresent
<1>9. Expected' = Expected
  BY <1>1, <1>5, Zenon DEF Expected
<1>10. AssessAbsent(required)' = AssessAbsent(required)
  BY <1>1, <1>5, <1>9, Zenon DEF AssessAbsent
<1>11. Assess(required)' = Assess(required)
  BY <1>1, <1>8, <1>10, Zenon DEF Assess
<1> QED
  BY <1>11, Zenon DEF Gate

LEMMA GateKnows ==
    ASSUME NEW o, NEW required
    PROVE  Gate(o, required).evidence = o /\ Gate(o, required).required = required
BY DEF Gate

LEMMA DecideKeeps == EscalationInv /\ Decide => EscalationInv'
<1> SUFFICES ASSUME EscalationInv, Decide PROVE EscalationInv'
  OBVIOUS
<1>1. PICK o \in Evidence, override \in {None, "strict", "compatibility"} :
          ~Malformed(o) /\ gate' = Gate(o, Strict(override))
  BY DEF Decide
<1>2. UNCHANGED authorityFiles /\ UNCHANGED <<writes, edits>>
  BY DEF Decide
<1>3. PICK required : required = Strict(override)
  OBVIOUS
<1>4. gate' = Gate(o, required) /\ Gate(o, required)' = Gate(o, required)
  BY <1>1, <1>2, <1>3, GateStays
<1>5. gate'.evidence = o /\ gate'.required = required
  BY <1>4, GateKnows
<1>6. GateIsCurrent'
  BY <1>1, <1>4, <1>5 DEF GateIsCurrent, Malformed
<1>7. EscalationTypeOK' /\ FilesInOrder'
  BY <1>2 DEF EscalationInv, EscalationTypeOK, FilesInOrder, authorityFiles
<1> QED
  BY <1>6, <1>7 DEF EscalationInv

(* Every other step leaves no gate behind. *)
LEMMA StaleIsCurrent == Stale => GateIsCurrent'
BY DEF Stale, GateIsCurrent

LEMMA WriteArtifactKeeps == EscalationInv /\ WriteArtifact => EscalationInv'
<1> SUFFICES ASSUME EscalationInv, WriteArtifact PROVE EscalationInv'
  OBVIOUS
<1>1. PICK p \in Payloads :
          IF artifacts[p.id] # None /\ ~Trusted(artifacts[p.id])
          THEN /\ refused' = refused \union {p.id}
               /\ UNCHANGED <<artifacts, directory, writing>>
          ELSE /\ refused' = refused \ {p.id}
               /\ directory' = TRUE
               /\ artifacts' = [artifacts EXCEPT ![p.id] = Torn]
               /\ writing' = [file |-> p.id, artifact |-> Artifact(p)]
  BY DEF WriteArtifact
<1>2. /\ writing = None /\ writes < MaxWrites /\ writes' = writes + 1 /\ edits' = edits /\ Stale
      /\ UNCHANGED <<register, log, policy, closeout>>
  BY DEF WriteArtifact, Written
<1>3. p \in Recorded /\ p.id \in Escalations /\ p.id \in ArtifactFiles
  BY EscalationAssumption DEF Recorded, ArtifactFiles
<1>4. writes' \in 0..MaxWrites
  BY <1>2, EscalationAssumption DEF EscalationInv, EscalationTypeOK
<1>5. Artifact(p) \in Artifacts
  BY <1>3, ArtifactIs
<1>6. CASE artifacts[p.id] # None /\ ~Trusted(artifacts[p.id])
  <2>1. refused' = refused \union {p.id} /\ UNCHANGED <<artifacts, directory, writing>>
    BY <1>1, <1>6
  <2>2. EscalationTypeOK'
    BY <1>2, <1>3, <1>4, <2>1 DEF EscalationInv, EscalationTypeOK
  <2>3. FilesInOrder'
    BY <1>2, <1>6, <2>1 DEF EscalationInv, FilesInOrder
  <2> QED
    BY <1>2, <2>2, <2>3, StaleIsCurrent DEF EscalationInv
<1>7. CASE ~(artifacts[p.id] # None /\ ~Trusted(artifacts[p.id]))
  <2>1. /\ refused' = refused \ {p.id} /\ directory' = TRUE
        /\ artifacts' = [artifacts EXCEPT ![p.id] = Torn]
        /\ writing' = [file |-> p.id, artifact |-> Artifact(p)]
    BY <1>1, <1>7, Zenon
  <2>2. writing'.file = p.id /\ writing'.artifact = Artifact(p)
    BY <2>1
  <2>3. /\ artifacts' \in [ArtifactFiles -> Artifacts \union {None, Torn}]
        /\ artifacts'[p.id] = Torn
        /\ \A f \in ArtifactFiles : f # p.id => artifacts'[f] = artifacts[f]
    BY <1>3, <2>1 DEF EscalationInv, EscalationTypeOK
  <2>4. EscalationTypeOK'
    BY <1>2, <1>3, <1>4, <1>5, <2>1, <2>2, <2>3 DEF EscalationInv, EscalationTypeOK
  <2>5. FilesInOrder'
    <3>1. edits' = 0 => \A e \in refused' : artifacts'[e] # None
      BY <1>2, <2>1, <2>3 DEF EscalationInv, EscalationTypeOK, FilesInOrder, ArtifactFiles
    <3>2. directory' /\ log' # {}
      BY <1>2, <2>1 DEF EscalationInv, FilesInOrder
    <3> QED
      BY <2>2, <2>3, <3>1, <3>2, Zenon DEF FilesInOrder
  <2> QED
    BY <1>2, <2>4, <2>5, StaleIsCurrent DEF EscalationInv
<1> QED
  BY <1>6, <1>7

LEMMA FillArtifactKeeps == EscalationInv /\ FillArtifact => EscalationInv'
<1> SUFFICES ASSUME EscalationInv, FillArtifact PROVE EscalationInv'
  OBVIOUS
<1>1. /\ writing # None /\ artifacts' = [artifacts EXCEPT ![writing.file] = writing.artifact]
      /\ writing' = None /\ Stale
      /\ UNCHANGED <<directory, refused, register, log, policy, closeout, writes, edits>>
  BY DEF FillArtifact
<1>2. writing.file \in ArtifactFiles /\ writing.artifact \in Artifacts /\ writing.artifact # None
  BY <1>1, EscalationAssumption DEF EscalationInv, EscalationTypeOK, ArtifactFiles
<1>3. /\ artifacts' \in [ArtifactFiles -> Artifacts \union {None, Torn}]
      /\ \A f \in ArtifactFiles : artifacts'[f] = artifacts[f] \/ artifacts'[f] # None
  BY <1>1, <1>2 DEF EscalationInv, EscalationTypeOK
<1>4. EscalationTypeOK'
  BY <1>1, <1>3 DEF EscalationInv, EscalationTypeOK
<1>5. FilesInOrder'
  BY <1>1, <1>3 DEF EscalationInv, EscalationTypeOK, FilesInOrder, ArtifactFiles
<1> QED
  BY <1>1, <1>4, <1>5, StaleIsCurrent DEF EscalationInv

LEMMA DieWritingKeeps == EscalationInv /\ DieWriting => EscalationInv'
<1> SUFFICES ASSUME EscalationInv, DieWriting PROVE EscalationInv'
  OBVIOUS
<1>1. /\ writing' = None /\ Stale
      /\ UNCHANGED <<artifacts, directory, refused, register, log, policy, closeout, writes, edits>>
  BY DEF DieWriting
<1>2. EscalationTypeOK' /\ FilesInOrder'
  BY <1>1 DEF EscalationInv, EscalationTypeOK, FilesInOrder
<1> QED
  BY <1>1, <1>2, StaleIsCurrent DEF EscalationInv

(* The register, the log, the policy and the closeout say nothing of files. *)
LEMMA OthersKeep ==
    ASSUME EscalationInv, Stale, Written \/ Edited, log' # {},
           UNCHANGED <<artifacts, directory, writing, refused>>
    PROVE  EscalationInv'
<1>1. writes' \in 0..MaxWrites /\ edits' \in 0..MaxEdits /\ (edits' = 0 => edits = 0)
  BY EscalationAssumption DEF EscalationInv, EscalationTypeOK, Written, Edited
<1>2. EscalationTypeOK' /\ FilesInOrder'
  BY <1>1 DEF EscalationInv, EscalationTypeOK, FilesInOrder
<1> QED
  BY <1>2, StaleIsCurrent DEF EscalationInv

LEMMA WriteOthersKeeps ==
    EscalationInv /\ (WriteRegister \/ AppendLog \/ WriteCloseout \/ EditOthers) => EscalationInv'
<1> SUFFICES ASSUME EscalationInv, WriteRegister \/ AppendLog \/ WriteCloseout \/ EditOthers
             PROVE  EscalationInv'
  OBVIOUS
<1>1. /\ Stale /\ (Written \/ Edited)
      /\ UNCHANGED <<artifacts, directory, writing, refused>>
  BY DEF WriteRegister, AppendLog, WriteCloseout, EditOthers
<1>2. log' # {}
  <2>1. CASE AppendLog
    BY <2>1 DEF AppendLog
  <2>2. CASE WriteRegister \/ WriteCloseout \/ EditOthers
    <3>1. log' = log
      BY <2>2 DEF WriteRegister, WriteCloseout, EditOthers
    <3> QED
      BY <3>1 DEF EscalationInv, FilesInOrder
  <2> QED
    BY <2>1, <2>2
<1> QED
  BY <1>1, <1>2, OthersKeep

LEMMA ChangedIsRecorded ==
    ASSUME NEW p \in Recorded, NEW q \in Changed(p)
    PROVE  q \in Recorded
<1>1. /\ [p EXCEPT !.blocked = FALSE] \in Recorded
      /\ [p EXCEPT !.reasons = {}] \in Recorded
      /\ [p EXCEPT !.closed = TRUE] \in Recorded
  BY DEF Recorded
<1>2. [p EXCEPT !.route = "completed"] \in Recorded
  BY DEF Recorded, Routes
<1>3. /\ [p EXCEPT !.state = "resolved_confirmed"] \in Recorded
      /\ [p EXCEPT !.state = "archived"] \in Recorded
  BY DEF Recorded, LifecycleStates, Resolved
<1> QED
  BY <1>1, <1>2, <1>3 DEF Changed

LEMMA EditArtifactKeeps == EscalationInv /\ EditArtifact => EscalationInv'
<1> SUFFICES ASSUME EscalationInv, EditArtifact PROVE EscalationInv'
  OBVIOUS
<1>1. PICK f \in Readable :
          \/ \E p \in Changed(artifacts[f].payload) :
                artifacts' = [artifacts EXCEPT ![f].payload = p]
          \/ \E c \in Copies : artifacts' = [artifacts EXCEPT ![c] = artifacts[f]]
          \/ artifacts' = [artifacts EXCEPT ![f] = None]
  BY DEF EditArtifact
<1>2. /\ writing = None /\ Stale /\ edits < MaxEdits /\ edits' = edits + 1 /\ writes' = writes
      /\ UNCHANGED <<directory, writing, refused, register, log, policy, closeout>>
  BY DEF EditArtifact, Edited
<1>3. f \in ArtifactFiles /\ artifacts[f] \in Artifacts /\ artifacts[f] # None
  BY DEF EscalationInv, EscalationTypeOK, Readable, Stored
<1>4. artifacts' \in [ArtifactFiles -> Artifacts \union {None, Torn}]
  <2>1. CASE \E p \in Changed(artifacts[f].payload) :
                 artifacts' = [artifacts EXCEPT ![f].payload = p]
    <3>1. PICK p \in Changed(artifacts[f].payload) :
              artifacts' = [artifacts EXCEPT ![f].payload = p]
      BY <2>1
    <3>2. artifacts[f].payload \in Recorded
      BY <1>3 DEF Artifacts
    <3>3. p \in Recorded
      BY <3>2, ChangedIsRecorded
    <3>4. [artifacts[f] EXCEPT !.payload = p] \in Artifacts
      BY <1>3, <3>3 DEF Artifacts
    <3>5. artifacts' = [artifacts EXCEPT ![f] = [artifacts[f] EXCEPT !.payload = p]]
      BY <3>1
    <3> QED
      BY <1>3, <3>4, <3>5 DEF EscalationInv, EscalationTypeOK
  <2>2. CASE \E c \in Copies : artifacts' = [artifacts EXCEPT ![c] = artifacts[f]]
    BY <1>3, <2>2 DEF EscalationInv, EscalationTypeOK
  <2>3. CASE artifacts' = [artifacts EXCEPT ![f] = None]
    BY <1>3, <2>3 DEF EscalationInv, EscalationTypeOK
  <2> QED
    BY <1>1, <2>1, <2>2, <2>3
<1>5. edits' \in 0..MaxEdits /\ edits' # 0
  BY <1>2, EscalationAssumption DEF EscalationInv, EscalationTypeOK
<1>6. EscalationTypeOK'
  BY <1>2, <1>4, <1>5 DEF EscalationInv, EscalationTypeOK
<1>7. directory'
  BY <1>2, <1>3 DEF EscalationInv, EscalationTypeOK, FilesInOrder
<1>8. FilesInOrder'
  BY <1>2, <1>5, <1>7 DEF EscalationInv, FilesInOrder
<1> QED
  BY <1>2, <1>6, <1>8, StaleIsCurrent DEF EscalationInv

LEMMA EscalationInductive == EscalationSpec => []EscalationInv
<1>1. EscalationInv /\ [EscalationNext]_authorityVars => EscalationInv'
  <2>1. ASSUME EscalationInv, UNCHANGED authorityVars PROVE EscalationInv'
    <3>1. UNCHANGED authorityFiles /\ UNCHANGED <<gate, writes, edits>>
      BY <2>1 DEF authorityVars, authorityFiles
    <3>2. EscalationTypeOK' /\ FilesInOrder'
      BY <2>1, <3>1 DEF EscalationInv, EscalationTypeOK, FilesInOrder, authorityFiles
    <3>3. GateIsCurrent'
      <4>1. SUFFICES ASSUME gate # None
                     PROVE  /\ gate.evidence \in Evidence /\ ~Malformed(gate.evidence)
                            /\ gate = Gate(gate.evidence, gate.required)'
        BY <3>1 DEF GateIsCurrent, Malformed
      <4>2. PICK o, required : o = gate.evidence /\ required = gate.required
        OBVIOUS
      <4>3. o \in Evidence /\ ~Malformed(o) /\ gate = Gate(o, required)
        BY <2>1, <4>1, <4>2 DEF EscalationInv, GateIsCurrent
      <4>4. Gate(o, required)' = Gate(o, required)
        BY <3>1, GateStays
      <4> QED
        BY <3>1, <4>2, <4>3, <4>4
    <3> QED
      BY <3>2, <3>3 DEF EscalationInv
  <2> QED
    BY <2>1, DecideKeeps, WriteArtifactKeeps, FillArtifactKeeps, DieWritingKeeps,
       WriteOthersKeeps, EditArtifactKeeps
    DEF EscalationNext
<1> QED
  BY <1>1, EscalationStarts, PTL DEF EscalationSpec

LEMMA LeastOne ==
    ASSUME NEW S \in SUBSET Nat, S # {}
    PROVE  \E m \in S : \A k \in S : m <= k
<1>1. PICK m \in S : \A k \in S : ~(<<k, m>> \in OpToRel(<, Nat))
  BY WFMin, NatLessThanWellFounded
<1>2. \A k \in S : m <= k
  <2> SUFFICES ASSUME NEW k \in S, ~(m <= k) PROVE FALSE
    OBVIOUS
  <2>1. <<k, m>> \in OpToRel(<, Nat)
    BY DEF OpToRel
  <2> QED
    BY <1>1, <2>1
<1> QED
  BY <1>2

(* No file of an escalation speaks louder than its state.                   *)
LEMMA StrongestIs ==
    ASSUME NEW f \in Readable, NEW n \in DOMAIN Precedence,
           artifacts[f].payload.state = Precedence[n]
    PROVE  \E m \in DOMAIN Precedence :
               m <= n /\ Effective(artifacts[f].payload.id) = Precedence[m]
<1>1. PICK e : e = artifacts[f].payload.id
  OBVIOUS
<1> DEFINE ranks == {k \in DOMAIN Precedence :
                       \E g \in Readable : /\ artifacts[g].payload.id = e
                                           /\ artifacts[g].payload.state = Precedence[k]}
<1>2. n \in ranks
  BY <1>1
<1>3. ranks \subseteq DOMAIN Precedence /\ ranks \subseteq Nat
  BY DEF Precedence
<1>4. Effective(e) = IF ranks = {} THEN None
                     ELSE Precedence[CHOOSE m \in ranks : \A k \in ranks : m <= k]
  BY DEF Effective
<1> HIDE DEF ranks
<1>5. PICK m \in ranks : m = (CHOOSE i \in ranks : \A k \in ranks : i <= k)
                         /\ \A k \in ranks : m <= k
  <2>1. \E i \in ranks : \A k \in ranks : i <= k
    BY <1>2, <1>3, LeastOne
  <2> QED
    BY <2>1, Zenon
<1> QED
  BY <1>1, <1>2, <1>3, <1>4, <1>5, Zenon

(* What a gate asked of the files before it opened.                         *)
LEMMA PassedAbsent ==
    ASSUME NEW required, AssessAbsent(required).ok
    PROVE  /\ required => register # None
           /\ ~Expected /\ ~RegisterBad
<1> DEFINE reasons == IF required /\ register = None THEN {"register missing"}
                      ELSE IF Expected THEN {"artifacts missing"}
                      ELSE IF RegisterBad THEN {"register"} ELSE {}
<1>1. AssessAbsent(required) = [ok |-> reasons = {}, blocked |-> reasons # {}, reasons |-> reasons]
  BY DEF AssessAbsent
<1> DEFINE ok == reasons = {}
<1>2. AssessAbsent(required).ok = ok
  <2> DEFINE blocked == reasons # {}
  <2>1. AssessAbsent(required) = [ok |-> ok, blocked |-> blocked, reasons |-> reasons]
    BY <1>1
  <2> HIDE DEF reasons, ok, blocked
  <2> QED
    BY <2>1
<1>3. ok
  BY <1>2
<1> QED
  BY <1>3

PresentReasons(required) ==
    {r \in {"artifact", "precedence", "register missing", "register"} :
        \/ r = "artifact"
           /\ \E f \in Stored : ~Trusted(artifacts[f]) \/ artifacts[f].payload.reasons # {}
        \/ r = "precedence" /\ Standing("invalidated") \union Standing("active") \union Conflicts # {}
        \/ r = "register missing" /\ required /\ register = None
        \/ r = "register" /\ RegisterBad}

LEMMA PresentIs ==
    ASSUME NEW required
    PROVE  /\ AssessPresent(required).ok <=> /\ \A f \in Stored : Trusted(artifacts[f])
                                             /\ PresentReasons(required) \subseteq {"artifact"}
           /\ AssessPresent(required).blocked <=>
                  \/ PresentReasons(required) \ {"artifact"} # {}
                  \/ \E f \in Stored : Blocks(artifacts[f])
           /\ AssessPresent(required).reasons = PresentReasons(required)
<1> DEFINE missing == required /\ register = None
           violated == Standing("invalidated") \union Standing("active") \union Conflicts # {}
           reasons == {r \in {"artifact", "precedence", "register missing", "register"} :
                         \/ /\ r = "artifact"
                            /\ \E f \in Stored :
                                  ~Trusted(artifacts[f]) \/ artifacts[f].payload.reasons # {}
                         \/ r = "precedence" /\ violated
                         \/ r = "register missing" /\ missing
                         \/ r = "register" /\ RegisterBad}
<1>1. AssessPresent(required) =
        [ok |-> (\A f \in Stored : Trusted(artifacts[f])) /\ reasons \subseteq {"artifact"},
         blocked |-> \/ reasons \ {"artifact"} # {}
                     \/ \E f \in Stored : Blocks(artifacts[f]),
         reasons |-> reasons]
  BY Zenon DEF AssessPresent
<1>2. reasons = PresentReasons(required)
  BY DEF PresentReasons
<1> HIDE DEF reasons
<1> DEFINE ok == (\A f \in Stored : Trusted(artifacts[f])) /\ reasons \subseteq {"artifact"}
           blocked == reasons \ {"artifact"} # {} \/ \E f \in Stored : Blocks(artifacts[f])
<1>3. AssessPresent(required) = [ok |-> ok, blocked |-> blocked, reasons |-> reasons]
  BY <1>1
<1>4. /\ AssessPresent(required).ok = ok /\ AssessPresent(required).blocked = blocked
      /\ AssessPresent(required).reasons = reasons
  <2> HIDE DEF ok, blocked
  <2> QED
    BY <1>3
<1>5. (AssessPresent(required).ok <=> ok) /\ (AssessPresent(required).blocked <=> blocked)
  BY <1>4
<1> QED
  BY <1>2, <1>4, <1>5

LEMMA PassedPresent ==
    ASSUME EscalationTypeOK, NEW required,
           AssessPresent(required).ok, ~AssessPresent(required).blocked
    PROVE  /\ required => register # None
           /\ ~RegisterBad
           /\ \A f \in Stored : Trusted(artifacts[f]) /\ ~artifacts[f].payload.blocked
           /\ \A f \in Readable :
                 /\ artifacts[f].payload.state \notin {"active", "invalidated"}
                 /\ artifacts[f].payload.state = "resolved_confirmed" =>
                        artifacts[f].payload.id \notin ActiveIds
<1>1. /\ \A f \in Stored : Trusted(artifacts[f])
      /\ PresentReasons(required) \subseteq {"artifact"}
      /\ \A f \in Stored : ~Blocks(artifacts[f])
  BY PresentIs
<1>2. /\ "precedence" \notin PresentReasons(required)
      /\ "register missing" \notin PresentReasons(required)
      /\ "register" \notin PresentReasons(required)
  BY <1>1
<1>3. /\ Standing("invalidated") = {} /\ Standing("active") = {} /\ Conflicts = {}
      /\ ~(required /\ register = None) /\ ~RegisterBad
  BY <1>2 DEF PresentReasons
<1>4. ASSUME NEW f \in Readable
      PROVE  /\ artifacts[f].payload.state \notin {"active", "invalidated"}
             /\ artifacts[f].payload.state = "resolved_confirmed" =>
                    artifacts[f].payload.id \notin ActiveIds
  <2>1. artifacts[f] \in Artifacts /\ artifacts[f].payload.id \in Escalations
    BY DEF Readable, Stored, EscalationTypeOK, Artifacts, Recorded
  <2>2. PICK e : e = artifacts[f].payload.id
    OBVIOUS
  <2>3. Effective(e) \notin {"active", "invalidated"}
    BY <1>3, <2>1, <2>2 DEF Standing
  <2>4. e \in ActiveIds => Effective(e) # "resolved_confirmed"
    BY <1>3 DEF Conflicts
  <2>5. /\ DOMAIN Precedence = 1..6 /\ Precedence[1] = "invalidated" /\ Precedence[2] = "active"
        /\ Precedence[3] = "resolved_confirmed"
    BY DEF Precedence
  <2>6. artifacts[f].payload.state # "invalidated"
    <3> SUFFICES ASSUME artifacts[f].payload.state = Precedence[1] PROVE FALSE
      BY <2>5
    <3>1. PICK m \in 1..6 : m <= 1 /\ Effective(e) = Precedence[m]
      BY <2>2, <2>5, StrongestIs
    <3>2. m = 1
      BY <3>1
    <3> QED
      BY <2>3, <2>5, <3>1, <3>2
  <2>7. artifacts[f].payload.state # "active"
    <3> SUFFICES ASSUME artifacts[f].payload.state = Precedence[2] PROVE FALSE
      BY <2>5
    <3>1. PICK m \in 1..6 : m <= 2 /\ Effective(e) = Precedence[m]
      BY <2>2, <2>5, StrongestIs
    <3>2. m = 1 \/ m = 2
      BY <3>1
    <3> QED
      BY <2>3, <2>5, <3>1, <3>2
  <2>8. artifacts[f].payload.state = "resolved_confirmed" => e \notin ActiveIds
    <3> SUFFICES ASSUME artifacts[f].payload.state = Precedence[3], e \in ActiveIds PROVE FALSE
      BY <2>5
    <3>1. PICK m \in 1..6 : m <= 3 /\ Effective(e) = Precedence[m]
      BY <2>2, <2>5, StrongestIs
    <3>2. m = 1 \/ m = 2 \/ m = 3
      BY <3>1
    <3> QED
      BY <2>3, <2>4, <2>5, <3>1, <3>2
  <2> QED
    BY <2>2, <2>6, <2>7, <2>8
<1> QED
  BY <1>1, <1>3, <1>4 DEF Blocks

(* A trusted artifact says what it was sealed with, up to what the hashes   *)
(* do not cover; and what stands against it shows in a flag edited away.    *)
LEMMA TrustedIs ==
    ASSUME NEW a \in Artifacts, Trusted(a)
    PROVE  /\ [a.sealed EXCEPT !.closed = a.payload.closed, !.blocked = a.payload.blocked,
                               !.reasons = a.payload.reasons] = a.payload
           /\ Blocking(a.payload) # {} /\ ~a.payload.blocked => a.payload # a.sealed
<1> DEFINE p == a.payload
           c == Canonical(a.payload)
<1>1. p \in Recorded /\ a.sealed = c
  BY DEF Trusted, Artifacts
<1>2. /\ c \in Recorded /\ c.blocked = Normalized(p).blocked
      /\ SameFacts(p, [c EXCEPT !.closed = p.closed])
      /\ Normalized(p).blocked = (p.blocked \/ Blocking(p) # {})
  BY <1>1, CanonicalIs, NormalizedIs
<1> HIDE DEF c, p
<1> DEFINE q == [c EXCEPT !.closed = p.closed, !.blocked = p.blocked, !.reasons = p.reasons]
<1>3. q \in Recorded /\ q.blocked = p.blocked /\ q.reasons = p.reasons
  BY <1>1, <1>2 DEF Recorded
<1>4. SameFacts(p, q)
  BY <1>1, <1>2 DEF Recorded, SameFacts
<1>5. q = p
  <2> HIDE DEF q
  <2> QED
    BY <1>1, <1>3, <1>4, RecordedEqual
<1>6. Blocking(p) # {} /\ ~p.blocked => p # c
  BY <1>2
<1> QED
  BY <1>1, <1>5, <1>6 DEF p

(* What follows from the payload of a trusted artifact alone: a confirmed   *)
(* resolution was confirmed.                                                *)
LEMMA TrustedIsConfirmed ==
    ASSUME NEW a, Trusted(a), a.payload.state = "resolved_confirmed"
    PROVE  /\ a.payload.transition.from = "resolved_provisional" /\ ~a.payload.transition.auto
           /\ a.payload.transition.actor \in {"reviewer", "reviewer_confirmed"}
           /\ a.payload.transition.confirmed
<1> DEFINE p == a.payload
           t == p.transition
           plain == FieldErrors(p) \union CoverageErrors(p) \union StateErrors(p)
<1>1. Errors(p) = {}
  BY DEF Trusted
<1>2. plain = {} /\ TransitionErrors(p, plain) = {}
  BY <1>1, Zenon DEF Errors
<1>3. TransitionErrors(p, {}) = {}
  BY <1>2, Zenon
<1> HIDE DEF plain
<1>4. p.state \in Resolved /\ p.state = "resolved_confirmed"
  BY DEF Resolved
<1> HIDE DEF p
<1>5. /\ "transition" \notin TransitionErrors(p, {})
      /\ "guard" \notin TransitionErrors(p, {})
      /\ "confirmation" \notin TransitionErrors(p, {})
  BY <1>3
<1>6. t # None
  BY <1>4, <1>5 DEF TransitionErrors
<1>7. TransitionAllowed(t, "resolved_confirmed") /\ t.confirmed
  BY <1>4, <1>5, <1>6 DEF TransitionErrors
<1>8. t.from = "resolved_provisional"
  <2>1. <<t.from, "resolved_confirmed">> \in AllowedTransitions
    BY <1>7 DEF TransitionAllowed
  <2> QED
    BY <2>1 DEF AllowedTransitions, Resolved
<1>9. ~t.auto /\ t.actor \in {"reviewer", "reviewer_confirmed"}
  BY <1>7 DEF TransitionAllowed
<1> QED
  BY <1>7, <1>8, <1>9 DEF p

(* A gate that let something through asked the files, with good answers.    *)
LEMMA GatePassed ==
    ASSUME NEW o, NEW required, Gate(o, required).promote
    PROVE  /\ CurrentState(o) = "closure_verified"
           /\ Assess(required).ok /\ ~Assess(required).blocked
<1> DEFINE promote == GateOpen(CurrentState(o), Assess(required))
<1>1. Gate(o, required).promote = promote
  <2> HIDE DEF promote
  <2>1. \E a, b, c : Gate(o, required) =
            [evidence |-> o, state |-> a, required |-> b, promote |-> promote, reasons |-> c]
    BY Zenon DEF Gate, promote
  <2> QED
    BY <2>1
<1>2. promote
  BY <1>1
<1> QED
  BY <1>2 DEF GateOpen

LEMMA GateSays ==
    ASSUME NEW o, NEW required
    PROVE  /\ Gate(o, required).state = CurrentState(o)
           /\ Gate(o, required).reasons =
                 (IF CurrentState(o) = "closure_verified" THEN {} ELSE {"aggregation"})
                   \union (IF Assess(required).ok /\ ~Assess(required).blocked THEN {}
                           ELSE Assess(required).reasons)
<1> DEFINE promote == GateOpen(CurrentState(o), Assess(required))
           reasons == (IF CurrentState(o) = "closure_verified" THEN {} ELSE {"aggregation"})
                        \union (IF Assess(required).ok /\ ~Assess(required).blocked THEN {}
                                ELSE Assess(required).reasons)
<1>1. Gate(o, required) = [evidence |-> o, state |-> CurrentState(o), required |-> required,
                           promote |-> promote, reasons |-> reasons]
  BY Zenon DEF Gate
<1> HIDE DEF promote, reasons
<1>2. Gate(o, required).state = CurrentState(o) /\ Gate(o, required).reasons = reasons
  BY <1>1
<1> QED
  BY <1>2 DEF reasons

LEMMA ShutIsSaid ==
    ASSUME NEW o, NEW required, ~Gate(o, required).promote
    PROVE  CurrentState(o) # "closure_verified" \/ ~Assess(required).ok \/ Assess(required).blocked
<1> DEFINE promote == GateOpen(CurrentState(o), Assess(required))
<1>1. Gate(o, required).promote = promote
  <2> HIDE DEF promote
  <2>1. \E a, b, c : Gate(o, required) =
            [evidence |-> o, state |-> a, required |-> b, promote |-> promote, reasons |-> c]
    BY Zenon DEF Gate, promote
  <2> QED
    BY <2>1
<1>2. ~promote
  BY <1>1
<1> QED
  BY <1>2 DEF GateOpen

LEMMA OpenIsGood == EscalationInv => OpenedForGoodReason
<1> SUFFICES ASSUME EscalationInv, gate # None, gate.promote
             PROVE  OpenedForGoodReason
  BY DEF OpenedForGoodReason
<1>1. PICK o, required : o = gate.evidence /\ required = gate.required
  OBVIOUS
<1>2. Gate(o, required).promote
  BY <1>1 DEF EscalationInv, GateIsCurrent
<1>3. Assess(required).ok /\ ~Assess(required).blocked
  BY <1>2, GatePassed
<1>4. CASE directory
  <2>1. AssessPresent(required).ok /\ ~AssessPresent(required).blocked
    BY <1>3, <1>4 DEF Assess
  <2>2. /\ required => register # None
        /\ ~RegisterBad
        /\ \A f \in Stored : Trusted(artifacts[f]) /\ ~artifacts[f].payload.blocked
        /\ \A f \in Readable :
              /\ artifacts[f].payload.state \notin {"active", "invalidated"}
              /\ artifacts[f].payload.state = "resolved_confirmed" =>
                     artifacts[f].payload.id \notin ActiveIds
    BY <2>1, PassedPresent DEF EscalationInv
  <2>3. writing = None
    <3> SUFFICES ASSUME writing # None PROVE FALSE
      OBVIOUS
    <3>1. writing.file \in ArtifactFiles /\ artifacts[writing.file] = Torn
      BY DEF EscalationInv, EscalationTypeOK, FilesInOrder, ArtifactFiles
    <3>2. writing.file \in Stored
      BY <3>1, EscalationAssumption DEF Stored
    <3> QED
      BY <2>2, <3>1, <3>2 DEF Trusted
  <2>4. ASSUME NEW f \in Stored
        PROVE  LET a == artifacts[f]
               IN  /\ a # Torn /\ a.writer /\ a.valid
                   /\ a.payload.state \notin {"active", "invalidated"}
                   /\ [a.sealed EXCEPT !.closed = a.payload.closed, !.blocked = a.payload.blocked,
                                       !.reasons = a.payload.reasons] = a.payload
                   /\ Blocking(a.payload) # {} => ~a.payload.blocked /\ a.payload # a.sealed
                   /\ a.payload.state = "resolved_confirmed" => a.payload.id \notin ActiveIds
    <3>1. PICK a : a = artifacts[f]
      OBVIOUS
    <3>2. Trusted(a) /\ ~a.payload.blocked
      BY <2>2, <3>1
    <3>3. a \notin {None, Torn} /\ a.writer /\ a.valid
      BY <3>2 DEF Trusted
    <3>4. a \in Artifacts
      BY <3>1, <3>3 DEF Stored, EscalationInv, EscalationTypeOK
    <3>5. f \in Readable
      BY <3>1, <3>3 DEF Readable
    <3>6. /\ [a.sealed EXCEPT !.closed = a.payload.closed, !.blocked = a.payload.blocked,
                              !.reasons = a.payload.reasons] = a.payload
          /\ Blocking(a.payload) # {} => a.payload # a.sealed
      BY <3>2, <3>4, TrustedIs
    <3>7. /\ a.payload.state \notin {"active", "invalidated"}
          /\ a.payload.state = "resolved_confirmed" => a.payload.id \notin ActiveIds
      BY <2>2, <3>1, <3>5
    <3> QED
      BY <3>1, <3>2, <3>3, <3>6, <3>7
  <2>5. register = None \/ (register # Torn /\ register.trusted)
    BY <2>2 DEF RegisterBad
  <2> QED
    BY <1>1, <1>4, <2>2, <2>3, <2>4, <2>5 DEF OpenedForGoodReason
<1>5. CASE ~directory
  <2>1. AssessAbsent(required).ok
    BY <1>3, <1>5 DEF Assess
  <2>2. (required => register # None) /\ ~Expected /\ ~RegisterBad
    BY <2>1, PassedAbsent
  <2>3. Stored = {}
    BY <1>5 DEF EscalationInv, FilesInOrder, Stored
  <2>4. writing = None /\ log # {}
    BY <1>5 DEF EscalationInv, FilesInOrder
  <2>5. log = None
    BY <2>2, <2>4 DEF Expected
  <2>6. ActiveIds = {}
    BY <2>2 DEF Expected, ActiveIds
  <2>7. register = None \/ (register # Torn /\ register.trusted)
    BY <2>2 DEF RegisterBad
  <2> QED
    BY <1>1, <2>2, <2>3, <2>4, <2>5, <2>6, <2>7 DEF OpenedForGoodReason
<1> QED
  BY <1>4, <1>5

LEMMA EnteredIsEvident == EscalationInv => EnteredOnEvidence
<1> SUFFICES ASSUME EscalationInv, gate # None, Entered(gate)
             PROVE  EnteredOnEvidence
  BY DEF EnteredOnEvidence
<1>1. PICK o, required : o = gate.evidence /\ required = gate.required
  OBVIOUS
<1>2. gate = Gate(o, required) /\ ~Malformed(o) /\ gate.promote
  BY <1>1 DEF EscalationInv, GateIsCurrent, Entered
<1>3. CurrentState(o) = "closure_verified" /\ Assess(required).ok /\ ~Assess(required).blocked
  BY <1>2, GatePassed
<1>4. gate.reasons = {}
  BY <1>2, <1>3, GateSays
<1>5. /\ "observed" \notin o.statuses /\ ~Untested(o) /\ o.historical /\ o.remediated
      /\ Adequate(o) /\ o.covers /\ Approved(o)
  BY <1>3 DEF CurrentState
<1>6. o.approval.role \in ApproverRoles
  BY <1>2, <1>5 DEF Malformed, Approved
<1> QED
  BY <1>1, <1>4, <1>5, <1>6 DEF EnteredOnEvidence, Untested, Adequate, ApproverRoles

LEMMA ShutIsReasoned == EscalationInv => ShutWithReason
<1> SUFFICES ASSUME EscalationInv, gate # None, ~gate.promote, gate.reasons = {}
             PROVE  \E f \in Readable : artifacts[f].payload.blocked /\ artifacts[f].payload.reasons = {}
  BY DEF ShutWithReason
<1>1. PICK o, required : o = gate.evidence /\ required = gate.required
  OBVIOUS
<1>2. gate = Gate(o, required)
  BY <1>1 DEF EscalationInv, GateIsCurrent
<1>3. CurrentState(o) = "closure_verified"
  BY <1>2, GateSays
<1>4. ~Assess(required).ok \/ Assess(required).blocked
  BY <1>2, <1>3, ShutIsSaid
<1>5. Assess(required).reasons = {}
  BY <1>2, <1>4, GateSays
<1>6. directory
  <2> SUFFICES ASSUME ~directory PROVE FALSE
    OBVIOUS
  <2>1. AssessAbsent(required).reasons = {} /\ (~AssessAbsent(required).ok \/ AssessAbsent(required).blocked)
    BY <1>4, <1>5 DEF Assess
  <2>2. \E reasons : AssessAbsent(required) =
            [ok |-> reasons = {}, blocked |-> reasons # {}, reasons |-> reasons]
    BY Zenon DEF AssessAbsent
  <2>3. PICK reasons : AssessAbsent(required) =
            [ok |-> reasons = {}, blocked |-> reasons # {}, reasons |-> reasons]
    BY <2>2
  <2>4. AssessAbsent(required).reasons = reasons
    BY <2>3
  <2>5. AssessAbsent(required) = [ok |-> TRUE, blocked |-> FALSE, reasons |-> reasons]
    BY <2>1, <2>3, <2>4
  <2> QED
    BY <2>1, <2>5
<1>7. PresentReasons(required) = {} /\ (~AssessPresent(required).ok \/ AssessPresent(required).blocked)
  BY <1>4, <1>5, <1>6, PresentIs DEF Assess
<1>8. \A f \in Stored : Trusted(artifacts[f]) /\ artifacts[f].payload.reasons = {}
  <2>1. "artifact" \notin PresentReasons(required)
    BY <1>7
  <2> QED
    BY <2>1 DEF PresentReasons
<1>9. \E f \in Stored : Blocks(artifacts[f])
  BY <1>7, <1>8, PresentIs
<1>10. PICK f \in Stored : Blocks(artifacts[f])
  BY <1>9
<1>11. artifacts[f].payload.blocked /\ artifacts[f] # Torn
  BY <1>8, <1>10 DEF Blocks, Trusted
<1> QED
  BY <1>8, <1>11 DEF Readable

LEMMA RefusedIsShut == EscalationInv => RefusedStaysShut
<1> SUFFICES ASSUME EscalationInv, gate # None, gate.promote, NEW e \in refused, ~(edits > 0)
             PROVE  Trusted(artifacts[e])
  BY DEF RefusedStaysShut
<1>1. edits = 0 /\ e \in ArtifactFiles
  BY EscalationAssumption DEF EscalationInv, EscalationTypeOK, ArtifactFiles
<1>2. e \in Stored
  BY <1>1 DEF EscalationInv, FilesInOrder, Stored
<1>3. PICK o, required : o = gate.evidence /\ required = gate.required
  OBVIOUS
<1>4. Gate(o, required).promote
  BY <1>3 DEF EscalationInv, GateIsCurrent
<1>5. directory
  BY <1>2 DEF EscalationInv, FilesInOrder, Stored
<1>6. AssessPresent(required).ok
  BY <1>4, <1>5, GatePassed DEF Assess
<1> QED
  BY <1>2, <1>6, PresentIs

LEMMA PhaseDIsClosed == PhaseDClosed
<1> SUFFICES ASSUME NEW resolved \in BOOLEAN, NEW status \in PhaseStatuses,
                    PhaseDViolations({status}, resolved) = {}
             PROVE  /\ status = "passed" =>
                          /\ closeout \notin {None, Torn} /\ closeout.writer
                          /\ RequiredConditions \subseteq closeout.conditions
                          /\ Recommended(resolved) = "completed"
                    /\ Recommended(resolved) = "pending" =>
                          status \in {"pending", "in_progress", "other"}
  BY DEF PhaseDClosed
<1>1. /\ "gap" \notin PhaseDViolations({status}, resolved)
      /\ "closeout" \notin PhaseDViolations({status}, resolved)
      /\ "resumable" \notin PhaseDViolations({status}, resolved)
  OBVIOUS
<1>2. /\ status = "passed" => resolved /\ CloseoutOk
      /\ status = "resumable" => resolved
  BY <1>1 DEF PhaseDViolations
<1>3. CloseoutOk => /\ closeout \notin {None, Torn} /\ closeout.writer
                    /\ RequiredConditions \subseteq closeout.conditions
  <2> SUFFICES ASSUME CloseoutReasons = {}
               PROVE  /\ closeout \notin {None, Torn} /\ closeout.writer
                      /\ RequiredConditions \subseteq closeout.conditions
    BY DEF CloseoutOk
  <2>1. closeout \notin {None, Torn}
    BY DEF CloseoutReasons
  <2>2. /\ "writer" \notin CloseoutReasons /\ "empty" \notin CloseoutReasons
    OBVIOUS
  <2>3. closeout.writer /\ closeout.conditions # {}
    BY <2>1, <2>2 DEF CloseoutReasons
  <2>4. RequiredConditions \ closeout.conditions \subseteq CloseoutReasons
    BY <2>1, <2>3 DEF CloseoutReasons
  <2> QED
    BY <2>1, <2>3, <2>4
<1>4. /\ resolved /\ CloseoutOk => Recommended(resolved) = "completed"
      /\ Recommended(resolved) = "pending" => ~resolved
  BY DEF Recommended
<1> QED
  BY <1>2, <1>3, <1>4 DEF PhaseStatuses

(* Whatever is written, torn, edited by hand or left beside the artifacts:  *)
(* the writer and the reader agree on what is valid, a confirmed resolution *)
(* was confirmed by a reviewer, the gate opens only on artifacts that are   *)
(* as they were written and stand against nothing, and on evidence, it      *)
(* stays shut for a reason, and phase D is closed only when it was signed.  *)
THEOREM EscalationIsSound == EscalationSpec => []EscalationSound
<1>1. EscalationInv => EscalationSound
  <2> SUFFICES ASSUME EscalationInv PROVE EscalationSound
    OBVIOUS
  <2>1. WriterAgreesWithReader
    <3> SUFFICES ASSUME writing # None
                 PROVE  /\ Trusted(writing.artifact) <=> writing.artifact.valid
                        /\ Normalized(writing.artifact.payload) = writing.artifact.payload
      BY DEF WriterAgreesWithReader
    <3>1. PICK p \in Payloads : writing.artifact = Artifact(p)
      BY DEF EscalationInv, FilesInOrder
    <3>2. p \in Recorded
      BY EscalationAssumption
    <3> QED
      BY <3>1, <3>2, ArtifactIs, NormalizedAgain
  <2>2. ConfirmedByReviewer
    BY TrustedIsConfirmed DEF ConfirmedByReviewer
  <2> QED
    BY <2>1, <2>2, OpenIsGood, EnteredIsEvident, ShutIsReasoned, RefusedIsShut, PhaseDIsClosed
    DEF EscalationSound, EscalationInv
<1> QED
  BY <1>1, EscalationInductive, PTL

-----------------------------------------------------------------------------
(* The hooks in the settings files of the agents.                           *)

(* The hook of the framework stands in a file once at most. *)
OwnOnce(data) ==
    \A i, j \in DOMAIN data.groups :
        data.groups[i].own > 0 /\ data.groups[j].own > 0 => i = j /\ data.groups[i].own = 1

(* What the user wanted of a file stands in it. *)
AsWanted(wish, data) ==
    /\ HasForeign(data) <=> wish.foreign = 1
    /\ data.other = wish.other

(* What the files hold for those who read them. *)
Contents == [f \in SettingsFiles |-> ReadJson(f)]

AdaptersTyped ==
    /\ config \in [SettingsFiles -> Settings \union {None, Torn}]
    /\ command \in Commands \union {None}
    /\ wanted \in [SettingsFiles -> [foreign : {0, 1}, other : BOOLEAN]]
    /\ lost \subseteq SettingsFiles
    /\ hookEdits \in Nat

SettingsKept ==
    \A f \in SettingsFiles \ lost :
        config[f] # Torn /\ AsWanted(wanted[f], Contents[f]) /\ OwnOnce(Contents[f])

(* What a command is about to write is made of what stands in the file, if  *)
(* that has not been edited since.                                          *)
ReadFresh ==
    command # None /\ command.data # None =>
        LET agent == Head(command.todo)
        IN  /\ command.todo # <<>> /\ agent \in Automatic /\ command.op # "verify"
            /\ command.op # "uninstall" => ~HasOwn(command.data)
            /\ FileOf[agent] \notin lost => command.data = Contents[FileOf[agent]]

(* What a result that is not an error says of its agent.                    *)
HoldsOf(files, op, result) ==
    \/ result.agent \notin Automatic \/ result.status = "raises"
    \/ op = "verify" /\ result.status = "not_installed"
    \/ op = "uninstall" /\ ~HasOwn(files[FileOf[result.agent]])
    \/ op # "uninstall" /\ \E f \in SeenBy(result.agent) : HasOwn(files[f])

AllHold(files, op, results) == \A i \in DOMAIN results : HoldsOf(files, op, results[i])

ResultsHold ==
    /\ command # None =>
          /\ report = None /\ command.since <= hookEdits
          /\ command.since = hookEdits => AllHold(Contents, command.op, command.results)
    /\ report # None =>
          /\ report.results \in Seq(Results) /\ report.since \in 0..hookEdits
          /\ report.exit = ExitCode(report.op, report.results)
          /\ report.since = hookEdits => AllHold(Contents, report.op, report.results)

AdaptersInv == AdaptersTyped /\ SettingsKept /\ ReadFresh /\ ResultsHold

-----------------------------------------------------------------------------
(* What the operations make of a file. *)
LEMMA NoSettingsAre ==
    NoSettings \in Settings /\ ~HasOwn(NoSettings) /\ ~HasForeign(NoSettings)
    /\ NoSettings.other = FALSE /\ OwnOnce(NoSettings)
BY DEF NoSettings, Settings, HasOwn, HasForeign, OwnOnce

LEMMA GroupIs ==
    ASSUME NEW own \in Nat, NEW foreign \in Nat
    PROVE  /\ Group(own, foreign) \in Groups
           /\ Group(own, foreign).own = own /\ Group(own, foreign).foreign = foreign
BY DEF Group, Groups

LEMMA AddedIs ==
    ASSUME NEW data \in Settings
    PROVE  /\ Added(data) \in Settings /\ HasOwn(Added(data))
           /\ HasForeign(Added(data)) <=> HasForeign(data)
           /\ Added(data).other = data.other
           /\ ~HasOwn(data) => OwnOnce(Added(data))
<1> DEFINE groups == IF data.groups = <<>> THEN <<Group(1, 0)>>
                     ELSE [data.groups EXCEPT ![1].own = @ + 1]
<1>1. /\ data.groups \in Seq(Groups) /\ data.other \in BOOLEAN
  BY DEF Settings
<1>2. groups \in Seq(Groups)
  <2>1. CASE data.groups = <<>>
    BY <2>1, GroupIs
  <2>2. CASE data.groups # <<>>
    <3>1. 1 \in DOMAIN data.groups /\ data.groups[1] \in Groups
      BY <1>1, <2>2
    <3>2. [data.groups[1] EXCEPT !.own = @ + 1] \in Groups
      BY <3>1 DEF Groups
    <3> QED
      BY <1>1, <2>2, <3>1, <3>2
  <2> QED
    BY <2>1, <2>2
<1>3. /\ Added(data) \in Settings
      /\ Added(data).groups = groups /\ Added(data).other = data.other
  <2>1. Added(data) = [data EXCEPT !.hooks = TRUE, !.groups = groups]
    BY DEF Added
  <2> QED
    BY <1>1, <1>2, <2>1 DEF Settings
<1>4. CASE data.groups = <<>>
  <2>1. groups = <<Group(1, 0)>> /\ DOMAIN groups = {1} /\ groups[1] = Group(1, 0)
    BY <1>4
  <2> QED
    BY <1>3, <1>4, <2>1, GroupIs DEF HasOwn, HasForeign, OwnOnce
<1>5. CASE data.groups # <<>>
  <2>1. /\ 1 \in DOMAIN data.groups /\ DOMAIN groups = DOMAIN data.groups
        /\ \A i \in DOMAIN groups : data.groups[i] \in Groups
    BY <1>1, <1>5
  <2>2. /\ groups[1] = [data.groups[1] EXCEPT !.own = @ + 1]
        /\ \A i \in DOMAIN groups \ {1} : groups[i] = data.groups[i]
    BY <1>1, <1>5, <2>1
  <2>3. groups[1].own = data.groups[1].own + 1 /\ groups[1].foreign = data.groups[1].foreign
    BY <2>1, <2>2 DEF Groups
  <2>4. data.groups[1].own \in Nat
    BY <2>1 DEF Groups
  <2>5. HasOwn(Added(data))
    BY <1>3, <2>1, <2>3, <2>4 DEF HasOwn
  <2>6. HasForeign(Added(data)) <=> HasForeign(data)
    BY <1>3, <2>1, <2>2, <2>3 DEF HasForeign
  <2>7. ASSUME ~HasOwn(data) PROVE OwnOnce(Added(data))
    <3>1. data.groups[1].own = 0 /\ \A i \in DOMAIN groups \ {1} : ~(groups[i].own > 0)
      BY <2>1, <2>2, <2>4, <2>7 DEF HasOwn
    <3> QED
      BY <1>3, <2>3, <3>1 DEF OwnOnce
  <2> QED
    BY <1>3, <2>5, <2>6, <2>7
<1> QED
  BY <1>4, <1>5

LEMMA RemovedIs ==
    ASSUME NEW data \in Settings
    PROVE  /\ Removed(data) \in Settings /\ ~HasOwn(Removed(data))
           /\ HasForeign(Removed(data)) <=> HasForeign(data)
           /\ Removed(data).other = data.other
           /\ OwnOnce(Removed(data))
<1> DEFINE groups == [i \in DOMAIN data.groups |-> [data.groups[i] EXCEPT !.own = 0]]
<1>1. /\ data.groups \in Seq(Groups) /\ data.other \in BOOLEAN
  BY DEF Settings
<1>2. /\ Len(data.groups) \in Nat /\ DOMAIN data.groups = 1..Len(data.groups)
      /\ \A i \in DOMAIN data.groups : data.groups[i] \in Groups
  BY <1>1
<1>3. \A i \in DOMAIN data.groups :
          /\ groups[i] \in Groups /\ groups[i].own = 0
          /\ groups[i].foreign = data.groups[i].foreign
  BY <1>2 DEF Groups
<1>4. groups \in Seq(Groups) /\ DOMAIN groups = DOMAIN data.groups
  <2>1. groups \in [1..Len(data.groups) -> Groups]
    BY <1>2, <1>3
  <2> QED
    BY <1>2, <2>1, SeqDef
<1>5. /\ Removed(data) \in Settings
      /\ Removed(data).groups = groups /\ Removed(data).other = data.other
  <2>1. Removed(data) = [data EXCEPT !.groups = groups]
    BY DEF Removed
  <2> QED
    BY <1>1, <1>4, <2>1 DEF Settings
<1> HIDE DEF groups
<1> QED
  BY <1>3, <1>4, <1>5 DEF HasOwn, HasForeign, OwnOnce

(* A hook of the user's own goes to the front, in a group of its own. *)
LEMMA PutInFront ==
    ASSUME NEW data \in Settings,
           NEW new, new = [data EXCEPT !.hooks = TRUE, !.groups = <<Group(0, 1)>> \o @]
    PROVE  /\ new \in Settings /\ (HasOwn(new) <=> HasOwn(data)) /\ HasForeign(new)
           /\ new.other = data.other
           /\ OwnOnce(data) => OwnOnce(new)
<1> DEFINE groups == <<Group(0, 1)>> \o data.groups
           n == Len(data.groups)
<1>1. /\ data.groups \in Seq(Groups) /\ data.other \in BOOLEAN
      /\ n \in Nat /\ DOMAIN data.groups = 1..n
  BY DEF Settings
<1>2. Group(0, 1) \in Groups /\ Group(0, 1).own = 0 /\ Group(0, 1).foreign = 1
  BY GroupIs
<1>3. /\ groups \in Seq(Groups) /\ DOMAIN groups = 1..(n + 1)
      /\ groups[1] = Group(0, 1) /\ \A i \in 1..n : groups[i + 1] = data.groups[i]
  BY <1>1, <1>2
<1>4. /\ new \in Settings /\ new.groups = groups /\ new.other = data.other
  BY <1>1, <1>3 DEF Settings
<1> HIDE DEF groups, n
<1>5. HasForeign(new)
  BY <1>1, <1>2, <1>3, <1>4 DEF HasForeign
<1>6. \A i \in DOMAIN groups : groups[i].own > 0 =>
          i - 1 \in 1..n /\ groups[i] = data.groups[i - 1] /\ groups[i].own = data.groups[i - 1].own
  <2> SUFFICES ASSUME NEW i \in 1..(n + 1), groups[i].own > 0
               PROVE  i - 1 \in 1..n /\ groups[i] = data.groups[i - 1]
    BY <1>3
  <2>1. i # 1
    BY <1>2, <1>3
  <2>2. i - 1 \in 1..n /\ (i - 1) + 1 = i
    BY <1>1, <2>1
  <2> QED
    BY <1>3, <2>2
<1>7. HasOwn(new) <=> HasOwn(data)
  <2>1. ASSUME HasOwn(new) PROVE HasOwn(data)
    BY <1>1, <1>4, <1>6, <2>1 DEF HasOwn
  <2>2. ASSUME HasOwn(data) PROVE HasOwn(new)
    <3>1. PICK i \in 1..n : data.groups[i].own > 0
      BY <1>1, <2>2 DEF HasOwn
    <3>2. i + 1 \in DOMAIN groups /\ groups[i + 1] = data.groups[i]
      BY <1>1, <1>3
    <3> QED
      BY <1>4, <3>1, <3>2 DEF HasOwn
  <2> QED
    BY <2>1, <2>2
<1>8. ASSUME OwnOnce(data) PROVE OwnOnce(new)
  <2> SUFFICES ASSUME NEW i \in DOMAIN groups, NEW j \in DOMAIN groups,
                      groups[i].own > 0, groups[j].own > 0
               PROVE  i = j /\ groups[i].own = 1
    BY <1>4 DEF OwnOnce
  <2>1. i - 1 = j - 1 /\ data.groups[i - 1].own = 1
    BY <1>1, <1>6, <1>8 DEF OwnOnce
  <2>2. i = j
    BY <1>1, <1>3, <2>1
  <2> QED
    BY <1>6, <2>1, <2>2
<1> QED
  BY <1>4, <1>5, <1>7, <1>8

-----------------------------------------------------------------------------
LEMMA ContentsAre ==
    ASSUME AdaptersTyped
    PROVE  /\ Contents \in [SettingsFiles -> Settings]
           /\ \A f \in SettingsFiles : ReadJson(f) = Contents[f]
BY NoSettingsAre DEF AdaptersTyped, Contents, ReadJson

(* A file that is written holds what was written, and the others stay. *)
LEMMA PutIs ==
    ASSUME AdaptersTyped, NEW path \in SettingsFiles, NEW new \in Settings,
           config' = [config EXCEPT ![path] = new]
    PROVE  /\ config' \in [SettingsFiles -> Settings \union {None, Torn}]
           /\ config'[path] # Torn
           /\ \A f \in SettingsFiles \ {path} : config'[f] = config[f]
           /\ Contents' = [Contents EXCEPT ![path] = new]
<1>1. /\ config' \in [SettingsFiles -> Settings \union {None, Torn}]
      /\ config'[path] = new /\ new \notin {None, Torn}
      /\ \A f \in SettingsFiles \ {path} : config'[f] = config[f]
  BY AdaptersAssumption DEF AdaptersTyped
<1>2. \A f \in SettingsFiles : Contents'[f] = [Contents EXCEPT ![path] = new][f]
  BY <1>1 DEF Contents, ReadJson
<1>3. Contents' = [Contents EXCEPT ![path] = new]
  BY <1>2 DEF Contents
<1> QED
  BY <1>1, <1>3

LEMMA AdaptersStart == AdaptersInit => AdaptersInv
<1> SUFFICES ASSUME AdaptersInit PROVE AdaptersInv
  OBVIOUS
<1>1. AdaptersTyped
  BY DEF AdaptersInit, AdaptersTyped
<1>2. SettingsKept
  <2> SUFFICES ASSUME NEW f \in SettingsFiles
               PROVE  config[f] # Torn /\ AsWanted(wanted[f], Contents[f]) /\ OwnOnce(Contents[f])
    BY DEF SettingsKept
  <2>1. config[f] = None /\ Contents[f] = NoSettings
    BY DEF AdaptersInit, Contents, ReadJson
  <2>2. wanted[f].foreign = 0 /\ wanted[f].other = FALSE
    BY DEF AdaptersInit
  <2>3. ~HasForeign(Contents[f]) /\ Contents[f].other = wanted[f].other /\ OwnOnce(Contents[f])
    BY <2>1, <2>2, NoSettingsAre, Zenon
  <2>4. config[f] # Torn /\ ~(wanted[f].foreign = 1)
    BY <2>1, <2>2, AdaptersAssumption
  <2> QED
    BY <2>3, <2>4, Zenon DEF AsWanted
<1> QED
  BY <1>1, <1>2 DEF AdaptersInit, AdaptersInv, ReadFresh, ResultsHold

-----------------------------------------------------------------------------
(* What an editor does to a file, whoever has it open: the file keeps its   *)
(* user's wishes, and a command that has read it is noted.                  *)
LEMMA EditedIs ==
    ASSUME AdaptersInv, NEW path \in SettingsFiles, EditSettings(path)
    PROVE  \E new \in Settings :
              /\ config' = [config EXCEPT ![path] = new]
              /\ wanted' \in [SettingsFiles -> [foreign : {0, 1}, other : BOOLEAN]]
              /\ \A f \in SettingsFiles \ {path} : wanted'[f] = wanted[f]
              /\ path \notin lost => AsWanted(wanted'[path], new) /\ OwnOnce(new)
<1> DEFINE data == ReadJson(path)
<1>1. data \in Settings /\ data = Contents[path]
  BY ContentsAre DEF AdaptersInv
<1>2. path \notin lost => AsWanted(wanted[path], data) /\ OwnOnce(data)
  BY <1>1 DEF AdaptersInv, SettingsKept
<1>3. wanted \in [SettingsFiles -> [foreign : {0, 1}, other : BOOLEAN]]
  BY DEF AdaptersInv, AdaptersTyped
<1>4. \/ /\ config' = [config EXCEPT ![path] = [data EXCEPT !.other = TRUE]]
         /\ wanted' = [wanted EXCEPT ![path].other = TRUE]
      \/ /\ config' = [config EXCEPT ![path] =
                [data EXCEPT !.hooks = TRUE, !.groups = <<Group(0, 1)>> \o @]]
         /\ wanted' = [wanted EXCEPT ![path].foreign = 1]
      \/ ~HasOwn(data) /\ config' = [config EXCEPT ![path] = Added(data)] /\ wanted' = wanted
  BY DEF EditSettings
<1> HIDE DEF data
<1>5. CASE /\ config' = [config EXCEPT ![path] = [data EXCEPT !.other = TRUE]]
           /\ wanted' = [wanted EXCEPT ![path].other = TRUE]
  <2> DEFINE new == [data EXCEPT !.other = TRUE]
  <2>1. new \in Settings /\ new.groups = data.groups /\ new.other = TRUE
    BY <1>1 DEF Settings
  <2>2. /\ wanted' \in [SettingsFiles -> [foreign : {0, 1}, other : BOOLEAN]]
        /\ \A f \in SettingsFiles \ {path} : wanted'[f] = wanted[f]
        /\ wanted'[path].other = TRUE /\ wanted'[path].foreign = wanted[path].foreign
    BY <1>3, <1>5
  <2>3. path \notin lost => AsWanted(wanted'[path], new)
    <3>1. new.groups = data.groups /\ new.other = TRUE
      BY <2>1
    <3>2. HasForeign(new) <=> HasForeign(data)
      BY <3>1 DEF HasForeign
    <3> QED
      BY <1>2, <2>2, <3>1, <3>2 DEF AsWanted
  <2>4. path \notin lost => OwnOnce(new)
    BY <1>2, <2>1 DEF OwnOnce
  <2> QED
    BY <1>5, <2>1, <2>2, <2>3, <2>4
<1>6. CASE /\ config' = [config EXCEPT ![path] =
                [data EXCEPT !.hooks = TRUE, !.groups = <<Group(0, 1)>> \o @]]
           /\ wanted' = [wanted EXCEPT ![path].foreign = 1]
  <2> DEFINE new == [data EXCEPT !.hooks = TRUE, !.groups = <<Group(0, 1)>> \o @]
  <2>1. /\ new \in Settings /\ HasForeign(new) /\ new.other = data.other
        /\ OwnOnce(data) => OwnOnce(new)
    BY <1>1, PutInFront, ZenonT(60)
  <2>2. /\ wanted' \in [SettingsFiles -> [foreign : {0, 1}, other : BOOLEAN]]
        /\ \A f \in SettingsFiles \ {path} : wanted'[f] = wanted[f]
        /\ wanted'[path].other = wanted[path].other /\ wanted'[path].foreign = 1
    BY <1>3, <1>6
  <2>3. config' = [config EXCEPT ![path] = new]
    BY <1>6
  <2> HIDE DEF new
  <2>4. path \notin lost => AsWanted(wanted'[path], new) /\ OwnOnce(new)
    BY <1>2, <2>1, <2>2 DEF AsWanted
  <2> QED
    BY <2>1, <2>2, <2>3, <2>4
<1>7. CASE ~HasOwn(data) /\ config' = [config EXCEPT ![path] = Added(data)] /\ wanted' = wanted
  <2>1. path \notin lost => AsWanted(wanted'[path], Added(data)) /\ OwnOnce(Added(data))
    BY <1>1, <1>2, <1>7, AddedIs DEF AsWanted
  <2> QED
    BY <1>1, <1>3, <1>7, <2>1, AddedIs
<1> QED
  BY <1>4, <1>5, <1>6, <1>7

LEMMA EditKeeps ==
    ASSUME AdaptersInv, NEW path \in SettingsFiles, EditSettings(path)
    PROVE  AdaptersInv'
<1>1. PICK new \in Settings :
          /\ config' = [config EXCEPT ![path] = new]
          /\ wanted' \in [SettingsFiles -> [foreign : {0, 1}, other : BOOLEAN]]
          /\ \A f \in SettingsFiles \ {path} : wanted'[f] = wanted[f]
          /\ path \notin lost => AsWanted(wanted'[path], new) /\ OwnOnce(new)
  BY EditedIs
<1>2. /\ hookEdits' = hookEdits + 1 /\ UNCHANGED <<command, report>>
      /\ lost \subseteq lost' /\ lost' \subseteq lost \union {path}
      /\ command # None /\ command.data # None /\ FileOf[Head(command.todo)] = path => path \in lost'
  BY DEF EditSettings
<1>3. AdaptersTyped
  BY DEF AdaptersInv
<1>4. /\ config' \in [SettingsFiles -> Settings \union {None, Torn}]
      /\ config'[path] # Torn
      /\ \A f \in SettingsFiles \ {path} : config'[f] = config[f]
      /\ Contents' = [Contents EXCEPT ![path] = new]
  BY <1>1, <1>3, PutIs
<1>5. /\ Contents'[path] = new
      /\ \A f \in SettingsFiles \ {path} : Contents'[f] = Contents[f]
  BY <1>3, <1>4, ContentsAre
<1>6. AdaptersTyped'
  BY <1>1, <1>2, <1>3, <1>4 DEF AdaptersTyped
<1>7. SettingsKept'
  BY <1>1, <1>2, <1>4, <1>5 DEF SettingsKept, AdaptersInv
<1>8. ReadFresh'
  <2> SUFFICES ASSUME command # None, command.data # None
               PROVE  ReadFresh'
    BY <1>2 DEF ReadFresh
  <2>1. /\ command.todo # <<>> /\ Head(command.todo) \in Automatic /\ command.op # "verify"
        /\ command.op # "uninstall" => ~HasOwn(command.data)
        /\ FileOf[Head(command.todo)] \notin lost =>
              command.data = Contents[FileOf[Head(command.todo)]]
    BY DEF AdaptersInv, ReadFresh
  <2>2. FileOf[Head(command.todo)] \in SettingsFiles
    BY <2>1 DEF FileOf, Automatic, SettingsFiles
  <2> QED
    BY <1>2, <1>5, <2>1, <2>2 DEF ReadFresh
<1>9. ResultsHold'
  <2>1. /\ hookEdits \in Nat /\ hookEdits' = hookEdits + 1
        /\ command # None => command.since \in Nat /\ report = None /\ command.since <= hookEdits
        /\ report # None =>
              /\ report.results \in Seq(Results) /\ report.since \in 0..hookEdits
              /\ report.exit = ExitCode(report.op, report.results)
    BY <1>2, <1>3 DEF AdaptersTyped, Commands, AdaptersInv, ResultsHold
  <2>2. /\ command # None => command.since <= hookEdits' /\ command.since # hookEdits'
        /\ report # None => report.since \in 0..hookEdits' /\ report.since # hookEdits'
    BY <2>1
  <2> QED
    BY <1>2, <2>1, <2>2 DEF ResultsHold
<1> QED
  BY <1>6, <1>7, <1>8, <1>9 DEF AdaptersInv

LEMMA TearKeeps ==
    ASSUME AdaptersInv, NEW path \in SettingsFiles, TearSettings(path)
    PROVE  AdaptersInv'
<1>1. /\ config' = [config EXCEPT ![path] = Torn] /\ lost' = lost \union {path}
      /\ hookEdits' = hookEdits + 1 /\ UNCHANGED <<command, report, wanted>>
  BY DEF TearSettings
<1>2. AdaptersTyped
  BY DEF AdaptersInv
<1>3. AdaptersTyped'
  BY <1>1, <1>2 DEF AdaptersTyped
<1>4. \A f \in SettingsFiles \ {path} : config'[f] = config[f] /\ Contents'[f] = Contents[f]
  BY <1>1, <1>2 DEF Contents, ReadJson, AdaptersTyped
<1>5. SettingsKept'
  BY <1>1, <1>4 DEF SettingsKept, AdaptersInv
<1>6. ReadFresh'
  <2> SUFFICES ASSUME command # None, command.data # None
               PROVE  ReadFresh'
    BY <1>1 DEF ReadFresh
  <2>1. /\ command.todo # <<>> /\ Head(command.todo) \in Automatic /\ command.op # "verify"
        /\ command.op # "uninstall" => ~HasOwn(command.data)
        /\ FileOf[Head(command.todo)] \notin lost =>
              command.data = Contents[FileOf[Head(command.todo)]]
    BY DEF AdaptersInv, ReadFresh
  <2>2. FileOf[Head(command.todo)] \in SettingsFiles
    BY <2>1 DEF FileOf, Automatic, SettingsFiles
  <2> QED
    BY <1>1, <1>4, <2>1, <2>2 DEF ReadFresh
<1>7. ResultsHold'
  <2>1. /\ hookEdits \in Nat /\ hookEdits' = hookEdits + 1
        /\ command # None => command.since \in Nat /\ report = None /\ command.since <= hookEdits
        /\ report # None =>
              /\ report.results \in Seq(Results) /\ report.since \in 0..hookEdits
              /\ report.exit = ExitCode(report.op, report.results)
    BY <1>1, <1>2 DEF AdaptersTyped, Commands, AdaptersInv, ResultsHold
  <2>2. /\ command # None => command.since <= hookEdits' /\ command.since # hookEdits'
        /\ report # None => report.since \in 0..hookEdits' /\ report.since # hookEdits'
    BY <2>1
  <2> QED
    BY <1>1, <2>1, <2>2 DEF ResultsHold
<1> QED
  BY <1>3, <1>5, <1>6, <1>7 DEF AdaptersInv

LEMMA BeginKeeps ==
    ASSUME AdaptersInv, NEW op \in Operations, NEW todo \in Seq(Automatic \union Manual),
           BeginCommand(op, todo)
    PROVE  AdaptersInv'
<1> DEFINE cmd == [op |-> op, todo |-> todo, data |-> None, results |-> <<>>, since |-> hookEdits]
<1>1. /\ command' = cmd /\ report' = None /\ UNCHANGED <<config, wanted, lost, hookEdits>>
  BY DEF BeginCommand
<1>2. cmd \in Commands /\ cmd # None
  <2>1. hookEdits \in Nat /\ <<>> \in Seq(Results)
    BY DEF AdaptersInv, AdaptersTyped
  <2>2. cmd \in Commands
    BY <2>1 DEF Commands
  <2> QED
    BY <2>2, AdaptersAssumption, Zenon
<1>3. cmd.data = None /\ cmd.results = <<>> /\ cmd.since = hookEdits /\ cmd.op = op
  OBVIOUS
<1> HIDE DEF cmd
<1>4. Contents' = Contents
  BY <1>1 DEF Contents, ReadJson
<1>5. AdaptersTyped'
  BY <1>1, <1>2 DEF AdaptersTyped, AdaptersInv
<1>6. SettingsKept'
  BY <1>1, <1>4 DEF SettingsKept, AdaptersInv
<1>7. ReadFresh'
  BY <1>1, <1>3 DEF ReadFresh
<1>8. ResultsHold'
  <2>1. AllHold(Contents, op, <<>>)
    BY DEF AllHold
  <2>2. hookEdits <= hookEdits
    BY DEF AdaptersInv, AdaptersTyped
  <2> QED
    BY <1>1, <1>2, <1>3, <1>4, <2>1, <2>2 DEF ResultsHold
<1> QED
  BY <1>5, <1>6, <1>7, <1>8 DEF AdaptersInv

(* What a command finds out of an agent before it writes anything.          *)
LEMMA SettledIs ==
    ASSUME AdaptersInv, NEW op \in Operations, NEW agent \in Automatic \union Manual
    PROVE  /\ Settled(op, agent) \in Statuses \union {None}
           /\ Settled(op, agent) # None =>
                 HoldsOf(Contents, op, Result(agent, Settled(op, agent)))
           /\ Settled(op, agent) = None =>
                 /\ agent \in Automatic /\ op # "verify"
                 /\ op # "uninstall" => ~HasOwn(Contents[FileOf[agent]])
<1> DEFINE settled == Settled(op, agent)
           result == Result(agent, settled)
<1>1. result.agent = agent /\ result.status = settled
  BY DEF Result
<1>2. CASE agent \in Manual
  <2>1. settled \in Statuses /\ agent \notin Automatic
    BY <1>2 DEF Settled, Statuses, Manual, Automatic
  <2> QED
    BY <1>1, <2>1, AdaptersAssumption DEF HoldsOf
<1>3. CASE agent \in Automatic
  <2>1. agent \notin Manual /\ FileOf[agent] = agent /\ agent \in SettingsFiles
        /\ agent \in SeenBy(agent) /\ SeenBy(agent) \subseteq SettingsFiles
    BY <1>3 DEF Manual, Automatic, FileOf, SettingsFiles, SeenBy
  <2>2. ReadJson(agent) = Contents[agent] /\ \A f \in SeenBy(agent) : ReadJson(f) = Contents[f]
    BY <2>1, ContentsAre DEF AdaptersInv
  <2>3. Installed(agent) <=> \E f \in SeenBy(agent) : HasOwn(Contents[f])
    BY <2>1, <2>2 DEF Installed
  <2>4. CASE op = "verify"
    <3>1. settled = IF Installed(agent) THEN "installed" ELSE "not_installed"
      BY <2>1, <2>4 DEF Settled
    <3> QED
      BY <1>1, <2>3, <2>4, <3>1, AdaptersAssumption DEF HoldsOf, Statuses
  <2>5. CASE op \in {"install", "repair"}
    <3>1. CASE Installed(agent)
      <4>1. settled \in Statuses
        BY <2>1, <2>5, <3>1 DEF Settled, Statuses
      <4> QED
        BY <1>1, <2>3, <2>5, <3>1, <4>1, AdaptersAssumption DEF HoldsOf
    <3>2. CASE ~Installed(agent)
      <4>1. settled = None
        BY <2>1, <2>5, <3>2 DEF Settled
      <4> QED
        BY <1>3, <2>1, <2>3, <2>5, <3>2, <4>1
    <3> QED
      BY <3>1, <3>2
  <2>6. CASE op = "uninstall"
    <3>1. ReadJson(FileOf[agent]) = Contents[agent]
      BY <2>1, <2>2
    <3>2. CASE Raises(agent, ReadJson(FileOf[agent]))
      <4>1. settled = "raises"
        BY <2>1, <2>6, <3>2 DEF Settled
      <4> QED
        BY <1>1, <4>1, AdaptersAssumption DEF HoldsOf, Statuses
    <3>3. CASE ~Raises(agent, ReadJson(FileOf[agent])) /\ ~HasOwn(ReadJson(FileOf[agent]))
      <4>1. settled = "not_found"
        BY <2>1, <2>6, <3>3 DEF Settled
      <4> QED
        BY <1>1, <2>1, <2>6, <3>1, <3>3, <4>1, AdaptersAssumption DEF HoldsOf, Statuses
    <3>4. CASE ~Raises(agent, ReadJson(FileOf[agent])) /\ HasOwn(ReadJson(FileOf[agent]))
      <4>1. settled = None
        BY <2>1, <2>6, <3>4 DEF Settled
      <4> QED
        BY <1>3, <2>6, <4>1
    <3> QED
      BY <3>2, <3>3, <3>4
  <2> QED
    BY <2>4, <2>5, <2>6 DEF Operations
<1> QED
  BY <1>2, <1>3

(* An agent is done with: its result is the last one. *)
LEMMA AdvancedIs ==
    ASSUME NEW cmd \in Commands, cmd.todo # <<>>, NEW result \in Results
    PROVE  LET next == Advanced(cmd, result)
           IN  /\ next \in Commands /\ next.op = cmd.op /\ next.since = cmd.since
               /\ next.data = None /\ next.results = Append(cmd.results, result)
<1> DEFINE todo == IF result.status = "raises" THEN <<>> ELSE Tail(cmd.todo)
           results == Append(cmd.results, result)
<1>1. /\ cmd.todo \in Seq(Automatic \union Manual) /\ cmd.results \in Seq(Results)
      /\ cmd.op \in Operations /\ cmd.since \in Nat
  BY DEF Commands
<1>2. todo \in Seq(Automatic \union Manual) /\ results \in Seq(Results)
  <2>1. Tail(cmd.todo) \in Seq(Automatic \union Manual) /\ <<>> \in Seq(Automatic \union Manual)
    BY <1>1
  <2> QED
    BY <1>1, <2>1
<1>3. Advanced(cmd, result) = [cmd EXCEPT !.todo = todo, !.data = None, !.results = results]
  BY DEF Advanced
<1> HIDE DEF todo, results
<1>4. Advanced(cmd, result) =
          [op |-> cmd.op, todo |-> todo, data |-> None, results |-> results, since |-> cmd.since]
  BY <1>3 DEF Commands
<1> QED
  BY <1>1, <1>2, <1>4 DEF Commands, results

LEMMA AllHoldNext ==
    ASSUME NEW files, NEW op, NEW results \in Seq(Results), NEW result \in Results,
           AllHold(files, op, results), HoldsOf(files, op, result)
    PROVE  AllHold(files, op, Append(results, result))
<1>1. \A i \in DOMAIN Append(results, result) :
          \/ i \in DOMAIN results /\ Append(results, result)[i] = results[i]
          \/ Append(results, result)[i] = result
  OBVIOUS
<1> QED
  BY <1>1, Zenon DEF AllHold

LEMMA LookKeeps ==
    ASSUME AdaptersInv, LookAt
    PROVE  AdaptersInv'
<1> DEFINE agent == Head(command.todo)
           settled == Settled(command.op, agent)
<1>1. /\ command # None /\ command.todo # <<>> /\ command.data = None
      /\ command' = IF settled # None THEN Advanced(command, Result(agent, settled))
                    ELSE [command EXCEPT !.data = ReadJson(FileOf[agent])]
      /\ UNCHANGED <<config, report, wanted, lost, hookEdits>>
  BY DEF LookAt
<1>2. /\ command \in Commands /\ command.op \in Operations /\ agent \in Automatic \union Manual
      /\ command.results \in Seq(Results)
  <2>1. command \in Commands
    BY <1>1 DEF AdaptersInv, AdaptersTyped
  <2> QED
    BY <1>1, <2>1 DEF Commands
<1>3. /\ report = None /\ command.since <= hookEdits
      /\ command.since = hookEdits => AllHold(Contents, command.op, command.results)
  BY <1>1 DEF AdaptersInv, ResultsHold
<1>4. /\ settled \in Statuses \union {None}
      /\ settled # None => HoldsOf(Contents, command.op, Result(agent, settled))
      /\ settled = None =>
            /\ agent \in Automatic /\ command.op # "verify"
            /\ command.op # "uninstall" => ~HasOwn(Contents[FileOf[agent]])
  BY <1>2, SettledIs
<1>5. Contents' = Contents
  BY <1>1 DEF Contents, ReadJson
<1>6. SettingsKept'
  BY <1>1, <1>5 DEF SettingsKept, AdaptersInv
<1>7. CASE settled # None
  <2> DEFINE result == Result(agent, settled)
  <2>1. result \in Results
    BY <1>2, <1>4, <1>7 DEF Result, Results
  <2>2. /\ command' \in Commands /\ command'.op = command.op /\ command'.since = command.since
        /\ command'.data = None /\ command'.results = Append(command.results, result)
    BY <1>1, <1>2, <1>7, <2>1, AdvancedIs
  <2>3. command' # None
    BY <2>2, AdaptersAssumption
  <2>4. AdaptersTyped'
    BY <1>1, <2>2 DEF AdaptersTyped, AdaptersInv
  <2>5. ReadFresh'
    BY <2>2 DEF ReadFresh
  <2>6. command.since = hookEdits => AllHold(Contents, command.op, command'.results)
    BY <1>2, <1>3, <1>4, <1>7, <2>1, <2>2, AllHoldNext
  <2>7. ResultsHold'
    BY <1>1, <1>3, <1>5, <2>2, <2>3, <2>6 DEF ResultsHold
  <2> QED
    BY <1>6, <2>4, <2>5, <2>7 DEF AdaptersInv
<1>8. CASE settled = None
  <2> DEFINE data == Contents[FileOf[agent]]
  <2>1. FileOf[agent] \in SettingsFiles
    BY <1>4, <1>8 DEF FileOf, Automatic, SettingsFiles
  <2>2. data \in Settings /\ ReadJson(FileOf[agent]) = data
    BY <2>1, ContentsAre DEF AdaptersInv
  <2>3. command' = [command EXCEPT !.data = data]
    BY <1>1, <1>8, <2>2
  <2> HIDE DEF data
  <2>4. /\ command' \in Commands /\ command'.op = command.op /\ command'.since = command.since
        /\ command'.data = data /\ command'.results = command.results /\ command'.todo = command.todo
    BY <1>2, <2>2, <2>3 DEF Commands
  <2>5. command' # None
    BY <2>4, AdaptersAssumption
  <2>6. AdaptersTyped'
    BY <1>1, <2>4 DEF AdaptersTyped, AdaptersInv
  <2>7. ReadFresh'
    BY <1>1, <1>4, <1>5, <1>8, <2>4 DEF ReadFresh, data
  <2>8. ResultsHold'
    BY <1>1, <1>3, <1>5, <2>4, <2>5 DEF ResultsHold
  <2> QED
    BY <1>6, <2>6, <2>7, <2>8 DEF AdaptersInv
<1> QED
  BY <1>7, <1>8

(* What is written keeps to what the user wants, and says of every agent    *)
(* that was done with what its result says.                                 *)
LEMMA WriteKeeps ==
    ASSUME AdaptersInv, WriteSettings
    PROVE  AdaptersInv'
<1> DEFINE agent == Head(command.todo)
           path == FileOf[agent]
           data == command.data
           new == IF command.op = "uninstall" THEN Removed(data) ELSE Added(data)
           result == Result(agent, IF command.op = "uninstall" THEN "uninstalled" ELSE "installed")
<1>1. /\ command # None /\ data # None
      /\ config' = [config EXCEPT ![path] = new] /\ command' = Advanced(command, result)
      /\ UNCHANGED <<report, wanted, lost, hookEdits>>
  BY DEF WriteSettings
<1>2. /\ command \in Commands /\ command.op \in Operations /\ data \in Settings
      /\ command.results \in Seq(Results)
  <2>1. command \in Commands
    BY <1>1 DEF AdaptersInv, AdaptersTyped
  <2> QED
    BY <1>1, <2>1 DEF Commands
<1>3. /\ command.todo # <<>> /\ agent \in Automatic /\ command.op # "verify"
      /\ command.op # "uninstall" => ~HasOwn(data)
      /\ path \notin lost => data = Contents[path]
  BY <1>1 DEF AdaptersInv, ReadFresh
<1>4. path \in SettingsFiles /\ path = agent /\ agent \in SeenBy(agent)
  BY <1>3 DEF FileOf, Automatic, SettingsFiles, SeenBy
<1>5. /\ report = None /\ command.since <= hookEdits
      /\ command.since = hookEdits => AllHold(Contents, command.op, command.results)
  BY <1>1 DEF AdaptersInv, ResultsHold
<1>6. /\ new \in Settings /\ (HasForeign(new) <=> HasForeign(data)) /\ new.other = data.other
      /\ OwnOnce(new) /\ (HasOwn(new) <=> command.op # "uninstall")
  BY <1>2, <1>3, AddedIs, RemovedIs
<1>7. /\ result \in Results /\ result.agent = agent
      /\ result.status = IF command.op = "uninstall" THEN "uninstalled" ELSE "installed"
  BY <1>3 DEF Result, Results, Statuses
<1> HIDE DEF new, result
<1>8. /\ config' \in [SettingsFiles -> Settings \union {None, Torn}]
      /\ config'[path] # Torn
      /\ \A f \in SettingsFiles \ {path} : config'[f] = config[f]
      /\ Contents' = [Contents EXCEPT ![path] = new]
  BY <1>1, <1>4, <1>6, PutIs DEF AdaptersInv
<1>9. /\ Contents'[path] = new
      /\ \A f \in SettingsFiles \ {path} : Contents'[f] = Contents[f]
  BY <1>4, <1>8, ContentsAre DEF AdaptersInv
<1>10. /\ command' \in Commands /\ command'.op = command.op /\ command'.since = command.since
       /\ command'.data = None /\ command'.results = Append(command.results, result)
  BY <1>1, <1>2, <1>3, <1>7, AdvancedIs
<1>11. AdaptersTyped'
  BY <1>1, <1>8, <1>10 DEF AdaptersTyped, AdaptersInv
<1>12. SettingsKept'
  <2> SUFFICES ASSUME NEW f \in SettingsFiles \ lost
               PROVE  /\ config'[f] # Torn /\ AsWanted(wanted[f], Contents'[f])
                      /\ OwnOnce(Contents'[f])
    BY <1>1 DEF SettingsKept
  <2>1. config[f] # Torn /\ AsWanted(wanted[f], Contents[f]) /\ OwnOnce(Contents[f])
    BY DEF AdaptersInv, SettingsKept
  <2>2. CASE f # path
    BY <1>8, <1>9, <2>1, <2>2
  <2>3. CASE f = path
    BY <1>3, <1>6, <1>8, <1>9, <2>1, <2>3, Zenon DEF AsWanted
  <2> QED
    BY <2>2, <2>3
<1>13. ReadFresh'
  BY <1>10 DEF ReadFresh
<1>14. HoldsOf(Contents', command.op, result)
  BY <1>3, <1>4, <1>6, <1>7, <1>9 DEF HoldsOf
<1>15. ASSUME NEW other \in Results, HoldsOf(Contents, command.op, other)
       PROVE  HoldsOf(Contents', command.op, other)
  <2>1. CASE other.agent \notin Automatic \/ other.status = "raises"
    BY <2>1 DEF HoldsOf
  <2>2. CASE other.agent \in Automatic /\ command.op = "uninstall" /\ other.status # "raises"
    <3>1. ~HasOwn(Contents[FileOf[other.agent]])
      BY <1>3, <1>15, <2>2 DEF HoldsOf
    <3>2. FileOf[other.agent] \in SettingsFiles
      BY <2>2 DEF FileOf, Automatic, SettingsFiles
    <3> QED
      BY <1>6, <1>9, <2>2, <3>1, <3>2 DEF HoldsOf
  <2>3. CASE other.agent \in Automatic /\ command.op # "uninstall" /\ other.status # "raises"
    <3>1. PICK f \in SeenBy(other.agent) : HasOwn(Contents[f])
      BY <1>3, <1>15, <2>3 DEF HoldsOf
    <3>2. f \in SettingsFiles
      BY <2>3 DEF SeenBy, Automatic, SettingsFiles
    <3>3. HasOwn(Contents'[f])
      BY <1>6, <1>9, <2>3, <3>1, <3>2
    <3> QED
      BY <2>3, <3>3 DEF HoldsOf
  <2> QED
    BY <2>1, <2>2, <2>3
<1>16. command.since = hookEdits => AllHold(Contents', command.op, command'.results)
  <2> SUFFICES ASSUME AllHold(Contents, command.op, command.results)
               PROVE  AllHold(Contents', command.op, Append(command.results, result))
    BY <1>5, <1>10
  <2>1. AllHold(Contents', command.op, command.results)
    BY <1>2, <1>15 DEF AllHold
  <2> QED
    BY <1>2, <1>7, <1>14, <2>1, AllHoldNext
<1>17. ResultsHold'
  <2>1. command' # None
    BY <1>10, AdaptersAssumption
  <2> QED
    BY <1>1, <1>5, <1>10, <1>16, <2>1 DEF ResultsHold
<1> QED
  BY <1>11, <1>12, <1>13, <1>17 DEF AdaptersInv

LEMMA FinishKeeps ==
    ASSUME AdaptersInv, FinishCommand
    PROVE  AdaptersInv'
<1>1. /\ command # None /\ command' = None
      /\ report' = [op |-> command.op, results |-> command.results,
                    exit |-> ExitCode(command.op, command.results), since |-> command.since]
      /\ UNCHANGED <<config, wanted, lost, hookEdits>>
  BY DEF FinishCommand
<1>2. /\ report'.op = command.op /\ report'.results = command.results
      /\ report'.exit = ExitCode(command.op, command.results) /\ report'.since = command.since
  BY <1>1
<1>3. Contents' = Contents
  BY <1>1 DEF Contents, ReadJson
<1>4. AdaptersTyped' /\ ReadFresh'
  BY <1>1 DEF AdaptersTyped, AdaptersInv, ReadFresh
<1>5. SettingsKept'
  BY <1>1, <1>3 DEF SettingsKept, AdaptersInv
<1>6. ResultsHold'
  <2>1. /\ command.since <= hookEdits
        /\ command.since = hookEdits => AllHold(Contents, command.op, command.results)
    BY <1>1 DEF AdaptersInv, ResultsHold
  <2>2. command.results \in Seq(Results) /\ command.since \in Nat /\ hookEdits \in Nat
    BY <1>1 DEF AdaptersInv, AdaptersTyped, Commands
  <2>3. command.since \in 0..hookEdits
    BY <2>1, <2>2
  <2> QED
    BY <1>1, <1>2, <1>3, <2>1, <2>2, <2>3 DEF ResultsHold
<1> QED
  BY <1>4, <1>5, <1>6 DEF AdaptersInv

LEMMA AdaptersInductive == AdaptersSpec => []AdaptersInv
<1>1. AdaptersInv /\ [AdaptersNext]_adapterVars => AdaptersInv'
  <2> SUFFICES ASSUME AdaptersInv, [AdaptersNext]_adapterVars PROVE AdaptersInv'
    OBVIOUS
  <2>1. ASSUME NEW f \in SettingsFiles, EditSettings(f) \/ TearSettings(f) PROVE AdaptersInv'
    BY <2>1, EditKeeps, TearKeeps
  <2>2. ASSUME NEW op \in Operations,
               BeginCommand(op, Agents) \/ \E a \in Automatic \union Manual : BeginCommand(op, <<a>>)
        PROVE  AdaptersInv'
    <3>1. Agents \in Seq(Automatic \union Manual)
      BY DEF Agents, Automatic, Manual
    <3>2. \A a \in Automatic \union Manual : <<a>> \in Seq(Automatic \union Manual)
      OBVIOUS
    <3> QED
      BY <2>2, <3>1, <3>2, BeginKeeps
  <2>3. CASE UNCHANGED adapterVars
    <3>1. Contents' = Contents /\ UNCHANGED <<config, command, report, wanted, lost, hookEdits>>
      BY <2>3 DEF adapterVars, Contents, ReadJson
    <3> QED
      BY <3>1 DEF AdaptersInv, AdaptersTyped, SettingsKept, ReadFresh, ResultsHold
  <2> QED
    BY <2>1, <2>2, <2>3, LookKeeps, WriteKeeps, FinishKeeps DEF AdaptersNext
<1> QED
  BY <1>1, AdaptersStart, PTL DEF AdaptersSpec

(* Whatever commands and edits do to the settings files of the agents: a    *)
(* file that nobody tore or edited under a command holds the hooks and the  *)
(* settings of its user and the hook once at most, and the exit code of an  *)
(* undisturbed command can be believed.                                     *)
THEOREM AdaptersAreSound == AdaptersSpec => []AdaptersSound
<1>1. AdaptersInv => AdaptersSound
  <2> SUFFICES ASSUME AdaptersInv PROVE AdaptersSound
    OBVIOUS
  <2>1. \A f \in SettingsFiles : ReadJson(f) = Contents[f]
    BY ContentsAre DEF AdaptersInv
  <2>2. \A f \in SettingsFiles \ lost :
            /\ HasForeign(ReadJson(f)) <=> wanted[f].foreign = 1
            /\ ReadJson(f).other = wanted[f].other /\ OwnOnce(ReadJson(f))
    BY <2>1 DEF AdaptersInv, SettingsKept, AsWanted
  <2>3. ASSUME report # None, report.since = hookEdits, report.exit = 0,
               NEW i \in DOMAIN report.results, report.results[i].agent \notin Manual
        PROVE  LET agent == report.results[i].agent
               IN  /\ report.op # "uninstall" => \E f \in SeenBy(agent) : HasOwn(ReadJson(f))
                   /\ report.op = "uninstall" => ~HasOwn(ReadJson(FileOf[agent]))
    <3> DEFINE result == report.results[i]
    <3>1. /\ HoldsOf(Contents, report.op, result) /\ result \in Results
          /\ ExitCode(report.op, report.results) = 0
      BY <2>3 DEF AdaptersInv, ResultsHold, AllHold
    <3>2. result.agent \in Automatic
      BY <2>3, <3>1 DEF Results
    <3>3. result.status # "raises" /\ ~(report.op = "verify" /\ result.status = "not_installed")
      BY <3>1 DEF ExitCode
    <3>4. FileOf[result.agent] \in SettingsFiles /\ SeenBy(result.agent) \subseteq SettingsFiles
      BY <3>2 DEF FileOf, SeenBy, Automatic, SettingsFiles
    <3> QED
      BY <2>1, <3>1, <3>2, <3>3, <3>4 DEF HoldsOf
  <2> QED
    BY <2>2, <2>3 DEF AdaptersSound, OwnOnce
<1> QED
  BY <1>1, AdaptersInductive, PTL

-----------------------------------------------------------------------------
(* The adoption of the baseline.                                            *)

AdoptionTyped ==
    /\ base \in Bases \union {None}
    /\ contract \in ContractFiles \union {None, Torn}
    /\ plans \in [Range(Places) -> PlanFiles \union {None}]
    /\ baseline \in Baselines \union {None, Torn}
    /\ release \in Nat /\ fileEdits \in Nat /\ days \in Nat
    /\ adopting = None \/ adopting \in [place : Range(Places), edits : Nat, days : Nat,
                                        scalar : BOOLEAN]

(* A baseline that parses holds what the last command, or a maintainer of   *)
(* its contract layer, put in it.                                           *)
BaselineGrounded ==
    Parsable(baseline) => baseline.hash = recordedBase /\ baseline.sections = mandate

ListedStays == Parsable(contract) => listed \subseteq Listed(contract)

(* An adoption half-way that nobody disturbed has its file in place and     *)
(* named by the contract, unless that lost the value it had for a list.     *)
BaseReferenced ==
    Parsable(contract) /\ Protected \notin Listed(contract) \union contract.override =>
        listed = {}

HalfwaySound ==
    adopting # None =>
        /\ adopting.edits <= fileEdits
        /\ adopting.edits = fileEdits => base # None /\ BaseReferenced

AdoptedSound ==
    undisturbed =>
        /\ Parsable(baseline) /\ base # None /\ base = baseline.hash
        /\ MemoryFiles \subseteq scaffold
        /\ Plan # None => Plan.sections = baseline.inventory
        /\ BaseReferenced

AdoptionInv ==
    AdoptionTyped /\ BaselineGrounded /\ ListedStays /\ HalfwaySound /\ AdoptedSound

LEMMA PlacesAre == Range(Places) = {"PLAN.md", "docs/PLAN.md"}
<1>1. DOMAIN Places = {1, 2} /\ Places[1] = "PLAN.md" /\ Places[2] = "docs/PLAN.md"
  BY DEF Places
<1> QED
  BY <1>1 DEF Range

LEMMA BaselineIsTyped ==
    ASSUME AdoptionTyped, NEW where \in Range(Places), NEW sections \in SUBSET Terms
    PROVE  Baseline(where, sections) \in Baselines
<1>1. /\ base \in Bases \union {None}
      /\ plans[where] \in PlanFiles \union {None}
  BY DEF AdoptionTyped
<1>2. (IF plans[where] = None THEN {} ELSE plans[where].sections) \in SUBSET Terms
  BY <1>1 DEF PlanFiles
<1>3. RequiredFields \in SUBSET Terms
  BY AdoptionAssumption
<1> QED
  BY <1>1, <1>2, <1>3 DEF Baseline, Baselines

LEMMA WithReferenceIs ==
    ASSUME NEW c \in ContractFiles
    PROVE  /\ WithReference(c) \in ContractFiles
           /\ Protected \in Listed(WithReference(c)) \union WithReference(c).override
           /\ WithReference(c).documents = c.documents
<1>1. Protected \in Terms
  BY AdoptionAssumption DEF Documents
<1> QED
  BY <1>1 DEF WithReference, ContractFiles, Listed

LEMMA WithDocumentsIs ==
    ASSUME NEW c \in ContractFiles
    PROVE  /\ WithDocuments(c) \in ContractFiles
           /\ WithDocuments(c).override = c.override
           /\ \/ c.documents # None /\ c.documents.scalar
              \/ Listed(c) \subseteq Listed(WithDocuments(c))
<1>1. Listed(c) \in SUBSET Terms
  BY DEF Listed, ContractFiles
<1>1a. Documents \in SUBSET Terms
  BY AdoptionAssumption
<1> DEFINE kept == IF c.documents = None \/ c.documents.scalar THEN {} ELSE Listed(c)
<1>2. CASE Documents \subseteq Listed(c)
  BY <1>2 DEF WithDocuments
<1>3. CASE ~(Documents \subseteq Listed(c))
  <2> DEFINE docs == [scalar |-> FALSE, items |-> kept \union (Documents \ Listed(c))]
  <2>1. WithDocuments(c) = [c EXCEPT !.documents = docs]
    BY <1>3 DEF WithDocuments
  <2>2. kept \in SUBSET Terms
    BY <1>1
  <2> HIDE DEF kept
  <2>3. docs \in [scalar : BOOLEAN, items : SUBSET Terms]
    BY <2>2, <1>1, <1>1a
  <2>4. docs # None => Listed(WithDocuments(c)) = kept \union (Documents \ Listed(c))
    BY <2>1 DEF ContractFiles, Listed
  <2>5. /\ WithDocuments(c) \in ContractFiles
        /\ WithDocuments(c).override = c.override
        /\ WithDocuments(c).documents = docs
    BY <2>1, <2>3 DEF ContractFiles
  <2>7. docs # None
    BY <2>3, AdoptionAssumption
  <2> HIDE DEF docs
  <2>6. ~(c.documents # None /\ c.documents.scalar) => Listed(c) \subseteq kept
    BY DEF kept, Listed
  <2> QED
    BY <2>4, <2>5, <2>6, <2>7
<1> QED
  BY <1>2, <1>3

-----------------------------------------------------------------------------
LEMMA AdoptionStarts == AdoptionInit => AdoptionInv
<1> SUFFICES ASSUME AdoptionInit PROVE AdoptionInv
  OBVIOUS
<1>1. base \in Bases \union {None}
  <2>1. [version |-> 0, edits |-> 0, sentinel |-> FALSE, obligation |-> FALSE] \in Bases
    BY DEF Bases
  <2> DEFINE first == [version |-> 0, edits |-> 0, sentinel |-> FALSE, obligation |-> FALSE]
  <2>2. base \in {None, first}
    BY DEF AdoptionInit
  <2> HIDE DEF first
  <2>3. base = None \/ base = first
    BY <2>2
  <2> QED
    BY <2>1, <2>3 DEF first
<1>2. contract \in ContractFiles \union {None, Torn}
  BY AdoptionAssumption DEF AdoptionInit
<1>3. plans \in [Range(Places) -> PlanFiles \union {None}]
  BY AdoptionAssumption DEF AdoptionInit
<1> QED
  BY <1>1, <1>2, <1>3 DEF AdoptionInit, AdoptionInv, AdoptionTyped, BaselineGrounded, ListedStays,
                          HalfwaySound, AdoptedSound,
        Parsable

LEMMA TemplatesAreTyped ==
    ASSUME AdoptionTyped
    PROVE  /\ TemplateBase \in Bases
           /\ TemplateContract \in ContractFiles
           /\ Listed(TemplateContract) = Documents
           /\ TemplatePlan \in PlanFiles
<1>1. TemplateBase \in Bases
  BY DEF TemplateBase, Bases, AdoptionTyped
<1>2. TemplateContract.documents \in [scalar : BOOLEAN, items : SUBSET Terms]
  BY AdoptionAssumption DEF TemplateContract
<1>3. TemplateContract \in ContractFiles
  BY AdoptionAssumption DEF TemplateContract, ContractFiles
<1>4. Listed(TemplateContract) = Documents
  BY <1>2, AdoptionAssumption DEF Listed, TemplateContract
<1>5. TemplatePlan \in PlanFiles
  BY AdoptionAssumption DEF TemplatePlan, PlanFiles
<1> QED
  BY <1>1, <1>3, <1>4, <1>5

LEMMA DiscoveredIsPlace == Discovered \in Range(Places) \union {None}
<1>1. DOMAIN Places = {1, 2} /\ Places[1] = "PLAN.md" /\ Places[2] = "docs/PLAN.md"
  BY DEF Places
<1> DEFINE there == {i \in DOMAIN Places : plans[Places[i]] # None}
<1>2. CASE there = {}
  BY <1>2 DEF Discovered
<1>3. CASE there # {}
  <2>1. \E i \in there : \A j \in there : i <= j
    BY <1>1, <1>3
  <2>2. (CHOOSE i \in there : \A j \in there : i <= j) \in there
    BY <2>1
  <2> QED
    BY <1>3, <2>2 DEF Discovered, Range
<1> QED
  BY <1>2, <1>3

LEMMA AdoptFilesKeeps == AdoptionInv /\ AdoptFiles => AdoptionInv'
<1> SUFFICES ASSUME AdoptionInv, AdoptFiles PROVE AdoptionInv'
  OBVIOUS
<1> DEFINE where == IF Discovered = None THEN "PLAN.md" ELSE Discovered
<1>1. where \in Range(Places)
  BY DiscoveredIsPlace, PlacesAre
<1>2. /\ plans' = [plans EXCEPT ![where] = IF @ = None THEN TemplatePlan ELSE @]
      /\ adopting' = IF contract = Torn THEN None
                     ELSE [place |-> where, edits |-> fileEdits, days |-> days,
                           scalar |-> contract # None /\ contract.documents # None
                                      /\ contract.documents.scalar]
  BY Zenon DEF AdoptFiles
<1>3. /\ base' = TemplateBase
      /\ contract' = CASE contract = None -> TemplateContract
                       [] contract = Torn -> contract
                       [] OTHER -> WithDocuments(WithReference(contract))
      /\ listed' = CASE contract = None -> Documents
                     [] Parsable(contract) /\ adopting'.scalar -> {}
                     [] OTHER -> listed
      /\ undisturbed' = FALSE
      /\ UNCHANGED <<baseline, release, recordedBase, mandate, fileEdits, days>>
  BY DEF AdoptFiles
<1> HIDE DEF where
<1>4. AdoptionTyped
  BY DEF AdoptionInv
<1>5. plans' \in [Range(Places) -> PlanFiles \union {None}]
  BY <1>1, <1>2, <1>4, TemplatesAreTyped DEF AdoptionTyped
<1>6. CASE contract = None
  <2>1. contract # Torn
    BY <1>6, AdoptionAssumption
  <2>2. contract' = TemplateContract /\ listed' = Documents
    BY <1>3, <1>6, <2>1 DEF Parsable
  <2>3. Protected \in Listed(contract')
    BY <1>4, <2>2, TemplatesAreTyped DEF Documents
  <2>4. adopting' = [place |-> where, edits |-> fileEdits, days |-> days, scalar |-> FALSE]
    BY <1>2, <1>6, <2>1
  <2>5. /\ adopting' \in [place : Range(Places), edits : Nat, days : Nat, scalar : BOOLEAN]
        /\ adopting'.edits = fileEdits
    BY <1>1, <1>4, <2>4 DEF AdoptionTyped
  <2>6. base' \in Bases /\ base' # None
    BY <1>3, <1>4, TemplatesAreTyped, AdoptionAssumption
  <2>7. AdoptionTyped'
    BY <1>3, <1>4, <1>5, <2>2, <2>5, <2>6, TemplatesAreTyped DEF AdoptionTyped
  <2>8. ListedStays'
    BY <1>4, <2>2, TemplatesAreTyped DEF ListedStays
  <2>9. BaseReferenced'
    BY <2>3 DEF BaseReferenced
  <2> QED
    BY <1>3, <1>4, <2>5, <2>6, <2>7, <2>8, <2>9
    DEF AdoptionInv, BaselineGrounded, HalfwaySound, AdoptedSound, AdoptionTyped
<1>7. CASE contract = Torn
  <2>1. contract # None
    BY <1>7, AdoptionAssumption
  <2>2. adopting' = None /\ contract' = Torn
    BY <1>2, <1>3, <1>7, <2>1
  <2>3. base' \in Bases
    BY <1>3, <1>4, TemplatesAreTyped
  <2> QED
    BY <1>3, <1>4, <1>5, <2>2, <2>3
    DEF AdoptionInv, AdoptionTyped, BaselineGrounded, ListedStays, HalfwaySound, AdoptedSound,
        Parsable
<1>8. CASE contract \notin {None, Torn}
  <2>1. contract \in ContractFiles
    BY <1>4, <1>8 DEF AdoptionTyped
  <2> DEFINE with == WithReference(contract)
             scalar == contract.documents # None /\ contract.documents.scalar
  <2>2. contract' = WithDocuments(with)
    BY <1>3, <1>8
  <2>3. adopting' = [place |-> where, edits |-> fileEdits, days |-> days, scalar |-> scalar]
    BY <1>2, <1>8
  <2>4. /\ with \in ContractFiles
        /\ Protected \in Listed(with) \union with.override
        /\ with.documents = contract.documents
    BY <2>1, WithReferenceIs
  <2>5. scalar \in BOOLEAN
    BY <2>1 DEF ContractFiles
  <2>6. listed' = IF scalar THEN {} ELSE listed
    BY <1>3, <1>8, <2>3 DEF Parsable
  <2>7. Listed(with) = Listed(contract)
    BY <2>4 DEF Listed
  <2>8. listed \subseteq Listed(contract)
    BY <1>8 DEF AdoptionInv, ListedStays, Parsable
  <2> HIDE DEF with
  <2>9. /\ contract' \in ContractFiles /\ contract'.override = with.override
        /\ ~scalar => Listed(with) \subseteq Listed(contract')
    BY <2>2, <2>4, WithDocumentsIs
  <2> HIDE DEF scalar
  <2>10. /\ adopting' \in [place : Range(Places), edits : Nat, days : Nat, scalar : BOOLEAN]
         /\ adopting'.edits = fileEdits
    BY <1>1, <1>4, <2>3, <2>5 DEF AdoptionTyped
  <2>11. base' \in Bases /\ base' # None
    BY <1>3, <1>4, TemplatesAreTyped, AdoptionAssumption
  <2>12. AdoptionTyped'
    BY <1>3, <1>4, <1>5, <2>9, <2>10, <2>11 DEF AdoptionTyped
  <2>13. ListedStays'
    BY <2>6, <2>7, <2>8, <2>9 DEF ListedStays
  <2>14. BaseReferenced'
    BY <2>4, <2>6, <2>9 DEF BaseReferenced
  <2> QED
    BY <1>3, <1>4, <2>10, <2>11, <2>12, <2>13, <2>14
    DEF AdoptionInv, BaselineGrounded, HalfwaySound, AdoptedSound, AdoptionTyped
<1> QED
  BY <1>6, <1>7, <1>8

LEMMA AdoptRecordKeeps == AdoptionInv /\ AdoptRecord => AdoptionInv'
<1> SUFFICES ASSUME AdoptionInv, AdoptRecord PROVE AdoptionInv'
  OBVIOUS
<1>1. AdoptionTyped /\ adopting.place \in Range(Places)
  BY DEF AdoptionInv, AdoptionTyped, AdoptRecord
<1> DEFINE new == Baseline(adopting.place, {})
<1>2. /\ baseline' = new /\ recordedBase' = base /\ mandate' = {} /\ scaffold' = Pack
      /\ undisturbed' = (adopting.edits = fileEdits /\ adopting.days = days)
      /\ adopting' = None
      /\ UNCHANGED <<base, contract, plans, release, listed, fileEdits, days>>
  BY DEF AdoptRecord
<1>3. new \in Baselines
  BY <1>1, BaselineIsTyped
<1>4. /\ new.hash = base /\ new.sections = {} /\ new.place = adopting.place
      /\ plans[adopting.place] # None => new.inventory = plans[adopting.place].sections
  BY DEF Baseline
<1> HIDE DEF new
<1>5. AdoptionTyped'
  BY <1>1, <1>2, <1>3 DEF AdoptionTyped
<1>6. new \notin {None, Torn}
  BY <1>3, AdoptionAssumption
<1>7. ASSUME undisturbed' PROVE base # None /\ BaseReferenced
  BY <1>2, <1>7 DEF AdoptionInv, HalfwaySound, AdoptRecord
<1>8. AdoptedSound'
  BY <1>2, <1>4, <1>6, <1>7 DEF AdoptedSound, BaseReferenced, Parsable, Plan, Pack
<1> QED
  BY <1>2, <1>4, <1>5, <1>8 DEF AdoptionInv, BaselineGrounded, ListedStays, HalfwaySound

LEMMA RefreshKeeps == AdoptionInv /\ Refresh => AdoptionInv'
<1> SUFFICES ASSUME AdoptionInv, Refresh PROVE AdoptionInv'
  OBVIOUS
<1>1. /\ AdoptionTyped /\ BaselineGrounded /\ baseline \in Baselines
      /\ baseline.place \in Range(Places) /\ baseline.sections \in SUBSET Terms
  BY DEF AdoptionInv, AdoptionTyped, Refresh, Parsable, Baselines
<1> DEFINE new == Baseline(baseline.place, baseline.sections)
<1>2. /\ baseline' = new /\ recordedBase' = base /\ undisturbed' = FALSE
      /\ UNCHANGED <<base, contract, plans, release, adopting, mandate, listed, fileEdits, days>>
      /\ Parsable(baseline)
  BY DEF Refresh
<1>3. new \in Baselines
  BY <1>1, BaselineIsTyped
<1>4. new.hash = base /\ new.sections = baseline.sections
  BY DEF Baseline
<1> HIDE DEF new
<1>5. AdoptionTyped'
  BY <1>1, <1>2, <1>3 DEF AdoptionTyped
<1>6. BaselineGrounded'
  BY <1>1, <1>2, <1>4 DEF BaselineGrounded
<1> QED
  BY <1>2, <1>5, <1>6
  DEF AdoptionInv, ListedStays, HalfwaySound, AdoptedSound, BaseReferenced

LEMMA PatchKeeps == AdoptionInv /\ Patch => AdoptionInv'
<1> SUFFICES ASSUME AdoptionInv, Patch PROVE AdoptionInv'
  OBVIOUS
<1>1. AdoptionTyped /\ adopting = None
  BY DEF AdoptionInv, Patch, Command
<1>2. \/ base' = base
      \/ base # None /\ base' = [base EXCEPT !.obligation = TRUE]
  BY DEF Patch
<1>3. base' \in Bases \union {None}
  BY <1>1, <1>2 DEF AdoptionTyped, Bases
<1>4. /\ undisturbed' = FALSE
      /\ UNCHANGED <<contract, plans, baseline, release, adopting, recordedBase, mandate, listed,
                     fileEdits, days>>
  BY DEF Patch
<1>5. AdoptionTyped'
  BY <1>1, <1>3, <1>4 DEF AdoptionTyped
<1> QED
  BY <1>1, <1>4, <1>5
  DEF AdoptionInv, BaselineGrounded, ListedStays, HalfwaySound, AdoptedSound

(* After an edit an adoption that is half-way counts as disturbed. *)
LEMMA EditDisturbs ==
    ASSUME AdoptionInv, FileEdited, UNCHANGED adopting
    PROVE  HalfwaySound' /\ AdoptedSound' /\ fileEdits' \in Nat
<1>1. undisturbed' = FALSE /\ fileEdits \in Nat /\ fileEdits' = fileEdits + 1
  BY DEF FileEdited, AdoptionInv, AdoptionTyped
<1>2. adopting # None =>
          adopting'.edits \in Nat /\ adopting'.edits <= fileEdits
  BY DEF AdoptionInv, AdoptionTyped, HalfwaySound
<1> QED
  BY <1>1, <1>2 DEF HalfwaySound, AdoptedSound

LEMMA EditBaseKeeps == AdoptionInv /\ EditBase => AdoptionInv'
<1> SUFFICES ASSUME AdoptionInv, EditBase PROVE AdoptionInv'
  OBVIOUS
<1>1. AdoptionTyped
  BY DEF AdoptionInv
<1>2. /\ FileEdited /\ base # None
      /\ base' \in {None, [base EXCEPT !.edits = @ + 1], [base EXCEPT !.sentinel = FALSE]}
      /\ UNCHANGED <<contract, plans, baseline, release, adopting, recordedBase, mandate, listed,
                     days>>
  BY DEF EditBase
<1>3. base' \in Bases \union {None}
  <2>1. base \in Bases
    BY <1>1, <1>2 DEF AdoptionTyped
  <2>2. [base EXCEPT !.edits = @ + 1] \in Bases
    BY <2>1 DEF Bases
  <2>3. [base EXCEPT !.sentinel = FALSE] \in Bases
    BY <2>1 DEF Bases
  <2>4. \/ base' = None \/ base' = [base EXCEPT !.edits = @ + 1]
        \/ base' = [base EXCEPT !.sentinel = FALSE]
    BY <1>2, Zenon
  <2> QED
    BY <2>2, <2>3, <2>4
<1>4. HalfwaySound' /\ AdoptedSound' /\ fileEdits' \in Nat
  BY <1>2, EditDisturbs
<1>5. AdoptionTyped'
  BY <1>1, <1>2, <1>3, <1>4 DEF AdoptionTyped
<1> QED
  BY <1>2, <1>4, <1>5 DEF AdoptionInv, BaselineGrounded, ListedStays

LEMMA EditContractKeeps == AdoptionInv /\ EditContract => AdoptionInv'
<1> SUFFICES ASSUME AdoptionInv, EditContract PROVE AdoptionInv'
  OBVIOUS
<1>1. /\ FileEdited
      /\ contract' \in Contracts \union {Torn}
      /\ listed' = IF contract' = Torn THEN {} ELSE Listed(contract')
      /\ UNCHANGED <<base, plans, baseline, release, adopting, recordedBase, mandate, days>>
  BY DEF EditContract
<1>2. HalfwaySound' /\ AdoptedSound' /\ fileEdits' \in Nat
  BY <1>1, EditDisturbs
<1>3. AdoptionTyped'
  BY <1>1, <1>2, AdoptionAssumption DEF AdoptionInv, AdoptionTyped
<1>4. ListedStays'
  BY <1>1 DEF ListedStays, Parsable
<1> QED
  BY <1>1, <1>2, <1>3, <1>4 DEF AdoptionInv, BaselineGrounded

LEMMA EditTreeKeeps == AdoptionInv /\ EditTree => AdoptionInv'
<1> SUFFICES ASSUME AdoptionInv, EditTree PROVE AdoptionInv'
  OBVIOUS
<1>1. /\ FileEdited
      /\ UNCHANGED <<base, contract, baseline, release, adopting, recordedBase, mandate, listed,
                     days>>
  BY DEF EditTree
<1>2. \/ \E p \in Range(Places), q \in Plans \union {None} : plans' = [plans EXCEPT ![p] = q]
      \/ UNCHANGED plans
  BY DEF EditTree
<1>3. plans' \in [Range(Places) -> PlanFiles \union {None}]
  BY <1>2, AdoptionAssumption DEF AdoptionInv, AdoptionTyped
<1>4. HalfwaySound' /\ AdoptedSound' /\ fileEdits' \in Nat
  BY <1>1, EditDisturbs
<1>5. AdoptionTyped'
  BY <1>1, <1>3, <1>4 DEF AdoptionInv, AdoptionTyped
<1> QED
  BY <1>1, <1>4, <1>5 DEF AdoptionInv, BaselineGrounded, ListedStays

LEMMA EditBaselineKeeps == AdoptionInv /\ EditBaseline => AdoptionInv'
<1> SUFFICES ASSUME AdoptionInv, EditBaseline PROVE AdoptionInv'
  OBVIOUS
<1>1. /\ FileEdited
      /\ UNCHANGED <<base, contract, plans, release, adopting, recordedBase, listed, days>>
  BY DEF EditBaseline
<1>2. HalfwaySound' /\ AdoptedSound' /\ fileEdits' \in Nat
  BY <1>1, EditDisturbs
<1>3. baseline' \in Baselines \union {None, Torn} /\ BaselineGrounded'
  <2>1. CASE baseline # None /\ baseline' \in {None, Torn}
    BY <2>1 DEF BaselineGrounded, Parsable
  <2>2. CASE /\ Parsable(baseline)
             /\ \E m \in Mandates :
                    /\ baseline' = [baseline EXCEPT !.sections = m.sections,
                                        !.threshold = m.threshold, !.fields = m.fields]
                    /\ mandate' = m.sections
    <3>1. PICK m \in Mandates :
              /\ baseline' = [baseline EXCEPT !.sections = m.sections,
                                  !.threshold = m.threshold, !.fields = m.fields]
              /\ mandate' = m.sections
      BY <2>2
    <3>2. /\ m.sections \in SUBSET Terms /\ m.fields \in SUBSET Terms
          /\ m.threshold \in Nat \union {None}
      BY AdoptionAssumption
    <3>3. baseline \in Baselines /\ baseline.hash = recordedBase
      BY <2>2 DEF AdoptionInv, AdoptionTyped, BaselineGrounded, Parsable
    <3>4. /\ baseline' \in Baselines /\ baseline'.hash = baseline.hash
          /\ baseline'.sections = m.sections
      BY <3>1, <3>2, <3>3 DEF Baselines
    <3> QED
      BY <1>1, <3>1, <3>3, <3>4 DEF BaselineGrounded
  <2> QED
    BY <2>1, <2>2 DEF EditBaseline
<1>4. AdoptionTyped'
  BY <1>1, <1>2, <1>3 DEF AdoptionInv, AdoptionTyped
<1> QED
  BY <1>1, <1>2, <1>3, <1>4 DEF AdoptionInv, ListedStays

LEMMA ReleaseKeeps == AdoptionInv /\ Release => AdoptionInv'
<1> SUFFICES ASSUME AdoptionInv, Release PROVE AdoptionInv'
  OBVIOUS
<1>1. /\ FileEdited /\ release' = 2
      /\ UNCHANGED <<base, contract, plans, baseline, adopting, recordedBase, mandate, listed,
                     days>>
  BY DEF Release
<1>2. HalfwaySound' /\ AdoptedSound' /\ fileEdits' \in Nat
  BY <1>1, EditDisturbs
<1> QED
  BY <1>1, <1>2 DEF AdoptionInv, AdoptionTyped, BaselineGrounded, ListedStays

LEMMA DaysPassKeeps ==
    ASSUME AdoptionInv, NEW d \in AgingDays, Pass(d)
    PROVE  AdoptionInv'
<1>1. /\ AdoptionTyped /\ BaselineGrounded /\ d \in Nat /\ d - days \in Nat
  BY AdoptionAssumption DEF AdoptionInv, AdoptionTyped, Pass
<1>2. /\ days' = d
      /\ plans' = [p \in DOMAIN plans |-> Older(plans[p], d - days)]
      /\ baseline' = Older(baseline, d - days)
      /\ undisturbed' = FALSE
      /\ UNCHANGED <<base, contract, release, adopting, recordedBase, mandate, listed, fileEdits>>
  BY DEF Pass
<1>3. \A p \in Range(Places) : Older(plans[p], d - days) \in PlanFiles \union {None}
  BY <1>1 DEF AdoptionTyped, Older, Parsable, PlanFiles
<1>4. plans' \in [Range(Places) -> PlanFiles \union {None}]
  BY <1>1, <1>2, <1>3 DEF AdoptionTyped
<1>5. /\ baseline' \in Baselines \union {None, Torn}
      /\ Parsable(baseline') => /\ Parsable(baseline)
                                /\ baseline'.hash = baseline.hash
                                /\ baseline'.sections = baseline.sections
  BY <1>1, <1>2 DEF AdoptionTyped, Older, Parsable, Baselines
<1>6. AdoptionTyped' /\ BaselineGrounded'
  BY <1>1, <1>2, <1>4, <1>5 DEF AdoptionTyped, BaselineGrounded
<1> QED
  BY <1>2, <1>6
  DEF AdoptionInv, ListedStays, HalfwaySound, AdoptedSound, BaseReferenced

LEMMA AdoptionInductive == AdoptionInv /\ [AdoptionNext]_adoptionVars => AdoptionInv'
<1> SUFFICES ASSUME AdoptionInv, [AdoptionNext]_adoptionVars PROVE AdoptionInv'
  OBVIOUS
<1>1. CASE UNCHANGED adoptionVars
  BY <1>1 DEF adoptionVars, AdoptionInv, AdoptionTyped, BaselineGrounded, ListedStays,
              HalfwaySound, AdoptedSound, BaseReferenced, Plan
<1>2. CASE Killed
  BY <1>2 DEF Killed, AdoptionInv, AdoptionTyped, BaselineGrounded, ListedStays,
              HalfwaySound, AdoptedSound, BaseReferenced, Plan
<1>3. CASE AdoptFiles \/ AdoptRecord \/ Refresh \/ Patch
  BY <1>3, AdoptFilesKeeps, AdoptRecordKeeps, RefreshKeeps, PatchKeeps
<1>4. CASE EditBase \/ EditContract \/ EditTree \/ EditBaseline \/ Release
  BY <1>4, EditBaseKeeps, EditContractKeeps, EditTreeKeeps, EditBaselineKeeps, ReleaseKeeps
<1>5. CASE \E d \in AgingDays : Pass(d)
  BY <1>5, DaysPassKeeps
<1> QED
  BY <1>1, <1>2, <1>3, <1>4, <1>5 DEF AdoptionNext

-----------------------------------------------------------------------------
(* What the drift check finds is what its five parts find. *)
LEMMA DriftIsOfParts ==
    ASSUME Parsable(baseline)
    PROVE  /\ DriftFound.critical =
                  BaselineFailures.critical \union ProtectedFailures.critical
                  \union ContractFailures.critical \union PlanFailures.critical
                  \union TreeFailures.critical
           /\ DriftFound.warning =
                  BaselineFailures.warning \union ProtectedFailures.warning
                  \union ContractFailures.warning \union PlanFailures.warning
                  \union TreeFailures.warning
<1> DEFINE parts == {BaselineFailures, ProtectedFailures, ContractFailures, PlanFailures,
                     TreeFailures}
<1>1. /\ DriftFound.critical = UNION {p.critical : p \in parts}
      /\ DriftFound.warning = UNION {p.warning : p \in parts}
  BY DEF DriftFound
<1> QED
  BY <1>1

LEMMA CriticalIs ==
    /\ BaselineFailures.critical = {} /\ TreeFailures.critical = {}
    /\ ProtectedFailures.critical \subseteq
           {"protected_files_present", "protected_file_sentinel_present",
            "protected_files_unmodified"}
    /\ "protected_files_unmodified" \in ProtectedFailures.critical
           <=> base # None /\ base # baseline.hash
    /\ base # None /\ base = baseline.hash => ProtectedFailures.critical = {}
    /\ ContractFailures.critical \subseteq {"contract_required_fields_present"}
    /\ PlanFailures.critical \subseteq {"plan_freshness"}
<1>1. BaselineFailures.critical = {} /\ TreeFailures.critical = {}
  BY DEF BaselineFailures, TreeFailures
<1>2. ProtectedFailures.critical =
          {c \in {"protected_files_present", "protected_file_sentinel_present"} : base = None}
          \union {c \in {"protected_files_unmodified"} : base # None /\ base # baseline.hash}
  BY DEF ProtectedFailures
<1>3. ContractFailures.critical \subseteq {"contract_required_fields_present"}
  BY DEF ContractFailures
<1>4. PlanFailures.critical \subseteq {"plan_freshness"}
  BY DEF PlanFailures
<1> QED
  BY <1>1, <1>2, <1>3, <1>4

LEMMA WarningIs ==
    /\ BaselineFailures.warning \subseteq {"framework_version_current", "baseline_yaml_freshness"}
    /\ ProtectedFailures.warning \subseteq {"protected_file_sentinel_present"}
    /\ ContractFailures.warning \subseteq
           {"contract_agents_base_referenced", "contract_no_placeholders",
            "contract_not_framework_copy"}
    /\ "contract_agents_base_referenced" \in ContractFailures.warning =>
           Parsable(contract) /\ Protected \notin Listed(contract) \union contract.override
    /\ PlanFailures.warning \subseteq
           {"plan_required_sections_present", "plan_inventory_current"}
    /\ "plan_required_sections_present" \in PlanFailures.warning
           <=> /\ baseline.sections # {}
               /\ Plan = None \/ ~(baseline.sections \subseteq Plan.sections)
    /\ "plan_inventory_current" \in PlanFailures.warning
           <=> Plan # None /\ Plan.sections # baseline.inventory
    /\ TreeFailures.warning \subseteq {"agents_sections_filled", "memory_schema_complete"}
    /\ "memory_schema_complete" \in TreeFailures.warning <=> ~(MemoryFiles \subseteq scaffold)
<1>1. /\ BaselineFailures.warning \subseteq
             {"framework_version_current", "baseline_yaml_freshness"}
      /\ ProtectedFailures.warning \subseteq {"protected_file_sentinel_present"}
  BY DEF BaselineFailures, ProtectedFailures
<1>2. CASE ~Parsable(contract)
  <2>1. ContractFailures.warning = {}
    BY <1>2 DEF ContractFailures
  <2> QED
    BY <1>1, <2>1 DEF PlanFailures, TreeFailures
<1>3. CASE Parsable(contract)
  <2>1. ContractFailures.warning =
            {c \in {"contract_agents_base_referenced"} :
                Protected \notin Listed(contract) \union contract.override}
            \union {c \in {"contract_no_placeholders"} : contract.placeholders}
            \union {c \in {"contract_not_framework_copy"} : contract.copied}
    BY <1>3 DEF ContractFailures
  <2> QED
    BY <1>1, <1>3, <2>1 DEF PlanFailures, TreeFailures
<1> QED
  BY <1>2, <1>3

(* A plan is judged by its own policy unless the baseline has a threshold. *)
LEMMA DeadPlanIsCritical ==
    ASSUME AdoptionInv, Parsable(baseline), baseline.threshold = None,
           Plan # None, Plan.dated, Plan.policy # None, Plan.age > 2 * Plan.policy
    PROVE  "plan_freshness" \in PlanFailures.critical
<1>1. Plan \in PlanFiles
  BY DEF AdoptionInv, AdoptionTyped, Parsable, Baselines, Plan
<1>2. Plan.policy \in Nat /\ Plan.age \in Nat
  BY <1>1 DEF PlanFiles
<1>3. Threshold(Plan) = None
  BY DEF Threshold
<1>4. ~(Plan.age <= Plan.policy) /\ ~(Plan.age <= 2 * Plan.policy)
  BY <1>2
<1>5. Freshness(Plan, None) = "CRITICAL"
  BY <1>4 DEF Freshness
<1> QED
  BY <1>3, <1>5 DEF PlanFailures

LEMMA AdoptionInvMeans == AdoptionInv => AdoptionSound
<1> SUFFICES ASSUME AdoptionInv PROVE AdoptionSound
  OBVIOUS
<1>1. ASSUME Parsable(baseline), base # None
      PROVE  base # recordedBase <=> "protected_files_unmodified" \in DriftFound.critical
  <2>1. baseline.hash = recordedBase
    BY <1>1 DEF AdoptionInv, BaselineGrounded
  <2> QED
    BY <1>1, <2>1, DriftIsOfParts, CriticalIs
<1>2. ASSUME undisturbed
      PROVE  /\ DriftFound.critical \subseteq
                    {"contract_required_fields_present", "plan_freshness"}
             /\ DriftFound.warning
                    \intersect {"memory_schema_complete", "plan_inventory_current"} = {}
             /\ "contract_agents_base_referenced" \in DriftFound.warning => listed = {}
  <2>1. /\ Parsable(baseline) /\ base # None /\ base = baseline.hash
        /\ MemoryFiles \subseteq scaffold
        /\ Plan # None => Plan.sections = baseline.inventory
        /\ BaseReferenced
    BY <1>2 DEF AdoptionInv, AdoptedSound
  <2>2. DriftFound.critical \subseteq {"contract_required_fields_present", "plan_freshness"}
    BY <2>1, DriftIsOfParts, CriticalIs
  <2>3. "memory_schema_complete" \notin DriftFound.warning
    BY <2>1, DriftIsOfParts, WarningIs
  <2>4. "plan_inventory_current" \notin DriftFound.warning
    BY <2>1, DriftIsOfParts, WarningIs
  <2>5. "contract_agents_base_referenced" \in DriftFound.warning => listed = {}
    BY <2>1, DriftIsOfParts, WarningIs DEF BaseReferenced
  <2> QED
    BY <2>2, <2>3, <2>4, <2>5
<1>3. ASSUME Parsable(baseline), plans[baseline.place] # None
      PROVE  mandate \subseteq plans[baseline.place].sections
                 <=> "plan_required_sections_present" \notin DriftFound.warning
  <2>1. baseline.sections = mandate
    BY <1>3 DEF AdoptionInv, BaselineGrounded
  <2>2. "plan_required_sections_present" \in DriftFound.warning
            <=> "plan_required_sections_present" \in PlanFailures.warning
    BY <1>3, DriftIsOfParts, WarningIs
  <2> QED
    BY <1>3, <2>1, <2>2, WarningIs DEF Plan
<1>4. Parsable(contract) => listed \subseteq Listed(contract)
  BY DEF AdoptionInv, ListedStays
<1>5. ASSUME Parsable(baseline), baseline.threshold = None,
             Plan # None, Plan.dated, Plan.policy # None, Plan.age > 2 * Plan.policy
      PROVE  "plan_freshness" \in DriftFound.critical
  BY <1>5, DeadPlanIsCritical, DriftIsOfParts
<1> QED
  BY <1>1, <1>2, <1>3, <1>4, <1>5 DEF AdoptionSound, Plan

(* What the drift check says can be believed, whatever was run, edited or   *)
(* killed before: adopt_existing, refresh_baseline, upgrade_repo and        *)
(* check_governance_drift, for any files that maintainers write.            *)
THEOREM AdoptionIsSound == AdoptionSpec => []AdoptionSound
<1>1. AdoptionSpec => []AdoptionInv
  BY AdoptionStarts, AdoptionInductive, PTL DEF AdoptionSpec
<1> QED
  BY <1>1, AdoptionInvMeans, PTL

-----------------------------------------------------------------------------
(* The risk signal and what a session starts with.                          *)

FeedbackEntries ==
    {[smoke |-> r.smoke, pytest |-> r.pytest, day |-> d] : r \in CheckResults, d \in Nat}

SignalTyped ==
    /\ signal \in Signals \union {None, Torn}
    /\ job \in [Producers -> Jobs \union {None}]
    /\ feedback \in Seq(FeedbackEntries)
    /\ date \in Nat
    /\ alarms \in [Producers -> Nat \union {None}]
    /\ masked \subseteq Producers

(* An alarm that nobody got in the way of is what the file says, and what   *)
(* the file says is an alarm that stands.                                   *)
AlarmsStand ==
    /\ \A p \in Producers \ masked : alarms[p] # None =>
          /\ signal \in Signals /\ signal.components # {}
          /\ signal.source = p /\ signal.day = alarms[p]
    /\ signal \in Signals => alarms[signal.source] = signal.day

(* There is enough in the log for an alarm of its own. *)
FailedOften(entries) ==
    Cardinality({i \in DOMAIN entries : Score(entries[i]) >= 4}) >= 2 /\ Len(entries) >= 3

FeedbackGrounded ==
    /\ job[Feedback] \in Alarms => FailedOften(feedback)
    /\ signal \in Signals /\ signal.source = Feedback => FailedOften(feedback)

(* What a session was started with holds as long as nothing has moved.      *)
StartedWell ==
    started # None =>
        LET words == started.input.words
        IN  /\ (\E p \in Producers \ masked : alarms[p] # None /\ date - alarms[p] <= 2)
                   => started.level # "L0"
            /\ started.raised => \E p \in Producers : alarms[p] # None /\ date - alarms[p] <= 2
            /\ started.level = "L0" =>
                   /\ started.input.risk \notin {"high", "critical"}
                   /\ words \intersect {"schema", "external", "kdc"} = {}
                   /\ started.input.explicit = None => words \intersect {"L2", "veto"} = {}
            /\ ~started.contract => started.level = "L0" /\ "domain" \notin words
            /\ \A f \in GovernanceDocs : f.name \in started.files =>
                   f.audience # "human-only" /\ (started.level = "L0" => f.load = "always")

SignalInv == SignalTyped /\ AlarmsStand /\ FeedbackGrounded /\ StartedWell

-----------------------------------------------------------------------------
(* What the producers make of what they have found. *)
LEMMA ScoreIs ==
    ASSUME NEW record
    PROVE  record.smoke = "fail" => Score(record) >= 4
BY DEF Score

(* Three samples with an average of four hold two smoke tests that failed.  *)
LEMMA TrendMeans ==
    ASSUME NEW entries \in Seq(FeedbackEntries), NEW places \in SUBSET (DOMAIN entries),
           TrendOf(entries, places) \in {"critical", "advisory"}
    PROVE  FailedOften(entries)
<1> DEFINE n == Cardinality(places)
           smoke == {i \in places : entries[i].smoke = "fail"}
           pytest == {i \in places : entries[i].pytest = "fail"}
           bad == {i \in DOMAIN entries : Score(entries[i]) >= 4}
<1>1. /\ Len(entries) \in Nat /\ DOMAIN entries = 1..Len(entries)
      /\ IsFiniteSet(1..Len(entries)) /\ Cardinality(1..Len(entries)) = Len(entries)
  <2>1. Len(entries) \in Nat /\ DOMAIN entries = 1..Len(entries)
    OBVIOUS
  <2>2. /\ IsFiniteSet(1..Len(entries))
        /\ Cardinality(1..Len(entries)) = IF 1 > Len(entries) THEN 0 ELSE Len(entries) - 1 + 1
    BY <2>1, FS_Interval
  <2> QED
    BY <2>1, <2>2
<1>2. IsFiniteSet(places) /\ n \in Nat /\ n <= Len(entries)
  BY <1>1, FS_Subset, FS_CardinalityType
<1>3. /\ Cardinality(smoke) \in Nat
      /\ Cardinality(pytest) \in Nat /\ Cardinality(pytest) <= n
  <2>1. smoke \subseteq places /\ pytest \subseteq places
    OBVIOUS
  <2> QED
    BY <1>2, <2>1, FS_Subset, FS_CardinalityType
<1>4. smoke \subseteq bad /\ bad \subseteq DOMAIN entries
  BY ScoreIs
<1>5. Cardinality(bad) \in Nat /\ Cardinality(smoke) <= Cardinality(bad)
  <2>1. IsFiniteSet(bad)
    BY <1>1, <1>4, FS_Subset
  <2> QED
    BY <1>4, <2>1, FS_Subset, FS_CardinalityType
<1>6. TotalScore(entries, places) = 4 * Cardinality(smoke) + 2 * Cardinality(pytest)
  BY DEF TotalScore
<1>7. TrendOf(entries, places) =
          IF n < MinSamples THEN "insufficient_data"
          ELSE IF TotalScore(entries, places) >= 6 * n THEN "critical"
          ELSE IF TotalScore(entries, places) >= 4 * n THEN "advisory" ELSE "ok"
  BY DEF TrendOf
<1> HIDE DEF n, smoke, pytest, bad
<1>8. n >= 3 /\ 4 * Cardinality(smoke) + 2 * Cardinality(pytest) >= 4 * n
  <2>1. ~(n < MinSamples)
    BY <1>7
  <2>2. TotalScore(entries, places) >= 6 * n \/ TotalScore(entries, places) >= 4 * n
    BY <1>7, <2>1
  <2> QED
    BY <1>2, <1>3, <1>6, <2>1, <2>2 DEF MinSamples
<1>9. Cardinality(smoke) >= 2
  BY <1>2, <1>3, <1>8
<1> QED
  BY <1>2, <1>3, <1>5, <1>8, <1>9 DEF FailedOften, bad

(* A record more takes nothing away. *)
LEMMA FailedMore ==
    ASSUME NEW entries \in Seq(FeedbackEntries), NEW entry \in FeedbackEntries, FailedOften(entries)
    PROVE  FailedOften(Append(entries, entry))
<1> DEFINE longer == Append(entries, entry)
           bad == {i \in DOMAIN entries : Score(entries[i]) >= 4}
           worse == {i \in DOMAIN longer : Score(longer[i]) >= 4}
<1>1. /\ longer \in Seq(FeedbackEntries) /\ Len(longer) = Len(entries) + 1 /\ Len(entries) \in Nat
      /\ DOMAIN entries \subseteq DOMAIN longer /\ DOMAIN longer = 1..Len(longer)
      /\ \A i \in DOMAIN entries : longer[i] = entries[i]
  OBVIOUS
<1> HIDE DEF longer
<1>2. bad \subseteq worse
  BY <1>1
<1>3. IsFiniteSet(worse)
  <2>1. IsFiniteSet(1..Len(longer))
    BY <1>1, FS_Interval
  <2> QED
    BY <1>1, <2>1, FS_Subset
<1>4. Cardinality(bad) \in Nat /\ Cardinality(worse) \in Nat /\ Cardinality(bad) <= Cardinality(worse)
  BY <1>2, <1>3, FS_Subset, FS_CardinalityType
<1>5. Cardinality(bad) >= 2 /\ Len(entries) >= 3
  BY DEF FailedOften
<1> HIDE DEF bad, worse
<1>6. Cardinality(worse) >= 2 /\ Len(longer) >= 3
  BY <1>1, <1>4, <1>5
<1> QED
  BY <1>6 DEF FailedOften, worse, longer

LEMMA RaiseIs ==
    ASSUME NEW components \in (SUBSET Components) \ {{}}, NEW severity \in {"critical", "warning"}
    PROVE  Raise(components, severity) \in Alarms
BY DEF Raise, Alarms

LEMMA ClearsAre ==
    /\ Clear \in Jobs \ Alarms /\ ClearOwn \in Jobs \ Alarms /\ [op |-> "unlink"] \in Jobs \ Alarms
    /\ None \notin Jobs /\ Alarms \subseteq Jobs
    /\ \A todo \in Jobs : todo.op \in {"write", "fill"} => todo \in Alarms
<1>1. Clear \in Jobs /\ ClearOwn \in Jobs /\ [op |-> "unlink"] \in Jobs
  BY DEF Clear, ClearOwn, Jobs
<1>2. \A todo \in Alarms : todo.op \in {"write", "fill"}
  BY DEF Alarms
<1>3. Clear.op = "clear" /\ ClearOwn.op = "look" /\ [op |-> "unlink"].op = "unlink"
  BY DEF Clear, ClearOwn
<1>4. \A todo \in Jobs : todo.op \in {"write", "fill"} => todo \in Alarms
  BY DEF Jobs
<1> QED
  BY <1>1, <1>2, <1>3, <1>4, SignalAssumption DEF Jobs

LEMMA DriftJobIs ==
    ASSUME NEW critical
    PROVE  DriftJob(critical) \in Jobs \union {None}
<1> DEFINE affected == {DriftComponent[c] : c \in critical \intersect DOMAIN DriftComponent}
<1>1. affected \subseteq Components
  BY DEF DriftComponent, Components
<1>2. affected # {} => Raise(affected, "critical") \in Jobs
  BY <1>1, RaiseIs, ClearsAre
<1> QED
  BY <1>2, ClearsAre DEF DriftJob

LEMMA SmokeJobIs ==
    ASSUME NEW failed
    PROVE  SmokeJob(failed) \in Jobs \union {None}
<1>1. {"runtime_enforcement_entrypoint"} \in (SUBSET Components) \ {{}}
  BY DEF Components
<1> QED
  BY <1>1, RaiseIs, ClearsAre DEF SmokeJob

LEMMA FeedbackJobIs ==
    ASSUME NEW entries \in Seq(FeedbackEntries)
    PROVE  /\ FeedbackJob(entries) \in Jobs \union {None}
           /\ FeedbackJob(entries) \in Alarms => FailedOften(entries)
<1> DEFINE trend == TrendOf(entries, Recent(entries))
<1>1. {"runtime_enforcement_quality_trend"} \in (SUBSET Components) \ {{}}
  BY DEF Components
<1>2. trend \in {"insufficient_data", "critical", "advisory", "ok"}
  BY DEF TrendOf
<1>3. trend \in {"critical", "advisory"} => FailedOften(entries)
  BY TrendMeans DEF Recent
<1>4. FeedbackJob(entries) =
          CASE trend = "critical" -> Raise({"runtime_enforcement_quality_trend"}, "critical")
            [] trend = "advisory" -> Raise({"runtime_enforcement_quality_trend"}, "warning")
            [] trend = "ok" -> ClearOwn
            [] trend = "insufficient_data" -> None
  BY DEF FeedbackJob
<1> HIDE DEF trend
<1>5. CASE trend \in {"critical", "advisory"}
  BY <1>1, <1>3, <1>4, <1>5, RaiseIs, ClearsAre
<1>6. CASE trend \in {"ok", "insufficient_data"}
  BY <1>4, <1>6, ClearsAre
<1> QED
  BY <1>2, <1>5, <1>6

-----------------------------------------------------------------------------
LEMMA SignalStarts == SignalInit => SignalInv
<1> SUFFICES ASSUME SignalInit PROVE SignalInv
  OBVIOUS
<1>1. /\ signal = None /\ None \notin Signals /\ None \notin Jobs /\ Alarms \subseteq Jobs
      /\ feedback = <<>> /\ date = 0 /\ masked = {} /\ started = None
      /\ \A p \in Producers : job[p] = None /\ alarms[p] = None
  BY ClearsAre, SignalAssumption DEF SignalInit
<1>2. SignalTyped
  BY <1>1 DEF SignalInit, SignalTyped
<1>3. Feedback \in Producers
  BY DEF Producers
<1> QED
  BY <1>1, <1>2, <1>3 DEF SignalInv, AlarmsStand, FeedbackGrounded, StartedWell

LEMMA RunKeeps ==
    ASSUME SignalInv, NEW p \in Producers, NEW todo \in Jobs \union {None},
           job' = [job EXCEPT ![p] = todo], started' = None,
           UNCHANGED <<signal, date, alarms, masked>>,
           \/ UNCHANGED feedback
           \/ \E e \in FeedbackEntries : feedback' = Append(feedback, e),
           p = Feedback /\ todo \in Alarms => FailedOften(feedback')
    PROVE  SignalInv'
<1>1. Feedback \in Producers /\ job \in [Producers -> Jobs \union {None}]
      /\ feedback \in Seq(FeedbackEntries)
  BY DEF Producers, SignalInv, SignalTyped
<1>2. feedback' \in Seq(FeedbackEntries) /\ (FailedOften(feedback) => FailedOften(feedback'))
  <2>1. CASE UNCHANGED feedback
    <3>1. feedback' = feedback
      BY <2>1
    <3> QED
      BY <1>1, <3>1 DEF FailedOften
  <2>2. CASE \E e \in FeedbackEntries : feedback' = Append(feedback, e)
    <3>1. PICK e \in FeedbackEntries : feedback' = Append(feedback, e)
      BY <2>2
    <3>2. FailedOften(feedback) => FailedOften(Append(feedback, e))
      BY <1>1, FailedMore
    <3>3. Append(feedback, e) \in Seq(FeedbackEntries)
      BY <1>1
    <3> QED
      BY <3>1, <3>2, <3>3
  <2> QED
    BY <2>1, <2>2
<1>3. job' \in [Producers -> Jobs \union {None}] /\ (job'[Feedback] = IF p = Feedback THEN todo ELSE job[Feedback])
  BY <1>1
<1>4. SignalTyped'
  BY <1>2, <1>3 DEF SignalTyped, SignalInv
<1>5. AlarmsStand'
  BY DEF AlarmsStand, SignalInv
<1>6. FeedbackGrounded'
  BY <1>2, <1>3 DEF FeedbackGrounded, SignalInv
<1> QED
  BY <1>4, <1>5, <1>6 DEF SignalInv, StartedWell

LEMMA ChecksKeep ==
    ASSUME SignalInv,
           \/ \E critical \in {{}, {"plan_freshness"}, {"protected_files_unmodified", "plan_freshness"}} :
                  CheckDrift(critical)
           \/ \E failed \in {{}, {"pre_task_ok"}} : CheckEnforcement(failed)
           \/ \E r \in CheckResults : RecordFeedback(r.smoke, r.pytest)
    PROVE  SignalInv'
<1>1. Drift \in Producers /\ Smoke \in Producers /\ Feedback \in Producers
      /\ Drift # Feedback /\ Smoke # Feedback
  BY DEF Producers, Drift, Smoke, Feedback
<1>2. ASSUME NEW critical, CheckDrift(critical) PROVE SignalInv'
  <2>1. /\ job' = [job EXCEPT ![Drift] = DriftJob(critical)] /\ started' = None
        /\ UNCHANGED <<signal, feedback, date, alarms, masked>>
    BY <1>2 DEF CheckDrift, Run
  <2> QED
    BY <1>1, <2>1, DriftJobIs, RunKeeps
<1>3. ASSUME NEW failed, CheckEnforcement(failed) PROVE SignalInv'
  <2>1. /\ job' = [job EXCEPT ![Smoke] = SmokeJob(failed)] /\ started' = None
        /\ UNCHANGED <<signal, feedback, date, alarms, masked>>
    BY <1>3 DEF CheckEnforcement, Run
  <2> QED
    BY <1>1, <2>1, SmokeJobIs, RunKeeps
<1>4. ASSUME NEW r \in CheckResults, RecordFeedback(r.smoke, r.pytest) PROVE SignalInv'
  <2> DEFINE entry == [smoke |-> r.smoke, pytest |-> r.pytest, day |-> date]
  <2>1. /\ job' = [job EXCEPT ![Feedback] = FeedbackJob(feedback')] /\ started' = None
        /\ feedback' = Append(feedback, entry)
        /\ UNCHANGED <<signal, date, alarms, masked>>
    BY <1>4 DEF RecordFeedback, Run
  <2>2. entry \in FeedbackEntries /\ feedback \in Seq(FeedbackEntries)
    BY DEF FeedbackEntries, SignalInv, SignalTyped
  <2> HIDE DEF entry
  <2>3. feedback' \in Seq(FeedbackEntries)
    BY <2>1, <2>2
  <2>4. /\ FeedbackJob(feedback') \in Jobs \union {None}
        /\ FeedbackJob(feedback') \in Alarms => FailedOften(feedback')
    BY <2>3, FeedbackJobIs
  <2> QED
    BY <1>1, <2>1, <2>2, <2>4, RunKeeps
<1> QED
  BY <1>2, <1>3, <1>4

LEMMA TruncateKeeps ==
    ASSUME SignalInv, NEW p \in Producers, TruncateSignal(p)
    PROVE  SignalInv'
<1>1. /\ job[p] # None /\ job[p].op = "write" /\ signal' = Torn
      /\ job' = [job EXCEPT ![p].op = "fill"]
      /\ masked' = masked \union OtherAlarms(p) \union {p} /\ started' = None
      /\ UNCHANGED <<feedback, date, alarms>>
  BY DEF TruncateSignal
<1>2. job[p] \in Alarms
  BY <1>1, ClearsAre DEF SignalInv, SignalTyped
<1>3. [job[p] EXCEPT !.op = "fill"] \in Alarms
  BY <1>2 DEF Alarms
<1>4. Feedback \in Producers /\ job \in [Producers -> Jobs \union {None}]
  BY DEF Producers, SignalInv, SignalTyped
<1>5. /\ job' \in [Producers -> Jobs \union {None}]
      /\ job'[Feedback] \in Alarms => job[Feedback] \in Alarms
  BY <1>1, <1>2, <1>3, <1>4, ClearsAre
<1>6. OtherAlarms(p) = {q \in Producers \ {p} : alarms[q] # None}
  BY DEF OtherAlarms
<1>7. SignalTyped'
  BY <1>1, <1>5, <1>6 DEF SignalTyped, SignalInv
<1>8. AlarmsStand'
  BY <1>1, <1>6, SignalAssumption DEF AlarmsStand
<1>9. FeedbackGrounded'
  BY <1>1, <1>5, SignalAssumption DEF FeedbackGrounded, SignalInv
<1> QED
  BY <1>1, <1>7, <1>8, <1>9 DEF SignalInv, StartedWell

LEMMA FillSignalKeeps ==
    ASSUME SignalInv, NEW p \in Producers, FillSignal(p)
    PROVE  SignalInv'
<1> DEFINE text == [components |-> job[p].components \intersect Components,
                    severity |-> job[p].severity, source |-> p, day |-> date]
<1>1. /\ job[p] # None /\ job[p].op = "fill" /\ signal' \in {None, Torn, text}
      /\ masked' = (masked \union OtherAlarms(p) \union {p}) \ (IF signal' = text THEN {p} ELSE {})
      /\ job' = [job EXCEPT ![p] = None] /\ alarms' = [alarms EXCEPT ![p] = date]
      /\ started' = None /\ UNCHANGED <<feedback, date>>
  BY DEF FillSignal
<1>2. job[p] \in Alarms
  BY <1>1, ClearsAre DEF SignalInv, SignalTyped
<1>3. /\ text \in Signals /\ text.components # {} /\ text.source = p /\ text.day = date
  <2>1. /\ job[p].components \subseteq Components /\ job[p].components # {}
        /\ job[p].severity \in {"critical", "warning"} /\ date \in Nat
    BY <1>2 DEF Alarms, SignalInv, SignalTyped
  <2>2. job[p].components \intersect Components = job[p].components
    BY <2>1
  <2> QED
    BY <2>1, <2>2 DEF Signals
<1> HIDE DEF text
<1>4. Feedback \in Producers /\ job \in [Producers -> Jobs \union {None}]
      /\ alarms \in [Producers -> Nat \union {None}] /\ date \in Nat /\ masked \subseteq Producers
  BY DEF Producers, SignalInv, SignalTyped
<1>5. /\ job' \in [Producers -> Jobs \union {None}]
      /\ job'[Feedback] \in Alarms => job[Feedback] \in Alarms
      /\ alarms' \in [Producers -> Nat \union {None}] /\ alarms'[p] = date
      /\ \A q \in Producers \ {p} : alarms'[q] = alarms[q]
  BY <1>1, <1>4, ClearsAre
<1>6. OtherAlarms(p) = {q \in Producers \ {p} : alarms[q] # None}
  BY DEF OtherAlarms
<1>7. SignalTyped'
  BY <1>1, <1>3, <1>4, <1>5, <1>6 DEF SignalTyped, SignalInv
<1>8. AlarmsStand'
  <2>1. \A q \in Producers \ masked' : alarms'[q] # None => q = p /\ signal' = text
    BY <1>1, <1>5, <1>6
  <2>2. signal' \in Signals => signal' = text
    BY <1>1, SignalAssumption
  <2> QED
    BY <1>3, <1>5, <2>1, <2>2 DEF AlarmsStand
<1>9. FeedbackGrounded'
  <2>1. signal' \in Signals => signal' = text
    BY <1>1, SignalAssumption
  <2> QED
    BY <1>1, <1>2, <1>3, <1>5, <2>1 DEF FeedbackGrounded, SignalInv
<1> QED
  BY <1>1, <1>7, <1>8, <1>9 DEF SignalInv, StartedWell

LEMMA RemoveSignalKeeps ==
    ASSUME SignalInv, NEW p \in Producers, RemoveSignal(p)
    PROVE  SignalInv'
<1>1. /\ signal' = None /\ job' = [job EXCEPT ![p] = None]
      /\ alarms' = [alarms EXCEPT ![p] = None] /\ masked' = masked \union OtherAlarms(p)
      /\ started' = None /\ UNCHANGED <<feedback, date>>
  BY DEF RemoveSignal
<1>2. Feedback \in Producers /\ job \in [Producers -> Jobs \union {None}]
      /\ alarms \in [Producers -> Nat \union {None}]
  BY DEF Producers, SignalInv, SignalTyped
<1>3. /\ job' \in [Producers -> Jobs \union {None}]
      /\ job'[Feedback] \in Alarms => job[Feedback] \in Alarms
      /\ alarms' \in [Producers -> Nat \union {None}] /\ alarms'[p] = None
      /\ \A q \in Producers \ {p} : alarms'[q] = alarms[q]
  BY <1>1, <1>2, ClearsAre
<1>4. OtherAlarms(p) = {q \in Producers \ {p} : alarms[q] # None}
  BY DEF OtherAlarms
<1>5. SignalTyped'
  BY <1>1, <1>3, <1>4 DEF SignalTyped, SignalInv
<1>6. AlarmsStand'
  BY <1>1, <1>3, <1>4, SignalAssumption DEF AlarmsStand
<1>7. FeedbackGrounded'
  BY <1>1, <1>3, SignalAssumption DEF FeedbackGrounded, SignalInv
<1> QED
  BY <1>1, <1>5, <1>6, <1>7 DEF SignalInv, StartedWell

LEMMA LookForOwnKeeps ==
    ASSUME SignalInv, NEW p \in Producers, LookForOwn(p)
    PROVE  SignalInv'
<1>1. /\ job' = [job EXCEPT ![p] = IF Own(p) THEN [op |-> "unlink"] ELSE None]
      /\ alarms' = [alarms EXCEPT ![p] = IF Own(p) THEN @ ELSE None]
      /\ started' = None /\ UNCHANGED <<signal, feedback, date, masked>>
  BY DEF LookForOwn
<1>2. Feedback \in Producers /\ job \in [Producers -> Jobs \union {None}]
      /\ alarms \in [Producers -> Nat \union {None}]
  BY DEF Producers, SignalInv, SignalTyped
<1>3. /\ job' \in [Producers -> Jobs \union {None}]
      /\ job'[Feedback] \in Alarms => job[Feedback] \in Alarms
      /\ alarms' \in [Producers -> Nat \union {None}]
      /\ \A q \in Producers : alarms'[q] = alarms[q] \/ (q = p /\ ~Own(p) /\ alarms'[q] = None)
  BY <1>1, <1>2, ClearsAre
<1>4. signal \in Signals /\ signal.source = p => Own(p)
  BY SignalAssumption DEF Own
<1>5. SignalTyped'
  BY <1>1, <1>3 DEF SignalTyped, SignalInv
<1>6. AlarmsStand'
  <2>1. signal \in Signals => signal.source \in Producers
    BY DEF Signals
  <2> QED
    BY <1>1, <1>3, <1>4, <2>1 DEF AlarmsStand, SignalInv
<1>7. FeedbackGrounded'
  BY <1>1, <1>3 DEF FeedbackGrounded, SignalInv
<1> QED
  BY <1>1, <1>5, <1>6, <1>7 DEF SignalInv, StartedWell

LEMMA DieKeeps ==
    ASSUME SignalInv, NEW p \in Producers, DieSignalling(p)
    PROVE  SignalInv'
<1>1. /\ job' = [job EXCEPT ![p] = None] /\ started' = None
      /\ UNCHANGED <<signal, feedback, date, alarms, masked>>
  BY DEF DieSignalling
<1> QED
  BY <1>1, RunKeeps, ClearsAre

LEMMA PassKeeps ==
    ASSUME SignalInv, NEW d \in Calendar, PassDays(d)
    PROVE  SignalInv'
<1>1. /\ date' = d /\ d \in Nat /\ started' = None
      /\ UNCHANGED <<signal, job, feedback, alarms, masked>>
  BY SignalAssumption DEF PassDays
<1> QED
  BY <1>1 DEF SignalInv, SignalTyped, AlarmsStand, FeedbackGrounded, StartedWell

-----------------------------------------------------------------------------
(* What a session starts with. *)
LEMMA ReadIsAlive ==
    ASSUME SignalInv
    PROVE  /\ ReadSignal = None \/ (ReadSignal \in Signals /\ ReadSignal = signal /\ date - signal.day <= MaxAge)
           /\ signal \in Signals /\ date - signal.day <= MaxAge => ReadSignal = signal
           /\ ReadSignal \in Signals => ReadSignal # None
<1>1. signal \in Signals \union {None, Torn} /\ None \notin Signals /\ Torn \notin Signals
  BY SignalAssumption DEF SignalInv, SignalTyped
<1>2. signal \in Signals => signal.day \in Nat /\ date \in Nat
  BY DEF Signals, SignalInv, SignalTyped
<1> QED
  BY <1>1, <1>2 DEF ReadSignal, MaxAge

(* Every component asks for L1. *)
LEMMA OverridesAre ==
    ASSUME NEW read \in Signals \union {None}
    PROVE  /\ Overrides(read).level \in {"L0", "L1"}
           /\ Overrides(read).level = "L1" <=> read # None /\ read.components # {}
<1> DEFINE affected == IF read = None THEN {} ELSE read.components
           levels == {MinLevel[c] : c \in affected}
<1>1. affected \subseteq Components
  BY DEF Signals
<1>2. \A c \in affected : MinLevel[c] = "L1"
  BY <1>1 DEF MinLevel
<1>3. affected # {} => levels = {"L1"}
  BY <1>2
<1>4. affected # {} => (CHOOSE l \in levels : \A k \in levels : Rank[k] <= Rank[l]) = "L1"
  BY <1>3 DEF Rank
<1>5. Overrides(read).level = IF affected = {} THEN "L0"
                              ELSE CHOOSE l \in levels : \A k \in levels : Rank[k] <= Rank[l]
  BY DEF Overrides
<1> HIDE DEF levels
<1> QED
  BY <1>4, <1>5

LEMMA HigherIs ==
    ASSUME NEW a \in Levels, NEW b \in {"L0", "L1"}
    PROVE  /\ Higher(a, b) \in Levels
           /\ b = "L1" => Higher(a, b) # "L0"
           /\ Higher(a, b) # a => b = "L1"
           /\ Higher(a, b) = "L0" => a = "L0"
<1>1. Rank["L0"] = 0 /\ Rank["L1"] = 1 /\ Rank["L2"] = 2
  BY DEF Rank
<1>2. CASE b = "L0"
  BY <1>1, <1>2 DEF Higher, Levels
<1>3. CASE b = "L1"
  BY <1>1, <1>3 DEF Higher, Levels
<1> QED
  BY <1>2, <1>3

LEMMA AskedIs ==
    ASSUME NEW input \in SessionInputs
    PROVE  LET asked == Upgraded(DetectedLevel(input.words, input.explicit), input.words, input.risk)
           IN  /\ asked \in Levels
               /\ asked = "L0" =>
                      /\ input.risk \notin {"high", "critical"}
                      /\ input.words \intersect {"schema", "external", "kdc"} = {}
                      /\ input.explicit = None => input.words \intersect {"L2", "veto"} = {}
<1> DEFINE detected == DetectedLevel(input.words, input.explicit)
<1>1. /\ detected \in Levels
      /\ detected = "L0" /\ input.explicit = None => input.words \intersect {"L2", "veto"} = {}
  <2>1. CASE input.explicit # None
    BY <2>1, SignalAssumption DEF DetectedLevel
  <2>2. CASE input.explicit = None
    BY <2>2 DEF DetectedLevel, Levels
  <2> QED
    BY <2>1, <2>2
<1> HIDE DEF detected
<1>2. CASE Triggered(input.words, input.risk)
  BY <1>1, <1>2 DEF Upgraded, Levels, detected
<1>3. CASE ~Triggered(input.words, input.risk)
  BY <1>1, <1>3 DEF Upgraded, Triggered, detected
<1> QED
  BY <1>2, <1>3

LEMMA AllowedIs ==
    ASSUME NEW level, NEW f \in GovernanceDocs, f.name \in Allowed(level)
    PROVE  f.audience # "human-only" /\ (level = "L0" => f.load = "always")
<1>1. PICK g \in GovernanceDocs :
          /\ f.name = g.name /\ g.audience # "human-only"
          /\ g.load = "always" \/ (g.load = "on-demand" /\ level # "L0")
  BY DEF Allowed
<1>2. f = g
  BY <1>1, SignalAssumption
<1> QED
  BY <1>1, <1>2

LEMMA StartKeeps ==
    ASSUME SignalInv, NEW input \in SessionInputs, StartSession(input)
    PROVE  SignalInv'
<1> DEFINE read == ReadSignal
           asked == Upgraded(DetectedLevel(input.words, input.explicit), input.words, input.risk)
           level == Higher(asked, Overrides(read).level)
<1>1. /\ started' = [input |-> input, level |-> level, raised |-> level # asked,
                     contract |-> LoadsContract(level, input), files |-> Allowed(level),
                     full |-> Overrides(read).full]
      /\ UNCHANGED <<signal, job, feedback, date, alarms, masked>>
  BY DEF StartSession
<1>2. read \in Signals \union {None}
  BY ReadIsAlive
<1>3. /\ asked \in Levels
      /\ asked = "L0" => /\ input.risk \notin {"high", "critical"}
                         /\ input.words \intersect {"schema", "external", "kdc"} = {}
                         /\ input.explicit = None => input.words \intersect {"L2", "veto"} = {}
  BY AskedIs
<1>4. /\ Overrides(read).level \in {"L0", "L1"}
      /\ Overrides(read).level = "L1" <=> read # None /\ read.components # {}
  BY <1>2, OverridesAre
<1> HIDE DEF asked
<1>5. /\ Overrides(read).level = "L1" => level # "L0"
      /\ level # asked => Overrides(read).level = "L1"
      /\ level = "L0" => asked = "L0"
  BY <1>3, <1>4, HigherIs
<1>6. ASSUME NEW p \in Producers \ masked, alarms[p] # None, date - alarms[p] <= 2
      PROVE  level # "L0"
  <2>1. signal \in Signals /\ signal.components # {} /\ signal.day = alarms[p]
    BY <1>6 DEF SignalInv, AlarmsStand
  <2>2. read = signal /\ read # None
    BY <1>6, <2>1, ReadIsAlive DEF MaxAge
  <2> QED
    BY <1>4, <1>5, <2>1, <2>2
<1>7. level # asked => \E p \in Producers : alarms[p] # None /\ date - alarms[p] <= 2
  <2> SUFFICES ASSUME level # asked
               PROVE  \E p \in Producers : alarms[p] # None /\ date - alarms[p] <= 2
    OBVIOUS
  <2>1. signal \in Signals /\ date - signal.day <= 2
    BY <1>2, <1>4, <1>5, ReadIsAlive DEF MaxAge
  <2>2. signal.source \in Producers /\ signal.day \in Nat /\ alarms[signal.source] = signal.day
    BY <2>1 DEF Signals, SignalInv, AlarmsStand
  <2>3. signal.day # None
    BY <2>2, SignalAssumption
  <2> QED
    BY <2>1, <2>2, <2>3
<1>8. ~LoadsContract(level, input) => level = "L0" /\ "domain" \notin input.words
  BY DEF LoadsContract
<1>9. \A f \in GovernanceDocs : f.name \in Allowed(level) =>
          f.audience # "human-only" /\ (level = "L0" => f.load = "always")
  BY AllowedIs
<1> HIDE DEF level
<1>10. /\ started'.input = input /\ started'.level = level /\ started'.raised = (level # asked)
       /\ started'.contract = LoadsContract(level, input) /\ started'.files = Allowed(level)
  BY <1>1
<1>11. StartedWell'
  BY <1>1, <1>3, <1>5, <1>6, <1>7, <1>8, <1>9, <1>10 DEF StartedWell
<1> QED
  BY <1>1, <1>11 DEF SignalInv, SignalTyped, AlarmsStand, FeedbackGrounded

-----------------------------------------------------------------------------
LEMMA SignalInductive == SignalInv /\ [SignalNext]_signalVars => SignalInv'
<1> SUFFICES ASSUME SignalInv, [SignalNext]_signalVars PROVE SignalInv'
  OBVIOUS
<1>1. CASE UNCHANGED signalVars
  BY <1>1 DEF signalVars, SignalInv, SignalTyped, AlarmsStand, FeedbackGrounded, StartedWell
<1>2. CASE \/ \E critical \in {{}, {"plan_freshness"}, {"protected_files_unmodified", "plan_freshness"}} :
                  CheckDrift(critical)
           \/ \E failed \in {{}, {"pre_task_ok"}} : CheckEnforcement(failed)
           \/ \E r \in CheckResults : RecordFeedback(r.smoke, r.pytest)
  BY <1>2, ChecksKeep
<1>3. CASE \E p \in Producers :
               TruncateSignal(p) \/ FillSignal(p) \/ RemoveSignal(p) \/ LookForOwn(p) \/ DieSignalling(p)
  BY <1>3, TruncateKeeps, FillSignalKeeps, RemoveSignalKeeps, LookForOwnKeeps, DieKeeps
<1>4. CASE \E d \in Calendar : PassDays(d)
  BY <1>4, PassKeeps
<1>5. CASE \E input \in SessionInputs : StartSession(input)
  BY <1>5, StartKeeps
<1> QED
  BY <1>1, <1>2, <1>3, <1>4, <1>5 DEF SignalNext

LEMMA SignalInvMeans == SignalInv => SignalSound
<1> SUFFICES ASSUME SignalInv PROVE SignalSound
  OBVIOUS
<1>1. signal \notin {None, Torn} => signal \in Signals
  BY DEF SignalInv, SignalTyped
<1>2. signal \notin {None, Torn} => alarms[signal.source] # None
  <2>1. signal \in Signals => signal.day \in Nat /\ alarms[signal.source] = signal.day
    BY DEF Signals, SignalInv, AlarmsStand
  <2> QED
    BY <1>1, <2>1, SignalAssumption
<1>3. signal \notin {None, Torn} /\ signal.source = Feedback => FailedOften(feedback)
  BY <1>1 DEF SignalInv, FeedbackGrounded
<1> QED
  BY <1>2, <1>3 DEF SignalInv, StartedWell, SignalSound, FailedOften

(* While an alarm of the last two days stands in the file, which nobody has *)
(* emptied, replaced or removed since it was written there, its producer    *)
(* included, no session starts at L0 (write_risk_signal, read_risk_signal,  *)
(* compute_overrides); a level is raised only for such an alarm; L0 is kept *)
(* from risky work; and a feedback alarm has three runs behind it, at least *)
(* two of them bad (summarize_feedback_trend).                              *)
THEOREM SignalIsSound == SignalSpec => []SignalSound
<1>1. SignalSpec => []SignalInv
  BY SignalStarts, SignalInductive, PTL DEF SignalSpec
<1> QED
  BY <1>1, SignalInvMeans, PTL

-----------------------------------------------------------------------------
(* The checks before and after a task.                                      *)

(* Nothing changes while a result waits to be read, so it is what the check *)
(* makes of the contracts and the plan of this moment.                      *)
PreGrounded ==
    pre # None =>
        /\ pre.request \in Requests /\ pre.place = reachable /\ pre.plan = plan
        /\ pre.out = PreCheck(pre.request)

PostGrounded ==
    post # None =>
        /\ post.answer \in Answers /\ post.place = reachable
        /\ post.out = PostCheck(post.answer)
        /\ post.out # Torn /\ post.out.stored => post.answer \in memory

MemoryEvidenced ==
    \A answer \in memory :
        Evidenced(answer) /\ ~(answer.risk = "high" /\ answer.oversight = "auto")

TaskInv ==
    /\ reachable \in ContractPlaces /\ plan \in {"FRESH", "STALE", "CRITICAL", "ERROR"}
    /\ PreGrounded /\ PostGrounded /\ MemoryEvidenced

-----------------------------------------------------------------------------
(* What a topic leaves of the packs. *)
LEMMA LoadedAre ==
    ASSUME NEW request
    PROVE  /\ ToLoad(request) \subseteq Range(request.rules)
           /\ Range(request.rules) \intersect {"common", "refactor"} \subseteq ToLoad(request)
BY DEF ToLoad, Universal

(* One contract and no other path to one: it is what is found. *)
LEMMA OneIsResolved ==
    ASSUME reachable \in ContractPlaces, NEW c \in reachable.found, Unambiguous(reachable, c),
           NEW beside, beside \subseteq {c}
    PROVE  /\ Resolve(None, beside) = [contract |-> c, failed |-> FALSE]
           /\ c \notin {None, Missing}
<1>1. reachable.found \union beside = {c} /\ reachable.env \in {None, Missing}
  BY DEF Unambiguous
<1>2. Cardinality({c}) = 1
  BY FS_Singleton
<1>3. (CHOOSE d \in {c} : TRUE) = c
  OBVIOUS
<1>4. c \notin {None, Missing}
  BY TaskAssumption
<1> QED
  BY <1>1, <1>2, <1>3, <1>4, TaskAssumption DEF Resolve

(* Below the highest level what is lacking is told; there it stops. *)
LEMMA EffectsAre ==
    ASSUME NEW governing, NEW request, Unmet(governing, request) # {}
    PROVE  /\ BoundaryEffect(governing, request) = LevelEffect[Normal(request.level)]
           /\ request.level = "L2" => BoundaryEffect(governing, request) = "stop"
           /\ request.level = "L0" => BoundaryEffect(governing, request) = "warn"
           /\ request.level \notin {"L0", "L2"} => BoundaryEffect(governing, request) = "escalate"
BY DEF BoundaryEffect, LevelEffect, Normal, TaskLevels

LEMMA StopIsStrongest ==
    ASSUME NEW b \in {"pass", "warn", "escalate", "stop"}
    PROVE  Stronger("stop", b) = "stop"
BY DEF Stronger, EffectRank

-----------------------------------------------------------------------------
(* A task that may start, and an answer that is accepted. *)
StartsSound ==
    pre # None /\ pre.out # Torn /\ pre.out.errors = {} =>
        LET request == pre.request
        IN  /\ Range(request.rules) \intersect {"common", "refactor"} \subseteq pre.out.loaded
            /\ request.explicit = Missing => request.skip
            /\ \A c \in pre.place.found, t \in Preconditions :
                   /\ ~request.skip /\ request.explicit = None /\ Unambiguous(pre.place, c)
                   /\ c.applies[t] \intersect request.work # {} /\ t \notin request.shown
                   => /\ request.level # "L2"
                      /\ pre.out.boundary = IF request.level = "L0" THEN "warn" ELSE "escalate"

AnswersSound ==
    post # None /\ post.out # Torn =>
        LET answer == post.answer
        IN  /\ post.out.stored => answer \in memory
            /\ post.out.errors = {} =>
                /\ answer.explicit # Missing
                /\ answer.oversight = "auto" =>
                       answer.risk # "high" /\ "durable" # (IF answer.mode # None THEN answer.mode
                                                            ELSE answer.block.mode)
                /\ answer.snapshot => answer \in memory
                /\ Evidenced(answer)
                /\ \A c \in post.place.found : answer.explicit = None /\ answer.beside \subseteq {c}
                        /\ Unambiguous(post.place, c) =>
                      \A v \in c.validators : v.loads /\
                          (v.rules \intersect Range(answer.block.rules) # {}
                             /\ v.rules \intersect c.hardStop # {} => v.name \notin answer.violated)

LEMMA OutputHas ==
    ASSUME NEW errors, NEW boundary, NEW summary, NEW loaded, NEW out,
           out = [errors |-> errors, boundary |-> boundary, summary |-> summary,
                  loaded |-> loaded]
    PROVE  /\ out.errors = errors /\ out.boundary = boundary
           /\ out.summary = summary /\ out.loaded = loaded
OBVIOUS

LEMMA TaskInvStarts ==
    ASSUME TaskInv
    PROVE  StartsSound
<1> SUFFICES ASSUME pre # None, pre.out # Torn, pre.out.errors = {} PROVE StartsSound
  BY DEF StartsSound
<1> DEFINE request  == pre.request
           resolved == IF request.skip THEN [contract |-> None, failed |-> FALSE]
                       ELSE Resolve(request.explicit, {})
           governing == resolved.contract
           summary  == SummaryFirst(governing, request)
           effect   == Stronger(BoundaryEffect(governing, request),
                                InjectionEffect(governing, request, summary))
<1>1. /\ request \in Requests /\ pre.place = reachable /\ pre.plan = plan
      /\ pre.out = PreCheck(request) /\ reachable \in ContractPlaces
      /\ plan \in {"FRESH", "STALE", "CRITICAL", "ERROR"}
  BY DEF TaskInv, PreGrounded
<1>2. pre.out = [errors |-> PreErrors(governing, resolved.failed, request),
                 boundary |-> BoundaryEffect(governing, request),
                 summary |-> summary,
                 loaded |-> ToLoad(request) \intersect Packs(governing)]
  BY <1>1 DEF PreCheck
<1> HIDE DEF resolved, summary
<1>3. /\ PreErrors(governing, resolved.failed, request) = {}
      /\ pre.out.boundary = BoundaryEffect(governing, request)
      /\ pre.out.loaded = ToLoad(request) \intersect Packs(governing)
      /\ pre.out.summary = summary
  BY <1>2, OutputHas
<1> USE DEF resolved, summary
<1>4. /\ plan \notin {"CRITICAL", "ERROR"} /\ ToLoad(request) \subseteq Packs(governing)
      /\ ~(request.risk = "high" /\ request.oversight = "auto")
      /\ ~resolved.failed /\ effect # "stop"
  BY <1>3, Zenon DEF PreErrors
<1>5. pre.out.loaded = ToLoad(request)
  BY <1>3, <1>4
<1>7. request.explicit = Missing => request.skip
  BY <1>4 DEF Resolve
<1>8. ASSUME NEW c \in reachable.found, NEW t \in Preconditions,
             ~request.skip, request.explicit = None, Unambiguous(reachable, c),
             c.applies[t] \intersect request.work # {}, t \notin request.shown
      PROVE  /\ request.level # "L2"
             /\ pre.out.boundary = IF request.level = "L0" THEN "warn" ELSE "escalate"
  <2>1. governing = c /\ c # None
    BY <1>1, <1>8, OneIsResolved
  <2>2. Unmet(governing, request) # {}
    BY <1>8, <2>1 DEF Unmet
  <2>3. InjectionEffect(governing, request, summary) \in {"pass", "warn", "escalate", "stop"}
    BY DEF InjectionEffect, LevelEffect, Normal, TaskLevels
  <2> HIDE DEF summary, governing
  <2>4. request.level # "L2"
    BY <1>4, <2>2, <2>3, EffectsAre, StopIsStrongest
  <2> QED
    BY <1>3, <2>2, <2>4, EffectsAre
<1> HIDE DEF request
<1>9. Range(request.rules) \intersect {"common", "refactor"} \subseteq pre.out.loaded
  BY <1>5, LoadedAre
<1> QED
  BY <1>1, <1>7, <1>8, <1>9 DEF StartsSound, request

-----------------------------------------------------------------------------
LEMMA AnswerOutputHas ==
    ASSUME NEW errors, NEW stored, NEW out, out = [errors |-> errors, stored |-> stored]
    PROVE  out.errors = errors /\ out.stored = stored
OBVIOUS

(* Every conjunct is what one validator asks for, in the order of the code. *)
LEMMA EvidencedIfAccepted ==
    ASSUME NEW answer \in Answers, NEW governing, answer.block # None,
           FailureErrors(answer) = {}, RefactorErrors(answer) = {}, DriverErrors(answer) = {},
           EvidenceErrors(governing, answer) = {},
           ~(DiffOf(answer) # None /\ DiffOf(answer).errors)
    PROVE  Evidenced(answer)
<1> DEFINE c == Given(answer)
           rules == Range(answer.block.rules)
<1>1. Rules(answer) = rules
  BY DEF Rules
<1>2. c.failed \in Nat
  BY TaskAssumption DEF Given, NoChecks
<1>3. c.diff # Torn /\ (c.required \intersect RequiredKinds) \ Observed(governing, answer) = {}
  BY Zenon DEF EvidenceErrors
<1>4. ASSUME "refactor" \in rules
      PROVE  /\ "regression" \in c.tests
             /\ "cleanup" \in c.tests \union c.covered \union c.verified
             /\ c.inventory # Torn /\ c.inventory # None
             /\ c.inventory # {} => c.behaviour # Torn /\ c.inventory \subseteq c.behaviour
             /\ \A d \in {IF c.diff # None THEN c.diff ELSE answer.files} \ {None} : ~d.errors
  <2>1. /\ "regression" \in c.tests
        /\ c.inventory \notin {None, Torn}
        /\ c.inventory # {} => c.behaviour # Torn /\ c.inventory \subseteq c.behaviour
    BY <1>1, <1>4, Zenon DEF RefactorErrors
  <2>2. HasChecks(answer)
    BY <2>1 DEF HasChecks, Given, NoChecks
  <2>3. "cleanup" \in c.tests \union c.covered \union Verified(answer)
    BY <1>1, <1>4, <2>2, Zenon DEF FailureErrors
  <2>4. "cleanup" \in Verified(answer) => "cleanup" \in c.verified
    BY DEF Verified
  <2>5. DiffOf(answer) = IF c.diff # None THEN c.diff ELSE answer.files
    BY <1>1, <1>3, <1>4 DEF DiffOf
  <2>6. \A d \in {IF c.diff # None THEN c.diff ELSE answer.files} \ {None} : ~d.errors
    BY <2>5
  <2> HIDE DEF c
  <2> QED
    BY <2>1, <2>3, <2>4, <2>6
<1>5. ASSUME "kernel-driver" \in rules
      PROVE  c.failed = 0 /\ "sdv" \in c.verified \union c.diagnostics
  <2>1. ~(c.failed > 0) /\ "sdv" \in Verified(answer) \union c.diagnostics
    BY <1>1, <1>5, Zenon DEF DriverErrors
  <2>2. "sdv" \in Verified(answer) => "sdv" \in c.verified
    BY DEF Verified
  <2> HIDE DEF c
  <2> QED
    BY <1>2, <2>1, <2>2
<1>6. ASSUME "public-api-diff" \in c.required \ c.kinds
      PROVE  c.diff # Torn /\ (c.diff # None \/ (answer.files # None /\ "refactor" \in rules))
  <2>1. "public-api-diff" \in Observed(governing, answer)
    BY <1>3, <1>6 DEF RequiredKinds
  <2>2. c.diff # None \/ DiffOf(answer) # None
    BY <1>6, <2>1 DEF Observed
  <2> QED
    BY <1>1, <1>3, <2>2 DEF DiffOf
<1> QED
  BY <1>4, <1>5, <1>6 DEF Evidenced

LEMMA AcceptedIs ==
    ASSUME NEW answer \in Answers, NEW governing, NEW failed,
           PostErrors(governing, failed, answer) = {}
    PROVE  /\ answer.block # None /\ answer.block.bad = {} /\ ~failed
           /\ answer.oversight = "auto" => answer.risk # "high" /\ MemoryMode(answer) # "durable"
           /\ Evidenced(answer)
           /\ \A v \in Ran(governing, answer) :
                  v.loads /\ ~(Violates(v, answer) /\ v.rules \intersect governing.hardStop # {})
<1>1. /\ BlockErrors(answer.block, governing) = {} /\ ~failed
      /\ ~(answer.risk = "high" /\ answer.oversight = "auto")
      /\ ~(MemoryMode(answer) = "durable" /\ answer.oversight = "auto")
      /\ ~(DiffOf(answer) # None /\ DiffOf(answer).errors)
      /\ FailureErrors(answer) = {} /\ RefactorErrors(answer) = {} /\ DriverErrors(answer) = {}
      /\ {"validator" : v \in {w \in Ran(governing, answer) : ~w.loads}} = {}
      /\ EvidenceErrors(governing, answer) = {} /\ PolicyErrors(governing, answer) = {}
  BY Zenon DEF PostErrors
<1>2. answer.block # None
  BY <1>1 DEF BlockErrors
<1>3. answer.block.bad = {}
  BY <1>1, <1>2, Zenon DEF BlockErrors
<1>4. Evidenced(answer)
  BY <1>1, <1>2, EvidencedIfAccepted
<1>5. \A v \in Ran(governing, answer) : v.loads
  BY <1>1
<1>6. \A v \in Ran(governing, answer) :
          ~(Violates(v, answer) /\ v.rules \intersect governing.hardStop # {})
  BY <1>1, Zenon DEF PolicyErrors
<1> QED
  BY <1>1, <1>2, <1>3, <1>4, <1>5, <1>6

LEMMA PostCheckIs ==
    ASSUME NEW answer, PostCheck(answer) # Torn
    PROVE  LET resolved == Resolve(answer.explicit, answer.beside)
               errors   == PostErrors(resolved.contract, resolved.failed, answer)
           IN  /\ resolved.contract # Torn
               /\ PostCheck(answer).stored => answer.snapshot /\ answer.root /\ errors = {}
               /\ PostCheck(answer).errors = {} =>
                      errors = {} /\ (answer.snapshot => PostCheck(answer).stored)
<1> DEFINE resolved == Resolve(answer.explicit, answer.beside)
           errors   == PostErrors(resolved.contract, resolved.failed, answer)
           all == errors \union IF answer.snapshot /\ ~answer.root /\ errors = {}
                                THEN {"no memory root"} ELSE {}
<1>1. /\ resolved.contract # Torn
      /\ PostCheck(answer) = [errors |-> all, stored |-> Snapshotted(answer, errors)]
  BY DEF PostCheck
<1> HIDE DEF all
<1>2. /\ PostCheck(answer).errors = all
      /\ PostCheck(answer).stored = Snapshotted(answer, errors)
  BY <1>1, AnswerOutputHas
<1>3. all = {} => errors = {} /\ ~(answer.snapshot /\ ~answer.root)
  BY Zenon DEF all
<1> HIDE DEF errors, resolved
<1>4. PostCheck(answer).stored <=> answer.snapshot /\ answer.root /\ errors = {}
  BY <1>2, Zenon DEF Snapshotted
<1> QED
  BY <1>1, <1>2, <1>3, <1>4, Zenon DEF errors, resolved

LEMMA TaskInvAnswers ==
    ASSUME TaskInv
    PROVE  AnswersSound
<1> SUFFICES ASSUME post # None, post.out # Torn PROVE AnswersSound
  BY DEF AnswersSound
<1> DEFINE answer   == post.answer
           resolved == Resolve(answer.explicit, answer.beside)
           governing == resolved.contract
           errors   == PostErrors(governing, resolved.failed, answer)
<1>1. /\ answer \in Answers /\ post.place = reachable /\ reachable \in ContractPlaces
      /\ post.out = PostCheck(answer)
      /\ post.out.stored => answer \in memory
  BY DEF TaskInv, PostGrounded
<1>2. /\ governing # Torn
      /\ post.out.stored => answer.snapshot /\ answer.root /\ errors = {}
      /\ post.out.errors = {} => errors = {} /\ (answer.snapshot => post.out.stored)
  BY <1>1, PostCheckIs
<1>3. ASSUME post.out.errors = {}
      PROVE  /\ answer.explicit # Missing
             /\ answer.oversight = "auto" =>
                    answer.risk # "high" /\ "durable" # (IF answer.mode # None THEN answer.mode
                                                         ELSE answer.block.mode)
             /\ answer.snapshot => answer \in memory
             /\ Evidenced(answer)
             /\ \A c \in post.place.found : answer.explicit = None /\ answer.beside \subseteq {c}
                     /\ Unambiguous(post.place, c) =>
                   \A v \in c.validators : v.loads /\
                       (v.rules \intersect Range(answer.block.rules) # {}
                          /\ v.rules \intersect c.hardStop # {} => v.name \notin answer.violated)
  <2> HIDE DEF answer, governing
  <2>1. /\ answer.block # None /\ answer.block.bad = {} /\ ~resolved.failed
        /\ answer.oversight = "auto" => answer.risk # "high" /\ MemoryMode(answer) # "durable"
        /\ Evidenced(answer)
        /\ \A v \in Ran(governing, answer) :
               v.loads /\ ~(Violates(v, answer) /\ v.rules \intersect governing.hardStop # {})
    BY <1>1, <1>2, <1>3, AcceptedIs
  <2>2. answer.explicit # Missing
    BY <2>1 DEF Resolve
  <2>3. MemoryMode(answer) # "durable" =>
            "durable" # (IF answer.mode # None THEN answer.mode ELSE answer.block.mode)
    BY <2>1, TaskAssumption DEF MemoryMode
  <2>4. answer.snapshot => answer \in memory
    BY <1>1, <1>2, <1>3
  <2>5. ASSUME NEW c \in reachable.found, answer.explicit = None, answer.beside \subseteq {c},
               Unambiguous(reachable, c), NEW v \in c.validators
        PROVE  v.loads /\ (v.rules \intersect Range(answer.block.rules) # {}
                             /\ v.rules \intersect c.hardStop # {} => v.name \notin answer.violated)
    <3>1. governing = c /\ c # None
      BY <1>1, <2>5, OneIsResolved DEF governing
    <3>2. Rules(answer) = Range(answer.block.rules)
      BY <2>1 DEF Rules
    <3>3. ~v.loads \/ v.rules \intersect Range(answer.block.rules) # {} => v \in Ran(governing, answer)
      BY <3>1, <3>2 DEF Ran
    <3>4. v.loads
      BY <2>1, <3>3
    <3> QED
      BY <2>1, <3>1, <3>3, <3>4 DEF Violates
  <2> QED
    BY <1>1, <2>1, <2>2, <2>3, <2>4, <2>5
<1> QED
  BY <1>1, <1>2, <1>3 DEF AnswersSound

-----------------------------------------------------------------------------
LEMMA TaskInvBegins == TaskInit => TaskInv
BY DEF TaskInit, TaskInv, PreGrounded, PostGrounded, MemoryEvidenced

LEMMA ProposeKeeps ==
    ASSUME TaskInv, NEW request \in Requests, Propose(request)
    PROVE  TaskInv'
<1>1. /\ pre' = [request |-> request, place |-> reachable, plan |-> plan,
                 out |-> PreCheck(request)]
      /\ post = None
      /\ UNCHANGED <<reachable, plan, post, memory>>
  BY DEF Propose, TaskIdle
<1>2. PreCheck(request)' = PreCheck(request)
  BY <1>1 DEF PreCheck, PreErrors, Resolve
<1>3. /\ pre'.request = request /\ pre'.place = reachable /\ pre'.plan = plan
      /\ pre'.out = PreCheck(request)
  BY <1>1
<1>4. PreGrounded'
  BY <1>1, <1>2, <1>3 DEF PreGrounded
<1> QED
  BY <1>1, <1>4 DEF TaskInv, PostGrounded, MemoryEvidenced

LEMMA HandInKeeps ==
    ASSUME TaskInv, NEW answer \in Answers, HandIn(answer)
    PROVE  TaskInv'
<1> DEFINE out == PostCheck(answer)
<1>1. /\ pre = None
      /\ post' = [answer |-> answer, place |-> reachable, out |-> out]
      /\ memory' = IF out # Torn /\ out.stored THEN memory \union {answer} ELSE memory
      /\ UNCHANGED <<reachable, plan, pre>>
  BY DEF HandIn, TaskIdle
<1>2. PostCheck(answer)' = out
  <2>1. UNCHANGED reachable
    BY <1>1
  <2> QED
    BY <2>1 DEF PostCheck, Resolve
<1>3. ASSUME out # Torn, out.stored
      PROVE  Evidenced(answer) /\ ~(answer.risk = "high" /\ answer.oversight = "auto")
  <2> DEFINE resolved == Resolve(answer.explicit, answer.beside)
             errors   == PostErrors(resolved.contract, resolved.failed, answer)
  <2>1. errors = {}
    BY <1>3, PostCheckIs
  <2> QED
    BY <2>1, AcceptedIs
<1> HIDE DEF out
<1>4. post'.answer = answer /\ post'.place = reachable /\ post'.out = out
  BY <1>1
<1>5. PostGrounded'
  BY <1>1, <1>2, <1>4 DEF PostGrounded
<1>6. MemoryEvidenced'
  BY <1>1, <1>3 DEF TaskInv, MemoryEvidenced
<1> QED
  BY <1>1, <1>5, <1>6 DEF TaskInv, PreGrounded

LEMMA TaskInductive == TaskInv /\ [TaskNext]_taskVars => TaskInv'
<1> SUFFICES ASSUME TaskInv, [TaskNext]_taskVars PROVE TaskInv'
  OBVIOUS
<1>1. CASE UNCHANGED taskVars
  <2>1. \A request : PreCheck(request)' = PreCheck(request)
    BY <1>1 DEF taskVars, PreCheck, PreErrors, Resolve
  <2>2. \A answer : PostCheck(answer)' = PostCheck(answer)
    BY <1>1 DEF taskVars, PostCheck, Resolve
  <2> QED
    BY <1>1, <2>1, <2>2 DEF taskVars, TaskInv, PreGrounded, PostGrounded, MemoryEvidenced
<1>2. CASE \E request \in Requests : Propose(request)
  BY <1>2, ProposeKeeps
<1>3. CASE \E answer \in Answers : HandIn(answer)
  BY <1>3, HandInKeeps
<1>4. CASE Read
  BY <1>4 DEF Read, TaskInv, PreGrounded, PostGrounded, MemoryEvidenced
<1>5. CASE Change
  BY <1>5 DEF Change, TaskIdle, TaskInv, PreGrounded, PostGrounded, MemoryEvidenced
<1> QED
  BY <1>1, <1>2, <1>3, <1>4, <1>5 DEF TaskNext

(* Work starts and ends under the rules in force: a task that may start has *)
(* the packs for everybody and the inputs its contract asks for             *)
(* (run_pre_task_check); an answer that is accepted has its evidence, and   *)
(* the memory holds such answers only (run_post_task_check); for any        *)
(* contracts, requests and answers.                                         *)
THEOREM TaskIsSound == TaskSpec => []TaskSound
<1>1. TaskSpec => []TaskInv
  BY TaskInvBegins, TaskInductive, PTL DEF TaskSpec
<1>2. TaskInv => TaskSound
  <2> SUFFICES ASSUME TaskInv PROVE TaskSound
    OBVIOUS
  <2>1. StartsSound /\ AnswersSound
    BY TaskInvStarts, TaskInvAnswers
  <2>2. MemoryEvidenced
    BY DEF TaskInv
  <2> QED
    BY <2>1, <2>2, Zenon DEF TaskSound, StartsSound, AnswersSound, MemoryEvidenced
<1> QED
  BY <1>1, <1>2, PTL
=============================================================================
