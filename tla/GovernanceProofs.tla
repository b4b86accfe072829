--------------------------- MODULE GovernanceProofs ---------------------------
(***************************************************************************)
(* Proofs about what the application says of a document, for every set of  *)
(* documents, chunks and claims, every response of a language model, and   *)
(* any number of instances and runs.                                       *)
(*                                                                         *)
(* Claims.  What the parser guarantees of one claim is a lemma about       *)
(* Claim; what it guarantees of a report, one about ReportOn.  Every       *)
(* stored report is one of those, and the last audit is one of a stored    *)
(* report: that is the inductive invariant, from which the properties of   *)
(* audits follow.                                                          *)
(* Then the measurement of what the rules achieve, and the sections of the *)
(* chunks the claims are made from.                                        *)
(***************************************************************************)
EXTENDS Classification, ClaimGovernance, Measurement, FiniteSetTheorems, SequenceTheorems,
        WellFoundedInduction, TLAPS

(* What the parser makes of a raw claim in a summary of document d. *)
Disciplined(c, d) ==
    /\ c.evidence = {} => c.level = "insufficient_evidence"
    /\ c.source \in Narrative => c.level # "observed_fact" /\ c.prefix # ""
    /\ c.source = "management_expectation" => c.confidence # "high"
    /\ c.forward => c.review
    /\ \A e \in c.evidence : e.document = d

Sound(rep) ==
    /\ \A c \in rep.claims : Disciplined(c, rep.document)
    /\ rep.evidence_status = "complete" =>
          /\ Clean(rep.claims) # {}
          /\ \A c \in Clean(rep.claims) : c.level # "insufficient_evidence"
    /\ ~rep.investment_advice_detected =>
          \A c \in rep.claims : c.words \cap GuardPhrases = {}

AuditOK ==
    audit # None =>
        /\ audit \in Audit
        /\ audit.report \in 1..Len(reports)
        /\ audit.document = reports[audit.report].document
        /\ audit.violations = Violations(reports[audit.report])
        /\ audit.warnings = Warnings(reports[audit.report], audit.document)

IInv ==
    /\ GovernanceTypeOK
    /\ \A n \in 1..Len(reports) : Sound(reports[n])
    /\ AuditOK

-----------------------------------------------------------------------------
(* A listed value or the default comes out of the check of a field. *)
LEMMA ListedIn ==
    ASSUME NEW values, NEW default \in values, NEW value
    PROVE  Listed(value, values, default) \in values
BY DEF Listed

LEMMA FieldsListed ==
    ASSUME NEW r \in RawClaim
    PROVE  /\ Source(r) \in Sources
           /\ Confidence(r) \in Confidences
           /\ EvidencedLevel(r) \in Levels
           /\ FinalLevel(r) \in Levels
           /\ Prefix(Source(r)) \in {"", "the company states", "management says"}
<1>1. Source(r) \in Sources
  BY ListedIn DEF Source, Sources
<1>2. Confidence(r) \in Confidences
  BY ListedIn DEF Confidence, Confidences
<1>3. EvidencedLevel(r) \in Levels
  BY ListedIn DEF EvidencedLevel, Levels
<1>4. FinalLevel(r) \in Levels
  BY <1>3 DEF FinalLevel, Levels
<1>5. Prefix(Source(r)) \in {"", "the company states", "management says"}
  BY <1>1 DEF Prefix, Sources
<1> QED
  BY <1>1, <1>2, <1>3, <1>4, <1>5

LEMMA ClaimParsed ==
    ASSUME NEW d \in ClaimDocuments, NEW r \in RawClaim, NEW consistent \in BOOLEAN
    PROVE  /\ Claim(d, r, consistent) \in ParsedClaim
           /\ Disciplined(Claim(d, r, consistent), d)
           /\ Claim(d, r, consistent).words = r.words
<1> DEFINE c == Claim(d, r, consistent)
<1>1. /\ Source(r) \in Sources
      /\ Confidence(r) \in Confidences
      /\ FinalLevel(r) \in Levels
      /\ Prefix(Source(r)) \in {"", "the company states", "management says"}
  BY FieldsListed
<1>2. /\ r.evidence \subseteq {"bare", "quoted"}
      /\ r.forward \in BOOLEAN /\ r.review \in BOOLEAN /\ r.contaminated \in BOOLEAN
      /\ r.words \subseteq Words
  BY DEF RawClaim
<1>3. Contaminated(r, consistent) \in BOOLEAN /\ Implied(r) \in BOOLEAN
  BY <1>2 DEF Contaminated, Implied
<1>4. c.evidence \subseteq [document : ClaimDocuments, quoted : BOOLEAN]
  <2>1. c.evidence = {[document |-> d, quoted |-> e = "quoted"] : e \in r.evidence}
    BY DEF Claim
  <2> SUFFICES ASSUME NEW x \in c.evidence
               PROVE  x \in [document : ClaimDocuments, quoted : BOOLEAN]
    OBVIOUS
  <2>2. PICK e \in r.evidence : x = [document |-> d, quoted |-> e = "quoted"]
    BY <2>1
  <2>3. (e = "quoted") \in BOOLEAN
    OBVIOUS
  <2> QED
    BY <2>2, <2>3
<1>5. c \in ParsedClaim
  BY <1>1, <1>2, <1>3, <1>4 DEF Claim, ParsedClaim
<1>6. c.evidence = {} => c.level = "insufficient_evidence"
  <2>1. c.evidence = {} => r.evidence = {}
    BY ZenonT(60) DEF Claim
  <2>2. r.evidence = {} => FinalLevel(r) = "insufficient_evidence"
    BY DEF FinalLevel, EvidencedLevel
  <2> QED
    BY <2>1, <2>2 DEF Claim
<1>7. c.source \in Narrative => c.level # "observed_fact" /\ c.prefix # ""
  BY DEF Claim, FinalLevel, Prefix, Narrative
<1>8. c.source = "management_expectation" => c.confidence # "high"
  BY DEF Claim, Confidence
<1>9. c.forward => c.review
  BY DEF Claim
<1>10. \A e \in c.evidence : e.document = d
  BY DEF Claim
<1> QED
  BY <1>5, <1>6, <1>7, <1>8, <1>9, <1>10 DEF Disciplined, Claim

LEMMA ReportSound ==
    ASSUME NEW d \in ClaimDocuments, NEW raw \in SUBSET RawClaim, NEW consistent \in BOOLEAN,
           NEW words, \A r \in raw : r.words \subseteq words
    PROVE  /\ ReportOn(d, raw, consistent, words) \in Report
           /\ Sound(ReportOn(d, raw, consistent, words))
<1> DEFINE parsed == {Claim(d, r, consistent) : r \in raw}
           rep == ReportOn(d, raw, consistent, words)
<1>1. /\ parsed \in SUBSET ParsedClaim
      /\ \A c \in parsed : Disciplined(c, d)
      /\ \A c \in parsed : c.words \subseteq words
  BY ClaimParsed
<1>2. /\ rep.document = d /\ rep.claims = parsed /\ rep.consistent = consistent
      /\ rep.evidence_status = EvidenceStatus(parsed)
      /\ rep.investment_advice_detected = (words \cap GuardPhrases # {})
  BY DEF ReportOn
<1> HIDE DEF parsed
<1>3. EvidenceStatus(parsed) \in {"complete", "partial", "insufficient"}
  BY DEF EvidenceStatus
<1>4. rep \in Report
  BY <1>1, <1>3 DEF ReportOn, Report, parsed
<1>5. EvidenceStatus(parsed) = "complete" =>
        Clean(parsed) # {} /\ Insufficient(Clean(parsed)) = {}
  BY DEF EvidenceStatus
<1>6. Insufficient(Clean(parsed)) = {} =>
        \A c \in Clean(parsed) : c.level # "insufficient_evidence"
  BY DEF Insufficient
<1>7. ~rep.investment_advice_detected => \A c \in parsed : c.words \cap GuardPhrases = {}
  BY <1>1, <1>2
<1> QED
  BY <1>1, <1>2, <1>4, <1>5, <1>6, <1>7 DEF Sound

(* The audit of a report answers with rules of the list. *)
LEMMA AuditRules ==
    ASSUME NEW rep, NEW d
    PROVE  Violations(rep) \subseteq Rules /\ Warnings(rep, d) \subseteq Rules
BY DEF Violations, Warnings, Rules

-----------------------------------------------------------------------------
LEMMA GenerateStep ==
    ASSUME IInv, NEW d \in ClaimDocuments, Generate(d)
    PROVE  IInv'
<1>1. PICK raw \in Batches, consistent \in BOOLEAN, summary \in {{}, GuardPhrases} :
        reports' = Append(reports,
            ReportOn(d, raw, consistent, summary \cup UNION {r.words : r \in raw}))
  BY DEF Generate
<1> DEFINE rep == ReportOn(d, raw, consistent, summary \cup UNION {r.words : r \in raw})
<1>2. /\ raw \in SUBSET RawClaim
      /\ \A r \in raw : r.words \subseteq summary \cup UNION {q.words : q \in raw}
  BY GovernanceAssumption
<1>3. rep \in Report /\ Sound(rep)
  BY <1>2, ReportSound
<1> HIDE DEF rep
<1>4. /\ reports \in Seq(Report) /\ Len(reports) <= MaxReports
      /\ audit \in Audit \cup {None}
      /\ Len(reports) < MaxReports
      /\ UNCHANGED audit
      /\ MaxReports \in Nat
  BY GovernanceAssumption DEF IInv, GovernanceTypeOK, Generate
<1>5. /\ reports' \in Seq(Report)
      /\ Len(reports') = Len(reports) + 1
      /\ Len(reports) \in Nat
      /\ \A n \in 1..Len(reports) : reports'[n] = reports[n]
      /\ reports'[Len(reports) + 1] = rep
  <2>1. reports' = Append(reports, rep)
    BY <1>1 DEF rep
  <2> QED
    BY <2>1, <1>3, <1>4, AppendProperties
<1>6. GovernanceTypeOK'
  BY <1>4, <1>5 DEF GovernanceTypeOK
<1>7. (\A n \in 1..Len(reports) : Sound(reports[n]))'
  <2> SUFFICES ASSUME NEW n \in 1..(Len(reports) + 1) PROVE Sound(reports'[n])
    BY <1>5
  <2>1. CASE n = Len(reports) + 1
    BY <2>1, <1>3, <1>5
  <2>2. CASE n \in 1..Len(reports)
    <3>1. reports'[n] = reports[n] /\ Sound(reports[n])
      BY <2>2, <1>5 DEF IInv
    <3> QED
      BY <3>1
  <2> QED
    BY <2>1, <2>2, <1>5
<1>8. AuditOK'
  <2> SUFFICES ASSUME audit # None
               PROVE  /\ audit \in Audit
                      /\ audit.report \in 1..Len(reports')
                      /\ audit.document = reports'[audit.report].document
                      /\ audit.violations = Violations(reports'[audit.report])
                      /\ audit.warnings = Warnings(reports'[audit.report], audit.document)
    BY <1>4 DEF AuditOK
  <2>1. /\ audit \in Audit
        /\ audit.report \in 1..Len(reports)
        /\ audit.document = reports[audit.report].document
        /\ audit.violations = Violations(reports[audit.report])
        /\ audit.warnings = Warnings(reports[audit.report], audit.document)
    BY DEF IInv, AuditOK
  <2>2. reports'[audit.report] = reports[audit.report] /\ audit.report \in 1..Len(reports')
    BY <2>1, <1>5
  <2> QED
    BY <2>1, <2>2
<1> QED
  BY <1>6, <1>7, <1>8 DEF IInv

LEMMA AuditStep ==
    ASSUME IInv, NEW d \in ClaimDocuments, NEW latest \in BOOLEAN, RunAudit(d, latest)
    PROVE  IInv'
<1>1. PICK n \in Audited(d, latest) :
        /\ audit' = [document |-> d, report |-> n,
                     violations |-> Violations(reports[n]),
                     warnings |-> Warnings(reports[n], d)]
        /\ UNCHANGED reports
  BY DEF RunAudit
<1>2. /\ n \in 1..Len(reports) /\ reports[n].document = d
      /\ Len(reports) \in Nat /\ Len(reports) <= MaxReports /\ MaxReports \in Nat
  BY GovernanceAssumption DEF Audited, ReportsOf, IInv, GovernanceTypeOK
<1>3. audit' \in Audit
  <2>1. n \in 1..MaxReports
    BY <1>2
  <2>2. Violations(reports[n]) \subseteq Rules /\ Warnings(reports[n], d) \subseteq Rules
    BY AuditRules
  <2> QED
    BY <1>1, <2>1, <2>2 DEF Audit
<1>4. GovernanceTypeOK'
  BY <1>1, <1>3 DEF IInv, GovernanceTypeOK
<1>5. (\A k \in 1..Len(reports) : Sound(reports[k]))'
  BY <1>1 DEF IInv
<1>6. AuditOK'
  <2>1. /\ audit'.report = n /\ audit'.document = d
        /\ audit'.violations = Violations(reports[n])
        /\ audit'.warnings = Warnings(reports[n], d)
        /\ reports' = reports
    BY <1>1
  <2> QED
    BY <2>1, <1>2, <1>3 DEF AuditOK
<1> QED
  BY <1>4, <1>5, <1>6 DEF IInv

LEMMA Inductive == GovernanceSpec => []IInv
<1>1. GovernanceInit => IInv
  BY GovernanceAssumption DEF GovernanceInit, IInv, GovernanceTypeOK, AuditOK
<1>2. IInv /\ [GovernanceNext]_governanceVars => IInv'
  <2> SUFFICES ASSUME IInv, [GovernanceNext]_governanceVars PROVE IInv'
    OBVIOUS
  <2>1. CASE UNCHANGED governanceVars
    <3>1. reports' = reports /\ audit' = audit
      BY <2>1 DEF governanceVars
    <3> QED
      BY <3>1 DEF IInv, GovernanceTypeOK, AuditOK
  <2>2. CASE GovernanceNext
    <3> PICK d \in ClaimDocuments : Generate(d) \/ \E latest \in BOOLEAN : RunAudit(d, latest)
      BY <2>2 DEF GovernanceNext
    <3> QED
      BY GenerateStep, AuditStep
  <2> QED
    BY <2>1, <2>2
<1> QED
  BY <1>1, <1>2, PTL DEF GovernanceSpec

-----------------------------------------------------------------------------
(* Every stored field holds a value its model allows. *)
THEOREM GovernanceTypeCorrect == GovernanceSpec => []GovernanceTypeOK
<1>1. IInv => GovernanceTypeOK
  BY DEF IInv
<1> QED
  BY <1>1, Inductive, PTL

(* Whatever a model answers, the claims that are stored keep the discipline. *)
THEOREM StoredClaimsDisciplined == GovernanceSpec => []ClaimsDisciplined
<1>1. IInv => ClaimsDisciplined
  <2> SUFFICES ASSUME IInv, NEW n \in DOMAIN reports, NEW c \in reports[n].claims
               PROVE  Disciplined(c, reports[n].document)
    BY DEF ClaimsDisciplined, Claims, Disciplined
  <2>1. n \in 1..Len(reports)
    BY DEF IInv, GovernanceTypeOK
  <2> QED
    BY <2>1 DEF IInv, Sound
<1> QED
  BY <1>1, Inductive, PTL

(* A report with complete evidence has claims, and all of them cite it. *)
THEOREM CompleteReportsEvidenced == GovernanceSpec => []CompleteMeansEvidenced
<1>1. IInv => CompleteMeansEvidenced
  <2> SUFFICES ASSUME IInv, NEW n \in DOMAIN reports,
                      reports[n].evidence_status = "complete"
               PROVE  /\ Clean(reports[n].claims) # {}
                      /\ \A c \in Clean(reports[n].claims) : c.evidence # {}
    BY DEF CompleteMeansEvidenced
  <2>1. n \in 1..Len(reports)
    BY DEF IInv, GovernanceTypeOK
  <2>2. Sound(reports[n])
    BY <2>1 DEF IInv
  <2>3. \A c \in Clean(reports[n].claims) : c \in reports[n].claims
    BY DEF Clean
  <2> QED
    BY <2>2, <2>3 DEF Sound, Disciplined
<1> QED
  BY <1>1, Inductive, PTL

(* An audit that passed vouches for every claim that admits no gap. *)
THEOREM PassedAuditsVouch == GovernanceSpec => []PassedMeansEvidenced
<1>1. IInv => PassedMeansEvidenced
  <2> SUFFICES ASSUME IInv, audit # None, audit.violations = {},
                      NEW c \in reports[audit.report].claims
               PROVE  /\ c.level # "insufficient_evidence" =>
                             \E e \in c.evidence : e.document = audit.document
                      /\ c.level = "derived_metric" => \E e \in c.evidence : e.quoted
                      /\ c.words \cap (GuardPhrases \cup AuditPhrases) = {}
    BY DEF PassedMeansEvidenced
  <2> DEFINE rep == reports[audit.report]
  <2>1. /\ Sound(rep) /\ audit.document = rep.document /\ Violations(rep) = {}
    BY DEF IInv, AuditOK
  <2>2. /\ "R1" \notin Violations(rep) /\ "R2" \notin Violations(rep)
        /\ "R4" \notin Violations(rep)
    BY <2>1
  <2>3. ~R1(c) /\ ~R2(c) /\ ~R4(c) /\ ~rep.investment_advice_detected
    BY <2>2 DEF Violations
  <2>4. \A e \in c.evidence : e.document = audit.document
    BY <2>1 DEF Sound, Disciplined
  <2>5. c.words \cap GuardPhrases = {}
    BY <2>1, <2>3 DEF Sound
  <2>6. \E e \in c.evidence : e.document = audit.document
    BY <2>3, <2>4 DEF R1
  <2>7. c.level = "derived_metric" => \E e \in c.evidence : e.quoted
    BY <2>3 DEF R2
  <2>8. c.words \cap (GuardPhrases \cup AuditPhrases) = {}
    BY <2>3, <2>5 DEF R4
  <2> QED
    BY <2>6, <2>7, <2>8
<1> QED
  BY <1>1, Inductive, PTL

(* The audit of a generated report warns of nothing but talk of trends. *)
THEOREM AuditsWarnOfTrendsOnly == GovernanceSpec => []WarnsOfTrendsOnly
<1>1. IInv => WarnsOfTrendsOnly
  <2> SUFFICES ASSUME IInv, audit # None PROVE audit.warnings \subseteq {"R7"}
    BY DEF WarnsOfTrendsOnly
  <2> DEFINE rep == reports[audit.report]
  <2>1. /\ Sound(rep) /\ audit.document = rep.document
        /\ audit.warnings = Warnings(rep, rep.document)
    BY DEF IInv, AuditOK
  <2>2. \A c \in rep.claims : ~R3(c) /\ ~R5(c, rep.document)
    BY <2>1 DEF Sound, Disciplined, R3, R5
  <2> QED
    BY <2>1, <2>2 DEF Warnings
<1> QED
  BY <1>1, Inductive, PTL
-----------------------------------------------------------------------------
(* Measurement.  What passes unblocked through the rules passes without     *)
(* them, and nothing of what the audit counts is left behind them.          *)
LEMMA GovernanceOnlyBlocks ==
    ASSUME NEW r \in RawClaim
    PROVE  Unblocked(Governed(r)) => Unblocked(Ungoverned(r))
<1> SUFFICES ASSUME Unblocked(Governed(r)) PROVE Unblocked(Ungoverned(r))
  OBVIOUS
<1>1. /\ FinalLevel(r) # "insufficient_evidence"
      /\ Confidence(r) = "high"
      /\ ~r.forward
  BY DEF Governed, Claim, Unblocked, RawClaim
<1>2. r.evidence # {} /\ r.level # "insufficient_evidence"
  BY <1>1 DEF FinalLevel, EvidencedLevel, Listed, Levels
<1>3. r.confidence = "high"
  BY <1>1 DEF Confidence, Listed, Confidences
<1> QED
  BY <1>1, <1>2, <1>3 DEF Ungoverned, Unblocked

LEMMA NothingRemains ==
    ASSUME NEW r \in RawClaim
    PROVE  ~Remains(Governed(r))
<1> DEFINE c == Governed(r)
<1>1. c.source \in Narrative => c.level # "observed_fact" /\ c.prefix # ""
  BY DEF Governed, Claim, FinalLevel, Prefix, Narrative
<1>2. c.source = "management_expectation" => c.confidence # "high"
  BY DEF Governed, Claim, Confidence
<1> QED
  BY <1>1, <1>2 DEF Remains

(* What the rates of a set of claims are worth. *)
LEMMA RatesSound ==
    ASSUME NEW set, set \subseteq RawClaim, IsFiniteSet(set), NEW layer
    PROVE  /\ Rates(layer, set) \in Measured
           /\ Rates(layer, set).after <= Rates(layer, set).before
           /\ layer = "real" => Rates(layer, set).after = 0
           /\ Passes(Rates("real", set)) => \E r \in set : r.source \in Narrative
<1> DEFINE free == {r \in set : Unblocked(Ungoverned(r))}
           kept == {r \in set : Unblocked(Governed(r))}
           narrated == {r \in set : Violates(r)}
           left == {r \in set : Remains(Governed(r))}
<1>1. /\ Cardinality(free) \in Nat /\ Cardinality(kept) \in Nat
      /\ Cardinality(kept) <= Cardinality(free)
  <2>1. kept \subseteq free /\ free \subseteq set
    BY GovernanceOnlyBlocks
  <2>2. IsFiniteSet(free)
    BY <2>1, FS_Subset
  <2> QED
    BY <2>1, <2>2, FS_Subset, FS_CardinalityType
<1>2. /\ Cardinality(narrated) \in Nat
      /\ Cardinality(narrated) # 0 => \E r \in set : r.source \in Narrative
  <2>1. IsFiniteSet(narrated)
    BY FS_Subset
  <2>2. narrated # {} => \E r \in set : r.source \in Narrative
    BY DEF Violates
  <2> QED
    BY <2>1, <2>2, FS_CardinalityType, FS_EmptySet
<1>3. Cardinality(left) = 0
  <2>1. left = {}
    BY NothingRemains
  <2> QED
    BY <2>1, FS_EmptySet
<1> HIDE DEF free, kept, narrated, left
<1>4. CASE layer = "synthetic"
  <2>1. Rates(layer, set) =
          [before |-> Scale * Cardinality(free), after |-> Scale * Cardinality(kept)]
    BY <1>4 DEF Rates, free, kept
  <2>2. Rates("real", set) =
          [before |-> Scale * Cardinality(narrated), after |-> Scale * Cardinality(left)]
    BY DEF Rates, narrated, left
  <2> QED
    BY <1>1, <1>2, <1>3, <1>4, <2>1, <2>2 DEF Measured, Scale, Passes, Delta, Tolerance
<1>5. CASE layer # "synthetic"
  <2>1. /\ Rates(layer, set) =
             [before |-> Scale * Cardinality(narrated), after |-> Scale * Cardinality(left)]
        /\ Rates("real", set) = Rates(layer, set)
    BY <1>5 DEF Rates, narrated, left
  <2> QED
    BY <1>2, <1>3, <2>1 DEF Measured, Scale, Passes, Delta, Tolerance
<1> QED
  BY <1>4, <1>5

-----------------------------------------------------------------------------
(* The files of a mode: a layer is written as a whole or not at all, its    *)
(* checkpoint with the synthetic one, and the decision after both layers    *)
(* and the bridge.                                                          *)
FilesOf(m) == {m[i] : i \in 1..Len(m)}
LayerFiles(layer) == {layer} \X Seeds \X Arms

ModeSound(m) ==
    /\ m \in Seq(Files) /\ Len(m) >= 1
    /\ \A layer \in Layers :
          LayerFiles(layer) \subseteq FilesOf(m) \/ LayerFiles(layer) \cap FilesOf(m) = {}
    /\ IF <<"checkpoint">> \in FilesOf(m)
       THEN LayerFiles("synthetic") \subseteq FilesOf(m)
       ELSE LayerFiles("synthetic") \cap FilesOf(m) = {}
    /\ IF <<"verdict">> \in FilesOf(m)
       THEN <<"bridge">> \in FilesOf(m) /\ ResultFiles \subseteq FilesOf(m)
       ELSE <<"bridge">> \notin FilesOf(m)

LEMMA FileKinds ==
    /\ \A f \in ResultFiles :
          /\ Len(f) = 3 /\ f[1] \in Layers /\ f[2] \in Seeds /\ f[3] \in Arms
          /\ f = <<f[1], f[2], f[3]>>
          /\ f \notin {<<"checkpoint">>, <<"bridge">>, <<"verdict">>, <<"suite">>}
    /\ \A s \in STRING : Len(<<s>>) # 3
    /\ ResultFiles = LayerFiles("synthetic") \union LayerFiles("real")
    /\ LayerFiles("synthetic") \cap LayerFiles("real") = {}
<1>1. \A s \in STRING : Len(<<s>>) = 1
  OBVIOUS
<1>2. \A f \in ResultFiles : Len(f) = 3
  BY DEF ResultFiles
<1> QED
  BY <1>1, <1>2 DEF ResultFiles, LayerFiles, Layers

LEMMA FilesOfConcat ==
    ASSUME NEW a \in Seq(Files), NEW b \in Seq(Files)
    PROVE  /\ a \o b \in Seq(Files) /\ Len(a \o b) = Len(a) + Len(b)
           /\ FilesOf(a \o b) = FilesOf(a) \union FilesOf(b)
<1>1. /\ a \o b \in Seq(Files) /\ Len(a \o b) = Len(a) + Len(b)
      /\ \A i \in 1..Len(a \o b) :
            (a \o b)[i] = IF i <= Len(a) THEN a[i] ELSE b[i - Len(a)]
      /\ Len(a) \in Nat /\ Len(b) \in Nat
  BY ConcatProperties
<1>2. FilesOf(a \o b) \subseteq FilesOf(a) \union FilesOf(b)
  <2> SUFFICES ASSUME NEW i \in 1..Len(a \o b)
               PROVE  (a \o b)[i] \in FilesOf(a) \union FilesOf(b)
    BY DEF FilesOf
  <2>1. CASE i <= Len(a)
    BY <1>1, <2>1 DEF FilesOf
  <2>2. CASE i > Len(a)
    <3>1. i - Len(a) \in 1..Len(b) /\ (a \o b)[i] = b[i - Len(a)]
      BY <1>1, <2>2
    <3> QED
      BY <3>1 DEF FilesOf
  <2> QED
    BY <1>1, <2>1, <2>2
<1>3. FilesOf(a) \subseteq FilesOf(a \o b)
  BY <1>1 DEF FilesOf
<1>4. FilesOf(b) \subseteq FilesOf(a \o b)
  <2> SUFFICES ASSUME NEW i \in 1..Len(b) PROVE b[i] \in FilesOf(a \o b)
    BY DEF FilesOf
  <2>1. i + Len(a) \in 1..Len(a \o b) /\ (a \o b)[i + Len(a)] = b[i]
    BY <1>1
  <2> QED
    BY <2>1 DEF FilesOf
<1> QED
  BY <1>1, <1>2, <1>3, <1>4

LEMMA CasesSound ==
    ASSUME NEW layer \in Layers
    PROVE  /\ Cases(layer) \in Seq(Files) /\ Len(Cases(layer)) = 6
           /\ FilesOf(Cases(layer)) = LayerFiles(layer)
<1>1. Len(Cases(layer)) = 6
  BY DEF Cases
<1>2. \A i \in 1..6 : Cases(layer)[i] \in LayerFiles(layer)
  BY DEF Cases, LayerFiles, Seeds, Arms
<1>3. LayerFiles(layer) \subseteq {Cases(layer)[i] : i \in 1..6}
  BY DEF Cases, LayerFiles, Seeds, Arms
<1>4. LayerFiles(layer) \subseteq Files
  BY DEF LayerFiles, Files, ResultFiles
<1>5. Cases(layer) \in Seq(Files)
  <2>1. Cases(layer) \in Seq(LayerFiles(layer))
    BY DEF Cases, LayerFiles, Seeds, Arms
  <2> QED
    BY <2>1, <1>4
<1> QED
  BY <1>1, <1>2, <1>3, <1>5 DEF FilesOf

LEMMA ModesSound == \A m \in Modes : ModeSound(m)
<1> DEFINE summary == << <<"checkpoint">> >>
           end == << <<"bridge">>, <<"verdict">> >>
           last == << <<"suite">> >>
<1>1. /\ summary \in Seq(Files) /\ FilesOf(summary) = {<<"checkpoint">>} /\ Len(summary) = 1
      /\ end \in Seq(Files) /\ FilesOf(end) = {<<"bridge">>, <<"verdict">>} /\ Len(end) = 2
      /\ last \in Seq(Files) /\ FilesOf(last) = {<<"suite">>} /\ Len(last) = 1
  BY DEF Files, FilesOf
<1>2. /\ <<"checkpoint">> # <<"bridge">> /\ <<"checkpoint">> # <<"verdict">>
      /\ <<"checkpoint">> # <<"suite">> /\ <<"bridge">> # <<"suite">>
      /\ <<"verdict">> # <<"suite">> /\ <<"bridge">> # <<"verdict">>
  OBVIOUS
<1>3. /\ Cases("synthetic") \in Seq(Files) /\ Len(Cases("synthetic")) = 6
      /\ FilesOf(Cases("synthetic")) = LayerFiles("synthetic")
      /\ Cases("real") \in Seq(Files) /\ Len(Cases("real")) = 6
      /\ FilesOf(Cases("real")) = LayerFiles("real")
  BY CasesSound DEF Layers
<1> HIDE DEF summary, end, last
<1>4. /\ Synthetic \in Seq(Files) /\ Len(Synthetic) = 7
      /\ FilesOf(Synthetic) = LayerFiles("synthetic") \union {<<"checkpoint">>}
  <2>1. Synthetic = Cases("synthetic") \o summary
    BY DEF Synthetic, summary
  <2> DEFINE joined == Cases("synthetic") \o summary
  <2>2. /\ joined \in Seq(Files) /\ Len(joined) = Len(Cases("synthetic")) + Len(summary)
        /\ FilesOf(joined) = FilesOf(Cases("synthetic")) \union FilesOf(summary)
    BY <1>1, <1>3, FilesOfConcat
  <2> HIDE DEF joined
  <2>3. Len(joined) = 7
    <3>1. Len(summary) = 1 /\ Len(Cases("synthetic")) = 6
      BY <1>1, <1>3
    <3>2. Len(joined) = Len(Cases("synthetic")) + Len(summary)
      BY <2>2
    <3>3. Len(joined) = 6 + 1
      BY <3>1, <3>2, Zenon
    <3> QED
      BY <3>3
  <2>4. FilesOf(joined) = LayerFiles("synthetic") \union {<<"checkpoint">>}
    BY <2>2, <1>1, <1>3
  <2> QED
    BY <2>1, <2>2, <2>3, <2>4 DEF joined
<1>5. /\ Synthetic \o Cases("real") \in Seq(Files) /\ Len(Synthetic \o Cases("real")) = 13
      /\ FilesOf(Synthetic \o Cases("real")) = ResultFiles \union {<<"checkpoint">>}
  <2> DEFINE both == Synthetic \o Cases("real")
  <2>1. /\ both \in Seq(Files) /\ Len(both) = 7 + 6
        /\ FilesOf(both) = FilesOf(Synthetic) \union FilesOf(Cases("real"))
    BY <1>3, <1>4, FilesOfConcat
  <2> QED
    BY <2>1, <1>3, <1>4, FileKinds
<1> DEFINE all == (Synthetic \o Cases("real")) \o end
<1>6. /\ all \in Seq(Files) /\ Len(all) = 15
      /\ FilesOf(all) = ResultFiles \union {<<"checkpoint">>, <<"bridge">>, <<"verdict">>}
  <2>1. /\ all \in Seq(Files) /\ Len(all) = 13 + 2
        /\ FilesOf(all) = FilesOf(Synthetic \o Cases("real")) \union FilesOf(end)
    BY <1>1, <1>5, FilesOfConcat
  <2> QED
    BY <2>1, <1>1, <1>5
<1>7. Modes = {Synthetic, Cases("real"), all, last}
  BY DEF Modes, end, last
<1> HIDE DEF all
<1>8. ModeSound(Synthetic)
  BY <1>2, <1>4, FileKinds DEF ModeSound, Layers
<1>9. ModeSound(Cases("real"))
  BY <1>2, <1>3, FileKinds DEF ModeSound, Layers
<1>10. ModeSound(all)
  BY <1>2, <1>6, FileKinds DEF ModeSound, Layers
<1>11. ModeSound(last)
  BY <1>1, <1>2, FileKinds DEF ModeSound, Layers
<1> QED
  BY <1>7, <1>8, <1>9, <1>10, <1>11

-----------------------------------------------------------------------------
(* What a file tells that was written from the claims of sets. *)
Done(f, sets) ==
    /\ f \in ResultFiles => results[f] = Rates(f[1], sets[f[1]][f[2]])
    /\ f = <<"checkpoint">> =>
          checkpoint = [c \in Seeds \X Arms |-> Outcome("synthetic", c[1], c[2], sets)]
    /\ f = <<"bridge">> => bridge = Bridged(sets)
    /\ f = <<"verdict">> => verdict = Upgrade(sets)

ArmsAlike(layer) ==
    \A seed \in Seeds : results[<<layer, seed, "arm-1">>] = results[<<layer, seed, "arm-2">>]

CheckpointOfFiles ==
    checkpoint # None =>
        \A c \in DOMAIN checkpoint : checkpoint[c] = results[<<"synthetic", c[1], c[2]>>]

VerdictBacked ==
    verdict = TRUE => bridge = TRUE /\ \A f \in ResultFiles : results[f] # None

(* What a whole history of runs leaves behind holds of the files a mode     *)
(* does not write while it is under way.                                    *)
Spared(m) ==
    /\ \A layer \in Layers : LayerFiles(layer) \cap FilesOf(m) = {} => ArmsAlike(layer)
    /\ <<"checkpoint">> \notin FilesOf(m) => CheckpointOfFiles
    /\ <<"verdict">> \notin FilesOf(m) => VerdictBacked

Behind(m, k) ==
    /\ run.todo = [i \in 1..(Len(m) - k) |-> m[i + k]]
    /\ \A i \in 1..k : Done(m[i], run.claims)
    /\ whole => Spared(m)

HarnessType ==
    /\ claims \in [ClaimSets -> [Seeds -> Sets]]
    /\ results \in [ResultFiles -> Measured \union {None}]
    /\ checkpoint \in [Seeds \X Arms -> Measured] \union {None}
    /\ run # None => run \in [todo : Seq(Files), claims : [ClaimSets -> [Seeds -> Sets]]]
    /\ claimEdits \in Nat

OnItsWay == run # None => \E m \in Modes : \E k \in 0..(Len(m) - 1) : Behind(m, k)

Settled ==
    whole /\ run = None =>
        (\A layer \in Layers : ArmsAlike(layer)) /\ CheckpointOfFiles /\ VerdictBacked

(* While nobody has edited the claims, everything is of the claims there    *)
(* are.                                                                     *)
Fresh ==
    claimEdits = 0 =>
        /\ run # None => run.claims = claims
        /\ \A f \in ResultFiles : results[f] # None => results[f] = Rates(f[1], claims[f[1]][f[2]])
        /\ verdict # None => verdict = Upgrade(claims)
        /\ suite # None => suite = Suite(claims)

HarnessInv == HarnessType /\ NeverWorse /\ OnItsWay /\ Settled /\ Fresh

-----------------------------------------------------------------------------
LEMMA OutcomeSound ==
    ASSUME NEW sets \in [ClaimSets -> [Seeds -> Sets]], NEW f \in ResultFiles
    PROVE  LET o == Rates(f[1], sets[f[1]][f[2]])
           IN  /\ o \in Measured /\ o # None
               /\ o.after <= o.before
               /\ f[1] = "real" => o.after = 0
<1>1. sets[f[1]][f[2]] \in Sets
  BY FileKinds DEF ClaimSets
<1>2. sets[f[1]][f[2]] \subseteq RawClaim /\ IsFiniteSet(sets[f[1]][f[2]])
  BY <1>1, MeasurementAssumption
<1> QED
  BY <1>2, RatesSound, MeasurementAssumption

(* A decision to upgrade says that every rate improves. *)
LEMMA UpgradeMeansBetter ==
    ASSUME NEW sets \in [ClaimSets -> [Seeds -> Sets]], Upgrade(sets)
    PROVE  /\ Bridged(sets)
           /\ \A f \in ResultFiles :
                 Rates(f[1], sets[f[1]][f[2]]).after < Rates(f[1], sets[f[1]][f[2]]).before
<1>1. ASSUME NEW layer \in Layers, NEW seed \in Seeds
      PROVE  /\ Delta(Rates(layer, sets[layer][seed])) < 0
             /\ Rates(layer, sets[layer][seed]).after < Rates(layer, sets[layer][seed]).before
  <2> DEFINE o == Rates(layer, sets[layer][seed])
             passes == [c \in Seeds \X Arms |-> Passes(Outcome(layer, c[1], c[2], sets))]
  <2>1. Decision(passes) = "mechanism_stable_candidate"
    BY DEF Upgrade, DecisionOn
  <2>2. \E arm \in Arms : \A s \in Seeds : passes[s, arm]
    BY <2>1 DEF Decision
  <2>3. PICK arm \in Arms : passes[seed, arm]
    BY <2>2
  <2>4. Passes(o)
    BY <2>3 DEF Outcome
  <2>5. o \in Measured
    <3>1. <<layer, seed, "arm-1">> \in ResultFiles
      BY DEF ResultFiles, Arms
    <3> QED
      BY <3>1, OutcomeSound
  <2> HIDE DEF o
  <2>6. o.after \in Int /\ o.before \in Int
    BY <2>5 DEF Measured
  <2> QED
    BY <2>4, <2>6 DEF Passes, Delta, Tolerance, o
<1> QED
  BY <1>1, FileKinds DEF Bridged

LEMMA HarnessStart ==
    ASSUME HarnessInit
    PROVE  HarnessInv
<1>1. HarnessType
  BY DEF HarnessInit, HarnessType
<1>2. \A f \in ResultFiles : results[f] = None
  BY DEF HarnessInit
<1>3. NeverWorse
  BY <1>2 DEF NeverWorse, HarnessInit, OutcomesOf, ResultFiles, Layers
<1>4. OnItsWay /\ Fresh
  BY <1>2 DEF HarnessInit, OnItsWay, Fresh
<1>5. Settled
  <2>1. \A layer \in Layers : ArmsAlike(layer)
    BY <1>2 DEF ArmsAlike, ResultFiles, Arms
  <2>2. verdict # TRUE /\ checkpoint = None
    BY MeasurementAssumption DEF HarnessInit
  <2> QED
    BY <2>1, <2>2 DEF Settled, CheckpointOfFiles, VerdictBacked
<1> QED
  BY <1>1, <1>3, <1>4, <1>5 DEF HarnessInv

LEMMA BeginRunStep ==
    ASSUME HarnessInv, BeginRun
    PROVE  HarnessInv'
<1>1. PICK m \in Modes : run' = [todo |-> m, claims |-> claims]
  BY DEF BeginRun
<1>2. ModeSound(m)
  BY ModesSound
<1>3. UNCHANGED <<claims, results, checkpoint, bridge, verdict, suite, whole, claimEdits>> /\ run = None
  BY DEF BeginRun, outputs
<1>4. run' \in [todo : Seq(Files), claims : [ClaimSets -> [Seeds -> Sets]]]
  BY <1>1, <1>2 DEF ModeSound, HarnessInv, HarnessType
<1>5. run' # None /\ run'.todo = m /\ run'.claims = claims
  BY <1>1, <1>4, MeasurementAssumption
<1>6. HarnessType'
  BY <1>3, <1>4 DEF HarnessInv, HarnessType
<1>7. NeverWorse'
  BY <1>3 DEF HarnessInv, NeverWorse, OutcomesOf
<1>8. whole => Spared(m)
  BY <1>3 DEF HarnessInv, Settled, Spared
<1>9. Behind(m, 0)'
  <2>1. m = [i \in 1..(Len(m) - 0) |-> m[i + 0]]
    BY <1>2 DEF ModeSound
  <2>2. whole' => Spared(m)'
    BY <1>3, <1>8 DEF Spared, ArmsAlike, CheckpointOfFiles, VerdictBacked
  <2> QED
    BY <1>5, <2>1, <2>2 DEF Behind
<1>10. OnItsWay'
  <2>1. 0 \in 0..(Len(m) - 1)
    BY <1>2 DEF ModeSound
  <2> QED
    BY <1>9, <2>1 DEF OnItsWay
<1>11. Settled'
  BY <1>5 DEF Settled
<1>12. Fresh'
  BY <1>3, <1>5 DEF HarnessInv, Fresh
<1> QED
  BY <1>6, <1>7, <1>10, <1>11, <1>12 DEF HarnessInv

(* Writing one file leaves what was written before as it is. *)
LEMMA WriteKeepsDone ==
    ASSUME HarnessType, WriteOutput, NEW f, f = Head(run.todo), f \in Files,
           NEW sets \in [ClaimSets -> [Seeds -> Sets]], sets = run.claims,
           NEW g \in Files, g = f \/ Done(g, sets)
    PROVE  Done(g, sets)'
<1>1. /\ results' = IF Len(f) = 3
                    THEN [results EXCEPT ![f] = Outcome(f[1], f[2], f[3], sets)] ELSE results
      /\ checkpoint' = IF f = <<"checkpoint">>
                       THEN [c \in Seeds \X Arms |-> Outcome("synthetic", c[1], c[2], sets)]
                       ELSE checkpoint
      /\ bridge' = IF f = <<"bridge">> THEN Bridged(sets) ELSE bridge
      /\ verdict' = IF f = <<"verdict">> THEN Upgrade(sets) ELSE verdict
  BY DEF WriteOutput
<1>2. results \in [ResultFiles -> Measured \union {None}]
  BY DEF HarnessType
<1>3. g \in ResultFiles => results'[g] = Rates(g[1], sets[g[1]][g[2]])
  <2> SUFFICES ASSUME g \in ResultFiles PROVE results'[g] = Rates(g[1], sets[g[1]][g[2]])
    OBVIOUS
  <2>1. CASE g = f
    <3>1. Len(f) = 3
      BY <2>1, FileKinds
    <3> QED
      BY <1>1, <1>2, <2>1, <3>1 DEF Outcome
  <2>2. CASE g # f
    <3>1. results'[g] = results[g]
      BY <1>1, <1>2, <2>2
    <3> QED
      BY <2>2, <3>1 DEF Done
  <2> QED
    BY <2>1, <2>2
<1>4. g = <<"checkpoint">> =>
        checkpoint' = [c \in Seeds \X Arms |-> Outcome("synthetic", c[1], c[2], sets)]
  <2>1. CASE g = f
    BY <1>1, <2>1
  <2>2. CASE g # f
    BY <1>1, <2>2 DEF Done
  <2> QED
    BY <2>1, <2>2
<1>5. g = <<"bridge">> => bridge' = Bridged(sets)
  BY <1>1 DEF Done
<1>6. g = <<"verdict">> => verdict' = Upgrade(sets)
  BY <1>1 DEF Done
<1> QED
  BY <1>3, <1>4, <1>5, <1>6 DEF Done

(* ... and what the mode does not write. *)
LEMMA WriteSpares ==
    ASSUME HarnessType, WriteOutput, NEW m \in Modes, NEW f \in FilesOf(m), f = Head(run.todo),
           f \in Files, Spared(m)
    PROVE  Spared(m)'
<1>1. ModeSound(m)
  BY ModesSound
<1>2. PICK sets \in [ClaimSets -> [Seeds -> Sets]] : sets = run.claims
  BY DEF HarnessType, WriteOutput
<1>3. /\ results' = IF Len(f) = 3
                    THEN [results EXCEPT ![f] = Outcome(f[1], f[2], f[3], sets)] ELSE results
      /\ f # <<"checkpoint">> => checkpoint' = checkpoint
      /\ f # <<"bridge">> => bridge' = bridge
      /\ f # <<"verdict">> => verdict' = verdict
  BY <1>2 DEF WriteOutput
<1>4. results \in [ResultFiles -> Measured \union {None}]
  BY DEF HarnessType
<1>5. \A g \in ResultFiles : g # f => results'[g] = results[g]
  BY <1>3, <1>4
<1>6. \A g \in ResultFiles : results[g] # None => results'[g] # None
  <2> SUFFICES ASSUME NEW g \in ResultFiles, results[g] # None, g = f PROVE results'[g] # None
    BY <1>5
  <2>1. results'[g] = Rates(g[1], sets[g[1]][g[2]])
    BY <1>3, <1>4, FileKinds DEF Outcome
  <2> QED
    BY <2>1, OutcomeSound
<1>7. ASSUME NEW layer \in Layers, LayerFiles(layer) \cap FilesOf(m) = {}
      PROVE  ArmsAlike(layer)'
  <2>1. \A g \in LayerFiles(layer) : g \in ResultFiles /\ results'[g] = results[g]
    BY <1>5, <1>7 DEF LayerFiles, ResultFiles
  <2>2. \A seed \in Seeds, arm \in Arms : <<layer, seed, arm>> \in LayerFiles(layer)
    BY DEF LayerFiles
  <2>3. \A seed \in Seeds, arm \in Arms :
           results'[<<layer, seed, arm>>] = results[<<layer, seed, arm>>]
    BY <2>1, <2>2
  <2>4. ArmsAlike(layer)
    BY <1>7 DEF Spared
  <2> QED
    BY <2>3, <2>4 DEF ArmsAlike, Arms
<1>8. ASSUME <<"checkpoint">> \notin FilesOf(m)
      PROVE  CheckpointOfFiles'
  <2>1. LayerFiles("synthetic") \cap FilesOf(m) = {}
    BY <1>1, <1>8 DEF ModeSound
  <2>2. checkpoint' = checkpoint
    BY <1>3, <1>8
  <2>3. CheckpointOfFiles
    BY <1>8 DEF Spared
  <2>4. f \notin LayerFiles("synthetic")
    BY <2>1
  <2>5. \A c \in Seeds \X Arms :
           results'[<<"synthetic", c[1], c[2]>>] = results[<<"synthetic", c[1], c[2]>>]
    <3> SUFFICES ASSUME NEW x \in Seeds, NEW y \in Arms
                 PROVE  results'[<<"synthetic", x, y>>] = results[<<"synthetic", x, y>>]
      OBVIOUS
    <3>1. <<"synthetic", x, y>> \in LayerFiles("synthetic")
      BY DEF LayerFiles
    <3> QED
      BY <3>1, <1>5, <2>4, FileKinds
  <2>6. checkpoint # None => DOMAIN checkpoint = Seeds \X Arms
    BY DEF HarnessType
  <2> QED
    BY <2>2, <2>3, <2>5, <2>6 DEF CheckpointOfFiles
<1>9. ASSUME <<"verdict">> \notin FilesOf(m)
      PROVE  VerdictBacked'
  <2>1. verdict' = verdict /\ bridge' = bridge
    BY <1>1, <1>3, <1>9 DEF ModeSound
  <2>2. VerdictBacked
    BY <1>9 DEF Spared
  <2> QED
    BY <1>6, <2>1, <2>2 DEF VerdictBacked
<1> QED
  BY <1>7, <1>8, <1>9 DEF Spared

LEMMA WriteOutputStep ==
    ASSUME HarnessInv, WriteOutput
    PROVE  HarnessInv'
<1>0. PICK m \in Modes : \E k \in 0..(Len(m) - 1) : Behind(m, k)
  BY DEF HarnessInv, OnItsWay, WriteOutput
<1>1. PICK k \in 0..(Len(m) - 1) : Behind(m, k)
  BY <1>0
<1>2. PICK sets \in [ClaimSets -> [Seeds -> Sets]] : sets = run.claims
  BY DEF HarnessInv, HarnessType, WriteOutput
<1>3. ModeSound(m) /\ m \in Seq(Files) /\ Len(m) \in Nat \ {0} /\ k \in Nat /\ k < Len(m)
  BY ModesSound DEF ModeSound
<1> DEFINE f == m[k + 1]
<1>4. /\ run.todo = [i \in 1..(Len(m) - k) |-> m[i + k]] /\ run.todo \in Seq(Files)
      /\ Len(run.todo) = Len(m) - k
  <2>1. run.todo = [i \in 1..(Len(m) - k) |-> m[i + k]]
    BY <1>1 DEF Behind
  <2>2. run.todo \in Seq(Files)
    BY DEF HarnessInv, HarnessType, WriteOutput
  <2> QED
    BY <1>3, <2>1, <2>2
<1>5. f \in Files /\ f \in FilesOf(m) /\ f = Head(run.todo) /\ Tail(run.todo) \in Seq(Files)
  <2>1. run.todo # <<>>
    <3>1. Len(run.todo) # 0
      BY <1>3, <1>4
    <3> QED
      BY <1>4, <3>1, EmptySeq
  <2>2. Tail(run.todo) \in Seq(Files)
    BY <1>4, <2>1
  <2> QED
    BY <1>3, <1>4, <2>2 DEF FilesOf
<1> HIDE DEF f
<1>6. /\ results' = IF Len(f) = 3
                    THEN [results EXCEPT ![f] = Outcome(f[1], f[2], f[3], sets)] ELSE results
      /\ checkpoint' = IF f = <<"checkpoint">>
                       THEN [c \in Seeds \X Arms |-> Outcome("synthetic", c[1], c[2], sets)]
                       ELSE checkpoint
      /\ verdict' = IF f = <<"verdict">> THEN Upgrade(sets) ELSE verdict
      /\ suite' = IF f = <<"suite">> THEN Suite(sets) ELSE suite
      /\ run' = IF Len(run.todo) = 1 THEN None ELSE [run EXCEPT !.todo = Tail(@)]
      /\ UNCHANGED <<claims, whole, claimEdits>>
  BY <1>2, <1>5 DEF WriteOutput
<1>7. /\ results \in [ResultFiles -> Measured \union {None}]
      /\ checkpoint \in [Seeds \X Arms -> Measured] \union {None}
      /\ run \in [todo : Seq(Files), claims : [ClaimSets -> [Seeds -> Sets]]] /\ run # None
  BY DEF HarnessInv, HarnessType, WriteOutput
<1>8. /\ Len(f) = 3 <=> f \in ResultFiles
      /\ f \in ResultFiles => Outcome(f[1], f[2], f[3], sets) = Rates(f[1], sets[f[1]][f[2]])
  BY <1>5, FileKinds DEF Files, Outcome
<1>9. /\ \A g \in ResultFiles : g # f => results'[g] = results[g]
      /\ f \in ResultFiles => results'[f] = Rates(f[1], sets[f[1]][f[2]])
      /\ results' \in [ResultFiles -> Measured \union {None}]
  <2>1. CASE f \in ResultFiles
    <3>1. Rates(f[1], sets[f[1]][f[2]]) \in Measured
      BY <2>1, OutcomeSound
    <3>2. results' = [results EXCEPT ![f] = Rates(f[1], sets[f[1]][f[2]])]
      BY <1>6, <1>8, <2>1
    <3> QED
      BY <1>7, <2>1, <3>1, <3>2
  <2>2. CASE f \notin ResultFiles
    BY <1>6, <1>7, <1>8, <2>2
  <2> QED
    BY <2>1, <2>2
<1>10. checkpoint' \in [Seeds \X Arms -> Measured] \union {None}
  <2>1. \A x \in Seeds, y \in Arms : Outcome("synthetic", x, y, sets) \in Measured
    <3> TAKE x \in Seeds, y \in Arms
    <3>1. <<"synthetic", x, y>> \in ResultFiles
      BY DEF ResultFiles, Layers
    <3> QED
      BY <3>1, OutcomeSound DEF Outcome
  <2> QED
    BY <1>6, <1>7, <2>1
<1>11. run' # None => /\ run' = [run EXCEPT !.todo = Tail(@)]
                      /\ Len(m) - k # 1 /\ k + 1 \in 0..(Len(m) - 1)
                      /\ run'.claims = sets
                      /\ run' \in [todo : Seq(Files), claims : [ClaimSets -> [Seeds -> Sets]]]
  <2> SUFFICES ASSUME run' # None
               PROVE  /\ run' = [run EXCEPT !.todo = Tail(@)]
                      /\ Len(m) - k # 1 /\ k + 1 \in 0..(Len(m) - 1)
                      /\ run'.claims = sets
                      /\ run' \in [todo : Seq(Files), claims : [ClaimSets -> [Seeds -> Sets]]]
    OBVIOUS
  <2>1. run' = [run EXCEPT !.todo = Tail(@)] /\ Len(m) - k # 1
    BY <1>4, <1>6
  <2>2. k + 1 \in 0..(Len(m) - 1)
    BY <1>3, <2>1
  <2>3. run'.claims = sets /\ run' \in [todo : Seq(Files), claims : [ClaimSets -> [Seeds -> Sets]]]
    BY <1>2, <1>5, <1>7, <2>1
  <2> QED
    BY <2>1, <2>2, <2>3
<1>12. HarnessType'
  BY <1>6, <1>9, <1>10, <1>11 DEF HarnessInv, HarnessType
<1>13. NeverWorse'
  <2>1. ASSUME NEW g \in ResultFiles, results'[g] # None
        PROVE  /\ results'[g].after <= results'[g].before
               /\ g[1] = "real" => results'[g].after = 0
    <3>1. CASE g = f
      BY <1>9, <3>1, OutcomeSound
    <3>2. CASE g # f
      <4>1. results'[g] = results[g] /\ results[g] # None
        BY <1>9, <2>1, <3>2
      <4>2. g[1] = "real" => g \in OutcomesOf("real")
        BY <4>1 DEF OutcomesOf, ResultFiles
      <4> QED
        BY <1>7, <4>1, <4>2 DEF HarnessInv, NeverWorse
    <3> QED
      BY <3>1, <3>2
  <2>2. \A g \in OutcomesOf("real")' : g \in ResultFiles /\ results'[g] # None /\ g[1] = "real"
    BY DEF OutcomesOf, ResultFiles, Layers
  <2>3. DOMAIN results' = ResultFiles
    BY <1>9
  <2> QED
    BY <2>1, <2>2, <2>3 DEF NeverWorse
<1>14. \A i \in 1..(k + 1) : Done(m[i], sets)'
  <2> TAKE i \in 1..(k + 1)
  <2>1. m[i] \in Files
    BY <1>3
  <2>2. m[i] = f \/ Done(m[i], sets)
    <3>1. i = k + 1 \/ i \in 1..k
      BY <1>3
    <3> QED
      BY <1>1, <1>2, <3>1 DEF Behind, f
  <2> QED
    BY <1>2, <1>5, <2>1, <2>2, WriteKeepsDone DEF HarnessInv
<1>15. whole => Spared(m)'
  <2>1. whole => Spared(m)
    BY <1>1 DEF Behind
  <2> QED
    BY <1>5, <2>1, WriteSpares DEF HarnessInv
<1>16. OnItsWay'
  <2> SUFFICES ASSUME run' # None PROVE Behind(m, k + 1)'
    BY <1>11 DEF OnItsWay
  <2>1. run'.todo = Tail(run.todo) /\ run'.claims = sets
    BY <1>7, <1>11
  <2>2. Tail(run.todo) = [i \in 1..(Len(m) - (k + 1)) |-> m[i + (k + 1)]]
    <3>1. Tail(run.todo) = [i \in 1..(Len(run.todo) - 1) |-> run.todo[i + 1]]
      BY <1>4
    <3>2. Len(run.todo) - 1 = Len(m) - (k + 1)
      BY <1>3, <1>4
    <3>3. \A i \in 1..(Len(m) - (k + 1)) : run.todo[i + 1] = m[i + (k + 1)]
      BY <1>3, <1>4
    <3> QED
      BY <3>1, <3>2, <3>3
  <2> QED
    BY <1>6, <1>14, <1>15, <2>1, <2>2 DEF Behind
<1>17. Settled'
  <2> SUFFICES ASSUME whole, run' = None
               PROVE  /\ \A layer \in Layers : ArmsAlike(layer)'
                      /\ CheckpointOfFiles'
                      /\ VerdictBacked'
    BY <1>6 DEF Settled
  <2>1. k + 1 = Len(m)
    <3>1. Len(run.todo) = 1
      <4>1. Len(run.todo) # 1 => run' \in [todo : Seq(Files), claims : [ClaimSets -> [Seeds -> Sets]]]
        BY <1>5, <1>6, <1>7
      <4> QED
        BY <4>1, MeasurementAssumption
    <3> QED
      BY <1>3, <1>4, <3>1
  <2>2. \A g \in FilesOf(m) : Done(g, sets)'
    BY <1>14, <2>1 DEF FilesOf
  <2>3. Spared(m)'
    BY <1>15
  <2>4. \A g \in FilesOf(m) : g \in ResultFiles => results'[g] = Rates(g[1], sets[g[1]][g[2]])
    BY <2>2 DEF Done
  <2>5. ASSUME NEW layer \in Layers PROVE ArmsAlike(layer)'
    <3>1. CASE LayerFiles(layer) \cap FilesOf(m) = {}
      BY <2>3, <3>1 DEF Spared
    <3>2. CASE LayerFiles(layer) \subseteq FilesOf(m)
      <4>1. \A seed \in Seeds, arm \in Arms :
               results'[<<layer, seed, arm>>] = Rates(layer, sets[layer][seed])
        <5> TAKE seed \in Seeds, arm \in Arms
        <5>1. <<layer, seed, arm>> \in FilesOf(m) /\ <<layer, seed, arm>> \in ResultFiles
          BY <3>2 DEF LayerFiles, ResultFiles
        <5> QED
          BY <2>4, <5>1
      <4> QED
        BY <4>1 DEF ArmsAlike, Arms
    <3> QED
      BY <1>3, <3>1, <3>2 DEF ModeSound
  <2>6. CheckpointOfFiles'
    <3>1. CASE <<"checkpoint">> \notin FilesOf(m)
      BY <2>3, <3>1 DEF Spared
    <3>2. CASE <<"checkpoint">> \in FilesOf(m)
      <4>1. checkpoint' = [c \in Seeds \X Arms |-> Outcome("synthetic", c[1], c[2], sets)]
        BY <2>2, <3>2 DEF Done
      <4>2. LayerFiles("synthetic") \subseteq FilesOf(m)
        BY <1>3, <3>2 DEF ModeSound
      <4>3. ASSUME NEW x \in Seeds, NEW y \in Arms
            PROVE  results'[<<"synthetic", x, y>>] = Rates("synthetic", sets["synthetic"][x])
        <5>1. <<"synthetic", x, y>> \in FilesOf(m) /\ <<"synthetic", x, y>> \in ResultFiles
          BY <4>2 DEF LayerFiles, ResultFiles, Layers
        <5> QED
          BY <2>4, <5>1
      <4> QED
        BY <4>1, <4>3 DEF CheckpointOfFiles, Outcome
    <3> QED
      BY <3>1, <3>2
  <2>7. VerdictBacked'
    <3>1. CASE <<"verdict">> \notin FilesOf(m)
      BY <2>3, <3>1 DEF Spared
    <3>2. CASE <<"verdict">> \in FilesOf(m)
      <4>1. verdict' = Upgrade(sets) /\ bridge' = Bridged(sets)
        BY <1>3, <2>2, <3>2 DEF Done, ModeSound
      <4>2. \A g \in ResultFiles : results'[g] # None
        <5>1. ResultFiles \subseteq FilesOf(m)
          BY <1>3, <3>2 DEF ModeSound
        <5> QED
          BY <2>4, <5>1, OutcomeSound
      <4>3. verdict' = TRUE => Bridged(sets)
        BY <4>1, UpgradeMeansBetter
      <4>4. Bridged(sets) => bridge' = TRUE
        BY <4>1 DEF Bridged
      <4> QED
        BY <4>2, <4>3, <4>4 DEF VerdictBacked
    <3> QED
      BY <3>1, <3>2
  <2> QED
    BY <2>5, <2>6, <2>7
<1>18. Fresh'
  <2> SUFFICES ASSUME claimEdits = 0
               PROVE  /\ run' # None => run'.claims = claims
                      /\ \A g \in ResultFiles : results'[g] # None =>
                            results'[g] = Rates(g[1], claims[g[1]][g[2]])
                      /\ verdict' # None => verdict' = Upgrade(claims)
                      /\ suite' # None => suite' = Suite(claims)
    BY <1>6 DEF Fresh
  <2>1. sets = claims
    BY <1>2, <1>7 DEF HarnessInv, Fresh
  <2>2. /\ \A g \in ResultFiles : results[g] # None =>
             results[g] = Rates(g[1], claims[g[1]][g[2]])
        /\ verdict # None => verdict = Upgrade(claims)
        /\ suite # None => suite = Suite(claims)
    BY DEF HarnessInv, Fresh
  <2> QED
    BY <1>6, <1>9, <1>11, <2>1, <2>2
<1> QED
  BY <1>12, <1>13, <1>16, <1>17, <1>18 DEF HarnessInv

LEMMA OtherHarnessStep ==
    ASSUME HarnessInv, DieMeasuring \/ EditClaims \/ UNCHANGED harnessVars
    PROVE  HarnessInv'
<1>1. UNCHANGED <<results, checkpoint, bridge, verdict, suite>>
  BY DEF DieMeasuring, EditClaims, harnessVars, outputs
<1>2. NeverWorse'
  BY <1>1 DEF HarnessInv, NeverWorse, OutcomesOf
<1>3. /\ (\A layer \in Layers : ArmsAlike(layer)') <=> \A layer \in Layers : ArmsAlike(layer)
      /\ CheckpointOfFiles' <=> CheckpointOfFiles
      /\ VerdictBacked' <=> VerdictBacked
      /\ \A m \in Modes : Spared(m)' <=> Spared(m)
      /\ \A f, sets : Done(f, sets)' <=> Done(f, sets)
  BY <1>1 DEF ArmsAlike, CheckpointOfFiles, VerdictBacked, Spared, Done
<1>4. CASE DieMeasuring
  <2>1. run' = None /\ whole' = FALSE /\ UNCHANGED <<claims, claimEdits>>
    BY <1>4 DEF DieMeasuring
  <2>2. HarnessType' /\ OnItsWay' /\ Settled'
    BY <1>1, <2>1 DEF HarnessInv, HarnessType, OnItsWay, Settled
  <2>3. Fresh'
    BY <1>1, <2>1 DEF HarnessInv, Fresh
  <2> QED
    BY <1>2, <2>2, <2>3 DEF HarnessInv
<1>5. CASE EditClaims \/ UNCHANGED harnessVars
  <2>1. /\ UNCHANGED <<run, whole>>
        /\ claims' \in [ClaimSets -> [Seeds -> Sets]] /\ claimEdits' \in Nat
        /\ claimEdits' = 0 => claims' = claims /\ claimEdits = 0
    <3>1. CASE EditClaims
      <4>1. PICK kind \in ClaimSets, seed \in Seeds, s \in Sets :
               claims' = [claims EXCEPT ![kind][seed] = s]
        BY <3>1 DEF EditClaims
      <4> QED
        BY <3>1, <4>1 DEF EditClaims, HarnessInv, HarnessType
    <3>2. CASE UNCHANGED harnessVars
      BY <3>2 DEF harnessVars, HarnessInv, HarnessType
    <3> QED
      BY <1>5, <3>1, <3>2
  <2>2. HarnessType'
    BY <1>1, <2>1 DEF HarnessInv, HarnessType
  <2>3. Settled'
    BY <1>3, <2>1 DEF HarnessInv, Settled
  <2>4. OnItsWay'
    <3> SUFFICES ASSUME run # None
                 PROVE  \E m \in Modes : \E k \in 0..(Len(m) - 1) : Behind(m, k)'
      BY <2>1 DEF OnItsWay
    <3>1. PICK m \in Modes : \E k \in 0..(Len(m) - 1) : Behind(m, k)
      BY DEF HarnessInv, OnItsWay
    <3>2. PICK k \in 0..(Len(m) - 1) : Behind(m, k)
      BY <3>1
    <3>3. \A i : Done(m[i], run.claims)' <=> Done(m[i], run.claims)
      <4> TAKE i
      <4>1. PICK sets : sets = run.claims
        OBVIOUS
      <4>2. sets = run'.claims
        BY <2>1, <4>1
      <4>3. Done(m[i], sets)' <=> Done(m[i], sets)
        BY <1>3
      <4> QED
        BY <4>1, <4>2, <4>3 DEF Done
    <3>4. Behind(m, k)'
      BY <1>3, <2>1, <3>2, <3>3 DEF Behind
    <3> QED
      BY <3>4
  <2>5. Fresh'
    BY <1>1, <2>1 DEF HarnessInv, Fresh
  <2> QED
    BY <1>2, <2>2, <2>3, <2>4, <2>5 DEF HarnessInv
<1> QED
  BY <1>4, <1>5

(* Whatever the sets of claims are, however runs die in the middle of       *)
(* their files and whoever edits the claims meanwhile: governance makes no  *)
(* rate worse, files that whole runs left agree with one another, and an    *)
(* upgrade or a confirmation has been earned by what the files tell.        *)
THEOREM MeasurementIsSound == HarnessSpec => []MeasurementSound
<1>1. HarnessInit => HarnessInv
  BY HarnessStart
<1>2. HarnessInv /\ [HarnessNext]_harnessVars => HarnessInv'
  BY BeginRunStep, WriteOutputStep, OtherHarnessStep DEF HarnessNext
<1>3. HarnessInv => MeasurementSound
  <2> SUFFICES ASSUME HarnessInv PROVE MeasurementSound
    OBVIOUS
  <2>1. FilesAgree
    BY DEF HarnessInv, Settled, ArmsAlike, CheckpointOfFiles, FilesAgree
  <2>2. UpgradeIsEarned
    <3> SUFFICES ASSUME verdict = TRUE, whole, run = None
                 PROVE  /\ bridge = TRUE
                        /\ claimEdits = 0 =>
                              \A f \in DOMAIN results : results[f].after < results[f].before
      BY DEF UpgradeIsEarned
    <3>1. bridge = TRUE /\ \A f \in ResultFiles : results[f] # None
      BY DEF HarnessInv, Settled, VerdictBacked
    <3>2. ASSUME claimEdits = 0, NEW f \in ResultFiles
          PROVE  results[f].after < results[f].before
      <4>1. results[f] = Rates(f[1], claims[f[1]][f[2]])
        BY <3>1, <3>2 DEF HarnessInv, Fresh
      <4>2. verdict # None
        BY MeasurementAssumption
      <4>3. Upgrade(claims)
        BY <3>2, <4>2 DEF HarnessInv, Fresh
      <4>4. claims \in [ClaimSets -> [Seeds -> Sets]]
        BY DEF HarnessInv, HarnessType
      <4> QED
        BY <4>1, <4>3, <4>4, UpgradeMeansBetter
    <3>3. DOMAIN results = ResultFiles
      BY DEF HarnessInv, HarnessType
    <3> QED
      BY <3>1, <3>2, <3>3
  <2>3. SuiteMeansNarratives
    <3> SUFFICES ASSUME suite = "equivalence_confirmed", claimEdits = 0, NEW seed \in Seeds
                 PROVE  \E r \in claims["holdout"][seed] : r.source \in Narrative
      BY DEF SuiteMeansNarratives
    <3>1. Suite(claims) = "equivalence_confirmed"
      <4>1. suite # None
        BY MeasurementAssumption
      <4> QED
        BY <4>1 DEF HarnessInv, Fresh
    <3>2. HoldoutPasses(claims)
      BY <3>1 DEF Suite
    <3>3. Passes(Rates("real", claims["holdout"][seed]))
      BY <3>2 DEF HoldoutPasses
    <3>4. claims["holdout"][seed] \in Sets
      BY DEF HarnessInv, HarnessType, ClaimSets
    <3>5. claims["holdout"][seed] \subseteq RawClaim /\ IsFiniteSet(claims["holdout"][seed])
      BY <3>4, MeasurementAssumption
    <3> QED
      BY <3>3, <3>5, RatesSound
  <2> QED
    BY <2>1, <2>2, <2>3 DEF MeasurementSound, HarnessInv
<1> QED
  BY <1>1, <1>2, <1>3, PTL DEF HarnessSpec

-----------------------------------------------------------------------------
(* A set of numbers that is not empty has a least one. *)
LEMMA LeastNumber ==
    ASSUME NEW T \in SUBSET Nat, T # {}
    PROVE  \E x \in T : \A y \in T : ~(y < x)
<1>1. PICK x \in T : \A y \in T : ~(<<y, x>> \in OpToRel(<, Nat))
  BY NatLessThanWellFounded, WFMin
<1>2. \A y \in T : y < x => <<y, x>> \in OpToRel(<, Nat)
  BY DEF OpToRel
<1> QED
  BY <1>1, <1>2

(* What is at most m is m or at most its predecessor. *)
LEMMA UptoPredecessor == \A k, m \in Nat : k <= m <=> (k <= m - 1 \/ k = m)
OBVIOUS

(* Of the sections found at least once, one has most keywords and comes     *)
(* first among those: the least length of a table without one leads to a    *)
(* contradiction.                                                           *)
LEMMA BestExists ==
    ASSUME NEW n \in Nat, NEW h \in [1 .. n -> Nat], NEW H \in SUBSET (1 .. n), H # {}
    PROVE  \E k \in H : \A l \in H : h[k] > h[l] \/ (h[k] = h[l] /\ k <= l)
<1> DEFINE better(k, l) == h[k] > h[l] \/ (h[k] = h[l] /\ k <= l)
           Best(k, m) == k \in H /\ k <= m /\ \A l \in H : l <= m => better(k, l)
           Without == {m \in Nat : (\E k \in H : k <= m) /\ ~\E k \in H : Best(k, m)}
<1>1. \A k \in H : k \in Nat /\ h[k] \in Nat /\ 1 <= k /\ k <= n
  OBVIOUS
<1>2. Without = {}
  <2> SUFFICES ASSUME Without # {} PROVE FALSE
    OBVIOUS
  <2>1. PICK m \in Without : \A j \in Without : ~(j < m)
    BY LeastNumber
  <2>2. m \in Nat /\ (\E k \in H : k <= m) /\ \A k \in H : ~Best(k, m)
    OBVIOUS
  <2>3. m \in Nat /\ m - 1 \in Nat /\ m - 1 \notin Without
    <3>1. PICK k \in H : k <= m
      BY <2>2
    <3>2. m - 1 \in Nat /\ m - 1 < m
      BY <1>1, <2>2, <3>1
    <3>3. m - 1 \notin Without
      BY <2>1, <3>2
    <3> QED
      BY <2>2, <3>2, <3>3
  <2>4. \A k \in H : k <= m <=> k <= m - 1 \/ k = m
    <3> HIDE DEF Without, Best, better
    <3> QED
      BY <1>1, <2>3, UptoPredecessor
  <2>5. CASE \E k \in H : k <= m - 1
    <3>1. PICK k \in H : Best(k, m - 1)
      BY <2>3, <2>5
    <3>2. k <= m /\ k <= m - 1
      BY <2>4, <3>1
    <3> HIDE DEF Without
    <3>3. /\ k \in Nat /\ h[k] \in Nat
          /\ \A l \in H : l \in Nat /\ h[l] \in Nat
      BY <1>1, <3>1
    <3>4. CASE m \notin H
      <4>1. Best(k, m)
        BY <2>4, <3>1, <3>2, <3>4
      <4> QED
        BY <2>2, <4>1
    <3>5. CASE m \in H /\ h[k] >= h[m]
      <4>1. better(k, m)
        BY <2>2, <3>2, <3>3, <3>5, SMTT(30)
      <4>2. Best(k, m)
        BY <2>4, <3>1, <3>2, <4>1
      <4> QED
        BY <2>2, <4>2
    <3>6. CASE m \in H /\ h[m] > h[k]
      <4>1. ASSUME NEW l \in H, l <= m - 1
            PROVE  better(m, l)
        <5>1. better(k, l)
          BY <3>1, <4>1
        <5> QED
          BY <3>3, <3>6, <5>1
      <4>2. better(m, m)
        BY <1>1, <2>2, <3>6
      <4>3. Best(m, m)
        BY <2>2, <2>4, <3>6, <4>1, <4>2
      <4> QED
        BY <2>2, <3>6, <4>3
    <3>7. m \in H => (h[k] >= h[m] \/ h[m] > h[k])
      BY <3>3
    <3> QED
      BY <3>4, <3>5, <3>6, <3>7
  <2>6. CASE ~\E k \in H : k <= m - 1
    <3>1. m \in H /\ \A l \in H : l <= m => l = m
      BY <2>2, <2>4, <2>6
    <3>2. better(m, m)
      BY <1>1, <3>1
    <3>3. Best(m, m)
      BY <2>2, <3>1, <3>2
    <3> QED
      BY <2>2, <3>1, <3>3
  <2> QED
    BY <2>5, <2>6
<1>3. PICK k \in H : Best(k, n)
  BY <1>1, <1>2
<1>4. \A l \in H : better(k, l)
  BY <1>1, <1>3
<1> QED
  BY <1>4

(* Whatever keywords are found, the rule answers a section of the table or  *)
(* does not decide.                                                         *)
LEMMA RuleIsLabel ==
    ASSUME NEW c \in Chunks
    PROVE  Rule(c) \in Labels
<1> DEFINE better(k, l) == Hits[c][k] > Hits[c][l] \/ (Hits[c][k] = Hits[c][l] /\ k <= l)
           best == CHOOSE k \in Hit(c) : \A l \in Hit(c) : better(k, l)
<1>1. CASE Hit(c) = {}
  BY <1>1 DEF Rule, Labels
<1>2. CASE Hit(c) # {}
  <2>1. DOMAIN Sections = 1 .. Len(Sections) /\ Len(Sections) \in Nat
    BY ClassificationAssumption
  <2>2. Hits[c] \in [1 .. Len(Sections) -> Nat] /\ Hit(c) \in SUBSET (1 .. Len(Sections))
    BY <2>1, ClassificationAssumption DEF Hit
  <2>3. \E k \in Hit(c) : \A l \in Hit(c) : better(k, l)
    BY <1>2, <2>1, <2>2, BestExists
  <2>4. best \in Hit(c)
    BY <2>3
  <2>5. Rule(c) = Sections[best]
    BY <1>2 DEF Rule
  <2>6. Sections[best] \in SectionNames
    BY <2>4 DEF Hit, SectionNames
  <2> QED
    BY <2>5, <2>6 DEF Labels
<1> QED
  BY <1>1, <1>2

(* Every outcome of a classification is a section a chunk may have, and the *)
(* rule's if the rule decides.                                              *)
LEMMA OutcomesSound ==
    ASSUME NEW c \in Chunks, NEW fallback, NEW s \in Outcomes(c, fallback)
    PROVE  s \in Labels /\ (Rule(c) # "unknown" => s = Rule(c))
BY RuleIsLabel DEF Outcomes, ModelAnswers, Labels

-----------------------------------------------------------------------------
(* A correction under way is of a chunk of the document, and its section is *)
(* one a user has asked for.                                                *)
CorrectionGiven ==
    \A i \in Instances :
        job[i].pc = "override" =>
            /\ job[i].chunk \in Chunks
            /\ job[i].wanted \in given[job[i].chunk]

SectionsInv == SectionsTypeOK /\ RuleOutranksModel /\ CorrectionGiven

(* The keywords of a chunk do not change: what the next state has to obey   *)
(* is the rule of this one.                                                 *)
LEMMA Outranks ==
    ASSUME \A c \in Chunks : store'[c] # "absent" /\ Rule(c) # "unknown" =>
                                 store'[c] \in {Rule(c)} \cup given'[c]
    PROVE  RuleOutranksModel'
BY DEF RuleOutranksModel, InStore, Rule, Hit

(* A legal section or an absent one stays legal when a chunk is written     *)
(* with a section of its rule or one given; a write that is left out        *)
(* changes nothing.                                                         *)
LEMMA WriteSound ==
    ASSUME SectionsInv, NEW c \in Chunks, NEW old, NEW s \in Labels, Write(c, old, s),
           \A e \in Chunks : given[e] \subseteq given'[e],
           Rule(c) # "unknown" => s \in {Rule(c)} \cup given[c]
    PROVE  store' \in [Chunks -> Labels \cup {"absent"}] /\ RuleOutranksModel'
<1>1. store' \in [Chunks -> Labels \cup {"absent"}]
  BY DEF SectionsInv, SectionsTypeOK, Write
<1>2. \A e \in Chunks : store'[e] = store[e] \/ (e = c /\ store'[e] = s)
  BY DEF SectionsInv, SectionsTypeOK, Write
<1>3. ASSUME NEW e \in Chunks, store'[e] # "absent", Rule(e) # "unknown"
      PROVE  store'[e] \in {Rule(e)} \cup given'[e]
  BY <1>2, <1>3 DEF SectionsInv, RuleOutranksModel, InStore
<1> QED
  BY <1>1, <1>3, Outranks

(* The instances that hold a chunk in memory are told it changed. *)
LEMMA TouchSound ==
    ASSUME SectionsTypeOK, NEW i, NEW c \in Chunks, Touch(i, c)
    PROVE  touched' \in [Instances -> SUBSET Chunks]
BY DEF SectionsTypeOK, Touch

(* An instance that serves nothing. *)
LEMMA IdleIsJob == NoRequest \in JobRecord
BY DEF NoRequest, JobRecord, Labels

(* Nothing is stored at first, so nothing is illegal. *)
LEMMA SectionsStart == ClassificationInit => SectionsInv
BY IdleIsJob, ClassificationAssumption
   DEF ClassificationInit, SectionsInv, SectionsTypeOK, RuleOutranksModel, CorrectionGiven, InStore, NoRequest

(* Every action keeps the invariant. *)
LEMMA SectionsStep == SectionsInv /\ [ClassificationNext]_classificationVars => SectionsInv'
<1> SUFFICES ASSUME SectionsInv, [ClassificationNext]_classificationVars PROVE SectionsInv'
  OBVIOUS
<1> USE ClassificationAssumption
<1>1. ASSUME NEW c \in Chunks, Arrive(c)
      PROVE  SectionsInv'
  <2>1. Rule(c) \in Labels
    BY RuleIsLabel
  <2>2. SectionsTypeOK'
    BY <1>1, <2>1 DEF Arrive, SectionsInv, SectionsTypeOK
  <2>3. given' = given /\ \A e \in Chunks : store'[e] = store[e] \/ store'[e] = Rule(e)
    BY <1>1 DEF Arrive, SectionsInv, SectionsTypeOK
  <2>4. RuleOutranksModel'
    BY <2>3, Outranks DEF SectionsInv, RuleOutranksModel, InStore
  <2>5. CorrectionGiven'
    BY <1>1 DEF Arrive, SectionsInv, CorrectionGiven
  <2> QED
    BY <2>2, <2>4, <2>5 DEF SectionsInv
<1>2. ASSUME NEW i \in Instances, NEW fallback \in BOOLEAN, StartClassify(i, fallback)
      PROVE  SectionsInv'
  <2>1. job' = [job EXCEPT ![i] = job'[i]] /\ job'[i] \in JobRecord /\ job'[i].pc = "classify"
    BY <1>2, IdleIsJob DEF StartClassify, SectionsInv, SectionsTypeOK, JobRecord, NoRequest
  <2>2. SectionsTypeOK'
    BY <1>2, <2>1 DEF StartClassify, SectionsInv, SectionsTypeOK
  <2>3. RuleOutranksModel'
    BY <1>2 DEF StartClassify, SectionsInv, RuleOutranksModel, InStore, Rule, Hit
  <2>4. CorrectionGiven'
    BY <1>2, <2>1 DEF StartClassify, SectionsInv, SectionsTypeOK, CorrectionGiven
  <2> QED
    BY <2>2, <2>3, <2>4 DEF SectionsInv
<1>3. ASSUME NEW i \in Instances, ClassifyNext(i)
      PROVE  SectionsInv'
  <2>1. PICK c \in NextUp(i) : \E s \in Outcomes(c, job[i].fallback) :
            /\ Write(c, job[i].read[c], s)
            /\ job' = [job EXCEPT ![i].todo = @ \ {c}, ![i].report[c] = s]
            /\ Touch(i, c)
    BY <1>3 DEF ClassifyNext
  <2>2. PICK s \in Outcomes(c, job[i].fallback) :
            /\ Write(c, job[i].read[c], s)
            /\ job' = [job EXCEPT ![i].todo = @ \ {c}, ![i].report[c] = s]
            /\ Touch(i, c)
    BY <2>1
  <2>3. job[i] \in JobRecord /\ c \in Chunks
    BY DEF NextUp, SectionsInv, SectionsTypeOK, JobRecord
  <2>4. s \in Labels /\ (Rule(c) # "unknown" => s = Rule(c))
    BY <2>3, OutcomesSound
  <2>5. UNCHANGED <<told, given, patches>>
    BY <1>3 DEF ClassifyNext
  <2>6. store' \in [Chunks -> Labels \cup {"absent"}] /\ RuleOutranksModel'
    BY <2>2, <2>3, <2>4, <2>5, WriteSound
  <2>7. touched' \in [Instances -> SUBSET Chunks]
    BY <2>2, <2>3, TouchSound DEF SectionsInv
  <2>8. job' \in [Instances -> JobRecord] /\ job'[i].pc = "classify"
    BY <1>3, <2>2, <2>3, <2>4 DEF ClassifyNext, SectionsInv, SectionsTypeOK, JobRecord
  <2>9. SectionsTypeOK'
    BY <2>5, <2>6, <2>7, <2>8 DEF SectionsInv, SectionsTypeOK
  <2>10. CorrectionGiven'
    BY <2>2, <2>5, <2>8 DEF SectionsInv, SectionsTypeOK, CorrectionGiven
  <2> QED
    BY <2>6, <2>9, <2>10 DEF SectionsInv
<1>4. ASSUME NEW i \in Instances, FinishClassify(i) \/ Abandon(i)
      PROVE  SectionsInv'
  <2>1. /\ job' = [job EXCEPT ![i] = NoRequest]
        /\ touched' = [touched EXCEPT ![i] = {}]
        /\ UNCHANGED <<store, told, given, patches>>
    BY <1>4 DEF FinishClassify, Abandon
  <2>2. SectionsTypeOK'
    BY <2>1, IdleIsJob DEF SectionsInv, SectionsTypeOK
  <2>3. RuleOutranksModel'
    BY <2>1 DEF SectionsInv, RuleOutranksModel, InStore, Rule, Hit
  <2>4. CorrectionGiven'
    BY <2>1 DEF SectionsInv, SectionsTypeOK, CorrectionGiven, NoRequest
  <2> QED
    BY <2>2, <2>3, <2>4 DEF SectionsInv
<1>5. ASSUME NEW i \in Instances, NEW c \in Chunks, NEW s \in Labels, ReadForOverride(i, c, s)
      PROVE  SectionsInv'
  <2>1. /\ job' = [job EXCEPT ![i] = job'[i]]
        /\ job'[i] \in JobRecord
        /\ job'[i].chunk = c
        /\ job'[i].wanted = s
    BY <1>5, IdleIsJob DEF ReadForOverride, SectionsInv, SectionsTypeOK, JobRecord, NoRequest
  <2>2. given' = [given EXCEPT ![c] = @ \cup {s}] /\ UNCHANGED <<store, told, touched>>
    BY <1>5 DEF ReadForOverride
  <2>3. SectionsTypeOK'
    BY <1>5, <2>1, <2>2 DEF ReadForOverride, SectionsInv, SectionsTypeOK
  <2>4. \A e \in Chunks : given[e] \subseteq given'[e]
    BY <2>2 DEF SectionsInv, SectionsTypeOK
  <2>5. RuleOutranksModel'
    BY <2>2, <2>4 DEF SectionsInv, RuleOutranksModel, InStore, Rule, Hit
  <2>6. s \in given'[c]
    BY <2>2 DEF SectionsInv, SectionsTypeOK
  <2>7. CorrectionGiven'
    BY <2>1, <2>4, <2>6 DEF SectionsInv, SectionsTypeOK, CorrectionGiven
  <2> QED
    BY <2>3, <2>5, <2>7 DEF SectionsInv
<1>6. ASSUME NEW i \in Instances, SaveOverride(i)
      PROVE  SectionsInv'
  <2> DEFINE c == job[i].chunk
             s == job[i].wanted
  <2>1. c \in Chunks /\ s \in given[c] /\ s \in Labels
    BY <1>6 DEF SaveOverride, SectionsInv, CorrectionGiven, SectionsTypeOK, JobRecord
  <2>2. /\ Write(c, job[i].read[c], s)
        /\ told' = [told EXCEPT ![c] = s]
        /\ Touch(i, c)
        /\ job' = [job EXCEPT ![i] = NoRequest]
        /\ UNCHANGED <<given, patches>>
    BY <1>6 DEF SaveOverride
  <2> HIDE DEF c, s
  <2>3. store' \in [Chunks -> Labels \cup {"absent"}] /\ RuleOutranksModel'
    BY <2>1, <2>2, WriteSound
  <2>4. touched' \in [Instances -> SUBSET Chunks]
    BY <2>1, <2>2, TouchSound DEF SectionsInv
  <2>5. SectionsTypeOK'
    BY <2>1, <2>2, <2>3, <2>4, IdleIsJob DEF SectionsInv, SectionsTypeOK
  <2>6. CorrectionGiven'
    BY <2>2 DEF SectionsInv, SectionsTypeOK, CorrectionGiven, NoRequest
  <2> QED
    BY <2>3, <2>5, <2>6 DEF SectionsInv
<1>7. CASE UNCHANGED classificationVars
  BY <1>7 DEF classificationVars, SectionsInv, SectionsTypeOK, RuleOutranksModel, CorrectionGiven, InStore, Rule, Hit
<1> QED
  BY <1>1, <1>2, <1>3, <1>4, <1>5, <1>6, <1>7 DEF ClassificationNext

(* Classifications and corrections of any number of instances, overlapping, *)
(* interrupted and with any answer of the model, leave every chunk a legal  *)
(* section, and one the keywords decide keeps theirs or one a user gave.    *)
THEOREM SectionsStaySound == ClassificationSpec => []SectionsSound
<1>1. SectionsInv => SectionsSound
  BY DEF SectionsInv, SectionsSound
<1> QED
  BY <1>1, SectionsStart, SectionsStep, PTL DEF ClassificationSpec

-----------------------------------------------------------------------------
(* What a classification holds in memory of a chunk it still has to write   *)
(* is what is stored, unless the chunk was touched; so a write that is left *)
(* out because nothing changed in memory leaves the right section behind.   *)
Current(i) ==
    \A c \in Chunks \ touched[i] :
        /\ c \in job[i].todo => store[c] = job[i].read[c] /\ InStore(c)
        /\ job[i].report[c] # "absent" => store[c] = job[i].report[c]

MemoryCurrent == \A i \in Instances : job[i].pc = "classify" => Current(i)

(* A step that another instance takes with one chunk leaves what is known   *)
(* of all others, and touches that one.                                     *)
LEMMA OtherCurrent ==
    ASSUME SectionsTypeOK, NEW i \in Instances, NEW j \in Instances, i # j, NEW c \in Chunks, NEW s,
           job[j].pc = "classify" => Current(j),
           store' = [store EXCEPT ![c] = s], Touch(i, c), job'[j] = job[j],
           job'[j].pc = "classify"
    PROVE  Current(j)'
<1>1. c \in touched'[j] /\ touched[j] \subseteq touched'[j]
  BY DEF SectionsTypeOK, Touch
<1>2. \A e \in Chunks \ touched'[j] : e \notin touched[j] /\ store'[e] = store[e]
  BY <1>1 DEF SectionsTypeOK
<1> QED
  BY <1>2 DEF Current, InStore

(* The step of a classification itself. *)
LEMMA OwnCurrent ==
    ASSUME SectionsTypeOK, NEW i \in Instances, job[i].pc = "classify", Current(i),
           NEW c \in job[i].todo, NEW s \in Labels, Write(c, job[i].read[c], s), Touch(i, c),
           job' = [job EXCEPT ![i].todo = @ \ {c}, ![i].report[c] = s]
    PROVE  Current(i)'
<1>1. job[i] \in JobRecord /\ c \in Chunks /\ touched'[i] = touched[i]
  BY DEF SectionsTypeOK, JobRecord, Touch
<1>2. /\ job'[i].todo = job[i].todo \ {c}
      /\ job'[i].read = job[i].read
      /\ job'[i].report = [job[i].report EXCEPT ![c] = s]
  BY <1>1 DEF SectionsTypeOK, JobRecord
<1>3. job[i].report \in [Chunks -> Labels \cup {"absent"}]
  BY <1>1 DEF JobRecord
<1>4. \A e \in Chunks : e # c => store'[e] = store[e] /\ job'[i].report[e] = job[i].report[e]
  BY <1>2, <1>3 DEF SectionsTypeOK, Write
<1>5. c \notin touched[i] => store'[c] = s
  BY <1>1 DEF Current, Write, SectionsTypeOK
<1>6. job'[i].report[c] = s
  BY <1>1, <1>2, <1>3
<1>7. ASSUME NEW e \in Chunks, e \notin touched[i]
      PROVE  /\ e \in job'[i].todo => store'[e] = job'[i].read[e] /\ store'[e] # "absent"
             /\ job'[i].report[e] # "absent" => store'[e] = job'[i].report[e]
  <2>1. CASE e = c
    BY <1>2, <1>5, <1>6, <1>7, <2>1
  <2>2. CASE e # c
    BY <1>2, <1>4, <1>7, <2>2 DEF Current, InStore
  <2> QED
    BY <2>1, <2>2
<1> QED
  BY <1>1, <1>7 DEF Current, InStore

(* Every action keeps it. *)
LEMMA MemoryStep ==
    ASSUME SectionsInv, MemoryCurrent, [ClassificationNext]_classificationVars
    PROVE  MemoryCurrent'
<1> USE DEF MemoryCurrent
<1>0. SectionsTypeOK
  BY DEF SectionsInv
<1>1. ASSUME NEW c \in Chunks, Arrive(c)
      PROVE  MemoryCurrent'
  <2>1. \A e \in Chunks : InStore(e) => store'[e] = store[e]
    BY <1>0, <1>1 DEF Arrive, SectionsTypeOK, InStore
  <2>2. ASSUME NEW i \in Instances, job[i].pc = "classify"
        PROVE  Current(i)'
    BY <1>1, <2>1, <2>2 DEF Arrive, Current, InStore
  <2> QED
    BY <1>1, <2>2 DEF Arrive
<1>2. ASSUME NEW i \in Instances, NEW fallback \in BOOLEAN, StartClassify(i, fallback)
      PROVE  MemoryCurrent'
  <2>1. /\ UNCHANGED <<store, touched>>
        /\ \A j \in Instances \ {i} : job'[j] = job[j]
        /\ job'[i].todo = {c \in Chunks : InStore(c)}
        /\ job'[i].read = store
        /\ job'[i].report = [c \in Chunks |-> "absent"]
    BY <1>0, <1>2 DEF StartClassify, SectionsTypeOK, NoRequest
  <2>2. Current(i)'
    BY <2>1 DEF Current, InStore
  <2>3. \A j \in Instances \ {i} : job'[j].pc = "classify" => Current(j)'
    BY <2>1 DEF Current, InStore
  <2> QED
    BY <2>2, <2>3
<1>3. ASSUME NEW i \in Instances, ClassifyNext(i)
      PROVE  MemoryCurrent'
  <2>1. PICK c \in NextUp(i) : \E s \in Outcomes(c, job[i].fallback) :
            /\ Write(c, job[i].read[c], s)
            /\ job' = [job EXCEPT ![i].todo = @ \ {c}, ![i].report[c] = s]
            /\ Touch(i, c)
    BY <1>3 DEF ClassifyNext
  <2>2. PICK s \in Outcomes(c, job[i].fallback) :
            /\ Write(c, job[i].read[c], s)
            /\ job' = [job EXCEPT ![i].todo = @ \ {c}, ![i].report[c] = s]
            /\ Touch(i, c)
    BY <2>1
  <2>3. /\ job[i].pc = "classify" /\ c \in job[i].todo /\ c \in Chunks
        /\ \A j \in Instances \ {i} : job'[j] = job[j]
    BY <1>0, <1>3, <2>2 DEF ClassifyNext, NextUp, SectionsTypeOK, JobRecord
  <2>4. s \in Labels
    BY <2>3, OutcomesSound
  <2>5. Current(i)'
    BY <1>0, <2>2, <2>3, <2>4, OwnCurrent
  <2>6. ASSUME NEW j \in Instances, j # i, job'[j].pc = "classify"
        PROVE  Current(j)'
    BY <1>0, <2>2, <2>3, <2>6, OtherCurrent DEF Write
  <2> QED
    BY <2>5, <2>6
<1>4. ASSUME NEW i \in Instances, FinishClassify(i) \/ Abandon(i)
      PROVE  MemoryCurrent'
  <2>1. /\ store' = store
        /\ \A j \in Instances \ {i} : job'[j] = job[j] /\ touched'[j] = touched[j]
        /\ job'[i].pc = "idle"
    BY <1>0, <1>4 DEF FinishClassify, Abandon, SectionsTypeOK, NoRequest
  <2>2. \A j \in Instances \ {i} : job'[j].pc = "classify" => Current(j)'
    BY <2>1 DEF Current, InStore
  <2> QED
    BY <2>1, <2>2
<1>5. ASSUME NEW i \in Instances, NEW c \in Chunks, NEW s \in Labels, ReadForOverride(i, c, s)
      PROVE  MemoryCurrent'
  <2>1. /\ UNCHANGED <<store, touched>>
        /\ \A j \in Instances \ {i} : job'[j] = job[j]
        /\ job'[i].pc = "override"
    BY <1>0, <1>5 DEF ReadForOverride, SectionsTypeOK, NoRequest
  <2>2. \A j \in Instances \ {i} : job'[j].pc = "classify" => Current(j)'
    BY <2>1 DEF Current, InStore
  <2> QED
    BY <2>1, <2>2
<1>6. ASSUME NEW i \in Instances, SaveOverride(i)
      PROVE  MemoryCurrent'
  <2>1. /\ job[i].chunk \in Chunks
        /\ Write(job[i].chunk, job[i].read[job[i].chunk], job[i].wanted)
        /\ Touch(i, job[i].chunk)
        /\ \A j \in Instances \ {i} : job'[j] = job[j]
        /\ job'[i].pc = "idle"
    BY <1>0, <1>6 DEF SaveOverride, SectionsInv, CorrectionGiven, SectionsTypeOK, NoRequest
  <2>2. ASSUME NEW j \in Instances, j # i, job'[j].pc = "classify"
        PROVE  Current(j)'
    BY <1>0, <2>1, <2>2, OtherCurrent DEF Write
  <2> QED
    BY <2>1, <2>2
<1>7. CASE UNCHANGED classificationVars
  BY <1>7 DEF classificationVars, Current, InStore
<1> QED
  BY <1>1, <1>2, <1>3, <1>4, <1>5, <1>6, <1>7 DEF ClassificationNext

(* What a classification reports of a chunk is what is stored, unless       *)
(* somebody else wrote the chunk since it was read: to send only sections   *)
(* that differ from what was read loses no result.                          *)
THEOREM ReportsMatchStore == ClassificationSpec => []ReportMatchesStore
<1>1. ClassificationSpec => []SectionsInv
  BY SectionsStart, SectionsStep, PTL DEF ClassificationSpec
<1>2. ClassificationInit => MemoryCurrent
  BY DEF ClassificationInit, MemoryCurrent, NoRequest
<1>3. SectionsInv /\ MemoryCurrent /\ [ClassificationNext]_classificationVars => MemoryCurrent'
  BY MemoryStep
<1>4. MemoryCurrent => ReportMatchesStore
  BY DEF MemoryCurrent, Current, ReportMatchesStore
<1> QED
  BY <1>1, <1>2, <1>3, <1>4, PTL DEF ClassificationSpec
=============================================================================
