--------------------------- MODULE ClaimGovernance ---------------------------
(***************************************************************************)
(* What the summarization service makes of the claims a language model     *)
(* returns, and what the governance audit later says of the saved report.  *)
(*                                                                         *)
(* The rules are written down twice, once where a response is parsed into  *)
(* a report and once where a stored report is audited, with different      *)
(* lists of phrases; the properties relate the two.                        *)
(*                                                                         *)
(* Order and repetition of the claims of a report do not matter here: a    *)
(* report holds a set.  None is an audit nobody has asked for yet.         *)
(***************************************************************************)
EXTENDS Absent, ClaimParsing, Naturals, Sequences

CONSTANTS
    ClaimDocuments,  \* ingested documents
    Batches,         \* the sets of raw claims a response may carry
    MaxReports       \* bound on the number of reports generated

Rules == {"R1", "R2", "R3", "R4", "R5", "R7"}

ASSUME GovernanceAssumption ==
    /\ Batches \subseteq SUBSET RawClaim
    /\ MaxReports \in Nat
    /\ None \notin [document : ClaimDocuments, report : 1..MaxReports,
                    violations : SUBSET Rules, warnings : SUBSET Rules]

VARIABLES
    reports,   \* the AIReport collection, in the order of created_at
    audit      \* the last audit delivered to a caller

governanceVars == <<reports, audit>>

-----------------------------------------------------------------------------
Clean(claims) == {c \in claims : ~c.contaminated}

Insufficient(claims) == {c \in claims : c.level = "insufficient_evidence"}

(* Mutant: asked the other way round, no claim at all is complete evidence. *)
StatusFromGaps(claims) ==
    IF Insufficient(Clean(claims)) = {} THEN "complete"
    ELSE IF Insufficient(Clean(claims)) = Clean(claims) THEN "insufficient"
    ELSE "partial"

EvidenceStatus(claims) ==
    IF Insufficient(Clean(claims)) = Clean(claims) THEN "insufficient"
    ELSE IF Insufficient(Clean(claims)) = {} THEN "complete"
    ELSE "partial"

-----------------------------------------------------------------------------
GovernanceInit ==
    /\ reports = <<>>
    /\ audit = None

(* POST /summary: the response is parsed and the report saved.  A response  *)
(* that names no requested period cannot be inconsistent with it.  Advice   *)
(* is looked for in the whole text of the response, summary included.       *)
ReportOn(d, raw, consistent, words) ==
    LET claims == {Claim(d, r, consistent) : r \in raw}
    IN  [document |-> d, consistent |-> consistent, claims |-> claims,
         evidence_status |-> EvidenceStatus(claims),
         investment_advice_detected |-> words \cap GuardPhrases # {}]

Generate(d) ==
    /\ Len(reports) < MaxReports
    /\ \E raw \in Batches, verdict, requested \in BOOLEAN, summary \in {{}, GuardPhrases} :
          reports' = Append(reports,
              ReportOn(d, raw, verdict \/ ~requested, summary \cup UNION {r.words : r \in raw}))
    /\ UNCHANGED audit

-----------------------------------------------------------------------------
(* The audit's rules; each says whether it fires for a claim. *)

R1(c) == c.evidence = {}

(* Mutant: to cite is enough, the quotation may be empty. *)
R2Cited(c) == c.level = "derived_metric" /\ c.evidence = {}

R2(c) == c.level = "derived_metric" /\ \A e \in c.evidence : ~e.quoted

R3(c) == c.evidence = {} /\ c.level \notin {"hypothesis", "insufficient_evidence"}

R4(c) == c.words \cap AuditPhrases # {}

R5(c, d) == \E e \in c.evidence : e.document # d

R7(c) == c.words \cap TrendPhrases # {}

Violations(report) ==
    {rule \in {"R1", "R2", "R4"} :
        \/ rule = "R4" /\ report.investment_advice_detected
        \/ \E c \in report.claims :
              \/ rule = "R1" /\ R1(c)
              \/ rule = "R2" /\ R2(c)
              \/ rule = "R4" /\ R4(c)}

(* R3 counts as fixed when it fires: a warning, as R5 and R7 are. *)
Warnings(report, d) ==
    {rule \in {"R3", "R5", "R7"} :
        \E c \in report.claims :
            \/ rule = "R3" /\ R3(c)
            \/ rule = "R5" /\ R5(c, d)
            \/ rule = "R7" /\ R7(c)}

ReportsOf(d) == {n \in 1..Len(reports) : reports[n].document = d}

(* Mutant: the report is looked up by its id alone. *)
AnyReport(d, latest) == 1..Len(reports)

(* The report with the id asked for, or the latest of the document. *)
Audited(d, latest) ==
    {n \in ReportsOf(d) : latest => \A k \in ReportsOf(d) : k <= n}

RunAudit(d, latest) ==
    \E n \in Audited(d, latest) :
        /\ audit' = [document |-> d, report |-> n,
                     violations |-> Violations(reports[n]),
                     warnings |-> Warnings(reports[n], d)]
        /\ UNCHANGED reports

GovernanceNext ==
    \E d \in ClaimDocuments :
        \/ Generate(d)
        \/ \E latest \in BOOLEAN : RunAudit(d, latest)

GovernanceSpec == GovernanceInit /\ [][GovernanceNext]_governanceVars

-----------------------------------------------------------------------------
ParsedClaim ==
    [level : Levels, evidence : SUBSET [document : ClaimDocuments, quoted : BOOLEAN],
     source : Sources, confidence : Confidences, forward : BOOLEAN, review : BOOLEAN,
     contaminated : BOOLEAN, rhetorical : BOOLEAN,
     prefix : {"", "the company states", "management says"}, words : SUBSET Words]

Report ==
    [document : ClaimDocuments, consistent : BOOLEAN, claims : SUBSET ParsedClaim,
     evidence_status : {"complete", "partial", "insufficient"},
     investment_advice_detected : BOOLEAN]

Audit ==
    [document : ClaimDocuments, report : 1..MaxReports,
     violations : SUBSET Rules, warnings : SUBSET Rules]

(* Type correctness: every stored value is one its model's field allows. *)
GovernanceTypeOK ==
    /\ reports \in Seq(Report)
    /\ Len(reports) <= MaxReports
    /\ audit \in Audit \cup {None}

Claims == UNION {reports[n].claims : n \in DOMAIN reports}

(* The discipline of a stored claim, which several of the parser's rules    *)
(* could undo for one another: no evidence, no level; a narrative is never  *)
(* an observed fact and always attributed; an expectation is never of high  *)
(* confidence; what looks ahead goes to a human.                            *)
ClaimsDisciplined ==
    \A c \in Claims :
        /\ c.evidence = {} => c.level = "insufficient_evidence"
        /\ c.source \in Narrative => c.level # "observed_fact" /\ c.prefix # ""
        /\ c.source = "management_expectation" => c.confidence # "high"
        /\ c.forward => c.review

(* A report that says its evidence is complete has claims outside the       *)
(* contaminated ones, and every one of them cites the document.             *)
CompleteMeansEvidenced ==
    \A n \in DOMAIN reports :
        reports[n].evidence_status = "complete" =>
            /\ Clean(reports[n].claims) # {}
            /\ \A c \in Clean(reports[n].claims) : c.evidence # {}

(* An audit that passed vouches for the report: every claim, contaminated   *)
(* ones too, that does not itself admit a gap has evidence of the audited   *)
(* document, a derived metric a quotation, and no phrase of either list of  *)
(* investment advice is there.  It says nothing of a claim that admits a    *)
(* gap, of which the docstring of R1 and its code disagree.                 *)
PassedMeansEvidenced ==
    audit # None /\ audit.violations = {} =>
        \A c \in reports[audit.report].claims :
            /\ c.level # "insufficient_evidence" =>
                   \E e \in c.evidence : e.document = audit.document
            /\ c.level = "derived_metric" => \E e \in c.evidence : e.quoted
            /\ c.words \cap (GuardPhrases \cup AuditPhrases) = {}

(* What the docstring of R1 says (core/governance.py:77): a claim needs      *)
(* evidence unless its level is insufficient_evidence, so an audit that     *)
(* reports R1 has found a claim without evidence at another level.          *)
R1SparesInsufficient ==
    audit # None /\ "R1" \in audit.violations =>
        \E c \in reports[audit.report].claims :
            c.evidence = {} /\ c.level # "insufficient_evidence"

(* The parser leaves the audit nothing to warn of but talk of long trends:  *)
(* R3 has been fixed by the demotion and no evidence is of another file.    *)
WarnsOfTrendsOnly == audit # None => audit.warnings \subseteq {"R7"}
=============================================================================
