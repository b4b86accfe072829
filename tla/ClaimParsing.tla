----------------------------- MODULE ClaimParsing -----------------------------
(***************************************************************************)
(* What the summarization service makes of one claim a language model      *)
(* returns.  The service parses with it, and the governance harness, which *)
(* measures what the rules do to sets of claims, calls the same parser.    *)
(*                                                                         *)
(* Wording is abstracted to the set of phrase kinds a text contains, an    *)
(* evidence entry to whether it quotes the document.                       *)
(***************************************************************************)
Levels == {"observed_fact", "derived_metric", "interpretation", "hypothesis",
           "insufficient_evidence"}

Sources == {"financial_evidence", "operational_evidence", "strategic_narrative",
            "management_expectation"}

Confidences == {"high", "medium", "low"}

Narrative == {"strategic_narrative", "management_expectation"}

(* Kinds of phrases: a stock rating ("outperform") only the scan of the     *)
(* response knows, one ("target price") only the audit knows, one both do.  *)
Outlook == {"expects"}
Boasts == {"strong"}
GuardPhrases == {"outperform", "buy recommendation"}
AuditPhrases == {"target price", "buy recommendation"}
TrendPhrases == {"long-term trend"}

Words == Outlook \cup Boasts \cup GuardPhrases \cup AuditPhrases \cup TrendPhrases

(* A claim as the model wrote it; any field may hold an unlisted value.     *)
RawClaim ==
    [level : Levels \cup {"other"}, evidence : SUBSET {"bare", "quoted"},
     source : Sources \cup {"other"}, confidence : Confidences \cup {"other"},
     forward : BOOLEAN, review : BOOLEAN, contaminated : BOOLEAN, words : SUBSET Words]

-----------------------------------------------------------------------------
(* Parsing one claim, in the order of the code: each rule sees what the     *)
(* rules before it have made of the claim.                                  *)
(* Mutant: an unlisted value is kept. *)
AsGiven(value, values, default) == value

Listed(value, values, default) == IF value \in values THEN value ELSE default

(* Mutant: the demotion looks only at claims whose level was invalid. *)
LevelAsWritten(r) ==
    IF r.evidence = {} /\ r.level \notin Levels THEN "insufficient_evidence"
    ELSE Listed(r.level, Levels, "interpretation")

(* Without evidence a claim is demoted, whatever level it had. *)
EvidencedLevel(r) ==
    IF r.evidence = {} THEN "insufficient_evidence"
    ELSE Listed(r.level, Levels, "interpretation")

Contaminated(r, consistent) ==
    \/ r.contaminated
    \/ /\ ~consistent
       /\ EvidencedLevel(r) \in {"derived_metric", "interpretation", "hypothesis"}

Source(r) == Listed(r.source, Sources, "financial_evidence")

(* A story told by the company is no observed fact. *)
FinalLevel(r) ==
    IF Source(r) \in Narrative /\ EvidencedLevel(r) = "observed_fact" THEN "interpretation"
    ELSE EvidencedLevel(r)

Confidence(r) ==
    LET given == Listed(r.confidence, Confidences, "medium")
    IN  IF Source(r) = "management_expectation" /\ given = "high" THEN "medium" ELSE given

Implied(r) == Source(r) \in Narrative /\ r.words \cap Outlook # {}

Prefix(source) ==
    CASE source = "strategic_narrative" -> "the company states"
      [] source = "management_expectation" -> "management says"
      [] OTHER -> ""

(* Evidence is attributed to the document the summary was asked for. *)
Claim(d, r, consistent) ==
    [level |-> FinalLevel(r),
     evidence |-> {[document |-> d, quoted |-> e = "quoted"] : e \in r.evidence},
     source |-> Source(r),
     confidence |-> Confidence(r),
     forward |-> r.forward \/ Implied(r),
     review |-> r.review \/ r.forward \/ Implied(r),
     contaminated |-> Contaminated(r, consistent),
     rhetorical |-> Source(r) \in Narrative /\ r.words \cap Boasts # {},
     prefix |-> Prefix(Source(r)),
     words |-> r.words]
=============================================================================
