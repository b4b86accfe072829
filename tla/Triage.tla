-------------------------------- MODULE Triage --------------------------------
(* What people decide about the findings of the tools, in two files.

   The triage file of governance_tools/violation_triage.py: "generate" turns the
   report of a tool into violations and carries over the reviews of the existing
   file by rule and location, "evaluate" is the gate of the build.  The file is
   read when a run starts and written when it ends, without a lock; people
   review it by hand in between.  The register of excluded tests follows it. *)
EXTENDS Workspace, Integers, Sequences, FiniteSets
CONSTANTS
    Reports,    \* what the validator and the auditor may report
    MaxTriages, MaxReviews
Classes == {"TP", "FP", "FN", "tp"}
Findings ==
    [rule : STRING, place : STRING \union {None}, error : BOOLEAN, type : Classes \union {None}]
Violations ==
    [rule : STRING, place : STRING \union {None}, severity : {"CRITICAL", "WARNING"},
     type : Classes \union {None}]
ASSUME TriageAssumption ==
    /\ \A r \in Reports : /\ r.format \in {"contract_validator", "governance_auditor", "triage"}
                         /\ r.findings \in Seq(Findings)
    /\ MaxTriages \in Nat /\ MaxReviews \in Nat
    /\ None \notin Classes \union Seq(Violations) /\ Torn \notin Seq(Violations) \union {None}
VARIABLES
    file,       \* the triage file: None, Torn, or its violations in order
    triaging,   \* what a run has made of the report and of the file it read
    given,      \* the reviews people gave, by rule and location
    standing,   \* the rules and places whose review no report has dropped
    overlapped, \* a run read a file that somebody wrote before it did
    reports, reviews
triageVars == <<file, triaging, given, standing, overlapped, reports, reviews>>
-----------------------------------------------------------------------------
(* Both converters give errors the severity CRITICAL and warnings WARNING; the
   rule is parsed from the message, and the auditor's warnings have no place.  A
   triage file given as input keeps its own reviews, and its violations are
   critical when they do not say otherwise. *)
Violation(rule, place, severity, type) ==
    [rule |-> rule, place |-> place, severity |-> severity, type |-> type]
FromValidator(report) ==
    [i \in DOMAIN report.findings |-> LET f == report.findings[i]
        IN Violation(f.rule, f.place, IF f.error THEN "CRITICAL" ELSE "WARNING", None)]
FromAuditor(report) ==
    [i \in DOMAIN report.findings |-> LET f == report.findings[i]
        IN Violation(f.rule, IF f.error THEN f.rule ELSE None, IF f.error THEN "CRITICAL" ELSE "WARNING", None)]
FromTriage(report) ==
    [i \in DOMAIN report.findings |-> LET f == report.findings[i]
        IN Violation(f.rule, f.place, IF f.error THEN "CRITICAL" ELSE "WARNING", f.type)]
Converted(report) ==
    CASE report.format = "contract_validator" -> FromValidator(report)
      [] report.format = "governance_auditor" -> FromAuditor(report)
      [] OTHER -> FromTriage(report)

Range1(f) == {f[i] : i \in DOMAIN f}
KeyOf(v) == <<v.rule, v.place>>
KeysOf(f) == {KeyOf(v) : v \in Range1(f)}
RuleOnly(v) == v.rule
Fingerprint(v) == <<v.rule, v.place>>
ReviewOf(old, v) ==
    LET same == {i \in DOMAIN old : old[i].type # None /\ Fingerprint(old[i]) = Fingerprint(v)}
    IN  IF same = {} THEN v.type
        ELSE old[CHOOSE i \in same : \A j \in same : j <= i].type
MergedWithoutOld(old, new) == new
Merged(old, new) == [i \in DOMAIN new |-> [new[i] EXCEPT !.type = ReviewOf(old, new[i])]]

(* The gate: one missed violation is 2, a real or an unreviewed critical one 1.
   An unreadable file raises, which is 1 as well. *)
FailsIfReviewed(v) == v.type \in {"TP", "FN"}
Fails(v) == v.type \in {"TP", "FN"} \/ (v.type = None /\ v.severity = "CRITICAL")
Evaluate(f) ==
    CASE f = None \/ f = Torn -> 1
      [] \E v \in Range1(f) : v.type = "FN" -> 2
      [] \E v \in Range1(f) : Fails(v) -> 1
      [] OTHER -> 0
-----------------------------------------------------------------------------
TriageInit ==
    /\ file = None /\ triaging = [p \in Processes |-> None] /\ given = {} /\ standing = {}
    /\ overlapped = FALSE /\ reports = 0 /\ reviews = 0
Others(p) == \E q \in Processes \ {p} : triaging[q] # None

(* generate: the existing file is merged when there is one; an unreadable one
   raises before anything is written. *)
Generate(p) ==
    /\ triaging[p] = None /\ reports < MaxTriages /\ reports' = reports + 1
    /\ \E r \in Reports :
          LET new == Converted(r)
          IN  /\ triaging' = IF file = Torn THEN triaging
                         ELSE [triaging EXCEPT ![p] =
                               [step |-> "open", out |-> IF file = None THEN new ELSE Merged(file, new)]]
              /\ given' = given \union
                     {<<KeyOf(v), v.type>> : v \in {w \in Range1(new) : w.type # None}}
    /\ overlapped' = (overlapped \/ Others(p))
    /\ UNCHANGED <<file, standing, reviews>>
Open(p) ==
    /\ triaging[p] # None /\ triaging[p].step = "open" /\ file' = Torn
    /\ triaging' = [triaging EXCEPT ![p].step = "fill"]
    /\ UNCHANGED <<given, standing, overlapped, reports, reviews>>
Fill(p) ==
    /\ triaging[p] # None /\ triaging[p].step = "fill" /\ file' = triaging[p].out
    /\ triaging' = [triaging EXCEPT ![p] = None]
    /\ standing' = standing \cap KeysOf(triaging[p].out)
    /\ UNCHANGED <<given, overlapped, reports, reviews>>
DieTriaging(p) ==
    /\ triaging[p] # None /\ triaging' = [triaging EXCEPT ![p] = None]
    /\ UNCHANGED <<file, given, standing, overlapped, reports, reviews>>
Review ==
    /\ file \notin {None, Torn} /\ reviews < MaxReviews /\ reviews' = reviews + 1
    /\ \E i \in DOMAIN file, type \in Classes :
          /\ file' = [file EXCEPT ![i].type = type]
          /\ given' = given \union {<<KeyOf(file[i]), type>>}
          /\ standing' = standing \union {KeyOf(file[i])}
    /\ overlapped' = (overlapped \/ \E p \in Processes : triaging[p] # None)
    /\ UNCHANGED <<triaging, reports>>
(* Nothing but a person gets rid of a file that no run can read. *)
Remove ==
    /\ file = Torn /\ file' = None /\ standing' = {}
    /\ UNCHANGED <<triaging, given, overlapped, reports, reviews>>
TriageNext == (\E p \in Processes : Generate(p) \/ Open(p) \/ Fill(p) \/ DieTriaging(p)) \/ Review \/ Remove
TriageSpec == TriageInit /\ [][TriageNext]_triageVars
-----------------------------------------------------------------------------
TriageTypeOK ==
    /\ file \in {None, Torn} \union Seq(Violations)
    /\ \A p \in Processes : triaging[p] = None \/ triaging[p].step \in {"open", "fill"}
    /\ reports \in 0..MaxTriages /\ reviews \in 0..MaxReviews
Shown == IF file \in {None, Torn} THEN {} ELSE Range1(file)
(* No critical violation that is unreviewed or of one of the three types passes
   the gate unless a person called its rule at its place a false positive, however
   many reports, crashes and lost writes lie between.  Of a type that is none of
   the three nothing is said here: see OnlyFalsePositivesPass. *)
PassedOnlyReviewed ==
    Evaluate(file) = 0 =>
        \A v \in Shown : v.severity = "CRITICAL" /\ v.type \in {None, "TP", "FP", "FN"} =>
            <<KeyOf(v), "FP">> \in given
(* Every review in the file was given by somebody for that rule and place. *)
NothingInvented ==
    \A v \in Shown : v.type = None \/ <<KeyOf(v), v.type>> \in given
(* As long as no run overlaps another or a review, a review is lost only with
   its finding: while the reports keep the rule and the place, some violation of
   the file carries it, whatever order the findings come in. *)
ReviewsKept ==
    (~overlapped /\ file \notin {None, Torn}) =>
        \A k \in standing : \E v \in Shown : KeyOf(v) = k /\ v.type # None
(* Generating again from the same report of a tool changes nothing. *)
Repeatable ==
    file \in {None, Torn} \/
        \A r \in Reports : r.format # "triage" =>
            LET once == Merged(file, Converted(r)) IN Merged(once, Converted(r)) = once
(* What the header of the tool and the gate's docstring say (violation_triage:11-12,
   :364-365): exit 0 is "all clear (or only FP violations)", and 1 "TP or unreviewed
   CRITICAL".  The types are compared as they are written, and no reader of the file
   checks them against VALID_TRIAGE_TYPES: a critical violation classified "tp"
   passes. *)
OnlyFalsePositivesPass ==
    Evaluate(file) = 0 => \A v \in Shown : v.severity = "CRITICAL" => v.type = "FP"
TriageSound == TriageTypeOK /\ PassedOnlyReviewed /\ NothingInvented /\ ReviewsKept /\ Repeatable
-----------------------------------------------------------------------------
(* The register of tests kept out of the core suite
   (governance_tools/exclusion_registry_tool.py) and the command that runs the
   suite with it (run_filtered_tests.py).  People edit the register and tests
   start and stop failing while the days pass on which exclusions expire; the
   audit only warns, and an expired exclusion goes on hiding its tests. *)
CONSTANTS Unparsable, Unavailable,
    Tests, Hides,   \* the tests a pattern takes out: those whose name contains it
    Registers,      \* what people make of the register
    LastDay, MaxRegisterEdits
Fields == {"justification", "owner", "revalidation_trigger"}
ASSUME ExclusionsAssumption ==
    /\ \A entries \in Registers : \A e \in entries :
          e.filled \subseteq Fields /\ e.expiry \in Int \union {Unparsable} /\ e.active \in BOOLEAN
    /\ LastDay \in Nat \ {0} /\ MaxRegisterEdits \in Nat
VARIABLES
    exclusions, \* Unavailable, or its entries
    failing,    \* the tests that fail today
    day, last,  \* what the last run answered, and what it was about
    registerEdits
exclusionVars == <<exclusions, failing, day, last, registerEdits>>
-----------------------------------------------------------------------------
ExpiredSince(e, d) == e.expiry # Unparsable /\ e.expiry + 1 < d
Expired(e, d) == e.expiry # Unparsable /\ e.expiry < d
EntryErrorsOfText(e) == {f \in Fields : f \notin e.filled}
EntryErrors(e) ==
    {f \in Fields : f \notin e.filled}
        \union IF e.expiry = Unparsable THEN {"expiry"} ELSE {}
Active(entries) == {e \in entries : e.active}
AuditOk(entries, d) ==
    /\ ~\E e \in Active(entries) : Expired(e, d)
    /\ \A e \in entries : EntryErrors(e) = {}

(* "not a and not b": an entry without a pattern leaves an expression pytest
   refuses, an empty register leaves no expression and every test. *)
SelectedByAll(entries) == Tests \ UNION {Hides[e.pattern] : e \in entries}
Selected(entries) == Tests \ UNION {Hides[e.pattern] : e \in Active(entries)}
Parses(entries) == \A e \in Active(entries) : e.pattern # None
Exit(entries, bad) ==
    CASE ~Parses(entries) -> 4
      [] Selected(entries) = {} -> 5
      [] Selected(entries) \cap bad # {} -> 1
      [] OTHER -> 0
-----------------------------------------------------------------------------
ExclusionsInit ==
    /\ exclusions \in Registers \union {Unavailable} /\ failing = {}
    /\ day = 1 /\ last = None /\ registerEdits = 0
RunFiltered(audited) ==
    /\ LET entries == IF exclusions = Unavailable THEN {} ELSE exclusions
       IN  last' = [code |-> IF exclusions = Unavailable THEN 2 ELSE Exit(entries, failing),
                    warned |-> \/ audited /\ ~AuditOk(entries, day)
                               \/ \E e \in Active(entries) : Expired(e, day),
                    entries |-> entries, failing |-> failing, day |-> day, audited |-> audited]
    /\ UNCHANGED <<exclusions, failing, day, registerEdits>>
EditRegister ==
    /\ registerEdits < MaxRegisterEdits /\ registerEdits' = registerEdits + 1
    /\ \/ (\E r \in Registers : r # exclusions /\ exclusions' = r) /\ UNCHANGED failing
       \/ (\E f \in SUBSET Tests : f # failing /\ failing' = f) /\ UNCHANGED exclusions
    /\ UNCHANGED <<day, last>>
Midnight ==
    /\ day < LastDay /\ day' = day + 1 /\ UNCHANGED <<exclusions, failing, last, registerEdits>>
ExclusionsNext == (\E audited \in BOOLEAN : RunFiltered(audited)) \/ EditRegister \/ Midnight
ExclusionsSpec == ExclusionsInit /\ [][ExclusionsNext]_exclusionVars
-----------------------------------------------------------------------------
ExclusionsTypeOK ==
    /\ failing \subseteq Tests /\ day \in 1..LastDay /\ registerEdits \in 0..MaxRegisterEdits
    /\ last = None \/ last.code \in {0, 1, 2, 4, 5}
(* A green run that warned of nothing hides a failing test only behind an active
   exclusion that was in date on the day of the run and, when the audit was not
   skipped, has an owner, a reason, a trigger and a readable date. *)
Vouched(e, audited) ==
    /\ e.active /\ (e.expiry = Unparsable \/ e.expiry >= last.day)
    /\ audited => e.filled = Fields /\ e.expiry # Unparsable
SilentGreenVouched ==
    (last # None /\ last.code = 0 /\ ~last.warned) =>
        \A t \in last.failing : \E e \in last.entries :
            e.pattern # None /\ t \in Hides[e.pattern] /\ Vouched(e, last.audited)
(* However it was warned of, a green run hides a failing test only behind an
   entry that is active. *)
GreenHidesByEntries ==
    (last # None /\ last.code = 0) =>
        \A t \in last.failing : \E e \in last.entries :
            e.active /\ e.pattern # None /\ t \in Hides[e.pattern]
ExclusionsSound == ExclusionsTypeOK /\ SilentGreenVouched /\ GreenHidesByEntries
=============================================================================
