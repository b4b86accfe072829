------------------------------ MODULE MCRecords ------------------------------
EXTENDS Triage, MemoryAuthority, Escalation, Measurement, TLC
CONSTANTS NotObject, fix, tests, secret, docs
Symmetry == Permutations(Processes)
VARIABLES
    active, archives, manifest, pages, logged, syncing, result, clock, ever, harmed,
    syncs, faults, taskEdits,
    store, closeouts, samples, probing, answer, probes, drops,
    who

hVars == <<active, archives, manifest, pages, logged, syncing, result, clock, ever, harmed,
           syncs, faults, taskEdits>>
nVars == <<store, closeouts, samples, probing, answer, probes, drops>>
recordsVars == <<who, authorityVars, harnessVars, hVars, memoryVars, triageVars, exclusionVars, nVars>>
-----------------------------------------------------------------------------
Payload ==
    [id |-> "e1", mitigation |-> "validated", track |-> "closure_eligible", owned |-> TRUE,
     route |-> "completed", resolved |-> FALSE, claim |-> FALSE, era |-> None, caveat |-> FALSE,
     contamination |-> "none", closed |-> FALSE, state |-> None, transition |-> None,
     reasons |-> {}, blocked |-> FALSE]
Transition(from, actor, auto, confirmed) ==
    [from |-> from, actor |-> actor, auto |-> auto, confirmed |-> confirmed]
MCPayloads ==
    {Payload, [Payload EXCEPT !.mitigation = "author_provisional", !.owned = FALSE],
     [Payload EXCEPT !.route = "overdue"],
     [Payload EXCEPT !.claim = TRUE, !.era = "TRANSITION", !.caveat = TRUE],
     [Payload EXCEPT !.claim = TRUE, !.era = "TRANSITION"],
     [Payload EXCEPT !.contamination = "unresolved", !.state = "archived"],
     [Payload EXCEPT !.closed = TRUE, !.track = "pending_validation"]}
      \union {[Payload EXCEPT !.state = s] : s \in {"active", "created", "superseded"}}
      \union {[Payload EXCEPT !.state = "resolved_confirmed",
                              !.transition = Transition("resolved_provisional", actor, auto, c)] :
                  actor \in {"reviewer", "author_provisional"}, auto, c \in BOOLEAN}
      \union {[Payload EXCEPT !.id = "e2", !.state = "active"],
              [Payload EXCEPT !.id = "e2", !.state = "resolved_provisional",
                              !.transition = Transition("active", "reviewer", TRUE, FALSE)]}
Observed ==
    [statuses |-> {"none_observed", "not_tested"}, runs |-> 3, sessions |-> 2, minRuns |-> 3, minSessions |-> 2,
     historical |-> TRUE, remediated |-> TRUE, covers |-> TRUE, flagged |-> TRUE,
     approval |-> [approved |-> TRUE, complete |-> TRUE, role |-> "risk_owner"]]
MCEvidence ==
    {Observed, [Observed EXCEPT !.statuses = {"not_tested"}], [Observed EXCEPT !.runs = 2],
     [Observed EXCEPT !.runs = 1, !.minRuns = 1],
     [Observed EXCEPT !.approval.role = "author"],
     [Observed EXCEPT !.approval = None, !.flagged = FALSE], [Observed EXCEPT !.remediated = FALSE],
     [Observed EXCEPT !.statuses = {"observed", "none_observed"}]}
MCCloseouts ==
    LET all == RequiredConditions
    IN  {[writer |-> w, reviewer |-> TRUE, conditions |-> c, dated |-> TRUE, completed |-> TRUE] :
            w \in BOOLEAN, c \in {{}, all, all \ {"validator_output_reviewed"}}}
-----------------------------------------------------------------------------
Raw(level, source, confidence, evidence, forward) ==
    [level |-> level, source |-> source, confidence |-> confidence, words |-> {},
     evidence |-> evidence, forward |-> forward, review |-> FALSE, contaminated |-> FALSE]
Fact == Raw("observed_fact", "financial_evidence", "high", {"quoted"}, FALSE)
Story == Raw("interpretation", "strategic_narrative", "high", {"quoted"}, FALSE)
Hope == Raw("observed_fact", "management_expectation", "medium", {"quoted"}, TRUE)
Bare == Raw("observed_fact", "strategic_narrative", "high", {}, FALSE)
MCSets == {{Fact, Story, Hope, Bare}, {Fact}}
-----------------------------------------------------------------------------
Task(text) == [kind |-> "task", done |-> FALSE, text |-> text]
NextStep == [kind |-> "next"]
H == INSTANCE HotMemory WITH Words <- {fix, tests, secret, docs},
    Sensitive <- {secret},
    Memories <- {<<Task(<<fix>>), Task(<<secret>>), NextStep, Task(<<tests>>)>>,
                 <<Task(<<fix>>), Task(<<fix, tests>>), Task(<<fix>>)>>},
    Additions <- {Task(<<docs>>)}, HeadLines <- 1, MaxTries <- 2, MaxRuns <- 2, MaxFaults <- 2,
    MaxEdits <- 1, MaxClock <- 2, proc <- syncing, runs <- syncs, edits <- taskEdits
(* Faults come before runs overlap and before edits; the second turns while a *)
(* process is idle, and not where somebody edits.                             *)
HotLimits ==
    /\ faults' = faults \/ (taskEdits = 0 /\ "overlap" \notin harmed)
    /\ ~(syncs = 2 /\ \A p \in Processes : syncing[p] = None)
    /\ clock' = clock \/ (faults + taskEdits = 0 /\ \E p \in Processes : syncing[p] = None)
    /\ taskEdits' = taskEdits \/ (faults < 2 /\ clock = 1)
-----------------------------------------------------------------------------
HandEntry(commit, kind, opens) ==
    [opens |-> opens, kind |-> kind, writer |-> FALSE, version |-> FALSE, commit |-> commit,
     session |-> FALSE, id |-> 0]
MCEntries ==
    {HandEntry("hash", None, TRUE), HandEntry("pending", None, TRUE),
     [HandEntry(None, "session-derived", TRUE) EXCEPT !.version = TRUE],
     [HandEntry(None, None, FALSE) EXCEPT !.session = TRUE],
     [HandEntry(None, None, FALSE) EXCEPT !.writer = TRUE]}
Section ==
    [heading |-> "section", status |-> "authoritative", closed |-> TRUE, by |-> "comment",
     dated |-> TRUE, anchored |-> TRUE]
MCLongTerms ==
    {<<[Section EXCEPT !.status = "candidate"]>>, <<Section>>,
     <<Section, [Section EXCEPT !.anchored = FALSE]>>, <<Section, [Section EXCEPT !.by = "text"]>>,
     <<[Section EXCEPT !.by = "none", !.closed = FALSE]>>,
     <<[Section EXCEPT !.by = "text", !.closed = FALSE]>>,
     <<[Section EXCEPT !.heading = "title"], [Section EXCEPT !.status = "stale"]>>}
Ended(torn, mode, relevant, recorded) ==
    [torn |-> torn, mode |-> mode, relevant |-> relevant, recorded |-> recorded]
MCSummaries ==
    {Ended(FALSE, "durable", r, d) : r, d \in BOOLEAN}
      \union {Ended(TRUE, "durable", TRUE, FALSE), Ended(FALSE, "stateless", TRUE, FALSE)}
MCRuntimeCloseouts ==
    {[boundary |-> b, degraded |-> d] : b \in {None, "runtime_verified", "static"}, d \in BOOLEAN}
(* The promotion gate, and the recording of entries, are looked at apart; so *)
(* are hand-written entries and the summaries of sessions.                   *)
MemoryLimits ==
    /\ <<long, survey>>' # <<long, survey>> =>
           records = 0 /\ commits = {} /\ today = 1 /\ summaries = {} /\ git
    /\ <<records, today, commits, summaries>>' # <<records, today, commits, summaries>> =>
           long = None /\ runtimeCloseout = None /\ survey = None /\ promotion = None
    /\ summaries' # summaries => touched = {} /\ records < 2 /\ commits = {} /\ \A p \in Processes : recording[p] = None
    /\ memoryEdits' # memoryEdits /\ summaries = summaries' => summaries = {}
    /\ commits' # commits => memoryEdits = 0
    /\ memoryEdits' = memoryEdits \/ memoryEdits = 0 \/ \A p \in Processes : recording[p] = None
    /\ \A p \in Processes :
          (recording[p] = None /\ recording'[p] # None /\ records = 1) =>
              recording'[p].entry.commit # "pending"
-----------------------------------------------------------------------------
Finding(rule, place, error) == [rule |-> rule, place |-> place, error |-> error, type |-> None]
Validator(findings) == [format |-> "contract_validator", findings |-> findings]
MCReports ==
    {Validator(<<Finding("RISK-missing", "RISK", TRUE), Finding("slug", None, FALSE), Finding("slug", None, FALSE)>>),
     Validator(<<Finding("RISK-missing", "RISK", TRUE)>>), Validator(<<>>),
     Validator(<<Finding("GOV-doc", "a.md", TRUE), Finding("GOV-doc", "b.md", TRUE)>>),
     [format |-> "governance_auditor",
      findings |-> <<Finding("auditor:doc", "x", TRUE), Finding("RISK-missing", "RISK", FALSE)>>],
     [format |-> "triage",
      findings |-> <<[Finding("GOV-doc", "a.md", TRUE) EXCEPT !.type = "FP"], Finding("GOV-doc", "a.md", TRUE)>>]}
-----------------------------------------------------------------------------
Exclusion ==
    [pattern |-> "trust", filled |-> {"justification", "owner", "revalidation_trigger"},
     expiry |-> 2, active |-> TRUE]
Handoff == [Exclusion EXCEPT !.pattern = "handoff", !.expiry = 1]
MCRegisters ==
    {{}, {Exclusion}, {Exclusion, Handoff}, {[Exclusion EXCEPT !.active = FALSE], Handoff},
     {[Exclusion EXCEPT !.expiry = Unparsable]}, {[Exclusion EXCEPT !.pattern = None]},
     {[Exclusion EXCEPT !.filled = {"owner"}], [Handoff EXCEPT !.active = FALSE]},
     {[Exclusion EXCEPT !.pattern = "t"]},
     {[Exclusion EXCEPT !.expiry = 3], [Exclusion EXCEPT !.pattern = "t", !.active = FALSE]}}
MCHides ==
    [q \in {"trust", "handoff", "t"} |->
        CASE q = "trust" -> {"trust1"} [] q = "handoff" -> {"handoff1"}
          [] OTHER -> {"trust1", "handoff1"}]
-----------------------------------------------------------------------------
Candidate ==
    [session |-> "s1", decision |-> "DO_NOT_PROMOTE", written |-> "DO_NOT_PROMOTE", held |-> None,
     label |-> None, complete |-> FALSE, fields |-> {}, fault |-> "none"]
Undecided(decision, session, fields, fault) ==
    [Candidate EXCEPT !.decision = decision, !.written = decision, !.session = session,
                      !.fields = fields, !.fault = fault]
MCCandidates ==
    {Candidate, Torn, NotObject,
     Undecided("MAYBE", "s1", {"checks.repo_readiness_level"}, "boundary"),
     Undecided(None, "s2", {"checks.repo_readiness_level", "checks.closeout_content_sufficiency"}, "missing"),
     Undecided("null", "s2", {"checks.closeout_schema_validity"}, "none"),
     Undecided(None, "s1", {}, "none")}
Told(session, narrative) == [session |-> session, narrative |-> narrative]
Sample ==
    [agent |-> FALSE, boundaryError |-> FALSE, forbidden |-> FALSE, advisories |-> FALSE,
     consumed |-> "no", change |-> "none"]
N == INSTANCE Enumd WITH Files <- <<"a", "b">>, Candidates <- MCCandidates,
    Closeouts <- {Told("s1", TRUE), Told("s2", FALSE), Torn, Told("s2", TRUE), NotObject},
    Samples <- {Sample, [Sample EXCEPT !.agent = TRUE], [Sample EXCEPT !.consumed = "yes"],
                [Sample EXCEPT !.consumed = "malformed", !.change = "minor"],
                [Sample EXCEPT !.change = "major"], [Sample EXCEPT !.forbidden = TRUE],
                [Sample EXCEPT !.advisories = TRUE], [Sample EXCEPT !.boundaryError = TRUE], Torn, NotObject},
    MaxRuns <- 2, MaxEdits <- 1, proc <- probing, last <- answer, runs <- probes, edits <- drops
Nothing == [f \in {"a", "b"} |-> None]
Busy == {p \in Processes : probing[p] # None}
Starts(kinds) == \E p \in Processes : probing[p] = None /\ probing'[p] # None /\ probing'[p].kind \in kinds
(* A second probe runs beside or after a contract; beside it in its directory, *)
(* after it over what it wrote.  Files are dropped under a probe that runs     *)
(* alone, and a run dies when it leaves a file torn.                           *)
ProbeLimits ==
    /\ probes' # probes =>
          /\ drops = 0
          /\ CASE samples # Nothing -> Starts({"observe"}) /\ probes = 0
               [] closeouts # Nothing -> Starts({"closeout"}) /\ probes = 0
               [] OTHER -> ~Starts({"closeout", "observe"})
          /\ probes = 1 =>
                \/ Starts({"contract"}) /\ Busy # {}
                \/ \E p \in Busy : probing[p].kind = "contract" /\ probing[p].to # None
                \/ answer # None /\ answer.kind = "contract" /\ Busy = {}
          /\ \A p \in Processes : (probing[p] = None /\ probing'[p] # None) =>
                /\ probing'[p].from =
                       IF probes = 0 \/ Busy # {} \/ store["safe"] = Nothing THEN "raw" ELSE "safe"
                /\ Busy # {} => probing'[p].to \in {None, "raw"}
    /\ drops' # drops =>
          samples = Nothing /\ closeouts = Nothing /\ Busy # {} /\ probes = 1 /\ store'["safe"] = store["safe"]
    /\ ((\E p \in Busy : probing'[p] = None) /\ answer' = answer) =>
          Torn \in {store["safe"]["a"], store["safe"]["b"], store["raw"]["a"], store["raw"]["b"]}
-----------------------------------------------------------------------------
(* One component moves in each behaviour; the others stay as they begin.  The *)
(* closeout of phase D is looked at apart from the artifacts; the seeds after *)
(* the first have one claim; two candidates are the same, or one of them is   *)
(* missing, torn or plain.                                                    *)
RecordsInit ==
    /\ who \in {"authority", "closeout", "harness", "tasks", "memory", "triage", "exclusions", "enumd"}
    /\ EscalationInit
    /\ who # "harness" => claims = [k \in ClaimSets |-> [s \in Seeds |-> {Fact}]]
    /\ HarnessInit
    /\ who = "harness" =>
          /\ claims["holdout"] = claims["real"]
          /\ \A k \in ClaimSets, s \in {350102, 350103} : claims[k][s] = {Fact}
    /\ who # "tasks" => active = None
    /\ H!Init
    /\ who # "memory" => long = None /\ runtimeCloseout = None /\ git = FALSE
    /\ MemoryInit /\ (runtimeCloseout # None => git)
    /\ TriageInit
    /\ who # "exclusions" => exclusions = Unavailable
    /\ ExclusionsInit
    /\ \E raw \in [{"a", "b"} -> MCCandidates \union {None}] :
          /\ who # "enumd" => raw = Nothing
          /\ \/ raw["a"] = raw["b"]
             \/ {raw["a"], raw["b"]} \intersect {None, Candidate, Torn} # {}
          /\ store = [d \in {"raw", "safe"} |-> IF d = "raw" THEN raw ELSE Nothing]
          /\ \/ closeouts = Nothing /\ samples = Nothing
             \/ /\ who = "enumd" /\ samples = Nothing
                /\ \E f \in {"a", "b"} : raw[f] \notin {None, NotObject}
             \/ who = "enumd" /\ closeouts = Nothing /\ raw = Nothing
    /\ N!Init
RecordsNext ==
    /\ UNCHANGED who
    /\ \/ /\ who = "authority" /\ EscalationNext
          /\ UNCHANGED <<closeout, harnessVars, hVars, memoryVars, triageVars, exclusionVars, nVars>>
       \/ /\ who = "closeout" /\ EscalationNext
          /\ UNCHANGED <<artifacts, register, log, harnessVars, hVars, memoryVars, triageVars,
                         exclusionVars, nVars>>
       \/ /\ who = "harness" /\ HarnessNext
          /\ UNCHANGED <<authorityVars, hVars, memoryVars, triageVars, exclusionVars, nVars>>
       \/ /\ who = "tasks" /\ H!Next /\ HotLimits
          /\ UNCHANGED <<authorityVars, harnessVars, memoryVars, triageVars, exclusionVars, nVars>>
       \/ /\ who = "memory" /\ MemoryNext /\ MemoryLimits
          /\ UNCHANGED <<authorityVars, harnessVars, hVars, triageVars, exclusionVars, nVars>>
       \/ /\ who = "triage" /\ TriageNext /\ (reports' = reports \/ reports + reviews < 3)
          /\ UNCHANGED <<authorityVars, harnessVars, hVars, memoryVars, exclusionVars, nVars>>
       \/ /\ who = "exclusions" /\ ExclusionsNext
          /\ UNCHANGED <<authorityVars, harnessVars, hVars, memoryVars, triageVars, nVars>>
       \/ /\ who = "enumd" /\ N!Next /\ ProbeLimits
          /\ UNCHANGED <<authorityVars, harnessVars, hVars, memoryVars, triageVars, exclusionVars>>
RecordsSpec == RecordsInit /\ [][RecordsNext]_recordsVars
(* These are evaluated in the behaviours their components move in; the       *)
(* properties of the modules that are extended hold everywhere.              *)
StoresSound ==
    /\ who = "tasks" => H!HotMemorySound
    /\ who = "enumd" => N!EnumdSound
=============================================================================
