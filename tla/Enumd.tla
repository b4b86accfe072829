-------------------------------- MODULE Enumd --------------------------------
(* The probes over artifacts of Enumd, an observing tool whose fields look like
   decisions: semantic isolation (governance_tools/enumd_semantic_isolation.py),
   the contract that takes such a field out of the readers' reach
   (enumd_ingestion_contract.py) and the observe-only probe
   (enumd_observe_only_probe.py).  A probe lists a directory and reads its files
   one by one, while people drop files and a contract rewrites them, in another
   directory or in place. *)
EXTENDS Integers, Sequences, FiniteSets
CONSTANTS Processes, None, Torn, NotObject,
    Files,                          \* the names, in the order they are read
    Candidates, Closeouts, Samples, \* what a directory may hold under a name
    MaxRuns, MaxEdits
VARIABLES
    store,      \* the candidates, in the two directories
    closeouts, samples,
    proc,       \* the probe a process runs
    last,       \* the last report, with what it was made from
    runs, edits
vars == <<store, closeouts, samples, proc, last, runs, edits>>
Dirs == {"raw", "safe"}
Kinds == {"isolation", "contract", "residual", "closeout", "memory", "observe"}
-----------------------------------------------------------------------------
Range1(s) == {s[i] : i \in DOMAIN s}
Readable(s) == SelectSeq(s, LAMBDA c : c # Torn)
HasDecision(c) == c.decision \notin {None, "null"}
Readiness == "checks.repo_readiness_level"
Validity == "checks.closeout_schema_validity"
LowFields == {"checks.closeout_content_sufficiency", "checks.repo_closeout_activation_state"}
Registered == {Readiness, Validity} \union LowFields
Reach(c) == c.fields \union IF HasDecision(c) THEN {"policy.decision"} ELSE {}
ReachOf(s) == [i \in DOMAIN s |-> IF s[i] = Torn THEN {} ELSE Reach(s[i])]

(* The decision in the reach of half of the samples is a collision, any field at
   all a risk. *)
Conclusion(fields) ==
    LET high == {i \in DOMAIN fields : "policy.decision" \in fields[i]}
    IN  CASE fields = <<>> -> "safe"
          [] 2 * Cardinality(high) >= Len(fields) -> "collision"
          [] \E i \in DOMAIN fields : fields[i] # {} -> "risk"
          [] OTHER -> "safe"
Level(conclusion) == CASE conclusion = "safe" -> 0 [] conclusion = "risk" -> 1 [] OTHER -> 2

BoundaryStatus(c) == IF c.fault = "boundary" THEN "fail" ELSE "pass"
Isolation(s) ==
    [conclusion |-> Conclusion(ReachOf(s)),
     failing |-> Cardinality({i \in DOMAIN s : s[i] # Torn /\ BoundaryStatus(s[i]) = "fail"}),
     valid |-> Cardinality({i \in DOMAIN s : s[i] # Torn /\ s[i].fault = "none"})]

(* The contract: a decision becomes provenance, known or not; only a known one
   counts as mitigated.  Without a decision nothing but the contract's own block
   is written anew. *)
Known == {"DO_NOT_PROMOTE", "PROMOTE", "DEFER"}
ApplyAlways(c) ==
    [c EXCEPT !.decision = None, !.held = c.decision, !.complete = c.decision \in Known,
              !.label = IF c.decision \in Known THEN "applied" ELSE "unknown_value"]
Apply(c) ==
    IF ~HasDecision(c) THEN [c EXCEPT !.complete = FALSE]
    ELSE [c EXCEPT !.decision = None, !.held = c.decision, !.complete = c.decision \in Known,
                   !.label = IF c.decision \in Known THEN "applied" ELSE "unknown_value"]
ApplyTo(s) == [i \in DOMAIN Readable(s) |-> Apply(Readable(s)[i])]
Contract(s) ==
    LET before == Conclusion(ReachOf(Readable(s)))
        after == Conclusion(ReachOf(ApplyTo(s)))
    IN  [before |-> before, after |-> after,
         contained |-> before = "collision" /\ after # "collision",
         mitigated |-> {i \in DOMAIN ApplyTo(s) : ApplyTo(s)[i].complete},
         failed |-> {i \in DOMAIN ApplyTo(s) :
                        HasDecision(Readable(s)[i]) /\ Readable(s)[i].decision \notin Known}]

(* The residual probe: five scenarios and the fields all samples share, each from
   a reading of its own. *)
Masks == <<{}, {Readiness}, {Validity}, {Readiness, Validity}, Registered>>
Scenario(s, mask) ==
    Conclusion([i \in DOMAIN ApplyTo(s) |-> Reach(ApplyTo(s)[i]) \ mask])
Shared(s) ==
    IF Readable(s) = <<>> THEN {}
    ELSE {f \in Registered : \A c \in Range1(ApplyTo(s)) : f \in Reach(c)}
ResidualOfOne(seen) ==
    LET conclusion == [k \in 1..5 |-> Scenario(seen[k], Masks[k])]
    IN  [scenarios |-> conclusion, shared |-> Shared(seen[6]),
         finding |-> IF conclusion[2] = conclusion[1] THEN "residual" ELSE "second_order"]
Residual(seen) ==
    LET conclusion == [k \in 1..5 |-> Scenario(seen[k], Masks[k])]
    IN  [scenarios |-> conclusion, shared |-> Shared(seen[6]),
         finding |-> IF conclusion[2] = conclusion[1] /\ conclusion[3] = conclusion[1]
                     THEN "residual" ELSE "second_order"]

(* Closeouts are compared with the candidate of their session that was read
   last; a decision or a medium field of it, told as a story, is amplified. *)
Exposed(c) == Reach(c) \ LowFields # {}
CandidateOf(s, session) ==
    LET of == {i \in DOMAIN Readable(s) : Readable(s)[i].session = session}
    IN  IF of = {} THEN None ELSE Readable(s)[CHOOSE i \in of : \A j \in of : j <= i]
Delta(s, closeout) ==
    LET c == CandidateOf(s, closeout.session)
        exposed == c # None /\ Exposed(c)
    IN  CASE closeout.narrative /\ exposed -> "amplified"
          [] ~closeout.narrative /\ exposed -> "reduced"
          [] closeout.narrative -> "maintained"
          [] OTHER -> "neutral"
CloseoutConclusion(candidates, told) ==
    CASE \E c \in Range1(Readable(told)) : Delta(candidates, c) = "amplified" -> "collision"
      [] \E c \in Range1(Readable(told)) : c.narrative -> "risk"
      [] OTHER -> "safe"

(* Memory candidates: the finding counts an unreadable file as one without the
   decision. *)
Memory(s) ==
    [absent |-> s # <<>> /\ \A c \in Range1(s) : c = Torn \/ c.decision = None,
     low |-> Cardinality({i \in DOMAIN s : s[i] # Torn /\ s[i].decision = None})]

(* The observe-only probe: a sample that is missing, unreadable, without a
   declared boundary or on behalf of an agent fails the whole batch. *)
SampleConclusion(s) ==
    CASE s \in {None, Torn, NotObject} -> "fail"
      [] s.agent \/ s.boundaryError -> "fail"
      [] s.forbidden \/ s.advisories \/ s.consumed = "yes" \/ s.change = "major" -> "risk"
      [] OTHER -> "safe"
BatchOfLast(s) == SampleConclusion(s[Len(s)])
BatchConclusion(s) ==
    LET all == {SampleConclusion(s[i]) : i \in DOMAIN s}
    IN  IF "fail" \in all THEN "fail" ELSE IF "risk" \in all THEN "risk" ELSE "safe"
Reevaluate(s) == s \notin {None, Torn, NotObject} /\ (s.consumed = "yes" \/ s.change = "major")

Report(kind, seen) ==
    CASE kind = "isolation" -> Isolation(seen[1])
      [] kind = "contract" -> Contract(seen[1])
      [] kind = "residual" -> Residual(seen)
      [] kind = "closeout" -> [conclusion |-> CloseoutConclusion(seen[1], seen[2])]
      [] kind = "memory" -> Memory(seen[1])
      [] OTHER -> [conclusion |-> BatchConclusion(seen[1]),
                   review |-> {i \in DOMAIN seen[1] : Reevaluate(seen[1][i])}]
-----------------------------------------------------------------------------
Init ==
    /\ store \in [Dirs -> [Range1(Files) -> Candidates \union {None}]]
    /\ closeouts \in [Range1(Files) -> Closeouts \union {None}]
    /\ samples \in [Range1(Files) -> Samples \union {None}]
    /\ proc = [p \in Processes |-> None] /\ last = None /\ runs = 0 /\ edits = 0
Passes(kind) == CASE kind = "residual" -> 6 [] kind = "closeout" -> 2 [] OTHER -> 1
Existing(dir) == SelectSeq(Files, LAMBDA f : dir[f] # None)
(* Candidates are those that exist when the run lists them, samples are named. *)
Listed(run, pass) ==
    CASE run.kind = "observe" -> Files
      [] run.kind = "closeout" /\ pass = 2 -> Existing(closeouts)
      [] OTHER -> Existing(store[run.from])
Source(run, f) ==
    CASE run.kind = "observe" -> samples[f]
      [] run.kind = "closeout" /\ Len(run.seen) = 2 -> closeouts[f]
      [] OTHER -> store[run.from][f]
Tolerates(run) == run.kind = "observe" \/ (run.kind = "closeout" /\ Len(run.seen) = 1)
                  \/ (run.kind = "residual" /\ Len(run.seen) = 6)

Start(p) ==
    /\ proc[p] = None /\ runs < MaxRuns /\ runs' = runs + 1
    /\ \E kind \in Kinds, from \in Dirs, to \in Dirs \union {None} :
          /\ to = None \/ kind = "contract"
          /\ LET run == [kind |-> kind, from |-> from, to |-> to, left |-> <<>>, seen |-> <<<<>>>>,
                         file |-> None, out |-> None, opened |-> FALSE, disturbed |-> FALSE]
             IN  proc' = [proc EXCEPT ![p] = [run EXCEPT !.left = Listed(run, 1)]]
    /\ UNCHANGED <<store, closeouts, samples, last, edits>>
(* An object where a dictionary is expected raises out of the run, except where
   the read and the analysis stand in one try. *)
Read(p) ==
    /\ proc[p] # None /\ proc[p].left # <<>> /\ proc[p].out = None
    /\ LET run == proc[p]
           f == Head(run.left)
           c == Source(run, f)
           n == Len(run.seen)
           further == [run EXCEPT !.left = Tail(@), !.seen[n] = Append(@, c), !.file = None]
       IN  proc' = [proc EXCEPT ![p] =
              CASE c = NotObject /\ ~Tolerates(run) -> None
                [] c = NotObject /\ run.kind # "observe" -> [run EXCEPT !.left = Tail(@)]
                [] run.to # None /\ c # Torn -> [further EXCEPT !.file = f, !.out = Apply(c)]
                [] OTHER -> further]
    /\ UNCHANGED <<store, closeouts, samples, last, runs, edits>>
Disturbed(p) == [q \in Processes |->
    IF q = p \/ proc[q] = None THEN proc[q] ELSE [proc[q] EXCEPT !.disturbed = TRUE]]
OpenOutput(p) ==
    /\ proc[p] # None /\ proc[p].out # None /\ ~proc[p].opened
    /\ store' = [store EXCEPT ![proc[p].to][proc[p].file] = Torn]
    /\ proc' = [Disturbed(p) EXCEPT ![p].opened = TRUE]
    /\ UNCHANGED <<closeouts, samples, last, runs, edits>>
FillOutput(p) ==
    /\ proc[p] # None /\ proc[p].opened
    /\ store' = [store EXCEPT ![proc[p].to][proc[p].file] = proc[p].out]
    /\ proc' = [Disturbed(p) EXCEPT ![p].opened = FALSE, ![p].out = None, ![p].file = None]
    /\ UNCHANGED <<closeouts, samples, last, runs, edits>>
NextPass(p) ==
    /\ proc[p] # None /\ proc[p].left = <<>> /\ proc[p].out = None
    /\ Len(proc[p].seen) < Passes(proc[p].kind)
    /\ proc' = [proc EXCEPT ![p].seen = Append(@, <<>>),
                            ![p].left = Listed(proc[p], Len(proc[p].seen) + 1)]
    /\ UNCHANGED <<store, closeouts, samples, last, runs, edits>>
Finish(p) ==
    /\ proc[p] # None /\ proc[p].left = <<>> /\ proc[p].out = None
    /\ Len(proc[p].seen) = Passes(proc[p].kind)
    /\ last' = [kind |-> proc[p].kind, seen |-> proc[p].seen, disturbed |-> proc[p].disturbed,
                report |-> Report(proc[p].kind, proc[p].seen)]
    /\ proc' = [proc EXCEPT ![p] = None]
    /\ UNCHANGED <<store, closeouts, samples, runs, edits>>
Die(p) ==
    /\ proc[p] # None /\ proc' = [proc EXCEPT ![p] = None]
    /\ UNCHANGED <<store, closeouts, samples, last, runs, edits>>
Drop ==
    /\ edits < MaxEdits /\ edits' = edits + 1
    /\ \E d \in Dirs, f \in Range1(Files), c \in Candidates :
          store[d][f] # c /\ store' = [store EXCEPT ![d][f] = c]
    /\ proc' = [p \in Processes |->
                  IF proc[p] = None THEN None ELSE [proc[p] EXCEPT !.disturbed = TRUE]]
    /\ UNCHANGED <<closeouts, samples, last, runs>>
Next ==
    \/ \E p \in Processes :
          \/ Start(p) \/ Read(p) \/ OpenOutput(p) \/ FillOutput(p) \/ NextPass(p)
          \/ Finish(p) \/ Die(p)
    \/ Drop
Spec == Init /\ [][Next]_vars
-----------------------------------------------------------------------------
TypeOK ==
    /\ \A d \in Dirs, f \in Range1(Files) :
          \/ store[d][f] \in {None, Torn, NotObject}
          \/ store[d][f].label \in {None, "applied", "unknown_value"}
    /\ \A p \in Processes : proc[p] = None \/ Len(proc[p].seen) \in 1..Passes(proc[p].kind)
    /\ runs \in 0..MaxRuns /\ edits \in 0..MaxEdits
Objects == {store[d][f] : d \in Dirs, f \in Range1(Files)} \ {None, Torn, NotObject}
(* However often the contract is applied, in place or from directory to
   directory, overlapping or not, the decision its author wrote stays in the
   file: under its name, or as provenance and then under its name no more. *)
DecisionKept ==
    \A c \in Objects :
        \/ c.decision = c.written /\ c.held = None
        \/ c.held = c.written /\ c.decision = None /\ c.label # None
(* The contract never makes a batch look worse, none of its results collides, and
   it claims containment only of a batch that did. *)
Of(kind) == last # None /\ last.kind = kind
ContractDowngrades ==
    Of("contract") =>
        LET r == last.report
            n == Len(Readable(last.seen[1]))
        IN  /\ Level(r.after) <= Level(r.before)
            /\ r.after # "collision"
            /\ r.mitigated \intersect r.failed = {}
            /\ r.contained => /\ 2 * Cardinality(r.mitigated \union r.failed) >= n
                              /\ r.mitigated \union r.failed # {}
(* What the contract has gone over does not collide for the isolation probe. *)
TreatedIsolates ==
    (Of("isolation") /\ last.report.conclusion = "collision") =>
        \E c \in Range1(Readable(last.seen[1])) : c.label = None /\ HasDecision(c)
(* Unless files change under it, the residual probe calls a field independent
   exactly when it is the only one left in the batch; with every registered
   field masked nothing is ever left. *)
ResidualSound ==
    Of("residual") =>
        LET left == UNION {Reach(c) : c \in Range1(ApplyTo(last.seen[1]))}
            r == last.report
        IN  /\ r.scenarios[5] = "safe" /\ \A k \in 1..5 : r.scenarios[k] # "collision"
            /\ ~last.disturbed =>
                  /\ (r.finding = "second_order") = (left \in {{Readiness}, {Validity}})
                  /\ r.finding = "second_order" => Cardinality(r.shared) <= 1
(* A closeout probe that sees nothing has read no story; one that sees a
   collision has read one about a candidate with an exposed field. *)
CloseoutsSound ==
    Of("closeout") =>
        LET told == {c \in Range1(Readable(last.seen[2])) : c.narrative}
        IN  /\ (last.report.conclusion = "safe") = (told = {})
            /\ last.report.conclusion = "collision" =>
                  \E t \in told, c \in Range1(Readable(last.seen[1])) :
                      c.session = t.session /\ Exposed(c)
(* The finding over memory candidates holds of every file that could be read. *)
MemorySpotCheck ==
    Of("memory") =>
        /\ last.report.absent => \A c \in Range1(Readable(last.seen[1])) : c.decision = None
        /\ last.report.low = Len(last.seen[1]) => last.report.absent \/ last.seen[1] = <<>>
(* A batch is safe to observe only when every sample named could be read,
   declares that it is no agent's behaviour, and asks for no re-evaluation. *)
ObservedSafely ==
    (Of("observe") /\ last.report.conclusion = "safe") =>
        /\ last.report.review = {}
        /\ \A s \in Range1(last.seen[1]) :
              s \notin {None, Torn, NotObject} /\ ~s.agent /\ ~s.forbidden /\ ~s.advisories
EnumdSound ==
    /\ TypeOK /\ DecisionKept /\ ContractDowngrades /\ TreatedIsolates /\ ResidualSound
    /\ CloseoutsSound /\ MemorySpotCheck /\ ObservedSafely
=============================================================================
