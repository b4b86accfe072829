----------------------------- MODULE MCTooling -----------------------------
EXTENDS HookAdapters, Adoption, RiskSignal, TaskChecks, Publications
CONSTANTS p1, p2
VARIABLE who

vars == <<who, adapterVars, adoptionVars, signalVars, taskVars, publicationVars>>
-----------------------------------------------------------------------------
Contract(docs, scalar) ==
    [fields |-> RequiredFields, documents |-> [scalar |-> scalar, items |-> docs],
     override |-> {}, placeholders |-> FALSE, copied |-> FALSE]
MCContracts == {Contract({"own.md"}, FALSE), Contract({"AGENTS.base.md"}, TRUE)}
PlanOf(sections, policy) == [sections |-> sections, policy |-> policy, age |-> 0, dated |-> TRUE]
MCTerms == RequiredFields \union Documents \union {"own.md", "owner", "goals", "notes"}
MCPlans == {PlanOf({"goals"}, 7), PlanOf({"notes"}, None)}
MCMandates ==
    {[sections |-> {"goals"}, threshold |-> None, fields |-> RequiredFields \union {"owner"}]}
-----------------------------------------------------------------------------
In(words, explicit, risk, force) ==
    [words |-> words, explicit |-> explicit, risk |-> risk, force |-> force]
MCInputs ==
    {In({"cosmetic"}, None, "low", FALSE), In({"cosmetic", "domain"}, None, "low", FALSE),
     In({"cosmetic", "kdc"}, None, "medium", FALSE), In({"cosmetic"}, None, "high", TRUE),
     In({"veto"}, "L0", "low", FALSE), In({"schema"}, "L0", "low", FALSE),
     In({"L2", "cosmetic"}, None, "low", FALSE)}
Doc(name, audience, load, headed) ==
    [name |-> name, audience |-> audience, load |-> load, headed |-> headed]
MCFiles ==
    {Doc("SYSTEM_PROMPT.md", "agent-runtime", "always", TRUE),
     Doc("ARCHITECTURE.md", "agent-on-demand", "on-demand", TRUE),
     Doc("REVIEW_CRITERIA.md", "agent-runtime", "always", TRUE),
     Doc("HUMAN-OVERSIGHT.md", "human-only", "on-demand", TRUE),
     Doc("AUTHORITY.md", "human-only", "always", TRUE),
     Doc("NOTES.md", "agent-runtime", "always", FALSE)}
MCResults == {[smoke |-> s, pytest |-> "pass"] : s \in {"pass", "fail"}}
-----------------------------------------------------------------------------
NoApplies == [t \in {"missing_sample", "missing_spec", "missing_fixture"} |-> {}]
Validator(name, loads, rules) == [name |-> name, loads |-> loads, rules |-> rules]
Plain ==
    [packs |-> {"typescript", "kmdf"}, applies |-> [NoApplies EXCEPT !["missing_spec"] = {"protocol"}],
     summary |-> TRUE, validators |-> {}, hardStop |-> {}]
Strict ==
    [packs |-> {}, applies |-> [NoApplies EXCEPT !["missing_sample"] = {"parser"}], summary |-> FALSE,
     validators |-> {Validator("isr", TRUE, {"kernel-driver", "isr"}), Validator("api", TRUE, {"refactor"})},
     hardStop |-> {"isr"}]
Broken == [Strict EXCEPT !.validators = {Validator("gone", FALSE, {})}]
Place(env, found) == [env |-> env, found |-> found]
MCPlaces ==
    {Place(None, found) : found \in {{}, {Plain}, {Plain, Strict}, {Broken}, {Torn}}}
      \union {Place(Missing, {Strict}), Place(Broken, {Plain})}
Ask ==
    [rules |-> <<"common">>, topic |-> None, about |-> {}, work |-> {}, shown |-> {},
     level |-> "L1", risk |-> "low", oversight |-> "auto", skip |-> FALSE, full |-> FALSE,
     explicit |-> None]
MCRequests ==
    {[Ask EXCEPT !.rules = r, !.topic = t, !.about = a] :
        t \in {None, "general"}, a \in {{}, {"api_schema", "firmware"}},
        r \in {<<"common">>, <<"refactor", "kmdf", "typescript">>, <<"typescript">>,
               <<"avalonia", "kernel-driver">>, <<"unknown">>}}
      \union {[Ask EXCEPT !.work = {"parser", "protocol"}, !.shown = s, !.level = l, !.skip = k, !.full = f] :
                  s \in {{}, {"missing_spec"}}, l \in {"L0", "L1", "L2", "L9"}, k, f \in BOOLEAN}
      \union {[Ask EXCEPT !.risk = "high", !.oversight = o, !.explicit = e] :
                  o \in {"auto", "review-required"}, e \in {None, Missing, Plain}}
Block(rules) == [bad |-> {}, rules |-> rules, mode |-> "candidate"]
Reply ==
    [block |-> Block(<<"common">>), risk |-> "low", oversight |-> "auto", mode |-> None,
     checks |-> None, files |-> None, explicit |-> None, beside |-> {}, violated |-> {},
     snapshot |-> FALSE, root |-> TRUE]
Shown ==
    [tests |-> {"failure", "regression", "ioctl"}, verified |-> {"cleanup", "interface", "irql"},
     diagnostics |-> {"sdv"}, covered |-> {}, errors |-> FALSE, failed |-> 0, diff |-> None,
     inventory |-> {"e1", "e2"}, behaviour |-> {"e1", "e2"}, kinds |-> {}, required |-> {},
     conflicts |-> {}]
Compared(ok, errors) == [ok |-> ok, errors |-> errors]
Kinds == {"sdv-text", "public-api-diff", "domain-validator-result"}
MCChecks ==
    {None, Shown, [Shown EXCEPT !.behaviour = {"e1"}], [Shown EXCEPT !.verified = {"interface", "irql"}],
     [Shown EXCEPT !.tests = {"regression", "ioctl"}], [Shown EXCEPT !.inventory = {}, !.behaviour = Torn],
     [Shown EXCEPT !.inventory = Torn], [Shown EXCEPT !.diff = Torn, !.required = {"public-api-diff"}],
     [Shown EXCEPT !.diff = Compared(FALSE, FALSE)], [Shown EXCEPT !.diff = Compared(FALSE, TRUE)],
     [Shown EXCEPT !.required = Kinds], [Shown EXCEPT !.kinds = Kinds, !.required = Kinds],
     [Shown EXCEPT !.failed = 1], [Shown EXCEPT !.conflicts = {"c"}], [Shown EXCEPT !.errors = TRUE]}
Judged ==
    {[Reply EXCEPT !.block = Block(r), !.checks = c, !.files = f, !.violated = v] :
        r \in {<<"common">>, <<"refactor">>, <<"kernel-driver">>}, c \in MCChecks,
        f \in {None, Compared(TRUE, FALSE), Compared(FALSE, TRUE)}, v \in {{}, {"isr", "api"}}}
Formal ==
    {[Reply EXCEPT !.block = b, !.mode = m, !.oversight = o, !.snapshot = (m = "durable")] :
        b \in {None, Block(<<>>), Block(<<"kmdf">>), [Block(<<"common">>) EXCEPT !.bad = {"LANG"}],
               [Block(<<"common">>) EXCEPT !.mode = "durable"]},
        m \in {None, "durable", "stateless"}, o \in {"auto", "human-approval"}}
Risky ==
    {[Reply EXCEPT !.risk = "high", !.oversight = o, !.snapshot = (o = "auto" \/ ~r), !.root = r, !.explicit = e] :
        o \in {"auto", "review-required"}, r \in BOOLEAN, e \in {None, Missing, Strict}}
MCAnswers ==
    Judged \union Formal \union Risky
      \union {[Reply EXCEPT !.block = Block(<<"refactor">>), !.checks = c, !.snapshot = TRUE] :
                  c \in {Shown, [Shown EXCEPT !.inventory = {"e1", "e3"}]}}
      \union {[Reply EXCEPT !.block = Block(<<"kernel-driver">>), !.checks = Shown,
                            !.violated = {"isr"}, !.beside = {b}] : b \in {Plain, Strict}}
-----------------------------------------------------------------------------
NoOverride == [allow |-> FALSE, code |-> None, note |-> FALSE, fails |-> TRUE]
Publish(kind, at, version) ==
    [kind |-> kind, place |-> at, version |-> version, policy |-> FALSE, checks |-> TRUE,
     authority |-> TRUE, promotion |-> TRUE, lint |-> "clean", override |-> NoOverride]
WithPolicy(request) == [request EXCEPT !.policy = TRUE]
Linted(lint, override) ==
    [Publish("handoff", "artifacts", "v1") EXCEPT !.lint = lint, !.override = override]
MCPublications ==
    {Publish("trust", "docs", "v1"), WithPolicy(Publish("trust", "docs", "v1")),
     Publish("trust", "artifacts", "v1"),
     Publish("release", "docs", "v1"), Publish("release", "docs", "v2"), Publish("release", "artifacts", "v1"),
     Publish("handoff", "docs", "v1"), Publish("handoff", "artifacts", "v2"),
     Linted("overridable", [NoOverride EXCEPT !.allow = TRUE, !.code = "other_requires_note", !.note = TRUE]),
     Linted("forbidden", [NoOverride EXCEPT !.allow = TRUE, !.code = "manual_audit_required"])}
Still == \A p \in {p1, p2} : publishing[p] = None
Of(kind, at, r) == r.kind = kind /\ r.place = at
Working == {publishing[p].id : p \in {q \in {p1, p2} : publishing[q] # None}}
(* Two runs of one kind and place, or one after a published release; they   *)
(* overlap for releases and for trust signals only.  A third run hands off  *)
(* two published releases, in the artifacts if they overlapped.  One run    *)
(* dies, and not in an overlap.  The second process is needed, and starts,  *)
(* only while the first is busy.  Documents change between two runs that    *)
(* came to their end.                                                       *)
PublicationLimits ==
    /\ (publishing[p2] = None /\ publishing'[p2] # None) => publishing[p1] # None
    /\ second' = second \/ (Still /\ Len(shots) = 1)
    /\ rewrites' = rewrites \/ (Still /\ finished = {1} /\ Len(shots) = 1)
    /\ (\E p \in {p1, p2} : publishing[p] # None /\ publishing'[p] = None) =>
          finished' # finished \/ (~crossed /\ finished \union Working = DOMAIN shots)
    /\ shots' = shots \/ LET r == [i \in DOMAIN shots' |-> shots'[i].request] IN
          /\ Len(r) = 2 => \/ Of(r[1].kind, r[1].place, r[2])
                           \/ Of("release", "docs", r[1]) /\ ~crossed'
          /\ crossed' => \/ Of("trust", "artifacts", r[1])
                         \/ Of("release", "docs", r[1]) /\ r[1].version = "v1" /\ second = 1
          /\ Len(r) = 3 => /\ Still /\ finished = {1, 2} /\ r[3].kind = "handoff"
                           /\ crossed => r[3].place = "artifacts"
                           /\ \A i \in 1..2 : Of("release", "docs", r[i])
-----------------------------------------------------------------------------
(* The fifth run follows four records of the feedback, one more than its    *)
(* trend needs, or all three producers have an alarm or are about to.       *)
SignalLimits ==
    signalRuns' = 5 =>
        Len(feedback') >= 4 \/ \A p \in Producers : job'[p] # None \/ alarms'[p] # None

-----------------------------------------------------------------------------
(* One component moves in each behaviour; the others stay as one of their  *)
(* initial states has them.                                                *)
Init ==
    /\ who \in {"hooks", "adoption", "signal", "task", "publications"}
    /\ AdaptersInit /\ AdoptionInit /\ SignalInit /\ TaskInit /\ PublicationsInit
    /\ who # "adoption" => base = None /\ contract = None /\ \A p \in DOMAIN plans : plans[p] = None
    /\ who # "task" => reachable.found = {}
    /\ who # "publications" => releaseDocs["changelog"] = {}
Next ==
    /\ UNCHANGED who
    /\ \/ who = "hooks" /\ AdaptersNext /\ UNCHANGED <<adoptionVars, signalVars, taskVars, publicationVars>>
       \/ who = "adoption" /\ AdoptionNext /\ UNCHANGED <<adapterVars, signalVars, taskVars, publicationVars>>
       \/ /\ who = "signal" /\ SignalNext /\ SignalLimits
          /\ UNCHANGED <<adapterVars, adoptionVars, taskVars, publicationVars>>
       \/ who = "task" /\ TaskNext /\ UNCHANGED <<adapterVars, adoptionVars, signalVars, publicationVars>>
       \/ /\ who = "publications" /\ PublicationsNext /\ PublicationLimits
          /\ UNCHANGED <<adapterVars, adoptionVars, signalVars, taskVars>>
Spec == Init /\ [][Next]_vars
=============================================================================
