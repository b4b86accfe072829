------------------------------ MODULE Escalation ------------------------------
(***************************************************************************)
(* The authority over escalations: one artifact per escalation, written by *)
(* one writer and read back with suspicion; the register and the log of    *)
(* escalations; and the gates that release and promotion pass through.     *)
(*                                                                         *)
(* A hash is modelled by what it covers: the artifact remembers the        *)
(* canonical part of the payload it was made from. Identifiers and dates   *)
(* that are only asked to be there are booleans.                           *)
(***************************************************************************)
EXTENDS Workspace, Naturals, Sequences, FiniteSets

CONSTANTS
    Escalations,    \* identifiers of escalations
    Copies,         \* names of further files somebody may leave in the directory
    Payloads,       \* what callers ask the writer to record
    Evidence,       \* what the aggregation of observations is given
    Closeouts,      \* what reviewers sign at the end of phase D
    MaxWrites,      \* bound on the calls of the writers
    MaxEdits        \* bound on the edits by hand

VARIABLES
    artifacts,   \* file name -> None, Torn or an artifact
    directory,   \* is the directory of the artifacts there?
    writing,     \* the artifact being written: None or [file, artifact]
    refused,     \* the escalations whose last write was refused
    register,    \* None, Torn or [trusted, active]
    log,         \* None or the writers of the log's lines
    policy,      \* the mode in the policy file; None, Torn
    closeout,    \* None, Torn or a closeout of phase D
    gate,        \* the gate built of the files as they are: None or a record
    writes, edits

authorityVars == <<artifacts, directory, writing, refused, register, log, policy, closeout,
                   gate, writes, edits>>
authorityFiles == <<artifacts, directory, writing, refused, register, log, policy, closeout>>

ArtifactFiles == Escalations \union Copies

Mitigations == {"pending_human_validation", "pending_independent_validation",
                "author_provisional", "validated", "waived_by_policy"}
OpenTracks == {"pending_validation", "pending_independent_validation", "governance_incomplete"}
Tracks == OpenTracks \union {"closure_eligible", "closed"}
Routes == {"assigned", "in_progress", "overdue", "completed", "not_applicable"}
Eras == {"CURRENT", "TRANSITION", "PRE-SKIP-TYPE-ERA"}
Resolved == {"resolved_provisional", "resolved_confirmed"}
LifecycleStates == Resolved \union {"created", "active", "superseded", "invalidated", "archived"}

(* The strongest state first; "created" has no rank. *)
Precedence == <<"invalidated", "active", "resolved_confirmed", "resolved_provisional",
                "superseded", "archived">>
RankOf(state) == CHOOSE n \in DOMAIN Precedence : Precedence[n] = state

(* What an artifact records of an escalation, and the artifact around it.   *)
Transitions == [from : STRING, actor : STRING, auto : BOOLEAN, confirmed : BOOLEAN]
Reasons == {"overdue", "coverage", "contamination", "active", "invalidated"}
Recorded ==
    [id : Escalations, mitigation : STRING, track : STRING, owned : BOOLEAN,
     route : Routes \union {"other"}, resolved : BOOLEAN, claim : BOOLEAN,
     era : STRING \union {None}, caveat : BOOLEAN, contamination : STRING, closed : BOOLEAN,
     state : LifecycleStates \union {None, "other"}, transition : Transitions \union {None},
     reasons : SUBSET Reasons, blocked : BOOLEAN]
Artifacts == [payload : Recorded, sealed : Recorded, valid : BOOLEAN, writer : BOOLEAN]

ASSUME EscalationAssumption ==
    /\ Payloads \subseteq Recorded
    /\ None \notin {Torn, {}} /\ None \notin Artifacts \union LifecycleStates /\ Torn \notin Artifacts
    /\ MaxWrites \in Nat /\ MaxEdits \in Nat

-----------------------------------------------------------------------------
AllowedTransitions ==
    {<<"created", "active">>, <<"active", "superseded">>, <<"active", "resolved_provisional">>,
     <<"resolved_provisional", "resolved_confirmed">>, <<"active", "invalidated">>}
      \union ({"superseded", "invalidated"} \union Resolved) \X {"archived"}

(* Mutant: the rule on confirmation looks at the flag alone. *)
TransitionManual(t, to) ==
    /\ <<t.from, to>> \in AllowedTransitions
    /\ to = "resolved_confirmed" => ~t.auto

TransitionAllowed(t, to) ==
    /\ <<t.from, to>> \in AllowedTransitions
    /\ to = "resolved_confirmed" => ~t.auto /\ t.actor \in {"reviewer_confirmed", "reviewer"}

(* What a payload is refused for, in the order of the code: the coverage   *)
(* rule and the transition guard only speak when nothing was wrong before. *)
FieldErrors(p) ==
    {e \in {"mitigation", "track", "route", "owner", "unrouted", "resolved_overdue"} :
        \/ e = "mitigation" /\ p.mitigation \notin Mitigations
        \/ e = "track" /\ p.track \notin Tracks
        \/ e = "route" /\ p.route \notin Routes
        \/ e = "owner" /\ p.mitigation = "author_provisional" /\ ~p.owned
        \/ e = "unrouted" /\ p.mitigation = "author_provisional" /\ p.route = "not_applicable"
        \/ e = "resolved_overdue" /\ p.resolved /\ p.route = "overdue"}

CoverageErrors(p) ==
    {e \in {"era", "caveat"} :
        /\ p.claim
        /\ \/ e = "era" /\ p.era \notin Eras
           \/ e = "caveat" /\ p.era # "CURRENT" /\ ~p.caveat}

StateErrors(p) ==
    {e \in {"closed", "state"} :
        \/ e = "closed" /\ p.closed /\ p.track \in OpenTracks
        \/ e = "state" /\ p.state \notin LifecycleStates \union {None}}

TransitionErrors(p, before) ==
    {e \in {"transition", "guard", "confirmation"} :
        /\ p.state \in Resolved
        /\ IF p.transition = None THEN e = "transition"
           ELSE \/ e = "guard" /\ before = {} /\ ~TransitionAllowed(p.transition, p.state)
                \/ /\ e = "confirmation" /\ p.state = "resolved_confirmed"
                   /\ ~p.transition.confirmed}

Errors(p) ==
    LET plain == FieldErrors(p) \union CoverageErrors(p) \union StateErrors(p)
    IN  plain \union TransitionErrors(p, plain)

(* Reasons to block a release that follow from the payload itself. *)
Blocking(p) ==
    {r \in Reasons :
        \/ r = "overdue" /\ p.route = "overdue"
        \/ /\ r = "coverage" /\ p.claim /\ p.era # "CURRENT"
           /\ FieldErrors(p) \union CoverageErrors(p) = {}
        \/ r = "contamination" /\ p.contamination = "unresolved"
        \/ r = "active" /\ p.state = "active"
        \/ r = "invalidated" /\ p.state = "invalidated"}

Normalized(p) ==
    [p EXCEPT !.reasons = @ \union Blocking(p), !.blocked = @ \/ Blocking(p) # {}]

(* escalation_closed is not among the fields that the hashes cover. *)
Canonical(p) == [Normalized(p) EXCEPT !.closed = FALSE]

Artifact(p) ==
    [payload |-> Normalized(p), sealed |-> Canonical(p), valid |-> Errors(p) = {},
     writer |-> TRUE]

-----------------------------------------------------------------------------
(* Reading back. The flag that blocks is the stored one; the hashes are    *)
(* compared with the payload normalized again.                             *)
(* Mutant: the hash is not compared. *)
TrustedUnsealed(a) ==
    a \notin {None, Torn} /\ Errors(a.payload) = {} /\ a.writer /\ a.valid

Trusted(a) ==
    /\ a \notin {None, Torn}
    /\ Errors(a.payload) = {}
    /\ a.writer /\ a.valid
    /\ a.sealed = Canonical(a.payload)

Blocks(a) == ~Trusted(a) \/ a.payload.blocked

Stored == {f \in ArtifactFiles : artifacts[f] # None}
Readable == {f \in Stored : artifacts[f] # Torn}

(* The state of an escalation: the strongest in any file that names it. *)
Effective(e) ==
    LET ranks == {n \in DOMAIN Precedence :
                     \E f \in Readable : /\ artifacts[f].payload.id = e
                                         /\ artifacts[f].payload.state = Precedence[n]}
    IN  IF ranks = {} THEN None ELSE Precedence[CHOOSE n \in ranks : \A k \in ranks : n <= k]

RegisterBad == register # None /\ (register = Torn \/ ~register.trusted)
ActiveIds == IF register \in {None, Torn} THEN {} ELSE register.active

(* Mutant: only the register is asked. *)
ExpectedByRegister == register # None /\ ~RegisterBad /\ ActiveIds # {}

(* Without the directory the log and the register say whether artifacts    *)
(* are missing; with it the log is not asked.                              *)
Expected ==
    \/ log \notin {None, {}}
    \/ register # None /\ ~RegisterBad /\ ActiveIds # {}

AssessAbsent(required) ==
    LET reasons == IF required /\ register = None THEN {"register missing"}
                   ELSE IF Expected THEN {"artifacts missing"}
                   ELSE IF RegisterBad THEN {"register"} ELSE {}
    IN  [ok |-> reasons = {}, blocked |-> reasons # {}, reasons |-> reasons]

Conflicts == {e \in ActiveIds : Effective(e) = "resolved_confirmed"}
Standing(state) == {e \in Escalations : Effective(e) = state}

AssessPresent(required) ==
    LET missing == required /\ register = None
        violated == Standing("invalidated") \union Standing("active") \union Conflicts # {}
        reasons == {r \in {"artifact", "precedence", "register missing", "register"} :
                       \/ /\ r = "artifact"
                          /\ \E f \in Stored :
                                ~Trusted(artifacts[f]) \/ artifacts[f].payload.reasons # {}
                       \/ r = "precedence" /\ violated
                       \/ r = "register missing" /\ missing
                       \/ r = "register" /\ RegisterBad}
    IN  [ok |-> (\A f \in Stored : Trusted(artifacts[f])) /\ reasons \subseteq {"artifact"},
         blocked |-> \/ reasons \ {"artifact"} # {}
                     \/ \E f \in Stored : Blocks(artifacts[f]),
         reasons |-> reasons]

Assess(required) == IF directory THEN AssessPresent(required) ELSE AssessAbsent(required)

(* A policy that cannot be read, or names no known mode, is the lax one. *)
Strict(override) ==
    IF override # None THEN override = "strict" ELSE policy = "strict_register_required"

-----------------------------------------------------------------------------
(* What the observations of a misuse add up to. *)
ApproverRoles == {"human_reviewer", "risk_owner"}

Malformed(o) ==
    \/ o.approval = None /\ o.flagged
    \/ o.approval # None /\ o.approval.approved
         /\ (~o.historical \/ ~o.approval.complete \/ o.approval.role \notin ApproverRoles)
    \/ "other" \in o.statuses

Approved(o) == o.approval # None /\ o.approval.approved
(* WindowSpec: the caller says how wide the window has to be. *)
Adequate(o) == o.runs >= o.minRuns /\ o.sessions >= o.minSessions
Untested(o) == o.statuses \subseteq {"not_tested"}

CurrentState(o) ==
    IF "observed" \in o.statuses THEN "risk_observed"
    ELSE IF Untested(o) \/ ~o.historical THEN "insufficient_observation"
    ELSE IF ~o.remediated THEN "risk_persists"
    ELSE IF ~Adequate(o) \/ ~o.covers THEN "insufficient_closure_evidence"
    ELSE IF Approved(o) THEN "closure_verified" ELSE "risk_not_reobserved_yet"

(* Mutant: the verdict is asked, the block is not. *)
GateOpenIfOk(state, authority) == state = "closure_verified" /\ authority.ok

GateOpen(state, authority) ==
    state = "closure_verified" /\ authority.ok /\ ~authority.blocked

Gate(o, required) ==
    LET state == CurrentState(o)
        authority == Assess(required)
    IN  [evidence |-> o, state |-> state, required |-> required,
         promote |-> GateOpen(state, authority),
         reasons |-> (IF state = "closure_verified" THEN {} ELSE {"aggregation"})
                       \union (IF authority.ok /\ ~authority.blocked THEN {}
                               ELSE authority.reasons)]

(* Phase 3 asks the gate it is given, never the files again. *)
Entered(g) == g.state = "closure_verified" /\ g.promote

Decide ==
    /\ gate = None
    /\ \E o \in {x \in Evidence : ~Malformed(x)}, override \in {None, "strict", "compatibility"} :
          gate' = Gate(o, Strict(override))
    /\ UNCHANGED <<authorityFiles, writes, edits>>

-----------------------------------------------------------------------------
EscalationInit ==
    /\ artifacts = [f \in ArtifactFiles |-> None]
    /\ directory = FALSE
    /\ writing = None
    /\ refused = {}
    /\ register = None /\ log = None /\ policy = None /\ closeout = None
    /\ gate = None
    /\ writes = 0 /\ edits = 0

Written == writes < MaxWrites /\ writes' = writes + 1 /\ UNCHANGED edits
Edited == edits < MaxEdits /\ edits' = edits + 1 /\ UNCHANGED writes
Stale == gate' = None

(* The writer never looks at the state its escalation is in, only whether  *)
(* the artifact there can be trusted; an invalid payload is written too.   *)
(* The file is truncated before it is filled.                              *)
WriteArtifact ==
    /\ writing = None
    /\ \E p \in Payloads :
          IF artifacts[p.id] # None /\ ~Trusted(artifacts[p.id])
          THEN /\ refused' = refused \union {p.id}
               /\ UNCHANGED <<artifacts, directory, writing>>
          ELSE /\ refused' = refused \ {p.id}
               /\ directory' = TRUE
               /\ artifacts' = [artifacts EXCEPT ![p.id] = Torn]
               /\ writing' = [file |-> p.id, artifact |-> Artifact(p)]
    /\ Written /\ Stale
    /\ UNCHANGED <<register, log, policy, closeout>>

FillArtifact ==
    /\ writing # None
    /\ artifacts' = [artifacts EXCEPT ![writing.file] = writing.artifact]
    /\ writing' = None
    /\ Stale
    /\ UNCHANGED <<directory, refused, register, log, policy, closeout, writes, edits>>

(* The process dies between the two. *)
DieWriting ==
    /\ writing # None
    /\ writing' = None
    /\ Stale
    /\ UNCHANGED <<artifacts, directory, refused, register, log, policy, closeout, writes, edits>>

WriteRegister ==
    /\ writing = None
    /\ \E active \in SUBSET Escalations : register' = [trusted |-> TRUE, active |-> active]
    /\ Written /\ Stale
    /\ UNCHANGED <<artifacts, directory, writing, refused, log, policy, closeout>>

AppendLog ==
    /\ writing = None
    /\ log' = (IF log = None THEN {} ELSE log) \union {"canonical"}
    /\ Written /\ Stale
    /\ UNCHANGED <<artifacts, directory, writing, refused, register, policy, closeout>>

(* The writer asks for a name and for some condition, not for all of them. *)
WriteCloseout ==
    /\ writing = None
    /\ \E c \in Closeouts : /\ c.reviewer /\ c.conditions # {}
                            /\ closeout' = [c EXCEPT !.writer = TRUE]
    /\ Written /\ Stale
    /\ UNCHANGED <<artifacts, directory, writing, refused, register, log, policy>>

-----------------------------------------------------------------------------
(* Edits by hand: a field of an artifact, a copy left beside it, a file    *)
(* that is removed.                                                        *)
Changed(p) ==
    {[p EXCEPT !.blocked = FALSE], [p EXCEPT !.reasons = {}],
     [p EXCEPT !.route = "completed"], [p EXCEPT !.state = "resolved_confirmed"],
     [p EXCEPT !.state = "archived"], [p EXCEPT !.closed = TRUE]}

EditArtifact ==
    /\ writing = None
    /\ \E f \in Readable :
          \/ \E p \in Changed(artifacts[f].payload) :
                artifacts' = [artifacts EXCEPT ![f].payload = p]
          \/ \E c \in Copies : artifacts' = [artifacts EXCEPT ![c] = artifacts[f]]
          \/ artifacts' = [artifacts EXCEPT ![f] = None]
    /\ Edited /\ Stale
    /\ UNCHANGED <<directory, writing, refused, register, log, policy, closeout>>

EditOthers ==
    /\ writing = None
    /\ \/ /\ register' \in {None, Torn, [trusted |-> FALSE, active |-> Escalations]}
          /\ UNCHANGED <<policy, closeout>>
       \/ /\ policy' \in {"compatibility", "strict_register_required", "other", Torn}
          /\ UNCHANGED <<register, closeout>>
       \/ closeout' \in {None, Torn} \union Closeouts /\ UNCHANGED <<register, policy>>
    /\ Edited /\ Stale
    /\ UNCHANGED <<artifacts, directory, writing, refused, log>>

EscalationNext ==
    \/ WriteArtifact \/ FillArtifact \/ DieWriting \/ WriteRegister \/ AppendLog \/ WriteCloseout
    \/ EditArtifact \/ EditOthers \/ Decide

EscalationSpec == EscalationInit /\ [][EscalationNext]_authorityVars

-----------------------------------------------------------------------------
(* Phase D: what the reviewer signed, and whether plan and state agree.    *)
RequiredConditions ==
    {"reviewer_independent_of_author", "phase_c_surface_gap_resolved",
     "validator_output_reviewed", "fail_closed_semantics_accepted",
     "no_unresolved_blocking_conditions"}

(* Mutant: the reviewer's list is taken for complete. *)
CloseoutReasonsAnyCondition ==
    IF closeout = None THEN {"absent"} ELSE IF closeout = Torn THEN {"unreadable"}
    ELSE {r \in {"writer", "empty"} :
             \/ r = "writer" /\ ~closeout.writer
             \/ r = "empty" /\ closeout.conditions = {}}

CloseoutReasons ==
    IF closeout = None THEN {"absent"} ELSE IF closeout = Torn THEN {"unreadable"}
    ELSE {r \in {"writer", "reviewer", "empty", "confirmed_at", "verdict"} :
             \/ r = "writer" /\ ~closeout.writer
             \/ r = "reviewer" /\ ~closeout.reviewer
             \/ r = "empty" /\ closeout.conditions = {}
             \/ r = "confirmed_at" /\ ~closeout.dated
             \/ r = "verdict" /\ ~closeout.completed}
         \union (IF closeout.conditions = {} THEN {}
                 ELSE RequiredConditions \ closeout.conditions)

CloseoutOk == CloseoutReasons = {}

PhaseStatuses == {"passed", "pending", "in_progress", "resumable", "other"}

(* The status of phase D in plan and state against the gap of phase C,     *)
(* which is resolved when the sources carry the markers of the precedence. *)
PhaseDViolations(statuses, resolved) ==
    {v \in {"gap", "closeout", "blocked", "resumable"} :
        \E s \in statuses :
            \/ v = "gap" /\ s = "passed" /\ ~resolved
            \/ v = "closeout" /\ s = "passed" /\ ~CloseoutOk
            \/ v = "blocked" /\ s \in {"pending", "in_progress"} /\ resolved
            \/ v = "resumable" /\ s = "resumable" /\ ~resolved}

Recommended(resolved) ==
    IF resolved THEN IF CloseoutOk THEN "completed" ELSE "resumable" ELSE "pending"

-----------------------------------------------------------------------------
EscalationTypeOK ==
    /\ artifacts \in [ArtifactFiles -> Artifacts \union {None, Torn}]
    /\ directory \in BOOLEAN /\ refused \subseteq Escalations
    /\ writing = None \/ (writing.file \in Escalations /\ writing.artifact \in Artifacts)
    /\ writes \in 0..MaxWrites /\ edits \in 0..MaxEdits

(* What the writer takes for valid is trusted when it is read, and what it *)
(* takes for invalid never is: normalizing twice changes nothing.          *)
WriterAgreesWithReader ==
    writing # None =>
        /\ Trusted(writing.artifact) <=> writing.artifact.valid
        /\ Normalized(writing.artifact.payload) = writing.artifact.payload

(* A trusted artifact that says "confirmed" names a reviewer who did it,   *)
(* by hand, from a provisional resolution - whoever has edited the file.   *)
ConfirmedByReviewer ==
    \A f \in Readable :
        LET p == artifacts[f].payload
        IN  Trusted(artifacts[f]) /\ p.state = "resolved_confirmed" =>
                /\ p.transition.from = "resolved_provisional" /\ ~p.transition.auto
                /\ p.transition.actor \in {"reviewer", "reviewer_confirmed"}
                /\ p.transition.confirmed

(* Who opens the gate has read every artifact there as it was written, and *)
(* none of them stands against a release: not its state, in whichever      *)
(* file, nor a route overdue or an open contamination, unless its stored   *)
(* flag was edited away, which the hashes do not notice. Without artifacts *)
(* nobody was escalated. The states that stand against a release are the   *)
(* two of the precedence; of the others see OnlyConfirmedUnblocks.         *)
OpenedForGoodReason ==
    gate # None /\ gate.promote =>
        /\ writing = None
        /\ \A f \in Stored :
              LET a == artifacts[f]
              IN  /\ a # Torn /\ a.writer /\ a.valid
                  /\ a.payload.state \notin {"active", "invalidated"}
                  /\ [a.sealed EXCEPT !.closed = a.payload.closed, !.blocked = a.payload.blocked,
                                      !.reasons = a.payload.reasons] = a.payload
                  /\ Blocking(a.payload) # {} =>
                        ~a.payload.blocked /\ a.payload # a.sealed
                  /\ a.payload.state = "resolved_confirmed" => a.payload.id \notin ActiveIds
        /\ ~directory => log = None /\ ActiveIds = {}
        /\ register = None \/ (register # Torn /\ register.trusted)
        /\ gate.required => register # None

(* Phase 3 is entered on evidence: a misuse seen before, remediated, the   *)
(* path covered, looked for in a window as wide as the caller asked for    *)
(* without being seen, and closed by somebody with the role for it.        *)
EnteredOnEvidence ==
    gate # None /\ Entered(gate) =>
        /\ gate.reasons = {}
        /\ LET o == gate.evidence
           IN  /\ o.historical /\ o.remediated /\ o.covers
               /\ "observed" \notin o.statuses /\ ~(o.statuses \subseteq {"not_tested"})
               /\ o.runs >= o.minRuns /\ o.sessions >= o.minSessions
               /\ o.approval.role \in {"human_reviewer", "risk_owner"}

(* A gate that stays shut says why, unless the reasons were edited away    *)
(* and left the flag.                                                      *)
ShutWithReason ==
    gate # None /\ ~gate.promote /\ gate.reasons = {} =>
        \E f \in Readable : artifacts[f].payload.blocked /\ artifacts[f].payload.reasons = {}

(* An artifact the writer refused to replace keeps the gate shut until     *)
(* somebody touches it by hand.                                            *)
RefusedStaysShut ==
    gate # None /\ gate.promote =>
        \A e \in refused : Trusted(artifacts[e]) \/ edits > 0

(* Of what plan or state calls phase D, a violation is reported, or nothing *)
(* is amiss: what is called passed was signed by a reviewer for every       *)
(* condition and nothing recommends less, and while the gap is open it is   *)
(* called no more than in progress.                                         *)
PhaseDClosed ==
    \A resolved \in BOOLEAN, status \in PhaseStatuses :
        \/ PhaseDViolations({status}, resolved) # {}
        \/ /\ status = "passed" =>
                  /\ closeout \notin {None, Torn} /\ closeout.writer
                  /\ RequiredConditions \subseteq closeout.conditions
                  /\ Recommended(resolved) = "completed"
           /\ Recommended(resolved) = "pending" =>
                  status \in {"pending", "in_progress", "other"}

(* What lifecycle_transition_writer.py says it defines (:8, :39-40): the    *)
(* "release-unblock boundary (only resolved_confirmed may unblock)". What   *)
(* carries no state, or was archived, is let pass here; but the precedence  *)
(* the gate reads by stops at "active" and "invalidated" alone, and nobody  *)
(* asks state_can_unblock_release: the gate opens over an escalation that   *)
(* is only created, or resolved provisionally.                              *)
OnlyConfirmedUnblocks ==
    gate # None /\ gate.promote =>
        \A f \in Stored : artifacts[f].payload.state \in {None, "resolved_confirmed", "archived"}

EscalationSound ==
    /\ EscalationTypeOK /\ WriterAgreesWithReader /\ ConfirmedByReviewer
    /\ OpenedForGoodReason /\ EnteredOnEvidence /\ ShutWithReason
    /\ RefusedStaysShut /\ PhaseDClosed
=============================================================================
