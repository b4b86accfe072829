---------------------------- MODULE SessionProofs ----------------------------
(***************************************************************************)
(* Proofs about the end of a session.  First TestGate, for any reports,    *)
(* policy files and reviews and any number of them: what the gate lets     *)
(* through it may let through, and the log of unclassified failures loses  *)
(* nothing without a reason.  Then SessionEnd, for any number of hooks and *)
(* sessions, any closeouts, artifacts and policies, and a log of any limit.*)
(***************************************************************************)
EXTENDS TestGate, SessionEnd, SequenceTheorems, FiniteSetTheorems,
        WellFoundedInduction, TLAPS

-----------------------------------------------------------------------------
(* The kinds of failures. *)

(* The first of some rules is one of them. *)
LEMMA FirstRule ==
    ASSUME NEW S, S \subseteq Nat, S # {}
    PROVE  Min(S) \in S
<1>1. PICK x \in S : \A y \in S : ~(<<y, x>> \in OpToRel(<, Nat))
  BY WFMin, NatLessThanWellFounded
<1>2. \A y \in S : y < x => <<y, x>> \in OpToRel(<, Nat)
  BY DEF OpToRel
<1>3. \A y \in S : ~(y < x)
  BY <1>1, <1>2
<1>4. \A y \in S : x <= y
  BY <1>3
<1> QED
  BY <1>4 DEF Min

LEMMA KindOf ==
    ASSUME NEW t \in DOMAIN Matches
    PROVE  /\ Kind(t) = "unknown" <=> Matches[t] = {}
           /\ ActionOf[Kind(t)] \in Actions
<1>1. DOMAIN Rules = 1 .. 6
  BY DEF Rules
<1>2. Matches[t] \subseteq 1 .. 6
  BY <1>1, TestGateAssumption
<1>3. ASSUME Matches[t] # {}
      PROVE  Kind(t) \in {"external_exclusion", "stale_assertion", "platform_mock",
                          "integration_drift"}
  <2>1. Min(Matches[t]) \in 1 .. 6
    BY <1>2, <1>3, FirstRule
  <2>2. \A n \in 1 .. 6 : Rules[n] \in {"external_exclusion", "stale_assertion",
                                        "platform_mock", "integration_drift"}
    BY DEF Rules
  <2> QED
    BY <1>3, <2>1, <2>2 DEF Kind
<1>4. Matches[t] = {} => Kind(t) = "unknown"
  BY DEF Kind
<1>5. DOMAIN ActionOf = {"external_exclusion", "stale_assertion", "platform_mock",
                         "integration_drift", "unknown"}
  BY DEF ActionOf
<1>6. Kind(t) \in DOMAIN ActionOf
  BY <1>3, <1>4, <1>5
<1> QED
  BY <1>3, <1>4, <1>6 DEF Actions

(* The tests a report says failed are finitely many. *)
LEMMA FailingTests ==
    ASSUME NEW r \in Reports
    PROVE  /\ IsFiniteSet(Failing(r)) /\ Failing(r) \subseteq DOMAIN Matches
<1>1. r.lines \in Seq([test : DOMAIN Matches, tagged : BOOLEAN])
  BY TestGateAssumption
<1>2. Len(r.lines) \in Nat /\ DOMAIN r.lines = 1 .. Len(r.lines)
      /\ \A n \in DOMAIN r.lines : r.lines[n] \in [test : DOMAIN Matches, tagged : BOOLEAN]
  <2> DEFINE LineRecord == [test : DOMAIN Matches, tagged : BOOLEAN]
  <2>1. r.lines \in Seq(LineRecord)
    BY <1>1
  <2> HIDE DEF LineRecord
  <2>2. Len(r.lines) \in Nat /\ DOMAIN r.lines = 1 .. Len(r.lines)
        /\ \A n \in DOMAIN r.lines : r.lines[n] \in LineRecord
    BY <2>1
  <2> QED
    BY <2>2 DEF LineRecord
<1> DEFINE D == 1 .. Len(r.lines)
           f == [n \in D |-> r.lines[n].test]
           T == {r.lines[n].test : n \in D}
<1>3. IsFiniteSet(D)
  BY <1>2, FS_Interval
<1>4. f \in Surjection(D, T)
  BY DEF Surjection
<1>5. IsFiniteSet(T)
  BY <1>3, <1>4, FS_Surjection
<1>6. Failing(r) \subseteq T
  BY <1>2 DEF Failing, Range
<1>7. T \subseteq DOMAIN Matches
  BY <1>2
<1> QED
  BY <1>5, <1>6, <1>7, FS_Subset

(* What a batch counts. *)
LEMMA BatchCounts ==
    ASSUME NEW r \in Reports, Failing(r) # {}
    PROVE  /\ Disposition(r) = Batch(Failing(r)) /\ Disposition(r) # None
           /\ \A a \in Actions : Disposition(r).actions[a] \in Nat
           /\ \A t \in Failing(r) : Disposition(r).actions[ActionOf[Kind(t)]] > 0
           /\ Disposition(r).unknown = Cardinality({t \in Failing(r) : Matches[t] = {}})
           /\ Disposition(r).unknown \in Nat
           /\ Disposition(r).signal = (Disposition(r).unknown >= EscalationThreshold)
<1> DEFINE F == Failing(r)
           U == {t \in F : Kind(t) = "unknown"}
           A(a) == {t \in F : ActionOf[Kind(t)] = a}
           u == Cardinality(U)
           act == [a \in Actions |-> Cardinality(A(a))]
           s == u >= EscalationThreshold
<1>1. IsFiniteSet(F) /\ F \subseteq DOMAIN Matches
  BY FailingTests
<1>2. U = {t \in F : Matches[t] = {}}
  BY <1>1, KindOf
<1>3. u \in Nat
  <2>1. U \subseteq F
    OBVIOUS
  <2> QED
    BY <1>1, <2>1, FS_Subset, FS_CardinalityType
<1>4. ASSUME NEW a \in Actions
      PROVE  act[a] \in Nat /\ act[a] = Cardinality(A(a)) /\ IsFiniteSet(A(a))
  <2>1. A(a) \subseteq F
    OBVIOUS
  <2>2. IsFiniteSet(A(a))
    BY <1>1, <2>1, FS_Subset
  <2> QED
    BY <2>2, FS_CardinalityType
<1>5. ASSUME NEW t \in F
      PROVE  act[ActionOf[Kind(t)]] > 0
  <2> DEFINE a == ActionOf[Kind(t)]
  <2>1. a \in Actions
    BY <1>1, KindOf
  <2>2. A(a) # {}
    OBVIOUS
  <2>3. act[a] \in Nat /\ act[a] = Cardinality(A(a)) /\ IsFiniteSet(A(a))
    BY <1>4, <2>1
  <2> HIDE DEF A, a, act
  <2>4. act[a] # 0
    BY <2>2, <2>3, FS_EmptySet
  <2> QED
    BY <2>3, <2>4 DEF a
<1>6. Batch(F) = [actions |-> act, unknown |-> u, signal |-> s]
  BY DEF Batch
<1>7. act \in [Actions -> Nat] /\ s \in BOOLEAN
  BY <1>4
<1> HIDE DEF act, u, s, U
<1>8. Batch(F) \in [actions : [Actions -> Nat], unknown : Nat, signal : BOOLEAN]
  BY <1>3, <1>6, <1>7
<1>9. Disposition(r) = Batch(F) /\ Disposition(r) # None
  BY <1>8, TestGateAssumption DEF Disposition
<1> HIDE DEF F
<1>10. Disposition(r).actions = act /\ Disposition(r).unknown = u /\ Disposition(r).signal = s
  BY <1>6, <1>9
<1> QED
  BY <1>2, <1>3, <1>4, <1>5, <1>9, <1>10 DEF F, u, s, U

-----------------------------------------------------------------------------
(* The policy in force. *)

(* What a policy file says, with the defaults for what it does not say. *)
Merged(file) ==
    [k \in DOMAIN Defaults |-> IF k \in DOMAIN file THEN file[k] ELSE Defaults[k]]

NumbersOf(v) == v.threshold \in Int /\ v.staleAfter \in Int

LEMMA MergedNumbers ==
    ASSUME NEW file,
           "threshold" \in DOMAIN file => file["threshold"] \in Int,
           "staleAfter" \in DOMAIN file => file["staleAfter"] \in Int
    PROVE  NumbersOf(Merged(file))
  BY DEF NumbersOf, Merged, Defaults

LEMMA DefaultValues == NumbersOf(Defaults) /\ Defaults.mode = "strict"
  BY DEF NumbersOf, Defaults

(* A policy that is loaded comes from where it should. *)
LEMMA Loaded ==
    ASSUME NEW s \in Settings, NEW policy,
           policy = Load(s.local, s.shipped, s.yaml), policy.source # Refused
    PROVE  /\ NumbersOf(policy.values)
           /\ s.local # None => policy.source # "framework_default"
           /\ s.local = Unparsable => policy.values.mode = "strict" /\ policy.broken
<1>1. \A f \in {s.local, s.shipped} \ {None, Unparsable} : NumbersOf(Merged(f))
  BY MergedNumbers, TestGateAssumption
<1>2. None # Unparsable
  BY TestGateAssumption
<1>3. ASSUME NEW file \in {s.local, s.shipped} \ {None}, NEW source, NEW fallback,
             FromPath(file, source, fallback, s.yaml).source # Refused,
             source \in {"repo_local", "framework_default"}
      PROVE  LET p == FromPath(file, source, fallback, s.yaml)
             IN  /\ NumbersOf(p.values)
                 /\ source = "repo_local" => p.source # "framework_default"
                 /\ source = "repo_local" /\ file = Unparsable =>
                        p.values.mode = "strict" /\ p.broken
  <2> DEFINE p == FromPath(file, source, fallback, s.yaml)
  <2>1. CASE ~s.yaml
    <3>1. source # "repo_local"
      BY <1>3, <2>1 DEF FromPath
    <3>2. p = Build(Defaults, "builtin_default", TRUE, FALSE)
      BY <2>1, <3>1 DEF FromPath
    <3>3. p.values = Defaults
      BY <1>3, <3>2 DEF Build
    <3> QED
      BY <3>1, <3>3, DefaultValues
  <2>2. CASE s.yaml /\ file = Unparsable
    <3>1. p = Build(Defaults, "builtin_default", TRUE, TRUE)
      BY <2>2 DEF FromPath
    <3>2. p.values = Defaults /\ p.source = "builtin_default" /\ p.broken = TRUE
      BY <1>3, <3>1 DEF Build
    <3> QED
      BY <3>2, DefaultValues
  <2>3. CASE s.yaml /\ file # Unparsable
    <3>1. p = Build(Merged(file), source, fallback, FALSE)
      BY <2>3 DEF FromPath, Merged
    <3>2. p.values = Merged(file) /\ p.source = source
      BY <1>3, <3>1 DEF Build
    <3> QED
      BY <1>1, <2>3, <3>2
  <2> QED
    BY <2>1, <2>2, <2>3
<1>4. CASE s.local # None
  <2>1. policy = FromPath(s.local, "repo_local", FALSE, s.yaml)
    BY <1>4 DEF Load
  <2> QED
    BY <1>3, <1>4, <2>1, ZenonT(60)
<1>5. CASE s.local = None /\ s.shipped # None
  <2>1. policy = FromPath(s.shipped, "framework_default", TRUE, s.yaml)
    BY <1>5 DEF Load
  <2> QED
    BY <1>2, <1>3, <1>5, <2>1
<1>6. CASE s.local = None /\ s.shipped = None
  <2>1. policy = Build(Defaults, "builtin_default", TRUE, FALSE)
    BY <1>6 DEF Load
  <2>2. policy.values = Defaults
    BY <2>1 DEF Build
  <2> QED
    BY <1>2, <1>6, <2>2, DefaultValues
<1> QED
  BY <1>4, <1>5, <1>6

-----------------------------------------------------------------------------
(* The gate. *)

LEMMA Verdicts ==
    ASSUME NEW state, NEW errors, NEW warnings
    PROVE  /\ Verdict(state, errors, warnings).state = state
           /\ Verdict(state, errors, warnings).blocked <=> errors # {}
<1> DEFINE b == errors # {}
<1>1. Verdict(state, errors, warnings) =
        [state |-> state, blocked |-> b, errors |-> errors, warnings |-> warnings]
  BY DEF Verdict
<1> HIDE DEF b
<1>2. Verdict(state, errors, warnings).state = state /\ Verdict(state, errors, warnings).blocked = b
  BY <1>1
<1> QED
  BY <1>2 DEF b

(* What was read of an artifact: nothing, a torn one, or what a report said. *)
ReadOK(read) ==
    \/ read = None
    \/ read.torn = TRUE /\ read.of = None /\ read.disposition = None
    \/ read.torn = FALSE /\ read.of \in Reports /\ read.disposition = Disposition(read.of)

(* What a session that may close is known not to have. *)
Harmless(read, v) ==
    LET failing == Failing(read.of)
    IN  /\ \A t \in failing : ActionOf[Kind(t)] \notin v.blocking
        /\ v.unknown = "always_block" => \A t \in failing : Matches[t] # {}
        /\ v.unknown = "block_if_count_exceeds" /\ failing # {} =>
                Cardinality({t \in failing : Matches[t] = {}}) <= v.threshold

LEMMA JudgeState ==
    ASSUME NEW d, NEW v, NEW state
    PROVE  Judge(d, v, state).state = state
  BY Verdicts DEF Judge

LEMMA JudgePasses ==
    ASSUME NEW read, ReadOK(read), read # None, ~read.torn,
           NEW v, NumbersOf(v), NEW state, ~Judge(read.disposition, v, state).blocked
    PROVE  Harmless(read, v)
<1>1. read.of \in Reports /\ read.disposition = Disposition(read.of)
  BY DEF ReadOK
<1> DEFINE r == read.of
           d == read.disposition
           F == Failing(r)
           unclassified == {t \in F : Matches[t] = {}}
<1>2. IsFiniteSet(F) /\ F \subseteq DOMAIN Matches
  BY <1>1, FailingTests
<1>3. ASSUME F # {}
      PROVE  /\ \A t \in F : ActionOf[Kind(t)] \notin v.blocking
             /\ v.unknown = "always_block" => \A t \in F : Matches[t] # {}
             /\ v.unknown = "block_if_count_exceeds" => Cardinality(unclassified) <= v.threshold
  <2>1. /\ d # None /\ \A a \in Actions : d.actions[a] \in Nat
        /\ \A t \in F : d.actions[ActionOf[Kind(t)]] > 0
        /\ d.unknown = Cardinality(unclassified) /\ d.unknown \in Nat
    BY <1>1, <1>3, BatchCounts
  <2> DEFINE tooMany ==
                 \/ v.unknown = "always_block" /\ d.unknown > 0
                 \/ v.unknown = "block_if_count_exceeds" /\ d.unknown > v.threshold
             errors == {a \in v.blocking : d.actions[a] > 0}
                           \union (IF tooMany THEN {"unknown"} ELSE {})
             warnings == Signals(d) \union
                             (IF ~tooMany /\ d.unknown > 0 THEN {"unclassified"} ELSE {})
  <2>2. Judge(d, v, state) = Verdict(state, errors, warnings)
    BY <2>1 DEF Judge
  <2>3. errors = {}
    <3> HIDE DEF errors, warnings
    <3> QED
      BY <2>2, Verdicts
  <2>4. ~tooMany /\ \A a \in v.blocking : ~(d.actions[a] > 0)
    BY <2>3
  <2>5. \A t \in F : ActionOf[Kind(t)] \notin v.blocking
    BY <2>1, <2>4
  <2>6. v.unknown = "always_block" => unclassified = {}
    <3>1. IsFiniteSet(unclassified)
      <4>1. unclassified \subseteq F
        OBVIOUS
      <4> QED
        BY <1>2, <4>1, FS_Subset
    <3>2. v.unknown = "always_block" => Cardinality(unclassified) = 0
      BY <2>1, <2>4
    <3> HIDE DEF unclassified
    <3> QED
      BY <3>1, <3>2, FS_EmptySet
  <2>7. v.unknown = "block_if_count_exceeds" => Cardinality(unclassified) <= v.threshold
    BY <2>1, <2>4 DEF NumbersOf
  <2> QED
    BY <2>5, <2>6, <2>7
<1> QED
  BY <1>3 DEF Harmless

(* What the gate may let through in each mode. *)
LEMMA EvaluateSound ==
    ASSUME NEW read, ReadOK(read), NEW v, NumbersOf(v), NEW state,
           state = "absent" <=> read = None,
           state = "malformed" <=> read # None /\ read.torn,
           NEW d, d = IF read = None THEN None ELSE read.disposition
    PROVE  LET gate == Evaluate(d, v, state)
           IN  /\ gate.state = state
               /\ v.mode = "audit" => ~gate.blocked
               /\ v.mode = "permissive" /\ gate.blocked => state = "ok"
               /\ v.mode = "strict" /\ ~gate.blocked =>
                      read # None /\ ~read.torn /\ Harmless(read, v)
<1> DEFINE gate == Evaluate(d, v, state)
<1>1. CASE v.mode = "audit"
  <2>1. gate = Verdict(state, {}, (IF state = "ok" THEN {} ELSE {state}) \union Signals(d))
    BY <1>1 DEF Evaluate
  <2> QED
    BY <1>1, <2>1, Verdicts
<1>2. CASE v.mode = "strict" /\ state \in {"absent", "malformed"}
  <2>1. gate = Verdict(state, {state}, {})
    BY <1>2 DEF Evaluate
  <2> QED
    BY <1>2, <2>1, Verdicts
<1>3. CASE v.mode = "strict" /\ state \notin {"absent", "malformed"}
  <2>1. read # None /\ ~read.torn /\ d = read.disposition
    BY <1>3 DEF ReadOK
  <2>2. gate.state = Judge(d, v, state).state /\ gate.blocked = Judge(d, v, state).blocked
    <3>1. CASE state = "stale"
      <4>1. gate = [Judge(d, v, state) EXCEPT !.warnings = @ \union {"stale"}]
        BY <1>3, <3>1 DEF Evaluate
      <4> QED
        BY <4>1 DEF Judge, Verdict
    <3>2. CASE state # "stale"
      BY <1>3, <3>2 DEF Evaluate
    <3> QED
      BY <3>1, <3>2
  <2> QED
    BY <1>3, <2>1, <2>2, JudgeState, JudgePasses
<1>4. CASE v.mode = "permissive" /\ state # "ok"
  <2>1. gate = Verdict(state, {}, {})
    BY <1>4 DEF Evaluate
  <2> QED
    BY <1>4, <2>1, Verdicts
<1>5. CASE v.mode \notin {"audit", "strict"} /\ ~(v.mode = "permissive" /\ state # "ok")
  <2>1. gate = Judge(d, v, state)
    BY <1>5 DEF Evaluate
  <2> QED
    BY <1>5, <2>1, JudgeState
<1> QED
  BY <1>1, <1>2, <1>3, <1>4, <1>5

LEMMA StateOf ==
    ASSUME NEW read, ReadOK(read), NEW age_, NEW v
    PROVE  /\ State(read, age_, v) = "absent" <=> read = None
           /\ State(read, age_, v) = "malformed" <=> read # None /\ read.torn
           /\ State(read, age_, v) = "ok" => ~(v.staleAfter > 0 /\ age_ > v.staleAfter)
  BY DEF State, ReadOK

-----------------------------------------------------------------------------
(* The inductive invariant. *)

SessionsOf(entries) == {e.session : e \in Range(entries)}

ReviewRecord == [entries : Seq(EntryRecord), open : BOOLEAN]

Typed ==
    /\ setting \in Settings
    /\ age \in 0 .. MaxAge
    /\ log \in Seq(EntryRecord)
    /\ review \in ReviewRecord \cup {None}
    /\ overlapped \subseteq 1 .. MaxSessions
    /\ reports \in 0 .. MaxReports /\ sessions \in 0 .. MaxSessions /\ reviews \in 0 .. MaxReviews

(* The entries of a log that were closed say why. *)
ClosedWell(entries) == \A n \in DOMAIN entries : Traceable(entries[n])

(* The session between reading and judging: what it read is old enough to  *)
(* be known, and it is no older than the file unless that was replaced.    *)
SessionOK ==
    session # None =>
        /\ sessions >= 1
        /\ session.policy = Load(setting.local, setting.shipped, setting.yaml)
        /\ session.policy.source # Refused
        /\ ReadOK(session.read)
        /\ session.age \in Nat /\ session.before \in Nat /\ session.before <= reports
        /\ session.before = reports => session.age <= age

(* Both the log an operator holds and the log in its place carry what is owed. *)
TracesOK ==
    /\ ClosedWell(log)
    /\ review # None =>
          ClosedWell(review.entries) /\ owed \subseteq overlapped \cup SessionsOf(review.entries)
    /\ ~(review # None /\ review.open) => owed \subseteq overlapped \cup SessionsOf(log)

IInv == Typed /\ ReadOK(artifact) /\ SessionOK /\ TracesOK /\ DecisionSound

-----------------------------------------------------------------------------
(* The log of unclassified failures. *)

LEMMA Appending ==
    ASSUME NEW S, NEW s \in Seq(S), NEW e \in S
    PROVE  /\ Append(s, e) \in Seq(S) /\ Range(Append(s, e)) = Range(s) \cup {e}
           /\ \A n \in DOMAIN Append(s, e) :
                  \/ n \in DOMAIN s /\ Append(s, e)[n] = s[n]
                  \/ Append(s, e)[n] = e
<1>1. \A x \in 1 .. Len(s) : Append(s, e)[x] = s[x]
  OBVIOUS
<1>2. /\ Append(s, e)[Len(s) + 1] = e /\ DOMAIN Append(s, e) = 1 .. Len(s) + 1
      /\ Len(s) \in Nat /\ DOMAIN s = 1 .. Len(s)
  OBVIOUS
<1> QED
  BY <1>1, <1>2 DEF Range

LEMMA NewEntry ==
    ASSUME NEW n \in 1 .. MaxSessions
    PROVE  Entry(n) \in EntryRecord /\ Traceable(Entry(n)) /\ Entry(n).session = n
  BY DEF Entry, EntryRecord, Statuses, Traceable

(* With an entry more, the log carries one session more. *)
LEMMA Traced ==
    ASSUME NEW entries \in Seq(EntryRecord), ClosedWell(entries), NEW n \in 1 .. MaxSessions
    PROVE  /\ Append(entries, Entry(n)) \in Seq(EntryRecord)
           /\ ClosedWell(Append(entries, Entry(n)))
           /\ SessionsOf(Append(entries, Entry(n))) = SessionsOf(entries) \cup {n}
<1>1. Entry(n) \in EntryRecord /\ Traceable(Entry(n)) /\ Entry(n).session = n
  BY NewEntry
<1> DEFINE e == Entry(n)
<1> HIDE DEF e
<1>2. /\ Append(entries, e) \in Seq(EntryRecord)
      /\ Range(Append(entries, e)) = Range(entries) \cup {e}
      /\ \A m \in DOMAIN Append(entries, e) :
             \/ m \in DOMAIN entries /\ Append(entries, e)[m] = entries[m]
             \/ Append(entries, e)[m] = e
  BY <1>1, Appending DEF e
<1>3. ClosedWell(Append(entries, e))
  BY <1>1, <1>2 DEF ClosedWell, e
<1>4. SessionsOf(Append(entries, e)) = SessionsOf(entries) \cup {n}
  BY <1>1, <1>2 DEF SessionsOf, e
<1> QED
  BY <1>2, <1>3, <1>4 DEF e

(* A review replaces an entry by one of the same session. *)
LEMMA ReviewedLog ==
    ASSUME NEW entries \in Seq(EntryRecord), ClosedWell(entries),
           NEW i \in DOMAIN entries, NEW r \in Reviews, Traceable(Reviewed(entries[i], r))
    PROVE  LET new == [entries EXCEPT ![i] = Reviewed(entries[i], r)]
           IN  /\ new \in Seq(EntryRecord) /\ ClosedWell(new)
               /\ SessionsOf(new) = SessionsOf(entries)
<1> DEFINE e == Reviewed(entries[i], r)
           new == [entries EXCEPT ![i] = e]
<1>1. /\ r.status \in Statuses /\ r.note \in BOOLEAN /\ r.evidence \in BOOLEAN
      /\ entries[i] \in EntryRecord
  BY TestGateAssumption
<1>2. e \in EntryRecord /\ e.session = entries[i].session
  <2> DEFINE q == entries[i]
             note == q.note \/ r.note
             evidence == q.evidence \/ r.evidence
  <2>1. note \in BOOLEAN /\ evidence \in BOOLEAN
    OBVIOUS
  <2>2. e = [q EXCEPT !.status = r.status, !.note = note, !.evidence = evidence]
    BY DEF Reviewed
  <2>3. q \in EntryRecord
    BY <1>1
  <2> HIDE DEF note, evidence, e, q
  <2>4. e \in EntryRecord /\ e.session = q.session
    BY <1>1, <2>1, <2>2, <2>3 DEF EntryRecord
  <2> QED
    BY <2>4 DEF q
<1>3. Traceable(e)
  OBVIOUS
<1> HIDE DEF e
<1>4. new \in Seq(EntryRecord) /\ DOMAIN new = DOMAIN entries
  BY <1>2
<1>5. \A n \in DOMAIN entries : new[n] = IF n = i THEN e ELSE entries[n]
  BY <1>2
<1>6. ClosedWell(new)
  BY <1>3, <1>4, <1>5 DEF ClosedWell
<1>7. SessionsOf(new) = {new[n].session : n \in DOMAIN new}
      /\ SessionsOf(entries) = {entries[n].session : n \in DOMAIN entries}
  BY DEF SessionsOf, Range
<1>8. \A n \in DOMAIN entries : new[n].session = entries[n].session
  BY <1>2, <1>5
<1> HIDE DEF new
<1>9. SessionsOf(new) = SessionsOf(entries)
  BY <1>4, <1>7, <1>8
<1> QED
  BY <1>4, <1>6, <1>9 DEF new, e

-----------------------------------------------------------------------------
(* A session closes. *)

(* Failures that call for a wider taxonomy make the session ask for an entry. *)
LEMMA OwedExpands ==
    ASSUME NEW read, ReadOK(read), Unclassified(read) >= EscalationThreshold
    PROVE  Expands(IF read = None THEN None ELSE read.disposition)
<1> DEFINE r == read.of
           unclassified == {t \in Failing(r) : Matches[t] = {}}
<1>1. read # None /\ ~read.torn /\ Cardinality(unclassified) >= 3
  BY DEF Unclassified, EscalationThreshold
<1>2. r \in Reports /\ read.disposition = Disposition(r)
  BY <1>1 DEF ReadOK
<1>3. Failing(r) # {}
  <2>1. SUFFICES ASSUME Failing(r) = {}
                 PROVE  FALSE
    OBVIOUS
  <2>2. unclassified = {}
    BY <2>1
  <2> HIDE DEF unclassified
  <2>3. Cardinality(unclassified) = 0
    BY <2>2, FS_EmptySet
  <2> QED
    BY <1>1, <2>3
<1>4. /\ Disposition(r) # None
      /\ Disposition(r).unknown = Cardinality(unclassified)
      /\ Disposition(r).signal = (Disposition(r).unknown >= EscalationThreshold)
  BY <1>2, <1>3, BatchCounts
<1>5. Disposition(r).signal
  BY <1>1, <1>4 DEF EscalationThreshold
<1> QED
  BY <1>1, <1>2, <1>4, <1>5 DEF Expands

(* The entry of session n, written or not. *)
LEMMA TraceLog ==
    ASSUME Typed, TracesOK, NEW n \in 1 .. MaxSessions,
           NEW written \in BOOLEAN, Trace(n, written), review' = review,
           owed' \subseteq owed \cup {n}
    PROVE  TracesOK' /\ log' \in Seq(EntryRecord) /\ overlapped' \subseteq 1 .. MaxSessions
<1>1. log \in Seq(EntryRecord) /\ overlapped \subseteq 1 .. MaxSessions /\ ClosedWell(log)
  BY DEF Typed, TracesOK
<1>2. CASE ~written
  <2>1. log' = log /\ overlapped' = overlapped \cup {n}
    BY <1>2 DEF Trace
  <2> QED
    BY <1>1, <2>1 DEF TracesOK, ClosedWell, SessionsOf
<1>3. CASE written
  <2>1. /\ log' = Append(log, Entry(n))
        /\ overlapped' = IF review = None THEN overlapped ELSE overlapped \cup {n}
    BY <1>3 DEF Trace
  <2>2. /\ log' \in Seq(EntryRecord) /\ ClosedWell(log')
        /\ SessionsOf(log') = SessionsOf(log) \cup {n}
    BY <1>1, <2>1, Traced
  <2>3. /\ review' # None =>
             ClosedWell(review'.entries)
             /\ owed' \subseteq overlapped' \cup SessionsOf(review'.entries)
        /\ ~(review' # None /\ review'.open) => owed' \subseteq overlapped' \cup SessionsOf(log')
    BY <2>1, <2>2 DEF TracesOK
  <2>4. TracesOK'
    BY <2>2, <2>3 DEF TracesOK, ClosedWell, SessionsOf
  <2> QED
    BY <1>1, <2>1, <2>2, <2>4
<1> QED
  BY <1>2, <1>3

LEMMA CloseLog ==
    ASSUME IInv, Close
    PROVE  TracesOK' /\ log' \in Seq(EntryRecord) /\ overlapped' \subseteq 1 .. MaxSessions
<1> DEFINE disposition == IF session.read = None THEN None ELSE session.read.disposition
<1>1. Typed /\ TracesOK /\ ReadOK(session.read) /\ sessions \in 1 .. MaxSessions /\ review' = review
  BY DEF IInv, SessionOK, Close, Typed
<1>2. owed' = IF Unclassified(session.read) < EscalationThreshold THEN owed
              ELSE owed \cup {sessions}
  BY DEF Close
<1>3. CASE Expands(disposition)
  <2>1. PICK written \in BOOLEAN : Trace(sessions, written)
    BY <1>3 DEF Close
  <2> QED
    BY <1>1, <1>2, <2>1, TraceLog
<1>4. CASE ~Expands(disposition)
  <2>1. log' = log /\ overlapped' = overlapped
    BY <1>4 DEF Close
  <2>2. ~(Unclassified(session.read) >= EscalationThreshold)
    BY <1>1, <1>4, OwedExpands
  <2>3. Unclassified(session.read) \in Nat
    <3>1. CASE session.read = None \/ session.read.torn
      BY <3>1 DEF Unclassified
    <3>2. CASE ~(session.read = None \/ session.read.torn)
      <4> DEFINE r == session.read.of
                 S == {t \in Failing(r) : Matches[t] = {}}
      <4>1. r \in Reports
        BY <1>1, <3>2 DEF ReadOK
      <4>2. S \subseteq Failing(r) /\ IsFiniteSet(Failing(r))
        BY <4>1, FailingTests
      <4>3. Cardinality(S) \in Nat
        BY <4>2, FS_Subset, FS_CardinalityType
      <4> QED
        BY <3>2, <4>3 DEF Unclassified
    <3> QED
      BY <3>1, <3>2
  <2>4. owed' = owed
    BY <1>2, <2>2, <2>3 DEF EscalationThreshold
  <2> QED
    BY <1>1, <2>1, <2>4 DEF TracesOK, ClosedWell, SessionsOf, Typed
<1> QED
  BY <1>3, <1>4

LEMMA CloseGate ==
    ASSUME IInv, Close
    PROVE  DecisionSound'
<1> DEFINE disposition == IF session.read = None THEN None ELSE session.read.disposition
           read == session.read
           v == session.policy.values
           state == State(read, age, v)
           gate == Evaluate(disposition, v, state)
           replaced == session.before # reports
           rec == [refused |-> FALSE, policy |-> session.policy, read |-> read, gate |-> gate,
                   age |-> session.age, replaced |-> replaced]
<1>1. /\ SessionOK /\ session # None /\ setting \in Settings /\ setting' = setting
      /\ age \in Nat
  BY TestGateAssumption DEF IInv, Typed, Close
<1>2. decision' = rec
  BY DEF Close
<1>3. /\ NumbersOf(v)
      /\ setting.local # None => session.policy.source # "framework_default"
      /\ setting.local = Unparsable => v.mode = "strict" /\ session.policy.broken
  BY <1>1, Loaded DEF SessionOK
<1>4. /\ state = "absent" <=> read = None
      /\ state = "malformed" <=> read # None /\ read.torn
      /\ state = "ok" => ~(v.staleAfter > 0 /\ age > v.staleAfter)
  BY <1>1, StateOf DEF SessionOK
<1>5. /\ gate.state = state
      /\ v.mode = "audit" => ~gate.blocked
      /\ v.mode = "permissive" /\ gate.blocked => state = "ok"
      /\ v.mode = "strict" /\ ~gate.blocked => read # None /\ ~read.torn /\ Harmless(read, v)
  <2>1. ReadOK(read)
    BY <1>1 DEF SessionOK
  <2>2. disposition = IF read = None THEN None ELSE read.disposition
    OBVIOUS
  <2> HIDE DEF state, read, v, disposition
  <2> QED
    BY <1>3, <1>4, <2>1, <2>2, EvaluateSound, ZenonT(60)
<1>6. gate.state = "ok" /\ v.staleAfter > 0 => session.age <= v.staleAfter \/ replaced
  <2>1. session.before = reports => session.age <= age
    BY <1>1 DEF SessionOK
  <2>2. session.age \in Nat /\ v.staleAfter \in Int
    BY <1>1, <1>3 DEF SessionOK, NumbersOf
  <2> HIDE DEF state, gate, v
  <2> QED
    BY <1>1, <1>4, <1>5, <2>1, <2>2
<1> DEFINE failing == IF read = None \/ read.torn THEN {}
                      ELSE {l.test : l \in {x \in Range(read.of.lines) : x.tagged}}
<1>7. v.mode = "strict" /\ ~gate.blocked =>
         /\ read # None /\ ~read.torn
         /\ \A t \in failing : ActionOf[Kind(t)] \notin v.blocking
         /\ v.unknown = "always_block" => \A t \in failing : Matches[t] # {}
         /\ v.unknown = "block_if_count_exceeds" /\ failing # {} =>
                 Cardinality({t \in failing : Matches[t] = {}}) <= v.threshold
  <2> HIDE DEF gate, v
  <2> QED
    BY <1>5 DEF Harmless, Failing
<1>8. /\ rec.refused = FALSE /\ rec.policy = session.policy /\ rec.read = read /\ rec.gate = gate
      /\ rec.age = session.age /\ rec.replaced = replaced
  <2> HIDE DEF gate, replaced
  <2> QED
    OBVIOUS
<1> HIDE DEF rec, gate, v, replaced
<1> QED
  BY <1>1, <1>2, <1>3, <1>5, <1>6, <1>7, <1>8 DEF DecisionSound, v

-----------------------------------------------------------------------------
(* The other steps. *)

LEMMA GateStays ==
    ASSUME DecisionSound, UNCHANGED <<decision, setting>>
    PROVE  DecisionSound'
  BY DEF DecisionSound

LEMMA LogStays ==
    ASSUME TracesOK, UNCHANGED <<log, review, owed, overlapped>>
    PROVE  TracesOK'
  BY DEF TracesOK, ClosedWell, SessionsOf

LEMMA ArtifactStep ==
    ASSUME IInv, (\E r \in Reports : Ingest(r)) \/ Tear \/ Grow
    PROVE  IInv'
<1>1. /\ Typed /\ SessionOK /\ DecisionSound /\ TracesOK /\ ReadOK(artifact)
      /\ MaxAge \in Nat /\ MaxReports \in Nat
  BY TestGateAssumption DEF IInv
<1>2. UNCHANGED <<setting, session, decision, log, review, owed, overlapped, sessions, reviews>>
  BY DEF Ingest, Tear, Grow
<1>3. \/ reports' = reports + 1 /\ reports < MaxReports /\ age' = 0
      \/ reports' = reports /\ age' = age + 1 /\ age < MaxAge
  BY DEF Ingest, Tear, Grow
<1>4. Typed'
  BY <1>1, <1>2, <1>3 DEF Typed
<1>5. ReadOK(artifact)'
  <2>1. ASSUME NEW r \in Reports, Ingest(r)
        PROVE  artifact'.torn = FALSE /\ artifact'.of = r /\ artifact'.disposition = Disposition(r)
    BY <2>1 DEF Ingest
  <2>2. Tear => artifact'.torn = TRUE /\ artifact'.of = None /\ artifact'.disposition = None
    BY DEF Tear
  <2>3. Grow => artifact' = artifact
    BY DEF Grow
  <2> QED
    BY <1>1, <2>1, <2>2, <2>3 DEF ReadOK
<1>6. SessionOK'
  <2>1. age \in Nat /\ reports \in Nat
    BY <1>1 DEF Typed
  <2> QED
    BY <1>1, <1>2, <1>3, <2>1 DEF SessionOK, ReadOK
<1> QED
  BY <1>1, <1>2, <1>4, <1>5, <1>6, GateStays, LogStays DEF IInv

LEMMA ReadStep ==
    ASSUME IInv, Read
    PROVE  IInv'
<1> DEFINE policy == Load(setting.local, setting.shipped, setting.yaml)
<1>1. /\ Typed /\ SessionOK /\ DecisionSound /\ TracesOK /\ ReadOK(artifact) /\ MaxSessions \in Nat
  BY TestGateAssumption DEF IInv
<1>2. /\ UNCHANGED <<artifact, age, setting, log, review, owed, overlapped, reports, reviews>>
      /\ sessions' = sessions + 1 /\ sessions < MaxSessions /\ session = None
  BY DEF Read
<1>3. Typed'
  BY <1>1, <1>2 DEF Typed
<1>4. TracesOK' /\ ReadOK(artifact)'
  BY <1>1, <1>2, LogStays DEF ReadOK
<1>5. CASE policy.source = Refused
  <2>1. session' = None /\ decision' = [refused |-> TRUE]
    BY <1>2, <1>5 DEF Read
  <2>2. DecisionSound' /\ SessionOK'
    BY <2>1 DEF DecisionSound, SessionOK
  <2> QED
    BY <1>3, <1>4, <2>2 DEF IInv
<1>6. CASE policy.source # Refused
  <2>1. /\ session' = [policy |-> policy, read |-> artifact, before |-> reports, age |-> age]
        /\ decision' = decision
    BY <1>6 DEF Read
  <2> HIDE DEF policy
  <2>2. /\ session'.policy = policy /\ session'.read = artifact
        /\ session'.before = reports /\ session'.age = age
    BY <2>1
  <2>3. /\ age \in Nat /\ reports \in Nat /\ sessions' >= 1
    BY <1>1, <1>2 DEF Typed
  <2>4. SessionOK'
    BY <1>1, <1>2, <1>6, <2>2, <2>3 DEF SessionOK, ReadOK, policy
  <2> QED
    BY <1>1, <1>2, <1>3, <1>4, <2>1, <2>4, GateStays DEF IInv
<1> QED
  BY <1>5, <1>6

LEMMA CloseStep ==
    ASSUME IInv, Close
    PROVE  IInv'
<1>1. /\ UNCHANGED <<artifact, age, setting, review, reports, sessions, reviews>>
      /\ session' = None
  BY DEF Close
<1>2. TracesOK' /\ log' \in Seq(EntryRecord) /\ overlapped' \subseteq 1 .. MaxSessions
  BY CloseLog
<1>3. Typed'
  BY <1>1, <1>2 DEF IInv, Typed
<1>4. ReadOK(artifact)' /\ SessionOK'
  BY <1>1 DEF IInv, ReadOK, SessionOK
<1> QED
  BY <1>2, <1>3, <1>4, CloseGate DEF IInv

LEMMA SessionsInLog ==
    ASSUME NEW entries \in Seq(EntryRecord)
    PROVE  SessionsOf(entries) \subseteq 1 .. MaxSessions
<1>1. \A n \in DOMAIN entries : entries[n] \in EntryRecord
  OBVIOUS
<1> QED
  BY <1>1 DEF SessionsOf, Range, EntryRecord

LEMMA ReviewStep ==
    ASSUME IInv,
           \/ \E n \in 1 .. MaxSessions, r \in Reviews : BeginReview(n, r)
           \/ Truncate \/ WriteBack \/ Crash
    PROVE  IInv'
<1>1. /\ Typed /\ SessionOK /\ DecisionSound /\ TracesOK /\ ReadOK(artifact) /\ MaxReviews \in Nat
      /\ log \in Seq(EntryRecord) /\ review \in ReviewRecord \cup {None}
      /\ overlapped \subseteq 1 .. MaxSessions /\ None \notin ReviewRecord
  BY TestGateAssumption DEF IInv, Typed, ReviewRecord
<1>2. UNCHANGED <<artifact, age, setting, session, decision, owed, reports, sessions>>
  BY DEF BeginReview, Truncate, WriteBack, Crash
<1>3. DecisionSound' /\ SessionOK' /\ ReadOK(artifact)'
  BY <1>1, <1>2, GateStays DEF SessionOK, ReadOK
<1>4. ASSUME NEW n \in 1 .. MaxSessions, NEW r \in Reviews, BeginReview(n, r)
      PROVE  Typed' /\ TracesOK'
  <2>1. PICK i \in DOMAIN log :
          /\ Traceable(Reviewed(log[i], r))
          /\ review' = [entries |-> [log EXCEPT ![i] = Reviewed(log[i], r)], open |-> FALSE]
    BY <1>4 DEF BeginReview
  <2> DEFINE new == [log EXCEPT ![i] = Reviewed(log[i], r)]
  <2>2. new \in Seq(EntryRecord) /\ ClosedWell(new) /\ SessionsOf(new) = SessionsOf(log)
    BY <1>1, <2>1, ReviewedLog DEF TracesOK
  <2>3. /\ review = None /\ log' = log /\ overlapped' = overlapped
        /\ reviews' = reviews + 1 /\ reviews < MaxReviews
    BY <1>4 DEF BeginReview
  <2> HIDE DEF new
  <2>4. review' = [entries |-> new, open |-> FALSE]
    BY <2>1 DEF new
  <2>5. review' \in ReviewRecord /\ review'.entries = new /\ ~review'.open
    BY <2>2, <2>4 DEF ReviewRecord
  <2>6. Typed'
    BY <1>1, <1>2, <2>3, <2>5 DEF Typed, ReviewRecord
  <2>7. owed \subseteq overlapped \cup SessionsOf(log)
    BY <1>1, <2>3 DEF TracesOK
  <2>8. ClosedWell(review'.entries) /\ owed' \subseteq overlapped' \cup SessionsOf(review'.entries)
    BY <1>2, <2>2, <2>3, <2>5, <2>7
  <2>9. ClosedWell(log') /\ owed' \subseteq overlapped' \cup SessionsOf(log')
    BY <1>1, <1>2, <2>3, <2>7 DEF TracesOK
  <2>10. TracesOK'
    BY <2>8, <2>9 DEF TracesOK, ClosedWell, SessionsOf
  <2> QED
    BY <2>6, <2>10
<1>5. ASSUME Truncate
      PROVE  Typed' /\ TracesOK'
  <2>1. /\ review # None /\ review \in ReviewRecord /\ log' = <<>> /\ reviews' = reviews
        /\ overlapped' = overlapped /\ review' = [review EXCEPT !.open = TRUE]
    BY <1>1, <1>5 DEF Truncate
  <2>2. review' \in ReviewRecord /\ review'.entries = review.entries /\ review'.open = TRUE
    BY <2>1 DEF ReviewRecord
  <2>3. review' # None
    BY <1>1, <2>2
  <2>4. /\ ClosedWell(log') /\ ClosedWell(review'.entries)
        /\ owed' \subseteq overlapped' \cup SessionsOf(review'.entries)
    BY <1>1, <1>2, <2>1, <2>2 DEF TracesOK, ClosedWell
  <2>5. TracesOK'
    BY <2>2, <2>3, <2>4 DEF TracesOK, ClosedWell, SessionsOf
  <2>6. Typed'
    BY <1>1, <1>2, <2>1, <2>2 DEF Typed, ReviewRecord
  <2> QED
    BY <2>5, <2>6
<1>6. ASSUME WriteBack
      PROVE  Typed' /\ TracesOK'
  <2>1. /\ review # None /\ review \in ReviewRecord /\ log' = review.entries /\ reviews' = reviews
        /\ overlapped' = overlapped /\ review' = None
    BY <1>1, <1>6 DEF WriteBack
  <2>2. log' \in Seq(EntryRecord)
    BY <2>1 DEF ReviewRecord
  <2>3. ClosedWell(log') /\ owed' \subseteq overlapped' \cup SessionsOf(log')
    BY <1>1, <1>2, <2>1 DEF TracesOK
  <2>4. TracesOK'
    BY <2>1, <2>3 DEF TracesOK, ClosedWell, SessionsOf
  <2>5. Typed'
    BY <1>1, <1>2, <2>1, <2>2 DEF Typed
  <2> QED
    BY <2>4, <2>5
<1>7. ASSUME Crash
      PROVE  Typed' /\ TracesOK'
  <2>1. /\ review # None /\ review \in ReviewRecord /\ log' = log /\ reviews' = reviews
        /\ overlapped' = overlapped \cup SessionsOf(review.entries) /\ review' = None
    BY <1>1, <1>7 DEF Crash, SessionsOf
  <2>2. overlapped' \subseteq 1 .. MaxSessions
    BY <1>1, <2>1, SessionsInLog DEF ReviewRecord
  <2>3. ClosedWell(log') /\ owed' \subseteq overlapped' \cup SessionsOf(log')
    BY <1>1, <1>2, <2>1 DEF TracesOK
  <2>4. TracesOK'
    BY <2>1, <2>3 DEF TracesOK, ClosedWell, SessionsOf
  <2>5. Typed'
    BY <1>1, <1>2, <2>1, <2>2 DEF Typed
  <2> QED
    BY <2>4, <2>5
<1> QED
  BY <1>3, <1>4, <1>5, <1>6, <1>7 DEF IInv

-----------------------------------------------------------------------------
(* The theorems. *)

LEMMA IInvInit == ASSUME Init PROVE IInv
<1>1. Typed
  BY TestGateAssumption DEF Init, Typed
<1>2. ReadOK(artifact) /\ SessionOK /\ DecisionSound
  BY DEF Init, ReadOK, SessionOK, DecisionSound
<1>3. TracesOK
  BY DEF Init, TracesOK, ClosedWell
<1> QED
  BY <1>1, <1>2, <1>3 DEF IInv

LEMMA IInvAlways == Spec => []IInv
<1>1. Init => IInv
  BY IInvInit
<1>2. IInv /\ [Next]_vars => IInv'
  <2> SUFFICES ASSUME IInv, [Next]_vars
               PROVE  IInv'
    OBVIOUS
  <2>1. CASE UNCHANGED vars
    <3>1. UNCHANGED <<artifact, age, setting, session, decision, log, review, owed, overlapped,
                      reports, sessions, reviews>>
      BY <2>1 DEF vars
    <3>2. DecisionSound' /\ TracesOK'
      BY <3>1, GateStays, LogStays DEF IInv
    <3>3. Typed' /\ ReadOK(artifact)' /\ SessionOK'
      BY <3>1 DEF IInv, Typed, ReadOK, SessionOK
    <3> QED
      BY <3>2, <3>3 DEF IInv
  <2> QED
    BY <2>1, ArtifactStep, ReadStep, CloseStep, ReviewStep DEF Next
<1> QED
  BY <1>1, <1>2, PTL DEF Spec

(* latest.json, the policy in force and the log of a repository are what    *)
(* the tools take them for.                                                 *)
THEOREM GateTyped == Spec => []TypeOK
<1>1. ASSUME IInv
      PROVE  TypeOK
  <2>1. artifact # None => artifact.of \in Reports \cup {None}
    BY <1>1 DEF IInv, ReadOK
  <2>2. review # None => review.open \in BOOLEAN
    BY <1>1 DEF IInv, Typed, ReviewRecord
  <2> QED
    BY <1>1, <2>1, <2>2 DEF TypeOK, IInv, Typed
<1>2. IInv => TypeOK
  BY <1>1
<1> QED
  BY <1>2, IInvAlways, PTL

(* evaluate_gate lets a session close only on evidence its policy accepts,   *)
(* under the policy of the repository, however the artifact is replaced,     *)
(* torn or aged while the session reads it.                                  *)
THEOREM GateIsSound == Spec => []GateSound
<1>1. IInv => DecisionSound
  BY DEF IInv
<1> QED
  BY <1>1, GateTyped, IInvAlways, PTL DEF GateSound

(* A session whose unclassified failures called for an entry has it in the   *)
(* log, through every rewriting by an operator (update_entry_status), unless *)
(* one of the named accidents took it; a closed entry says why.              *)
THEOREM TracesAreKept == Spec => []TraceKept
<1>1. ASSUME IInv
      PROVE  TraceKept
  <2> DEFINE held == IF review # None /\ review.open THEN review.entries ELSE log
  <2>1. ClosedWell(held) /\ owed \subseteq overlapped \cup SessionsOf(held)
    BY <1>1 DEF IInv, TracesOK
  <2> HIDE DEF held
  <2>2. \A e \in Range(held) : Traceable(e)
    BY <2>1 DEF ClosedWell, Range
  <2>3. \A e \in Range(held) :
          /\ e.status = "dismissed" => e.note
          /\ e.status = "updated" => e.evidence
          /\ e.status = "reviewed" => e.note \/ e.evidence
    BY <2>2 DEF Traceable
  <2> QED
    BY <2>1, <2>3 DEF TraceKept, SessionsOf, held
<1> QED
  BY <1>1, IInvAlways, PTL


-----------------------------------------------------------------------------
(* Lists of lines. *)

Listed(q) == q \in Seq({q[k] : k \in DOMAIN q})

SessionsIn(lines) == {lines[i].session : i \in DOMAIN lines}

Distinct(lines) ==
    \A i, j \in DOMAIN lines : lines[i].session = lines[j].session => i = j

(* A log as it has to be: of no more lines than its limit, of no session    *)
(* twice, of sessions that have been started.                               *)
LogOK(lines, n) ==
    /\ Listed(lines)
    /\ Len(lines) <= LogLimit
    /\ Distinct(lines)
    /\ SessionsIn(lines) \subseteq 1..n

(* A log that holds the last sessions of the history. *)
Tracks(lines, past) ==
    /\ Len(lines) <= Len(past)
    /\ Len(lines) < LogLimit => Len(lines) = Len(past)
    /\ \A i \in 1..Len(lines) : lines[i].session = past[Len(past) - Len(lines) + i]

LEMMA ListedFacts ==
    ASSUME NEW q, Listed(q)
    PROVE  /\ Len(q) \in Nat
           /\ DOMAIN q = 1..Len(q)
  BY DEF Listed

LEMMA ListedAppend ==
    ASSUME NEW q, Listed(q), NEW e
    PROVE  LET t == Append(q, e)
           IN  /\ Listed(t)
               /\ Len(t) = Len(q) + 1
               /\ \A k \in 1..Len(q) : t[k] = q[k]
               /\ t[Len(q) + 1] = e
<1> DEFINE R == {q[k] : k \in DOMAIN q}
           t == Append(q, e)
<1>1. q \in Seq(R \cup {e})
  BY SeqMonotonic DEF Listed
<1>2. /\ t \in Seq(R \cup {e})
      /\ Len(t) = Len(q) + 1
      /\ \A k \in 1..Len(q) : t[k] = q[k]
      /\ t[Len(q) + 1] = e
  BY <1>1
<1>3. DOMAIN t = 1..Len(t)
  BY <1>2
<1>4. Listed(t)
  BY <1>2, <1>3 DEF Listed
<1> QED
  BY <1>2, <1>4

LEMMA MinOfTwo ==
    ASSUME NEW a \in Nat, NEW b \in Nat
    PROVE  Min({a, b}) = IF a <= b THEN a ELSE b
  BY DEF Min

(* Where a line of a log was before it was rotated. *)
LEMMA Shifted ==
    ASSUME NEW a \in Nat, NEW b \in Nat, b <= a + 1, NEW k \in 1..b, k # b
    PROVE  a + 1 - b + k \in 1..a
  OBVIOUS

LEMMA SameLength ==
    ASSUME NEW a \in Nat, NEW b \in Nat, NEW n \in Nat, NEW m, a <= n, a <= b,
           a < n => a = b, m = IF b <= n THEN b ELSE n
    PROVE  m = a
  OBVIOUS

(* The last n of a list. *)
EndOf(r, q, n) ==
    /\ Listed(r)
    /\ Len(r) = IF Len(q) <= n THEN Len(q) ELSE n
    /\ \A k \in 1..Len(r) : r[k] = q[Len(q) - Len(r) + k]

LEMMA LastOnes ==
    ASSUME NEW q, Listed(q), NEW n \in Nat
    PROVE  EndOf(LastN(q, n), q, n)
<1> DEFINE R == {q[k] : k \in DOMAIN q}
           m == IF Len(q) <= n THEN Len(q) ELSE n
           r == LastN(q, n)
<1>1. Len(q) \in Nat /\ DOMAIN q = 1..Len(q)
  BY ListedFacts
<1>2. m \in Nat /\ m <= Len(q)
  BY <1>1
<1>3. r = SubSeq(q, Len(q) - m + 1, Len(q))
  BY <1>1, MinOfTwo DEF LastN
<1>4. q \in Seq(R)
  BY DEF Listed
<1> HIDE DEF m, R, r
<1>5. r \in Seq(R)
  BY <1>1, <1>2, <1>3, <1>4
<1>6. Len(r) = m
  BY <1>1, <1>2, <1>3, <1>4
<1>7. \A k \in 1..m : r[k] = q[Len(q) - m + k]
  BY <1>1, <1>2, <1>3, <1>4
<1>8. Listed(r)
  BY <1>5 DEF Listed
<1>9. Len(r) = IF Len(q) <= n THEN Len(q) ELSE n
  BY <1>6 DEF m
<1>10. \A k \in 1..Len(r) : r[k] = q[Len(q) - Len(r) + k]
  BY <1>6, <1>7
<1> QED
  BY <1>8, <1>9, <1>10 DEF r, EndOf

(* A line more, and perhaps the oldest less. *)
Rotates(r, lines, e) ==
    /\ Listed(r)
    /\ Len(r) \in Nat /\ DOMAIN r = 1..Len(r)
    /\ Len(r) = IF Len(lines) + 1 <= LogLimit THEN Len(lines) + 1 ELSE LogLimit
    /\ \A k \in 1..Len(r) : r[k] = IF k = Len(r) THEN e
                                  ELSE lines[Len(lines) + 1 - Len(r) + k]

LEMMA RotatedLines ==
    ASSUME NEW lines, Listed(lines), NEW e, NEW r, r = Rotated(Append(lines, e))
    PROVE  Rotates(r, lines, e)
<1> DEFINE t == Append(lines, e)
<1>1. LogLimit \in Nat
  BY SessionEndAssumption
<1>2. /\ Listed(t) /\ Len(t) = Len(lines) + 1 /\ Len(lines) \in Nat
      /\ \A k \in 1..Len(lines) : t[k] = lines[k]
      /\ t[Len(lines) + 1] = e
  BY ListedAppend, ListedFacts
<1> HIDE DEF t
<1>3. r = LastN(t, LogLimit)
  BY DEF Rotated, t
<1>4. EndOf(r, t, LogLimit)
  BY <1>1, <1>2, <1>3, LastOnes
<1>40. /\ Listed(r)
       /\ Len(r) = IF Len(t) <= LogLimit THEN Len(t) ELSE LogLimit
       /\ \A k \in 1..Len(r) : r[k] = t[Len(t) - Len(r) + k]
  BY <1>4 DEF EndOf
<1>5. Len(r) \in Nat /\ DOMAIN r = 1..Len(r)
  BY <1>40, ListedFacts
<1>6. ASSUME NEW k \in 1..Len(r)
      PROVE  r[k] = IF k = Len(r) THEN e ELSE lines[Len(lines) + 1 - Len(r) + k]
  <2>1. r[k] = t[Len(t) - Len(r) + k]
    BY <1>40
  <2>2. Len(r) <= Len(lines) + 1
    BY <1>1, <1>2, <1>40
  <2>3. CASE k = Len(r)
    <3>1. Len(t) - Len(r) + k = Len(lines) + 1
      BY <1>2, <1>5, <2>3
    <3> QED
      BY <1>2, <2>1, <2>3, <3>1
  <2>4. CASE k # Len(r)
    <3>1. Len(t) - Len(r) + k = Len(lines) + 1 - Len(r) + k
      BY <1>2, <1>5
    <3>2. Len(lines) + 1 - Len(r) + k \in 1..Len(lines)
      BY <1>2, <1>5, <2>2, <2>4, Shifted
    <3> QED
      BY <1>2, <2>1, <2>4, <3>1, <3>2
  <2> QED
    BY <2>3, <2>4
<1>7. Len(r) = IF Len(lines) + 1 <= LogLimit THEN Len(lines) + 1 ELSE LogLimit
  BY <1>2, <1>40
<1> QED
  BY <1>40, <1>5, <1>6, <1>7 DEF Rotates

LEMMA RotatedLog ==
    ASSUME NEW n \in Nat, NEW lines, LogOK(lines, n), NEW e, e.session \in 1..n,
           e.session \notin SessionsIn(lines), NEW r, r = Rotated(Append(lines, e))
    PROVE  LogOK(r, n) /\ SessionsIn(r) \subseteq SessionsIn(lines) \cup {e.session}
<1>1. Listed(lines) /\ Len(lines) \in Nat /\ DOMAIN lines = 1..Len(lines) /\ LogLimit \in Nat
  BY ListedFacts, SessionEndAssumption DEF LogOK
<1>2. /\ Listed(r)
      /\ Len(r) \in Nat /\ DOMAIN r = 1..Len(r)
      /\ Len(r) = IF Len(lines) + 1 <= LogLimit THEN Len(lines) + 1 ELSE LogLimit
      /\ \A k \in 1..Len(r) : r[k] = IF k = Len(r) THEN e
                                    ELSE lines[Len(lines) + 1 - Len(r) + k]
  BY <1>1, RotatedLines DEF Rotates
<1>3. ASSUME NEW k \in 1..Len(r), k # Len(r)
      PROVE  /\ Len(lines) + 1 - Len(r) + k \in DOMAIN lines
             /\ r[k] = lines[Len(lines) + 1 - Len(r) + k]
  <2>1. Len(r) <= Len(lines) + 1
    BY <1>1, <1>2
  <2>2. Len(lines) + 1 - Len(r) + k \in 1..Len(lines)
    BY <1>1, <1>2, <1>3, <2>1, Shifted
  <2> QED
    BY <1>1, <1>2, <1>3, <2>2
<1>4. ASSUME NEW k \in 1..Len(r)
      PROVE  \/ k = Len(r) /\ r[k].session = e.session
             \/ k # Len(r) /\ r[k].session \in SessionsIn(lines)
  BY <1>2, <1>3 DEF SessionsIn
<1>5. SessionsIn(r) \subseteq SessionsIn(lines) \cup {e.session}
  BY <1>2, <1>4 DEF SessionsIn
<1>6. ASSUME NEW i \in 1..Len(r), NEW j \in 1..Len(r), r[i].session = r[j].session
      PROVE  i = j
  <2>1. CASE i = Len(r) \/ j = Len(r)
    BY <1>4, <1>6, <2>1
  <2>2. CASE i # Len(r) /\ j # Len(r)
    <3> DEFINE a == Len(lines) + 1 - Len(r) + i
               b == Len(lines) + 1 - Len(r) + j
    <3>1. a \in DOMAIN lines /\ r[i] = lines[a]
      BY <1>3, <2>2
    <3>2. b \in DOMAIN lines /\ r[j] = lines[b]
      BY <1>3, <2>2
    <3>3. a = b
      BY <1>6, <3>1, <3>2 DEF LogOK, Distinct
    <3> QED
      BY <1>1, <1>2, <3>3
  <2> QED
    BY <2>1, <2>2
<1> QED
  BY <1>1, <1>2, <1>5, <1>6 DEF LogOK, Distinct

LEMMA RotatedTracks ==
    ASSUME NEW lines, Listed(lines), Len(lines) <= LogLimit, NEW past, Listed(past),
           Tracks(lines, past), NEW e, NEW r, r = Rotated(Append(lines, e))
    PROVE  Tracks(r, Append(past, e.session))
<1> DEFINE p == Append(past, e.session)
<1>1. Len(lines) \in Nat /\ Len(past) \in Nat /\ LogLimit \in Nat
  BY ListedFacts, SessionEndAssumption
<1>2. /\ Len(r) \in Nat
      /\ Len(r) = IF Len(lines) + 1 <= LogLimit THEN Len(lines) + 1 ELSE LogLimit
      /\ \A k \in 1..Len(r) : r[k] = IF k = Len(r) THEN e
                                    ELSE lines[Len(lines) + 1 - Len(r) + k]
  BY RotatedLines DEF Rotates
<1>3. /\ Len(p) = Len(past) + 1
      /\ \A k \in 1..Len(past) : p[k] = past[k]
      /\ p[Len(past) + 1] = e.session
  BY ListedAppend
<1> HIDE DEF p
<1>4. Len(lines) <= Len(past) /\ (Len(lines) < LogLimit => Len(lines) = Len(past))
  BY DEF Tracks
<1>5. Len(r) <= Len(p) /\ (Len(r) < LogLimit => Len(r) = Len(p))
  BY <1>1, <1>2, <1>3, <1>4
<1>6. ASSUME NEW k \in 1..Len(r)
      PROVE  r[k].session = p[Len(p) - Len(r) + k]
  <2>1. CASE k = Len(r)
    <3>1. Len(p) - Len(r) + k = Len(past) + 1
      BY <1>1, <1>2, <1>3, <2>1
    <3> QED
      BY <1>2, <1>3, <2>1, <3>1
  <2>2. CASE k # Len(r)
    <3> DEFINE i == Len(lines) + 1 - Len(r) + k
    <3>1. i \in 1..Len(lines)
      BY <1>1, <1>2, <2>2
    <3>2. r[k] = lines[i]
      BY <1>2, <2>2
    <3>3. lines[i].session = past[Len(past) - Len(lines) + i]
      BY <3>1 DEF Tracks
    <3>4. Len(past) - Len(lines) + i = Len(p) - Len(r) + k
      BY <1>1, <1>2, <1>3
    <3>5. Len(p) - Len(r) + k \in 1..Len(past)
      BY <1>1, <1>2, <1>3, <1>4, <2>2, <3>1
    <3> QED
      BY <1>3, <3>2, <3>3, <3>4, <3>5
  <2> QED
    BY <2>1, <2>2
<1> QED
  BY <1>5, <1>6 DEF Tracks, p

(* Then it is just the last lines of the history. *)
LEMMA TracksLast ==
    ASSUME NEW lines, Listed(lines), Len(lines) <= LogLimit, NEW past, Listed(past),
           Tracks(lines, past)
    PROVE  [i \in DOMAIN lines |-> lines[i].session] = LastN(past, LogLimit)
<1> DEFINE l == LastN(past, LogLimit)
           m == [i \in DOMAIN lines |-> lines[i].session]
<1>1. Len(lines) \in Nat /\ Len(past) \in Nat /\ LogLimit \in Nat /\ DOMAIN lines = 1..Len(lines)
  BY ListedFacts, SessionEndAssumption
<1>2. /\ Listed(l)
      /\ Len(l) = IF Len(past) <= LogLimit THEN Len(past) ELSE LogLimit
      /\ \A k \in 1..Len(l) : l[k] = past[Len(past) - Len(l) + k]
  BY <1>1, LastOnes DEF EndOf
<1> HIDE DEF l
<1>3. Len(l) = Len(lines)
  <2>1. Len(lines) <= Len(past) /\ (Len(lines) < LogLimit => Len(lines) = Len(past))
    BY DEF Tracks
  <2> QED
    BY <1>1, <1>2, <2>1, SameLength
<1>4. DOMAIN l = 1..Len(l) /\ l \in Seq({l[k] : k \in DOMAIN l})
  BY <1>2, ListedFacts DEF Listed
<1>5. l = [k \in 1..Len(l) |-> l[k]]
  BY <1>4
<1>6. \A k \in 1..Len(l) : l[k] = lines[k].session
  BY <1>2, <1>3 DEF Tracks
<1> QED
  BY <1>1, <1>3, <1>5, <1>6 DEF l
-----------------------------------------------------------------------------
(* The state of the hooks. *)

AtGate == {h \in Hooks : hooks[h].at = "gate"}

Writing(hook) == hook.at \in {"write", "replace"}

(* The session a hook is at work on. *)
Session(hook) == IF hook.at = "gate" THEN hook.id ELSE hook.base.id

(* What a hook has found out, with the sessions that were fed to the       *)
(* pipeline of closeouts.                                                  *)
BaseSound(base, fed) ==
    LET closeout == base.in.closeout
    IN  /\ base.ok <=>
               /\ base.in.outcome.ok /\ ~base.blocked
               /\ closeout = None => base.coverage \in {"B", "C"}
        /\ base.tier = "verified" =>
               /\ closeout # None /\ closeout.given = Fields
               /\ Claims(closeout, "FILES_TOUCHED") => closeout.files \subseteq base.in.found
               /\ \A f \in {"WORK_COMPLETED", "CHECKS_RUN"} :
                      f \in closeout.anchored \/ f \in closeout.none
        /\ base.promoted => closeout # None
        /\ base.status = "valid" <=> base.fails = {}
        /\ base.id \in fed => base.status \notin {"closeout_missing", "schema_invalid"}

HookOK(hook, n, fed) ==
    /\ hook.at \in {"idle", "gate", "read", "write", "replace", "report"}
    /\ hook.at # "idle" => Session(hook) \in 1..n
    /\ hook.at = "gate" =>
           /\ hook.in \in Inputs[hook.id]
           /\ hook.outcome = Outcome(hook.in.outcome,
                                     MemoryTier(hook.in.closeout, hook.in.found))
           /\ hook.id \in fed => hook.in.closeout # None /\ MissingFields(hook.in.closeout) = {}
    /\ hook.at \notin {"idle", "gate"} => BaseSound(hook.base, fed)
    /\ Writing(hook) =>
           /\ hook = [at |-> hook.at, base |-> hook.base, line |-> hook.line,
                      lines |-> hook.lines]
           /\ hook.line.session = hook.base.id
           /\ LogOK(hook.lines, n)

(* The sessions that are on their way to the log are in no log yet.        *)
Unwritten(id) ==
    /\ id \notin SessionsIn(audits)
    /\ tmp # None => id \notin SessionsIn(tmp)
    /\ \A g \in Hooks : Writing(hooks[g]) => id \notin SessionsIn(hooks[g].lines)

Counted ==
    /\ hooks = [h \in Hooks |-> hooks[h]]
    /\ started \in 0..MaxClosings /\ faults \in 0..MaxFaults
    /\ clock \in Nat /\ clock + Cardinality(AtGate) = started
    /\ candidates \subseteq 1..started

HooksOK == \A h \in Hooks : HookOK(hooks[h], started, candidates)

(* No two hooks are at work on one session. *)
Apart ==
    \A g, h \in Hooks :
        hooks[g].at # "idle" /\ hooks[h].at # "idle" /\ Session(hooks[g]) = Session(hooks[h])
            => g = h

LogsOK ==
    /\ LogOK(audits, started)
    /\ tmp # None => LogOK(tmp, started)
    /\ \A h \in Hooks : hooks[h].at \in {"gate", "read"} => Unwritten(Session(hooks[h]))

(* As long as nothing disturbed the log, one process at a time is at it,   *)
(* and what it is about to put in place is what was there and its line.    *)
Undisturbed ==
    /\ disturbed \in BOOLEAN
    /\ Listed(history)
    /\ ~disturbed =>
           /\ Tracks(audits, history)
           /\ \A g, h \in Hooks : Writing(hooks[g]) /\ Writing(hooks[h]) => g = h
           /\ \A h \in Hooks : Writing(hooks[h]) =>
                  Tracks(hooks[h].lines, Append(history, hooks[h].line.session))
           /\ \A h \in Hooks : hooks[h].at = "replace" => tmp = hooks[h].lines

ResultTyped ==
    /\ result # None => result.exit \in {0, 1}
    /\ result # None /\ ~result.refused => result.skipped \in
           {None, "missing_session_closeout_artifact", "memory_closeout_no_candidate",
            "memory_closeout_blocked", "memory_closeout_other", "promotion_not_performed"}

SessionInv ==
    Counted /\ HooksOK /\ Apart /\ LogsOK /\ Undisturbed /\ ResultTyped /\ ResultSound
-----------------------------------------------------------------------------
(* What a closeout is judged to be. *)

LEMMA MissingCloseout ==
    ASSUME NEW found
    PROVE  /\ Status(None, found) = "closeout_missing"
           /\ MemoryTier(None, found) = "none"
           /\ FailureSignals(None, found) # {}
  BY DEF Status, MemoryTier, FailureSignals

LEMMA StatusOfCloseout ==
    ASSUME NEW closeout, closeout # None, NEW found
    PROVE  /\ Status(closeout, found) # "closeout_missing"
           /\ Status(closeout, found) = "schema_invalid" <=> MissingFields(closeout) # {}
           /\ Status(closeout, found) = "valid" <=>
                  /\ MissingFields(closeout) = {} /\ Issues(closeout) = {}
                  /\ Inconsistencies(closeout, found) = {}
<1>1. Evidence(closeout, found) = "inconsistent" <=> Inconsistencies(closeout, found) # {}
  BY DEF Evidence, Inconsistencies
<1> QED
  BY <1>1 DEF Status

LEMMA SignalsOfCloseout ==
    ASSUME NEW closeout, closeout # None, NEW found
    PROVE  Status(closeout, found) = "valid" <=> FailureSignals(closeout, found) = {}
<1>1. FailureSignals(closeout, found) = {} <=>
          /\ MissingFields(closeout) = {}
          /\ Issues(closeout) \intersect closeout.vague = {}
          /\ Issues(closeout) \ closeout.vague = {}
          /\ Inconsistencies(closeout, found) = {}
  BY DEF FailureSignals
<1>2. Issues(closeout) = {} <=>
          /\ Issues(closeout) \intersect closeout.vague = {}
          /\ Issues(closeout) \ closeout.vague = {}
  OBVIOUS
<1> QED
  BY <1>1, <1>2, StatusOfCloseout

(* A closeout that is complete, whose claims are found and anchored.       *)
WellClosed(closeout, found) ==
    /\ closeout # None /\ closeout.given = Fields
    /\ Claims(closeout, "FILES_TOUCHED") => closeout.files \subseteq found
    /\ \A f \in {"WORK_COMPLETED", "CHECKS_RUN"} :
           f \in closeout.anchored \/ f \in closeout.none

LEMMA VerifiedCloseout ==
    ASSUME NEW closeout, NEW found, closeout # None => closeout.given \subseteq Fields,
           MemoryTier(closeout, found) = "verified"
    PROVE  WellClosed(closeout, found)
<1>1. Status(closeout, found) = "valid"
  BY DEF MemoryTier
<1>2. closeout # None
  BY <1>1, MissingCloseout
<1>3. /\ MissingFields(closeout) = {} /\ Issues(closeout) = {}
      /\ Inconsistencies(closeout, found) = {}
  BY <1>1, <1>2, StatusOfCloseout
<1>4. closeout.given = Fields
  BY <1>2, <1>3 DEF MissingFields
<1>5. Claims(closeout, "FILES_TOUCHED") => closeout.files \subseteq found
  BY <1>3 DEF Inconsistencies
<1>6. \A f \in {"WORK_COMPLETED", "CHECKS_RUN"} : f \in closeout.anchored \/ f \in closeout.none
  BY <1>3 DEF Issues
<1> QED
  BY <1>2, <1>4, <1>5, <1>6 DEF WellClosed

LEMMA EffectOfStatus ==
    ASSUME NEW status, NEW tier
    PROVE  Effect(status, tier) = "pass" <=>
               (status = "closeout_missing" => tier \in {"B", "C"})
  BY DEF Effect

LEMMA BaseIsSound ==
    ASSUME NEW hook, hook.at = "gate", NEW n, n \in 0..MaxClosings, NEW fed,
           HookOK(hook, n, fed), NEW policy, NEW base, base = Base(hook, policy)
    PROVE  BaseSound(base, fed) /\ base.id = hook.id
<1> DEFINE in == hook.in
           closeout == in.closeout
           gate == Evaluate(DispositionOf(in.artifact), policy.values,
                            State(in.artifact, in.age, policy.values))
           coverage == policy.values.tier
<1>1. /\ base.id = hook.id /\ base.in = in
      /\ base.status = Status(closeout, in.found)
      /\ base.tier = MemoryTier(closeout, in.found)
      /\ base.fails = FailureSignals(closeout, in.found)
      /\ base.coverage = coverage /\ base.blocked = gate.blocked
      /\ base.ok <=> /\ hook.outcome.ok /\ ~gate.blocked
                     /\ base.status = "valid" \/ Effect(base.status, coverage) = "pass"
      /\ base.promoted = hook.outcome.promoted
  BY DEF Base
<1>2. /\ hook.id \in 1..MaxClosings /\ in \in Inputs[hook.id]
      /\ hook.outcome = Outcome(in.outcome, MemoryTier(closeout, in.found))
      /\ hook.id \in fed => closeout # None /\ MissingFields(closeout) = {}
  BY SessionEndAssumption DEF HookOK, Session
<1>3. /\ in.outcome \in [ok : BOOLEAN, errors : SUBSET STRING, promoted : BOOLEAN,
                         memory : STRING \union {None}]
      /\ closeout # None => closeout.given \subseteq Fields
  BY <1>2, SessionEndAssumption
<1> HIDE DEF in, gate, coverage, closeout
<1>4. /\ hook.outcome.ok = in.outcome.ok
      /\ hook.outcome.promoted => MemoryTier(closeout, in.found) # "none"
  BY <1>2, <1>3 DEF Outcome
<1>5. base.ok <=>
          /\ in.outcome.ok /\ ~base.blocked
          /\ closeout = None => base.coverage \in {"B", "C"}
  <2>1. base.status = "closeout_missing" <=> closeout = None
    BY <1>1, MissingCloseout, StatusOfCloseout
  <2>2. Effect(base.status, coverage) = "pass" <=> (closeout = None => coverage \in {"B", "C"})
    BY <2>1, EffectOfStatus
  <2>3. base.status = "valid" => closeout # None
    BY <2>1
  <2> QED
    BY <1>1, <1>4, <2>2, <2>3
<1>6. base.tier = "verified" => WellClosed(closeout, in.found)
  <2>1. base.tier = "verified" => MemoryTier(closeout, in.found) = "verified"
    BY <1>1, Zenon
  <2>2. closeout # None => closeout.given \subseteq Fields
    BY <1>3, Zenon
  <2> QED
    BY <2>1, <2>2, VerifiedCloseout, Zenon
<1>7. base.promoted => closeout # None
  BY <1>1, <1>4, MissingCloseout
<1>8. base.status = "valid" <=> base.fails = {}
  <2>1. CASE closeout = None
    BY <1>1, <2>1, MissingCloseout
  <2>2. CASE closeout # None
    BY <1>1, <2>2, SignalsOfCloseout
  <2> QED
    BY <2>1, <2>2
<1>9. base.id \in fed => base.status \notin {"closeout_missing", "schema_invalid"}
  BY <1>1, <1>2, StatusOfCloseout
<1> QED
  BY <1>1, <1>5, <1>6, <1>7, <1>8, <1>9 DEF BaseSound, WellClosed, closeout
-----------------------------------------------------------------------------
(* The window the trend is read from. *)

LEMMA ListOfFunction ==
    ASSUME NEW n \in Nat, NEW q, q = [k \in 1..n |-> q[k]]
    PROVE  Listed(q)
<1> DEFINE R == {q[k] : k \in DOMAIN q}
<1>1. q \in [1..n -> R]
  OBVIOUS
<1>2. q \in Seq(R)
  BY <1>1, SeqDef
<1> QED
  BY <1>2 DEF Listed

LEMMA WindowListed ==
    ASSUME NEW lines, Listed(lines)
    PROVE  Listed(WindowOf(lines))
<1> DEFINE s == Sorted(lines)
<1>1. Len(lines) \in Nat /\ DOMAIN lines = 1..Len(lines)
  BY ListedFacts
<1>2. s = [k \in DOMAIN lines |-> s[k]]
  BY DEF Sorted
<1> HIDE DEF s
<1>3. Listed(s)
  BY <1>1, <1>2, ListOfFunction
<1>4. Window \in Nat
  BY SessionEndAssumption
<1>5. Listed(LastN(s, Window))
  BY <1>3, <1>4, LastOnes DEF EndOf
<1> QED
  BY <1>3, <1>5 DEF WindowOf, s

(* A risk is never read out of lines that report nothing. *)
LEMMA RiskShows ==
    ASSUME NEW window, Listed(window), AtRisk(window)
    PROVE  \E i \in DOMAIN window : window[i].signals # {}
<1> DEFINE shown == {i \in DOMAIN window : window[i].signals # {}}
<1>1. Len(window) \in Nat /\ DOMAIN window = 1..Len(window)
  BY ListedFacts
<1>2. Len(window) # 0
  BY EmptySeq DEF AtRisk, Listed
<1>3. ThresholdPercent \in Nat /\ ThresholdPercent >= 1
  BY SessionEndAssumption
<1>4. ThresholdPercent * Len(window) >= 1
  BY <1>1, <1>2, <1>3
<1>5. 100 * Cardinality(shown) >= ThresholdPercent * Len(window)
  BY DEF AtRisk
<1> SUFFICES ASSUME shown = {}
             PROVE  FALSE
  OBVIOUS
<1>6. Cardinality(shown) = 0
  BY FS_EmptySet
<1> HIDE DEF shown
<1> QED
  BY <1>1, <1>3, <1>4, <1>5, <1>6

LEMMA VerdictIsFair ==
    ASSUME NEW ok, NEW blocked, NEW warnings, NEW errors
    PROVE  /\ VerdictOf(ok, blocked, warnings, errors) \in {"OK", "OK+ADVISORIES"} => ok
           /\ VerdictOf(ok, blocked, warnings, errors) = "NON-GATE-FAILURE" => ~ok /\ ~blocked
  BY DEF VerdictOf

LEMMA ResultOfFinish ==
    ASSUME NEW h \in Hooks, Finish(h), BaseSound(hooks[h].base, candidates), Listed(audits)
    PROVE  ResultTyped' /\ ResultSound'
<1> DEFINE base == hooks[h].base
           window == WindowOf(audits)
<1>1. candidates' = candidates
  BY DEF Finish
<1>2. PICK warnings : result' =
          [refused |-> FALSE, exit |-> IF base.ok THEN 0 ELSE 1, base |-> base,
           risk |-> AtRisk(window), degenerate |-> Degenerate(window),
           usage |-> Usage(base.signals, AtRisk(window)), window |-> window,
           verdict |-> VerdictOf(base.ok, base.blocked, warnings, base.errors),
           skipped |-> SkippedReason(base),
           significance |-> Significance(IF base.in.closeout = None THEN {}
                                         ELSE base.in.closeout.intent, base.status)]
  <2>1. PICK traced \in BOOLEAN :
            LET expands == Signals(DispositionOf(base.in.artifact)) # {}
                warnings == base.warnings \union
                    (IF expands /\ ~traced THEN {"taxonomy_expansion_log"} ELSE {})
            IN  result' =
                  [refused |-> FALSE, exit |-> IF base.ok THEN 0 ELSE 1, base |-> base,
                   risk |-> AtRisk(window), degenerate |-> Degenerate(window),
                   usage |-> Usage(base.signals, AtRisk(window)), window |-> window,
                   verdict |-> VerdictOf(base.ok, base.blocked, warnings, base.errors),
                   skipped |-> SkippedReason(base),
                   significance |-> Significance(IF base.in.closeout = None THEN {}
                                                 ELSE base.in.closeout.intent, base.status)]
    BY DEF Finish
  <2> QED
    BY <2>1
<1>3. /\ result'.refused = FALSE /\ result'.exit = (IF base.ok THEN 0 ELSE 1)
      /\ result'.base = base /\ result'.risk = AtRisk(window)
      /\ result'.usage = Usage(base.signals, AtRisk(window)) /\ result'.window = window
      /\ result'.verdict = VerdictOf(base.ok, base.blocked, warnings, base.errors)
      /\ result'.skipped = SkippedReason(base)
  BY <1>2
<1>4. Listed(window)
  BY WindowListed
<1> HIDE DEF base, window
<1>5. ResultTyped'
  BY <1>3 DEF ResultTyped, SkippedReason
<1>6. BaseSound(base, candidates)
  BY DEF base
<1>7. result'.exit = 0 <=> base.ok
  BY <1>3
<1>8. result'.verdict \in {"OK", "OK+ADVISORIES"} => result'.exit = 0
  BY <1>3, <1>7, VerdictIsFair
<1>9. result'.verdict = "NON-GATE-FAILURE" => result'.exit = 1 /\ ~base.blocked
  BY <1>3, <1>7, VerdictIsFair, ZenonT(60)
<1>10. result'.risk => \E i \in DOMAIN window : window[i].signals # {}
  BY <1>3, <1>4, RiskShows
<1>11. result'.usage = "observed" => base.signals = {} /\ ~result'.risk
  BY <1>3 DEF Usage
<1>12. ResultSound'
  BY <1>1, <1>3, <1>6, <1>7, <1>8, <1>9, <1>10, <1>11 DEF ResultSound, BaseSound
<1> QED
  BY <1>5, <1>12
-----------------------------------------------------------------------------
(* One hook moves at a time. *)

LEMMA HookMoves ==
    ASSUME NEW h \in Hooks, NEW x, hooks = [g \in Hooks |-> hooks[g]],
           hooks' = [hooks EXCEPT ![h] = x]
    PROVE  /\ hooks' = [g \in Hooks |-> hooks'[g]]
           /\ hooks'[h] = x
           /\ \A g \in Hooks : g # h => hooks'[g] = hooks[g]
  OBVIOUS

LEMMA AtGateFinite == IsFiniteSet(AtGate) /\ Cardinality(AtGate) \in Nat
<1>1. AtGate \subseteq Hooks /\ IsFiniteSet(Hooks)
  BY SessionEndAssumption DEF AtGate
<1> QED
  BY <1>1, FS_Subset, FS_CardinalityType

(* A move that neither comes to the gate nor leaves it. *)
LEMMA AtGateStays ==
    ASSUME NEW h \in Hooks, hooks[h].at # "gate", hooks'[h].at # "gate",
           \A g \in Hooks : g # h => hooks'[g] = hooks[g]
    PROVE  AtGate' = AtGate
  BY DEF AtGate

LEMMA EmptyLog ==
    ASSUME NEW n \in Nat
    PROVE  LogOK(<<>>, n) /\ SessionsIn(<<>>) = {}
<1>1. LogLimit \in Nat
  BY SessionEndAssumption
<1>2. DOMAIN <<>> = {} /\ Len(<<>>) = 0
  OBVIOUS
<1>3. Listed(<<>>)
  BY EmptySeq DEF Listed
<1> QED
  BY <1>1, <1>2, <1>3 DEF LogOK, Distinct, SessionsIn

LEMMA LogGrows ==
    ASSUME NEW n \in Nat, NEW lines, LogOK(lines, n)
    PROVE  LogOK(lines, n + 1) /\ n + 1 \notin SessionsIn(lines)
  BY DEF LogOK

LEMMA HookGrows ==
    ASSUME NEW n \in Nat, NEW fed, fed \subseteq 1..n, NEW more, more \in SUBSET {n + 1},
           NEW hook, HookOK(hook, n, fed)
    PROVE  HookOK(hook, n + 1, fed \union more)
<1>1. hook.at # "idle" => Session(hook) \in 1..n /\ Session(hook) \in 1..(n + 1)
                             /\ (Session(hook) \in fed \union more => Session(hook) \in fed)
  BY DEF HookOK
<1>2. CASE hook.at = "idle"
  BY <1>2 DEF HookOK, Writing
<1>3. CASE hook.at = "gate"
  BY <1>1, <1>3 DEF HookOK, Session, Writing
<1>4. CASE hook.at \notin {"idle", "gate"}
  <2>1. hook.base.id \in fed \union more => hook.base.id \in fed
    BY <1>1, <1>4 DEF Session
  <2>2. BaseSound(hook.base, fed)
    BY <1>4 DEF HookOK
  <2>3. BaseSound(hook.base, fed \union more)
    BY <2>1, <2>2 DEF BaseSound
  <2>4. Writing(hook) => LogOK(hook.lines, n + 1)
    BY LogGrows DEF HookOK
  <2> QED
    BY <1>1, <1>4, <2>3, <2>4 DEF HookOK
<1> QED
  BY <1>2, <1>3, <1>4

LEMMA StartKeeps ==
    ASSUME SessionInv, NEW h \in Hooks, Start(h)
    PROVE  SessionInv'
<1>1. /\ hooks = [g \in Hooks |-> hooks[g]]
      /\ started \in Nat /\ started < MaxClosings /\ MaxClosings \in Nat /\ started' = started + 1
      /\ faults' = faults /\ clock' = clock /\ result' = None
      /\ audits' = audits /\ tmp' = tmp /\ history' = history /\ disturbed' = disturbed
      /\ hooks[h].at = "idle"
  BY SessionEndAssumption DEF SessionInv, Counted, Start
<1>2. PICK in \in Inputs[started + 1] :
          /\ hooks' = [hooks EXCEPT ![h] =
                [at |-> "gate", id |-> started + 1, in |-> in,
                 outcome |-> Outcome(in.outcome, MemoryTier(in.closeout, in.found))]]
          /\ candidates' = IF in.closeout # None /\ MissingFields(in.closeout) = {}
                           THEN candidates \union {started + 1} ELSE candidates
  BY DEF Start
<1>3. /\ hooks' = [g \in Hooks |-> hooks'[g]]
      /\ hooks'[h] = [at |-> "gate", id |-> started + 1, in |-> in,
                      outcome |-> Outcome(in.outcome, MemoryTier(in.closeout, in.found))]
      /\ \A g \in Hooks : g # h => hooks'[g] = hooks[g]
  BY <1>1, <1>2, HookMoves
<1>4. /\ hooks'[h].at = "gate" /\ hooks'[h].id = started + 1 /\ hooks'[h].in = in
      /\ hooks'[h].outcome = Outcome(in.outcome, MemoryTier(in.closeout, in.found))
      /\ Session(hooks'[h]) = started + 1
      /\ ~Writing(hooks'[h]) /\ ~Writing(hooks[h])
  BY <1>1, <1>3 DEF Session, Writing
<1>5. \A g \in Hooks : hooks[g].at # "idle" => Session(hooks[g]) \in 1..started
  BY DEF SessionInv, HooksOK, HookOK
<1>6. candidates \subseteq 1..started
  BY DEF SessionInv, Counted
<1>7. PICK more \in SUBSET {started + 1} :
          /\ candidates' = candidates \union more
          /\ more # {} => in.closeout # None /\ MissingFields(in.closeout) = {}
  <2>1. CASE in.closeout # None /\ MissingFields(in.closeout) = {}
    <3>1. candidates' = candidates \union {started + 1}
      BY <1>2, <2>1
    <3> QED
      BY <2>1, <3>1
  <2>2. CASE ~(in.closeout # None /\ MissingFields(in.closeout) = {})
    <3>1. candidates' = candidates \union {}
      BY <1>2, <2>2
    <3> QED
      BY <3>1
  <2> QED
    BY <2>1, <2>2
<1>8. Counted'
  <2>1. AtGate' = AtGate \union {h} /\ h \notin AtGate
    BY <1>1, <1>3, <1>4 DEF AtGate
  <2>2. Cardinality(AtGate') = Cardinality(AtGate) + 1
    BY <2>1, AtGateFinite, FS_AddElement
  <2>3. clock \in Nat /\ clock + Cardinality(AtGate) = started
    BY DEF SessionInv, Counted
  <2>4. clock' + Cardinality(AtGate') = started'
    BY <1>1, <2>2, <2>3, AtGateFinite
  <2>5. started' \in 0..MaxClosings
    BY <1>1
  <2>6. candidates' \subseteq 1..started'
    BY <1>1, <1>6, <1>7
  <2> QED
    BY <1>1, <1>3, <2>3, <2>4, <2>5, <2>6 DEF Counted, SessionInv
<1>9. HooksOK'
  <2> SUFFICES ASSUME NEW g \in Hooks
               PROVE  HookOK(hooks'[g], started + 1, candidates \union more)
    BY <1>1, <1>7 DEF HooksOK
  <2>1. CASE g = h
    <3>1. started + 1 \in 1..(started + 1) /\ started + 1 \notin candidates
      BY <1>1, <1>6
    <3>2. started + 1 \in candidates \union more
              => in.closeout # None /\ MissingFields(in.closeout) = {}
      BY <1>7, <3>1
    <3> QED
      BY <1>2, <1>4, <2>1, <3>1, <3>2 DEF HookOK
  <2>2. CASE g # h
    <3>1. HookOK(hooks[g], started, candidates)
      BY DEF SessionInv, HooksOK
    <3> QED
      BY <1>1, <1>3, <1>6, <2>2, <3>1, HookGrows
  <2> QED
    BY <2>1, <2>2
<1>10. Apart'
  <2> SUFFICES ASSUME NEW f \in Hooks, NEW g \in Hooks, hooks'[f].at # "idle",
                      hooks'[g].at # "idle", Session(hooks'[f]) = Session(hooks'[g])
               PROVE  f = g
    BY DEF Apart, Session
  <2>1. \A e \in Hooks : e # h /\ hooks'[e].at # "idle" => Session(hooks'[e]) # started + 1
    BY <1>1, <1>3, <1>5
  <2>2. CASE f = h \/ g = h
    BY <1>4, <2>1, <2>2
  <2>3. CASE f # h /\ g # h
    BY <1>3, <2>3 DEF SessionInv, Apart
  <2> QED
    BY <2>2, <2>3
<1>11. LogsOK'
  <2>1. LogOK(audits, started) /\ (tmp # None => LogOK(tmp, started))
    BY DEF SessionInv, LogsOK
  <2>2. LogOK(audits', started') /\ (tmp' # None => LogOK(tmp', started'))
    BY <1>1, <2>1, LogGrows
  <2>3. ASSUME NEW g \in Hooks, Writing(hooks'[g])
        PROVE  Writing(hooks[g]) /\ hooks'[g] = hooks[g] /\ LogOK(hooks[g].lines, started)
    BY <1>3, <1>4, <2>3 DEF SessionInv, HooksOK, HookOK
  <2>4. ASSUME NEW g \in Hooks, hooks'[g].at \in {"gate", "read"}
        PROVE  /\ Session(hooks'[g]) \notin SessionsIn(audits)
               /\ tmp # None => Session(hooks'[g]) \notin SessionsIn(tmp)
               /\ \A f \in Hooks : Writing(hooks'[f])
                      => Session(hooks'[g]) \notin SessionsIn(hooks'[f].lines)
    <3>1. CASE g = h
      BY <1>1, <1>4, <2>1, <2>3, <3>1, LogGrows
    <3>2. CASE g # h
      <4>1. Unwritten(Session(hooks[g])) /\ hooks'[g] = hooks[g]
        BY <1>3, <2>4, <3>2 DEF SessionInv, LogsOK
      <4> QED
        BY <2>3, <4>1 DEF Unwritten
    <3> QED
      BY <3>1, <3>2
  <2> QED
    BY <1>1, <2>2, <2>4 DEF LogsOK, Unwritten, Session, Writing
<1>12. Undisturbed'
  <2>1. \A g \in Hooks : hooks'[g].at \in {"write", "replace"} => hooks'[g] = hooks[g]
    BY <1>3, <1>4 DEF Writing
  <2> QED
    BY <1>1, <2>1 DEF SessionInv, Undisturbed, Writing
<1>13. ResultTyped' /\ ResultSound'
  BY <1>1 DEF ResultTyped, ResultSound
<1> QED
  BY <1>8, <1>9, <1>10, <1>11, <1>12, <1>13 DEF SessionInv
LEMMA GateKeeps ==
    ASSUME SessionInv, NEW h \in Hooks, Gate(h)
    PROVE  SessionInv'
<1> DEFINE policy == Load(hooks[h].in.setting.local, hooks[h].in.setting.shipped,
                          hooks[h].in.setting.yaml)
<1>1. /\ hooks = [g \in Hooks |-> hooks[g]]
      /\ started \in 0..MaxClosings /\ MaxClosings \in Nat /\ started' = started
      /\ faults' = faults /\ clock' = clock + 1 /\ candidates' = candidates
      /\ audits' = audits /\ tmp' = tmp /\ history' = history /\ disturbed' = disturbed
      /\ hooks[h].at = "gate"
  BY SessionEndAssumption DEF SessionInv, Counted, Gate
<1>2. \/ /\ hooks' = [hooks EXCEPT ![h] = Idle]
         /\ result'.refused = TRUE /\ result'.exit = 1
      \/ /\ hooks' = [hooks EXCEPT ![h] =
                [at |-> "read", stamp |-> clock, base |-> Base(hooks[h], policy)]]
         /\ result' = result
  BY DEF Gate
<1>3. HookOK(hooks[h], started, candidates)
  BY DEF SessionInv, HooksOK
<1>4. BaseSound(Base(hooks[h], policy), candidates) /\ Base(hooks[h], policy).id = hooks[h].id
  BY <1>1, <1>3, BaseIsSound
<1> HIDE DEF policy
<1>5. PICK x : /\ hooks' = [hooks EXCEPT ![h] = x]
               /\ \/ x = Idle
                  \/ /\ x.at = "read" /\ BaseSound(x.base, candidates)
                     /\ x.base.id = hooks[h].id
  BY <1>2, <1>4
<1>6. /\ hooks' = [g \in Hooks |-> hooks'[g]]
      /\ hooks'[h] = x
      /\ \A g \in Hooks : g # h => hooks'[g] = hooks[g]
  BY <1>1, <1>5, HookMoves
<1>7. /\ hooks'[h].at \in {"idle", "read"} /\ ~Writing(hooks'[h]) /\ ~Writing(hooks[h])
      /\ hooks'[h].at = "read" => Session(hooks'[h]) = Session(hooks[h])
                                     /\ BaseSound(hooks'[h].base, candidates)
  BY <1>1, <1>5, <1>6 DEF Session, Writing, Idle
<1>8. Counted'
  <2>1. AtGate' = AtGate \ {h} /\ h \in AtGate
    BY <1>1, <1>6, <1>7 DEF AtGate
  <2>2. Cardinality(AtGate') = Cardinality(AtGate) - 1
    BY <2>1, AtGateFinite, FS_RemoveElement
  <2>3. clock \in Nat /\ clock + Cardinality(AtGate) = started
    BY DEF SessionInv, Counted
  <2>4. clock' \in Nat /\ clock' + Cardinality(AtGate') = started'
    BY <1>1, <2>2, <2>3, AtGateFinite
  <2> QED
    BY <1>1, <1>6, <2>4 DEF Counted, SessionInv
<1>9. HooksOK'
  <2> SUFFICES ASSUME NEW g \in Hooks
               PROVE  HookOK(hooks'[g], started, candidates)
    BY <1>1 DEF HooksOK
  <2>1. CASE g = h
    BY <1>1, <1>3, <1>7, <2>1 DEF HookOK
  <2>2. CASE g # h
    BY <1>6, <2>2 DEF SessionInv, HooksOK
  <2> QED
    BY <2>1, <2>2
<1>10. Apart'
  <2> SUFFICES ASSUME NEW f \in Hooks, NEW g \in Hooks, hooks'[f].at # "idle",
                      hooks'[g].at # "idle", Session(hooks'[f]) = Session(hooks'[g])
               PROVE  f = g
    BY DEF Apart, Session
  <2>1. \A e \in Hooks : hooks'[e].at # "idle"
            => hooks[e].at # "idle" /\ Session(hooks'[e]) = Session(hooks[e])
    BY <1>1, <1>6, <1>7
  <2> QED
    BY <2>1 DEF SessionInv, Apart
<1>11. LogsOK'
  <2>1. \A g \in Hooks : Writing(hooks'[g]) => Writing(hooks[g]) /\ hooks'[g] = hooks[g]
    BY <1>6, <1>7
  <2>2. ASSUME NEW g \in Hooks, hooks'[g].at \in {"gate", "read"}
        PROVE  /\ Session(hooks'[g]) \notin SessionsIn(audits)
               /\ tmp # None => Session(hooks'[g]) \notin SessionsIn(tmp)
               /\ \A f \in Hooks : Writing(hooks'[f])
                      => Session(hooks'[g]) \notin SessionsIn(hooks'[f].lines)
    <3>1. hooks[g].at \in {"gate", "read"} /\ Session(hooks'[g]) = Session(hooks[g])
      BY <1>1, <1>6, <1>7, <2>2
    <3>2. Unwritten(Session(hooks[g]))
      BY <3>1 DEF SessionInv, LogsOK
    <3> QED
      BY <2>1, <3>1, <3>2 DEF Unwritten
  <2> QED
    BY <1>1, <2>2 DEF SessionInv, LogsOK, Unwritten, Session, Writing
<1>12. Undisturbed'
  <2>1. \A g \in Hooks : hooks'[g].at \in {"write", "replace"} => hooks'[g] = hooks[g]
    BY <1>6, <1>7 DEF Writing
  <2> QED
    BY <1>1, <2>1 DEF SessionInv, Undisturbed, Writing
<1>13. ResultTyped' /\ ResultSound'
  BY <1>1, <1>2 DEF SessionInv, ResultTyped, ResultSound
<1> QED
  BY <1>8, <1>9, <1>10, <1>11, <1>12, <1>13 DEF SessionInv

(* Whatever a hook reads, the log or nothing, its own line is new to it.   *)
LEMMA ReadKeeps ==
    ASSUME SessionInv, NEW h \in Hooks, ReadAudits(h) \/ ReadFails(h)
    PROVE  SessionInv'
<1>1. PICK existing \in {audits, <<>>} :
          /\ ReadLog(h, existing)
          /\ disturbed' \in BOOLEAN
          /\ ~disturbed' => existing = audits /\ ~disturbed /\ ~Holding(h)
          /\ faults' \in 0..MaxFaults
  <2>1. disturbed \in BOOLEAN /\ faults \in 0..MaxFaults /\ MaxFaults \in Nat
    BY SessionEndAssumption DEF SessionInv, Undisturbed, Counted
  <2>2. CASE ReadAudits(h)
    <3>1. ReadLog(h, audits) /\ disturbed' = (disturbed \/ Holding(h)) /\ faults' = faults
      BY <2>2 DEF ReadAudits
    <3> QED
      BY <2>1, <3>1
  <2>3. CASE ReadFails(h)
    <3>1. ReadLog(h, <<>>) /\ disturbed' = TRUE /\ faults' = faults + 1 /\ faults < MaxFaults
      BY <2>3 DEF ReadFails
    <3> QED
      BY <2>1, <3>1
  <2> QED
    BY <2>2, <2>3
<1> DEFINE e == Line(hooks[h])
           lines == Rotated(Append(existing, e))
<1>2. /\ hooks = [g \in Hooks |-> hooks[g]]
      /\ started \in 0..MaxClosings /\ MaxClosings \in Nat /\ started' = started
      /\ clock' = clock /\ candidates' = candidates
      /\ audits' = audits /\ tmp' = tmp /\ history' = history /\ result' = result
      /\ hooks[h].at = "read"
      /\ hooks' = [hooks EXCEPT ![h] =
             [at |-> "write", base |-> hooks[h].base, line |-> e, lines |-> lines]]
  BY <1>1, SessionEndAssumption DEF SessionInv, Counted, ReadLog
<1>3. HookOK(hooks[h], started, candidates) /\ Unwritten(Session(hooks[h]))
  BY <1>2 DEF SessionInv, HooksOK, LogsOK
<1>4. /\ BaseSound(hooks[h].base, candidates)
      /\ Session(hooks[h]) = hooks[h].base.id /\ hooks[h].base.id \in 1..started
      /\ e.session = hooks[h].base.id
  BY <1>2, <1>3 DEF HookOK, Session, Line
<1>5. LogOK(existing, started) /\ hooks[h].base.id \notin SessionsIn(existing)
  <2>1. LogOK(<<>>, started) /\ SessionsIn(<<>>) = {}
    BY EmptyLog, <1>2
  <2> QED
    BY <1>1, <1>3, <1>4, <2>1 DEF SessionInv, LogsOK, Unwritten
<1> HIDE DEF e, lines
<1>6. LogOK(lines, started) /\ SessionsIn(lines) \subseteq SessionsIn(existing) \union {e.session}
  BY <1>2, <1>4, <1>5, RotatedLog DEF lines
<1>7. /\ hooks' = [g \in Hooks |-> hooks'[g]]
      /\ hooks'[h] = [at |-> "write", base |-> hooks[h].base, line |-> e, lines |-> lines]
      /\ \A g \in Hooks : g # h => hooks'[g] = hooks[g]
  BY <1>2, HookMoves
<1>8. /\ hooks'[h].at = "write" /\ hooks'[h].base = hooks[h].base /\ hooks'[h].line = e
      /\ hooks'[h].lines = lines
      /\ Session(hooks'[h]) = Session(hooks[h])
      /\ Writing(hooks'[h]) /\ ~Writing(hooks[h])
  BY <1>2, <1>7 DEF Session, Writing
<1>9. Counted'
  <2>1. AtGate' = AtGate
    BY <1>2, <1>7, <1>8, AtGateStays
  <2> QED
    BY <1>1, <1>2, <1>7, <2>1 DEF Counted, SessionInv
<1>10. HooksOK'
  <2> SUFFICES ASSUME NEW g \in Hooks
               PROVE  HookOK(hooks'[g], started, candidates)
    BY <1>2 DEF HooksOK
  <2>1. CASE g = h
    BY <1>4, <1>6, <1>7, <1>8, <2>1 DEF HookOK
  <2>2. CASE g # h
    BY <1>7, <2>2 DEF SessionInv, HooksOK
  <2> QED
    BY <2>1, <2>2
<1>11. Apart'
  <2> SUFFICES ASSUME NEW f \in Hooks, NEW g \in Hooks, hooks'[f].at # "idle",
                      hooks'[g].at # "idle", Session(hooks'[f]) = Session(hooks'[g])
               PROVE  f = g
    BY DEF Apart, Session
  <2>1. \A k \in Hooks : hooks'[k].at # "idle"
            => hooks[k].at # "idle" /\ Session(hooks'[k]) = Session(hooks[k])
    BY <1>2, <1>7, <1>8
  <2> QED
    BY <2>1 DEF SessionInv, Apart
<1>12. LogsOK'
  <2>1. ASSUME NEW g \in Hooks, hooks'[g].at \in {"gate", "read"}
        PROVE  /\ Session(hooks'[g]) \notin SessionsIn(audits)
               /\ tmp # None => Session(hooks'[g]) \notin SessionsIn(tmp)
               /\ \A f \in Hooks : Writing(hooks'[f])
                      => Session(hooks'[g]) \notin SessionsIn(hooks'[f].lines)
    <3>1. g # h /\ hooks'[g] = hooks[g] /\ hooks[g].at # "idle" /\ hooks[h].at # "idle"
      BY <1>2, <1>7, <1>8, <2>1
    <3>2. Unwritten(Session(hooks[g]))
      BY <2>1, <3>1 DEF SessionInv, LogsOK
    <3>3. Session(hooks[g]) # e.session
      BY <1>4, <3>1 DEF SessionInv, Apart
    <3>4. Session(hooks[g]) \notin SessionsIn(existing)
      BY <1>1, <3>2, EmptyLog, <1>2 DEF Unwritten
    <3>5. ASSUME NEW f \in Hooks, Writing(hooks'[f])
          PROVE  Session(hooks'[g]) \notin SessionsIn(hooks'[f].lines)
      <4>1. CASE f = h
        BY <1>6, <1>8, <3>1, <3>3, <3>4, <4>1
      <4>2. CASE f # h
        BY <1>7, <3>1, <3>2, <3>5, <4>2 DEF Unwritten
      <4> QED
        BY <4>1, <4>2
    <3> QED
      BY <3>1, <3>2, <3>5 DEF Unwritten
  <2> QED
    BY <1>2, <2>1 DEF SessionInv, LogsOK, Unwritten, Session, Writing
<1>13. Undisturbed'
  <2>1. Listed(history)
    BY DEF SessionInv, Undisturbed
  <2> SUFFICES ASSUME ~disturbed'
               PROVE  /\ Tracks(audits, history)
                      /\ \A g \in Hooks : Writing(hooks'[g]) => g = h
                      /\ Tracks(lines, Append(history, e.session))
    BY <1>1, <1>2, <1>8, <2>1 DEF Undisturbed, Writing
  <2>2. existing = audits /\ ~disturbed /\ ~Holding(h)
    BY <1>1
  <2>3. Tracks(audits, history)
    BY <2>2 DEF SessionInv, Undisturbed
  <2>4. \A g \in Hooks : Writing(hooks'[g]) => g = h
    BY <1>7, <2>2 DEF Holding, Writing
  <2>5. Listed(audits) /\ Len(audits) <= LogLimit
    BY DEF SessionInv, LogsOK, LogOK
  <2>6. Tracks(lines, Append(history, e.session))
    BY <2>1, <2>2, <2>3, <2>5, RotatedTracks DEF lines
  <2> QED
    BY <2>3, <2>4, <2>6
<1>14. ResultTyped' /\ ResultSound'
  BY <1>2 DEF SessionInv, ResultTyped, ResultSound
<1> QED
  BY <1>9, <1>10, <1>11, <1>12, <1>13, <1>14 DEF SessionInv
LEMMA WriteKeeps ==
    ASSUME SessionInv, NEW h \in Hooks, WriteTmp(h)
    PROVE  SessionInv'
<1> DEFINE x == [hooks[h] EXCEPT !.at = "replace"]
<1>1. /\ hooks = [g \in Hooks |-> hooks[g]]
      /\ started' = started /\ faults' = faults
      /\ clock' = clock /\ candidates' = candidates
      /\ audits' = audits /\ history' = history /\ disturbed' = disturbed /\ result' = result
      /\ hooks[h].at = "write" /\ tmp' = hooks[h].lines
      /\ hooks' = [hooks EXCEPT ![h] = x]
  BY DEF SessionInv, Counted, WriteTmp
<1>2. HookOK(hooks[h], started, candidates) /\ Writing(hooks[h])
  BY <1>1 DEF SessionInv, HooksOK, Writing
<1>3. x = [at |-> "replace", base |-> hooks[h].base, line |-> hooks[h].line,
           lines |-> hooks[h].lines]
  BY <1>2 DEF HookOK
<1> HIDE DEF x
<1>4. /\ hooks' = [g \in Hooks |-> hooks'[g]]
      /\ hooks'[h] = x
      /\ \A g \in Hooks : g # h => hooks'[g] = hooks[g]
  BY <1>1, HookMoves
<1>5. /\ hooks'[h].at = "replace" /\ hooks'[h].base = hooks[h].base
      /\ hooks'[h].line = hooks[h].line /\ hooks'[h].lines = hooks[h].lines
      /\ Session(hooks'[h]) = Session(hooks[h]) /\ Writing(hooks'[h])
  BY <1>1, <1>3, <1>4 DEF Session, Writing
<1>6. LogOK(hooks[h].lines, started)
  BY <1>2 DEF HookOK
<1>7. Counted'
  <2>1. AtGate' = AtGate
    BY <1>1, <1>4, <1>5, AtGateStays
  <2> QED
    BY <1>1, <1>4, <2>1 DEF Counted, SessionInv
<1>8. HooksOK'
  <2> SUFFICES ASSUME NEW g \in Hooks
               PROVE  HookOK(hooks'[g], started, candidates)
    BY <1>1 DEF HooksOK
  <2>1. CASE g = h
    BY <1>1, <1>2, <1>3, <1>4, <1>5, <2>1 DEF HookOK
  <2>2. CASE g # h
    BY <1>4, <2>2 DEF SessionInv, HooksOK
  <2> QED
    BY <2>1, <2>2
<1>9. Apart'
  <2> SUFFICES ASSUME NEW f \in Hooks, NEW g \in Hooks, hooks'[f].at # "idle",
                      hooks'[g].at # "idle", Session(hooks'[f]) = Session(hooks'[g])
               PROVE  f = g
    BY DEF Apart, Session
  <2>1. \A k \in Hooks : hooks'[k].at # "idle"
            => hooks[k].at # "idle" /\ Session(hooks'[k]) = Session(hooks[k])
    BY <1>1, <1>4, <1>5
  <2> QED
    BY <2>1 DEF SessionInv, Apart
<1>10. LogsOK'
  <2>1. ASSUME NEW g \in Hooks, Writing(hooks'[g])
        PROVE  Writing(hooks[g]) /\ hooks'[g].lines = hooks[g].lines
    BY <1>2, <1>4, <1>5, <2>1
  <2>2. ASSUME NEW g \in Hooks, hooks'[g].at \in {"gate", "read"}
        PROVE  /\ Session(hooks'[g]) \notin SessionsIn(audits)
               /\ Session(hooks'[g]) \notin SessionsIn(hooks[h].lines)
               /\ \A f \in Hooks : Writing(hooks'[f])
                      => Session(hooks'[g]) \notin SessionsIn(hooks'[f].lines)
    <3>1. hooks'[g] = hooks[g]
      BY <1>4, <1>5, <2>2
    <3>2. Unwritten(Session(hooks[g]))
      BY <2>2, <3>1 DEF SessionInv, LogsOK
    <3> QED
      BY <1>2, <2>1, <3>1, <3>2 DEF Unwritten
  <2> QED
    BY <1>1, <1>6, <2>2 DEF SessionInv, LogsOK, Unwritten, Session, Writing
<1>11. Undisturbed'
  <2>1. \A g \in Hooks : Writing(hooks'[g])
            => Writing(hooks[g]) /\ hooks'[g].lines = hooks[g].lines /\ hooks'[g].line = hooks[g].line
    BY <1>2, <1>4, <1>5
  <2>2. ASSUME ~disturbed, NEW g \in Hooks, hooks'[g].at = "replace"
        PROVE  tmp' = hooks'[g].lines
    <3>1. Writing(hooks'[g]) /\ Writing(hooks[g])
      BY <2>1, <2>2 DEF Writing
    <3>2. g = h
      BY <1>2, <2>2, <3>1 DEF SessionInv, Undisturbed
    <3> QED
      BY <1>1, <1>5, <3>2
  <2> QED
    BY <1>1, <2>1, <2>2 DEF SessionInv, Undisturbed, Writing
<1>12. ResultTyped' /\ ResultSound'
  BY <1>1 DEF SessionInv, ResultTyped, ResultSound
<1> QED
  BY <1>7, <1>8, <1>9, <1>10, <1>11, <1>12 DEF SessionInv

(* Only here does the log change: into whatever the temporary file holds.  *)
LEMMA ReplaceKeeps ==
    ASSUME SessionInv, NEW h \in Hooks, Replace(h)
    PROVE  SessionInv'
<1>1. /\ hooks = [g \in Hooks |-> hooks[g]]
      /\ started' = started /\ faults' = faults
      /\ clock' = clock /\ candidates' = candidates
      /\ tmp' = None /\ disturbed' = disturbed /\ result' = result
      /\ hooks[h].at = "replace"
      /\ hooks' = [hooks EXCEPT ![h] = [at |-> "report", base |-> hooks[h].base]]
  BY DEF SessionInv, Counted, Replace
<1>2. \/ tmp = None /\ audits' = audits /\ history' = history
      \/ /\ tmp # None /\ audits' = tmp
         /\ history' = Append(history, hooks[h].line.session)
  BY DEF Replace
<1>3. HookOK(hooks[h], started, candidates) /\ Writing(hooks[h])
  BY <1>1 DEF SessionInv, HooksOK, Writing
<1>4. /\ hooks' = [g \in Hooks |-> hooks'[g]]
      /\ hooks'[h] = [at |-> "report", base |-> hooks[h].base]
      /\ \A g \in Hooks : g # h => hooks'[g] = hooks[g]
  BY <1>1, HookMoves
<1>5. /\ hooks'[h].at = "report" /\ hooks'[h].base = hooks[h].base
      /\ Session(hooks'[h]) = Session(hooks[h]) /\ ~Writing(hooks'[h])
  BY <1>1, <1>4 DEF Session, Writing
<1>6. Counted'
  <2>1. AtGate' = AtGate
    BY <1>1, <1>4, <1>5, AtGateStays
  <2> QED
    BY <1>1, <1>4, <2>1 DEF Counted, SessionInv
<1>7. HooksOK'
  <2> SUFFICES ASSUME NEW g \in Hooks
               PROVE  HookOK(hooks'[g], started, candidates)
    BY <1>1 DEF HooksOK
  <2>1. CASE g = h
    BY <1>1, <1>3, <1>5, <2>1 DEF HookOK
  <2>2. CASE g # h
    BY <1>4, <2>2 DEF SessionInv, HooksOK
  <2> QED
    BY <2>1, <2>2
<1>8. Apart'
  <2> SUFFICES ASSUME NEW f \in Hooks, NEW g \in Hooks, hooks'[f].at # "idle",
                      hooks'[g].at # "idle", Session(hooks'[f]) = Session(hooks'[g])
               PROVE  f = g
    BY DEF Apart, Session
  <2>1. \A k \in Hooks : hooks'[k].at # "idle"
            => hooks[k].at # "idle" /\ Session(hooks'[k]) = Session(hooks[k])
    BY <1>1, <1>4, <1>5
  <2> QED
    BY <2>1 DEF SessionInv, Apart
<1>9. \A g \in Hooks : Writing(hooks'[g]) => Writing(hooks[g]) /\ hooks'[g] = hooks[g] /\ g # h
  BY <1>4, <1>5
<1>10. LogsOK'
  <2>1. LogOK(audits', started')
    BY <1>1, <1>2 DEF SessionInv, LogsOK
  <2>2. ASSUME NEW g \in Hooks, hooks'[g].at \in {"gate", "read"}
        PROVE  /\ Session(hooks'[g]) \notin SessionsIn(audits')
               /\ \A f \in Hooks : Writing(hooks'[f])
                      => Session(hooks'[g]) \notin SessionsIn(hooks'[f].lines)
    <3>1. hooks'[g] = hooks[g]
      BY <1>4, <1>5, <2>2
    <3>2. Unwritten(Session(hooks[g]))
      BY <2>2, <3>1 DEF SessionInv, LogsOK
    <3> QED
      BY <1>2, <1>9, <3>1, <3>2 DEF Unwritten
  <2>3. ASSUME NEW g \in Hooks, hooks'[g].at \in {"gate", "read"}
        PROVE  Unwritten(Session(hooks[g]))'
    BY <1>1, <2>2, <2>3 DEF Unwritten, Session, Writing
  <2> QED
    BY <1>1, <2>1, <2>3 DEF LogsOK
<1>11. Undisturbed'
  <2>1. disturbed' \in BOOLEAN /\ Listed(history)
    BY <1>1 DEF SessionInv, Undisturbed
  <2>2. Listed(history')
    <3> DEFINE longer == Append(history, hooks[h].line.session)
    <3>1. Listed(longer)
      BY <2>1, ListedAppend
    <3> HIDE DEF longer
    <3>2. history' = history \/ history' = longer
      BY <1>2 DEF longer
    <3> QED
      BY <2>1, <3>1, <3>2
  <2>3. ASSUME ~disturbed'
        PROVE  Tracks(audits', history') /\ \A g \in Hooks : ~Writing(hooks'[g])
    <3>1. /\ tmp = hooks[h].lines
          /\ Tracks(audits, history)
          /\ Tracks(hooks[h].lines, Append(history, hooks[h].line.session))
          /\ \A g \in Hooks : Writing(hooks[g]) => g = h
      BY <1>1, <1>3, <2>3 DEF SessionInv, Undisturbed
    <3> QED
      BY <1>2, <1>9, <3>1
  <2> QED
    BY <2>1, <2>2, <2>3 DEF Undisturbed, Writing
<1>12. ResultTyped' /\ ResultSound'
  BY <1>1 DEF SessionInv, ResultTyped, ResultSound
<1> QED
  BY <1>6, <1>7, <1>8, <1>10, <1>11, <1>12 DEF SessionInv

LEMMA FinishKeeps ==
    ASSUME SessionInv, NEW h \in Hooks, Finish(h)
    PROVE  SessionInv'
<1>1. /\ hooks = [g \in Hooks |-> hooks[g]]
      /\ started' = started /\ faults' = faults /\ clock' = clock /\ candidates' = candidates
      /\ audits' = audits /\ tmp' = tmp /\ history' = history /\ disturbed' = disturbed
      /\ hooks[h].at = "report"
      /\ hooks' = [hooks EXCEPT ![h] = Idle]
  BY DEF SessionInv, Counted, Finish
<1>2. HookOK(hooks[h], started, candidates)
  BY DEF SessionInv, HooksOK
<1>3. /\ hooks' = [g \in Hooks |-> hooks'[g]]
      /\ hooks'[h] = Idle
      /\ \A g \in Hooks : g # h => hooks'[g] = hooks[g]
  BY <1>1, HookMoves
<1>4. hooks'[h].at = "idle" /\ ~Writing(hooks'[h])
  BY <1>3 DEF Idle, Writing
<1>5. \A g \in Hooks : hooks'[g].at # "idle" => hooks'[g] = hooks[g]
  BY <1>3, <1>4
<1>6. Counted'
  <2>1. AtGate' = AtGate
    BY <1>1, <1>3, <1>4, AtGateStays
  <2> QED
    BY <1>1, <1>3, <2>1 DEF Counted, SessionInv
<1>7. HooksOK'
  <2> SUFFICES ASSUME NEW g \in Hooks
               PROVE  HookOK(hooks'[g], started, candidates)
    BY <1>1 DEF HooksOK
  <2>1. CASE g = h
    BY <1>4, <2>1 DEF HookOK
  <2>2. CASE g # h
    BY <1>3, <2>2 DEF SessionInv, HooksOK
  <2> QED
    BY <2>1, <2>2
<1>8. Apart'
  BY <1>5 DEF SessionInv, Apart, Session
<1>9. LogsOK'
  BY <1>1, <1>5 DEF SessionInv, LogsOK, Unwritten, Session, Writing
<1>10. Undisturbed'
  BY <1>1, <1>5 DEF SessionInv, Undisturbed, Writing
<1>11. BaseSound(hooks[h].base, candidates)
  BY <1>1, <1>2 DEF HookOK
<1>12. ResultTyped' /\ ResultSound'
  BY <1>11, ResultOfFinish DEF SessionInv, LogsOK, LogOK
<1> QED
  BY <1>6, <1>7, <1>8, <1>9, <1>10, <1>12 DEF SessionInv

-----------------------------------------------------------------------------
LEMMA SessionInitially == SessionInit => SessionInv
<1> SUFFICES ASSUME SessionInit
             PROVE  SessionInv
  OBVIOUS
<1>1. /\ hooks = [h \in Hooks |-> Idle] /\ \A h \in Hooks : hooks[h].at = "idle"
      /\ candidates = {} /\ audits = <<>> /\ tmp = None
      /\ history = <<>> /\ disturbed = FALSE /\ result = None
      /\ clock = 0 /\ started = 0 /\ faults = 0
  BY DEF SessionInit, Idle
<1>2. {MaxClosings, MaxFaults, LogLimit} \subseteq Nat
  BY SessionEndAssumption
<1>3. Counted
  <2>1. AtGate = {}
    BY <1>1 DEF AtGate
  <2> QED
    BY <1>1, <1>2, <2>1, FS_EmptySet DEF Counted
<1>4. HooksOK
  BY <1>1 DEF HooksOK, HookOK, Writing
<1>5. Apart
  BY <1>1 DEF Apart
<1>6. LogsOK
  BY <1>1, EmptyLog DEF LogsOK
<1>7. Undisturbed
  <2>1. Listed(history) /\ Len(history) = 0
    BY <1>1, EmptySeq DEF Listed
  <2>2. Tracks(audits, history)
    BY <1>1, <2>1 DEF Tracks
  <2> QED
    BY <1>1, <2>1, <2>2 DEF Undisturbed, Writing
<1>8. ResultTyped /\ ResultSound
  BY <1>1 DEF ResultTyped, ResultSound
<1> QED
  BY <1>3, <1>4, <1>5, <1>6, <1>7, <1>8 DEF SessionInv

LEMMA SessionSteps == SessionInv /\ [SessionNext]_sessionVars => SessionInv'
<1> SUFFICES ASSUME SessionInv, [SessionNext]_sessionVars
             PROVE  SessionInv'
  OBVIOUS
<1>1. CASE SessionNext
  BY <1>1, StartKeeps, GateKeeps, ReadKeeps, WriteKeeps, ReplaceKeeps, FinishKeeps DEF SessionNext
<1>2. CASE UNCHANGED sessionVars
  <2>1. /\ hooks' = hooks /\ candidates' = candidates /\ audits' = audits /\ tmp' = tmp
        /\ history' = history /\ disturbed' = disturbed /\ result' = result
        /\ clock' = clock /\ started' = started /\ faults' = faults
    BY <1>2 DEF sessionVars
  <2>2. Counted' /\ HooksOK'
    BY <2>1 DEF SessionInv, Counted, HooksOK, AtGate
  <2>3. Apart' /\ LogsOK'
    BY <2>1 DEF SessionInv, Apart, LogsOK, Unwritten, Session, Writing
  <2>4. Undisturbed' /\ ResultTyped' /\ ResultSound'
    BY <2>1 DEF SessionInv, Undisturbed, ResultTyped, ResultSound, Writing
  <2> QED
    BY <2>2, <2>3, <2>4 DEF SessionInv
<1> QED
  BY <1>1, <1>2

LEMMA SessionAlways == SessionSpec => []SessionInv
  BY SessionInitially, SessionSteps, PTL DEF SessionSpec

(* What a session says of itself when it ends hangs together, in any       *)
(* interleaving of any number of hooks, whatever the closeouts, the        *)
(* artifacts and the policies are.                                         *)
THEOREM SessionsAreSound == SessionSpec => []SessionSound
<1>1. SessionInv => SessionSound
  <2> SUFFICES ASSUME SessionInv
               PROVE  SessionSound
    OBVIOUS
  <2>1. MaxClosings \in Nat /\ started \in 0..MaxClosings /\ candidates \subseteq 1..started
    BY SessionEndAssumption DEF SessionInv, Counted
  <2>2. clock \in 0..MaxClosings
    BY <2>1, AtGateFinite DEF SessionInv, Counted
  <2>3. candidates \subseteq 1..MaxClosings
    BY <2>1
  <2>4. \A h \in Hooks : hooks[h].at \in {"idle", "gate", "read", "write", "replace", "report"}
    BY DEF SessionInv, HooksOK, HookOK
  <2>5. SessionTyped
    BY <2>1, <2>2, <2>3, <2>4 DEF SessionTyped, SessionInv, Counted, Undisturbed, ResultTyped
  <2> QED
    BY <2>5 DEF SessionSound, SessionInv
<1> QED
  BY <1>1, SessionAlways, PTL

(* The audit log never outgrows its limit and holds no session twice; as   *)
(* long as no two hooks were at it at once and no read of it failed, it is *)
(* the last lines that were written, whatever its limit.                   *)
THEOREM AuditIsKept == SessionSpec => []AuditKept
<1>1. SessionInv => AuditKept
  <2> SUFFICES ASSUME SessionInv
               PROVE  AuditKept
    OBVIOUS
  <2>1. LogOK(audits, started) /\ Listed(history)
    BY DEF SessionInv, LogsOK, Undisturbed
  <2>2. ASSUME ~disturbed
        PROVE  [i \in DOMAIN audits |-> audits[i].session] = LastN(history, LogLimit)
    <3>1. Tracks(audits, history)
      BY <2>2 DEF SessionInv, Undisturbed
    <3> QED
      BY <2>1, <3>1, TracksLast DEF LogOK
  <2> QED
    BY <2>1, <2>2 DEF AuditKept, LogOK, Distinct
<1> QED
  BY <1>1, SessionAlways, PTL
=============================================================================
