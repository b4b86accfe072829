# Verification of the financial PDF reader

TLA+ models of the Taiwan financial PDF reader (FastAPI, MongoDB through
mongoengine, the Claude API): the life of an uploaded report from the PDF to a
governed summary, a comparison of two quarters, a trend, review patterns and
disclosures. A second part models the development governance framework that is
vendored with it (`governance_tools`, `runtime_hooks`, `governance_harness.py`),
most of the repository's code, as far as it keeps state or decides something.
Every definition is translated from the code under `src/`; the lines each one
stands for are listed in `PROJECT.json` under `map`. TLC checks small instances,
TLAPS proves the invariants of the reader, and those of the framework's sessions,
records, hooks, adoption, signal, tasks and publications, for every value of the constants.

## 1. The system

A user uploads a PDF (`POST /documents/upload`), has it ingested into chunks
(`/ingest`), may have the chunks classified into sections (`/classify`) and
correct one by hand, and then asks for a summary, which the language model
writes and the service parses into *claims* with evidence, a level and flags.
The summary carries a dashboard. An audit re-checks a stored summary or
comparison; a diff compares two quarters section by section; a trend puts the
dashboards of several quarters side by side; six patterns look for risks in the
latest summary; disclosures are ticked off; tables are extracted and their key
figures compared with figures fetched from FinMind. Everything is in MongoDB,
except the PDF, which stays on the local disk of the instance that received it.

**Concurrency of the reader.** Handlers are `async def` that call blocking code,
so inside one uvicorn process a handler runs to its end without yielding.
Interleaving comes from several instances on one database (PLAN.md names Cloud
Run, Railway and Render), each database call being atomic on its own. There are
no transactions, no locks and no versions. mongoengine's `save()` sends the fields
that changed in memory, nothing else, and chunks and documents are never deleted.

**Concurrency of the framework.** Its commands are short processes over files of
the working tree: hooks of several agents, continuous integration, people with an
editor. They read a file, decide, and write it anew in place, mostly without a
temporary file and never with a lock. What interferes is therefore another
command or an edit between the reading and the writing, and a process that dies
while a file is truncated.

### Components

| Component | State | Operations | Talks to | What makes it correct |
|---|---|---|---|---|
| Upload and ingestion (`services/pdf_ingestion`, `routers/documents`) | PDF on disk; `PDFDocument.status`, `total_pages`; `PDFChunk` | upload, ingest, status | pdfplumber, MongoDB | a completed document has its whole text in the store; the status ends in a verdict |
| Section classification (`services/classification`) | `PDFChunk.section` | classify all, correct one | model as a fallback | keywords outrank the model; the report agrees with the store; a confirmed correction holds |
| Chunk selection (`summarization` 64-156) | none (pure) | allocate, select | chunks | the budget is kept and used, shares are fair |
| Claim governance (`summarization`, `core/governance`, `services/audit`) | `AIReport.claims`, `evidence_status`; audit | summarise, audit | model | claims obey the discipline of evidence; a passed audit means something |
| Dashboard (`summarization` 367-596; `services/dashboard_contract`) | `AIReport.dashboard` | build, validate | claims | only clean claims, the best of them; no alarm without a claim |
| Diff (`services/diff`) | `DiffReport` | create, audit rule R6 | lifecycle, chunks, model | only whole documents are compared, no section gets lost, items cite pages |
| Trend (`services/trend`) | `TrendReport` | create | latest reports | periods in order; summarised documents get an answer |
| Reasoning patterns, completeness warnings | `PatternRunReport` | run six patterns | latest report | only evidenced, clean claims trigger; never an older report after a newer |
| Summary endpoints, disclosure coverage | `DisclosureCoverageReport` | read, coverage, check items | model, first 60 chunks | what is read has no holes; every item exactly once, counts agree |
| Tables and KPIs | `PDFTable` | extract, normalise | pdfplumber | an answer speaks of its own run; figures survive repetition |
| External data, cross-check | `ExternalDataRecord` | fetch, compare | FinMind | the newest stored figure; "consistent" means close |
| Session end and test gate (`session_end_hook`, `gate_policy`, ...) | test result, closeout, audit log, taxonomy log | ingest, close a session, review | agents, CI | no failing test that the output names passes a strict gate; entries are kept |
| Agent hook adapters (`manage_agent_closeout`) | settings files of four agents | install, uninstall, status | users | what users wrote survives |
| Adoption and drift (`adopt_governance`, `governance_drift_checker`) | baseline, contract, plan, hashes | adopt, refresh, check, upgrade | maintainers | drift is noticed; what is kept stays |
| Risk signal and session start | signal file, feedback history | raise, clear, start | three producers | an alive signal forbids the lowest level |
| Task checks (`pre_task_check`, `post_task_check`) | memory snapshots | check before, after | contracts, rule packs | an accepted answer obeyed its contract |
| Published snapshots (trust, release, handoff) | bundles, pages, manifests | publish, read | each other | manifests never name what is not there |
| Escalation and promotion gates | artifacts, register, log, closeout | write, close, judge | reviewers | a gate opens only for evidence, stays shut for what it cannot trust |
| Measurement harness, Enumd probes | claim sets, result files; candidate directories | run arms, decide; probe, apply contract | claim parser; Enumd | a decision rests on the files of the runs; decisions of others are out of reach, not lost |
| Hot memory (Notion, Linear, janitor) | `01_active_task.md`, archives, manifest | sync, archive, clean | services | no task is lost or sent twice without a fault |
| Memory authority | daily files, long-term file | record, guard, gate, warn | git, sessions | an entry counts only with its anchor; the gate opens only for marked sections |
| Triage and exclusions | triage file, register | generate, review, evaluate; audit, run | CI, pytest | nothing critical passes unreviewed; nothing failing is hidden silently |
| Authentication, wiring, user interface, unused modules, rest of the framework | | | | not modelled, see section 5 |

**What is hard here.** In the reader an instance can be killed between any two
database calls and a request can be repeated on another instance while the first
one works. A failing save may have been applied. Classification and diff hold
chunks in memory across slow model calls. The parser is a chain of rules that
rewrite the same fields, and the audit repeats those rules with conditions of its
own. The model's answers are unrestricted: nulls, illegal labels, missing fields.
In the framework everything is a file that is read early and written late: torn,
stale, overwritten or edited in between. Each hazard is listed at its line in
`PROJECT.json`, with the properties that catch it.

## 2. The modules

`MC*.tla` give the constants their small values; `*Proofs.tla` hold the proofs.
Modules that are checked in one run share the constants of `Absent` (`None`, what
stands for a value that is not there) and of `Workspace` (`Torn`, a file that was
opened for writing and not filled, and the `Processes` at work in one tree).

### DocumentLifecycle: what the readers of a document rely on
Abstract specification: the status of a record and whether its whole text is
in the store. Summary, diff and trend only look at the status; the promise they
live on is that `Finish` happens only when the text is there, and that the text
stays. It is used twice: **Ingestion implements it**, and **Diff composes it**.

### Ingestion: uploads and ingestions on several instances
| Model | Code |
|---|---|
| `disk`, `docs`, `chunks` | local `UPLOAD_DIR`, `PDFDocument`, `PDFChunk` |
| `req[i]` | the handler that instance `i` runs: program counter, the document in memory (`mem` is its status there), run, page, chunk and chunks created |
| `WriteFile`, `InsertDocument` | `upload_document`: the file first, then the record |
| `StartIngest`, `MarkMissing`, `MarkIngesting` | `ingest_document` up to the status |
| `ExtractPages`, `SaveChunk`, `TurnPage` | the loop over pages and chunks |
| `Complete`, `FailedRecord`/`MarkFailed` | the last save; the `except` branch |
| `...Error` | the same call raising, with or without effect |
| `Crash` | the process is killed: the request and its disk are lost |

How a page's text is cut is abstracted to a number of chunks per page.

### Classification: automatic sections and corrections by hand
`store` is the section each chunk has in the database; `job[i]` the pass or the
correction instance `i` is at, with what it read (`read`) when it started. A
pass visits the chunks in page order. `Write` models mongoengine: a section that
equals the one read is not sent. A model answer that names no section becomes
`unknown`, as in the code.

### ClaimParsing and ClaimGovernance: from the model's answer to an audited report
ClaimParsing is the parser: what the rules make of one claim, without any state.
`Generate` turns a batch of raw claims into a stored report by the parser's
chain of rules (level as written, no evidence, contamination, narrative
demotion, confidence, forward-looking guard, prefix) and derives the evidence
status and the scan for advice; `RunAudit` applies R1-R5 and R7 to a report.
Texts are reduced to the phrases that the rules look for.

### SectionBudget and Reading: which pages a summary reads
SectionBudget is the pure function `_allocate_section_budget` as four kinds of
steps: measure the demand, scale it down with rounding, hand out what is left
one section at a time, finish. Reading takes the selection in one step: which
chunks of a document that is ingested again and again a summary and a disclosure
check get to see, what coverage says afterwards (to the nearest step, as the
router rounds, a tie to either side), and the registry of disclosures
with its defaults, counts and the field that refuses a save.

### Diff: comparing two quarters
`job` is the one comparison in progress: admission, the two queries for chunks
(which happen one after the other), one model call per shared section, any of
which may fail and is swallowed, and the save. That stands outside what swallows:
an item with a null or a number where the collection requires a text ends the
request (`RefuseReport`), and so does a database error at a read or at the save,
which may have been applied all the same (`DatabaseRaises`). Meanwhile documents are ingested
again (`Ingest`, a step of `DocumentLifecycle`) and chunks reclassified
(`Reclassify`). `Item` models what the code makes of the pages and types in a
model's item; in particular `str()` turns a JSON null page into the text "None"
(`PageText`). R6 is the audit's rule.

### Dashboard and Trend
Dashboard holds operators only: the claim each metric shows, its delta,
direction and impact, the derived edges, the risks and the contract; the loop over
the claims is a recursive function, and a list filtered by a condition is the list
at the places where it holds (`Among`, `Listed`). Trend is
the state machine around them: `Summarise` stores a report with its dashboard,
`ServeTrend`, `RefuseTrend` and `BreakTrend` are the ways a trend request ends.

### Patterns, Tables, ExternalData
**Patterns**: summaries are created and saved as two steps (`created_at` is taken
first); an analysis reads the report created last (`ReadLatest`) and saves what the six
filters make of it (`SaveRun`) as two steps as well, so analyses of several instances
overlap and may be stored in another order than they read; the completeness
warnings and the narrative flag of a summary are operators. **Tables**: extraction
page by page with pages that raise, on several instances, and the eight key
figures read from whatever is stored, with the row, the cell and the confidence.
**ExternalData**: rows of a fetch are stored one by one; the comparison takes the
first row that names the metric among the newest `Limit`.

### The session: GatePolicy, TestGate, SessionEnd
GatePolicy holds operators: what a failing test means by the rules its name
matches, which policy file is in force, and the gate's verdict. An error has a
disposition only if its line is tagged FAILED or ERROR: the summary line that the
ingestor writes itself, and everything from junit or sarif, has none and is not
looked at by a strict gate. TestGate has the
artifact of the last test run (`Ingest` in two steps, so it may be torn), its age,
sessions that read the text first and the age afterwards, and the log of
unclassified failures that operators rewrite. SessionEnd runs the hook step by
step on several processes: load the policy, judge the closeout in four layers, run
the external core, decide the memory tier and the exit code, and rewrite the audit
log through one temporary file.

### The tools of a session: HookAdapters, Adoption, RiskSignal, TaskChecks
**HookAdapters**: a settings file is a record of what the user and the tool put in it; a
command reads, changes and writes it as separate steps, an editor may tear it. **Adoption**:
every file of the baseline has a content that maintainers may change; adopting is two steps,
the files and then the baseline, between which it may raise or be killed; `DriftFound` is the
drift checker. **RiskSignal**: three producers with their own reasons write and clear one
file; `StartSession` takes the level and the documents to load from it.
**TaskChecks**: the resolver of contracts, rule packs, evidence and domain
validators as operators, with a check before and a check after the task and
changes in between.

### Publications
Three publishers as lists of files to write, in the order of the code; a run is the
number of steps of its list that it has done (`done`), and whether it has the next file
open (`stage`). A reader's verdict is an operator over what is on disk. A run can die
between two files, two can overlap, and a handoff reads the manifests of its release.

### Records: Escalation, Measurement, HotMemory, MemoryAuthority, Triage, Enumd
**Escalation**: an artifact remembers the part of its payload that its hash covers (`sealed`);
the writer, the reader that distrusts it, register and log, the promotion gate and the
closeout of phase D. **Measurement**: the claims of each seed parsed with and without the
rules of **ClaimParsing** (which it extends), rates, files, checkpoint, bridge, decision.
**HotMemory**: a line is a sequence of words and marks, so matching titles as prefixes is what
the code does; two processes synchronise and clean, requests are lost in either direction.
**MemoryAuthority**: entries as the anchors a guard looks for; recorders, the
guard, the promotion gate that reads the long-term file twice, the daily warning.
**Triage**: the reviewed violations with the gate of the build, and, as its second part, the
register that hides tests. **Enumd**: probes that list a directory and read it file by file
(the residual probe six times over), and the contract that moves a decision into provenance,
in another directory or in place.

## 3. The runs

| Run | Question | Instance | Outcome |
|---|---|---|---|
| `service` | Is a completed document complete, whatever overlaps, dies or fails? Does every ingestion come to a verdict, every comparison to an answer? Are comparisons of whole documents? Do parser and audit enforce the discipline together? Do dashboards keep their contract, and are trends in order? | one of four services moves in a behaviour; with fairness | holds |
| `support` | Do keywords outrank the model? Is what patterns, key figures, cross-checks, coverage and disclosures say true of what they read, while the store fills? Is the budget of chunks kept, used, fair and in order? Can a failing test pass the gate, an entry get lost, a session end wrongly? | one of eight components moves; symmetric instances and hooks | holds |
| `tooling` | Do users' settings, drift, risk signal, tasks and publications survive interference? | five components | holds |
| `records` | Can a gate of escalation, memory or triage open for another reason than the code's, a task be lost, a measurement or probe mislead? | eight behaviours over six modules; symmetric processes | holds |
| `ingestion_silent` | Does a failed ingestion always leave `failed`? | `service`, 1 kill | **no** |
| `classification_effect` | Is a correction in the store when it is confirmed? | `support` | **no** |
| `governance_gap` | Does R1 spare a claim of insufficient evidence? | `service`, one claim without evidence | **no** |
| `diff_promised` | Does every stored item cite a page, and is a change of tone marked as one? | `service`, one answer of the model | **no** |
| `trend_served` | Does a trend over summarised documents work? | `service` | **no** |
| `tables_failed` | Is a table whose extraction failed stored as failed? | `support` | **no** |
| `escalation_unblocked` | Does only a confirmed resolution open the release gate? | `records` | **no** |
| `triage_passed` | Does the triage gate exit with 0 only over false positives? | `records` | **no** |

**Shared runs.** Components that share no state are checked in one run: a variable `who`
chosen at the start says which of them moves, the others rest in one initial state. Nothing is
lost, because no action of one reads a variable of another, and a property is evaluated where
its component moves. What has theorems is taken with EXTENDS, so that a run checks the very
definitions they are about: `MCService` extends `Ingestion`, `Diff`, `ClaimGovernance` and
`Trend`; `MCSupport` `Classification`, the five readers (`Tables`, `Patterns`, `ExternalData`,
`Reading`, `SectionBudget`), `TestGate` and `SessionEnd`; `MCTooling` `HookAdapters`,
`Adoption`, `RiskSignal`, `TaskChecks` and `Publications`, `MCRecords` `Triage`,
`MemoryAuthority`, `Escalation` and `Measurement`. What has none (`HotMemory`, `Enumd`) is an
instance. The properties of such a run are conjunctions of named parts, one per hazard; their
comments are in the modules:

| Property | Parts |
|---|---|
| `RecordsTruthful` | `AnswersTruthful`, `RecordHasFile`, `IngestingIsAtWork` |
| `SectionsSound` | types, `RuleOutranksModel` |
| `DiffsSound` | types, `ItemsCite`, `SectionsAccountedFor` |
| `DashboardsSound` | types, `ContractHolds`, `CitesCleanClaims`, `BestClaimShown`, `AlarmsJustified`, `ImpactGrows` |
| `PatternsSound`, `PagesSound`, `Apportioned` | see `Patterns`, `Reading`, `SectionBudget` |
| `ExternalSound`, `ComparesNewest` | types, `ConsistentIsClose`; over steps, which figure is compared |
| `TablesSound`, `FiguresAreKept` | types, `AnswerMatchesStore`, `ConfidenceEarned`; figures over steps |
| `GateSound`, `TraceKept` | types and `DecisionSound`, what passes the gate and why; the log of unclassified failures |
| `SessionSound`, `AuditKept` | types (`SessionTyped`) and `ResultSound`, the end of a session; the audit log |
| `AdaptersSound`, `AdoptionSound`, `SignalSound`, `TaskSound`, `PublicationsSound` | one per tool of a session |
| `EscalationSound` | types (`EscalationTypeOK`), `WriterAgreesWithReader`, `ConfirmedByReviewer`, `OpenedForGoodReason`, `EnteredOnEvidence`, `ShutWithReason`, `RefusedStaysShut`, `PhaseDClosed` |
| `MeasurementSound` | `NeverWorse`, `FilesAgree`, `UpgradeIsEarned`, `SuiteMeansNarratives` |
| `StoresSound` | the task file (`HotMemorySound`), and of Enumd `DecisionKept`, `ContractDowngrades`, `TreatedIsolates`, `ResidualSound`, `CloseoutsSound`, `MemorySpotCheck`, `ObservedSafely` |
| `MemorySound`, `TriageSound`, `ExclusionsSound` | the memory directory; the reviewed violations; the register of excluded tests |

**Why the bounds of the reader suffice.** Races between requests need two of them
on one document and a third to retry what they left; a kill and a lost
acknowledgement are independent of how often they happen, so one of each, in any
order and at any step, covers the combinations that could interact. One page
without text and one of two chunks exercise both ends of the page loop. The rules
of the parser act on one claim, the statuses on two (one clean, one not), and
evidence of another document needs two documents. Rounding in `SectionBudget` is
exhaustive for every supply of up to six chunks over four sections against a budget of
seven. For the dashboard, the sample claims include a tie in priority, a
contaminated rival, no number, falls and rises of every size class; two reports
are needed to compare impacts. Patterns have 2 reports and 2 runs, tables 2
extractions with 2 raising pages, fetches 3 with one break and a limit of 2 rows,
two figures (close and far), a window of 4 chunks and a registry of 3.

*Instances of the services.* Ingestion: 2 instances, a report of three pages (two chunks,
none, one) and an unreadable file, 3 ingestions, 1 kill, 1 database error. Comparison: 3
documents of 2 companies, 3 chunks, 2 sections, 3 model answers of which one cannot be
stored, 2 labelings, 1 change, 1 error. Its documents change before a comparison and until
it has the first items, a chunk is reclassified when both quarters are complete, and the
other company's report is finished before (`DiffLimits`): what comes later no longer
meets anything the comparison still reads. Governance: 2 documents, batches of up to two of
8 claims that take every branch, 2 reports. Trend: 2 quarters, 2 reports of up to 2 of 10
claims, the second of one (`TrendLimits`), 5 requests. Classification: 2 instances, 2
sections, a chunk with a tie and one without keywords, 2 corrections. Symmetry is used in
`support` and `records`, which check no liveness and choose no member of a symmetric set.

**Bounds of the framework.** A lost update needs two writers, a stale judgement a
reader and a writer, a torn file one crash; that is what the instances have.
*Sessions*: 2 hooks, 3 sessions of which the first takes every input, a log of 2
entries, a window of 1, 1 fault; 2 reports, 2 sessions, 2 reviews at the test gate. Its log is
reviewed under one of the nine policies (`GateLimits`): nothing that happens to it
depends on which is in force.
*Tooling*: 2 commands and 2 edits per behaviour of hooks and adoption, a calendar of two days
on both sides of each threshold, 5 runs of producers, of which the fifth follows four of the
feedback or alarms of all three, one change of contracts or plan per behaviour of tasks.
Publications: pairs of runs of one kind and place, or one after a published release; a third
run only as a handoff after two releases, in the artifacts if these overlapped; overlaps where
two publishers write the same files (trust artifacts, published releases); one death, not in
an overlap; 2 seconds; one edit between finished runs. *Records*: 2 writes and 1 edit of
artifacts; 2 runs and 1 edit of claim sets; 2 synchronisations or cleanings with 2 faults, 1
edit, 2 seconds, a head of 1 line and 2 attempts instead of 20 and 3, faults before overlaps
and edits, a second that passes only where nobody edits; 2 recorders, 2 edits, 2 days for the
memory, where recording and promotion gate, and edits by hand and session summaries, are
looked at apart; of the harness's seeds those after the first have a single claim, which is
parsed like any other; 3 reports or reviews together at triage; 3 days and 2 edits of the
register; 2 files, 2 probes and 1 dropped file for Enumd, where the two files are the same or
one of them is missing, torn or plain, and the second probe runs beside a contract that works
in place or over what a contract has left. These restrictions are in the MC modules; each
excludes combinations whose parts are explored on their own.

Bounds are constants that start with `Max`, in the guards of the actions; the state
space ends where they do, which is why the configurations of bounded histories
switch the deadlock check off.

**Fairness.** The run `service` has the fairness of two services (`ServiceFairSpec`).
`IngestionFairSpec` is weak fairness of `Proceed(i)` for each instance: a handler that runs is
scheduled, and its database and library calls return or raise. Nobody has to call (`Call` is
not fair) and faults do not have to happen. `IngestionDecides` therefore concludes only for
histories without kill or database error. `DiffFairSpec` is weak fairness of `Handle`, the
handler's own steps, for the same reason: the client of the model has a timeout and then
raises, which is the action `SectionFails`. A database error (`DatabaseRaises`) is not part of
it, nor are ingestions and reclassifications. The framework's commands promise nothing that
has to happen eventually: whatever dies stays as it is until somebody calls again.

### Disagreements found
Each is a violated property of one run, listed under `findings`.

1. `ingestion_silent`: the header of `pdf_ingestion` promises the status
   `failed` and no swallowed error; an instance killed at work leaves
   `ingesting` for good, and nothing ever looks again.
2. `classification_effect`: a correction to the section that was read sends no
   write, although a pass on another instance has changed it meanwhile: the
   user is told one section, the store has another.
3. `governance_gap`: R1 is documented to spare claims of the level
   `insufficient_evidence`; it asks for evidence at every level, and the parser gives
   that level to just the claims that have none, so an honest gap fails the audit.
4. `diff_promised`: every item is to have a page and every change of tone its mark
   (PLAN.md:126 says the code forces it); two null pages count as the text "None", and the
   mark is the model's word. A comparison that breaks both promises is stored.
5. `trend_served`: `generate_trend` reads `dashboard["metrics"]` as a dictionary,
   the summary stores a list: the first dashboard that shows a metric makes the
   request an internal error.
6. `tables_failed`: a table that cannot be extracted is to be stored with the quality
   `failed` and marked for review; a page that raises is counted and leaves no row.
7. `escalation_unblocked`: only `resolved_confirmed` is to unblock a release; the gate
   refuses `active` and `invalidated` and opens over artifacts in any other state,
   `created`, `resolved_provisional` and `superseded` among them. What the gate does
   refuse is `OpenedForGoodReason`.
8. `triage_passed`: exit 0 is to mean all clear or only false positives; the type of a
   reviewed violation is free text, and one that says "tp" passes. What the gate does
   stop is `PassedOnlyReviewed`.

### Seen while modelling
Behaviour that no property forbids, or that a property had to allow.

*Reader.*
- `AIClaim` says derived metrics, interpretations and hypotheses of an inconsistent
  time axis are contaminated; the level is demoted by a later rule than the test,
  so a claim that starts as an observed fact becomes an interpretation and stays
  clean. Quotas are meant to protect core sections; scaling rounds a section of one
  chunk to nothing.
- A classification pass overwrites corrections, although the header names a
  `manual_section` field that does not exist, and no confidence is ever stored.
- The advice phrases of parser and audit differ; R7 counts documents, not periods; a failing
  section is not to stop a comparison (`diff:180`), but one item with a null description makes
  the save raise, after all model calls; a trend does not check that its documents are of one
  company.
- The KPI header promises the second column, later ones are tried as well; the
  cross-check ignores the period; a repeated ingestion shrinks the pages that are
  read; contaminated claims silence OC-2; a coverage of 100.0 may have pages unread
  (1999 of 2000 rounds to it); analyses of patterns that overlap may be stored in the
  other order, so the last one is not always about the newest report.

*Sessions.* Only a *missing* closeout fails a session, where the text the hook prints
(`session_end_hook.py:1698`) says a missing or incomplete one, and the file is never removed,
so it serves the next one too. A strict gate passes over failures it has no name for: the
summary line the ingestor adds itself, junit and sarif. `load_policy` may refuse after the
core has run. A misspelt `fail_mode` behaves like neither mode; readiness level 2 is never
returned; `window_size` 0 means the whole log; a log that cannot be read once is replaced by
the new entry alone; a rewrite of the taxonomy log can lose a concurrent append.

*Hooks, adoption, signal, tasks.* Settings that do not parse are overwritten by an
installation; uninstalling copilot or gemini without "hooks" raises and stops
`--agent all`; the Claude adapter removes itself from project settings only.
`adopt_governance.py:32` says the drift checker runs inline, `refresh_baseline` never
runs it; `:590` promises exit 1 on errors, it is always 0; AGENTS.base.md is always
replaced; a scalar `documents:` is lost; a contract that does not parse raises
half-way; a refresh accepts a modified protected file and drops overrides; a closeout
upgrade makes the next drift check critical. `clear_risk_signal` clears anyone's
signal, against `runtime_enforcement_smoke.py:6-8`; `clear_risk_signal_for_source` looks whose
the signal is and removes it afterwards, so one that was written in between goes too; a torn
signal protects nothing; `pre_task_check.py:390` calls the filter of rule packs advisory and
the requested rules the minimum, at L0 and L1 the filter removes requested ones; "ui"
inside "build" makes a task L0 and an explicit L0 overrides words that veto it. Without
checks the post check skips failure completeness; hard-stop rules bite only when the
answer names the rule; two candidate contracts make a warning only.

*Publications.* Release readiness asks for a page that only a publication writes, so the
first is never ok; empty documents pass every content check; missing manifests count as
ok in the overview, which also ignores `release_blocked`; a torn manifest makes the step
at the root raise; a snapshot's ok is judged before anything is written;
`--no-fail-on-non-clean` passes forbidden claims without a reason.

*Escalation and measurement.* Hashes do not cover `escalation_closed`, and an edit that
clears `release_blocked` goes unnoticed; the writer stores invalid payloads and then
refuses for ever to replace them; the log is not asked once the directory exists;
an unreadable policy falls back to compatibility. The arm's configuration never reaches
the computation; `unsupported` is always 0, so "inconclusive" never occurs; the decision
does not consult the bridge; fixed dates in file names make every run overwrite the last.

*Enumd.* An unknown decision is taken out of reach like a known one, so a batch of
unknown decisions is reported as `risk_contained` with every reinterpretation failed.
Unreadable candidates count in the isolation probe's ratio and not in the contract's; an
unreadable candidate turns an amplified closeout into a maintained one; unreadable memory
candidates count as having no decision. A file that is no object ends most probes.

*Hot memory.* Titles are matched as beginnings of lines, and Linear's lookahead does not
keep marked ones out; of equal titles several pages are created and one id is written;
ids are written after all pages, so a crash makes duplicates, as a lost answer does;
edits between read and write are lost; cleanings in one second overwrite the archive.

*Memory authority.* Two recorders that both find today's file missing clear each other's
entry; the guard never fails (phase 1); its patterns and the gate's for the same mark
differ, and the gate may open on a section whose comment never ends.

*Triage and exclusions.* Reviews of findings a report no longer has are dropped, equal
rule and place share one review, one written while a run is under way is lost; an
unreadable file blocks everything until somebody deletes it. Expired exclusions go on
hiding tests with a warning; an unreadable date never expires; an entry without a pattern
makes pytest refuse the expression.

## 4. What is proved

No proof assumes more of the constants than the named `ASSUME`s of the modules
(finite numbers of pages and chunks, lists that are sequences, `NoDocument` no
document, `None` no audit, `NoDelta` no number, periods and bounds that are
numbers). There is no bound on instances, processes, documents, pages, claims,
runs, entries of a log or faults. Every module of proofs states its invariant as
a conjunction of named parts, shows that the initial states have it, that each
action keeps it (a lemma per action where one is longer than a few steps), and
that it implies the property.

**IngestionProofs.**
`TypeCorrect` is the type invariant, with the conjunct `HasDocument` (a request
that is not idle has a document) that makes it inductive.
`CompletedDocumentsAreIndexed` is the main result. `CompletedIsIndexed` is not
inductive: that `Complete` may set the status follows only from what the run has
done before. The strengthening is `RunsOK`: the cursor (page, ord) of a request
in the saving loop bounds a prefix of the text that the store already has
(`Cursor`), it starts at zero, and the run's number is in use. A run
whose cursor has left the last page has stored all (`AllPagesStored`), and other
runs only add chunks (`StoredStays`).
`ChunksAreTraceable` follows from the same cursor.
`RecordsAreTruthful`: a request has created as many chunks as its run has in the store,
and so has the answer it gives (`Counted`, which needs that runs are numbered apart); as
long as nothing is killed the file of a record about to be inserted stays where it was
written (`FiledFirst`); without faults, `ingesting` means that a request is at work.
`Refinement` shows that every step of the service is a step of
DocumentLifecycle or leaves it alone; it needs, besides, that a request about to
insert a record is alone in holding that id (`Inserting`). The chunk that completes
a text is the step `Index`, all others are stuttering.

**GovernanceProofs.** *Claims.* Reports are written once and audits copy nothing, so the
invariant says of each stored report that its claims come out of the
parser (`ClaimParsed`, one lemma per rule of the chain), that its status agrees with
them, and of the audit that its verdicts are those of the rules over that report.
From it: `GovernanceTypeCorrect`, `StoredClaimsDisciplined`,
`CompleteReportsEvidenced`, `PassedAuditsVouch`, `AuditsWarnOfTrendsOnly`.
*Measurement* (`MeasurementIsSound`), for any number of runs, deaths and edits. Counting is by
subsets: what the rules leave unblocked was so without them, and nothing the real layer
counts remains (`RatesSound`). A run is at a place of one of four lists of files: those up to
that place are of the claims it started with (`Done`), and what a history of whole runs
leaves behind (arms alike, checkpoint of the files, a bridge behind the verdict) holds of the
files that list does not write (`Spared`), since the files it does write disagree in
between. A decision to upgrade says that each rate improves (`UpgradeMeansBetter`), which is
why a bridge that the decision never reads holds beside it. It assumes that sets of claims
are finite and that `None` is no file (`MeasurementAssumption`).
*Sections of chunks.* `SectionsStaySound`: with any number of instances, chunks and
keywords every section is legal at all times, and a chunk the keywords decide carries
theirs or one a user gave (`SectionsSound`). That a correction under way holds a section
somebody has asked for is the inductive part (`CorrectionGiven`). That the rule answers a
name of the table at all needs that a best section exists (`BestExists`): the least length
of a table without one leads to a contradiction, since a longer table has the better of its
predecessor's best and its last. A write that is left out needs nothing: the section it
would have replaced obeys the invariant already (`WriteSound`).
`ReportsMatchStore`: the sections a pass has in memory are those of the store, except for
chunks that somebody else has touched since it began (`Current`, `MemoryCurrent`), so an
undisturbed report agrees with the store.

**DiffProofs.** `ComparisonsOfIndexed`: a stored comparison is of two documents of one company
whose text was wholly in the store. The inductive part: completed documents are indexed (an
invariant of the lifecycle, which the service keeps by `Refinement`), indexed documents stay
so when a new ingestion begins (`LifecycleKeepsText`), so the documents the job was let in
with still are when it saves. `ComparisonsTyped` and `ComparisonsSound` follow the job: what
is still to be compared and every item made so far belong to sections both documents have, and
the items cite a document with what the model gave for its page, a number or the text None
(`JobSound`, `SoundItems`); a report is made of nothing else (`SoundReports`). That
`Ascending` and `Sorted` list a set, each member once and all of them, is proved by counting:
the number of members up to a member is its place, places differ, and an injection between
finite sets of one size is onto.

**TrendProofs.** `DashboardsAreSound` is a statement about the functions of Dashboard, for
every list of claims: reports are built from a response and never changed (`ReportsBuilt`).
The loop that picks the claim of a metric is a recursive function; that it exists and what
it yields (`ShownIsBest`) are shown by the least number of claims for which they would fail.
The best among the clean claims is the best among all (`BestOfAll`), because leaving claims
out keeps their order (`ListedInOrder`, `AmongSelects`); what is cited is an entry's one claim
or a member of such a list (`RisksSound`, `DashboardKeeps`); the impact is monotone in the
size of a change (`ImpactRises`). `TrendsAreInOrder`: the order by period is total
(`BeforeIsOrder`), so listing by it orders the documents (`ByPeriodOrders`).

**ReadersProofs.** The five modules that read what is stored.
*Budget* (`BudgetIsApportioned`): sums over sets are folds of the library, of which the
provers know nothing; `SubsetsInduction` (a family that holds the empty set, and a set
whenever it holds one member less of it, holds every finite set) gives what is needed of
them: a term more or less, monotony, a difference of one. In `BudgetInv` the allocation is
the demand while that fits; scaled down, what is handed out and what remains add up to the
budget, and sections that wait for a chunk asked for no more than those served (`Scaled`).
*External data* (`ExternalIsSound`, `ExternalComparesNewest`): a comparison is with a row
of the metric asked for, and "consistent" only between two numbers that are close (`Founded`).
*Patterns* (`PatternsAreSound`): every run's answer is what the filters make of a report
that was stored (`RunsOf`), so the properties are those of the filters, for every list of
claims; that an analysis never goes back behind the runs stored before it began needs that
reports are only added and that what was read stays the newest of that time; it says nothing
of analyses that overlap.
*Reading* (`PagesAreSound`): an ingestion that reached a page has stored those with text
before it (`StoredPages`), so no summary selects a page and leaves out an earlier one of its
section (`WithoutHoles`); parts of a coverage, up to the rounding of what is shown, and counts
of a list of disclosures agree (`CoverageAddsUp`, `DisclosuresAddUp`).
*Tables* (`TablesAreSound`, `FiguresStay`): on any number of instances a stored
table has its place on its page and the mark its quality calls for (`StoreOK`), what is
shown stands in the store with the confidence that table earns (`ShownOK`), a job has
written each table before its cursor once, counted it, and shares its run with no other
(`JobOK`), so its answer is true when it ends and stays so (`AnswerOK`). The store only
grows, which is why a figure found once is found again, on that page or an earlier one.

**SessionProofs.** *The gate* (`GateIsSound`): the artifact, and what a session has read of
it, is nothing, torn, or the result of one of the reports (`ReadOK`); the age a session goes
by is at most the file's unless that was replaced since (`SessionOK`); a verdict on such a
reading has the reasons `DecisionSound` asks for. `TracesAreKept`: an entry that was closed
says why, and every entry that is owed is in the log or in the hands of the operator who
rewrites it, except for sessions that overlapped with one (`TracesOK`).
*The end of a session* (`SessionsAreSound`, `AuditIsKept`), for any number of hooks at one
audit log of any length. The parts of the invariant: the clock and the hooks at the gate
count the sessions that were started (`Counted`); what a hook has found out follows from
its closeout and outcome (`HooksOK`); no two hooks are at work on one session (`Apart`);
every copy of the log keeps to its limit and has no session twice, and a session that has
still to write is in none of them (`LogsOK`); as long as nothing disturbs the log, one
process at a time is at it, and what it is about to put in place is the history's end with
its own line (`Undisturbed`); and the result itself (`ResultTyped`, `ResultSound`). A log
at its limit drops its first lines, which shifts all places: `LastOnes`, `RotatedLines`,
`RotatedLog`, `RotatedTracks` and `TracksLast` say what becomes of it.

**WorkspaceProofs.** What seven of the framework's modules keep in a working tree, for any
number of processes, commands, crashes and edits. They assume the types of their inputs,
that bounds are numbers, and that `None` and `Torn` are none of the records a file holds
(`ExclusionsAssumption`, `TriageAssumption`, `MemoryAssumption`, `EscalationAssumption`,
`AdaptersAssumption`, `SignalAssumption`).
*Exclusions*, the second part of Triage (`ExclusionsAreSound`): the last answer is remembered
with the register it was given over (`LastAnswer`), so what it hid is hidden by an entry of
that register.
*Triage* (`TriageIsSound`): whatever list of violations is in a file or in the hands of a run
has its reviews from persons (`Justified`); while no runs overlapped a standing review is in
the file or about to be written back (`StandingKept`); merging a list with itself changes
nothing (`MergedAgain`), where of equal findings the last one counts (`LastPlace`, by a least
element).
*Memory* (`MemoryIsSound`): a finished recorder left a file for its day, what another is
about to append goes to a file that is there, and only hands put anything but a recorder's
entry in it (`DailyFilesOK`); what the gate has seen at its two readings was so in the
file each time (`SurveyGrounded`, `PromotionGrounded`); summaries differ in their time, so
there is a last one (`SummariesOK`).
*Escalation* (`EscalationIsSound`): an answer of the gate is the one the files of this moment
give (`GateIsCurrent`); without a directory there are no artifacts, one that is being written
is torn until it is filled with what the writer accepts, and unless files were removed by
hand an escalation that was refused has one (`FilesInOrder`).
*Hooks* (`AdaptersAreSound`): what a command has read is still what stands in the file unless
the file counts as lost (`ReadFresh`), so writing it back keeps what its user wanted
(`SettingsKept`); every result so far holds as long as nobody edits (`ResultsHold`), which
makes an exit code of nought believable when the last agent is done.
*Adoption* (`AdoptionIsSound`): a baseline that parses holds the hash a command recorded and the
sections maintainers require (`BaselineGrounded`); an adoption between its two halves that
nobody disturbed has its file in place, named by the contract unless that lost a single value
(`HalfwaySound`), so one that ends undisturbed leaves what the drift check asks for
(`AdoptedSound`). From there the property is about the five parts of the check, each of
which finds only what its names say (`CriticalIs`, `WarningIs`).
*Signal* (`SignalIsSound`): an alarm that nobody, its own producer included, has emptied,
replaced or removed is what the file says, with its day and at least one component, and what
the file says is an alarm that stands (`AlarmsStand`); a feedback alarm, raised or about to
be, has its bad runs in the log (`FeedbackGrounded`: three runs, at least two of them bad),
because an average of four over three samples needs two failed smoke tests (`TrendMeans`, by
counting); what a session started with holds until something moves (`StartedWell`). Every
component asks for L1, which is why an alarm that is read lifts L0.
*Tasks* (`TaskIsSound`): a result that waits to be read is what the check makes of the
contracts and the plan of this moment (`PreGrounded`, `PostGrounded`), so the property is one
about the checks as functions: each validator that finds nothing has seen what it asks for
(`EvidencedIfAccepted`).

**PublicationsProofs.** What the published snapshots keep (`PublicationsAreSound`), assuming
the types of the requests and numbers for bounds (`PublicationsAssumption`). First the lists
of steps, without any state: no step occurs twice (`StepsDiffer`), each is in a directory of
its run (`StepDirsSound`), and in each directory the manifest comes after the files it names,
the index after the history and the publication after the manifests (`StepOrder`). Then
`PubInv` says of every run that the steps it has done are on disk (`WrittenRun`), for one that
nobody is in the way of with its own number (`LoneRun`); and of every manifest that the run it
tells of has written it there as one, after the history it names (`ManifestKept`), which is
what makes `ManifestBacked` inductive. As long as runs do not overlap, the run at work is the
latest, so nothing it leaves half-written is older than what names it (`NothingAhead`), and
whatever is written over a finished run belongs to a later one (`Repaired`). The page of the
releases stays once it is there, and only a published release writes it (`PageExplained`):
without it no snapshot is ok. A hand-off reads the manifest of a release in the directory of
its version, where only runs for that version write one (`SeenSound`, by `ManifestKept`). One
step of a run is one lemma, whether it opens a file or fills it (`Writes`, `PutWrites`); a
snapshot that is taken changes what later runs may overwrite, never what earlier ones have
done (`OldRuns`).

**Model-checked only.** Liveness (`IngestionDecides`, `DiffAnswered`) is beyond the prover. Of
the safety properties one has no theorem, `StoresSound` (HotMemory and Enumd) of the run
`records`. Its modules are mostly functions over what is on disk, written with library
operators on sequences (selections, folds, prefixes); what those yield for every input is an
induction over data, and the module would first have to say by places, as `Among` does, what
it now says by recursion.

## 5. What is not modelled

Texts: prompts, the splitting of pages, phrase lists beyond one representative
per list, labels, claim wording, the layout of reports. A summary that fails before
`report.save()` changes nothing and is no action. The cap of eight chunks per section
in a diff prompt limits the model's view, whose answer is unrestricted anyway.
The search for a number in the tables only reads and is text matching.
Concurrency inside one process does not exist.

Token authentication is one stateless comparison, the wiring and the user interface
hold no state of their own, the unused modules (a template's conversation engine, a
vector store, `services/dashboard_contract.py`, hidden by the package of that name)
are reached by nothing. Of the framework, `runtime_hooks.core.session_end`,
`_canonical_closeout`, `memory_pipeline`, `integrations/` and `baselines/` are not in the
repository: what the modelled code expects of them stands as external definitions or as
inputs. Parts that are modelled partly say so in `PROJECT.json`; what remains, some
eighty tools (indices, readiness reports, linters, smoke tests, calibration
summaries), are functions from the files of one moment to a printed report.

## 6. Where to go on

1. Proofs: `HotMemorySound`, where interference is worst, then `DecisionKept` of Enumd.
   `MCRecords` would have to extend the module concerned, whose names would have to differ
   from the others'.
2. The session of the framework as one composition: the adapters that install the
   hook, the signal a session starts by, the checks of its task and its end share a
   repository and are checked one at a time so far.
3. The tools of section 5 that keep a file between their runs, if one of them is ever
   made part of a gate.
