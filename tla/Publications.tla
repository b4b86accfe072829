----------------------------- MODULE Publications -----------------------------
(***************************************************************************)
(* Snapshots of the trust signals, of a release package and of the hand-   *)
(* off to reviewers.  A run takes a snapshot, then writes it file by file: *)
(* a bundle (latest, history, index, manifest), perhaps pages of a site,   *)
(* and a manifest in the root above them.  Nothing is locked or replaced   *)
(* atomically, and what was published decides what is found next: a        *)
(* release is ready only when the root of published releases has a page,   *)
(* and a hand-off reads the manifests of its release.                      *)
(*                                                                         *)
(* A file holds the number of the snapshot it tells of.  Its text and its  *)
(* Markdown version are written next to it and say the same.               *)
(***************************************************************************)
EXTENDS Workspace, Naturals, Sequences, FiniteSets

CONSTANTS
    Versions,          \* of releases: their names are those of directories
    ReleaseDocuments,  \* written by hand: release notes, checklists, status pages
    SnapshotRequests,  \* what a snapshot may be asked for
    Empty,             \* a file that was opened and never filled
    MaxSnapshots, LastSecond, MaxRewrites   \* bounds

Dirs ==
    ({"trust", "handoff"} \X {"docs"} \X {"bundle", "site", "root"})
      \union ({"trust", "handoff"} \X {"artifacts"} \X {"root"})
      \union ({"release", "handoff"} \X {"artifacts"} \X Versions)
      \union ({"release"} \X {"docs"} \X (Versions \union {"root"}))
Names == {"latest", "policy", "MANIFEST", "PUBLICATION", "README"}

VARIABLES
    published,     \* directory -> name -> None, Empty or a number
    histories,     \* directory -> second -> None, Empty or a number
    keptPolicies,  \* directory -> second -> the policy kept beside the history
    indexes,       \* directory -> None, Empty or what it lists
    releaseDocs,   \* document -> None, or the versions it speaks of; {}: it is empty
    shots,         \* the snapshots, in the order in which they were taken
    publishing,    \* process -> None, or its run, with the number of steps it has done
    finished,      \* the runs that came to their end
    crossed,       \* has a run begun while another one was at work?
    second, rewrites

publicationVars == <<published, histories, keptPolicies, indexes, releaseDocs, shots, publishing,
                     finished, crossed, second, rewrites>>
disk == <<published, histories, keptPolicies, indexes>>

(* What a snapshot or a run is a record of. *)
Content == {None, Empty} \union Nat
Shot ==
    [request : SnapshotRequests, ok : BOOLEAN, at : 1..LastSecond,
     seen : {None} \union [bundle : Content, publication : Content]]
Lists == [reports : SUBSET Nat, policies : SUBSET Nat, unreadable : Nat]
PublishingRun ==
    [id : Nat, tells : Nat, done : Nat, stage : {"next", "open"}, list : {None} \union Lists]

ASSUME PublicationsAssumption ==
    /\ \A r \in SnapshotRequests :
          /\ r.kind \in {"trust", "release", "handoff"} /\ r.place \in {"docs", "artifacts"}
          /\ r.version \in Versions
          /\ r.policy \in BOOLEAN /\ (r.policy => r.kind = "trust")
    /\ "root" \notin Versions
    /\ None # Empty /\ None \notin Nat /\ Empty \notin Nat
    /\ None \notin PublishingRun
    /\ LastSecond \in Nat \ {0} /\ MaxRewrites \in Nat

-----------------------------------------------------------------------------
(* Where a run writes, and in which order. *)
TrustDir(r) == IF r.place = "docs" THEN "bundle" ELSE "root"
ReleaseDir(r) == r.version
HandoffDir(r) == IF r.place = "docs" THEN "bundle" ELSE r.version

BundleDir(r) ==
    <<r.kind, r.place, CASE r.kind = "trust" -> TrustDir(r)
                         [] r.kind = "release" -> ReleaseDir(r)
                         [] OTHER -> HandoffDir(r)>>
SiteDir(r) == <<r.kind, r.place, "site">>
RootDir(r) == <<r.kind, r.place, "root">>
HasSite(r) == r.place = "docs" /\ r.kind # "release"
HasRoot(r) == r.kind # "release" \/ r.place = "docs"

TrustBundle(r) ==
    IF r.policy THEN <<"latest", "history", "INDEX", "policy", "policy history", "MANIFEST">>
    ELSE <<"latest", "history", "INDEX", "MANIFEST">>
TrustSite(r) ==
    IF r.policy THEN <<"latest", "history", "INDEX", "policy", "README", "MANIFEST">>
    ELSE <<"latest", "history", "INDEX", "README", "MANIFEST">>
TrustRoot == <<"PUBLICATION", "README">>

(* Mutant: the manifest comes first. *)
ReleaseBundleManifestFirst ==
    <<"MANIFEST", "latest", "history", "INDEX", "PUBLICATION", "README">>

ReleaseBundle == <<"latest", "history", "INDEX", "MANIFEST", "PUBLICATION", "README">>
ReleaseRoot == <<"read back", "latest", "README", "PUBLICATION">>

HandoffBundle == <<"latest", "history", "INDEX", "MANIFEST", "PUBLICATION", "README">>
HandoffSite == <<"latest", "history", "INDEX", "README", "MANIFEST">>
HandoffRoot == <<"PUBLICATION", "README">>

BundleSteps(r) ==
    CASE r.kind = "trust" -> TrustBundle(r)
      [] r.kind = "release" -> ReleaseBundle
      [] OTHER -> HandoffBundle
SiteSteps(r) ==
    IF ~HasSite(r) THEN <<>>
    ELSE IF r.kind = "trust" THEN TrustSite(r) ELSE HandoffSite
RootSteps(r) ==
    IF ~HasRoot(r) THEN <<>>
    ELSE CASE r.kind = "trust" -> TrustRoot
           [] r.kind = "release" -> ReleaseRoot
           [] OTHER -> HandoffRoot

Into(dir, names) == [n \in 1..Len(names) |-> [dir |-> dir, name |-> names[n]]]

Steps(r) ==
    Into(BundleDir(r), BundleSteps(r)) \o Into(SiteDir(r), SiteSteps(r))
      \o Into(RootDir(r), RootSteps(r))

-----------------------------------------------------------------------------
(* Manifests as they are read. One that cannot be read is not ok; in the   *)
(* overview one that is not there stands against nothing. The roots have   *)
(* one manifest for all versions.                                          *)
TrustManifest(place) == published[<<"trust", place, "root">>]["PUBLICATION"]
HandoffManifest(v) == published[<<"handoff", "artifacts", v>>]["MANIFEST"]
HandoffPublication(place) == published[<<"handoff", place, "root">>]["PUBLICATION"]
DocsManifest(v) == published[<<"release", "docs", v>>]["MANIFEST"]
ArtifactManifest(v) == published[<<"release", "artifacts", v>>]["MANIFEST"]
BundleManifest(v) == IF DocsManifest(v) # None THEN DocsManifest(v) ELSE ArtifactManifest(v)

PublicationManifest(v) ==
    LET docs == published[<<"release", "docs", "root">>]["PUBLICATION"]
    IN  IF docs # None THEN docs ELSE published[<<"release", "artifacts", v>>]["PUBLICATION"]

ManifestOk(m) == m # None /\ m # Empty /\ shots[m].ok
NotAgainst(m) == m = None \/ ManifestOk(m)

(* Mutant: the page in the root of the releases is not asked for. *)
ReadyUnpublished(v) ==
    \A d \in ReleaseDocuments :
        releaseDocs[d] # None /\ (releaseDocs[d] = {} \/ v \in releaseDocs[d])

Speaks(d, v) == releaseDocs[d] = {} \/ v \in releaseDocs[d]

(* Every document is there and, unless it is empty, speaks of the version. *)
Ready(v) ==
    /\ \A d \in ReleaseDocuments : releaseDocs[d] # None /\ Speaks(d, v)
    /\ published[<<"release", "docs", "root">>]["README"] # None

ReleaseOk(r) == Ready(r.version)
TrustOk(r) == r.checks /\ Ready(r.version)

(* Mutant: a manifest that cannot be read counts as missing. *)
SurfaceOkLenient(r) ==
    /\ Ready(r.version)
    /\ \A m \in {BundleManifest(r.version), PublicationManifest(r.version)} :
          m \in {None, Empty} \/ shots[m].ok
    /\ r.authority /\ r.promotion

SurfaceOk(r) ==
    /\ Ready(r.version)
    /\ NotAgainst(BundleManifest(r.version))
    /\ NotAgainst(PublicationManifest(r.version))
    /\ r.authority /\ r.promotion

(* An override needs one of the codes, perhaps a note, and no claim that   *)
(* must not be overridden; an invalid one spoils even a clean hand-off.    *)
ReasonCodes ==
    {"manual_audit_required", "known_policy_violation_for_review", "pipeline_debugging_only",
     "temporary_reader_visibility", "other_requires_note"}
RequestValid(o) ==
    o.allow => o.code \in ReasonCodes /\ (o.code = "other_requires_note" => o.note)

(* Mutant: what is forbidden to override is overridden as well. *)
OverrideActiveAlways(o, lint) == o.allow /\ lint # "clean" /\ RequestValid(o)

OverrideActive(o, lint) == o.allow /\ lint # "clean" /\ RequestValid(o) /\ lint # "forbidden"

HandoffOk(r) ==
    /\ TrustOk(r) /\ SurfaceOk(r)
    /\ r.lint = "clean" \/ OverrideActive(r.override, r.lint) \/ ~r.override.fails
    /\ RequestValid(r.override)

SnapshotOk(r) ==
    CASE r.kind = "trust" -> TrustOk(r)
      [] r.kind = "release" -> ReleaseOk(r)
      [] OTHER -> HandoffOk(r)

(* What the snapshot was taken from. *)
Seen(r) ==
    IF r.kind = "handoff"
    THEN [bundle |-> BundleManifest(r.version), publication |-> PublicationManifest(r.version)]
    ELSE None

-----------------------------------------------------------------------------
PublicationsInit ==
    /\ published = [d \in Dirs |-> [n \in Names |-> None]]
    /\ histories = [d \in Dirs |-> [s \in 1..LastSecond |-> None]]
    /\ keptPolicies = histories
    /\ indexes = [d \in Dirs |-> None]
    /\ releaseDocs \in [ReleaseDocuments -> {{}} \union {{v} : v \in Versions}]
    /\ shots = <<>>
    /\ publishing = [p \in Processes |-> None]
    /\ finished = {}
    /\ crossed = FALSE
    /\ second = 1 /\ rewrites = 0

NobodyPublishes == \A p \in Processes : publishing[p] = None

(* A snapshot is taken at once, before anything is written. *)
Take(p) ==
    /\ publishing[p] = None /\ Len(shots) < MaxSnapshots
    /\ \E r \in SnapshotRequests :
          shots' = Append(shots, [request |-> r, ok |-> SnapshotOk(r), at |-> second, seen |-> Seen(r)])
    /\ publishing' = [publishing EXCEPT ![p] =
           [id |-> Len(shots) + 1, tells |-> Len(shots) + 1, done |-> 0, stage |-> "next", list |-> None]]
    /\ crossed' = (crossed \/ ~NobodyPublishes)
    /\ UNCHANGED <<disk, releaseDocs, finished, second, rewrites>>

StepsOf(i) == Steps(shots[i].request)
At(p) == publishing[p] # None /\ publishing[p].done < Len(StepsOf(publishing[p].id))
Step(p) == StepsOf(publishing[p].id)[publishing[p].done + 1]
Second(p) == shots[publishing[p].id].at

(* An index lists what can be read in the directory of the history and     *)
(* counts what cannot; there the policies look like reports.               *)
Found(h) == {s \in 1..LastSecond : h[s] # None}
Filled(h) == {s \in Found(h) : h[s] # Empty}
Listing(dir) ==
    LET h == histories[dir]
        k == keptPolicies[dir]
    IN  [reports |-> {h[s] : s \in Filled(h)},
         policies |-> {k[s] : s \in Filled(k)},
         unreadable |-> Cardinality(Found(h) \ Filled(h)) + Cardinality(Found(k) \ Filled(k))]

Put(p, content) ==
    LET d == Step(p).dir
        n == Step(p).name
    IN  /\ histories' = IF n = "history" THEN [histories EXCEPT ![d][Second(p)] = content]
                        ELSE histories
        /\ keptPolicies' = IF n = "policy history" THEN [keptPolicies EXCEPT ![d][Second(p)] = content]
                           ELSE keptPolicies
        /\ indexes' = IF n = "INDEX" THEN [indexes EXCEPT ![d] = content] ELSE indexes
        /\ published' = IF n \in Names THEN [published EXCEPT ![d][n] = content] ELSE published

(* What will be written is made up, and the file is opened, which empties  *)
(* it; then it is filled.                                                  *)
OpenNext(p) ==
    /\ At(p) /\ publishing[p].stage = "next" /\ Step(p).name # "read back"
    /\ publishing' = [publishing EXCEPT ![p].stage = "open",
           ![p].list = IF Step(p).name = "INDEX" THEN Listing(Step(p).dir) ELSE None]
    /\ Put(p, Empty)
    /\ UNCHANGED <<releaseDocs, shots, finished, crossed, second, rewrites>>

FillOpened(p) ==
    /\ At(p) /\ publishing[p].stage = "open"
    /\ Put(p, IF Step(p).name = "INDEX" THEN publishing[p].list ELSE publishing[p].tells)
    /\ publishing' = [publishing EXCEPT ![p].done = @ + 1, ![p].stage = "next", ![p].list = None]
    /\ UNCHANGED <<releaseDocs, shots, finished, crossed, second, rewrites>>

(* The root of the releases tells of the manifest that is in the bundle    *)
(* now; one that cannot be read ends the run.                              *)
ReadBack(p) ==
    /\ At(p) /\ Step(p).name = "read back"
    /\ LET m == published[BundleDir(shots[publishing[p].id].request)]["MANIFEST"]
       IN  publishing' = IF m = Empty THEN [publishing EXCEPT ![p] = None]
                         ELSE [publishing EXCEPT ![p].done = @ + 1, ![p].tells = m]
    /\ UNCHANGED <<disk, releaseDocs, shots, finished, crossed, second, rewrites>>

Finish(p) ==
    /\ publishing[p] # None /\ ~At(p)
    /\ publishing' = [publishing EXCEPT ![p] = None]
    /\ finished' = finished \union {publishing[p].id}
    /\ UNCHANGED <<disk, releaseDocs, shots, crossed, second, rewrites>>

(* A run is ended from outside, wherever it is. *)
DiePublishing(p) ==
    /\ At(p)
    /\ publishing' = [publishing EXCEPT ![p] = None]
    /\ UNCHANGED <<disk, releaseDocs, shots, finished, crossed, second, rewrites>>

EditReleaseDocuments ==
    /\ rewrites < MaxRewrites
    /\ \E d \in ReleaseDocuments, t \in {None, {}, Versions} :
          releaseDocs' = [releaseDocs EXCEPT ![d] = t]
    /\ rewrites' = rewrites + 1
    /\ UNCHANGED <<disk, shots, publishing, finished, crossed, second>>

Tick ==
    /\ second < LastSecond /\ second' = second + 1
    /\ UNCHANGED <<disk, releaseDocs, shots, publishing, finished, crossed, rewrites>>

PublicationsNext ==
    \/ \E p \in Processes :
          Take(p) \/ OpenNext(p) \/ FillOpened(p) \/ ReadBack(p) \/ Finish(p) \/ DiePublishing(p)
    \/ EditReleaseDocuments \/ Tick

PublicationsSpec == PublicationsInit /\ [][PublicationsNext]_publicationVars

-----------------------------------------------------------------------------
PublicationsTypeOK ==
    /\ LET Legal == {None, Empty} \union DOMAIN shots
       IN  /\ published \in [Dirs -> [Names -> Legal]]
           /\ histories \in [Dirs -> [1..LastSecond -> Legal]]
    /\ finished \subseteq DOMAIN shots
    /\ second \in 1..LastSecond /\ rewrites \in 0..MaxRewrites

Whole(content) == content # None /\ content # Empty
DirsOf(i) ==
    LET r == shots[i].request
    IN  {BundleDir(r)} \union (IF HasSite(r) THEN {SiteDir(r)} ELSE {})
            \union (IF HasRoot(r) THEN {RootDir(r)} ELSE {})
RunsInto(d) == {i \in DOMAIN shots : d \in DirsOf(i)}

(* The manifest of a bundle or of a site names the file of the history     *)
(* that tells of the same snapshot - whoever has crashed or come between,  *)
(* unless there were two snapshots in one second.                          *)
ManifestBacked ==
    \A d \in Dirs : LET m == published[d]["MANIFEST"] IN
        Whole(m) /\ (\A i \in RunsInto(d) : shots[i].at = shots[m].at => i = m) =>
            histories[d][shots[m].at] = m

(* Runs that do not overlap never leave a manifest, or a publication in    *)
(* the root, ahead of the files it names, even if they die half-way.       *)
NothingAhead ==
    ~crossed =>
        /\ \A d \in Dirs : LET m == published[d]["MANIFEST"] IN
              Whole(m) =>
                  /\ published[d]["latest"] = Empty \/ published[d]["latest"] >= m
                  /\ shots[m].request.policy =>
                        published[d]["policy"] = Empty \/ published[d]["policy"] >= m
                  /\ indexes[d] = Empty \/ m \in indexes[d].reports
                        \/ \E i \in RunsInto(d) : i > m /\ shots[i].at = shots[m].at
        /\ \A d \in Dirs : LET u == published[d]["PUBLICATION"] IN
              Whole(u) =>
                  LET r == shots[u].request
                  IN  \A b \in {BundleDir(r)} \union (IF d = RootDir(r) /\ HasSite(r)
                                                      THEN {SiteDir(r)} ELSE {}) :
                          published[b]["MANIFEST"] = Empty \/ published[b]["MANIFEST"] >= u

(* What a run wrote that came to its end is whole and its own, whatever    *)
(* earlier runs left there half-written.                                   *)
Repaired ==
    ~crossed =>
        \A i \in finished :
            LET steps == StepsOf(i)
                again == UNION {DirsOf(j) : j \in {k \in DOMAIN shots : k > i}}
            IN  \A n \in DOMAIN steps : LET s == steps[n] IN
                    s.name \in Names /\ s.dir \notin again => published[s.dir][s.name] = i

(* Nothing can be ok before a release has been published, and the first    *)
(* publication, which makes that possible, is not: it has to be repeated.  *)
(* So whoever reads ok somewhere finds the page of the releases.           *)
OkOnlyAfterPublishing ==
    /\ \A i \in DOMAIN shots : shots[i].ok =>
          \E j \in 1..(i - 1) : /\ shots[j].request.kind = "release"
                                /\ shots[j].request.place = "docs"
    /\ (\E m \in {TrustManifest("docs"), TrustManifest("artifacts"), HandoffPublication("docs"),
                  HandoffPublication("artifacts")} \union {HandoffManifest(v) : v \in Versions} :
              ManifestOk(m))
          => published[<<"release", "docs", "root">>]["README"] # None

(* An ok hand-off has seen no manifest that is not ok, and the bundle it   *)
(* has seen is one of its release; what the reviewer's lint found was      *)
(* overridden for a reason, or was not to count.                           *)
HandoffJustified ==
    \A i \in DOMAIN shots :
        LET r == shots[i].request
            s == shots[i].seen
        IN  r.kind = "handoff" /\ shots[i].ok =>
                /\ \A m \in {s.bundle, s.publication} : m # None => m # Empty /\ shots[m].ok
                /\ s.bundle # None => shots[s.bundle].request.version = r.version
                /\ r.lint # "clean" /\ r.override.fails =>
                      r.override.code \in ReasonCodes /\ r.lint # "forbidden"

PublicationsSound ==
    /\ PublicationsTypeOK /\ ManifestBacked /\ NothingAhead /\ Repaired
    /\ OkOnlyAfterPublishing /\ HandoffJustified
=============================================================================
