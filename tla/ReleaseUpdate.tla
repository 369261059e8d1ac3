--------------------------- MODULE ReleaseUpdate ----------------------------
(***************************************************************************)
(* apply of internal/releasewatcher/apply.go: one run of the release       *)
(* watcher on a checkout, from the discovered release plan to the replaced *)
(* files, and run after run, as the upstream registries change and people  *)
(* save files of the checkout.                                             *)
(*                                                                         *)
(* The last part, replaceFiles, is the subject of ReplaceFiles, call by    *)
(* call.  Here it compares and renames file by file; its temporaries are   *)
(* left out and its rollback is one step.                                  *)
(***************************************************************************)
EXTENDS Integers, FiniteSets, Functions

CONSTANTS
  Npm, Oci,     \* the watched templates, by kind of source
  Dist,         \* the generated files
  Constant,     \* the two Go files that hold the catalog version
  Input,        \* what else the generator reads: locales and icons
  Rank,         \* releases up to what compareVersions tells apart
  Metadata,     \* build metadata, which it does not tell apart
  Digest,       \* image digests
  NoDigest,     \* an npm template records no digest
  Torn,         \* a file of which a rollback wrote so little that nothing can be read
  MaxRevision,  \* the largest int
  MaxRuns,      \* bound: runs of the watcher
  MaxEdits      \* bound: saves by somebody else

Source == Npm \cup Oci
File == Source \cup Dist \cup Constant \cup Input

ASSUME FileAssumption ==
  /\ Npm \cap Oci = {} /\ Source \cap (Dist \cup Constant \cup Input) = {}
  /\ Dist \cap (Constant \cup Input) = {} /\ Constant \cap Input = {}
  /\ NoDigest \notin Digest
ASSUME BoundAssumption ==
  /\ Rank \subseteq Nat /\ 0 \in Rank /\ 0 \in Metadata
  /\ MaxRevision \in Nat \ {0} /\ MaxRuns \in Nat /\ MaxEdits \in Nat

Release == [rank : Rank, build : Metadata]

(* A template: its revision, the recommended release, the artifact it is   *)
(* installed from, and everything else, as one bit people may flip.        *)
Artifact == [of : Release, digest : Digest \cup {NoDigest}]
Template == [revision : 1..MaxRevision, release : Release, artifact : Artifact, text : BOOLEAN]

ASSUME TornAssumption == Torn \notin Template /\ Torn \notin Int

VARIABLES
  tree,       \* the checkout
  phase,      \* what the run does next
  outcome,    \* what the last run returned
  plan,       \* the release discovered for each source
  todo,       \* files the current loop has yet to visit
  originals, updates,
  staged,     \* the temporary copy
  committed,  \* files renamed so far
  runs, edits,
  (* history: never read by an action *)
  users,      \* the checkout as it would be had this run never written
  outdated,   \* files saved after they were copied
  late,       \* files saved between their comparison and their rename
  again,      \* files saved between their rename and the end of the run
  unrestored, \* files whose restoring write failed
  recorded    \* every template the checkout held when a run began or changed it

work == <<plan, todo, originals, updates, staged, committed>>
saves == <<users, outdated, late, again>>
history == <<saves, unrestored, recorded>>
vars == <<tree, phase, outcome, work, runs, edits, history>>

None == [f \in {} |-> 0]

(* cataloggen.GenerateWithVersion, by what it depends on.                  *)
Generate(t, v) == [inputs |-> [f \in Source \cup Input |-> t[f]], version |-> v]

Consistent(t) == \A d \in Dist, c \in Constant : t[d] = Generate(t, t[c])

Templates(t) == {[source |-> s, revision |-> t[s].revision, release |-> t[s].release,
                  artifact |-> t[s].artifact] : s \in {x \in Source : t[x] # Torn}}

First(s) == [rank |-> 0, build |-> 0]
Digests(s) == IF s \in Npm THEN {NoDigest} ELSE Digest
Releases(s) == {r \in Release : s \in Oci => r.build = 0}

Init ==
  /\ \E t \in [Source -> Template], i \in [Input -> BOOLEAN], n \in {1, MaxRevision} :
       /\ \A s \in Source :
            /\ t[s].revision = n /\ t[s].release = First(s) /\ ~t[s].text
            /\ t[s].artifact.of = First(s) /\ t[s].artifact.digest \in Digests(s)
       /\ \A f \in Input : ~i[f]
       /\ tree = [f \in File |->
            CASE f \in Source   -> t[f]
              [] f \in Input    -> i[f]
              [] f \in Constant -> 1
              [] f \in Dist     -> Generate([x \in Source \cup Input |->
                                     IF x \in Source THEN t[x] ELSE i[x]], 1)]
  /\ phase = "idle" /\ outcome = "none"
  /\ plan = None /\ todo = {} /\ originals = None /\ updates = None
  /\ staged = None /\ committed = {}
  /\ runs = 0 /\ edits = 0
  /\ users = tree /\ outdated = {} /\ late = {} /\ again = {} /\ unrestored = {}
  /\ recorded = Templates(tree)

(* The run ends with the outcome o, and its local state with it.           *)
Return(o) ==
  /\ phase' = "idle" /\ outcome' = o
  /\ plan' = None /\ todo' = {} /\ originals' = None /\ updates' = None
  /\ staged' = None /\ committed' = {}
  /\ users' = tree' /\ outdated' = {} /\ late' = {} /\ again' = {}

-----------------------------------------------------------------------------
(* A run.                                                                  *)

(* Discovery has found some release of every source: the registries may    *)
(* have added, removed or moved anything since the last run.               *)
Begin ==
  /\ phase = "idle" /\ runs < MaxRuns
  /\ runs' = runs + 1 /\ phase' = "read" /\ todo' = Source
  /\ plan' \in {p \in [Source -> Artifact] :
                  \A s \in Source : p[s].of \in Releases(s) /\ p[s].digest \in Digests(s)}
  /\ outcome' = "none" /\ unrestored' = {}
  /\ recorded' = recorded \cup Templates(tree)
  /\ UNCHANGED <<tree, originals, updates, staged, committed, edits, saves>>

Put(g, f, x) == [y \in DOMAIN g \cup {f} |-> IF y = f THEN x ELSE g[y]]

(* Mutant of MovedTag: the check is dropped. *)
Unchecked(s) == FALSE

Regressed(s) == plan[s].of.rank < tree[s].release.rank
MovedTag(s) == s \in Oci /\ plan[s] # tree[s].artifact /\ plan[s].of = tree[s].release
Changed(s) == plan[s] # tree[s].artifact \/ plan[s].of # tree[s].release
Exhausted(s) == Changed(s) /\ tree[s].revision = MaxRevision

(* Mutant of Updated: other build metadata makes no new revision. *)
UpdatedByRank(s) ==
  [tree[s] EXCEPT !.revision = @ + (IF plan[s].of.rank = tree[s].release.rank THEN 0 ELSE 1),
                  !.release = plan[s].of, !.artifact = plan[s]]

(* patchJSON changes these fields and no other byte.                       *)
Updated(s) ==
  [tree[s] EXCEPT !.revision = @ + 1, !.release = plan[s].of, !.artifact = plan[s]]

(* Read one template: bytes that are no template, an older release, a tag  *)
(* whose digests changed or a revision at the limit end the run; a newer   *)
(* release is patched in.                                                  *)
Read(s) ==
  /\ phase = "read" /\ s \in todo
  /\ UNCHANGED <<tree, runs, edits, unrestored, recorded>>
  /\ IF tree[s] = Torn \/ Regressed(s) \/ MovedTag(s) \/ Exhausted(s)
       THEN Return("error")
       ELSE /\ todo' = todo \ {s}
            /\ IF Changed(s)
                 THEN originals' = Put(originals, s, tree[s]) /\ updates' = Put(updates, s, Updated(s))
                 ELSE UNCHANGED <<originals, updates>>
            /\ UNCHANGED <<phase, outcome, plan, staged, committed, saves>>

(* No template changed.                                                    *)
Current ==
  /\ phase = "read" /\ todo = {} /\ updates = None
  /\ UNCHANGED <<tree, runs, edits, unrestored, recorded>>
  /\ Return("unchanged")

(* catalogConstants: each file holds a version, both the same.             *)
ConstantsDisagree == \E c, d \in Constant : tree[c] = Torn \/ tree[d] = Torn \/ tree[c] # tree[d]

(* Read the generated files and the two version constants, which must      *)
(* agree, and write the next version into the constants.                   *)
ReadVersion ==
  /\ phase = "read" /\ todo = {} /\ updates # None
  /\ UNCHANGED <<tree, runs, edits, unrestored, recorded>>
  /\ IF ConstantsDisagree
       THEN Return("error")
       ELSE /\ phase' = "copy" /\ todo' = File
            /\ originals' = [f \in DOMAIN originals \cup Dist \cup Constant |->
                               IF f \in Source THEN originals[f] ELSE tree[f]]
            /\ updates' = [f \in DOMAIN updates \cup Constant |->
                             IF f \in Source THEN updates[f] ELSE tree[f] + 1]
            /\ UNCHANGED <<outcome, plan, staged, committed, saves>>

(* copyTree, one file at a time.                                           *)
Copy(f) ==
  /\ phase = "copy" /\ f \in todo
  /\ staged' = Put(staged, f, tree[f]) /\ todo' = todo \ {f}
  /\ UNCHANGED <<tree, phase, outcome, plan, originals, updates, committed, runs, edits, history>>

Staged == [f \in File |-> IF f \in DOMAIN updates THEN updates[f] ELSE staged[f]]

(* Mutant of Build: generate before the updates are written to the copy. *)
BuildTooEarly ==
  /\ phase = "copy" /\ todo = {}
  /\ \E c \in Constant : updates' = [f \in DOMAIN originals |->
       IF f \in Dist THEN Generate(staged, updates[c]) ELSE updates[f]]
  /\ phase' = "compare" /\ todo' = DOMAIN originals
  /\ UNCHANGED <<tree, outcome, plan, originals, staged, committed, runs, edits, history>>

(* Mutant of Build: the generated files are written to the checkout. *)
BuildInPlace ==
  /\ phase = "copy" /\ todo = {}
  /\ \E c \in Constant : updates' = [f \in DOMAIN originals |->
       IF f \in Dist THEN Generate(Staged, updates[c]) ELSE updates[f]]
  /\ tree' = [f \in File |-> IF f \in Dist THEN updates'[f] ELSE tree[f]]
  /\ phase' = "compare" /\ todo' = DOMAIN originals
  /\ UNCHANGED <<outcome, plan, originals, staged, committed, runs, edits, history>>

(* Write the updates into the copy, generate and verify there, run the     *)
(* tests there, and take the generated files over into the updates.        *)
Build ==
  /\ phase = "copy" /\ todo = {}
  /\ \E c \in Constant : updates' = [f \in DOMAIN originals |->
       IF f \in Dist THEN Generate(Staged, updates[c]) ELSE updates[f]]
  /\ phase' = "compare" /\ todo' = DOMAIN originals
  /\ UNCHANGED <<tree, outcome, plan, originals, staged, committed, runs, edits, history>>

(* Any step before the first rename fails: reading, staging, generating,   *)
(* testing, preparing a temporary, or the context was cancelled; or the    *)
(* process is killed there.                                                *)
Abort ==
  /\ phase \in {"read", "copy", "compare"}
  /\ UNCHANGED <<tree, runs, edits, unrestored, recorded>>
  /\ Return("error")

-----------------------------------------------------------------------------
(* replaceFiles.                                                           *)

(* Mutant of Compare: the comparison with the original is dropped. *)
CompareSkipped(f) ==
  /\ phase = "compare" /\ f \in todo
  /\ todo' = todo \ {f}
  /\ UNCHANGED <<tree, phase, outcome, plan, originals, updates, staged, committed, runs, edits, history>>

(* The first loop: a file that no longer holds what was read at the start  *)
(* ends the run.                                                           *)
Compare(f) ==
  /\ phase = "compare" /\ f \in todo
  /\ UNCHANGED <<tree, runs, edits, unrestored, recorded>>
  /\ IF tree[f] = originals[f]
       THEN /\ todo' = todo \ {f}
            /\ UNCHANGED <<phase, outcome, plan, originals, updates, staged, committed, saves>>
       ELSE Return("error")

Prepared ==
  /\ phase = "compare" /\ todo = {}
  /\ phase' = "commit"
  /\ UNCHANGED <<tree, outcome, work, runs, edits, history>>

(* The second loop renames, whatever was saved since the comparison.       *)
Rename(f) ==
  /\ phase = "commit" /\ f \in DOMAIN updates \ committed
  /\ tree' = [tree EXCEPT ![f] = updates[f]]
  /\ committed' = committed \cup {f}
  /\ UNCHANGED <<phase, outcome, plan, todo, originals, updates, staged, runs, edits, history>>

Replaced ==
  /\ phase = "commit" /\ committed = DOMAIN updates
  /\ UNCHANGED <<tree, runs, edits, unrestored>>
  /\ Return("changed")
  /\ recorded' = recorded \cup Templates(tree)

(* Mutant of RenameFails: nothing is written back. *)
RenameFailsOnly ==
  /\ phase = "commit" /\ committed # DOMAIN updates
  /\ UNCHANGED <<tree, runs, edits, recorded>>
  /\ Return("error") /\ unrestored' = {}

(* A rename fails: the originals are written back over the files renamed   *)
(* so far, and over what was saved there since.  Some of these writes may  *)
(* fail, before the file is truncated or after; a kill in the middle is    *)
(* like the failing of the writes still to come.  A save between two of    *)
(* the writes is like one before the first or after the last.              *)
RenameFails ==
  /\ phase = "commit" /\ committed # DOMAIN updates
  /\ UNCHANGED <<runs, edits, recorded>>
  /\ \E F \in SUBSET committed, T \in SUBSET committed :
       /\ T \subseteq F /\ unrestored' = F
       /\ tree' = [f \in File |-> IF f \in T THEN Torn
                                  ELSE IF f \in committed \ F THEN originals[f] ELSE tree[f]]
  /\ Return("error")

(* The process is killed between two renames.                              *)
Kill ==
  /\ phase = "commit"
  /\ UNCHANGED <<tree, runs, edits, unrestored, recorded>>
  /\ Return("killed")

-----------------------------------------------------------------------------
(* Somebody saves a file: the text of a template, another input, or a      *)
(* version constant, with no other change to what the file holds then.  A  *)
(* torn file is left alone: to restore it from git is like a restoring     *)
(* write that did not fail.                                                *)
Edit(f) ==
  /\ edits < MaxEdits /\ f \in Source \cup Input \cup Constant /\ tree[f] # Torn
  /\ LET save(t) == CASE f \in Source   -> [t EXCEPT ![f].text = ~@]
                      [] f \in Input    -> [t EXCEPT ![f] = ~@]
                      [] f \in Constant -> [t EXCEPT ![f] = @ + 1]
     IN tree' = save(tree) /\ users' = save(users)
  /\ edits' = edits + 1
  /\ outdated' = IF f \in DOMAIN staged THEN outdated \cup {f} ELSE outdated
  /\ late' = late \cup {g \in {f} \cap DOMAIN updates :
                         (phase = "compare" /\ g \notin todo) \/ (phase = "commit" /\ g \notin committed)}
  /\ again' = again \cup ({f} \cap committed)
  /\ UNCHANGED <<phase, outcome, work, runs, unrestored, recorded>>

Next ==
  \/ Begin \/ Current \/ ReadVersion \/ Build \/ Abort
  \/ Prepared \/ Replaced \/ RenameFails \/ Kill
  \/ \E s \in Source : Read(s)
  \/ \E f \in File : Copy(f) \/ Compare(f) \/ Rename(f) \/ Edit(f)

Spec == Init /\ [][Next]_vars

-----------------------------------------------------------------------------
(* Properties.                                                             *)

(* A run that changed the checkout leaves generated files that match its   *)
(* inputs, unless somebody saved a file it had already renamed, or, after  *)
(* it was copied, an input that this run does not replace: the saves that  *)
(* replaceFiles cannot notice, and that the later --verify of the contract *)
(* tests is for.  It does so over what a failed rollback or a kill left of *)
(* an earlier run, too.                                                    *)
ChangedIsConsistent ==
  [][phase = "commit" /\ outcome' = "changed" /\ ~Consistent(tree') =>
       \/ again # {}
       \/ \E f \in outdated : f \in (Source \cup Input) \ DOMAIN updates]_vars

(* A run that changed the checkout kept what people saved meanwhile, in    *)
(* the files it replaced too, with one exception: a save between a file's  *)
(* comparison (apply.go:307) and its rename (324) is overwritten.          *)
ChangedKeepsEdits ==
  [][phase = "commit" /\ outcome' = "changed" =>
       /\ \A s \in Source \ late : tree'[s].text = users[s].text
       /\ \A f \in Input : tree'[f] = users[f]
       /\ \A c \in Constant \ late : tree'[c] = users[c] + 1]_vars

(* "Network, generator and test failures leave it untouched" (apply.go:25) *)
(* and so does a run with nothing to do.  When a rename failed, the files  *)
(* it had renamed are an exception if somebody saved one after its         *)
(* comparison, or if its restoring write failed in turn.                   *)
FailureTouchesNothing ==
  [][phase # "idle" /\ outcome' \in {"error", "unchanged"} =>
       \A f \in File : \/ tree'[f] = users[f]
                       \/ f \in committed \cap (late \cup again \cup unrestored')]_vars

(* However the registries change between runs and however runs fail, no    *)
(* two revisions of a template recommend one release of an image with two  *)
(* different digests.                                                      *)
ArtifactsAreImmutable ==
  \A a, b \in recorded : a.source = b.source /\ a.source \in Oci /\ a.release = b.release =>
    a.artifact = b.artifact

(* A revision stands for one release: hosts compare revisions to offer an  *)
(* update.  A later revision never recommends an earlier release, and none *)
(* is beyond the largest int.                                              *)
RevisionsFollowReleases ==
  \A a, b \in recorded : a.source = b.source =>
    /\ a.revision = b.revision => a = b
    /\ a.revision < b.revision => a.release.rank <= b.release.rank
    /\ a.revision <= MaxRevision
=============================================================================
