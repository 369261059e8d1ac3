---------------------------- MODULE Publication -----------------------------
(***************************************************************************)
(* Publishing a catalog: .github/workflows/update-releases.yml and         *)
(* scripts/publish_catalog.sh, against a remote repository that others     *)
(* push to and tag at the same time.  Each command of the script is a      *)
(* step, because between any two of them the remote may change, the        *)
(* process may die, and the reply of a push may be lost.                   *)
(*                                                                         *)
(* The workflow starts from a fresh clone every time and never runs twice  *)
(* at once (its concurrency group), so it is one publisher.  A person who  *)
(* runs the script keeps one clone from run to run, with whatever an       *)
(* earlier failed run left in it.                                          *)
(***************************************************************************)
EXTENDS Integers, Sequences, FiniteSets

CONSTANTS
  Automated,   \* the workflow: a fresh clone per run
  Manual,      \* persons running the script in their own clone
  Others,      \* the author of every other change
  Moving,      \* publishers whose branch may get a commit during a run
  Version, Release,
  MaxPushes,   \* bound: changes others push to main
  MaxTags,     \* bound: tags others create
  MaxAborts,   \* bound: failed commands, kills, timeouts, lost replies
  MaxLength    \* bound: changes on a branch

Publisher == Automated \cup Manual
Author == Publisher \cup {Others}

ASSUME PublisherAssumption ==
  /\ Automated \cap Manual = {} /\ Others \notin Publisher /\ Moving \subseteq Publisher
ASSUME BoundAssumption ==
  /\ Version \subseteq Nat /\ Release \subseteq Nat
  /\ \A n \in {MaxPushes, MaxTags, MaxAborts, MaxLength} : n \in Nat

VARIABLES
  remoteMain,  \* refs/heads/main of origin
  remoteTags,  \* refs/tags of origin
  upstream,    \* the newest upstream release
  pc,          \* the next command of each publisher
  base,        \* the script's first argument
  branch,      \* the private branch: the candidate commit
  version,     \* the version read from the branch's catalog.go
  main,        \* the local main of each publisher's clone
  tags,        \* the local tags of each publisher's clone
  count,       \* pushes and tags by others, aborts
  released     \* history: what the script pushed, and who did

remote == <<remoteMain, remoteTags>>
run == <<base, branch, version>>
clone == <<main, tags>>
vars == <<remote, upstream, pc, run, clone, count, released>>

History == INSTANCE CatalogHistory WITH main <- remoteMain, tags <- remoteTags

Change == History!Change
Commit == History!Commit
NoTag == History!NoTag
Tip(c) == History!Tip(c)
Ancestor(a, b) == History!Ancestor(a, b)

Init ==
  /\ \E c \in Change :
       /\ c.by = Others /\ c.sound
       /\ remoteMain = <<c>>
       /\ remoteTags = [v \in Version |-> IF v = c.version THEN <<c>> ELSE NoTag]
       /\ upstream = c.release
  /\ pc = [p \in Publisher |-> "idle"]
  /\ base = [p \in Publisher |-> remoteMain] /\ branch = base
  /\ version = [p \in Publisher |-> Tip(remoteMain).version]
  /\ main = base
  /\ tags = [p \in Publisher |-> remoteTags]
  /\ count = [pushes |-> 0, tags |-> 0, aborts |-> 0]
  /\ released = {}

Goto(p, l) == pc' = [pc EXCEPT ![p] = l]

-----------------------------------------------------------------------------
(* Before the script: a base, and a candidate committed on a branch of it. *)

Ready(p) == pc[p] \in {"idle", "published", "failed"}

Candidate(p, from, commits) ==
  /\ Len(from \o commits) <= MaxLength
  /\ base' = [base EXCEPT ![p] = from]
  /\ branch' = [branch EXCEPT ![p] = from \o commits]
  /\ main' = [main EXCEPT ![p] = from]
  /\ Goto(p, "verify")

(* Mutant of Automate: branch from the clone's main, not from origin's. *)
AutomateFromClone(p, repaired) ==
  /\ p \in Automated /\ Ready(p) /\ (Tip(main[p]).sound \/ repaired)
  /\ upstream > Tip(main[p]).release
  /\ Tip(main[p]).version + 1 \in Version
  /\ Candidate(p, main[p], <<[by |-> p, version |-> Tip(main[p]).version + 1,
                              release |-> upstream, sound |-> TRUE]>>)
  /\ UNCHANGED <<remote, upstream, version, tags, count, released>>

(* The workflow: check out and fetch origin, branch from origin/main, run  *)
(* the release watcher there (next patch number, newest upstream release,  *)
(* validated before it changes a file) and commit.  A base that the        *)
(* contracts refuse fails the watcher's own validation or the next step,   *)
(* unless what was wrong were the generated files the watcher replaces.    *)
(* Such a run ends without a commit, and so does one that finds no newer   *)
(* release; neither changes anything here.                                 *)
Automate(p, repaired) ==
  /\ p \in Automated /\ Ready(p) /\ (Tip(remoteMain).sound \/ repaired)
  /\ upstream > Tip(remoteMain).release
  /\ Tip(remoteMain).version + 1 \in Version
  /\ Candidate(p, remoteMain, <<[by |-> p, version |-> Tip(remoteMain).version + 1,
                                 release |-> upstream, sound |-> TRUE]>>)
  /\ tags' = [tags EXCEPT ![p] = remoteTags]
  /\ UNCHANGED <<remote, upstream, version, count, released>>

(* A person: pull if the local main allows it, and commit anything at all, *)
(* or nothing, on a branch of the local main.                              *)
Prepare(p, v, s) ==
  /\ p \in Manual /\ Ready(p)
  /\ \E from \in {main[p], remoteMain} :
       /\ Ancestor(main[p], from)
       /\ \/ Candidate(p, from, <<>>)
          \/ Candidate(p, from, <<[by |-> p, version |-> v, release |-> Tip(from).release, sound |-> s]>>)
  /\ UNCHANGED <<remote, upstream, version, tags, count, released>>

-----------------------------------------------------------------------------
(* The script.  A failed test ends it and leaves the clone as it is.       *)

Continue(p, test, next) == Goto(p, IF test THEN next ELSE "failed")

(* Lines 5 to 13: the base is the local main and an ancestor of the        *)
(* branch, whose catalog.go names the version.                             *)
Verify(p) ==
  /\ pc[p] = "verify"
  /\ version' = [version EXCEPT ![p] = Tip(branch[p]).version]
  /\ Continue(p, main[p] = base[p] /\ Ancestor(base[p], branch[p]), "fetch")
  /\ UNCHANGED <<remote, upstream, base, branch, clone, count, released>>

(* Lines 14 and 15: origin/main, freshly fetched, is the base.  git fetch  *)
(* brings along the tags of the commits it fetches.                        *)
Fetch(p) ==
  /\ pc[p] = "fetch"
  /\ tags' = [tags EXCEPT ![p] =
       [v \in Version |-> IF tags[p][v] = NoTag /\ Ancestor(remoteTags[v], remoteMain)
                            THEN remoteTags[v] ELSE tags[p][v]]]
  /\ Continue(p, remoteMain = base[p], "lookup")
  /\ UNCHANGED <<remote, upstream, run, main, count, released>>

(* Lines 16 to 22: neither origin nor the clone has the tag.               *)
Lookup(p) ==
  /\ pc[p] = "lookup"
  /\ Continue(p, remoteTags[version[p]] = NoTag /\ tags[p][version[p]] = NoTag, "gate")
  /\ UNCHANGED <<remote, upstream, run, clone, count, released>>

(* Mutant of Gate: the contracts are not checked. *)
GateSkipped(p) ==
  /\ pc[p] = "gate" /\ Goto(p, "merge")
  /\ UNCHANGED <<remote, upstream, run, clone, count, released>>

(* Lines 23 to 25: the branch's worktree passes scripts/check_contracts.sh. *)
Gate(p) ==
  /\ pc[p] = "gate"
  /\ Continue(p, Tip(branch[p]).sound, "merge")
  /\ UNCHANGED <<remote, upstream, run, clone, count, released>>

(* Mutant of Merge: the branch is not merged before main is tagged. *)
MergeSkipped(p) ==
  /\ pc[p] = "merge" /\ Goto(p, "tag")
  /\ UNCHANGED <<remote, upstream, run, clone, count, released>>

(* Where the private branch is by now: a publisher in Moving may have      *)
(* committed to it since the script read it.                               *)
Commits(p) == {c \in Change : c.by = p /\ c.release = Tip(branch[p]).release}
Now(p) ==
  {branch[p]} \cup
    IF p \in Moving /\ Len(branch[p]) < MaxLength
      THEN {Append(branch[p], c) : c \in Commits(p)} ELSE {}

(* Line 26: fast-forward the local main to the branch, wherever it is now. *)
Merge(p) ==
  /\ pc[p] = "merge"
  /\ \E b \in Now(p) :
       /\ branch' = [branch EXCEPT ![p] = b]
       /\ IF Ancestor(main[p], b)
            THEN main' = [main EXCEPT ![p] = b] /\ Goto(p, "tag")
            ELSE Goto(p, "failed") /\ UNCHANGED main
  /\ UNCHANGED <<remote, upstream, base, version, tags, count, released>>

(* Line 27: tag the local main.                                            *)
Tag(p) ==
  /\ pc[p] = "tag"
  /\ tags' = [tags EXCEPT ![p][version[p]] = main[p]]
  /\ Goto(p, "push")
  /\ UNCHANGED <<remote, upstream, run, main, count, released>>

(* What origin accepts: both refs or neither, main only as a fast-forward, *)
(* the tag only as a new one.                                              *)
Accepted(p) == Ancestor(remoteMain, main[p]) /\ remoteTags[version[p]] = NoTag

(* Mutant of Apply: main is pushed with --force. *)
ApplyForced(p) ==
  /\ remoteTags[version[p]] = NoTag
  /\ remoteMain' = main[p]
  /\ remoteTags' = [remoteTags EXCEPT ![version[p]] = tags[p][version[p]]]
  /\ released' = released \cup {[by |-> p, version |-> version[p], commit |-> main[p]]}

(* Mutant of Apply: a push without --atomic. *)
ApplyEachRef(p) ==
  /\ Ancestor(remoteMain, main[p])
  /\ remoteMain' = main[p]
  /\ remoteTags' = IF remoteTags[version[p]] = NoTag
                     THEN [remoteTags EXCEPT ![version[p]] = tags[p][version[p]]] ELSE remoteTags
  /\ released' = released \cup {[by |-> p, version |-> version[p], commit |-> main[p]]}

Apply(p) ==
  /\ Accepted(p)
  /\ remoteMain' = main[p]
  /\ remoteTags' = [remoteTags EXCEPT ![version[p]] = tags[p][version[p]]]
  /\ released' = released \cup {[by |-> p, version |-> version[p], commit |-> main[p]]}

(* Line 28: git push --atomic.                                             *)
Push(p) ==
  /\ pc[p] = "push"
  /\ \/ Apply(p) /\ Goto(p, "published")
     \/ ~Accepted(p) /\ Goto(p, "failed") /\ UNCHANGED <<remote, released>>
  /\ UNCHANGED <<upstream, run, clone, count>>

(* The push took effect and its reply was lost, or the runner died.        *)
PushReplyLost(p) ==
  /\ pc[p] = "push" /\ count.aborts < MaxAborts
  /\ Apply(p) /\ Goto(p, "failed")
  /\ count' = [count EXCEPT !.aborts = @ + 1]
  /\ UNCHANGED <<upstream, run, clone>>

(* Any command fails, or the run is killed or times out, before it takes   *)
(* effect: the remote does not notice, the clone stays as it is.           *)
Abort(p) ==
  /\ ~Ready(p) /\ count.aborts < MaxAborts
  /\ Goto(p, "failed")
  /\ count' = [count EXCEPT !.aborts = @ + 1]
  /\ UNCHANGED <<remote, upstream, run, clone, released>>

-----------------------------------------------------------------------------
(* The others.                                                             *)

(* A maintainer pushes a change that is not a catalog release.             *)
ForeignPush(s) ==
  /\ count.pushes < MaxPushes
  /\ remoteMain' = Append(remoteMain, [Tip(remoteMain) EXCEPT !.by = Others, !.sound = s])
  /\ count' = [count EXCEPT !.pushes = @ + 1]
  /\ UNCHANGED <<remoteTags, upstream, pc, run, clone, released>>

(* Somebody creates a version tag at the tip of main.                      *)
ForeignTag(v) ==
  /\ count.tags < MaxTags /\ remoteTags[v] = NoTag
  /\ remoteTags' = [remoteTags EXCEPT ![v] = remoteMain]
  /\ count' = [count EXCEPT !.tags = @ + 1]
  /\ UNCHANGED <<remoteMain, upstream, pc, run, clone, released>>

UpstreamReleases ==
  /\ \E r \in Release : r > upstream /\ upstream' = r
  /\ UNCHANGED <<remote, pc, run, clone, count, released>>

Script(p) == Verify(p) \/ Fetch(p) \/ Lookup(p) \/ Gate(p) \/ Merge(p) \/ Tag(p) \/ Push(p)

Next ==
  \/ \E p \in Publisher :
       \/ Script(p) \/ PushReplyLost(p) \/ Abort(p)
       \/ \E repaired \in BOOLEAN : Automate(p, repaired)
       \/ \E v \in Version, s \in BOOLEAN : Prepare(p, v, s)
  \/ \E s \in BOOLEAN : ForeignPush(s)
  \/ \E v \in Version : ForeignTag(v)
  \/ UpstreamReleases

Spec == Init /\ [][Next]_vars

(* The schedule starts the workflow again every day, and a command that    *)
(* can run does run; pushes, aborts and tags by others are bounded.  That  *)
(* the watcher repairs what somebody pushed is not taken for granted.      *)
FairSpec == Spec /\ \A p \in Automated : WF_vars(Automate(p, FALSE)) /\ WF_vars(Script(p))

-----------------------------------------------------------------------------
(* Properties.                                                             *)

TypeOK ==
  /\ remoteMain \in Commit /\ remoteTags \in [Version -> Commit \cup {NoTag}]
  /\ upstream \in Release
  /\ pc \in [Publisher -> {"idle", "verify", "fetch", "lookup", "gate", "merge",
                           "tag", "push", "published", "failed"}]
  /\ base \in [Publisher -> Commit] /\ branch \in [Publisher -> Commit]
  /\ version \in [Publisher -> Version]
  /\ main \in [Publisher -> Commit]
  /\ tags \in [Publisher -> [Version -> Commit \cup {NoTag}]]
  /\ count \in [pushes : Nat, tags : Nat, aborts : Nat]
  /\ released \subseteq [by : Publisher, version : Version, commit : Commit]

Steady(p) == p \notin Moving

(* A release stays what it was: its tag still names the commit that was    *)
(* pushed with it, and main has grown from that commit and never left it,  *)
(* whatever others pushed and tagged and however often runs failed.        *)
ReleasesStay ==
  \A r \in released :
    /\ remoteTags[r.version] = r.commit
    /\ Ancestor(r.commit, remoteMain)

(* The tag of a release is the version its own catalog.go declares, so the *)
(* Go module of that version carries the catalog of that version.          *)
TagNamesItsVersion ==
  \A r \in released : Steady(r.by) => Tip(r.commit).version = r.version

(* "Contract and historical tests are required for both manual and         *)
(* automated publication" (README.md:165): a released commit is one that   *)
(* the gate passed.                                                        *)
ReleasesAreTested ==
  \A r \in released : Tip(r.commit).sound

(* main and the tag move together: a release commit is on main only with   *)
(* its tag.  No failed run, lost reply or retry from a clone that an       *)
(* earlier failure left ahead of origin separates the two.                 *)
NoUntaggedRelease ==
  \A i \in 1..Len(remoteMain) :
    remoteMain[i].by \in Publisher =>
      remoteTags[remoteMain[i].version] = SubSeq(remoteMain, 1, i)

(* A run that ends badly either changed nothing at origin or published its *)
(* branch completely: what an operator finds after "inspect the immutable  *)
(* remote refs before retrying an uncertain network result".               *)
FailuresAreClean ==
  \A p \in Publisher :
    pc[p] = "failed" /\ Steady(p) /\ branch[p] # base[p] =>
      (Ancestor(branch[p], remoteMain) <=> remoteTags[Tip(branch[p]).version] = branch[p])

(* Refinement: seen from origin, every run is one step that publishes a    *)
(* tested commit under its own version, or nothing.                        *)
IsHistory == History!Spec

(* A newer upstream release is eventually recommended by main, whatever    *)
(* others publish and however runs fail, unless the tests refuse what      *)
(* somebody pushed to main, which stops every run until somebody repairs   *)
(* it, the next version's tag is taken, which no run repairs, or the model *)
(* runs out of numbers.                                                    *)
UpstreamIsFollowed ==
  <>[](LET next == Tip(remoteMain).version + 1
       IN \/ Tip(remoteMain).release = upstream
          \/ ~Tip(remoteMain).sound
          \/ next \notin Version \/ Len(remoteMain) = MaxLength
          \/ remoteTags[next] # NoTag)

(* The inductive invariant: what the commands passed so far have           *)
(* established, as long as nobody moves the branch under the script.       *)
Established(p) ==
  /\ Steady(p) =>
       /\ pc[p] \in {"fetch", "lookup", "gate", "merge", "tag", "push"} =>
            version[p] = Tip(branch[p]).version /\ Ancestor(base[p], branch[p])
       /\ pc[p] \in {"merge", "tag", "push"} => Tip(branch[p]).sound
       /\ pc[p] \in {"tag", "push"} => main[p] = branch[p]
  /\ pc[p] = "push" => tags[p][version[p]] = main[p]

(* Every publisher's progress and every release so far are as they should. *)
Progress ==
  /\ \A p \in Publisher : Established(p)
  /\ ReleasesStay
  /\ \A r \in released : Steady(r.by) => Tip(r.commit).version = r.version /\ Tip(r.commit).sound

(* What separates main and its tags from a run in progress: a candidate is *)
(* one commit on its base, the base stays on main once it was fetched, and *)
(* every tag is on main.                                                   *)
Ledger ==
  /\ \A v \in Version : remoteTags[v] # NoTag => Ancestor(remoteTags[v], remoteMain)
  /\ \A p \in Publisher :
       /\ branch[p] # base[p] => \E c \in Change : c.by = p /\ branch[p] = Append(base[p], c)
       /\ pc[p] \in {"lookup", "gate", "merge", "tag", "push"} => Ancestor(base[p], remoteMain)
  /\ NoUntaggedRelease

(* Both, the second as long as nobody moves a branch under the script.     *)
Inv == Progress /\ (Moving = {} => Ledger)
=============================================================================
