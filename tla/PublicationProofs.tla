------------------------- MODULE PublicationProofs --------------------------
(***************************************************************************)
(* What publication guarantees for any number of publishers, of pushes and *)
(* tags by others, of failures and of versions.                            *)
(***************************************************************************)
EXTENDS Publication, SequenceTheorems, TLAPS

(* The groups of variables, expanded wherever an action is. *)
USE DEF remote, run, clone

-----------------------------------------------------------------------------
(* Histories.                                                              *)

(* The last element of a sequence is one of its elements. *)
LEMMA LastElement ==
  ASSUME NEW S, NEW c \in Seq(S), c # <<>>
  PROVE  Len(c) \in 1..Len(c) /\ c[Len(c)] \in S
<1>1. Len(c) \in Nat /\ Len(c) # 0
  OBVIOUS
<1>2. Len(c) \in 1..Len(c)
  BY <1>1
<1> QED
  BY <1>2

(* The tip of a commit is a change. *)
LEMMA TipType == ASSUME NEW c \in Commit PROVE Tip(c) \in Change
<1>1. c \in Seq(Change) /\ c # <<>>
  BY DEF Commit, Change, History!Commit, History!NoTag
<1>2. c[Len(c)] \in Change
  BY <1>1, LastElement
<1> QED
  BY <1>2 DEF Tip, History!Tip

(* A commit is an ancestor of itself. *)
LEMMA AncestorReflexive == ASSUME NEW S, NEW a \in Seq(S) PROVE Ancestor(a, a)
BY DEF Ancestor, History!Ancestor

(* Being an ancestor is transitive. *)
LEMMA AncestorTransitive ==
  ASSUME NEW S, NEW a \in Seq(S), NEW b \in Seq(S), NEW c \in Seq(S),
         Ancestor(a, b), Ancestor(b, c)
  PROVE  Ancestor(a, c)
<1> USE DEF Ancestor, History!Ancestor
<1>1. Len(a) \in Nat /\ Len(b) \in Nat /\ Len(c) \in Nat /\ Len(a) <= Len(c)
  OBVIOUS
<1>2. ASSUME NEW i \in 1..Len(a) PROVE a[i] = c[i]
  BY <1>1
<1> QED
  BY <1>1, <1>2

(* Elements put behind a sequence keep it as an ancestor. *)
LEMMA AncestorConcat ==
  ASSUME NEW S, NEW a \in Seq(S), NEW s \in Seq(S)
  PROVE  a \o s \in Seq(S) /\ Ancestor(a, a \o s) /\ (a # <<>> => a \o s # <<>>)
<1>1. a \o s \in Seq(S) /\ Len(a \o s) = Len(a) + Len(s)
  OBVIOUS
<1>2. Len(a) \in Nat /\ Len(s) \in Nat
  OBVIOUS
<1>3. \A i \in 1..Len(a) : (a \o s)[i] = a[i]
  OBVIOUS
<1>4. a # <<>> => Len(a) # 0
  OBVIOUS
<1>5. a # <<>> => a \o s # <<>>
  BY <1>1, <1>2, <1>4
<1> QED
  BY <1>1, <1>2, <1>3, <1>5 DEF Ancestor, History!Ancestor

(* Changes put on top of a commit make a commit that descends from it. *)
LEMMA ConcatCommit ==
  ASSUME NEW a \in Commit, NEW s \in Seq(Change)
  PROVE  a \o s \in Commit /\ Ancestor(a, a \o s)
BY AncestorConcat DEF Commit, Change, History!Commit

(* The same for a single change. *)
LEMMA AppendCommit ==
  ASSUME NEW a \in Commit, NEW c \in Change
  PROVE  Append(a, c) \in Commit /\ Ancestor(a, Append(a, c))
<1>1. Append(a, c) = a \o <<c>> /\ <<c>> \in Seq(Change)
  BY DEF Commit, Change, History!Commit
<1> QED
  BY <1>1, ConcatCommit

(* What a release needs to know of commits. *)
LEMMA CommitAncestors ==
  /\ \A a \in Commit : Ancestor(a, a)
  /\ \A a, b, c \in Commit : Ancestor(a, b) /\ Ancestor(b, c) => Ancestor(a, c)
  /\ NoTag \notin Commit
<1>1. \A a \in Commit : a \in Seq(Change)
  BY DEF Commit, Change, History!Commit
<1>2. \A a \in Commit : Ancestor(a, a)
  BY <1>1, AncestorReflexive
<1>3. ASSUME NEW a \in Commit, NEW b \in Commit, NEW c \in Commit,
             Ancestor(a, b), Ancestor(b, c)
      PROVE  Ancestor(a, c)
  BY <1>1, <1>3, AncestorTransitive
<1>4. NoTag \notin Commit
  BY DEF Commit, NoTag, History!Commit, History!NoTag
<1> QED
  BY <1>2, <1>3, <1>4

-----------------------------------------------------------------------------
(* Types.                                                                  *)

(* A record of the right fields is a change. *)
LEMMA ChangeFields ==
  Change = [by : Author, version : Version, release : Release, sound : BOOLEAN]
BY DEF Change, History!Change

(* The candidate of a run is a commit on top of its base. *)
LEMMA CandidateType ==
  ASSUME TypeOK, NEW p \in Publisher, NEW from \in Commit, NEW s \in Seq(Change),
         Candidate(p, from, s)
  PROVE  /\ base' \in [Publisher -> Commit] /\ branch' \in [Publisher -> Commit]
         /\ main' \in [Publisher -> Commit]
         /\ pc' = [pc EXCEPT ![p] = "verify"]
BY ConcatCommit DEF Candidate, TypeOK, Goto

(* What a push brings to origin is well typed. *)
LEMMA ApplyType ==
  ASSUME TypeOK, NEW p \in Publisher, Apply(p)
  PROVE  /\ remoteMain' \in Commit /\ remoteTags' \in [Version -> Commit \cup {NoTag}]
         /\ released' \subseteq [by : Publisher, version : Version, commit : Commit]
<1>1. main[p] \in Commit /\ version[p] \in Version /\ tags[p][version[p]] \in Commit \cup {NoTag}
  BY DEF TypeOK
<1>2. remoteTags' = [remoteTags EXCEPT ![version[p]] = tags[p][version[p]]]
  BY DEF Apply
<1>3. [by |-> p, version |-> version[p], commit |-> main[p]]
        \in [by : Publisher, version : Version, commit : Commit]
  BY <1>1
<1> QED
  BY <1>1, <1>2, <1>3 DEF Apply, TypeOK

(* The initial states are well typed and satisfy the invariant. *)
LEMMA InitInv == Init => TypeOK /\ Progress
<1> SUFFICES ASSUME Init PROVE TypeOK /\ Progress
  OBVIOUS
<1>1. PICK c \in Change :
        /\ remoteMain = <<c>>
        /\ remoteTags = [v \in Version |-> IF v = c.version THEN <<c>> ELSE NoTag]
        /\ upstream = c.release
  BY DEF Init
<1>2. <<c>> \in Commit
  BY DEF Commit, Change, History!Commit, History!NoTag
<1>3. Tip(<<c>>) = c /\ c.version \in Version /\ c.release \in Release
  BY ChangeFields DEF Tip, History!Tip
<1>4. TypeOK
  BY <1>1, <1>2, <1>3 DEF Init, TypeOK
<1>5. Progress
  BY DEF Init, Progress, Established, ReleasesStay
<1> QED
  BY <1>4, <1>5

(* A branch that moved is a commit still. *)
LEMMA NowType ==
  ASSUME NEW p \in Publisher, branch[p] \in Commit, NEW b \in Now(p)
  PROVE  b \in Commit
<1>1. CASE b = branch[p]
  BY <1>1
<1>2. CASE b # branch[p]
  <2>1. PICK c \in Change : b = Append(branch[p], c)
    BY <1>2 DEF Now, Commits
  <2> QED
    BY <2>1, AppendCommit
<1> QED
  BY <1>1, <1>2

(* Every step keeps the types. *)
LEMMA TypeStep == TypeOK /\ [Next]_vars => TypeOK'
<1> SUFFICES ASSUME TypeOK, [Next]_vars PROVE TypeOK'
  OBVIOUS
<1>1. ASSUME NEW p \in Publisher, NEW r \in BOOLEAN, Automate(p, r) PROVE TypeOK'
  <2> DEFINE c == [by |-> p, version |-> Tip(remoteMain).version + 1, release |-> upstream, sound |-> TRUE]
  <2>1. <<c>> \in Seq(Change)
    BY <1>1, ChangeFields DEF Automate, TypeOK, Author
  <2>2. Candidate(p, remoteMain, <<c>>) /\ tags' = [tags EXCEPT ![p] = remoteTags]
    BY <1>1 DEF Automate
  <2> HIDE DEF c
  <2>3. /\ base' \in [Publisher -> Commit] /\ branch' \in [Publisher -> Commit]
        /\ main' \in [Publisher -> Commit] /\ pc' = [pc EXCEPT ![p] = "verify"]
    BY <2>1, <2>2, CandidateType DEF TypeOK
  <2>4. UNCHANGED <<remote, upstream, version, count, released>>
    BY <1>1 DEF Automate
  <2> QED
    BY <2>2, <2>3, <2>4 DEF TypeOK
<1>2. ASSUME NEW p \in Publisher, NEW v \in Version, NEW s \in BOOLEAN, Prepare(p, v, s) PROVE TypeOK'
  <2>1. PICK from \in {main[p], remoteMain} :
          \/ Candidate(p, from, <<>>)
          \/ Candidate(p, from, <<[by |-> p, version |-> v, release |-> Tip(from).release, sound |-> s]>>)
    BY <1>2 DEF Prepare
  <2> DEFINE c == [by |-> p, version |-> v, release |-> Tip(from).release, sound |-> s]
  <2>2. from \in Commit /\ Tip(from) \in Change
    BY TipType DEF TypeOK
  <2>3. <<>> \in Seq(Change) /\ <<c>> \in Seq(Change)
    BY <2>2, ChangeFields DEF Author
  <2>4. Candidate(p, from, <<>>) \/ Candidate(p, from, <<c>>)
    BY <2>1
  <2> HIDE DEF c
  <2> QED
    BY <1>2, <2>2, <2>3, <2>4, CandidateType DEF Prepare, TypeOK
<1>3. ASSUME NEW p \in Publisher, Script(p) PROVE TypeOK'
  <2>1. CASE Verify(p)
    <3>1. Tip(branch[p]).version \in Version
      BY TipType, ChangeFields DEF TypeOK
    <3> QED
      BY <2>1, <3>1 DEF Verify, Continue, Goto, TypeOK
  <2>2. CASE Fetch(p)
    <3> DEFINE t == [v \in Version |-> IF tags[p][v] = NoTag /\ Ancestor(remoteTags[v], remoteMain)
                                         THEN remoteTags[v] ELSE tags[p][v]]
    <3>1. t \in [Version -> Commit \cup {NoTag}]
      BY DEF TypeOK
    <3>2. tags' = [tags EXCEPT ![p] = t]
      BY <2>2 DEF Fetch
    <3> HIDE DEF t
    <3>3. tags' \in [Publisher -> [Version -> Commit \cup {NoTag}]]
      BY <3>1, <3>2 DEF TypeOK
    <3> QED
      BY <2>2, <3>3 DEF Fetch, Continue, Goto, TypeOK
  <2>3. CASE Lookup(p)
    BY <2>3 DEF Lookup, Continue, Goto, TypeOK
  <2>4. CASE Gate(p)
    BY <2>4 DEF Gate, Continue, Goto, TypeOK
  <2>5. CASE Merge(p)
    <3>1. PICK b \in Now(p) : branch' = [branch EXCEPT ![p] = b]
                              /\ main' \in {main, [main EXCEPT ![p] = b]}
      BY <2>5 DEF Merge
    <3>2. b \in Commit
      BY <3>1, NowType DEF TypeOK
    <3>3. branch' \in [Publisher -> Commit] /\ main' \in [Publisher -> Commit]
      BY <3>1, <3>2 DEF TypeOK
    <3>4. \E l \in {"tag", "failed"} : pc' = [pc EXCEPT ![p] = l]
      BY <2>5 DEF Merge, Goto
    <3>5. UNCHANGED <<remote, upstream, base, version, tags, count, released>>
      BY <2>5 DEF Merge
    <3> QED
      BY <3>3, <3>4, <3>5 DEF TypeOK, remote
  <2>6. CASE Tag(p)
    BY <2>6 DEF Tag, Goto, TypeOK
  <2>7. CASE Push(p)
    <3>1. CASE Apply(p) /\ Goto(p, "published")
      BY <2>7, <3>1, ApplyType DEF Push, Goto, TypeOK
    <3>2. CASE UNCHANGED <<remote, released>> /\ Goto(p, "failed")
      BY <2>7, <3>2 DEF Push, Goto, TypeOK
    <3> QED
      BY <2>7, <3>1, <3>2 DEF Push
  <2> QED
    BY <1>3, <2>1, <2>2, <2>3, <2>4, <2>5, <2>6, <2>7 DEF Script
<1>4. ASSUME NEW p \in Publisher, PushReplyLost(p) PROVE TypeOK'
  BY <1>4, ApplyType DEF PushReplyLost, Goto, TypeOK
<1>5. ASSUME NEW p \in Publisher, Abort(p) PROVE TypeOK'
  BY <1>5 DEF Abort, Goto, TypeOK
<1>6. ASSUME NEW s \in BOOLEAN, ForeignPush(s) PROVE TypeOK'
  <2> DEFINE c == [Tip(remoteMain) EXCEPT !.by = Others, !.sound = s]
  <2>1. c \in Change /\ remoteMain \in Commit
    BY TipType, ChangeFields DEF TypeOK, Author
  <2>2. remoteMain' = Append(remoteMain, c)
    BY <1>6 DEF ForeignPush
  <2> HIDE DEF c
  <2>3. remoteMain' \in Commit
    BY <2>1, <2>2, AppendCommit
  <2>4. count' = [count EXCEPT !.pushes = @ + 1] /\ count \in [pushes : Nat, tags : Nat, aborts : Nat]
    BY <1>6 DEF ForeignPush, TypeOK
  <2>5. count' \in [pushes : Nat, tags : Nat, aborts : Nat]
    BY <2>4
  <2>6. UNCHANGED <<remoteTags, upstream, pc, run, clone, released>>
    BY <1>6 DEF ForeignPush
  <2> QED
    BY <2>3, <2>5, <2>6 DEF TypeOK
<1>7. ASSUME NEW v \in Version, ForeignTag(v) PROVE TypeOK'
  BY <1>7 DEF ForeignTag, TypeOK
<1>8. CASE UpstreamReleases
  BY <1>8 DEF UpstreamReleases, TypeOK
<1>9. CASE UNCHANGED vars
  BY <1>9 DEF vars, TypeOK
<1> QED
  BY <1>1, <1>2, <1>3, <1>4, <1>5, <1>6, <1>7, <1>8, <1>9 DEF Next

-----------------------------------------------------------------------------
(* The invariant.                                                          *)

(* A step that moves no tag and only extends main keeps every release.     *)
LEMMA ReleasesKept ==
  ASSUME TypeOK, TypeOK', ReleasesStay, released' = released,
         \A v \in Version : remoteTags[v] # NoTag => remoteTags'[v] = remoteTags[v],
         Ancestor(remoteMain, remoteMain')
  PROVE  ReleasesStay'
<1> SUFFICES ASSUME NEW r \in released
             PROVE  remoteTags'[r.version] = r.commit /\ Ancestor(r.commit, remoteMain')
  BY DEF ReleasesStay
<1>1. r.version \in Version /\ r.commit \in Commit
  BY DEF TypeOK
<1>2. remoteTags[r.version] = r.commit /\ Ancestor(r.commit, remoteMain)
  BY DEF ReleasesStay
<1>3. remoteMain \in Commit /\ remoteMain' \in Commit
  BY DEF TypeOK
<1> QED
  BY <1>1, <1>2, <1>3, CommitAncestors

(* A push whose tag names the pushed main keeps every release, its own     *)
(* included.                                                               *)
LEMMA ReleasesPushed ==
  ASSUME TypeOK, ReleasesStay, NEW p \in Publisher, Apply(p), tags[p][version[p]] = main[p]
  PROVE  ReleasesStay'
<1>1. main[p] \in Commit /\ version[p] \in Version /\ remoteMain \in Commit
  BY DEF TypeOK
<1>2. ASSUME NEW r \in released
      PROVE  remoteTags'[r.version] = r.commit /\ Ancestor(r.commit, remoteMain')
  <2>1. r.version \in Version /\ r.commit \in Commit
    BY DEF TypeOK
  <2>2. remoteTags[r.version] = r.commit /\ Ancestor(r.commit, remoteMain)
    BY DEF ReleasesStay
  <2>3. r.version # version[p]
    BY <2>1, <2>2, CommitAncestors DEF Apply, Accepted
  <2>4. remoteTags'[r.version] = r.commit
    BY <2>1, <2>2, <2>3 DEF Apply, TypeOK
  <2>5. Ancestor(r.commit, main[p])
    BY <1>1, <2>1, <2>2, CommitAncestors DEF Apply, Accepted
  <2> QED
    BY <2>4, <2>5 DEF Apply
<1>3. remoteTags'[version[p]] = main[p] /\ Ancestor(main[p], remoteMain')
  BY <1>1, CommitAncestors DEF Apply, TypeOK
<1> QED
  BY <1>2, <1>3 DEF ReleasesStay, Apply

(* Every release is of a tested commit of its own version.                 *)
Faithful == \A r \in released : Steady(r.by) => Tip(r.commit).version = r.version /\ Tip(r.commit).sound

(* A push by a publisher that has established what it needs is faithful.   *)
LEMMA FaithfulPushed ==
  ASSUME Faithful, NEW p \in Publisher, Established(p), pc[p] = "push", Apply(p)
  PROVE  Faithful'
<1>1. Steady(p) => Tip(main[p]).version = version[p] /\ Tip(main[p]).sound
  BY DEF Established
<1> QED
  BY <1>1 DEF Faithful, Apply, Steady

(* A publisher's progress depends on its own clone and run only.           *)
LEMMA EstablishedKept ==
  ASSUME NEW q \in Publisher, Established(q),
         pc'[q] = pc[q], version'[q] = version[q], branch'[q] = branch[q], base'[q] = base[q],
         main'[q] = main[q], tags'[q][version[q]] = tags[q][version[q]]
  PROVE  Established(q)'
BY DEF Established, Steady

(* Every step keeps the invariant. *)
LEMMA InvStep == TypeOK /\ Progress /\ [Next]_vars => Progress'
<1> SUFFICES ASSUME TypeOK, Progress, [Next]_vars PROVE Progress'
  OBVIOUS
<1>0. TypeOK' /\ ReleasesStay /\ Faithful /\ \A q \in Publisher : Established(q)
  BY TypeStep DEF Progress, Faithful
<1>a. ASSUME UNCHANGED <<remote, released>> PROVE ReleasesStay' /\ Faithful'
  BY <1>0, <1>a DEF ReleasesStay, Faithful
<1>1. ASSUME NEW p \in Publisher, NEW r \in BOOLEAN, Automate(p, r) PROVE Progress'
  <2>1. \A q \in Publisher \ {p} : Established(q)'
    BY <1>0, <1>1, EstablishedKept DEF Automate, Candidate, Goto, TypeOK
  <2>2. Established(p)'
    BY <1>1 DEF Automate, Candidate, Goto, TypeOK, Established
  <2> QED
    BY <1>1, <1>a, <2>1, <2>2 DEF Automate, Progress, Faithful
<1>2. ASSUME NEW p \in Publisher, NEW v \in Version, NEW s \in BOOLEAN, Prepare(p, v, s) PROVE Progress'
  <2>1. \A q \in Publisher \ {p} : Established(q)'
    BY <1>0, <1>2, EstablishedKept DEF Prepare, Candidate, Goto, TypeOK
  <2>2. Established(p)'
    BY <1>2 DEF Prepare, Candidate, Goto, TypeOK, Established
  <2> QED
    BY <1>2, <1>a, <2>1, <2>2 DEF Prepare, Progress, Faithful
<1>3. ASSUME NEW p \in Publisher, Script(p) PROVE Progress'
  <2>0. TypeOK
    OBVIOUS
  <2>1. CASE Verify(p)
    <3>1. \A q \in Publisher : Established(q)'
      BY <1>0, <2>1, EstablishedKept DEF Verify, Continue, Goto, TypeOK, Established, Steady
    <3> QED
      BY <2>1, <1>a, <3>1 DEF Verify, Progress, Faithful
  <2>2. CASE Fetch(p)
    <3>1. \A q \in Publisher : Established(q)'
      BY <1>0, <2>2, EstablishedKept DEF Fetch, Continue, Goto, TypeOK, Established, Steady
    <3> QED
      BY <2>2, <1>a, <3>1 DEF Fetch, Progress, Faithful
  <2>3. CASE Lookup(p)
    <3>1. \A q \in Publisher : Established(q)'
      BY <1>0, <2>3, EstablishedKept DEF Lookup, Continue, Goto, TypeOK, Established, Steady
    <3> QED
      BY <2>3, <1>a, <3>1 DEF Lookup, Progress, Faithful
  <2>4. CASE Gate(p)
    <3>1. \A q \in Publisher : Established(q)'
      BY <1>0, <2>4, EstablishedKept DEF Gate, Continue, Goto, TypeOK, Established, Steady
    <3> QED
      BY <2>4, <1>a, <3>1 DEF Gate, Progress, Faithful
  <2>5. CASE Merge(p)
    <3>1. PICK b \in Now(p) :
               /\ branch' = [branch EXCEPT ![p] = b]
               /\ IF Ancestor(main[p], b)
                    THEN main' = [main EXCEPT ![p] = b] /\ Goto(p, "tag")
                    ELSE Goto(p, "failed") /\ UNCHANGED main
      BY <2>5 DEF Merge
    <3>2. Steady(p) => b = branch[p]
      BY <3>1 DEF Now, Steady
    <3>3. \A q \in Publisher : Established(q)'
      BY <1>0, <2>5, <3>1, <3>2, EstablishedKept DEF Merge, Goto, TypeOK, Established, Steady
    <3> QED
      BY <2>5, <1>a, <3>3 DEF Merge, Progress, Faithful
  <2>6. CASE Tag(p)
    <3>1. \A q \in Publisher : Established(q)'
      BY <1>0, <2>6, EstablishedKept DEF Tag, Goto, TypeOK, Established, Steady
    <3> QED
      BY <2>6, <1>a, <3>1 DEF Tag, Progress, Faithful
  <2>7. CASE Push(p)
    <3>1. \A q \in Publisher : Established(q)'
      BY <1>0, <2>7, EstablishedKept DEF Push, Goto, TypeOK, Established, Steady
    <3>2. ReleasesStay' /\ Faithful'
      BY <1>0, <1>a, <2>7, ReleasesPushed, FaithfulPushed DEF Push, Established
    <3> QED
      BY <3>1, <3>2 DEF Progress, Faithful
  <2> QED
    BY <1>3, <2>1, <2>2, <2>3, <2>4, <2>5, <2>6, <2>7 DEF Script
<1>4. ASSUME NEW p \in Publisher, PushReplyLost(p) PROVE Progress'
  <2>1. \A q \in Publisher : Established(q)'
    BY <1>0, <1>4, EstablishedKept DEF PushReplyLost, Goto, TypeOK, Established, Steady
  <2>2. ReleasesStay' /\ Faithful'
    BY <1>0, <1>4, ReleasesPushed, FaithfulPushed DEF PushReplyLost, Established
  <2> QED
    BY <2>1, <2>2 DEF Progress, Faithful
<1>5. ASSUME NEW p \in Publisher, Abort(p) PROVE Progress'
  <2>1. \A q \in Publisher : Established(q)'
    BY <1>0, <1>5, EstablishedKept DEF Abort, Goto, TypeOK, Established, Steady
  <2> QED
    BY <1>5, <1>a, <2>1 DEF Abort, Progress, Faithful
<1>b. ASSUME UNCHANGED <<pc, run, clone, released>>, Ancestor(remoteMain, remoteMain'),
             \A v \in Version : remoteTags[v] # NoTag => remoteTags'[v] = remoteTags[v]
      PROVE  Progress'
  <2>1. \A q \in Publisher : Established(q)'
    BY <1>0, <1>b, EstablishedKept
  <2> QED
    BY <1>0, <1>b, <2>1, ReleasesKept DEF Progress, Faithful
<1>c. remoteMain \in Commit
  BY DEF TypeOK
<1>6. ASSUME NEW s \in BOOLEAN, ForeignPush(s) PROVE Progress'
  <2> DEFINE c == [Tip(remoteMain) EXCEPT !.by = Others, !.sound = s]
  <2>1. c \in Change
    BY <1>c, TipType, ChangeFields DEF Author
  <2>2. remoteMain' = Append(remoteMain, c) /\ UNCHANGED <<remoteTags, pc, run, clone, released>>
    BY <1>6 DEF ForeignPush
  <2> HIDE DEF c
  <2>3. Ancestor(remoteMain, remoteMain')
    BY <1>c, <2>1, <2>2, AppendCommit
  <2> QED
    BY <1>b, <2>2, <2>3
<1>7. ASSUME NEW v \in Version, ForeignTag(v) PROVE Progress'
  <2>1. \A w \in Version : remoteTags[w] # NoTag => remoteTags'[w] = remoteTags[w]
    BY <1>7 DEF ForeignTag, TypeOK
  <2> QED
    BY <1>7, <1>b, <1>c, <2>1, CommitAncestors DEF ForeignTag
<1>8. CASE UpstreamReleases
  BY <1>8, <1>b, <1>c, CommitAncestors DEF UpstreamReleases
<1>9. CASE UNCHANGED vars
  BY <1>9, <1>b, <1>c, CommitAncestors DEF vars
<1> QED
  BY <1>1, <1>2, <1>3, <1>4, <1>5, <1>6, <1>7, <1>8, <1>9 DEF Next

(* In every reachable state the variables have their types and the         *)
(* invariant holds.                                                        *)
THEOREM Invariance == Spec => [](TypeOK /\ Progress)
<1>1. TypeOK /\ Progress /\ [Next]_vars => TypeOK' /\ Progress'
  BY TypeStep, InvStep
<1> QED
  BY InitInv, <1>1, PTL DEF Spec

(* A release never changes: its tag names its commit and main descends     *)
(* from it for ever, even if branches move under the script.               *)
THEOREM ReleasesAreImmutable == Spec => []ReleasesStay
<1>1. Progress => ReleasesStay
  BY DEF Progress
<1> QED
  BY <1>1, Invariance, PTL

(* A tag of a release is the version that its own commit declares.         *)
THEOREM TagsNameTheirVersion == Spec => []TagNamesItsVersion
<1>1. Progress => TagNamesItsVersion
  BY DEF Progress, TagNamesItsVersion
<1> QED
  BY <1>1, Invariance, PTL

(* If no branch moves while the script runs, only tested commits are       *)
(* released.                                                               *)
THEOREM OnlyTestedReleases ==
  ASSUME Moving = {}
  PROVE  Spec => []ReleasesAreTested
<1>1. Progress => ReleasesAreTested
  BY DEF Progress, ReleasesAreTested, Steady
<1> QED
  BY <1>1, Invariance, PTL

-----------------------------------------------------------------------------
(* The refinement.                                                         *)

(* A push is seen from origin as one abstract publication.                 *)
LEMMA PushPublishes ==
  ASSUME TypeOK, Progress, NEW p \in Publisher, Steady(p), pc[p] = "push", Apply(p)
  PROVE  \E v \in Version : History!Publish(v)
<1>1. /\ main[p] = branch[p] /\ tags[p][version[p]] = main[p]
      /\ Tip(main[p]).version = version[p] /\ Tip(main[p]).sound
  BY DEF Progress, Established
<1>2. version[p] \in Version
  BY DEF TypeOK
<1>3. History!Publish(version[p])
  BY <1>1 DEF History!Publish, Apply, Accepted, Ancestor, Tip, NoTag
<1> QED
  BY <1>2, <1>3

(* A tag by somebody else is seen as an abstract foreign tag.              *)
LEMMA TagIsForeign ==
  ASSUME TypeOK, NEW v \in Version, ForeignTag(v)
  PROVE  History!ForeignTag(v)
<1>1. remoteTags' = [remoteTags EXCEPT ![v] = remoteMain] /\ remoteTags'[v] = remoteMain
  BY DEF ForeignTag, TypeOK
<1> QED
  BY <1>1 DEF ForeignTag, History!ForeignTag, NoTag

(* A push by somebody else is seen as an abstract contribution.            *)
LEMMA PushContributes ==
  ASSUME TypeOK, NEW s \in BOOLEAN, ForeignPush(s)
  PROVE  History!Contribute \/ UNCHANGED History!vars
<1> DEFINE c == [Tip(remoteMain) EXCEPT !.by = Others, !.sound = s]
<1>1. c \in Change /\ remoteMain \in Commit
  BY TipType, ChangeFields DEF TypeOK, Author
<1>2. remoteMain' = Append(remoteMain, c) /\ remoteTags' = remoteTags
  BY DEF ForeignPush
<1> HIDE DEF c
<1>3. Ancestor(remoteMain, remoteMain')
  BY <1>1, <1>2, AppendCommit
<1> QED
  BY <1>2, <1>3 DEF Ancestor, History!Contribute, History!vars

(* If no branch moves while the script runs, the interleaved commands of   *)
(* all publishers and everybody else implement the abstract history, in    *)
(* which a release is one step.                                            *)
THEOREM Refinement ==
  ASSUME Moving = {}
  PROVE  Spec => IsHistory
<1>1. TypeOK => History!Init
  BY DEF TypeOK, History!Init, Commit, NoTag
<1>2. TypeOK /\ Progress /\ [Next]_vars => [History!Next]_(History!vars)
  <2> SUFFICES ASSUME TypeOK, Progress, [Next]_vars PROVE History!Next \/ UNCHANGED History!vars
    OBVIOUS
  <2>1. CASE UNCHANGED <<remoteMain, remoteTags>>
    BY <2>1 DEF History!vars
  <2>2. ASSUME NEW p \in Publisher, Apply(p), pc[p] = "push" PROVE History!Next
    BY <2>2, PushPublishes DEF History!Next, Steady
  <2>3. ASSUME NEW s \in BOOLEAN, ForeignPush(s) PROVE History!Next \/ UNCHANGED History!vars
    BY <2>3, PushContributes DEF History!Next
  <2>4. ASSUME NEW v \in Version, ForeignTag(v) PROVE History!Next
    BY <2>4, TagIsForeign DEF History!Next
  <2>5. ASSUME NEW p \in Publisher, Script(p) PROVE History!Next \/ UNCHANGED History!vars
    BY <2>1, <2>2, <2>5 DEF Script, Verify, Fetch, Lookup, Gate, Merge, Tag, Push
  <2>6. ASSUME NEW p \in Publisher, PushReplyLost(p) PROVE History!Next
    BY <2>2, <2>6 DEF PushReplyLost
  <2>7. ASSUME NEW p \in Publisher,
               \/ Abort(p) \/ \E r \in BOOLEAN : Automate(p, r)
               \/ \E v \in Version, s \in BOOLEAN : Prepare(p, v, s)
        PROVE  UNCHANGED History!vars
    BY <2>7 DEF Automate, Abort, Prepare, History!vars
  <2> QED
    BY <2>1, <2>3, <2>4, <2>5, <2>6, <2>7 DEF Next, UpstreamReleases, vars
<1>3. Init => TypeOK
  BY InitInv
<1> QED
  BY <1>1, <1>2, <1>3, Invariance, PTL DEF Spec, IsHistory, History!Spec

-----------------------------------------------------------------------------
(* main and its tags, for any number of publishers none of whose branches  *)
(* moves during a run: a release commit never stands on main without its   *)
(* tag, and a run that fails has published everything or nothing.          *)

(* Prefixes.                                                               *)

(* A prefix of an ancestor is the same prefix of the descendant. *)
LEMMA PrefixOf ==
  ASSUME NEW S, NEW a \in Seq(S), NEW b \in Seq(S), Ancestor(a, b), NEW i \in 1..Len(a)
  PROVE  b[i] = a[i] /\ SubSeq(b, 1, i) = SubSeq(a, 1, i) /\ SubSeq(a, 1, i) # <<>>
<1>1. /\ Len(a) \in Nat /\ Len(b) \in Nat /\ Len(a) <= Len(b)
      /\ \A j \in 1..Len(a) : a[j] = b[j]
  BY DEF Ancestor, History!Ancestor
<1>2. \A j \in 1..i : a[j] \in S /\ b[j] \in S /\ a[j] = b[j]
  BY <1>1
<1>3. /\ SubSeq(a, 1, i) \in Seq(S) /\ Len(SubSeq(a, 1, i)) = i
      /\ \A j \in 1..i : SubSeq(a, 1, i)[j] = a[j]
  BY <1>2, SubSeqProperties
<1>4. /\ SubSeq(b, 1, i) \in Seq(S) /\ Len(SubSeq(b, 1, i)) = i
      /\ \A j \in 1..i : SubSeq(b, 1, i)[j] = b[j]
  BY <1>2, SubSeqProperties
<1>5. SubSeq(b, 1, i) = SubSeq(a, 1, i)
  BY <1>2, <1>3, <1>4, SeqEqual
<1>6. SubSeq(a, 1, i) # <<>>
  BY <1>3
<1> QED
  BY <1>1, <1>5, <1>6

(* The same for commits. *)
LEMMA CommitPrefix ==
  ASSUME NEW a \in Commit, NEW b \in Commit, Ancestor(a, b)
  PROVE  /\ Len(a) \in Nat /\ Len(a) >= 1 /\ Len(a) <= Len(b) /\ Len(b) \in Nat
         /\ \A i \in 1..Len(a) : /\ b[i] = a[i]
                                 /\ SubSeq(b, 1, i) = SubSeq(a, 1, i)
                                 /\ SubSeq(a, 1, i) # NoTag
<1>1. a \in Seq(Change) /\ b \in Seq(Change) /\ a # <<>> /\ NoTag = <<>>
  BY DEF Commit, Change, NoTag, History!Commit, History!NoTag
<1>2. Len(a) \in Nat /\ Len(b) \in Nat /\ Len(a) >= 1
  BY <1>1
<1> QED
  BY <1>1, <1>2, PrefixOf DEF Ancestor, History!Ancestor

(* A commit is its own longest prefix, and its tip the last of its changes. *)
LEMMA WholeCommit ==
  ASSUME NEW a \in Commit
  PROVE  SubSeq(a, 1, Len(a)) = a /\ Tip(a) = a[Len(a)] /\ Len(a) \in 1..Len(a)
<1>1. a \in Seq(Change) /\ a # <<>>
  BY DEF Commit, Change, History!Commit, History!NoTag
<1>2. SubSeq(a, 1, Len(a)) = a
  BY <1>1, SubSeqFull
<1> QED
  BY <1>1, <1>2, LastElement DEF Tip, History!Tip

(* The last change of a commit that has one more change than another. *)
LEMMA AppendedCommit ==
  ASSUME NEW a \in Commit, NEW c \in Change
  PROVE  Len(Append(a, c)) = Len(a) + 1 /\ Tip(Append(a, c)) = c
<1>1. a \in Seq(Change)
  BY DEF Commit, Change, History!Commit
<1>2. Len(Append(a, c)) = Len(a) + 1 /\ Append(a, c)[Len(a) + 1] = c
  BY <1>1, AppendProperties
<1> QED
  BY <1>2 DEF Tip, History!Tip

-----------------------------------------------------------------------------
(* What keeps the ledger.                                                  *)

(* A step that extends main and keeps the tags keeps every release commit  *)
(* tagged, if the changes it adds to main are tagged where they should be. *)
LEMMA UntaggedKept ==
  ASSUME TypeOK, TypeOK', NoUntaggedRelease, Ancestor(remoteMain, remoteMain'),
         \A v \in Version : remoteTags[v] # NoTag => remoteTags'[v] = remoteTags[v],
         \A i \in 1..Len(remoteMain') :
           i > Len(remoteMain) /\ remoteMain'[i].by \in Publisher =>
             remoteTags'[remoteMain'[i].version] = SubSeq(remoteMain', 1, i)
  PROVE  NoUntaggedRelease'
<1> SUFFICES ASSUME NEW i \in 1..Len(remoteMain'), remoteMain'[i].by \in Publisher
             PROVE  remoteTags'[remoteMain'[i].version] = SubSeq(remoteMain', 1, i)
  BY DEF NoUntaggedRelease
<1>1. remoteMain \in Commit /\ remoteMain' \in Commit
  BY DEF TypeOK
<1>2. CASE i > Len(remoteMain)
  BY <1>2
<1>3. CASE ~(i > Len(remoteMain))
  <2>1. i \in 1..Len(remoteMain)
    BY <1>1, <1>3, CommitPrefix
  <2>2. /\ remoteMain'[i] = remoteMain[i]
        /\ SubSeq(remoteMain', 1, i) = SubSeq(remoteMain, 1, i)
        /\ SubSeq(remoteMain, 1, i) # NoTag
    BY <1>1, <2>1, CommitPrefix
  <2>3. remoteTags[remoteMain[i].version] = SubSeq(remoteMain, 1, i)
    BY <2>1, <2>2 DEF NoUntaggedRelease
  <2>4. remoteMain[i].version \in Version
    <3>1. remoteMain \in Seq(Change)
      BY <1>1 DEF Commit, Change, History!Commit
    <3>2. remoteMain[i] \in Change
      BY <2>1, <3>1, ElementOfSeq
    <3> QED
      BY <3>2, ChangeFields
  <2> QED
    BY <2>2, <2>3, <2>4
<1> QED
  BY <1>2, <1>3

(* The commands at which the base is known to be on main. *)
Based == {"lookup", "gate", "merge", "tag", "push"}

(* A step keeps the ledger if it extends main, sets a tag to main only,    *)
(* starts a run one commit ahead of its base at most, and lets it past the *)
(* fetch only when the base is main.                                       *)
LEMMA LedgerKept ==
  ASSUME TypeOK, TypeOK', Ledger, Ancestor(remoteMain, remoteMain'),
         \A v \in Version : remoteTags'[v] = remoteTags[v] \/ remoteTags'[v] = remoteMain',
         \A q \in Publisher :
           \/ branch'[q] = branch[q] /\ base'[q] = base[q]
           \/ branch'[q] = base'[q]
           \/ \E c \in Change : c.by = q /\ branch'[q] = Append(base'[q], c),
         \A q \in Publisher :
           pc'[q] \in Based =>
             \/ pc[q] \in Based /\ base'[q] = base[q]
             \/ base'[q] = remoteMain',
         NoUntaggedRelease'
  PROVE  Ledger'
<1>0. remoteMain \in Commit /\ remoteMain' \in Commit
  BY DEF TypeOK
<1>1. ASSUME NEW v \in Version, remoteTags'[v] # NoTag
      PROVE  Ancestor(remoteTags'[v], remoteMain')
  <2>1. CASE remoteTags'[v] = remoteMain'
    BY <1>0, <2>1, CommitAncestors
  <2>2. CASE remoteTags'[v] = remoteTags[v]
    <3>1. remoteTags[v] \in Commit /\ Ancestor(remoteTags[v], remoteMain)
      BY <1>1, <2>2 DEF Ledger, TypeOK
    <3> QED
      BY <1>0, <2>2, <3>1, CommitAncestors
  <2> QED
    BY <2>1, <2>2
<1>2. ASSUME NEW q \in Publisher, branch'[q] # base'[q]
      PROVE  \E c \in Change : c.by = q /\ branch'[q] = Append(base'[q], c)
  BY <1>2 DEF Ledger
<1>3. ASSUME NEW q \in Publisher, pc'[q] \in Based
      PROVE  Ancestor(base'[q], remoteMain')
  <2>1. CASE base'[q] = remoteMain'
    BY <1>0, <2>1, CommitAncestors
  <2>2. CASE pc[q] \in Based /\ base'[q] = base[q]
    <3>1. base[q] \in Commit /\ Ancestor(base[q], remoteMain)
      BY <2>2 DEF Ledger, TypeOK, Based
    <3> QED
      BY <1>0, <2>2, <3>1, CommitAncestors
  <2> QED
    BY <1>3, <2>1, <2>2
<1>4. NoUntaggedRelease'
  OBVIOUS
<1> QED
  BY <1>1, <1>2, <1>3, <1>4 DEF Ledger, Based

(* A step that origin does not notice and that leaves every base where it  *)
(* is on main keeps the ledger.                                            *)
LEMMA LedgerUnnoticed ==
  ASSUME TypeOK, TypeOK', Ledger, UNCHANGED remote,
         \A q \in Publisher :
           \/ branch'[q] = branch[q] /\ base'[q] = base[q]
           \/ branch'[q] = base'[q]
           \/ \E c \in Change : c.by = q /\ branch'[q] = Append(base'[q], c),
         \A q \in Publisher :
           pc'[q] \in Based =>
             \/ pc[q] \in Based /\ base'[q] = base[q]
             \/ base'[q] = remoteMain
  PROVE  Ledger'
<1>1. Ancestor(remoteMain, remoteMain')
  BY CommitAncestors DEF TypeOK
<1>2. NoUntaggedRelease'
  BY DEF Ledger, NoUntaggedRelease
<1> QED
  BY <1>1, <1>2, LedgerKept

(* A push that origin accepts keeps the ledger: the pushed branch is main  *)
(* or one change ahead of it, and that change is tagged.                   *)
LEMMA LedgerPushed ==
  ASSUME TypeOK, TypeOK', Progress, Ledger, NEW p \in Publisher, Steady(p), pc[p] = "push", Apply(p),
         UNCHANGED run, \E l \in {"published", "failed"} : pc' = [pc EXCEPT ![p] = l]
  PROVE  Ledger'
<1>1. /\ main[p] = branch[p] /\ tags[p][version[p]] = main[p] /\ Tip(branch[p]).version = version[p]
  BY DEF Progress, Established
<1>2. /\ remoteMain \in Commit /\ base[p] \in Commit /\ branch[p] \in Commit
      /\ version[p] \in Version /\ remoteMain' = branch[p]
  BY <1>1 DEF TypeOK, Apply
<1>3. Ancestor(remoteMain, branch[p]) /\ Ancestor(base[p], remoteMain)
  BY <1>1 DEF Apply, Accepted, Ledger
<1>4. /\ remoteTags'[version[p]] = branch[p] /\ remoteTags[version[p]] = NoTag
      /\ \A v \in Version : v # version[p] => remoteTags'[v] = remoteTags[v]
  BY <1>1, <1>2 DEF Apply, Accepted, TypeOK
<1>5. Len(branch[p]) <= Len(remoteMain) + 1
  <2>1. CASE branch[p] = base[p]
    BY <1>2, <1>3, <2>1, CommitPrefix
  <2>2. CASE branch[p] # base[p]
    <3>1. Len(branch[p]) = Len(base[p]) + 1
      BY <1>2, <2>2, AppendedCommit DEF Ledger
    <3>2. Len(base[p]) \in Nat /\ Len(remoteMain) \in Nat /\ Len(base[p]) <= Len(remoteMain)
      BY <1>2, <1>3, CommitPrefix
    <3> QED
      BY <3>1, <3>2
  <2> QED
    BY <2>1, <2>2
<1>6. ASSUME NEW i \in 1..Len(remoteMain'), i > Len(remoteMain)
      PROVE  remoteTags'[remoteMain'[i].version] = SubSeq(remoteMain', 1, i)
  <2>1. i = Len(branch[p])
    BY <1>2, <1>3, <1>5, <1>6, CommitPrefix
  <2>2. remoteMain'[i].version = version[p] /\ SubSeq(remoteMain', 1, i) = branch[p]
    BY <1>1, <1>2, <2>1, WholeCommit
  <2> QED
    BY <1>4, <2>2
<1>7. NoUntaggedRelease'
  BY <1>2, <1>3, <1>4, <1>6, UntaggedKept DEF Ledger
<1>8. \A v \in Version : remoteTags'[v] = remoteTags[v] \/ remoteTags'[v] = remoteMain'
  BY <1>2, <1>4
<1>9. \A q \in Publisher : pc'[q] \in Based => pc[q] \in Based /\ base'[q] = base[q]
  BY DEF Based, TypeOK
<1> QED
  BY <1>2, <1>3, <1>7, <1>8, <1>9, LedgerKept

(* A new candidate is its base or one change of its author on top of it.   *)
LEMMA LedgerCandidate ==
  ASSUME TypeOK, TypeOK', Ledger, UNCHANGED remote, NEW p \in Publisher, NEW from \in Commit,
         \/ Candidate(p, from, <<>>)
         \/ \E c \in Change : c.by = p /\ Candidate(p, from, <<c>>)
  PROVE  Ledger'
<1>1. /\ base' = [base EXCEPT ![p] = from] /\ pc' = [pc EXCEPT ![p] = "verify"]
      /\ \E s \in {<<>>} \cup {<<c>> : c \in {d \in Change : d.by = p}} :
           branch' = [branch EXCEPT ![p] = from \o s]
  BY DEF Candidate, Goto
<1>2. from \in Seq(Change)
  BY DEF Commit, Change, History!Commit
<1>3. base'[p] = from
  BY <1>1 DEF TypeOK
<1>4. branch'[p] = base'[p] \/ \E c \in Change : c.by = p /\ branch'[p] = Append(base'[p], c)
  <2>1. PICK s \in {<<>>} \cup {<<c>> : c \in {d \in Change : d.by = p}} :
          branch' = [branch EXCEPT ![p] = from \o s]
    BY <1>1
  <2>2. branch'[p] = from \o s
    BY <2>1 DEF TypeOK
  <2>3. CASE s = <<>>
    BY <1>2, <1>3, <2>2, <2>3, ConcatEmptySeq
  <2>4. CASE s # <<>>
    <3>1. PICK c \in Change : c.by = p /\ s = <<c>>
      BY <2>4
    <3> QED
      BY <1>2, <1>3, <2>2, <3>1, AppendIsConcat
  <2> QED
    BY <2>3, <2>4
<1>5. \A q \in Publisher \ {p} : branch'[q] = branch[q] /\ base'[q] = base[q] /\ pc'[q] = pc[q]
  BY <1>1 DEF TypeOK
<1>6. pc'[p] \notin Based
  BY <1>1 DEF TypeOK, Based
<1>7. ASSUME NEW q \in Publisher
      PROVE  \/ branch'[q] = branch[q] /\ base'[q] = base[q]
             \/ branch'[q] = base'[q]
             \/ \E c \in Change : c.by = q /\ branch'[q] = Append(base'[q], c)
  BY <1>4, <1>5
<1>8. \A q \in Publisher : pc'[q] \in Based => pc[q] \in Based /\ base'[q] = base[q]
  BY <1>5, <1>6
<1> QED
  BY <1>7, <1>8, LedgerUnnoticed

-----------------------------------------------------------------------------
(* The invariant.                                                          *)

(* The ledger is in order in the initial states. *)
LEMMA InitLedger == Init => Ledger
<1> SUFFICES ASSUME Init PROVE Ledger
  OBVIOUS
<1>1. PICK c \in Change :
        /\ c.by = Others /\ remoteMain = <<c>>
        /\ remoteTags = [v \in Version |-> IF v = c.version THEN <<c>> ELSE NoTag]
  BY DEF Init
<1>2. <<c>> \in Commit
  BY DEF Commit, Change, History!Commit, History!NoTag
<1>3. \A v \in Version : remoteTags[v] # NoTag => Ancestor(remoteTags[v], remoteMain)
  BY <1>1, <1>2, CommitAncestors
<1>4. NoUntaggedRelease
  <2>1. Len(<<c>>) = 1 /\ <<c>>[1] = c
    OBVIOUS
  <2> QED
    BY <1>1, <2>1, PublisherAssumption DEF NoUntaggedRelease
<1> QED
  BY <1>3, <1>4 DEF Init, Ledger

(* Every step keeps the ledger as long as no branch moves. *)
LEMMA LedgerStep ==
  ASSUME Moving = {}, TypeOK, Progress, Ledger, [Next]_vars
  PROVE  Ledger'
<1>0. TypeOK' /\ \A p \in Publisher : Steady(p)
  BY TypeStep DEF Steady
<1>a. ASSUME UNCHANGED <<remote, base, branch>>,
             \A q \in Publisher : pc'[q] \in Based => pc[q] \in Based \/ base[q] = remoteMain
      PROVE  Ledger'
  BY <1>0, <1>a, LedgerUnnoticed
<1>1. ASSUME NEW p \in Publisher, NEW r \in BOOLEAN, Automate(p, r) PROVE Ledger'
  <2> DEFINE c == [by |-> p, version |-> Tip(remoteMain).version + 1, release |-> upstream, sound |-> TRUE]
  <2>1. c \in Change /\ c.by = p
    BY <1>1, ChangeFields DEF Automate, TypeOK, Author
  <2>2. Candidate(p, remoteMain, <<c>>) /\ remoteMain \in Commit /\ UNCHANGED remote
    BY <1>1 DEF Automate, TypeOK
  <2> HIDE DEF c
  <2> QED
    BY <1>0, <2>1, <2>2, LedgerCandidate
<1>2. ASSUME NEW p \in Publisher, NEW v \in Version, NEW s \in BOOLEAN, Prepare(p, v, s) PROVE Ledger'
  <2>1. PICK from \in {main[p], remoteMain} :
          \/ Candidate(p, from, <<>>)
          \/ Candidate(p, from, <<[by |-> p, version |-> v, release |-> Tip(from).release, sound |-> s]>>)
    BY <1>2 DEF Prepare
  <2> DEFINE c == [by |-> p, version |-> v, release |-> Tip(from).release, sound |-> s]
  <2>2. from \in Commit /\ Tip(from) \in Change /\ UNCHANGED remote
    BY <1>2, TipType DEF TypeOK, Prepare
  <2>3. c \in Change /\ c.by = p
    BY <2>2, ChangeFields DEF Author
  <2>4. Candidate(p, from, <<>>) \/ Candidate(p, from, <<c>>)
    BY <2>1
  <2> HIDE DEF c
  <2> QED
    BY <1>0, <2>2, <2>3, <2>4, LedgerCandidate
<1>3. ASSUME NEW p \in Publisher, Verify(p) PROVE Ledger'
  BY <1>3, <1>a DEF Verify, Continue, Goto, TypeOK, Based
<1>4. ASSUME NEW p \in Publisher, Fetch(p) PROVE Ledger'
  BY <1>4, <1>a DEF Fetch, Continue, Goto, TypeOK, Based
<1>5. ASSUME NEW p \in Publisher, Lookup(p) PROVE Ledger'
  BY <1>5, <1>a DEF Lookup, Continue, Goto, TypeOK, Based
<1>6. ASSUME NEW p \in Publisher, Gate(p) PROVE Ledger'
  BY <1>6, <1>a DEF Gate, Continue, Goto, TypeOK, Based
<1>7. ASSUME NEW p \in Publisher, Merge(p) PROVE Ledger'
  <2>1. Now(p) = {branch[p]}
    BY DEF Now
  <2>2. branch' = branch /\ UNCHANGED <<remote, base>>
    BY <1>7, <2>1 DEF Merge, TypeOK
  <2>3. pc[p] = "merge" /\ \E l \in {"tag", "failed"} : pc' = [pc EXCEPT ![p] = l]
    BY <1>7 DEF Merge, Goto
  <2>4. \A q \in Publisher : pc'[q] \in Based => pc[q] \in Based
    BY <2>3 DEF TypeOK, Based
  <2> QED
    BY <1>a, <2>2, <2>4
<1>8. ASSUME NEW p \in Publisher, Tag(p) PROVE Ledger'
  BY <1>8, <1>a DEF Tag, Goto, TypeOK, Based
<1>9. ASSUME NEW p \in Publisher, Push(p) PROVE Ledger'
  <2>1. CASE Apply(p) /\ Goto(p, "published")
    BY <1>0, <1>9, <2>1, LedgerPushed DEF Push, Goto
  <2>2. CASE UNCHANGED remote /\ Goto(p, "failed")
    BY <1>9, <1>a, <2>2 DEF Push, Goto, TypeOK, Based
  <2> QED
    BY <1>9, <2>1, <2>2 DEF Push
<1>10. ASSUME NEW p \in Publisher, PushReplyLost(p) PROVE Ledger'
  BY <1>0, <1>10, LedgerPushed DEF PushReplyLost, Goto
<1>11. ASSUME NEW p \in Publisher, Abort(p) PROVE Ledger'
  BY <1>11, <1>a DEF Abort, Goto, TypeOK, Based
<1>b. ASSUME UNCHANGED <<pc, run>>, Ancestor(remoteMain, remoteMain'),
             \A v \in Version : remoteTags'[v] = remoteTags[v] \/ remoteTags'[v] = remoteMain',
             NoUntaggedRelease'
      PROVE  Ledger'
  <2>1. \A q \in Publisher : branch'[q] = branch[q] /\ base'[q] = base[q] /\ pc'[q] = pc[q]
    BY <1>b
  <2> QED
    BY <1>0, <1>b, <2>1, LedgerKept
<1>c. remoteMain \in Commit /\ NoUntaggedRelease
  BY DEF TypeOK, Ledger
<1>12. ASSUME NEW s \in BOOLEAN, ForeignPush(s) PROVE Ledger'
  <2> DEFINE c == [Tip(remoteMain) EXCEPT !.by = Others, !.sound = s]
  <2>1. c \in Change /\ c.by = Others
    BY <1>c, TipType, ChangeFields DEF Author
  <2>2. remoteMain' = Append(remoteMain, c) /\ UNCHANGED <<remoteTags, pc, run>>
    BY <1>12 DEF ForeignPush
  <2> HIDE DEF c
  <2>3. Ancestor(remoteMain, remoteMain') /\ remoteMain' \in Commit
    BY <1>c, <2>1, <2>2, AppendCommit
  <2>4. ASSUME NEW i \in 1..Len(remoteMain'), i > Len(remoteMain)
        PROVE  remoteMain'[i].by \notin Publisher
    <3>1. Len(remoteMain') = Len(remoteMain) + 1 /\ Tip(remoteMain') = c
      BY <1>c, <2>1, <2>2, AppendedCommit
    <3>2. i = Len(remoteMain')
      BY <1>c, <2>3, <2>4, <3>1, CommitPrefix
    <3> QED
      BY <2>1, <2>3, <3>1, <3>2, WholeCommit, PublisherAssumption
  <2>5. NoUntaggedRelease'
    BY <1>0, <1>c, <2>2, <2>3, <2>4, UntaggedKept
  <2> QED
    BY <1>b, <2>2, <2>3, <2>5
<1>13. ASSUME NEW v \in Version, ForeignTag(v) PROVE Ledger'
  <2>1. /\ remoteMain' = remoteMain /\ remoteTags[v] = NoTag
        /\ remoteTags' = [remoteTags EXCEPT ![v] = remoteMain] /\ UNCHANGED <<pc, run>>
    BY <1>13 DEF ForeignTag
  <2>2. Ancestor(remoteMain, remoteMain')
    BY <1>c, <2>1, CommitAncestors
  <2>3. \A w \in Version : remoteTags[w] # NoTag => remoteTags'[w] = remoteTags[w]
    BY <2>1 DEF TypeOK
  <2>4. \A i \in 1..Len(remoteMain') : ~(i > Len(remoteMain))
    BY <1>c, <2>1, <2>2, CommitPrefix
  <2>5. NoUntaggedRelease'
    BY <1>0, <1>c, <2>2, <2>3, <2>4, UntaggedKept
  <2>6. \A w \in Version : remoteTags'[w] = remoteTags[w] \/ remoteTags'[w] = remoteMain'
    BY <2>1 DEF TypeOK
  <2> QED
    BY <1>b, <2>1, <2>2, <2>5, <2>6
<1>14. CASE UpstreamReleases
  BY <1>14, <1>a DEF UpstreamReleases
<1>15. CASE UNCHANGED vars
  BY <1>15, <1>a DEF vars
<1> QED
  BY <1>1, <1>2, <1>3, <1>4, <1>5, <1>6, <1>7, <1>8, <1>9, <1>10, <1>11, <1>12, <1>13,
     <1>14, <1>15 DEF Next, Script

(* The whole inductive invariant: every publisher's progress is as it      *)
(* should be, and so is the ledger if no branch moves during a run.        *)
THEOREM InvIsInductive == Spec => [](TypeOK /\ Inv)
<1>1. Init => TypeOK /\ Inv
  BY InitInv, InitLedger DEF Inv
<1>2. TypeOK /\ Inv /\ [Next]_vars => TypeOK' /\ Inv'
  BY TypeStep, InvStep, LedgerStep DEF Inv
<1> QED
  BY <1>1, <1>2, PTL DEF Spec

(* If no branch moves, no release commit ever stands on main without its   *)
(* tag: no failure, lost reply or retry separates the two.                 *)
THEOREM NoReleaseWithoutItsTag ==
  ASSUME Moving = {}
  PROVE  Spec => []NoUntaggedRelease
<1>1. Inv => NoUntaggedRelease
  BY DEF Inv, Ledger
<1> QED
  BY <1>1, InvIsInductive, PTL

(* If no branch moves, a failed run has published its branch and its tag   *)
(* or neither of them.                                                     *)
THEOREM FailuresPublishAllOrNothing ==
  ASSUME Moving = {}
  PROVE  Spec => []FailuresAreClean
<1>1. TypeOK /\ Inv => FailuresAreClean
  <2> SUFFICES ASSUME TypeOK, Ledger, NEW p \in Publisher, branch[p] # base[p]
               PROVE  Ancestor(branch[p], remoteMain) <=>
                        remoteTags[Tip(branch[p]).version] = branch[p]
    BY DEF Inv, FailuresAreClean
  <2>0. branch[p] \in Commit /\ base[p] \in Commit /\ remoteMain \in Commit
    BY DEF TypeOK
  <2>1. PICK c \in Change : c.by = p /\ branch[p] = Append(base[p], c)
    BY DEF Ledger
  <2>2. Tip(branch[p]) = c /\ c.version \in Version
    BY <2>0, <2>1, AppendedCommit, ChangeFields
  <2>3. ASSUME Ancestor(branch[p], remoteMain)
        PROVE  remoteTags[Tip(branch[p]).version] = branch[p]
    <3> DEFINE n == Len(branch[p])
    <3>1. n \in 1..n /\ branch[p][n] = c /\ SubSeq(branch[p], 1, n) = branch[p]
      BY <2>0, <2>2, WholeCommit
    <3>2. n \in 1..Len(remoteMain) /\ remoteMain[n] = c /\ SubSeq(remoteMain, 1, n) = branch[p]
      BY <2>0, <2>3, <3>1, CommitPrefix
    <3> QED
      BY <2>1, <2>2, <3>2 DEF Ledger, NoUntaggedRelease
  <2>4. ASSUME remoteTags[Tip(branch[p]).version] = branch[p]
        PROVE  Ancestor(branch[p], remoteMain)
    BY <2>0, <2>2, <2>4, CommitAncestors DEF Ledger
  <2> QED
    BY <2>3, <2>4
<1> QED
  BY <1>1, InvIsInductive, PTL

=============================================================================
