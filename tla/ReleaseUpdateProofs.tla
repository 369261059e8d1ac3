------------------------ MODULE ReleaseUpdateProofs -------------------------
(***************************************************************************)
(* What the watcher guarantees over any number of runs, for any templates, *)
(* releases, digests and saves.                                            *)
(***************************************************************************)
EXTENDS ReleaseUpdate, TLAPS

(* A template after the release p.                                         *)
Later(t, p) == [t EXCEPT !.revision = @ + 1, !.release = p.of, !.artifact = p]

(* May the release p follow what the template t recommends?                *)
Follows(s, t, p) ==
  /\ t.revision < MaxRevision /\ p.of \in Releases(s)
  /\ t.release.rank <= p.of.rank /\ (s \in Oci => p.of # t.release)

(* A checkout: an OCI release has no build metadata, and a failed rollback *)
(* may have torn a template, a generated file or a version constant.       *)
Checkout(t) ==
  /\ t = [f \in File |-> t[f]]
  /\ \A s \in Source : t[s] # Torn => t[s] \in Template /\ t[s].release \in Releases(s)
  /\ \A f \in Input : t[f] \in BOOLEAN
  /\ \A c \in Constant : t[c] # Torn => t[c] \in Int

Replacing == {"compare", "commit"}
Running == {"read", "copy"} \cup Replacing

-----------------------------------------------------------------------------
(* The invariant, in parts.                                                *)

Types ==
  /\ Checkout(tree) /\ Checkout(users)
  /\ phase \in Running \cup {"idle"} /\ runs \in Nat /\ edits \in Nat
  /\ todo \subseteq File /\ (phase = "read" => todo \subseteq Source)
  /\ phase # "idle" => outcome = "none"
  /\ phase # "idle" => \A s \in Source : plan[s] \in Artifact /\ plan[s].of \in Releases(s)
  /\ committed \subseteq DOMAIN updates /\ again \subseteq committed
  /\ phase # "commit" => committed = {}

(* Which files are to be replaced, by phase.                               *)
Domains ==
  LET U == DOMAIN updates \cap Source
  IN /\ phase = "idle" => DOMAIN updates = {} /\ DOMAIN originals = {}
     /\ phase = "read" => DOMAIN updates = U /\ DOMAIN originals = U
     /\ phase = "copy" => DOMAIN updates = U \cup Constant /\ DOMAIN originals = U \cup Constant \cup Dist
     /\ phase \in Replacing => DOMAIN updates = U \cup Constant \cup Dist /\ DOMAIN originals = DOMAIN updates

(* What the updates are: every template follows its original, and the      *)
(* constants, which agreed, hold the next version.                         *)
Patched ==
  phase # "idle" =>
    \A s \in DOMAIN updates \cap Source :
      /\ originals[s] \in Template /\ originals[s].release \in Releases(s)
      /\ Follows(s, originals[s], plan[s]) /\ updates[s] = Later(originals[s], plan[s])

Versioned ==
  phase \in {"copy"} \cup Replacing =>
    \A c, d \in Constant :
      originals[c] \in Int /\ updates[c] = originals[c] + 1 /\ originals[c] = originals[d]

(* The copy is what was there, but for what was saved since.               *)
Copied ==
  /\ phase \in {"idle", "read"} => DOMAIN staged = {}
  /\ phase = "copy" => DOMAIN staged = File \ todo
  /\ phase \in Replacing => DOMAIN staged = File
  /\ \A f \in DOMAIN staged : staged[f] = users[f] \/ f \in outdated

Built ==
  phase \in Replacing => \A d \in Dist, c \in Constant : updates[d] = Generate(Staged, updates[c])

(* A run that met a torn file did not come to replace it.                  *)
Whole ==
  \A f \in DOMAIN updates \cap (Source \cup Constant) : tree[f] # Torn /\ users[f] # Torn

(* What the checkout holds, by what people saved: outside the files that   *)
(* were renamed it is their own, and a file that was compared is as it was *)
(* read but for the saves that nobody noticed.                             *)
Kept ==
  /\ \A f \in File \ committed : tree[f] = users[f]
  /\ \A f \in DOMAIN updates :
       /\ \/ phase = "compare" /\ f \notin todo
          \/ phase = "commit"
       /\ f \notin late \cup again
       => users[f] = originals[f]

(* What was renamed is the update, but for later saves.                    *)
Renamed ==
  /\ \A f \in committed \ again : tree[f] = updates[f]
  /\ \A s \in committed \cap Source :
       /\ tree[s].revision = updates[s].revision /\ tree[s].release = updates[s].release
       /\ tree[s].artifact = updates[s].artifact
       /\ s \notin late => tree[s].text = users[s].text
  /\ \A c \in committed \cap Constant : c \notin late => tree[c] = users[c] + 1

(* Every template ever recorded is behind the one in the checkout, or is   *)
(* that one, and behind the one a rollback may write back.                 *)
Behind(a, s, t) ==
  /\ a.revision <= t.revision /\ a.release.rank <= t.release.rank
  /\ a.revision = t.revision => a.release = t.release /\ a.artifact = t.artifact
  /\ s \in Oci /\ a.release = t.release => a.artifact = t.artifact

Recorded == [source : Source, revision : 1..MaxRevision, release : Release, artifact : Artifact]

Ledger ==
  /\ recorded \subseteq Recorded
  /\ \A a \in recorded :
       /\ a.release \in Releases(a.source)
       /\ tree[a.source] # Torn => Behind(a, a.source, tree[a.source])
       /\ a.source \in DOMAIN originals => Behind(a, a.source, originals[a.source])

Run == Types /\ Domains /\ Patched /\ Versioned /\ Copied /\ Built /\ Whole /\ Kept /\ Renamed
Inv == Run /\ Ledger /\ ArtifactsAreImmutable /\ RevisionsFollowReleases

-----------------------------------------------------------------------------
(* Templates and files.                                                    *)

USE DEF work, saves, history

LEMMA Kinds ==
  /\ Source \subseteq File /\ Dist \subseteq File /\ Constant \subseteq File /\ Input \subseteq File
  /\ File = Source \cup Dist \cup Constant \cup Input /\ Source = Npm \cup Oci
  /\ Npm \cap Oci = {}
  /\ \A f \in Source : f \notin Dist /\ f \notin Constant /\ f \notin Input
  /\ \A f \in Dist : f \notin Constant /\ f \notin Input
  /\ \A f \in Constant : f \notin Input
  BY FileAssumption DEF File, Source

LEMMA NotTorn == Torn \notin Template /\ Torn \notin Int
  BY TornAssumption

(* The fields of releases and templates. *)
LEMMA ReleaseFields ==
  ASSUME NEW r \in Release
  PROVE  r.rank \in Int /\ r = [rank |-> r.rank, build |-> r.build]
<1>1. r.rank \in Rank /\ r = [rank |-> r.rank, build |-> r.build]
  BY DEF Release
<1> QED
  BY <1>1, BoundAssumption

LEMMA TemplateFields ==
  ASSUME NEW t \in Template
  PROVE  /\ t.revision \in 1..MaxRevision /\ t.release \in Release /\ t.artifact \in Artifact
         /\ t.text \in BOOLEAN
         /\ t = [revision |-> t.revision, release |-> t.release, artifact |-> t.artifact, text |-> t.text]
  BY DEF Template

LEMMA Limit == MaxRevision \in Nat \ {0}
  BY BoundAssumption

(* What patchJSON makes of a template. *)
LEMMA Patch ==
  ASSUME NEW t \in Template, NEW p \in Artifact, t.revision < MaxRevision
  PROVE  /\ Later(t, p) \in Template
         /\ Later(t, p).revision = t.revision + 1 /\ Later(t, p).release = p.of
         /\ Later(t, p).artifact = p /\ Later(t, p).text = t.text
<1>1. p.of \in Release
  BY DEF Artifact
<1>2. t.revision + 1 \in 1..MaxRevision
  BY TemplateFields, Limit
<1>3. t.revision \in Int
  BY TemplateFields
<1> QED
  BY <1>1, <1>2, <1>3 DEF Template, Later

(* What was behind a template is behind what follows it. *)
LEMMA StaysBehind ==
  ASSUME NEW s \in Source, NEW t \in Template, NEW p \in Artifact, NEW a \in Recorded,
         Follows(s, t, p), t.release \in Releases(s), a.release \in Releases(s), Behind(a, s, t)
  PROVE  Behind(a, s, Later(t, p))
<1>1. /\ t.revision \in Int /\ a.revision \in Int
      /\ t.release \in Release /\ p.of \in Release /\ a.release \in Release
  BY DEF Template, Artifact, Recorded
<1>2. \A r \in Release : r.rank \in Int /\ r = [rank |-> r.rank, build |-> r.build]
  BY ReleaseFields
<1>3. /\ a.revision < t.revision + 1 /\ a.release.rank <= p.of.rank
  BY <1>1, <1>2 DEF Behind, Follows
<1>4. ASSUME s \in Oci, a.release = p.of PROVE FALSE
  <2>1. a.release.rank = t.release.rank
    BY <1>4, <1>1, <1>2 DEF Behind, Follows
  <2>2. a.release.build = 0 /\ t.release.build = 0
    BY <1>4 DEF Releases
  <2>3. a.release = t.release
    BY <2>1, <2>2, <1>1, <1>2
  <2> QED
    BY <2>3, <1>4 DEF Follows
<1>5. /\ Later(t, p).revision = t.revision + 1 /\ Later(t, p).release = p.of
  BY Patch DEF Follows
<1> QED
  BY <1>1, <1>3, <1>4, <1>5 DEF Behind

(* A template is behind itself. *)
LEMMA NotBeyond ==
  ASSUME NEW s, NEW t \in Template
  PROVE  Behind(t, s, t)
<1>1. t.revision \in Int /\ t.release.rank \in Int
  BY TemplateFields, ReleaseFields
<1> QED
  BY <1>1 DEF Behind

(* A save changes what it says, in the checkout and in the users' copy.    *)
LEMMA Saved ==
  ASSUME NEW f \in File, NEW t, NEW u, Checkout(t), t[f] # Torn,
         \/ f \in Source /\ u = [t EXCEPT ![f].text = ~@]
         \/ f \in Input /\ u = [t EXCEPT ![f] = ~@]
         \/ f \in Constant /\ u = [t EXCEPT ![f] = @ + 1]
  PROVE  /\ Checkout(u)
         /\ \A g \in File : g # f => u[g] = t[g]
         /\ f \in Source => /\ u[f].text = ~t[f].text /\ u[f].revision = t[f].revision
                            /\ u[f].release = t[f].release /\ u[f].artifact = t[f].artifact
         /\ f \in Input => u[f] = ~t[f]
         /\ f \in Constant => u[f] = t[f] + 1
         /\ f \in Source \cup Constant => u[f] # Torn
<1>1. \A g \in File : g # f => u[g] = t[g]
  BY DEF Checkout
<1>2. u = [g \in File |-> u[g]]
  BY DEF Checkout
<1>3. CASE f \in Source
  <2>1. u[f] = [t[f] EXCEPT !.text = ~@] /\ t[f] \in Template /\ t[f].release \in Releases(f)
    BY <1>3, Kinds DEF Checkout
  <2>2. /\ u[f] \in Template /\ u[f].text = ~t[f].text /\ u[f].revision = t[f].revision
        /\ u[f].release = t[f].release /\ u[f].artifact = t[f].artifact
    BY <2>1 DEF Template
  <2>3. \A s \in Source : u[s] # Torn => u[s] \in Template /\ u[s].release \in Releases(s)
    BY <1>1, <2>1, <2>2, Kinds DEF Checkout
  <2>4. \A g \in Input \cup Constant : u[g] = t[g]
    BY <1>1, <1>3, Kinds
  <2>5. Checkout(u)
    BY <1>2, <2>3, <2>4 DEF Checkout
  <2> QED
    BY <1>1, <1>3, <2>2, <2>5, Kinds, NotTorn
<1>4. CASE f \in Input
  <2>1. t[f] \in BOOLEAN /\ u[f] = ~t[f] /\ f \notin Source /\ f \notin Constant
    BY <1>4, Kinds DEF Checkout
  <2>2. u[f] \in BOOLEAN
    BY <2>1, Zenon
  <2>3. \A g \in Source \cup Constant : u[g] = t[g]
    BY <1>1, <2>1, Kinds
  <2>4. \A g \in Input : u[g] \in BOOLEAN
    BY <1>1, <2>2, Kinds DEF Checkout
  <2>5. Checkout(u)
    BY <1>2, <2>3, <2>4 DEF Checkout
  <2> QED
    BY <1>1, <1>4, <2>1, <2>5, Kinds
<1>5. CASE f \in Constant
  <2>1. t[f] \in Int /\ u[f] = t[f] + 1 /\ f \notin Source /\ f \notin Input
    BY <1>5, Kinds DEF Checkout
  <2>2. u[f] \in Int
    BY <2>1
  <2>3. \A g \in Source \cup Input : u[g] = t[g]
    BY <1>1, <2>1, Kinds
  <2>4. \A g \in Constant : u[g] # Torn => u[g] \in Int
    BY <1>1, <2>2, Kinds DEF Checkout
  <2>5. Checkout(u)
    BY <1>2, <2>3, <2>4 DEF Checkout
  <2> QED
    BY <1>1, <1>5, <2>1, <2>2, <2>5, Kinds, NotTorn
<1> QED
  BY <1>3, <1>4, <1>5, Kinds

(* The saves of Edit are of this kind. *)
LEMMA Saves ==
  ASSUME NEW f \in File, Edit(f)
  PROVE  \/ /\ f \in Source /\ tree' = [tree EXCEPT ![f].text = ~@]
            /\ users' = [users EXCEPT ![f].text = ~@]
         \/ /\ f \in Input /\ tree' = [tree EXCEPT ![f] = ~@]
            /\ users' = [users EXCEPT ![f] = ~@]
         \/ /\ f \in Constant /\ tree' = [tree EXCEPT ![f] = @ + 1]
            /\ users' = [users EXCEPT ![f] = @ + 1]
<1>1. CASE f \in Source
  BY <1>1, Kinds DEF Edit
<1>2. CASE f \in Input
  BY <1>2, Kinds DEF Edit
<1>3. CASE f \in Constant
  BY <1>3, Kinds DEF Edit
<1> QED
  BY <1>1, <1>2, <1>3 DEF Edit

(* What a save changes in a run, in the checkout and in the users' copy.   *)
LEMMA Edited ==
  ASSUME Run, NEW f \in File, Edit(f)
  PROVE  /\ Checkout(tree') /\ Checkout(users')
         /\ \A g \in File : g # f => tree'[g] = tree[g] /\ users'[g] = users[g]
         /\ f \in Source => /\ tree'[f].text = ~tree[f].text /\ users'[f].text = ~users[f].text
                            /\ tree'[f].revision = tree[f].revision
                            /\ tree'[f].release = tree[f].release /\ tree'[f].artifact = tree[f].artifact
         /\ f \in Constant => tree'[f] = tree[f] + 1 /\ users'[f] = users[f] + 1
         /\ f \in Source \cup Constant => tree'[f] # Torn /\ users'[f] # Torn
         /\ tree[f] = users[f] => tree'[f] = users'[f]
         /\ tree[f] # Torn /\ f \notin Dist
<1>1. tree[f] # Torn /\ f \in Source \cup Input \cup Constant
  BY DEF Edit
<1>2. Checkout(tree) /\ Checkout(users)
  BY DEF Run, Types
<1>3. users[f] # Torn
  <2>1. CASE f \in committed
    BY <2>1, <1>1, Kinds DEF Run, Types, Domains, Whole, Running, Replacing
  <2>2. CASE f \notin committed
    BY <2>2, <1>1 DEF Run, Kept
  <2> QED
    BY <2>1, <2>2
<1>4. DOMAIN tree = File /\ DOMAIN users = File
  BY <1>2 DEF Checkout
<1>5. tree[f] = users[f] => tree'[f] = users'[f]
  BY <1>4, Saves
<1>6. /\ Checkout(tree') /\ \A g \in File : g # f => tree'[g] = tree[g]
      /\ f \in Source => /\ tree'[f].text = ~tree[f].text /\ tree'[f].revision = tree[f].revision
                         /\ tree'[f].release = tree[f].release /\ tree'[f].artifact = tree[f].artifact
      /\ f \in Constant => tree'[f] = tree[f] + 1
      /\ f \in Source \cup Constant => tree'[f] # Torn
  BY <1>1, <1>2, Saves, Saved
<1>7. /\ Checkout(users') /\ \A g \in File : g # f => users'[g] = users[g]
      /\ f \in Source => users'[f].text = ~users[f].text
      /\ f \in Constant => users'[f] = users[f] + 1
      /\ f \in Source \cup Constant => users'[f] # Torn
  BY <1>2, <1>3, Saves, Saved
<1>8. f \notin Dist
  BY <1>1, Kinds
<1> QED
  BY <1>1, <1>5, <1>6, <1>7, <1>8

-----------------------------------------------------------------------------
(* The run.                                                                *)

(* The update of a template.                                               *)
LEMMA Update ==
  ASSUME Run, phase # "idle", NEW s \in DOMAIN updates \cap Source
  PROVE  /\ originals[s] \in Template /\ originals[s].release \in Releases(s)
         /\ plan[s] \in Artifact /\ Follows(s, originals[s], plan[s])
         /\ updates[s] = Later(originals[s], plan[s]) /\ updates[s] \in Template
         /\ updates[s].release \in Releases(s) /\ updates[s].text = originals[s].text
         /\ updates[s] # Torn /\ originals[s] # Torn
<1>1. /\ originals[s] \in Template /\ originals[s].release \in Releases(s)
      /\ Follows(s, originals[s], plan[s]) /\ updates[s] = Later(originals[s], plan[s])
  BY DEF Run, Patched
<1>2. plan[s] \in Artifact /\ plan[s].of \in Releases(s)
  BY DEF Run, Types
<1>3. originals[s].revision < MaxRevision
  BY <1>1 DEF Follows
<1>4. /\ Later(originals[s], plan[s]) \in Template
      /\ Later(originals[s], plan[s]).release = plan[s].of
      /\ Later(originals[s], plan[s]).text = originals[s].text
  BY <1>1, <1>2, <1>3, Patch
<1> QED
  BY <1>1, <1>2, <1>4, NotTorn

(* What the second loop or its rollback writes keeps a checkout.           *)
LEMMA Written ==
  ASSUME Run, phase = "commit", NEW u, u = [f \in File |-> u[f]],
         \A f \in File : \/ u[f] = tree[f]
                         \/ f \in DOMAIN updates /\ u[f] \in {Torn, originals[f], updates[f]}
  PROVE  Checkout(u)
<1>1. Checkout(tree)
  BY DEF Run, Types
<1>2. ASSUME NEW s \in Source, u[s] # Torn PROVE u[s] \in Template /\ u[s].release \in Releases(s)
  <2>1. s \in File
    BY Kinds
  <2>2. CASE u[s] = tree[s]
    BY <1>1, <1>2, <2>2 DEF Checkout
  <2>3. CASE s \in DOMAIN updates /\ u[s] \in {originals[s], updates[s]}
    BY <2>3, Update
  <2> QED
    BY <1>2, <2>1, <2>2, <2>3
<1>3. ASSUME NEW f \in Input PROVE u[f] \in BOOLEAN
  <2>1. f \notin DOMAIN updates /\ f \in File
    BY Kinds DEF Run, Domains, Replacing
  <2> QED
    BY <2>1, <1>1 DEF Checkout
<1>4. ASSUME NEW c \in Constant, u[c] # Torn PROVE u[c] \in Int
  <2>1. originals[c] \in Int /\ updates[c] = originals[c] + 1
    BY DEF Run, Versioned, Replacing
  <2>2. updates[c] \in Int
    BY <2>1
  <2>3. c \in File
    BY Kinds
  <2> QED
    BY <1>1, <1>4, <2>1, <2>2, <2>3 DEF Checkout
<1> QED
  BY <1>2, <1>3, <1>4 DEF Checkout

(* A run that returns.                                                     *)
LEMMA Returned ==
  ASSUME Run, NEW o, Return(o), Checkout(tree'), UNCHANGED <<runs, edits>>
  PROVE  Run'
<1>1. /\ phase' = "idle" /\ todo' = {} /\ committed' = {} /\ again' = {} /\ users' = tree'
      /\ originals' = None /\ updates' = None /\ staged' = None
  BY DEF Return
<1>2. DOMAIN None = {}
  BY DEF None
<1>3. Checkout(users')
  BY <1>1
<1>4. Types'
  BY <1>1, <1>2, <1>3 DEF Run, Types
<1>5. (Domains /\ Patched /\ Versioned /\ Copied /\ Built)'
  BY <1>1, <1>2 DEF Domains, Patched, Versioned, Copied, Built, Replacing
<1>6. (Whole /\ Kept /\ Renamed)'
  BY <1>1, <1>2 DEF Whole, Kept, Renamed
<1> QED
  BY <1>4, <1>5, <1>6 DEF Run

(* A template that is read.                                                *)
LEMMA ReadKept ==
  ASSUME Run, NEW s \in Source, Read(s)
  PROVE  Run'
<1>1. phase = "read" /\ s \in todo /\ UNCHANGED <<tree, runs, edits>>
  BY DEF Read
<1>2. Checkout(tree') /\ Checkout(tree)
  BY <1>1 DEF Run, Types
<1>3. CASE Return("error")
  BY <1>3, <1>1, <1>2, Returned
<1>4. CASE /\ todo' = todo \ {s} /\ UNCHANGED <<phase, outcome, plan, originals, updates, staged, committed, saves>>
  <2>1. Types'
    BY <1>1, <1>4 DEF Run, Types
  <2>2. (Domains /\ Patched /\ Versioned /\ Built)'
    BY <1>1, <1>4 DEF Run, Domains, Patched, Versioned, Built, Replacing
  <2>3. (Copied /\ Whole /\ Kept /\ Renamed)'
    BY <1>1, <1>4 DEF Run, Copied, Whole, Kept, Renamed, Replacing
  <2> QED
    BY <2>1, <2>2, <2>3 DEF Run
<1>5. CASE /\ tree[s] # Torn /\ ~Regressed(s) /\ ~MovedTag(s) /\ ~Exhausted(s) /\ Changed(s)
           /\ todo' = todo \ {s} /\ UNCHANGED <<phase, outcome, plan, staged, committed, saves>>
           /\ originals' = Put(originals, s, tree[s]) /\ updates' = Put(updates, s, Updated(s))
  <2>1. /\ tree[s] \in Template /\ tree[s].release \in Releases(s)
        /\ plan[s] \in Artifact /\ plan[s].of \in Releases(s)
    BY <1>1, <1>5 DEF Run, Types, Checkout
  <2>2. Follows(s, tree[s], plan[s])
    <3>1. tree[s].revision \in 1..MaxRevision /\ tree[s].release \in Release /\ plan[s].of \in Release
      BY <2>1, TemplateFields DEF Artifact
    <3>2. tree[s].revision # MaxRevision /\ ~(plan[s].of.rank < tree[s].release.rank)
      BY <1>5 DEF Exhausted, Regressed
    <3>3. s \in Oci => plan[s].of # tree[s].release
      BY <1>5 DEF MovedTag, Changed
    <3> QED
      BY <2>1, <3>1, <3>2, <3>3, ReleaseFields, Limit DEF Follows
  <2>3. /\ DOMAIN originals' = DOMAIN originals \cup {s} /\ originals'[s] = tree[s]
        /\ \A f \in DOMAIN originals : f # s => originals'[f] = originals[f]
        /\ DOMAIN updates' = DOMAIN updates \cup {s} /\ updates'[s] = Later(tree[s], plan[s])
        /\ \A f \in DOMAIN updates : f # s => updates'[f] = updates[f]
    BY <1>5 DEF Put, Updated, Later
  <2>4. Domains'
    BY <1>1, <1>5, <2>3 DEF Run, Domains, Replacing
  <2>5. Patched'
    <3> SUFFICES ASSUME NEW r \in DOMAIN updates' \cap Source
                 PROVE  /\ originals'[r] \in Template /\ originals'[r].release \in Releases(r)
                        /\ Follows(r, originals'[r], plan'[r])
                        /\ updates'[r] = Later(originals'[r], plan'[r])
      BY DEF Patched
    <3>1. CASE r = s
      BY <3>1, <2>1, <2>2, <2>3, <1>5
    <3>2. CASE r # s
      BY <3>2, <2>3, <1>1, <1>5 DEF Run, Patched, Domains
    <3> QED
      BY <3>1, <3>2
  <2>6. Types'
    BY <1>1, <1>2, <1>5, <2>3 DEF Run, Types
  <2>7. (Versioned /\ Copied /\ Built)'
    BY <1>1, <1>5 DEF Run, Versioned, Copied, Built, Replacing
  <2>8. committed = {} /\ tree[s] = users[s]
    BY <1>1, Kinds DEF Run, Types, Kept
  <2>9. (Whole /\ Kept /\ Renamed)'
    BY <1>1, <1>5, <2>3, <2>8 DEF Run, Whole, Kept, Renamed
  <2> QED
    BY <2>4, <2>5, <2>6, <2>7, <2>9 DEF Run
<1> QED
  BY <1>3, <1>4, <1>5 DEF Read

(* The constants are read and patched.                                     *)
LEMMA ReadVersionKept ==
  ASSUME Run, ReadVersion
  PROVE  Run'
<1>1. phase = "read" /\ UNCHANGED <<tree, runs, edits>>
  BY DEF ReadVersion
<1>2. Checkout(tree') /\ Checkout(tree)
  BY <1>1 DEF Run, Types
<1>3. CASE Return("error")
  BY <1>3, <1>1, <1>2, Returned
<1>4. CASE /\ ~ConstantsDisagree
           /\ phase' = "copy" /\ todo' = File /\ UNCHANGED <<outcome, plan, staged, committed, saves>>
           /\ originals' = [f \in DOMAIN originals \cup Dist \cup Constant |->
                              IF f \in Source THEN originals[f] ELSE tree[f]]
           /\ updates' = [f \in DOMAIN updates \cup Constant |->
                            IF f \in Source THEN updates[f] ELSE tree[f] + 1]
  <2>1. DOMAIN updates \subseteq Source /\ DOMAIN originals = DOMAIN updates
    BY <1>1 DEF Run, Domains
  <2>2. /\ DOMAIN updates' = DOMAIN updates \cup Constant
        /\ DOMAIN originals' = DOMAIN updates \cup Constant \cup Dist
        /\ DOMAIN updates' \cap Source = DOMAIN updates
    BY <1>4, <2>1, Kinds
  <2>3. Domains'
    BY <1>4, <2>2 DEF Domains, Replacing
  <2>4. Patched'
    BY <1>1, <1>4, <2>1, <2>2 DEF Run, Patched
  <2>5. \A c, d \in Constant : tree[c] # Torn /\ tree[c] \in Int /\ tree[c] = tree[d]
    BY <1>4, <1>2 DEF ConstantsDisagree, Checkout
  <2>6. Versioned'
    <3>1. \A c \in Constant : originals'[c] = tree[c] /\ updates'[c] = tree[c] + 1
      BY <1>4, Kinds
    <3> QED
      BY <2>5, <3>1 DEF Versioned
  <2>7. committed = {}
    BY <1>1 DEF Run, Types
  <2>8. Types'
    BY <1>1, <1>2, <1>4, <2>7 DEF Run, Types, Running
  <2>9. Copied'
    BY <1>1, <1>4 DEF Run, Copied, Replacing
  <2>10. Built'
    BY <1>4 DEF Built, Replacing
  <2>11. Whole'
    <3>1. \A c \in Constant : tree[c] = users[c]
      BY <2>7, Kinds DEF Run, Kept
    <3> QED
      BY <1>1, <1>4, <2>2, <2>5, <3>1 DEF Run, Whole
  <2>12. (Kept /\ Renamed)'
    BY <1>1, <1>4, <2>7 DEF Run, Kept, Renamed
  <2> QED
    BY <2>3, <2>4, <2>6, <2>8, <2>9, <2>10, <2>11, <2>12 DEF Run
<1> QED
  BY <1>3, <1>4 DEF ReadVersion

(* A file that is copied.                                                  *)
LEMMA CopyKept ==
  ASSUME Run, NEW f \in File, Copy(f)
  PROVE  Run'
<1>1. /\ phase = "copy" /\ f \in todo /\ todo' = todo \ {f} /\ staged' = Put(staged, f, tree[f])
      /\ UNCHANGED <<tree, phase, outcome, plan, originals, updates, committed, runs, edits, history>>
  BY DEF Copy
<1>2. /\ DOMAIN staged' = DOMAIN staged \cup {f} /\ staged'[f] = tree[f]
      /\ \A g \in DOMAIN staged : g # f => staged'[g] = staged[g]
  BY <1>1 DEF Put
<1>3. tree[f] = users[f]
  BY <1>1 DEF Run, Types, Kept
<1>4. Copied'
  BY <1>1, <1>2, <1>3 DEF Run, Copied, Types, Replacing
<1>5. Types'
  BY <1>1 DEF Run, Types, Checkout
<1>6. Domains' /\ Patched' /\ Versioned'
  BY <1>1 DEF Run, Domains, Patched, Versioned
<1>7. Built'
  BY <1>1 DEF Built, Replacing
<1>8. (Whole /\ Kept /\ Renamed)'
  BY <1>1 DEF Run, Whole, Kept, Renamed
<1> QED
  BY <1>4, <1>5, <1>6, <1>7, <1>8 DEF Run

(* The generator's output joins the updates.                               *)
LEMMA BuildKept ==
  ASSUME Run, Build
  PROVE  Run'
<1>1. /\ phase = "copy" /\ todo = {} /\ phase' = "compare" /\ todo' = DOMAIN originals
      /\ UNCHANGED <<tree, outcome, plan, originals, staged, committed, runs, edits, history>>
  BY DEF Build
<1> PICK c \in Constant :
      updates' = [f \in DOMAIN originals |-> IF f \in Dist THEN Generate(Staged, updates[c]) ELSE updates[f]]
  BY DEF Build
<1>2. DOMAIN originals = (DOMAIN updates \cap Source) \cup Constant \cup Dist
  BY <1>1 DEF Run, Domains
<1>3. /\ DOMAIN updates' = DOMAIN originals
      /\ \A f \in DOMAIN updates' : f \notin Dist => updates'[f] = updates[f]
      /\ \A d \in Dist : updates'[d] = Generate(Staged, updates[c])
  BY <1>2
<1>4. DOMAIN updates' \cap Source = DOMAIN updates \cap Source
  BY <1>2, <1>3, Kinds
<1>5. Domains'
  BY <1>1, <1>2, <1>3, <1>4 DEF Domains
<1>6. Patched'
  BY <1>1, <1>3, <1>4, Kinds DEF Run, Patched
<1>7. Versioned'
  <2>1. \A d \in Constant : updates'[d] = updates[d]
    BY <1>2, <1>3, Kinds
  <2> QED
    BY <2>1, <1>1 DEF Run, Versioned
<1>8. Copied'
  BY <1>1 DEF Run, Copied
<1>9. Types'
  <2>1. DOMAIN originals \subseteq File
    BY <1>2, Kinds
  <2>2. committed = {}
    BY <1>1 DEF Run, Types
  <2> QED
    BY <1>1, <2>1, <2>2 DEF Run, Types, Running, Replacing
<1>10. Built'
  <2>1. \A f \in Source \cup Input : Staged'[f] = Staged[f]
    <3> SUFFICES ASSUME NEW f \in Source \cup Input PROVE Staged'[f] = Staged[f]
      OBVIOUS
    <3>1. f \in DOMAIN updates' <=> f \in DOMAIN updates
      BY <1>1, <1>2, <1>3, Kinds DEF Run, Domains
    <3>2. f \in File /\ f \notin Dist
      BY Kinds
    <3> QED
      BY <3>1, <3>2, <1>1, <1>3 DEF Staged
  <2>2. \A d \in Constant : updates'[d] = updates[c]
    BY <1>1, <1>2, <1>3, Kinds DEF Run, Versioned
  <2>3. \A d \in Dist, e \in Constant : updates'[d] = Generate(Staged', updates'[e])
    BY <2>1, <2>2, <1>3 DEF Generate
  <2> QED
    BY <2>3 DEF Built
<1>11. Whole'
  <2>1. DOMAIN updates' \cap (Source \cup Constant) = DOMAIN updates \cap (Source \cup Constant)
    BY <1>1, <1>2, <1>3, Kinds DEF Run, Domains
  <2> QED
    BY <2>1, <1>1 DEF Run, Whole
<1>12. (Kept /\ Renamed)'
  BY <1>1, <1>3 DEF Run, Types, Kept, Renamed
<1> QED
  BY <1>5, <1>6, <1>7, <1>8, <1>9, <1>10, <1>11, <1>12 DEF Run

(* Staged is a function of three variables.                                *)
LEMMA SameStaged == UNCHANGED <<updates, staged>> => Staged' = Staged
  BY DEF Staged

(* A file that is compared, and the end of the first loop.                 *)
LEMMA CompareKept ==
  ASSUME Run, NEW f \in File, Compare(f)
  PROVE  Run'
<1>1. phase = "compare" /\ f \in todo /\ UNCHANGED <<tree, runs, edits>>
  BY DEF Compare
<1>2. Checkout(tree')
  BY <1>1 DEF Run, Types
<1>3. CASE Return("error")
  BY <1>3, <1>1, <1>2, Returned
<1>4. CASE /\ tree[f] = originals[f] /\ todo' = todo \ {f}
           /\ UNCHANGED <<phase, outcome, plan, originals, updates, staged, committed, saves>>
  <2>1. Types'
    BY <1>1, <1>4 DEF Run, Types
  <2>2. (Domains /\ Patched /\ Versioned)'
    BY <1>4 DEF Run, Domains, Patched, Versioned
  <2>3. (Copied /\ Whole /\ Renamed)'
    BY <1>1, <1>4 DEF Run, Copied, Whole, Renamed, Replacing
  <2>4. Built'
    BY <1>4, SameStaged DEF Run, Built, Generate
  <2>5. users[f] = originals[f]
    BY <1>1, <1>4 DEF Run, Types, Kept
  <2>6. Kept'
    BY <1>1, <1>4, <2>5 DEF Run, Kept
  <2> QED
    BY <2>1, <2>2, <2>3, <2>4, <2>6 DEF Run
<1> QED
  BY <1>3, <1>4 DEF Compare

LEMMA PreparedKept ==
  ASSUME Run, Prepared
  PROVE  Run'
<1>1. /\ phase = "compare" /\ todo = {} /\ phase' = "commit"
      /\ UNCHANGED <<tree, outcome, work, runs, edits, history>>
  BY DEF Prepared
<1>2. Types'
  BY <1>1 DEF Run, Types, Running, Replacing
<1>3. (Domains /\ Patched /\ Versioned)'
  BY <1>1 DEF Run, Domains, Patched, Versioned, Replacing
<1>4. (Copied /\ Whole /\ Kept /\ Renamed)'
  BY <1>1 DEF Run, Copied, Whole, Kept, Renamed, Replacing
<1>5. Built'
  BY <1>1, SameStaged DEF Run, Built, Generate, Replacing
<1> QED
  BY <1>2, <1>3, <1>4, <1>5 DEF Run

(* A file that is renamed.                                                 *)
LEMMA RenameKept ==
  ASSUME Run, NEW f \in File, Rename(f)
  PROVE  Run' /\ \A g \in File : tree'[g] = IF g = f THEN updates[g] ELSE tree[g]
<1>1. /\ phase = "commit" /\ f \in DOMAIN updates /\ f \notin committed
      /\ tree' = [tree EXCEPT ![f] = updates[f]] /\ committed' = committed \cup {f}
      /\ UNCHANGED <<phase, outcome, plan, todo, originals, updates, staged, runs, edits, history>>
  BY DEF Rename
<1>2. /\ tree' = [g \in File |-> tree'[g]]
      /\ \A g \in File : tree'[g] = IF g = f THEN updates[g] ELSE tree[g]
  BY <1>1 DEF Run, Types, Checkout
<1>3. Checkout(tree')
  BY <1>1, <1>2, Written
<1>4. Types'
  <2>1. Checkout(users')
    BY <1>1 DEF Run, Types
  <2> QED
    BY <1>1, <1>3, <2>1 DEF Run, Types
<1>5. (Domains /\ Patched /\ Versioned /\ Copied)'
  BY <1>1 DEF Run, Domains, Patched, Versioned, Copied
<1>6. Built'
  BY <1>1, SameStaged DEF Run, Built, Generate
<1>7. f \notin again /\ (f \notin late => users[f] = originals[f])
  BY <1>1 DEF Run, Types, Kept
<1>8. ASSUME f \in Source
      PROVE  updates[f] # Torn /\ (f \notin late => updates[f].text = users[f].text)
  BY <1>1, <1>7, <1>8, Update
<1>9. ASSUME f \in Constant
      PROVE  updates[f] # Torn /\ (f \notin late => updates[f] = users[f] + 1)
  <2>1. originals[f] \in Int /\ updates[f] = originals[f] + 1
    BY <1>1, <1>9 DEF Run, Versioned, Replacing
  <2>2. updates[f] \in Int
    BY <2>1
  <2> QED
    BY <2>1, <2>2, <1>7, NotTorn
<1>10. Whole'
  BY <1>1, <1>2, <1>8, <1>9, Kinds DEF Run, Whole
<1>11. Kept'
  BY <1>1, <1>2 DEF Run, Kept
<1>12. Renamed'
  <2>1. committed \subseteq File
    BY <1>1, Kinds DEF Run, Types, Domains, Replacing
  <2>2. ASSUME NEW g \in committed' \ again' PROVE tree'[g] = updates'[g]
    BY <1>1, <1>2, <2>1, <2>2 DEF Run, Renamed
  <2>3. ASSUME NEW s \in committed' \cap Source
        PROVE  /\ tree'[s].revision = updates'[s].revision /\ tree'[s].release = updates'[s].release
               /\ tree'[s].artifact = updates'[s].artifact
               /\ s \notin late' => tree'[s].text = users'[s].text
    <3>1. CASE s = f
      BY <1>1, <1>2, <1>8, <2>3, <3>1
    <3>2. CASE s # f
      BY <1>1, <1>2, <2>1, <2>3, <3>2 DEF Run, Renamed
    <3> QED
      BY <3>1, <3>2
  <2>4. ASSUME NEW c \in committed' \cap Constant, c \notin late' PROVE tree'[c] = users'[c] + 1
    <3>1. CASE c = f
      BY <1>1, <1>2, <1>9, <2>4, <3>1
    <3>2. CASE c # f
      BY <1>1, <1>2, <2>1, <2>4, <3>2 DEF Run, Renamed
    <3> QED
      BY <3>1, <3>2
  <2> QED
    BY <2>2, <2>3, <2>4 DEF Renamed
<1> QED
  BY <1>2, <1>4, <1>5, <1>6, <1>10, <1>11, <1>12 DEF Run

(* What a failed rename leaves: the originals of what was renamed, but for *)
(* the files whose restoring write failed.                                 *)
LEMMA RolledBack ==
  ASSUME Run, RenameFails
  PROVE  /\ phase = "commit" /\ Checkout(tree')
         /\ \A f \in File : \/ tree'[f] \in {tree[f], Torn}
                            \/ f \in committed /\ tree'[f] = originals[f]
         /\ \A f \in File : \/ f \notin committed /\ tree'[f] = tree[f]
                            \/ f \in committed /\ tree'[f] = originals[f]
                            \/ f \in committed \cap unrestored'
<1>1. phase = "commit"
  BY DEF RenameFails
<1> PICK F \in SUBSET committed, T \in SUBSET committed :
      /\ T \subseteq F /\ unrestored' = F
      /\ tree' = [f \in File |-> IF f \in T THEN Torn
                                 ELSE IF f \in committed \ F THEN originals[f] ELSE tree[f]]
  BY DEF RenameFails
<1>2. /\ tree' = [f \in File |-> tree'[f]]
      /\ \A f \in File : tree'[f] = IF f \in T THEN Torn
                                    ELSE IF f \in committed \ F THEN originals[f] ELSE tree[f]
  OBVIOUS
<1>3. committed \subseteq DOMAIN updates
  BY DEF Run, Types
<1>4. Checkout(tree')
  BY <1>1, <1>2, <1>3, Written
<1> QED
  BY <1>1, <1>2, <1>4

(* A save in the middle of a run.                                          *)
LEMMA EditKept ==
  ASSUME Run, NEW f \in File, Edit(f)
  PROVE  Run'
<1>1. /\ UNCHANGED <<phase, outcome, work, runs, unrestored, recorded>> /\ edits' = edits + 1
      /\ outdated' = IF f \in DOMAIN staged THEN outdated \cup {f} ELSE outdated
      /\ late' = late \cup {g \in {f} \cap DOMAIN updates :
                    (phase = "compare" /\ g \notin todo) \/ (phase = "commit" /\ g \notin committed)}
      /\ again' = again \cup ({f} \cap committed)
  BY DEF Edit
<1>2. /\ Checkout(tree') /\ Checkout(users')
      /\ \A g \in File : g # f => tree'[g] = tree[g] /\ users'[g] = users[g]
      /\ f \in Source => /\ tree'[f].text = ~tree[f].text /\ users'[f].text = ~users[f].text
                         /\ tree'[f].revision = tree[f].revision
                         /\ tree'[f].release = tree[f].release /\ tree'[f].artifact = tree[f].artifact
      /\ f \in Constant => tree'[f] = tree[f] + 1 /\ users'[f] = users[f] + 1
      /\ f \in Source \cup Constant => tree'[f] # Torn /\ users'[f] # Torn
      /\ tree[f] = users[f] => tree'[f] = users'[f]
  BY Edited
<1>3. DOMAIN updates \subseteq File /\ committed \subseteq File /\ DOMAIN staged \subseteq File
  BY Kinds DEF Run, Types, Domains, Copied, Running, Replacing
<1>4. Types'
  BY <1>1, <1>2 DEF Run, Types
<1>5. Copied'
  <2>1. ASSUME NEW g \in DOMAIN staged
        PROVE  staged[g] = users'[g] \/ g \in outdated'
    <3>1. staged[g] = users[g] \/ g \in outdated
      BY <2>1 DEF Run, Copied
    <3> QED
      BY <2>1, <3>1, <1>1, <1>2, <1>3
  <2>2. UNCHANGED <<phase, staged, todo>>
    BY <1>1
  <2> QED
    BY <2>1, <2>2 DEF Run, Copied
<1>6. (Domains /\ Patched /\ Versioned)'
  BY <1>1 DEF Run, Domains, Patched, Versioned
<1>7. Built'
  BY <1>1, SameStaged DEF Run, Built, Generate
<1>8. Whole'
  BY <1>1, <1>2, <1>3 DEF Run, Whole
<1>9. Kept'
  <2>1. \A g \in File \ committed' : tree'[g] = users'[g]
    BY <1>1, <1>2 DEF Run, Kept
  <2>2. ASSUME NEW g \in DOMAIN updates',
               (phase' = "compare" /\ g \notin todo') \/ phase' = "commit", g \notin late' \cup again'
        PROVE  users'[g] = originals'[g]
    <3>1. g # f
      BY <1>1, <2>2
    <3> QED
      BY <1>1, <1>2, <1>3, <2>2, <3>1 DEF Run, Kept
  <2> QED
    BY <2>1, <2>2 DEF Kept
<1>10. Renamed'
  <2>1. ASSUME NEW g \in committed' \ again' PROVE tree'[g] = updates'[g]
    <3>1. g # f
      BY <1>1, <2>1
    <3> QED
      BY <1>1, <1>2, <1>3, <2>1, <3>1 DEF Run, Renamed
  <2>2. ASSUME NEW s \in committed' \cap Source
        PROVE  /\ tree'[s].revision = updates'[s].revision /\ tree'[s].release = updates'[s].release
               /\ tree'[s].artifact = updates'[s].artifact
               /\ s \notin late' => tree'[s].text = users'[s].text
    <3>1. /\ tree[s].revision = updates[s].revision /\ tree[s].release = updates[s].release
          /\ tree[s].artifact = updates[s].artifact
          /\ s \notin late => tree[s].text = users[s].text
      BY <1>1, <2>2 DEF Run, Renamed
    <3>2. late \subseteq late'
      BY <1>1
    <3>3. CASE s = f
      BY <1>1, <1>2, <2>2, <3>1, <3>2, <3>3
    <3>4. CASE s # f
      BY <1>1, <1>2, <1>3, <2>2, <3>1, <3>2, <3>4
    <3> QED
      BY <3>3, <3>4
  <2>3. ASSUME NEW c \in committed' \cap Constant, c \notin late' PROVE tree'[c] = users'[c] + 1
    <3>1. tree[c] = users[c] + 1
      BY <1>1, <2>3 DEF Run, Renamed
    <3>2. CASE c = f
      BY <1>2, <2>3, <3>1, <3>2
    <3>3. CASE c # f
      BY <1>1, <1>2, <1>3, <2>3, <3>1, <3>3
    <3> QED
      BY <3>2, <3>3
  <2> QED
    BY <2>1, <2>2, <2>3 DEF Renamed
<1> QED
  BY <1>4, <1>5, <1>6, <1>7, <1>8, <1>9, <1>10 DEF Run

(* Every step keeps the invariant of the run.                              *)
LEMMA RunKept == Run /\ [Next]_vars => Run'
<1> SUFFICES ASSUME Run, [Next]_vars PROVE Run'
  OBVIOUS
<1>1. Checkout(tree) /\ Checkout(users)
  BY DEF Run, Types
<1>2. CASE Begin
  <2>1. /\ phase = "idle" /\ phase' = "read" /\ todo' = Source /\ outcome' = "none" /\ runs' = runs + 1
        /\ UNCHANGED <<tree, originals, updates, staged, committed, edits, saves>>
    BY <1>2 DEF Begin
  <2>2. \A s \in Source : plan'[s] \in Artifact /\ plan'[s].of \in Releases(s)
    BY <1>2 DEF Begin
  <2>3. Types'
    BY <2>1, <2>2, Kinds DEF Run, Types, Running
  <2>4. (Domains /\ Patched /\ Versioned /\ Built)'
    BY <2>1 DEF Run, Domains, Patched, Versioned, Built, Replacing
  <2>5. (Copied /\ Whole /\ Kept /\ Renamed)'
    BY <2>1 DEF Run, Copied, Whole, Kept, Renamed, Replacing
  <2> QED
    BY <2>3, <2>4, <2>5 DEF Run
<1>3. CASE Current
  <2>1. Return("unchanged") /\ UNCHANGED <<tree, runs, edits>>
    BY <1>3 DEF Current
  <2> QED
    BY <2>1, <1>1, Returned
<1>4. CASE Abort
  <2>1. Return("error") /\ UNCHANGED <<tree, runs, edits>>
    BY <1>4 DEF Abort
  <2> QED
    BY <2>1, <1>1, Returned
<1>5. CASE Kill
  <2>1. Return("killed") /\ UNCHANGED <<tree, runs, edits>>
    BY <1>5 DEF Kill
  <2> QED
    BY <2>1, <1>1, Returned
<1>6. CASE Replaced
  <2>1. Return("changed") /\ UNCHANGED <<tree, runs, edits>>
    BY <1>6 DEF Replaced
  <2> QED
    BY <2>1, <1>1, Returned
<1>7. CASE RenameFails
  <2>1. Return("error") /\ UNCHANGED <<runs, edits>>
    BY <1>7 DEF RenameFails
  <2>2. Checkout(tree')
    BY <1>7, RolledBack
  <2> QED
    BY <2>1, <2>2, Returned
<1>8. CASE UNCHANGED vars
  <2>1. Types'
    BY <1>8 DEF vars, Run, Types
  <2>2. (Domains /\ Patched /\ Versioned)'
    BY <1>8 DEF vars, Run, Domains, Patched, Versioned
  <2>3. (Copied /\ Whole /\ Kept /\ Renamed)'
    BY <1>8 DEF vars, Run, Copied, Whole, Kept, Renamed
  <2>4. Built'
    BY <1>8, SameStaged DEF vars, Run, Built, Generate
  <2> QED
    BY <2>1, <2>2, <2>3, <2>4 DEF Run
<1> QED
  BY <1>2, <1>3, <1>4, <1>5, <1>6, <1>7, <1>8, ReadKept, ReadVersionKept, CopyKept, BuildKept,
     CompareKept, PreparedKept, RenameKept, EditKept DEF Next

-----------------------------------------------------------------------------
(* The revisions.                                                          *)

Immutable == ArtifactsAreImmutable /\ RevisionsFollowReleases

(* What the checkout holds may be recorded: whatever was recorded before   *)
(* is behind it.                                                           *)
LEMMA Recording ==
  ASSUME NEW R, NEW t, Checkout(t), R \subseteq Recorded,
         \A a \in R : /\ a.release \in Releases(a.source)
                      /\ t[a.source] # Torn => Behind(a, a.source, t[a.source])
  PROVE  /\ R \cup Templates(t) \subseteq Recorded
         /\ \A a \in R \cup Templates(t) :
              /\ a.release \in Releases(a.source)
              /\ t[a.source] # Torn => Behind(a, a.source, t[a.source])
<1> DEFINE Entry(s) == [source |-> s, revision |-> t[s].revision, release |-> t[s].release,
                        artifact |-> t[s].artifact]
<1>1. ASSUME NEW s \in Source, t[s] # Torn
      PROVE  /\ Entry(s) \in Recorded /\ Entry(s).source = s /\ Entry(s).release \in Releases(s)
             /\ Behind(Entry(s), s, t[s])
  <2>1. t[s] \in Template /\ t[s].release \in Releases(s)
    BY <1>1 DEF Checkout
  <2>2. /\ t[s].revision \in 1..MaxRevision /\ t[s].release \in Release /\ t[s].artifact \in Artifact
    BY <2>1, TemplateFields
  <2>3. Entry(s) \in Recorded
    BY <2>2 DEF Recorded
  <2>4. t[s].revision \in Int /\ t[s].release.rank \in Int
    BY <2>2, ReleaseFields
  <2> QED
    BY <2>1, <2>3, <2>4 DEF Behind
<1>2. \A a \in Templates(t) : \E s \in Source : t[s] # Torn /\ a = Entry(s)
  BY DEF Templates
<1> HIDE DEF Entry
<1> QED
  BY <1>1, <1>2

(* Recorded templates behind one that joins them agree with it.            *)
LEMMA Agreement ==
  ASSUME NEW t, Checkout(t), NEW R, R \subseteq Recorded,
         \A a \in R : t[a.source] # Torn => Behind(a, a.source, t[a.source]),
         \A a, b \in R : a.source = b.source =>
           /\ a.source \in Oci /\ a.release = b.release => a.artifact = b.artifact
           /\ a.revision = b.revision => a = b
           /\ a.revision < b.revision => a.release.rank <= b.release.rank
  PROVE  \A a, b \in R \cup Templates(t) : a.source = b.source =>
           /\ a.source \in Oci /\ a.release = b.release => a.artifact = b.artifact
           /\ a.revision = b.revision => a = b
           /\ a.revision < b.revision => a.release.rank <= b.release.rank
           /\ a.revision <= MaxRevision
<1>1. \A a \in Templates(t) :
        /\ a.source \in Source /\ t[a.source] # Torn /\ a.revision = t[a.source].revision
        /\ a.release = t[a.source].release /\ a.artifact = t[a.source].artifact
        /\ a = [source |-> a.source, revision |-> a.revision, release |-> a.release, artifact |-> a.artifact]
  BY DEF Templates
<1>2. \A s \in Source : t[s] # Torn => t[s] \in Template
  BY DEF Checkout
<1>3. \A s \in Source : t[s] # Torn => t[s].revision \in 1..MaxRevision /\ t[s].release.rank \in Int
  BY <1>2, TemplateFields, ReleaseFields
<1>4. \A a \in R :
        /\ a.source \in Source /\ a.revision \in 1..MaxRevision /\ a.release \in Release
        /\ a = [source |-> a.source, revision |-> a.revision, release |-> a.release, artifact |-> a.artifact]
  BY DEF Recorded
<1>5. \A a \in R : a.release.rank \in Int
  BY <1>4, ReleaseFields
<1>6. ASSUME NEW a \in R, NEW b \in Templates(t), a.source = b.source
      PROVE  /\ a.source \in Oci /\ a.release = b.release => a.artifact = b.artifact
             /\ a.revision = b.revision => a = b
             /\ a.release.rank <= b.release.rank /\ a.revision <= b.revision
  <2>1. Behind(a, b.source, t[b.source])
    BY <1>1, <1>6
  <2>2. /\ a.revision <= b.revision /\ a.release.rank <= b.release.rank
        /\ a.revision = b.revision => a.release = b.release /\ a.artifact = b.artifact
        /\ b.source \in Oci /\ a.release = b.release => a.artifact = b.artifact
    BY <2>1, <1>1 DEF Behind
  <2>3. ASSUME a.revision = b.revision PROVE a = b
    BY <2>2, <2>3, <1>1, <1>4, <1>6
  <2> QED
    BY <2>2, <2>3, <1>6
<1>7. \A a, b \in Templates(t) : a.source = b.source => a = b
  BY <1>1
<1>8. \A a \in R \cup Templates(t) : a.revision \in 1..MaxRevision /\ a.release.rank \in Int
  BY <1>1, <1>3, <1>4, <1>5
<1> SUFFICES ASSUME NEW a \in R \cup Templates(t), NEW b \in R \cup Templates(t), a.source = b.source
             PROVE  /\ a.source \in Oci /\ a.release = b.release => a.artifact = b.artifact
                    /\ a.revision = b.revision => a = b
                    /\ a.revision < b.revision => a.release.rank <= b.release.rank
                    /\ a.revision <= MaxRevision
  OBVIOUS
<1>9. CASE a \in R /\ b \in R
  BY <1>8, <1>9, Limit
<1>10. CASE a \in R /\ b \in Templates(t)
  BY <1>6, <1>8, <1>10, Limit
<1>11. CASE a \in Templates(t) /\ b \in R
  <2>1. /\ b.source \in Oci /\ b.release = a.release => b.artifact = a.artifact
        /\ b.revision = a.revision => b = a
        /\ b.revision <= a.revision
    BY <1>6, <1>11
  <2> QED
    BY <2>1, <1>8, Limit
<1>12. CASE a \in Templates(t) /\ b \in Templates(t)
  BY <1>7, <1>8, <1>12, Limit
<1> QED
  BY <1>9, <1>10, <1>11, <1>12

(* Only Begin and Replaced record anything.                                *)
LEMMA LedgerKept == Run /\ Ledger /\ Immutable /\ [Next]_vars => Ledger' /\ Immutable'
<1> SUFFICES ASSUME Run, Ledger, Immutable, [Next]_vars PROVE Ledger' /\ Immutable'
  OBVIOUS
<1>1. Checkout(tree)
  BY DEF Run, Types
<1>2. \A a \in recorded :
        /\ a \in Recorded /\ a.source \in Source /\ a.source \in File /\ a.release \in Releases(a.source)
        /\ tree[a.source] # Torn => Behind(a, a.source, tree[a.source])
        /\ a.source \in DOMAIN originals => Behind(a, a.source, originals[a.source])
  BY Kinds DEF Ledger, Recorded
<1>3. ASSUME UNCHANGED tree, recorded' = recorded \cup Templates(tree), DOMAIN originals' = {}
      PROVE  Ledger' /\ Immutable'
  <2>1. /\ recorded' \subseteq Recorded
        /\ \A a \in recorded' : /\ a.release \in Releases(a.source)
                                /\ tree[a.source] # Torn => Behind(a, a.source, tree[a.source])
    BY <1>1, <1>2, <1>3, Recording
  <2>2. \A a, b \in recorded : a.source = b.source =>
           /\ a.source \in Oci /\ a.release = b.release => a.artifact = b.artifact
           /\ a.revision = b.revision => a = b
           /\ a.revision < b.revision => a.release.rank <= b.release.rank
    BY DEF Immutable, ArtifactsAreImmutable, RevisionsFollowReleases
  <2>3. \A a, b \in recorded' : a.source = b.source =>
           /\ a.source \in Oci /\ a.release = b.release => a.artifact = b.artifact
           /\ a.revision = b.revision => a = b
           /\ a.revision < b.revision => a.release.rank <= b.release.rank
           /\ a.revision <= MaxRevision
    <3>1. recorded \subseteq Recorded
      BY <1>2
    <3> QED
      BY <1>1, <1>2, <1>3, <2>2, <3>1, Agreement
  <2> QED
    BY <1>3, <2>1, <2>3 DEF Ledger, Immutable, ArtifactsAreImmutable, RevisionsFollowReleases
<1>4. ASSUME UNCHANGED recorded,
             \A a \in recorded : tree'[a.source] # Torn => Behind(a, a.source, tree'[a.source]),
             \A a \in recorded : a.source \in DOMAIN originals' => Behind(a, a.source, originals'[a.source])
      PROVE  Ledger' /\ Immutable'
  BY <1>4, <1>2 DEF Ledger, Immutable, ArtifactsAreImmutable, RevisionsFollowReleases
<1>5. ASSUME UNCHANGED <<tree, recorded>>, UNCHANGED originals \/ originals' = None
      PROVE  Ledger' /\ Immutable'
  BY <1>5, <1>4, <1>2 DEF None
<1>6. CASE Begin
  <2>1. phase = "idle" /\ UNCHANGED <<tree, originals>> /\ recorded' = recorded \cup Templates(tree)
    BY <1>6 DEF Begin
  <2>2. DOMAIN originals' = {}
    BY <2>1 DEF Run, Domains
  <2> QED
    BY <2>1, <2>2, <1>3
<1>7. CASE Replaced
  <2>1. originals' = None /\ UNCHANGED tree /\ recorded' = recorded \cup Templates(tree)
    BY <1>7 DEF Replaced, Return
  <2> QED
    BY <2>1, <1>3 DEF None
<1>8. CASE \E s \in Source : Read(s)
  <2> PICK s \in Source : Read(s)
    BY <1>8
  <2>1. UNCHANGED <<tree, recorded>>
    BY DEF Read
  <2>2. \/ UNCHANGED originals \/ originals' = None
        \/ tree[s] # Torn /\ originals' = Put(originals, s, tree[s])
    BY DEF Read, Return
  <2>3. CASE tree[s] # Torn /\ originals' = Put(originals, s, tree[s])
    <3>1. /\ DOMAIN originals' = DOMAIN originals \cup {s} /\ originals'[s] = tree[s]
          /\ \A f \in DOMAIN originals : f # s => originals'[f] = originals[f]
      BY <2>3 DEF Put
    <3>2. ASSUME NEW a \in recorded, a.source \in DOMAIN originals'
          PROVE  Behind(a, a.source, originals'[a.source])
      <4>1. CASE a.source = s
        BY <4>1, <3>1, <2>3, <1>2
      <4>2. CASE a.source # s
        BY <4>2, <3>1, <3>2, <1>2
      <4> QED
        BY <4>1, <4>2
    <3> QED
      BY <2>1, <3>2, <1>4, <1>2
  <2> QED
    BY <2>1, <2>2, <2>3, <1>5
<1>9. CASE ReadVersion
  <2>1. UNCHANGED <<tree, recorded>> /\ phase = "read"
    BY <1>9 DEF ReadVersion
  <2>2. \/ originals' = None
        \/ originals' = [f \in DOMAIN originals \cup Dist \cup Constant |->
                           IF f \in Source THEN originals[f] ELSE tree[f]]
    BY <1>9 DEF ReadVersion, Return
  <2>3. CASE originals' = [f \in DOMAIN originals \cup Dist \cup Constant |->
                             IF f \in Source THEN originals[f] ELSE tree[f]]
    <3>1. \A s \in Source : s \in DOMAIN originals' => s \in DOMAIN originals /\ originals'[s] = originals[s]
      BY <2>3, Kinds
    <3> QED
      BY <2>1, <3>1, <1>2, <1>4
  <2> QED
    BY <2>1, <2>2, <2>3, <1>5
<1>10. CASE \E f \in File : Copy(f) \/ Compare(f)
  BY <1>10, <1>5 DEF Copy, Compare, Return
<1>11. CASE Current \/ Abort \/ Kill \/ Build \/ Prepared
  BY <1>11, <1>5 DEF Current, Abort, Kill, Build, Prepared, Return
<1>12. CASE \E f \in File : Rename(f)
  <2> PICK f \in File : Rename(f)
    BY <1>12
  <2>1. phase = "commit" /\ f \in DOMAIN updates /\ UNCHANGED <<originals, recorded>>
    BY DEF Rename
  <2>2. \A g \in File : tree'[g] = IF g = f THEN updates[g] ELSE tree[g]
    BY RenameKept
  <2>3. DOMAIN originals = DOMAIN updates
    BY <2>1 DEF Run, Domains, Replacing
  <2>4. ASSUME NEW a \in recorded, tree'[a.source] # Torn PROVE Behind(a, a.source, tree'[a.source])
    <3>1. CASE a.source # f
      BY <3>1, <2>2, <2>4, <1>2
    <3>2. CASE a.source = f
      <4>1. /\ originals[f] \in Template /\ originals[f].release \in Releases(f)
            /\ plan[f] \in Artifact /\ Follows(f, originals[f], plan[f])
            /\ updates[f] = Later(originals[f], plan[f]) /\ f \in Source
        BY <3>2, <2>1, <1>2, Update
      <4>2. Behind(a, f, originals[f]) /\ a \in Recorded /\ a.release \in Releases(f)
        BY <3>2, <2>1, <2>3, <1>2
      <4>3. Behind(a, f, Later(originals[f], plan[f]))
        BY <4>1, <4>2, StaysBehind
      <4> QED
        BY <4>1, <4>3, <3>2, <2>2
    <3> QED
      BY <3>1, <3>2
  <2> QED
    BY <2>1, <2>4, <1>2, <1>4
<1>13. CASE RenameFails
  <2>1. UNCHANGED recorded /\ originals' = None
    BY <1>13 DEF RenameFails, Return
  <2>2. DOMAIN originals = DOMAIN updates /\ committed \subseteq DOMAIN updates
    BY <1>13, RolledBack DEF Run, Types, Domains, Replacing
  <2>3. ASSUME NEW a \in recorded, tree'[a.source] # Torn PROVE Behind(a, a.source, tree'[a.source])
    <3>1. \/ tree'[a.source] = tree[a.source]
          \/ a.source \in committed /\ tree'[a.source] = originals[a.source]
      BY <1>13, <1>2, <2>3, RolledBack
    <3> QED
      BY <3>1, <2>2, <2>3, <1>2
  <2>4. DOMAIN originals' = {}
    BY <2>1 DEF None
  <2> QED
    BY <2>1, <2>3, <2>4, <1>4
<1>14. CASE \E f \in File : Edit(f)
  <2> PICK f \in File : Edit(f)
    BY <1>14
  <2>1. UNCHANGED <<recorded, originals>>
    BY DEF Edit
  <2>2. \A s \in Source :
          \/ tree'[s] = tree[s]
          \/ /\ tree[s] # Torn /\ tree'[s].revision = tree[s].revision
             /\ tree'[s].release = tree[s].release /\ tree'[s].artifact = tree[s].artifact
    BY Edited, Kinds
  <2>3. ASSUME NEW a \in recorded, tree'[a.source] # Torn PROVE Behind(a, a.source, tree'[a.source])
    BY <2>2, <2>3, <1>2 DEF Behind
  <2> QED
    BY <2>1, <2>3, <1>2, <1>4
<1>15. CASE UNCHANGED vars
  BY <1>5, <1>15 DEF vars
<1> QED
  BY <1>6, <1>7, <1>8, <1>9, <1>10, <1>11, <1>12, <1>13, <1>14, <1>15 DEF Next

-----------------------------------------------------------------------------
(* The checkout and the users.                                             *)

(* Which step ends a run, by its outcome.                                  *)
LEMMA Ends ==
  ASSUME Run, Next, phase # "idle", outcome' \in {"changed", "error", "unchanged"}
  PROVE  \/ /\ Replaced /\ outcome' = "changed"
         \/ /\ RenameFails /\ outcome' = "error"
         \/ /\ UNCHANGED tree /\ committed = {} /\ phase # "commit" /\ outcome' # "changed"
<1>1. outcome = "none"
  BY DEF Run, Types
<1>2. phase # "commit" => committed = {}
  BY DEF Run, Types
<1>3. ASSUME NEW s \in Source, Read(s) PROVE UNCHANGED tree /\ phase # "commit" /\ outcome' # "changed"
  BY <1>1, <1>3 DEF Read, Return
<1>4. CASE ReadVersion \/ Current \/ Abort
  BY <1>1, <1>4, <1>2 DEF ReadVersion, Current, Abort, Return
<1>5. ASSUME NEW f \in File, Compare(f) PROVE UNCHANGED tree /\ phase # "commit" /\ outcome' # "changed"
  BY <1>1, <1>5 DEF Compare, Return
<1>6. CASE Begin \/ Kill \/ Build \/ Prepared
  BY <1>1, <1>6 DEF Begin, Kill, Build, Prepared, Return
<1>7. CASE Replaced \/ RenameFails
  BY <1>7 DEF Replaced, RenameFails, Return
<1>8. ASSUME NEW f \in File, Copy(f) \/ Rename(f) \/ Edit(f) PROVE FALSE
  BY <1>1, <1>8 DEF Copy, Rename, Edit
<1> QED
  BY <1>2, <1>3, <1>4, <1>5, <1>6, <1>7, <1>8 DEF Next

(* What a run that changed the checkout leaves.                            *)
LEMMA Left ==
  ASSUME Run, Replaced
  PROVE  /\ phase = "commit" /\ UNCHANGED tree /\ committed = DOMAIN updates
         /\ Dist \subseteq committed /\ Constant \subseteq committed
         /\ \A f \in Input : f \notin committed
  BY Kinds DEF Replaced, Run, Domains, Replacing

(* It matches, but for the saves that replaceFiles cannot notice.          *)
LEMMA Matches ==
  ASSUME Run, Replaced, again = {}, \A f \in outdated : f \notin (Source \cup Input) \ DOMAIN updates
  PROVE  Consistent(tree')
<1>1. /\ phase = "commit" /\ UNCHANGED tree /\ committed = DOMAIN updates
      /\ Dist \subseteq committed /\ Constant \subseteq committed
  BY Left
<1>2. \A f \in committed : tree[f] = updates[f]
  BY DEF Run, Renamed
<1>3. \A f \in Source \cup Input : tree[f] = Staged[f]
  <2> SUFFICES ASSUME NEW f \in Source \cup Input PROVE tree[f] = Staged[f]
    OBVIOUS
  <2>1. f \in File /\ f \in DOMAIN staged
    BY <1>1, Kinds DEF Run, Copied, Replacing
  <2>2. f \notin DOMAIN updates => staged[f] = users[f] /\ tree[f] = users[f]
    BY <1>1, <2>1 DEF Run, Copied, Kept
  <2> QED
    BY <1>1, <1>2, <2>1, <2>2 DEF Staged
<1>4. ASSUME NEW d \in Dist, NEW c \in Constant
      PROVE  tree[d] = Generate(tree, tree[c])
  <2>1. tree[d] = updates[d] /\ tree[c] = updates[c]
    BY <1>1, <1>2
  <2>2. updates[d] = Generate(Staged, updates[c])
    BY <1>1 DEF Run, Built, Replacing
  <2> QED
    BY <2>1, <2>2, <1>3 DEF Generate
<1> QED
  BY <1>1, <1>4 DEF Consistent, Generate

-----------------------------------------------------------------------------
(* What holds of every behaviour.                                          *)

LEMMA InitInv == Init => Inv
<1> SUFFICES ASSUME Init PROVE Inv
  OBVIOUS
<1> PICK t \in [Source -> Template], i \in [Input -> BOOLEAN], n \in {1, MaxRevision} :
      /\ \A s \in Source :
           /\ t[s].revision = n /\ t[s].release = First(s) /\ ~t[s].text
           /\ t[s].artifact.of = First(s) /\ t[s].artifact.digest \in Digests(s)
      /\ tree = [f \in File |->
           CASE f \in Source   -> t[f]
             [] f \in Input    -> i[f]
             [] f \in Constant -> 1
             [] f \in Dist     -> Generate([x \in Source \cup Input |->
                                    IF x \in Source THEN t[x] ELSE i[x]], 1)]
  BY DEF Init
<1>0. /\ phase = "idle" /\ outcome = "none" /\ todo = {} /\ runs = 0 /\ edits = 0
      /\ originals = None /\ updates = None /\ staged = None /\ committed = {}
      /\ users = tree /\ again = {} /\ recorded = Templates(tree)
  BY DEF Init
<1>1. /\ \A s \in Source : tree[s] = t[s]
      /\ \A f \in Input : tree[f] = i[f]
      /\ \A c \in Constant : tree[c] = 1
      /\ \A d \in Dist : tree[d] = Generate([x \in Source \cup Input |->
                                    IF x \in Source THEN t[x] ELSE i[x]], 1)
  BY Kinds
<1>2. Checkout(tree)
  <2>1. \A s \in Source : tree[s] \in Template /\ tree[s].release = First(s)
    BY <1>1
  <2>2. \A s \in Source : tree[s].release \in Releases(s)
    <3>1. \A s \in Source : tree[s].release \in Release
      BY <2>1, TemplateFields
    <3>2. \A s \in Source : tree[s].release.build = 0
      <4>1. \A s \in Source : First(s).build = 0
        BY DEF First
      <4> QED
        BY <4>1, <2>1
    <3> QED
      BY <3>1, <3>2 DEF Releases
  <2>3. tree = [f \in File |-> tree[f]]
    <3> DEFINE start(f) == CASE f \in Source -> t[f]
                             [] f \in Input -> i[f]
                             [] f \in Constant -> 1
                             [] f \in Dist -> Generate([x \in Source \cup Input |->
                                                 IF x \in Source THEN t[x] ELSE i[x]], 1)
    <3>1. tree = [f \in File |-> start(f)]
      OBVIOUS
    <3> HIDE DEF start
    <3> QED
      BY <3>1
  <2>4. \A f \in Input : i[f] \in BOOLEAN
    OBVIOUS
  <2>5. \A f \in Input : tree[f] \in BOOLEAN
    BY <1>1, <2>4, Zenon
  <2>6. \A c \in Constant : tree[c] \in Int
    <3>1. 1 \in Int
      OBVIOUS
    <3> QED
      BY <1>1, <3>1, Zenon
  <2> QED
    BY <2>1, <2>2, <2>3, <2>5, <2>6, Zenon DEF Checkout
<1>3. DOMAIN None = {}
  BY DEF None
<1>4. Run
  <2>1. Types
    BY <1>0, <1>2 DEF Types
  <2>2. Domains /\ Patched /\ Versioned /\ Copied /\ Built /\ Whole /\ Kept /\ Renamed
    BY <1>0, <1>3 DEF Domains, Patched, Versioned, Copied, Built, Whole, Kept, Renamed, Replacing
  <2> QED
    BY <2>1, <2>2 DEF Run
<1> DEFINE R == {}
<1>5. R = {} /\ \A a \in R : FALSE
  OBVIOUS
<1> HIDE DEF R
<1>6. recorded = R \cup Templates(tree) /\ R \subseteq Recorded
  BY <1>0, <1>5
<1>7. Ledger
  BY <1>0, <1>2, <1>3, <1>5, <1>6, Recording DEF Ledger
<1>8. \A a, b \in recorded : a.source = b.source =>
        /\ a.source \in Oci /\ a.release = b.release => a.artifact = b.artifact
        /\ a.revision = b.revision => a = b
        /\ a.revision < b.revision => a.release.rank <= b.release.rank
        /\ a.revision <= MaxRevision
  BY <1>2, <1>5, <1>6, Agreement
<1>9. Immutable
  BY <1>8 DEF Immutable, ArtifactsAreImmutable, RevisionsFollowReleases
<1> QED
  BY <1>4, <1>7, <1>9 DEF Inv, Immutable

(* The whole invariant: what the run works with, what the checkout holds   *)
(* at each point of it and what was recorded.                              *)
THEOREM Invariance == Spec => []Inv
<1>1. Inv /\ [Next]_vars => Inv'
  BY RunKept, LedgerKept DEF Inv, Immutable
<1> QED
  BY <1>1, InitInv, PTL DEF Spec

(* A run that fails, or has nothing to do, leaves the checkout as people   *)
(* left it, but for renamed files that were saved after their comparison   *)
(* or whose restoring write failed.                                        *)
THEOREM FailuresTouchNothing == Spec => FailureTouchesNothing
<1>1. ASSUME Inv, Next, phase # "idle", outcome' \in {"error", "unchanged"}, NEW f \in File
      PROVE  tree'[f] = users[f] \/ f \in committed \cap (late \cup again \cup unrestored')
  <2>1. Run
    BY <1>1 DEF Inv
  <2>2. CASE UNCHANGED tree /\ committed = {}
    BY <2>1, <2>2 DEF Run, Kept
  <2>3. CASE RenameFails
    <3>1. /\ phase = "commit"
          /\ \/ f \notin committed /\ tree'[f] = tree[f]
             \/ f \in committed /\ tree'[f] = originals[f]
             \/ f \in committed \cap unrestored'
      BY <2>1, <2>3, RolledBack
    <3>2. f \notin committed => tree[f] = users[f]
      BY <2>1 DEF Run, Kept
    <3>3. f \in committed \ (late \cup again) => originals[f] = users[f]
      BY <2>1, <3>1 DEF Run, Types, Kept
    <3> QED
      BY <3>1, <3>2, <3>3
  <2> QED
    BY <1>1, <2>1, <2>2, <2>3, Ends
<1>2. Inv /\ [Next]_vars =>
        [phase # "idle" /\ outcome' \in {"error", "unchanged"} =>
           \A f \in File : \/ tree'[f] = users[f]
                           \/ f \in committed \cap (late \cup again \cup unrestored')]_vars
  BY <1>1
<1> QED
  BY <1>2, Invariance, PTL DEF Spec, FailureTouchesNothing

(* A run that changes the checkout keeps everything people saved, but for  *)
(* a file saved between its comparison and its rename.                     *)
THEOREM EditsSurvive == Spec => ChangedKeepsEdits
<1>1. ASSUME Inv, Next, phase = "commit", outcome' = "changed"
      PROVE  /\ \A s \in Source \ late : tree'[s].text = users[s].text
             /\ \A f \in Input : tree'[f] = users[f]
             /\ \A c \in Constant \ late : tree'[c] = users[c] + 1
  <2>1. Run /\ phase # "idle"
    BY <1>1 DEF Inv
  <2>2. Replaced
    BY <1>1, <2>1, Ends
  <2>3. /\ UNCHANGED tree /\ Constant \subseteq committed /\ \A f \in Input : f \notin committed
    BY <2>1, <2>2, Left
  <2>4. \A f \in File \ committed : tree[f] = users[f]
    BY <2>1 DEF Run, Kept
  <2>5. \A s \in Source \ late : tree[s].text = users[s].text
    BY <2>1, <2>4, Kinds DEF Run, Renamed
  <2>6. \A c \in Constant \ late : tree[c] = users[c] + 1
    BY <2>1, <2>3 DEF Run, Renamed
  <2> QED
    BY <2>3, <2>4, <2>5, <2>6, Kinds
<1>2. Inv /\ [Next]_vars =>
        [phase = "commit" /\ outcome' = "changed" =>
           /\ \A s \in Source \ late : tree'[s].text = users[s].text
           /\ \A f \in Input : tree'[f] = users[f]
           /\ \A c \in Constant \ late : tree'[c] = users[c] + 1]_vars
  BY <1>1
<1> QED
  BY <1>2, Invariance, PTL DEF Spec, ChangedKeepsEdits

(* One release of an image never gets two digests.                         *)
THEOREM DigestsStay == Spec => []ArtifactsAreImmutable
  BY Invariance, PTL DEF Inv

(* Revisions of a template are its releases, in their order.               *)
THEOREM RevisionsAreOrdered == Spec => []RevisionsFollowReleases
  BY Invariance, PTL DEF Inv

(* The generated files of a run that changed the checkout match what it    *)
(* holds, but for files saved after their rename and inputs it does not    *)
(* replace that were saved after they were copied.                         *)
THEOREM ChangesAreConsistent == Spec => ChangedIsConsistent
<1>1. ASSUME Inv, Next, phase = "commit", outcome' = "changed", ~Consistent(tree')
      PROVE  \/ again # {}
             \/ \E f \in outdated : f \in (Source \cup Input) \ DOMAIN updates
  <2>1. Run /\ phase # "idle"
    BY <1>1 DEF Inv
  <2>2. Replaced
    BY <1>1, <2>1, Ends
  <2> QED
    BY <1>1, <2>1, <2>2, Matches
<1>2. Inv /\ [Next]_vars =>
        [phase = "commit" /\ outcome' = "changed" /\ ~Consistent(tree') =>
           \/ again # {}
           \/ \E f \in outdated : f \in (Source \cup Input) \ DOMAIN updates]_vars
  BY <1>1
<1> QED
  BY <1>2, Invariance, PTL DEF Spec, ChangedIsConsistent
=============================================================================
