------------------------------ MODULE Discovery -----------------------------
(***************************************************************************)
(* discover of internal/releasewatcher/discover.go: finding the newest     *)
(* release of an npm package and of an OCI repository whose registry keeps *)
(* changing while it is read.  The tags come in pages, then the newest tag *)
(* is resolved to an image index, then each platform's manifest is fetched *)
(* by its digest; tags may appear, disappear or move between any two of    *)
(* these requests.                                                         *)
(***************************************************************************)
EXTENDS Integers, FiniteSets, FiniteSetsExt

CONSTANTS
  Tag,          \* the tags, numbered in the order a registry lists them
  Eligible,     \* valid versions without '+' and without a market suffix
  Older,        \* Older[a][b]: compareVersions(a, b) < 0
  Image,        \* the images tags may name
  Platform,     \* the platforms of the source
  Provides,     \* the platforms of each image's index
  NoImage,
  PageSize,     \* tags per page
  MaxPages,     \* 200 in the code
  MaxTagCount,  \* 20000 in the code
  MaxChanges    \* bound: changes of the registry during a run

ASSUME TagAssumption ==
  /\ Tag \subseteq Nat \ {0} /\ IsFiniteSet(Tag) /\ Eligible \subseteq Tag /\ NoImage \notin Image
  /\ Older \in [Tag -> [Tag -> BOOLEAN]] /\ DOMAIN Provides = Image
ASSUME BoundAssumption ==
  /\ \A n \in {PageSize, MaxPages, MaxTagCount, MaxChanges} : n \in Nat
  /\ PageSize > 0

VARIABLES
  registry,   \* the image each tag names
  latest,     \* npm: is the package's latest release fit to be used?
  obedient,   \* does the registry page as the OCI specification says?
  pc,         \* npm, token, list, index, manifests, done, failed
  cursor,     \* the page to fetch: the tags after this one
  seen,       \* pages fetched
  listed,     \* tags collected
  total,      \* how many, repetitions included
  version,    \* the tag chosen
  index,      \* the image it named when it was resolved
  artifacts,  \* the digest recorded for each platform so far
  changes,
  (* history: never read by an action of discover *)
  steady,     \* tags that existed all the time since the first page
  named       \* <<tag, image>>: what tags named since the first page

results == <<version, index, artifacts>>
pages == <<cursor, seen, listed, total>>
vars == <<registry, latest, obedient, pc, pages, results, changes, steady, named>>

Present == {t \in Tag : registry[t] # NoImage}
Start == 0

(* A manifest's digest stands for its bytes: the image's, for a platform.  *)
Digest(i, p) == <<i, p>>

Init ==
  /\ registry \in [Tag -> Image \cup {NoImage}]
  /\ latest \in BOOLEAN /\ obedient \in BOOLEAN
  /\ pc = "npm" /\ cursor = Start /\ seen = {} /\ listed = {} /\ total = 0
  /\ version = 0 /\ index = NoImage /\ artifacts = {}
  /\ changes = 0 /\ steady = {} /\ named = {}

Fail == pc' = "failed"

-----------------------------------------------------------------------------

(* discoverNPM: one document holds everything it checks, so nothing can    *)
(* change in between.                                                      *)
DiscoverNPM ==
  /\ pc = "npm"
  /\ pc' = IF latest THEN "token" ELSE "failed"
  /\ UNCHANGED <<registry, latest, obedient, pages, results, changes, steady, named>>

Token ==
  /\ pc = "token" /\ pc' = "list"
  /\ steady' = Present /\ named' = {<<t, registry[t]>> : t \in Present}
  /\ UNCHANGED <<registry, latest, obedient, pages, results, changes>>

(* Mutant of Exceeded: only the number of different pages is bounded. *)
ExceededByCount == Cardinality(seen) >= MaxPages

Exceeded == cursor \in seen \/ Cardinality(seen) >= MaxPages

(* The first PageSize tags after the cursor, and whether more follow.      *)
After == {t \in Present : t > cursor}
Page == {t \in After : Cardinality({u \in After : u <= t}) <= PageSize}
LastOfPage == {t \in Page : \A u \in Page : u <= t}
NextCursor == IF Page = After THEN {Start} ELSE LastOfPage

(* One page.  A registry that pages otherwise may send any link next.      *)
List ==
  /\ pc = "list"
  /\ IF Exceeded
       THEN Fail /\ UNCHANGED pages
       ELSE /\ seen' = seen \cup {cursor}
            /\ listed' = listed \cup Page /\ total' = total + Cardinality(Page)
            /\ cursor' \in IF obedient THEN NextCursor ELSE 0..(MaxPages + 1)
            /\ pc' = IF total' > MaxTagCount THEN "failed"
                     ELSE IF cursor' = Start THEN "choose" ELSE "list"
  /\ UNCHANGED <<registry, latest, obedient, results, changes, steady, named>>

Newest(T) == {t \in T : \A u \in T : ~Older[t][u]}

(* Mutant of Choose: the last tag of the listing is taken for the newest. *)
ChooseLast ==
  /\ pc = "choose"
  /\ IF listed \cap Eligible = {}
       THEN Fail /\ UNCHANGED version
       ELSE version' = Max(listed \cap Eligible) /\ pc' = "index"
  /\ UNCHANGED <<registry, latest, obedient, pages, index, artifacts, changes, steady, named>>

(* Choose the newest eligible tag of those listed.                         *)
Choose ==
  /\ pc = "choose"
  /\ IF listed \cap Eligible = {}
       THEN Fail /\ UNCHANGED version
       ELSE version' \in Newest(listed \cap Eligible) /\ pc' = "index"
  /\ UNCHANGED <<registry, latest, obedient, pages, index, artifacts, changes, steady, named>>

(* Resolve the tag, which may be gone or have moved since it was listed.   *)
Resolve ==
  /\ pc = "index"
  /\ IF registry[version] = NoImage
       THEN Fail /\ UNCHANGED index
       ELSE index' = registry[version] /\ pc' = "manifests"
  /\ UNCHANGED <<registry, latest, obedient, pages, version, artifacts, changes, steady, named>>

Required == Platform \cap Provides[index]
Fetched(p) == \E a \in artifacts : a[1] = p

(* Mutant of FetchManifest: the manifest is fetched by tag, not by digest. *)
FetchManifestByTag(p) ==
  /\ pc = "manifests" /\ p \in Required /\ ~Fetched(p)
  /\ IF registry[version] = NoImage
       THEN Fail /\ UNCHANGED artifacts
       ELSE artifacts' = artifacts \cup {<<p, Digest(registry[version], p)>>} /\ UNCHANGED pc
  /\ UNCHANGED <<registry, latest, obedient, pages, version, index, changes, steady, named>>

(* Fetch a platform's manifest by the digest in the index; other bytes     *)
(* than those of the digest are refused.                                   *)
FetchManifest(p) ==
  /\ pc = "manifests" /\ p \in Required /\ ~Fetched(p)
  /\ artifacts' = artifacts \cup {<<p, Digest(index, p)>>}
  /\ UNCHANGED <<registry, latest, obedient, pc, pages, version, index, changes, steady, named>>

Finish ==
  /\ pc = "manifests" /\ \A p \in Required : Fetched(p)
  /\ pc' = IF \A p \in Platform : Fetched(p) THEN "done" ELSE "failed"
  /\ UNCHANGED <<registry, latest, obedient, pages, results, changes, steady, named>>

Running == pc \notin {"done", "failed"}

(* A request fails, or a response is refused: the whole plan is given up.  *)
RequestFails ==
  /\ Running /\ Fail
  /\ UNCHANGED <<registry, latest, obedient, pages, results, changes, steady, named>>

-----------------------------------------------------------------------------
(* The registry publishes, moves or deletes a tag.                         *)
Change(t, i) ==
  /\ Running /\ changes < MaxChanges /\ registry[t] # i
  /\ changes' = changes + 1
  /\ registry' = [registry EXCEPT ![t] = i]
  /\ steady' = IF i = NoImage THEN steady \ {t} ELSE steady
  /\ named' = IF i = NoImage THEN named ELSE named \cup {<<t, i>>}
  /\ UNCHANGED <<latest, obedient, pc, pages, results>>

Step ==
  \/ DiscoverNPM \/ Token \/ List \/ Choose \/ Resolve \/ Finish
  \/ \E p \in Platform : FetchManifest(p)

Next == Step \/ RequestFails \/ \E t \in Tag, i \in Image \cup {NoImage} : Change(t, i)

Spec == Init /\ [][Next]_vars

(* Every request is answered or times out (the client's 30 seconds).       *)
FairSpec == Spec /\ WF_vars(Step)

-----------------------------------------------------------------------------
(* Properties.                                                             *)

(* A newer release that was there during the whole run is not missed,      *)
(* whatever tags came, went or moved between two pages.                    *)
NoSteadyTagIsMissed ==
  pc = "done" /\ obedient => \A t \in steady \cap Eligible : ~Older[version][t]

(* The artifacts of a plan belong to one image, complete, that the chosen  *)
(* tag named at some moment of the run: a tag that moves between the index *)
(* and the manifests never mixes the platforms of two images.              *)
ArtifactsAreOfOneImage ==
  pc = "done" =>
    \E i \in Image :
      /\ <<version, i>> \in named
      /\ artifacts = {<<p, Digest(i, p)>> : p \in Platform}

(* Every discovery ends, even against a registry that links pages in a     *)
(* circle or without end.                                                  *)
Ends == <>(pc \in {"done", "failed"})
=============================================================================
