--------------------------- MODULE CatalogHistory ---------------------------
(***************************************************************************)
(* What the consumers of the catalog see: the branch main of the remote    *)
(* repository and its version tags, a Go module proxy resolving the tags.  *)
(* main only grows, a tag never moves, and a release is one step that      *)
(* appends a tested commit and tags it with the version it declares.       *)
(*                                                                         *)
(* A commit is the sequence of changes that leads to it, so that "is an    *)
(* ancestor of" is "is a prefix of".                                       *)
(***************************************************************************)
EXTENDS Integers, Sequences

CONSTANTS
  Version,    \* catalog versions: the patch numbers of vX.Y.Z
  Author,     \* who may write a change
  Release     \* upstream releases a change may recommend

(* One change: its author, the version catalog.go declares after it, the   *)
(* upstream release the templates recommend after it, and whether          *)
(* scripts/check_contracts.sh passes on the resulting tree.                *)
Change == [by : Author, version : Version, release : Release, sound : BOOLEAN]
Commit == Seq(Change) \ {<<>>}
NoTag == <<>>

Tip(c) == c[Len(c)]
Ancestor(a, b) == Len(a) <= Len(b) /\ \A i \in 1..Len(a) : a[i] = b[i]

VARIABLES main, tags
vars == <<main, tags>>

Init == main \in Commit /\ tags \in [Version -> Commit \cup {NoTag}]

(* scripts/publish_catalog.sh, as one step. *)
Publish(v) ==
  /\ tags[v] = NoTag
  /\ Ancestor(main, main')
  /\ Tip(main').version = v /\ Tip(main').sound
  /\ tags' = [tags EXCEPT ![v] = main']

(* Somebody else pushes to main. *)
Contribute == main' # main /\ Ancestor(main, main') /\ UNCHANGED tags

(* Somebody else creates a tag. *)
ForeignTag(v) ==
  /\ tags[v] = NoTag
  /\ tags' = [tags EXCEPT ![v] = tags'[v]]
  /\ UNCHANGED main

Next == Contribute \/ \E v \in Version : Publish(v) \/ ForeignTag(v)

Spec == Init /\ [][Next]_vars
=============================================================================
