---------------------------- MODULE Acquisition -----------------------------
(***************************************************************************)
(* GitHubClient of template/github.go and the functions of sdk/index.cjs:  *)
(* resolving a repository link to a commit, discovering the templates of   *)
(* that commit and capturing one of them, one API request at a time, while *)
(* people push to the repository, move its refs and delete them.  Both     *)
(* clients send the same requests, but for the capture of an offer.  Trees *)
(* and blobs are named by what they contain, so only refs change.          *)
(***************************************************************************)
EXTENDS Integers, FiniteSets, Sequences, SequencesExt, FiniteSetsExt

CONSTANTS
  Commit,
  RootTree,    \* the tree of each commit
  Entries,     \* of each tree: a sequence of records [name, kind, id]
  Size,        \* bytes of each blob
  Ref,         \* names of refs, as sequences of their parts
  Default,     \* the repository's default branch
  NoCommit,
  Input,       \* what may be asked for: records [tail, ref, path]
  EntryNames,  \* redeven-service-template.json and template.json
  Templates,   \* the name "templates"
  MaxDepth,    \* 32 in the code
  MaxFiles,    \* 1024
  MaxBytes,    \* 16 MiB
  MaxOffers,   \* 100
  MaxMoves     \* bound: changes of refs during a run

Tree == DOMAIN Entries
None == <<>>

(* A tree holds each name once.                                            *)
ASSUME ObjectAssumption ==
  /\ RootTree \in [Commit -> Tree] /\ NoCommit \notin Commit
  /\ Default \in Ref /\ None \notin Ref
  /\ Size \in [DOMAIN Size -> Nat]
  /\ \A t \in Tree :
       /\ Entries[t] \in Seq(ToSet(Entries[t]))
       /\ \A e \in ToSet(Entries[t]) :
            /\ e.kind \in {"tree", "blob", "link", "module"}
            /\ e.kind = "tree" => e.id \in Tree
            /\ e.kind = "blob" => e.id \in DOMAIN Size
            /\ \A f \in ToSet(Entries[t]) : e.name = f.name => e = f
ASSUME BoundAssumption ==
  \A n \in {MaxDepth, MaxFiles, MaxBytes, MaxOffers, MaxMoves} : n \in Nat
ASSUME InputAssumption ==
  \A i \in Input : i.tail \in Seq(ToSet(i.tail)) /\ i.path \in Seq(ToSet(i.path))

VARIABLES
  refs,      \* the commit each ref names
  input,     \* what was asked for
  goal,      \* "capture" or "discover"
  client,    \* "go" or "sdk"
  pc,
  cut,       \* parts of a link that are tried as a ref
  source,    \* the resolved source
  at, rest,  \* the directory reached, and the path still to descend
  stack,     \* Capture: entries still to visit, with their paths
  files,     \* Capture: <<path, blob>>
  bytes,
  todo,      \* Discover: directories still to look into
  offers,    \* Discover: paths of the templates found
  moves,
  (* history: never read by an action of the client *)
  named,     \* <<ref, commit>>: what refs named during the run
  steady     \* refs that existed all the time

world == <<refs, moves, named, steady>>
walk == <<stack, files, bytes>>
listing == <<client, todo, offers>>
resolution == <<input, cut, source>>
vars == <<world, resolution, goal, pc, at, rest, walk, listing>>

NoSource == [ref |-> None, path |-> None, commit |-> NoCommit]

Init ==
  /\ refs \in [Ref -> Commit \cup {NoCommit}]
  /\ input \in Input /\ goal \in {"capture", "discover"} /\ client \in {"go", "sdk"}
  /\ pc = "repository"
  /\ cut = 0 /\ source = NoSource /\ at = None /\ rest = None
  /\ stack = <<>> /\ files = {} /\ bytes = 0 /\ todo = {} /\ offers = {} /\ moves = 0
  /\ steady = {r \in Ref : refs[r] # NoCommit} /\ named = {<<r, refs[r]>> : r \in steady}

Fail == pc' = "failed"

-----------------------------------------------------------------------------
(* Resolve.                                                                *)

(* A path that names an entrypoint stands for its directory.               *)
DirectoryPath(p) == IF p # None /\ Last(p) \in EntryNames THEN Front(p) ELSE p

(* The repository's identity and default branch; a link and separate ref   *)
(* and path fields are not accepted together, but a path that names the    *)
(* repository's own entrypoint is none.                                    *)
Repository ==
  /\ pc = "repository"
  /\ IF input.tail # None
       THEN IF input.ref # None \/ DirectoryPath(input.path) # None
              THEN Fail /\ UNCHANGED <<cut, source>>
              ELSE pc' = "link" /\ cut' = Len(input.tail) /\ UNCHANGED source
       ELSE /\ pc' = "ref" /\ UNCHANGED cut
            /\ source' = [source EXCEPT !.ref = IF input.ref = None THEN Default ELSE input.ref]
  /\ UNCHANGED <<world, input, goal, at, rest, walk, listing>>

CommitOf(r) == IF r \in Ref THEN refs[r] ELSE NoCommit

Resolved(r, p) ==
  /\ source' = [ref |-> r, path |-> p, commit |-> CommitOf(r)]
  /\ at' = RootTree[CommitOf(r)] /\ rest' = p /\ pc' = "directory"

(* Mutant of TryLink: the shortest prefix that is a ref is taken. *)
TryLinkShortest ==
  /\ pc = "link"
  /\ LET found == {n \in 1..Len(input.tail) : CommitOf(SubSeq(input.tail, 1, n)) # NoCommit}
     IN IF found = {}
          THEN Fail /\ UNCHANGED <<source, at, rest>>
          ELSE Resolved(SubSeq(input.tail, 1, Min(found)),
                        DirectoryPath(SubSeq(input.tail, Min(found) + 1, Len(input.tail))))
  /\ UNCHANGED <<world, input, cut, goal, walk, listing>>

(* One turn of the loop over the prefixes of a link, the longest first.    *)
TryLink ==
  /\ pc = "link"
  /\ LET candidate == SubSeq(input.tail, 1, cut)
         remainder == SubSeq(input.tail, cut + 1, Len(input.tail))
     IN \/ cut = 0 /\ Fail /\ UNCHANGED <<cut, source, at, rest>>
        \/ /\ cut > 0 /\ CommitOf(candidate) = NoCommit
           /\ cut' = cut - 1 /\ UNCHANGED <<pc, source, at, rest>>
        \/ /\ cut > 0 /\ CommitOf(candidate) # NoCommit
           /\ Resolved(candidate, DirectoryPath(remainder)) /\ UNCHANGED cut
  /\ UNCHANGED <<world, input, goal, walk, listing>>

(* A ref given separately, or the default branch.                          *)
ResolveRef ==
  /\ pc = "ref"
  /\ IF CommitOf(source.ref) = NoCommit
       THEN Fail /\ UNCHANGED <<source, at, rest>>
       ELSE Resolved(source.ref, DirectoryPath(input.path))
  /\ UNCHANGED <<world, input, cut, goal, walk, listing>>

-----------------------------------------------------------------------------
(* directory, and the walk of CaptureResolved.                             *)

Under(t, p) == [n \in 1..Len(Entries[t]) |-> [path |-> Append(p, Entries[t][n].name), entry |-> Entries[t][n]]]
Subtrees(t, name) == {e \in ToSet(Entries[t]) : e.name = name /\ e.kind = "tree"}

(* Mutant of Descend: the tree is looked up by the ref once more. *)
DescendByRef ==
  /\ pc = "directory" /\ rest # None
  /\ LET t == IF CommitOf(source.ref) # NoCommit /\ rest = source.path
                THEN RootTree[CommitOf(source.ref)] ELSE at
         found == Subtrees(t, Head(rest))
     IN IF found = {} THEN Fail /\ UNCHANGED <<at, rest>>
        ELSE \E e \in found : at' = e.id /\ rest' = Tail(rest) /\ UNCHANGED pc
  /\ UNCHANGED <<world, resolution, goal, walk, listing>>

(* Descend one part of the path.                                           *)
Descend ==
  /\ pc = "directory" /\ rest # None
  /\ LET found == Subtrees(at, Head(rest))
     IN IF found = {} THEN Fail /\ UNCHANGED <<at, rest>>
        ELSE \E e \in found : at' = e.id /\ rest' = Tail(rest) /\ UNCHANGED pc
  /\ UNCHANGED <<world, resolution, goal, walk, listing>>

Arrive ==
  /\ pc = "directory" /\ rest = None
  /\ IF goal = "capture"
       THEN pc' = "walk" /\ stack' = Under(at, None)
       ELSE pc' = "discover" /\ UNCHANGED stack
  /\ UNCHANGED <<world, resolution, goal, at, rest, files, bytes, listing>>

(* Visit a directory: its entries come next, unless it lies too deep.      *)
VisitTree ==
  /\ pc = "walk" /\ stack # <<>> /\ Head(stack).entry.kind = "tree"
  /\ IF Len(Head(stack).path) > MaxDepth
       THEN Fail /\ UNCHANGED stack
       ELSE /\ stack' = Under(Head(stack).entry.id, Head(stack).path) \o Tail(stack)
            /\ UNCHANGED pc
  /\ UNCHANGED <<world, resolution, goal, at, rest, files, bytes, listing>>

(* Mutant of TooMuch: the file being visited is not counted. *)
TooMuchBefore(b) == bytes > MaxBytes \/ Cardinality(files) > MaxFiles

TooMuch(b) == bytes + Size[b] > MaxBytes \/ Cardinality(files) >= MaxFiles

(* Visit a file, whose bytes are fetched by their digest and checked.      *)
VisitBlob ==
  /\ pc = "walk" /\ stack # <<>> /\ Head(stack).entry.kind = "blob"
  /\ LET b == Head(stack).entry.id
     IN IF TooMuch(b)
          THEN Fail /\ UNCHANGED walk
          ELSE /\ files' = files \cup {<<Head(stack).path, b>>} /\ bytes' = bytes + Size[b]
               /\ stack' = Tail(stack) /\ UNCHANGED pc
  /\ UNCHANGED <<world, resolution, goal, at, rest, listing>>

(* A symbolic link or a submodule is refused.                              *)
VisitOther ==
  /\ pc = "walk" /\ stack # <<>> /\ Head(stack).entry.kind \in {"link", "module"}
  /\ Fail
  /\ UNCHANGED <<world, resolution, goal, at, rest, walk, listing>>

(* Digest refuses an empty source.                                         *)
Captured ==
  /\ pc = "walk" /\ stack = <<>>
  /\ pc' = IF files = {} THEN "failed" ELSE "captured"
  /\ UNCHANGED <<world, resolution, goal, at, rest, walk, listing>>

-----------------------------------------------------------------------------
(* Discover, and the host that has one of the templates found captured.    *)

(* To GitHub a symbolic link is a blob; only Capture looks at its mode.     *)
IsTemplate(t) == \E e \in ToSet(Entries[t]) : e.kind \in {"blob", "link"} /\ e.name \in EntryNames

Children(t) == {e \in ToSet(Entries[t]) : e.kind = "tree"}

(* Is the directory a template itself?  Otherwise list its templates/.     *)
Discover ==
  /\ pc = "discover"
  /\ IF IsTemplate(at)
       THEN offers' = {source.path} /\ pc' = "offered" /\ UNCHANGED todo
       ELSE /\ UNCHANGED offers
            /\ todo' = UNION {Children(e.id) : e \in Subtrees(at, Templates)}
            /\ pc' = IF \E e \in Subtrees(at, Templates) : Len(Entries[e.id]) > MaxOffers
                       THEN "failed" ELSE "children"
  /\ UNCHANGED <<world, resolution, goal, client, at, rest, walk>>

Child(e) ==
  /\ pc = "children" /\ e \in todo
  /\ todo' = todo \ {e}
  /\ offers' = IF IsTemplate(e.id) THEN offers \cup {source.path \o <<Templates, e.name>>} ELSE offers
  /\ UNCHANGED <<world, resolution, goal, client, pc, at, rest, walk>>

Listed ==
  /\ pc = "children" /\ todo = {} /\ pc' = "offered"
  /\ UNCHANGED <<world, resolution, goal, at, rest, walk, listing>>

(* Mutant of CaptureResolved: the ref is resolved once more. *)
CaptureAgain(p) ==
  /\ client = "go" /\ pc = "offered" /\ p \in offers
  /\ CommitOf(source.ref) # NoCommit /\ Resolved(source.ref, p)
  /\ goal' = "capture" /\ UNCHANGED <<world, input, cut, walk, listing>>

(* CaptureResolved with the commit that was discovered and a path chosen   *)
(* among those offered.                                                    *)
CaptureResolved(p) ==
  /\ client = "go" /\ pc = "offered" /\ p \in offers
  /\ source' = [source EXCEPT !.path = p] /\ at' = RootTree[source.commit] /\ rest' = p
  /\ pc' = "directory" /\ goal' = "capture"
  /\ UNCHANGED <<world, input, cut, walk, listing>>

(* captureSource of the SDK, which takes a repository, a ref and a path    *)
(* and resolves them like any other.                                       *)
CaptureSource(p) ==
  /\ client = "sdk" /\ pc = "offered" /\ p \in offers
  /\ input' = [tail |-> None, ref |-> source.ref, path |-> p] /\ source' = NoSource
  /\ pc' = "repository" /\ goal' = "capture"
  /\ UNCHANGED <<world, cut, at, rest, walk, listing>>

(* A request fails, or an answer is refused.                               *)
RequestFails ==
  /\ pc \notin {"captured", "failed", "offered"} /\ Fail
  /\ UNCHANGED <<world, resolution, goal, at, rest, walk, listing>>

(* Somebody pushes to, moves, creates or deletes a ref.                    *)
MoveRef(r, c) ==
  /\ pc \notin {"captured", "failed"} /\ moves < MaxMoves /\ refs[r] # c
  /\ moves' = moves + 1 /\ refs' = [refs EXCEPT ![r] = c]
  /\ named' = IF c = NoCommit THEN named ELSE named \cup {<<r, c>>}
  /\ steady' = IF c = NoCommit THEN steady \ {r} ELSE steady
  /\ UNCHANGED <<resolution, goal, pc, at, rest, walk, listing>>

Next ==
  \/ Repository \/ TryLink \/ ResolveRef \/ Descend \/ Arrive
  \/ VisitTree \/ VisitBlob \/ VisitOther \/ Captured
  \/ Discover \/ Listed \/ RequestFails
  \/ \E e \in todo : Child(e)
  \/ \E p \in offers : CaptureResolved(p) \/ CaptureSource(p)
  \/ \E r \in Ref, c \in Commit \cup {NoCommit} : MoveRef(r, c)

Spec == Init /\ [][Next]_vars

-----------------------------------------------------------------------------
(* What a path and a directory hold, by definition.                        *)

TreeAt(t, p) ==
  LET to[n \in 0..Len(p)] ==
        IF n = 0 THEN t ELSE (CHOOSE e \in Subtrees(to[n - 1], p[n]) : TRUE).id
  IN to[Len(p)]

(* What lies in or below each tree and is no tree itself, down to a depth: *)
(* pairs of its path and its entry.                                        *)
Own(t) == {<<<<e.name>>, e>> : e \in ToSet(Entries[t]) \ Children(t)}
Deeper(below) ==
  [t \in Tree |-> Own(t) \cup UNION {{<<<<e.name>> \o x[1], x[2]>> : x \in below[e.id]} : e \in Children(t)}]
LeavesBelow[n \in 0..(MaxDepth + 1)] == IF n = 0 THEN [t \in Tree |-> Own(t)] ELSE Deeper(LeavesBelow[n - 1])
Leaves(t) == LeavesBelow[MaxDepth + 1][t]

FilesOf(t) == {<<x[1], x[2].id>> : x \in {y \in Leaves(t) : y[2].kind = "blob"}}
HasLink(t) == \E x \in Leaves(t) : x[2].kind \in {"link", "module"}
Bytes(F) == MapThenSumSet(LAMBDA f : Size[f[2]], F)

(* Properties.                                                             *)

(* "Both SDKs resolve repository, ref, and directory to an exact commit"   *)
(* (README.md:116) and "Reject symlinks" (:132), within the "Published     *)
(* limits" (:131): however refs move during the run, a snapshot of either  *)
(* client holds exactly the files its directory has in one commit, the one *)
(* it records, which its ref named at some moment of the run; and no       *)
(* directory that is too large, or has a link, becomes a snapshot.         *)
SnapshotIsOfOneCommit ==
  pc = "captured" =>
    LET directory == TreeAt(RootTree[source.commit], source.path)
    IN /\ <<source.ref, source.commit>> \in named
       /\ files = FilesOf(directory)
       /\ ~HasLink(directory)
       /\ Cardinality(FilesOf(directory)) <= MaxFiles
       /\ Bytes(FilesOf(directory)) <= MaxBytes

(* A link is read with the longest ref it can mean: no longer prefix of it *)
(* was a ref all the time.                                                 *)
LongestRefIsMeant ==
  input.tail # None /\ source.commit # NoCommit =>
    \A n \in 1..Len(input.tail) :
      SubSeq(input.tail, 1, n) \in steady => n <= Len(source.ref)

(* A template that was offered is what gets captured, of the same commit:  *)
(* the source of an offer stays the same, and what is captured from it is  *)
(* a template.  The SDK has no CaptureResolved and promises less: what it  *)
(* captures is of a commit the ref named meanwhile, and may be no template *)
(* any more.                                                               *)
OffersStayGood ==
  /\ [][client = "go" /\ pc = "offered" => source'.commit = source.commit]_vars
  /\ [](client = "go" /\ pc = "captured" /\ offers # {} => \E f \in files : Len(f[1]) = 1 /\ f[1][1] \in EntryNames)
=============================================================================
