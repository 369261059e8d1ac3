------------------------- MODULE AcquisitionProofs --------------------------
(***************************************************************************)
(* What resolving a link, discovering templates and capturing a source     *)
(* guarantee for any repository, any limits, any link and any number of    *)
(* moves of its refs.  The leaves of a tree, the tree at the end of a path *)
(* and the bytes of a set of files are recursive definitions: what is      *)
(* needed of them is proved first, by induction over the naturals.         *)
(***************************************************************************)
EXTENDS Acquisition, SequenceTheorems, FiniteSetTheorems, WellFoundedInduction, TLAPS

-----------------------------------------------------------------------------
(* The invariant, in parts.                                                *)

Resolving == {"repository", "link", "ref"}
Holding == {"directory", "walk", "captured", "discover", "children", "offered"}
Arrived == Holding \ {"directory"}

Deepest == MaxDepth + 1
Sized(F) == \A x \in F : Size[x[2]] \in Nat

Entry == UNION {ToSet(Entries[t]) : t \in Tree}
Word == {e.name : e \in Entry} \cup {Templates} \cup UNION {ToSet(i.tail) \cup ToSet(i.path) : i \in Input}
Item == [path : {p \in Seq(Word) : Len(p) \in 1..Deepest}, entry : Entry]

TypeOK ==
  /\ refs \in [Ref -> Commit \cup {NoCommit}]
  /\ input.tail \in Seq(Word) /\ input.path \in Seq(Word)
  /\ pc \in Resolving \cup Holding \cup {"failed"}
  /\ pc = "link" => cut \in 0..Len(input.tail)
  /\ source = [ref |-> source.ref, path |-> source.path, commit |-> source.commit]
  /\ source.path \in Seq(Word) /\ source.commit \in Commit \cup {NoCommit}
  /\ pc \in Holding => source.commit \in Commit /\ at \in Tree
  /\ offers \subseteq Seq(Word) /\ todo \subseteq Entry
  /\ IsFiniteSet(files)

(* The history: a ref that was there all the time is there now, and what a *)
(* ref names now it named during the run.                                  *)
History ==
  /\ \A r \in steady : r \in Ref /\ refs[r] # NoCommit
  /\ \A r \in Ref : refs[r] # NoCommit => <<r, refs[r]>> \in named

Unresolved == source.commit = NoCommit

(* The loop over the prefixes of a link passes over no ref that was there  *)
(* all the time; what is resolved is what the ref named.                   *)
Resolution ==
  /\ pc \in Resolving => Unresolved
  /\ pc \in Holding => ~Unresolved
  /\ pc = "link" =>
       \A n \in (cut + 1)..Len(input.tail) : SubSeq(input.tail, 1, n) \notin steady
  /\ pc = "ref" => input.tail = None
  /\ ~Unresolved => <<source.ref, source.commit>> \in named
  /\ LongestRefIsMeant

Past == History /\ Resolution

(* The tree at a path of the commit that is resolved.                      *)
Asked(p) == TreeAt(RootTree[source.commit], p)

(* The directory reached lies as far along the path as has been descended. *)
Descent ==
  /\ pc = "directory" =>
       \E k \in 0..Len(source.path) :
         rest = SubSeq(source.path, k + 1, Len(source.path)) /\ at = Asked(SubSeq(source.path, 1, k))
  /\ pc \in Arrived => at = Asked(source.path)

(* The leaves of a directory that was met at a path, those an entry of the *)
(* stack stands for, and those the whole stack stands for.                 *)
Shown(t, p) == {<<p \o x[1], x[2]>> : x \in LeavesBelow[Deepest - Len(p)][t]}
Standing(s) == IF s.entry.kind = "tree" THEN Shown(s.entry.id, s.path) ELSE {<<s.path, s.entry>>}
Ahead(s) == UNION {Standing(s[n]) : n \in 1..Len(s)}

(* What the walk has taken so far stays within the limits.                 *)
Counting ==
  /\ pc \notin {"walk", "captured", "failed"} => files = {} /\ bytes = 0
  /\ Sized(files) /\ bytes \in Nat
  /\ Bytes(files) <= bytes /\ bytes <= MaxBytes /\ Cardinality(files) <= MaxFiles

(* Every leaf of the directory is ahead or has been taken, and nothing else *)
(* is or has.                                                              *)
Visiting ==
  /\ pc = "walk" =>
       /\ stack \in Seq(Item)
       /\ Ahead(stack) \subseteq Leaves(at)
       /\ \A x \in Leaves(at) : x \in Ahead(stack) \/ (x[2].kind = "blob" /\ <<x[1], x[2].id>> \in files)
       /\ files \subseteq FilesOf(at)
  /\ pc = "captured" => files = FilesOf(at) /\ ~HasLink(at)

(* What was offered is a template, and what is captured was offered.       *)
Offered ==
  /\ pc \in {"discover", "children", "offered"} => goal # "capture"
  /\ pc \in {"walk", "captured"} => goal = "capture"
  /\ pc = "children" => \A e \in todo : \E d \in Subtrees(at, Templates) : e \in Children(d.id)
  /\ client = "go" /\ offers # {} =>
       /\ pc \notin Resolving
       /\ \A p \in offers : IsTemplate(Asked(p))
       /\ goal = "capture" /\ pc # "failed" => source.path \in offers

-----------------------------------------------------------------------------
(* Induction over the naturals, from their least members.                  *)

(* A set of naturals has a least member.                                   *)
LEMMA LeastMember ==
  ASSUME NEW T, T \subseteq Nat, T # {}
  PROVE  \E m \in T : \A k \in T : m <= k
<1> DEFINE R == OpToRel(<, Nat)
<1>1. IsWellFoundedOn(R, Nat)
  BY NatLessThanWellFounded
<1>2. \A x, y \in Nat : x < y => <<x, y>> \in R
  BY DEF OpToRel
<1> HIDE DEF R
<1>3. \E x \in T : \A y \in T : ~ (<<y, x>> \in R)
  BY <1>1, WFMin
<1>4. PICK m \in T : \A y \in T : ~ (<<y, m>> \in R)
  BY <1>3
<1>5. ASSUME NEW k \in T PROVE m <= k
  <2>1. k \in Nat /\ m \in Nat /\ ~(k < m)
    BY <1>2, <1>4
  <2> QED
    BY <2>1
<1> QED
  BY <1>5

(* A set that holds 0 and the successor of each of its members holds all.  *)
LEMMA Upwards ==
  ASSUME NEW S, 0 \in S, \A n \in Nat : n \in S => n + 1 \in S
  PROVE  Nat \subseteq S
<1> DEFINE T == Nat \ S
<1>1. SUFFICES ASSUME T # {} PROVE FALSE
  OBVIOUS
<1>2. PICK m \in T : \A k \in T : m <= k
  BY <1>1, LeastMember
<1>3. m \in Nat /\ m \notin S /\ m # 0
  BY <1>2
<1>4. m - 1 \in Nat /\ m - 1 < m /\ (m - 1) + 1 = m
  BY <1>3
<1>5. m - 1 \notin T
  BY <1>2, <1>4
<1> QED
  BY <1>3, <1>4, <1>5

LEMMA SameFunction ==
  ASSUME NEW D, NEW f, NEW g, f = [n \in D |-> f[n]], g = [n \in D |-> g[n]], \A n \in D : f[n] = g[n]
  PROVE  f = g
OBVIOUS

-----------------------------------------------------------------------------
(* The leaves below a tree: a function as LeavesBelow defines it, down to  *)
(* a depth m, exists for each m; so LeavesBelow is one.                    *)

BelowTo(m, g) ==
  g = [n \in 0..m |-> IF n = 0 THEN [t \in Tree |-> Own(t)] ELSE Deeper(g[n - 1])]

LEMMA BelowExists == \A m \in Nat : \E g : BelowTo(m, g)
<1> DEFINE S == {m \in Nat : \E g : BelowTo(m, g)}
<1>1. 0 \in S
  <2> DEFINE g == [n \in 0..0 |-> [t \in Tree |-> Own(t)]]
  <2>1. BelowTo(0, g)
    BY DEF BelowTo
  <2> QED
    BY <2>1
<1>2. ASSUME NEW m \in Nat, m \in S PROVE m + 1 \in S
  <2>1. PICK g : BelowTo(m, g)
    BY <1>2
  <2> DEFINE h == [n \in 0..(m + 1) |-> IF n = m + 1 THEN Deeper(g[m]) ELSE g[n]]
  <2>2. ASSUME NEW n \in 0..(m + 1)
        PROVE  h[n] = IF n = 0 THEN [t \in Tree |-> Own(t)] ELSE Deeper(h[n - 1])
    <3>1. CASE n = m + 1
      BY <3>1
    <3>2. CASE n # m + 1
      <4>1. n \in 0..m /\ h[n] = g[n]
        BY <3>2
      <4>2. g[n] = IF n = 0 THEN [t \in Tree |-> Own(t)] ELSE Deeper(g[n - 1])
        BY <2>1, <4>1 DEF BelowTo
      <4>3. n # 0 => h[n - 1] = g[n - 1]
        BY <4>1
      <4> QED
        BY <4>1, <4>2, <4>3
    <3> QED
      BY <3>1, <3>2
  <2>3. h = [n \in 0..(m + 1) |-> IF n = 0 THEN [t \in Tree |-> Own(t)] ELSE Deeper(h[n - 1])]
    <3> DEFINE k == [n \in 0..(m + 1) |-> IF n = 0 THEN [t \in Tree |-> Own(t)] ELSE Deeper(h[n - 1])]
    <3>1. h = [n \in 0..(m + 1) |-> h[n]] /\ k = [n \in 0..(m + 1) |-> k[n]]
      OBVIOUS
    <3>2. \A n \in 0..(m + 1) : h[n] = k[n]
      BY <2>2
    <3>3. h = k
      <4> HIDE DEF h, k
      <4> QED
        BY <3>1, <3>2, SameFunction
    <3> QED
      BY <3>3
  <2>4. BelowTo(m + 1, h)
    BY <2>3 DEF BelowTo
  <2> QED
    BY <2>4
<1> HIDE DEF S
<1>3. Nat \subseteq S
  BY <1>1, <1>2, Upwards
<1> QED
  BY <1>3 DEF S

(* What the function of leaves holds at a depth, by what it holds above it. *)
LEMMA LeavesBelowDef ==
  /\ \A t \in Tree : LeavesBelow[0][t] = Own(t)
  /\ \A n \in 1..Deepest, t \in Tree :
       \A z : z \in LeavesBelow[n][t] <=>
               z \in Own(t) \/ \E e \in Children(t) : \E x \in LeavesBelow[n - 1][e.id] : z = <<<<e.name>> \o x[1], x[2]>>
<1>1. Deepest \in Nat
  BY BoundAssumption DEF Deepest
<1>2. \E g : BelowTo(Deepest, g)
  BY <1>1, BelowExists
<1>3. LeavesBelow = CHOOSE g : BelowTo(Deepest, g)
  BY DEF LeavesBelow, BelowTo, Deepest
<1>4. BelowTo(Deepest, LeavesBelow)
  BY <1>2, <1>3
<1>5. 0 \in 0..Deepest /\ \A n \in 1..Deepest : n \in 0..Deepest /\ n # 0
  BY <1>1
<1>6. LeavesBelow[0] = [t \in Tree |-> Own(t)]
  BY <1>4, <1>5 DEF BelowTo
<1>7. ASSUME NEW n \in 1..Deepest, NEW t \in Tree, NEW z
      PROVE  z \in LeavesBelow[n][t] <=>
               z \in Own(t) \/ \E e \in Children(t) : \E x \in LeavesBelow[n - 1][e.id] : z = <<<<e.name>> \o x[1], x[2]>>
  <2>1. LeavesBelow[n] = Deeper(LeavesBelow[n - 1])
    BY <1>4, <1>5 DEF BelowTo
  <2> DEFINE b == LeavesBelow[n - 1]
  <2> DEFINE Through(e) == {<<<<e.name>> \o x[1], x[2]>> : x \in b[e.id]}
  <2>2. LeavesBelow[n][t] = Own(t) \cup UNION {Through(e) : e \in Children(t)}
    BY <2>1 DEF Deeper
  <2>3. \A e : z \in Through(e) <=> \E x \in b[e.id] : z = <<<<e.name>> \o x[1], x[2]>>
    OBVIOUS
  <2> HIDE DEF b, Through
  <2>4. z \in LeavesBelow[n][t] <=> z \in Own(t) \/ \E e \in Children(t) : z \in Through(e)
    BY <2>2
  <2> QED
    BY <2>3, <2>4 DEF b
<1> QED
  BY <1>6, <1>7

-----------------------------------------------------------------------------
(* The tree a path leads to.                                               *)

(* One step of TreeAt, and a function of its steps, as far as m.           *)
Stepped(u, x) == (CHOOSE e \in Subtrees(u, x) : TRUE).id
Way(t, p, m, g) == g = [n \in 0..m |-> IF n = 0 THEN t ELSE Stepped(g[n - 1], p[n])]

LEMMA WayExists ==
  ASSUME NEW t, NEW p
  PROVE  \A m \in Nat : \E g : Way(t, p, m, g)
<1> DEFINE S == {m \in Nat : \E g : Way(t, p, m, g)}
<1>1. 0 \in S
  <2> DEFINE g == [n \in 0..0 |-> t]
  <2>1. Way(t, p, 0, g)
    BY DEF Way
  <2> QED
    BY <2>1
<1>2. ASSUME NEW m \in Nat, m \in S PROVE m + 1 \in S
  <2>1. PICK g : Way(t, p, m, g)
    BY <1>2
  <2> DEFINE h == [n \in 0..(m + 1) |-> IF n = m + 1 THEN Stepped(g[m], p[m + 1]) ELSE g[n]]
  <2>2. ASSUME NEW n \in 0..(m + 1)
        PROVE  h[n] = IF n = 0 THEN t ELSE Stepped(h[n - 1], p[n])
    <3>1. CASE n = m + 1
      BY <3>1
    <3>2. CASE n # m + 1
      <4>1. n \in 0..m /\ h[n] = g[n]
        BY <3>2
      <4>2. g[n] = IF n = 0 THEN t ELSE Stepped(g[n - 1], p[n])
        BY <2>1, <4>1 DEF Way
      <4>3. n # 0 => h[n - 1] = g[n - 1]
        BY <4>1
      <4> QED
        BY <4>1, <4>2, <4>3
    <3> QED
      BY <3>1, <3>2
  <2>3. Way(t, p, m + 1, h)
    <3> DEFINE k == [n \in 0..(m + 1) |-> IF n = 0 THEN t ELSE Stepped(h[n - 1], p[n])]
    <3>1. h = [n \in 0..(m + 1) |-> h[n]] /\ k = [n \in 0..(m + 1) |-> k[n]]
      OBVIOUS
    <3>2. \A n \in 0..(m + 1) : h[n] = k[n]
      BY <2>2
    <3>3. h = k
      <4> HIDE DEF h, k
      <4> QED
        BY <3>1, <3>2, SameFunction
    <3> QED
      BY <3>3 DEF Way
  <2> QED
    BY <2>3
<1> HIDE DEF S
<1>3. Nat \subseteq S
  BY <1>1, <1>2, Upwards
<1> QED
  BY <1>3 DEF S

(* Two ways agree as far as their paths do.                                *)
LEMMA WaysAgree ==
  ASSUME NEW t, NEW p, NEW q, NEW m \in Nat, NEW k \in Nat, NEW g, NEW h, m <= k,
         Way(t, p, m, g), Way(t, q, k, h), \A n \in 1..m : p[n] = q[n]
  PROVE  g[m] = h[m]
<1> DEFINE S == {n \in Nat : n <= m => g[n] = h[n]}
<1>1. 0 \in S
  <2>1. g[0] = t /\ h[0] = t
    BY DEF Way
  <2> QED
    BY <2>1
<1>2. ASSUME NEW n \in Nat, n \in S PROVE n + 1 \in S
  <2>1. SUFFICES ASSUME n + 1 <= m PROVE g[n + 1] = h[n + 1]
    OBVIOUS
  <2>2. n + 1 \in 1..m /\ n + 1 \in 0..m /\ n + 1 \in 0..k /\ n + 1 # 0 /\ (n + 1) - 1 = n
    BY <2>1
  <2>3. g[n + 1] = Stepped(g[n], p[n + 1]) /\ h[n + 1] = Stepped(h[n], q[n + 1])
    BY <2>2 DEF Way
  <2>4. g[n] = h[n]
    BY <1>2, <2>1
  <2> QED
    BY <2>2, <2>3, <2>4
<1> HIDE DEF S
<1>3. m \in S
  BY <1>1, <1>2, Upwards
<1> QED
  BY <1>3 DEF S

LEMMA TreeAtWay ==
  ASSUME NEW t, NEW p, Len(p) \in Nat
  PROVE  \E g : Way(t, p, Len(p), g) /\ TreeAt(t, p) = g[Len(p)]
<1> DEFINE g == CHOOSE g : Way(t, p, Len(p), g)
<1>1. Way(t, p, Len(p), g)
  BY WayExists
<1>2. TreeAt(t, p) = g[Len(p)]
  BY DEF TreeAt, Way, Stepped
<1> QED
  BY <1>1, <1>2

LEMMA TreeAtNone ==
  ASSUME NEW t
  PROVE  TreeAt(t, <<>>) = t
<1>1. Len(<<>>) = 0
  OBVIOUS
<1>2. PICK g : Way(t, <<>>, 0, g) /\ TreeAt(t, <<>>) = g[0]
  BY <1>1, TreeAtWay
<1> QED
  BY <1>2 DEF Way

LEMMA TreeAtAppend ==
  ASSUME NEW t, NEW W, NEW p \in Seq(W), NEW x \in W
  PROVE  TreeAt(t, Append(p, x)) = Stepped(TreeAt(t, p), x)
<1> DEFINE q == Append(p, x)
           m == Len(p)
<1>1. /\ m \in Nat /\ Len(q) = m + 1 /\ q[m + 1] = x
      /\ \A n \in 1..m : p[n] = q[n]
  OBVIOUS
<1> HIDE DEF q
<1>2. PICK g : Way(t, p, m, g) /\ TreeAt(t, p) = g[m]
  BY <1>1, TreeAtWay
<1>3. PICK h : Way(t, q, m + 1, h) /\ TreeAt(t, q) = h[m + 1]
  BY <1>1, TreeAtWay
<1> HIDE DEF m
<1>4. g[m] = h[m]
  <2>1. m <= m + 1 /\ m + 1 \in Nat
    BY <1>1
  <2> QED
    BY <1>1, <1>2, <1>3, <2>1, WaysAgree
<1>5. m + 1 \in 0..(m + 1) /\ m + 1 # 0 /\ (m + 1) - 1 = m
  BY <1>1
<1>6. h[m + 1] = Stepped(h[m], q[m + 1])
  BY <1>3, <1>5 DEF Way
<1> QED
  BY <1>1, <1>2, <1>3, <1>4, <1>6 DEF q

-----------------------------------------------------------------------------
(* The bytes of a set of files.                                            *)

(* The sum as FiniteSetsExt defines it: over the subsets in D, one picked  *)
(* member at a time.                                                       *)
Pick(s) == CHOOSE x \in s : TRUE
Small(F, m) == {u \in SUBSET F : Cardinality(u) <= m}
Adding(D, g) == g = [s \in D |-> IF s = {} THEN 0 ELSE Size[Pick(s)[2]] + g[s \ {Pick(s)}]]

LEMMA Smaller ==
  ASSUME NEW F, IsFiniteSet(F), NEW s \in SUBSET F
  PROVE  /\ IsFiniteSet(s) /\ Cardinality(s) \in Nat /\ (Cardinality(s) = 0 <=> s = {})
         /\ \A x \in s : s \ {x} \in SUBSET F /\ Cardinality(s \ {x}) = Cardinality(s) - 1
<1>1. IsFiniteSet(s)
  BY FS_Subset
<1> QED
  BY <1>1, FS_CardinalityType, FS_EmptySet, FS_RemoveElement

LEMMA PickMember == ASSUME NEW s, s # {} PROVE Pick(s) \in s
BY DEF Pick

LEMMA AddingExists ==
  ASSUME NEW F, IsFiniteSet(F)
  PROVE  \A m \in Nat : \E g : Adding(Small(F, m), g)
<1> DEFINE S == {m \in Nat : \E g : Adding(Small(F, m), g)}
<1>1. 0 \in S
  <2> DEFINE g == [s \in Small(F, 0) |-> 0]
  <2>1. \A s \in Small(F, 0) : s = {}
    BY Smaller DEF Small
  <2>2. Adding(Small(F, 0), g)
    BY <2>1 DEF Adding
  <2> QED
    BY <2>2
<1>2. ASSUME NEW m \in Nat, m \in S PROVE m + 1 \in S
  <2>1. PICK g : Adding(Small(F, m), g)
    BY <1>2
  <2> DEFINE h == [s \in Small(F, m + 1) |->
                     IF Cardinality(s) = m + 1 THEN Size[Pick(s)[2]] + g[s \ {Pick(s)}] ELSE g[s]]
  <2>2. ASSUME NEW s \in Small(F, m + 1)
        PROVE  h[s] = IF s = {} THEN 0 ELSE Size[Pick(s)[2]] + h[s \ {Pick(s)}]
    <3>1. s \in SUBSET F /\ Cardinality(s) \in Nat /\ Cardinality(s) <= m + 1
      BY Smaller DEF Small
    <3>2. ASSUME s # {}
          PROVE  /\ s \ {Pick(s)} \in SUBSET F
                 /\ Cardinality(s \ {Pick(s)}) = Cardinality(s) - 1
      BY <3>1, <3>2, Smaller, PickMember
    <3>3. ASSUME s # {} PROVE s \ {Pick(s)} \in Small(F, m + 1) /\ s \ {Pick(s)} \in Small(F, m)
                              /\ h[s \ {Pick(s)}] = g[s \ {Pick(s)}]
      <4>1. Cardinality(s \ {Pick(s)}) <= m /\ Cardinality(s \ {Pick(s)}) # m + 1
            /\ Cardinality(s \ {Pick(s)}) <= m + 1
        BY <3>1, <3>2, <3>3
      <4> QED
        BY <3>2, <3>3, <4>1 DEF Small
    <3>4. CASE Cardinality(s) = m + 1
      <4>1. s # {}
        BY <3>1, <3>4, Smaller
      <4> QED
        BY <3>3, <3>4, <4>1
    <3>5. CASE Cardinality(s) # m + 1
      <4>1. s \in Small(F, m) /\ h[s] = g[s]
        BY <3>1, <3>5 DEF Small
      <4>2. g[s] = IF s = {} THEN 0 ELSE Size[Pick(s)[2]] + g[s \ {Pick(s)}]
        BY <2>1, <4>1 DEF Adding
      <4> HIDE DEF h
      <4> QED
        BY <4>1, <4>2, <3>3
    <3> QED
      BY <3>4, <3>5
  <2>3. Adding(Small(F, m + 1), h)
    <3> DEFINE k == [s \in Small(F, m + 1) |-> IF s = {} THEN 0 ELSE Size[Pick(s)[2]] + h[s \ {Pick(s)}]]
    <3>1. h = [s \in Small(F, m + 1) |-> h[s]] /\ k = [s \in Small(F, m + 1) |-> k[s]]
      OBVIOUS
    <3>2. \A s \in Small(F, m + 1) : h[s] = k[s]
      BY <2>2
    <3>3. h = k
      <4> HIDE DEF h, k
      <4> QED
        BY <3>1, <3>2, SameFunction
    <3> QED
      BY <3>3 DEF Adding
  <2> QED
    BY <2>3
<1> HIDE DEF S
<1>3. Nat \subseteq S
  BY <1>1, <1>2, Upwards
<1> QED
  BY <1>3 DEF S

LEMMA BytesAdding ==
  ASSUME NEW F, IsFiniteSet(F)
  PROVE  \E g : Adding(SUBSET F, g) /\ Bytes(F) = g[F]
<1> DEFINE g == CHOOSE g : Adding(SUBSET F, g)
<1>1. Small(F, Cardinality(F)) = SUBSET F /\ Cardinality(F) \in Nat
  BY FS_Subset, FS_CardinalityType DEF Small
<1>2. Adding(SUBSET F, g)
  <2>1. \E h : Adding(Small(F, Cardinality(F)), h)
    BY <1>1, AddingExists
  <2>2. \E h : Adding(SUBSET F, h)
    BY <1>1, <2>1
  <2> QED
    BY <2>2
<1>3. Bytes(F) = g[F]
  BY DEF Bytes, MapThenSumSet, MapThenFoldSet, Adding, Pick
<1> QED
  BY <1>2, <1>3

(* The sum over a set is the same, whichever sets it is defined over.      *)
LEMMA AddingAgrees ==
  ASSUME NEW F, NEW G, IsFiniteSet(F), NEW f, NEW g, Adding(SUBSET F, f), Adding(SUBSET G, g)
  PROVE  \A s \in SUBSET F : s \in SUBSET G => f[s] = g[s]
<1> DEFINE S == {m \in Nat : \A s \in SUBSET F : s \in SUBSET G /\ Cardinality(s) = m => f[s] = g[s]}
<1>1. ASSUME NEW s \in SUBSET F, s \in SUBSET G
      PROVE  /\ f[s] = (IF s = {} THEN 0 ELSE Size[Pick(s)[2]] + f[s \ {Pick(s)}])
             /\ g[s] = (IF s = {} THEN 0 ELSE Size[Pick(s)[2]] + g[s \ {Pick(s)}])
  BY <1>1 DEF Adding
<1>2. 0 \in S
  BY <1>1, Smaller
<1>3. ASSUME NEW m \in Nat, m \in S PROVE m + 1 \in S
  <2>1. SUFFICES ASSUME NEW s \in SUBSET F, s \in SUBSET G, Cardinality(s) = m + 1 PROVE f[s] = g[s]
    OBVIOUS
  <2>2. s # {}
    BY <2>1, Smaller
  <2>3. s \ {Pick(s)} \in SUBSET F /\ s \ {Pick(s)} \in SUBSET G /\ Cardinality(s \ {Pick(s)}) = m
    BY <2>1, <2>2, Smaller, PickMember
  <2>4. f[s \ {Pick(s)}] = g[s \ {Pick(s)}]
    BY <1>3, <2>3
  <2> QED
    BY <1>1, <2>1, <2>2, <2>4
<1> HIDE DEF S
<1>4. Nat \subseteq S
  BY <1>2, <1>3, Upwards
<1> QED
  BY <1>4, Smaller DEF S

LEMMA BytesOfPick ==
  ASSUME NEW F, IsFiniteSet(F)
  PROVE  Bytes(F) = IF F = {} THEN 0 ELSE Size[Pick(F)[2]] + Bytes(F \ {Pick(F)})
<1>1. PICK f : Adding(SUBSET F, f) /\ Bytes(F) = f[F]
  BY BytesAdding
<1>2. f[F] = IF F = {} THEN 0 ELSE Size[Pick(F)[2]] + f[F \ {Pick(F)}]
  BY <1>1 DEF Adding
<1> DEFINE G == F \ {Pick(F)}
<1>3. IsFiniteSet(G)
  BY FS_RemoveElement
<1>4. PICK g : Adding(SUBSET G, g) /\ Bytes(G) = g[G]
  BY <1>3, BytesAdding
<1>5. f[G] = g[G]
  <2>1. G \in SUBSET F /\ G \in SUBSET G
    OBVIOUS
  <2> HIDE DEF G
  <2> QED
    BY <1>1, <1>4, <2>1, AddingAgrees
<1> QED
  BY <1>1, <1>2, <1>4, <1>5


LEMMA BytesType ==
  ASSUME NEW F, IsFiniteSet(F), Sized(F)
  PROVE  Bytes(F) \in Nat
<1> DEFINE S == {m \in Nat : \A s \in SUBSET F : Cardinality(s) = m => Bytes(s) \in Nat}
<1>1. 0 \in S
  <2>1. Bytes({}) = 0
    BY BytesOfPick, FS_EmptySet
  <2> QED
    BY <2>1, Smaller
<1>2. ASSUME NEW m \in Nat, m \in S PROVE m + 1 \in S
  <2>1. SUFFICES ASSUME NEW s \in SUBSET F, Cardinality(s) = m + 1 PROVE Bytes(s) \in Nat
    OBVIOUS
  <2>2. s # {} /\ IsFiniteSet(s)
    BY <2>1, Smaller
  <2>3. Pick(s) \in s
    BY <2>2, PickMember
  <2>4. Bytes(s \ {Pick(s)}) \in Nat /\ Size[Pick(s)[2]] \in Nat
    BY <1>2, <2>1, <2>3, Smaller DEF Sized
  <2>5. Bytes(s) = Size[Pick(s)[2]] + Bytes(s \ {Pick(s)})
    BY <2>2, BytesOfPick
  <2> QED
    BY <2>4, <2>5
<1> HIDE DEF S
<1>3. Nat \subseteq S
  BY <1>1, <1>2, Upwards
<1> QED
  BY <1>3, FS_CardinalityType DEF S

(* Whichever file is added last, the sum is the same.                      *)
LEMMA BytesOfAny ==
  ASSUME NEW F, IsFiniteSet(F), Sized(F)
  PROVE  \A x \in F : Bytes(F) = Size[x[2]] + Bytes(F \ {x})
<1> DEFINE Good(s) == \A x \in s : Bytes(s) = Size[x[2]] + Bytes(s \ {x})
           S == {m \in Nat : \A s \in SUBSET F : Cardinality(s) = m => Good(s)}
<1>1. 0 \in S
  BY Smaller
<1>2. ASSUME NEW m \in Nat, m \in S PROVE m + 1 \in S
  <2>1. SUFFICES ASSUME NEW s \in SUBSET F, Cardinality(s) = m + 1, NEW x \in s
                 PROVE  Bytes(s) = Size[x[2]] + Bytes(s \ {x})
    OBVIOUS
  <2> DEFINE y == Pick(s)
             r == (s \ {x}) \ {y}
  <2>2. s # {} /\ IsFiniteSet(s)
    BY <2>1, Smaller
  <2>3. y \in s
    BY <2>2, PickMember
  <2>4. Bytes(s) = Size[y[2]] + Bytes(s \ {y})
    BY <2>2, BytesOfPick
  <2> HIDE DEF y
  <2>5. CASE x = y
    BY <2>4, <2>5
  <2>6. CASE x # y
    <3>1. r = (s \ {y}) \ {x} /\ x \in s \ {y} /\ y \in s \ {x}
      BY <2>1, <2>3, <2>6
    <3>2. Good(s \ {x}) /\ Good(s \ {y})
      BY <1>2, <2>1, <2>3, Smaller
    <3>3. Bytes(s \ {y}) = Size[x[2]] + Bytes(r) /\ Bytes(s \ {x}) = Size[y[2]] + Bytes(r)
      BY <3>1, <3>2
    <3>4. IsFiniteSet(r) /\ Sized(r)
      BY <2>2, FS_RemoveElement DEF Sized
    <3>5. Bytes(r) \in Nat /\ Size[x[2]] \in Nat /\ Size[y[2]] \in Nat
      BY <2>1, <2>3, <3>4, BytesType DEF Sized
    <3> QED
      BY <2>4, <3>3, <3>5
  <2> QED
    BY <2>5, <2>6
<1> HIDE DEF S
<1>3. Nat \subseteq S
  BY <1>1, <1>2, Upwards
<1> QED
  BY <1>3, FS_CardinalityType DEF S

-----------------------------------------------------------------------------
(* Trees and stacks.                                                       *)

LEMMA EntryType ==
  ASSUME NEW t \in Tree
  PROVE  /\ Entries[t] \in Seq(ToSet(Entries[t])) /\ Len(Entries[t]) \in Nat
         /\ ToSet(Entries[t]) = {Entries[t][n] : n \in 1..Len(Entries[t])}
         /\ \A e \in ToSet(Entries[t]) :
              /\ e \in Entry /\ e.name \in Word /\ e.kind \in {"tree", "blob", "link", "module"}
              /\ e.kind = "tree" => e.id \in Tree
              /\ e.kind = "blob" => Size[e.id] \in Nat
              /\ \A f \in ToSet(Entries[t]) : e.name = f.name => e = f
<1>1. Entries[t] \in Seq(ToSet(Entries[t]))
  BY ObjectAssumption
<1>2. Len(Entries[t]) \in Nat /\ DOMAIN Entries[t] = 1..Len(Entries[t])
  BY <1>1, LenProperties
<1>3. ToSet(Entries[t]) = {Entries[t][n] : n \in 1..Len(Entries[t])}
  BY <1>2 DEF ToSet
<1>4. ASSUME NEW e \in ToSet(Entries[t])
      PROVE  /\ e \in Entry /\ e.name \in Word /\ e.kind \in {"tree", "blob", "link", "module"}
             /\ e.kind = "tree" => e.id \in Tree
             /\ e.kind = "blob" => Size[e.id] \in Nat
             /\ \A f \in ToSet(Entries[t]) : e.name = f.name => e = f
  BY ObjectAssumption DEF Entry, Word
<1> QED
  BY <1>1, <1>2, <1>3, <1>4

LEMMA PrefixWord ==
  ASSUME NEW p \in Seq(Word), NEW q \in Seq(Word), NEW w \in Word
  PROVE  /\ <<w>> \in Seq(Word) /\ p \o q \in Seq(Word)
         /\ Append(p, w) \in Seq(Word) /\ Len(Append(p, w)) = Len(p) + 1 /\ Len(p) \in Nat
         /\ Append(p, w) = p \o <<w>>
         /\ Append(p, w) \o q = p \o (<<w>> \o q)
<1>1. <<w>> \in Seq(Word) /\ Append(p, w) \in Seq(Word) /\ Len(Append(p, w)) = Len(p) + 1 /\ Len(p) \in Nat
  OBVIOUS
<1>2. Append(p, w) = p \o <<w>>
  OBVIOUS
<1>3. (p \o <<w>>) \o q = p \o (<<w>> \o q)
  BY <1>1, ConcatAssociative
<1>4. p \o q \in Seq(Word)
  BY ConcatProperties
<1> QED
  BY <1>1, <1>2, <1>3, <1>4

LEMMA LeafType == \A n \in 0..Deepest, t \in Tree : LeavesBelow[n][t] \subseteq Seq(Word) \X Entry
<1> DEFINE S == {n \in Nat : n <= Deepest => \A t \in Tree : LeavesBelow[n][t] \subseteq Seq(Word) \X Entry}
<1>1. ASSUME NEW t \in Tree PROVE Own(t) \subseteq Seq(Word) \X Entry
  BY EntryType, PrefixWord DEF Own
<1>2. 0 \in S
  BY <1>1, LeavesBelowDef
<1>3. ASSUME NEW m \in 1..Deepest, \A t \in Tree : LeavesBelow[m - 1][t] \subseteq Seq(Word) \X Entry, NEW t \in Tree
      PROVE  LeavesBelow[m][t] \subseteq Seq(Word) \X Entry
  <2>1. ASSUME NEW e \in Children(t), NEW x \in LeavesBelow[m - 1][e.id]
        PROVE  <<<<e.name>> \o x[1], x[2]>> \in Seq(Word) \X Entry
    <3>1. e \in ToSet(Entries[t]) /\ e.id \in Tree /\ e.name \in Word
      BY EntryType DEF Children
    <3>2. x \in Seq(Word) \X Entry
      BY <1>3, <3>1
    <3>3. x[1] \in Seq(Word) /\ x[2] \in Entry
      BY <3>2
    <3>4. <<e.name>> \in Seq(Word)
      BY <3>1, <3>3, PrefixWord
    <3>5. <<e.name>> \o x[1] \in Seq(Word)
      BY <3>1, <3>3, <3>4, PrefixWord
    <3> QED
      BY <3>3, <3>5
  <2>2. ASSUME NEW z \in LeavesBelow[m][t] PROVE z \in Seq(Word) \X Entry
    <3>1. CASE z \in Own(t)
      BY <1>1, <3>1
    <3>2. CASE \E e \in Children(t) : \E x \in LeavesBelow[m - 1][e.id] : z = <<<<e.name>> \o x[1], x[2]>>
      BY <2>1, <3>2
    <3>3. z \in Own(t) \/ \E e \in Children(t) : \E x \in LeavesBelow[m - 1][e.id] : z = <<<<e.name>> \o x[1], x[2]>>
      <4>1. \A y : y \in LeavesBelow[m][t] <=>
              y \in Own(t) \/ \E e \in Children(t) : \E x \in LeavesBelow[m - 1][e.id] : y = <<<<e.name>> \o x[1], x[2]>>
        BY LeavesBelowDef
      <4> QED
        BY <2>2, <4>1
    <3> QED
      BY <3>1, <3>2, <3>3
  <2> QED
    BY <2>2
<1>4. ASSUME NEW n \in Nat, n \in S PROVE n + 1 \in S
  <2>1. SUFFICES ASSUME n + 1 <= Deepest
                 PROVE  \A t \in Tree : LeavesBelow[n + 1][t] \subseteq Seq(Word) \X Entry
    OBVIOUS
  <2>2. n + 1 \in 1..Deepest /\ (n + 1) - 1 = n /\ n <= Deepest
    BY <2>1, BoundAssumption DEF Deepest
  <2>3. \A t \in Tree : LeavesBelow[(n + 1) - 1][t] \subseteq Seq(Word) \X Entry
    BY <1>4, <2>2
  <2> QED
    BY <1>3, <2>2, <2>3
<1> HIDE DEF S
<1>5. Nat \subseteq S
  BY <1>2, <1>4, Upwards
<1> QED
  BY <1>5 DEF S

(* What is shown of a directory stands on the stack with its entries.      *)
LEMMA UnderShown ==
  ASSUME NEW t \in Tree, NEW p \in Seq(Word), Len(p) <= MaxDepth
  PROVE  Under(t, p) \in Seq(Item) /\ Ahead(Under(t, p)) = Shown(t, p)
<1> DEFINE Of(e) == [path |-> Append(p, e.name), entry |-> e]
           k == Deepest - Len(p)
<1>1. /\ Len(p) \in Nat /\ k \in 1..Deepest /\ k - 1 \in 0..Deepest
      /\ Deepest - (Len(p) + 1) = k - 1 /\ Len(p) + 1 \in 1..Deepest
  BY BoundAssumption DEF Deepest
<1>2. ASSUME NEW e \in ToSet(Entries[t]) PROVE Of(e) \in Item
  <2>1. e \in Entry /\ e.name \in Word
    BY EntryType
  <2>2. Append(p, e.name) \in Seq(Word) /\ Len(Append(p, e.name)) = Len(p) + 1
    BY <2>1, PrefixWord
  <2> QED
    BY <1>1, <2>1, <2>2 DEF Item
<1>3. \A n \in 1..Len(Entries[t]) : Under(t, p)[n] = Of(Entries[t][n])
  BY DEF Under
<1>4. Under(t, p) \in Seq(Item) /\ Len(Under(t, p)) = Len(Entries[t])
  <2>1. Under(t, p) \in [1..Len(Entries[t]) -> Item] /\ Len(Entries[t]) \in Nat
    BY <1>2, EntryType DEF Under
  <2> QED
    BY <2>1
<1> HIDE DEF Of, k
<1>5. Ahead(Under(t, p)) = UNION {Standing(Of(e)) : e \in ToSet(Entries[t])}
  <2>1. \A n \in 1..Len(Entries[t]) : Standing(Under(t, p)[n]) = Standing(Of(Entries[t][n]))
    BY <1>3
  <2>2. Ahead(Under(t, p)) = UNION {Standing(Of(Entries[t][n])) : n \in 1..Len(Entries[t])}
    BY <1>4, <2>1 DEF Ahead
  <2>3. ToSet(Entries[t]) = {Entries[t][n] : n \in 1..Len(Entries[t])}
    BY EntryType
  <2>4. ASSUME NEW x \in UNION {Standing(Of(Entries[t][n])) : n \in 1..Len(Entries[t])}
        PROVE  x \in UNION {Standing(Of(e)) : e \in ToSet(Entries[t])}
    BY <2>3
  <2>5. ASSUME NEW e \in ToSet(Entries[t])
        PROVE  Standing(Of(e)) \subseteq UNION {Standing(Of(Entries[t][n])) : n \in 1..Len(Entries[t])}
    BY <2>3
  <2> QED
    BY <2>2, <2>4, <2>5
<1>6. \A z : z \in LeavesBelow[k][t] <=>
        z \in Own(t) \/ \E e \in Children(t) : \E x \in LeavesBelow[k - 1][e.id] : z = <<<<e.name>> \o x[1], x[2]>>
  BY <1>1, LeavesBelowDef
<1>7. ASSUME NEW e \in ToSet(Entries[t]), e.kind # "tree"
      PROVE  Standing(Of(e)) = {<<p \o <<e.name>>, e>>} /\ <<<<e.name>>, e>> \in Own(t)
  <2>1. Append(p, e.name) = p \o <<e.name>>
    BY EntryType, PrefixWord
  <2> QED
    BY <1>7, <2>1 DEF Standing, Of, Own, Children
<1>8. ASSUME NEW e \in ToSet(Entries[t]), e.kind = "tree"
      PROVE  Standing(Of(e)) = {<<p \o (<<e.name>> \o x[1]), x[2]>> : x \in LeavesBelow[k - 1][e.id]} /\ e \in Children(t)
  <2>1. e.name \in Word /\ e.id \in Tree
    BY <1>8, EntryType
  <2>2. Standing(Of(e)) = {<<Append(p, e.name) \o x[1], x[2]>> : x \in LeavesBelow[k - 1][e.id]}
    <3>1. Len(Append(p, e.name)) = Len(p) + 1
      BY <2>1, PrefixWord
    <3> QED
      BY <1>1, <1>8, <3>1 DEF Standing, Of, Shown
  <2>3. \A x \in LeavesBelow[k - 1][e.id] : Append(p, e.name) \o x[1] = p \o (<<e.name>> \o x[1])
    <3>1. \A x \in LeavesBelow[k - 1][e.id] : x[1] \in Seq(Word)
      BY <1>1, <2>1, LeafType
    <3> QED
      BY <2>1, <3>1, PrefixWord
  <2>4. e \in Children(t)
    BY <1>8 DEF Children
  <2> QED
    BY <2>2, <2>3, <2>4
<1>9. ASSUME NEW e \in ToSet(Entries[t]) PROVE Standing(Of(e)) \subseteq Shown(t, p)
  <2>1. CASE e.kind # "tree"
    <3> DEFINE z == <<<<e.name>>, e>>
    <3>1. z \in LeavesBelow[k][t] /\ Standing(Of(e)) = {<<p \o z[1], z[2]>>}
      BY <1>6, <1>7, <2>1
    <3> HIDE DEF z
    <3> QED
      BY <3>1 DEF Shown, k
  <2>2. CASE e.kind = "tree"
    <3>1. SUFFICES ASSUME NEW x \in LeavesBelow[k - 1][e.id]
                   PROVE  <<p \o (<<e.name>> \o x[1]), x[2]>> \in Shown(t, p)
      <4>1. Standing(Of(e)) = {<<p \o (<<e.name>> \o x[1]), x[2]>> : x \in LeavesBelow[k - 1][e.id]}
        BY <1>8, <2>2
      <4> HIDE DEF Shown, Standing
      <4> QED
        BY <4>1
    <3> DEFINE z == <<<<e.name>> \o x[1], x[2]>>
    <3>2. z \in LeavesBelow[k][t]
      BY <1>6, <1>8, <2>2, <3>1
    <3>3. <<p \o z[1], z[2]>> = <<p \o (<<e.name>> \o x[1]), x[2]>>
      OBVIOUS
    <3> HIDE DEF z
    <3>4. <<p \o z[1], z[2]>> \in Shown(t, p)
      BY <3>2 DEF Shown, k
    <3> QED
      BY <3>3, <3>4
  <2> QED
    BY <2>1, <2>2
<1>10. ASSUME NEW y \in Shown(t, p) PROVE \E e \in ToSet(Entries[t]) : y \in Standing(Of(e))
  <2>1. PICK z \in LeavesBelow[k][t] : y = <<p \o z[1], z[2]>>
    BY DEF Shown, k
  <2>2. CASE z \in Own(t)
    <3>1. PICK e \in ToSet(Entries[t]) \ Children(t) : z = <<<<e.name>>, e>>
      BY <2>2 DEF Own
    <3>2. e.kind # "tree"
      BY DEF Children
    <3>3. y = <<p \o <<e.name>>, e>>
      BY <2>1, <3>1
    <3> QED
      BY <1>7, <3>2, <3>3
  <2>3. CASE z \notin Own(t)
    <3>0. PICK e \in Children(t) : \E x \in LeavesBelow[k - 1][e.id] : z = <<<<e.name>> \o x[1], x[2]>>
      BY <1>6, <2>1, <2>3
    <3>1. PICK x \in LeavesBelow[k - 1][e.id] : z = <<<<e.name>> \o x[1], x[2]>>
      BY <3>0
    <3>2. e \in ToSet(Entries[t]) /\ e.kind = "tree"
      BY DEF Children
    <3>3. y = <<p \o (<<e.name>> \o x[1]), x[2]>>
      BY <2>1, <3>1
    <3> QED
      BY <1>8, <3>2, <3>3
  <2> QED
    BY <2>2, <2>3
<1> QED
  BY <1>4, <1>5, <1>9, <1>10

(* Met at no path, a directory shows its own leaves.                       *)
LEMMA LeavesShown ==
  ASSUME NEW t \in Tree
  PROVE  Shown(t, None) = Leaves(t)
<1>1. Len(None) = 0 /\ Deepest \in Nat /\ Deepest - 0 = Deepest
  BY BoundAssumption DEF None, Deepest
<1>2. \A x \in LeavesBelow[Deepest][t] : <<None \o x[1], x[2]>> = x
  <2>1. ASSUME NEW x \in LeavesBelow[Deepest][t] PROVE <<None \o x[1], x[2]>> = x
    <3>1. x \in Seq(Word) \X Entry
      BY <1>1, LeafType
    <3>2. None \o x[1] = x[1]
      BY <3>1, ConcatEmptySeq DEF None
    <3> QED
      BY <3>1, <3>2
  <2> QED
    BY <2>1
<1>3. Shown(t, None) = LeavesBelow[Deepest][t]
  BY <1>1, <1>2 DEF Shown
<1> QED
  BY <1>3 DEF Leaves, Deepest

LEMMA AheadOfStack ==
  ASSUME NEW s \in Seq(Item)
  PROVE  /\ s = <<>> => Ahead(s) = {}
         /\ s # <<>> => Ahead(s) = Standing(Head(s)) \cup Ahead(Tail(s)) /\ Head(s) \in Item /\ Tail(s) \in Seq(Item)
         /\ \A r \in Seq(Item) : r \o s \in Seq(Item) /\ Ahead(r \o s) = Ahead(r) \cup Ahead(s)
<1>1. s = <<>> => Ahead(s) = {}
  BY DEF Ahead
<1>2. ASSUME s # <<>>
      PROVE Ahead(s) = Standing(Head(s)) \cup Ahead(Tail(s)) /\ Head(s) \in Item /\ Tail(s) \in Seq(Item)
  <2>1. /\ Head(s) = s[1] /\ Tail(s) \in Seq(Item) /\ Len(Tail(s)) = Len(s) - 1 /\ Len(s) \in Nat /\ Len(s) # 0
        /\ \A n \in 1..Len(Tail(s)) : Tail(s)[n] = s[n + 1]
        /\ Head(s) \in Item
    BY <1>2
  <2>2. ASSUME NEW x \in Ahead(s) PROVE x \in Standing(Head(s)) \cup Ahead(Tail(s))
    <3>1. PICK n \in 1..Len(s) : x \in Standing(s[n])
      BY DEF Ahead
    <3>2. n # 1 => n - 1 \in 1..Len(Tail(s)) /\ (n - 1) + 1 = n
      BY <2>1
    <3> QED
      BY <2>1, <3>1, <3>2 DEF Ahead
  <2>3. 1 \in 1..Len(s) /\ \A n \in 1..Len(Tail(s)) : n + 1 \in 1..Len(s)
    BY <2>1
  <2>4. Standing(Head(s)) \cup Ahead(Tail(s)) \subseteq Ahead(s)
    BY <2>1, <2>3 DEF Ahead
  <2> QED
    BY <2>1, <2>2, <2>4
<1>3. ASSUME NEW r \in Seq(Item) PROVE r \o s \in Seq(Item) /\ Ahead(r \o s) = Ahead(r) \cup Ahead(s)
  <2>1. /\ r \o s \in Seq(Item) /\ Len(r \o s) = Len(r) + Len(s) /\ Len(r) \in Nat /\ Len(s) \in Nat
        /\ \A n \in 1..(Len(r) + Len(s)) : (r \o s)[n] = IF n <= Len(r) THEN r[n] ELSE s[n - Len(r)]
    BY ConcatProperties, LenProperties
  <2>2. ASSUME NEW x \in Ahead(r \o s) PROVE x \in Ahead(r) \cup Ahead(s)
    <3>1. PICK n \in 1..(Len(r) + Len(s)) : x \in Standing((r \o s)[n])
      BY <2>1 DEF Ahead
    <3>2. n <= Len(r) => n \in 1..Len(r)
      BY <2>1
    <3>3. ~(n <= Len(r)) => n - Len(r) \in 1..Len(s)
      BY <2>1
    <3> QED
      BY <2>1, <3>1, <3>2, <3>3 DEF Ahead
  <2>3. \A n \in 1..Len(r) : n \in 1..Len(r \o s) /\ (r \o s)[n] = r[n]
    BY <2>1
  <2>4. \A n \in 1..Len(s) : n + Len(r) \in 1..Len(r \o s) /\ (r \o s)[n + Len(r)] = s[n]
    BY <2>1
  <2>5. Ahead(r) \cup Ahead(s) \subseteq Ahead(r \o s)
    BY <2>3, <2>4 DEF Ahead
  <2> QED
    BY <2>1, <2>2, <2>5
<1> QED
  BY <1>1, <1>2, <1>3

(* Names are unique in a tree, so the subtree of a name is the one chosen. *)
LEMMA SteppedUnique ==
  ASSUME NEW t \in Tree, NEW x, NEW e \in Subtrees(t, x)
  PROVE  Stepped(t, x) = e.id /\ e.id \in Tree
<1>1. e \in ToSet(Entries[t]) /\ e.kind = "tree" /\ \A f \in Subtrees(t, x) : f \in ToSet(Entries[t]) /\ f.name = e.name
  BY DEF Subtrees
<1>2. \A f \in Subtrees(t, x) : f = e
  BY <1>1, EntryType
<1> QED
  BY <1>1, <1>2, EntryType DEF Stepped

LEMMA ChildrenType ==
  ASSUME NEW t \in Tree
  PROVE  \A e \in Children(t) : e \in Entry /\ e.id \in Tree /\ e.name \in Word
BY EntryType DEF Children

LEMMA InputType ==
  ASSUME NEW i \in Input
  PROVE  i.tail \in Seq(Word) /\ i.path \in Seq(Word)
<1>1. ToSet(i.tail) \subseteq Word /\ ToSet(i.path) \subseteq Word
  BY DEF Word
<1>2. i.tail \in Seq(ToSet(i.tail)) /\ i.path \in Seq(ToSet(i.path))
  BY InputAssumption
<1> QED
  BY <1>1, <1>2, SeqMonotonic

LEMMA DirectoryPathType ==
  ASSUME NEW p \in Seq(Word)
  PROVE  DirectoryPath(p) \in Seq(Word)
<1>1. p # None => Front(p) \in Seq(Word)
  <2>1. Len(p) \in Nat /\ \A i \in 1..(Len(p) - 1) : p[i] \in Word
    OBVIOUS
  <2> QED
    BY <2>1, SubSeqProperties DEF Front
<1> QED
  BY <1>1 DEF DirectoryPath

-----------------------------------------------------------------------------
LEMMA TypeInit == Init => TypeOK
<1> SUFFICES ASSUME Init PROVE TypeOK
  OBVIOUS
<1>1. /\ refs \in [Ref -> Commit \cup {NoCommit}] /\ input \in Input /\ pc = "repository"
      /\ source = [ref |-> None, path |-> None, commit |-> NoCommit]
      /\ offers = {} /\ todo = {} /\ files = {}
  BY DEF Init, NoSource
<1>2. source.ref = None /\ source.path = None /\ source.commit = NoCommit /\ None \in Seq(Word)
  BY <1>1 DEF None
<1> QED
  BY <1>1, <1>2, InputType, FS_EmptySet DEF TypeOK, Resolving, Holding

(* A step that neither resolves nor finds anything.                        *)
LEMMA TypeStays ==
  ASSUME TypeOK, UNCHANGED <<refs, input, source, at, offers, todo, files>>,
         \/ pc' = "failed" \/ pc' = pc
         \/ pc' \in Resolving \ {"link"} \/ (cut' \in 0..Len(input.tail) /\ pc' = "link")
         \/ (pc \in Holding /\ pc' \in Holding),
         cut' = cut \/ cut' \in 0..Len(input.tail)
  PROVE  TypeOK'
BY DEF TypeOK, Resolving, Holding

LEMMA TypeResolved ==
  ASSUME TypeOK, NEW r, NEW p \in Seq(Word), CommitOf(r) # NoCommit, Resolved(r, p),
         UNCHANGED <<refs, input, offers, todo, files>>
  PROVE  TypeOK'
<1>1. CommitOf(r) \in Commit /\ RootTree[CommitOf(r)] \in Tree
  BY ObjectAssumption DEF CommitOf, TypeOK
<1>2. source' = [ref |-> r, path |-> p, commit |-> CommitOf(r)] /\ pc' = "directory" /\ at' = RootTree[CommitOf(r)]
  BY DEF Resolved
<1>3. source'.ref = r /\ source'.path = p /\ source'.commit = CommitOf(r)
  BY <1>2
<1> QED
  BY <1>1, <1>2, <1>3 DEF TypeOK, Holding

LEMMA TypeKeeps == TypeOK /\ [Next]_vars => TypeOK'
<1> SUFFICES ASSUME TypeOK, [Next]_vars PROVE TypeOK'
  OBVIOUS
<1>1. CASE Repository
  <2>1. UNCHANGED <<refs, input, at, offers, todo, files>> /\ pc' \in {"failed", "link", "ref"}
    BY <1>1 DEF Repository, Fail, world, walk, listing
  <2>2. CASE UNCHANGED source /\ ((UNCHANGED cut /\ Fail) \/ (cut' = Len(input.tail) /\ pc' = "link"))
    <3>1. Len(input.tail) \in 0..Len(input.tail)
      BY DEF TypeOK
    <3> QED
      BY <2>1, <2>2, <3>1, TypeStays DEF Fail
  <2>3. CASE pc' = "ref" /\ source' = [source EXCEPT !.ref = IF input.ref = None THEN Default ELSE input.ref]
    <3>1. /\ source'.path = source.path /\ source'.commit = source.commit
          /\ source' = [ref |-> source'.ref, path |-> source'.path, commit |-> source'.commit]
      BY <2>3 DEF TypeOK
    <3> QED
      BY <2>1, <2>3, <3>1 DEF TypeOK, Resolving, Holding
  <2> QED
    BY <1>1, <2>2, <2>3 DEF Repository, Fail
<1>2. CASE TryLink
  <2> DEFINE candidate == SubSeq(input.tail, 1, cut)
             remainder == SubSeq(input.tail, cut + 1, Len(input.tail))
  <2>1. UNCHANGED <<refs, input, offers, todo, files>> /\ cut \in 0..Len(input.tail) /\ Len(input.tail) \in Nat
    BY <1>2 DEF TryLink, world, walk, listing, TypeOK
  <2>2. CASE UNCHANGED <<source, at>> /\ ((UNCHANGED cut /\ Fail) \/ (cut > 0 /\ cut' = cut - 1 /\ UNCHANGED pc))
    <3>1. cut' = cut \/ cut' \in 0..Len(input.tail)
      BY <2>1, <2>2
    <3> QED
      BY <2>1, <2>2, <3>1, TypeStays DEF Fail
  <2>3. CASE cut > 0 /\ CommitOf(candidate) # NoCommit /\ Resolved(candidate, DirectoryPath(remainder))
    <3>1. remainder \in Seq(Word)
      <4>1. cut + 1 \in Int /\ \A i \in (cut + 1)..Len(input.tail) : input.tail[i] \in Word
        BY <2>1 DEF TypeOK
      <4> QED
        BY <2>1, <4>1, SubSeqProperties
    <3> HIDE DEF candidate, remainder
    <3> QED
      BY <2>1, <2>3, <3>1, DirectoryPathType, TypeResolved
  <2> QED
    BY <1>2, <2>2, <2>3 DEF TryLink, Fail
<1>3. CASE ResolveRef
  <2>1. UNCHANGED <<refs, input, cut, offers, todo, files>>
    BY <1>3 DEF ResolveRef, world, walk, listing
  <2>2. CASE Fail /\ UNCHANGED <<source, at>>
    BY <2>1, <2>2, TypeStays DEF Fail
  <2>3. CASE CommitOf(source.ref) # NoCommit /\ Resolved(source.ref, DirectoryPath(input.path))
    <3>1. DirectoryPath(input.path) \in Seq(Word)
      BY DirectoryPathType DEF TypeOK
    <3> QED
      BY <2>1, <2>3, <3>1, TypeResolved
  <2> QED
    BY <1>3, <2>2, <2>3 DEF ResolveRef
<1>4. CASE Descend
  <2>1. UNCHANGED <<refs, input, cut, source, offers, todo, files>> /\ pc = "directory"
    BY <1>4 DEF Descend, world, resolution, walk, listing
  <2>2. CASE Fail /\ UNCHANGED at
    BY <2>1, <2>2, TypeStays DEF Fail
  <2>3. ASSUME NEW e \in Subtrees(at, Head(rest)), at' = e.id, UNCHANGED pc PROVE TypeOK'
    <3>1. at' \in Tree
      BY <2>1, <2>3, SteppedUnique DEF TypeOK, Holding
    <3> QED
      BY <2>1, <2>3, <3>1 DEF TypeOK
  <2> QED
    BY <1>4, <2>2, <2>3 DEF Descend
<1>5. CASE Arrive \/ VisitTree \/ VisitOther \/ Captured \/ Listed \/ RequestFails
  <2>1. UNCHANGED <<refs, input, cut, source, at, offers, todo, files>>
    BY <1>5 DEF Arrive, VisitTree, VisitOther, Captured, Listed, RequestFails, world, resolution, walk, listing
  <2>2. pc' = "failed" \/ pc' = pc \/ (pc \in Holding /\ pc' \in Holding)
    BY <1>5 DEF Arrive, VisitTree, VisitOther, Captured, Listed, RequestFails, Fail, Holding
  <2> QED
    BY <2>1, <2>2, TypeStays
<1>6. CASE VisitBlob
  <2>1. UNCHANGED <<refs, input, cut, source, at, offers, todo>> /\ (pc' = "failed" \/ pc' = pc)
    BY <1>6 DEF VisitBlob, Fail, world, resolution, listing
  <2>2. IsFiniteSet(files')
    <3>1. files' = files \/ \E f : files' = files \cup {f}
      BY <1>6 DEF VisitBlob, walk
    <3>2. IsFiniteSet(files)
      BY DEF TypeOK
    <3> QED
      BY <3>1, <3>2, FS_AddElement
  <2> QED
    BY <2>1, <2>2 DEF TypeOK, Holding
<1>7. CASE Discover
  <2>1. UNCHANGED <<refs, input, cut, source, at, files>> /\ pc = "discover" /\ pc' \in {"offered", "children", "failed"}
    BY <1>7 DEF Discover, world, resolution, walk
  <2>2. at \in Tree /\ source.path \in Seq(Word)
    BY <2>1 DEF TypeOK, Holding
  <2>3. offers' \subseteq Seq(Word)
    BY <1>7, <2>2 DEF Discover, TypeOK
  <2>4. UNION {Children(e.id) : e \in Subtrees(at, Templates)} \subseteq Entry
    BY <2>2, SteppedUnique, ChildrenType
  <2>5. todo' \subseteq Entry
    BY <1>7, <2>4 DEF Discover, TypeOK
  <2> QED
    BY <2>1, <2>3, <2>5 DEF TypeOK, Holding
<1>8. ASSUME NEW e \in todo, Child(e) PROVE TypeOK'
  <2>1. UNCHANGED <<refs, input, cut, source, at, files, pc>> /\ todo' \subseteq todo
    BY <1>8 DEF Child, world, resolution, walk
  <2>2. source.path \o <<Templates, e.name>> \in Seq(Word)
    <3>1. Templates \in Word /\ e.name \in Word
      BY DEF TypeOK, Word
    <3>2. <<Templates, e.name>> \in Seq(Word) /\ source.path \in Seq(Word)
      BY <3>1 DEF TypeOK
    <3> QED
      BY <3>2, ConcatProperties
  <2>3. offers' \subseteq Seq(Word)
    BY <1>8, <2>2 DEF Child, TypeOK
  <2> QED
    BY <2>1, <2>3 DEF TypeOK
<1>9. ASSUME NEW p \in offers, CaptureResolved(p) PROVE TypeOK'
  <2>1. /\ UNCHANGED <<refs, input, cut, offers, todo, files>> /\ pc = "offered" /\ pc' = "directory"
        /\ source' = [source EXCEPT !.path = p] /\ at' = RootTree[source.commit]
    BY <1>9 DEF CaptureResolved, world, walk, listing
  <2>2. /\ source'.commit = source.commit /\ source'.path = p
        /\ source' = [ref |-> source'.ref, path |-> source'.path, commit |-> source'.commit]
    BY <2>1 DEF TypeOK
  <2>3. source.commit \in Commit /\ RootTree[source.commit] \in Tree /\ p \in Seq(Word)
    BY <2>1, ObjectAssumption DEF TypeOK, Holding
  <2> QED
    BY <2>1, <2>2, <2>3 DEF TypeOK, Holding
<1>10. ASSUME NEW p \in offers, CaptureSource(p) PROVE TypeOK'
  <2>1. /\ UNCHANGED <<refs, offers, todo, files>> /\ pc' = "repository" /\ source' = NoSource
        /\ input' = [tail |-> None, ref |-> source.ref, path |-> p]
    BY <1>10 DEF CaptureSource, world, walk, listing
  <2>2. input'.tail \in Seq(Word) /\ input'.path \in Seq(Word)
    BY <2>1 DEF TypeOK, None
  <2>3. /\ source'.path \in Seq(Word) /\ source'.commit = NoCommit
        /\ source' = [ref |-> source'.ref, path |-> source'.path, commit |-> source'.commit]
    BY <2>1 DEF NoSource, None
  <2> QED
    BY <2>1, <2>2, <2>3 DEF TypeOK, Resolving, Holding
<1>11. ASSUME NEW r \in Ref, NEW c \in Commit \cup {NoCommit}, MoveRef(r, c) PROVE TypeOK'
  <2>1. refs' = [refs EXCEPT ![r] = c] /\ UNCHANGED <<input, cut, source, at, offers, todo, files, pc>>
    BY <1>11 DEF MoveRef, resolution, walk, listing
  <2> QED
    BY <2>1 DEF TypeOK
<1>12. CASE UNCHANGED vars
  BY <1>12, TypeStays DEF vars, world, resolution, walk, listing
<1> QED
  BY <1>1, <1>2, <1>3, <1>4, <1>5, <1>6, <1>7, <1>8, <1>9, <1>10, <1>11, <1>12 DEF Next

-----------------------------------------------------------------------------
LEMMA PastInit == Init => Past
BY DEF Init, Past, History, Resolution, Unresolved, LongestRefIsMeant, NoSource, Holding

(* The refs change under a client that does nothing.                       *)
LEMMA MoveKeeps ==
  ASSUME TypeOK, Past, NEW r \in Ref, NEW c \in Commit \cup {NoCommit}, MoveRef(r, c)
  PROVE  Past'
<1>1. /\ refs' = [refs EXCEPT ![r] = c] /\ UNCHANGED <<input, cut, source, pc>>
      /\ named' = (IF c = NoCommit THEN named ELSE named \cup {<<r, c>>})
      /\ steady' = (IF c = NoCommit THEN steady \ {r} ELSE steady)
  BY DEF MoveRef, resolution
<1>2. refs \in [Ref -> Commit \cup {NoCommit}]
  BY DEF TypeOK
<1>3. History'
  BY <1>1, <1>2 DEF Past, History
<1>4. steady' \subseteq steady /\ named \subseteq named'
  BY <1>1
<1>5. Resolution'
  BY <1>1, <1>4 DEF Past, Resolution, Unresolved, LongestRefIsMeant
<1> QED
  BY <1>3, <1>5 DEF Past

(* A ref is resolved to the commit it names.                               *)
LEMMA ResolvedKeeps ==
  ASSUME TypeOK, Past, NEW r, NEW p, CommitOf(r) # NoCommit, Resolved(r, p), UNCHANGED <<world, input>>,
         input.tail # None => \A n \in 1..Len(input.tail) : SubSeq(input.tail, 1, n) \in steady => n <= Len(r)
  PROVE  Past'
<1>1. r \in Ref /\ CommitOf(r) = refs[r]
  BY DEF CommitOf
<1>2. source' = [ref |-> r, path |-> p, commit |-> refs[r]] /\ pc' = "directory"
  BY <1>1 DEF Resolved
<1>3. source'.ref = r /\ source'.commit = refs[r]
  BY <1>2
<1>4. UNCHANGED <<refs, named, steady, input>>
  BY DEF world
<1>5. History'
  BY <1>4 DEF Past, History
<1>6. LongestRefIsMeant'
  BY <1>3, <1>4 DEF LongestRefIsMeant
<1>7. Resolution'
  BY <1>1, <1>2, <1>3, <1>4, <1>6 DEF Past, History, Resolution, Unresolved, Resolving, Holding
<1> QED
  BY <1>5, <1>7 DEF Past

LEMMA TryLinkKeeps ==
  ASSUME TypeOK, Past, TryLink
  PROVE  Past'
<1> DEFINE t == input.tail
           candidate == SubSeq(t, 1, cut)
           remainder == SubSeq(t, cut + 1, Len(t))
<1>1. pc = "link" /\ UNCHANGED <<world, input>>
  BY DEF TryLink
<1>2. /\ Unresolved /\ cut \in 0..Len(t) /\ t \in Seq(Word)
      /\ \A n \in (cut + 1)..Len(t) : SubSeq(t, 1, n) \notin steady
  BY <1>1 DEF Past, TypeOK, Resolution, Resolving
<1>3. CASE Fail /\ UNCHANGED <<cut, source>>
  BY <1>1, <1>2, <1>3 DEF Fail, world, Past, History, Resolution, Unresolved, LongestRefIsMeant, Resolving, Holding
<1>4. CASE cut > 0 /\ CommitOf(candidate) = NoCommit /\ cut' = cut - 1 /\ UNCHANGED <<pc, source>>
  <2>1. candidate \notin steady
    BY <1>4 DEF Past, History, CommitOf
  <2>2. \A n \in (cut' + 1)..Len(t) : n = cut \/ n \in (cut + 1)..Len(t)
    BY <1>2, <1>4
  <2>3. \A n \in (cut' + 1)..Len(t) : SubSeq(t, 1, n) \notin steady
    BY <1>2, <2>1, <2>2
  <2>4. UNCHANGED <<refs, named, steady, input, pc, source>>
    BY <1>1, <1>4 DEF world
  <2>5. Resolution'
    BY <1>1, <1>2, <2>3, <2>4 DEF Past, Resolution, Unresolved, LongestRefIsMeant, Resolving, Holding
  <2> QED
    BY <2>4, <2>5 DEF Past, History
<1>5. CASE cut > 0 /\ CommitOf(candidate) # NoCommit /\ Resolved(candidate, DirectoryPath(remainder))
  <2>1. Len(candidate) = cut
    BY <1>2
  <2>2. \A n \in 1..Len(t) : SubSeq(t, 1, n) \in steady => n <= Len(candidate)
    BY <1>2, <2>1
  <2> HIDE DEF candidate, remainder
  <2> QED
    BY <1>1, <1>5, <2>2, ResolvedKeeps
<1> QED
  BY <1>3, <1>4, <1>5 DEF TryLink

(* A step of the client that keeps the commit it has resolved.             *)
LEMMA LaterKeeps ==
  ASSUME Past, UNCHANGED <<world, input, cut>>, source'.ref = source.ref, source'.commit = source.commit,
         (pc \in Holding /\ pc' \in Holding) \/ pc' = "failed" \/ pc' = pc
  PROVE  Past'
<1>1. UNCHANGED <<refs, named, steady, input, cut>>
  BY DEF world
<1> QED
  BY <1>1 DEF Past, History, Resolution, Unresolved, LongestRefIsMeant, Resolving, Holding

LEMMA PastKeeps ==
  ASSUME TypeOK, Past, [Next]_vars
  PROVE  Past'
<1>1. CASE Repository
  <2>1. pc = "repository" /\ UNCHANGED <<world, input>>
    BY <1>1 DEF Repository
  <2>2. CASE Fail /\ UNCHANGED <<cut, source>>
    BY <2>1, <2>2, LaterKeeps DEF Fail
  <2>3. CASE input.tail # None /\ pc' = "link" /\ cut' = Len(input.tail) /\ UNCHANGED source
    <3>1. Len(input.tail) \in Nat
      BY DEF TypeOK
    <3> QED
      BY <2>1, <2>3, <3>1 DEF Past, History, Resolution, Unresolved, LongestRefIsMeant, world, Resolving, Holding
  <2>4. CASE /\ input.tail = None /\ pc' = "ref"
             /\ source' = [source EXCEPT !.ref = IF input.ref = None THEN Default ELSE input.ref]
    <3>1. source'.commit = source.commit
      BY <2>4 DEF TypeOK
    <3> QED
      BY <2>1, <2>4, <3>1 DEF Past, History, Resolution, Unresolved, LongestRefIsMeant, world, Resolving, Holding
  <2> QED
    BY <1>1, <2>2, <2>3, <2>4 DEF Repository
<1>2. CASE ResolveRef
  <2>1. pc = "ref" /\ input.tail = None /\ UNCHANGED <<world, input, cut>>
    BY <1>2 DEF ResolveRef, Past, Resolution
  <2>2. CASE Fail /\ UNCHANGED source
    BY <2>1, <2>2, LaterKeeps DEF Fail
  <2>3. CASE CommitOf(source.ref) # NoCommit /\ Resolved(source.ref, DirectoryPath(input.path))
    BY <2>1, <2>3, ResolvedKeeps
  <2> QED
    BY <1>2, <2>2, <2>3 DEF ResolveRef
<1>3. CASE \/ Descend \/ Arrive \/ VisitTree \/ VisitBlob \/ VisitOther \/ Captured
           \/ Discover \/ Listed \/ RequestFails \/ \E e \in todo : Child(e)
  <2>1. UNCHANGED <<world, resolution>>
    BY <1>3 DEF Descend, Arrive, VisitTree, VisitBlob, VisitOther, Captured, Discover, Listed, RequestFails, Child
  <2>2. (pc \in Holding /\ pc' \in Holding) \/ pc' = "failed"
    BY <1>3 DEF Descend, Arrive, VisitTree, VisitBlob, VisitOther, Captured, Discover, Listed, RequestFails, Child,
                Fail, Holding
  <2> QED
    BY <2>1, <2>2, LaterKeeps DEF resolution
<1>4. ASSUME NEW p \in offers, CaptureResolved(p) PROVE Past'
  <2>1. UNCHANGED <<world, input, cut>> /\ pc = "offered" /\ pc' = "directory" /\ source' = [source EXCEPT !.path = p]
    BY <1>4 DEF CaptureResolved
  <2>2. source'.commit = source.commit /\ source'.ref = source.ref
    BY <2>1 DEF TypeOK
  <2> QED
    BY <2>1, <2>2, LaterKeeps DEF Holding
<1>5. ASSUME NEW p \in offers, CaptureSource(p) PROVE Past'
  <2>1. /\ UNCHANGED <<refs, named, steady>> /\ pc' = "repository" /\ source' = NoSource
        /\ input' = [tail |-> None, ref |-> source.ref, path |-> p]
    BY <1>5 DEF CaptureSource, world
  <2>2. input'.tail = None /\ source'.commit = NoCommit
    BY <2>1 DEF NoSource
  <2> QED
    BY <2>1, <2>2 DEF Past, History, Resolution, Unresolved, LongestRefIsMeant, Resolving, Holding
<1>6. CASE UNCHANGED vars
  BY <1>6, LaterKeeps DEF vars, resolution
<1> QED
  BY <1>1, <1>2, <1>3, <1>4, <1>5, <1>6, TryLinkKeeps, MoveKeeps DEF Next

-----------------------------------------------------------------------------
(* Nothing of the path has been descended.                                 *)
LEMMA AtRoot ==
  ASSUME NEW p \in Seq(Word), NEW c
  PROVE  /\ 0 \in 0..Len(p) /\ p = SubSeq(p, 0 + 1, Len(p))
         /\ RootTree[c] = TreeAt(RootTree[c], SubSeq(p, 1, 0))
<1>1. SubSeq(p, 1, 0) = <<>>
  BY SubSeqEmpty
<1>2. SubSeq(p, 1, Len(p)) = p /\ Len(p) \in Nat
  BY SubSeqFull
<1>3. 0 + 1 = 1 /\ 0 \in 0..Len(p)
  BY <1>2
<1>4. TreeAt(RootTree[c], <<>>) = RootTree[c]
  BY TreeAtNone
<1> QED
  BY <1>1, <1>2, <1>3, <1>4

(* One more part of the path.                                              *)
LEMMA OneFurther ==
  ASSUME NEW p \in Seq(Word), NEW k \in 0..Len(p), NEW t, SubSeq(p, k + 1, Len(p)) # <<>>
  PROVE  /\ k + 1 \in 0..Len(p)
         /\ Tail(SubSeq(p, k + 1, Len(p))) = SubSeq(p, (k + 1) + 1, Len(p))
         /\ TreeAt(t, SubSeq(p, 1, k + 1)) = Stepped(TreeAt(t, SubSeq(p, 1, k)), Head(SubSeq(p, k + 1, Len(p))))
<1>1. Len(p) \in Nat
  OBVIOUS
<1>2. k # Len(p)
  <2>1. k = Len(p) => SubSeq(p, k + 1, Len(p)) = <<>>
    BY <1>1, SubSeqEmpty
  <2> QED
    BY <2>1
<1>3. k + 1 \in 1..Len(p) /\ k + 1 \in 0..Len(p) /\ Len(p) \in (k + 1)..Len(p) /\ (k + 1) - 1 = k /\ 1 \in 1..Len(p)
      /\ k + 1 \in 1..Len(p)
  BY <1>1, <1>2
<1>4. Head(SubSeq(p, k + 1, Len(p))) = p[k + 1] /\ Tail(SubSeq(p, k + 1, Len(p))) = SubSeq(p, (k + 1) + 1, Len(p))
  BY <1>3, HeadTailOfSubSeq
<1>5. SubSeq(p, 1, k + 1) = SubSeq(p, 1, k) \o <<p[k + 1]>>
  BY <1>3, SubSeqRecursiveSecond
<1>6. SubSeq(p, 1, k) \in Seq(Word) /\ p[k + 1] \in Word
  <2>1. \A i \in 1..k : p[i] \in Word
    BY <1>3
  <2> QED
    BY <1>3, <2>1, SubSeqProperties
<1>7. SubSeq(p, 1, k + 1) = Append(SubSeq(p, 1, k), p[k + 1])
  BY <1>5, <1>6, PrefixWord
<1>8. TreeAt(t, Append(SubSeq(p, 1, k), p[k + 1])) = Stepped(TreeAt(t, SubSeq(p, 1, k)), p[k + 1])
  BY <1>6, TreeAtAppend
<1> QED
  BY <1>3, <1>4, <1>7, <1>8

LEMMA DescentKeeps ==
  ASSUME TypeOK, TypeOK', Descent, [Next]_vars
  PROVE  Descent'
<1>1. ASSUME NEW r, NEW p \in Seq(Word), Resolved(r, p) PROVE Descent'
  <2>1. source' = [ref |-> r, path |-> p, commit |-> CommitOf(r)] /\ at' = RootTree[CommitOf(r)] /\ rest' = p /\ pc' = "directory"
    BY <1>1 DEF Resolved
  <2>2. source'.path = p /\ source'.commit = CommitOf(r)
    BY <2>1
  <2> QED
    BY <2>1, <2>2, AtRoot DEF Descent, Asked, Arrived
<1>2. CASE pc' \in Resolving \cup {"failed"}
  BY <1>2 DEF Descent, Resolving, Arrived, Holding
<1>3. CASE pc' = pc /\ UNCHANGED <<source, at, rest>>
  BY <1>3 DEF Descent, Asked
<1>4. CASE pc \in Arrived /\ pc' \in Arrived /\ UNCHANGED <<source, at>>
  BY <1>4 DEF Descent, Asked, Arrived
<1>5. CASE Repository \/ RequestFails \/ \E p \in offers : CaptureSource(p)
  BY <1>2, <1>5 DEF Repository, RequestFails, CaptureSource, Fail, Resolving
<1>6. CASE TryLink
  <2> DEFINE candidate == SubSeq(input.tail, 1, cut)
             remainder == SubSeq(input.tail, cut + 1, Len(input.tail))
  <2>1. CASE Resolved(candidate, DirectoryPath(remainder))
    <3>1. source'.path = DirectoryPath(remainder)
      BY <2>1 DEF Resolved
    <3> HIDE DEF candidate, remainder
    <3>2. DirectoryPath(remainder) \in Seq(Word)
      BY <3>1 DEF TypeOK
    <3> QED
      BY <1>1, <2>1, <3>2
  <2>2. CASE Fail \/ UNCHANGED <<pc, source, at, rest>>
    BY <1>2, <1>3, <2>2 DEF Fail
  <2> QED
    BY <1>6, <2>1, <2>2 DEF TryLink
<1>7. CASE ResolveRef
  <2>1. CASE Resolved(source.ref, DirectoryPath(input.path))
    <3>1. source'.path = DirectoryPath(input.path)
      BY <2>1 DEF Resolved
    <3>2. DirectoryPath(input.path) \in Seq(Word)
      BY <3>1 DEF TypeOK
    <3> QED
      BY <1>1, <2>1, <3>2
  <2> QED
    BY <1>2, <1>7, <2>1 DEF ResolveRef, Fail
<1>8. CASE Descend
  <2>1. pc = "directory" /\ rest # None /\ UNCHANGED source
    BY <1>8 DEF Descend, resolution
  <2>2. PICK k \in 0..Len(source.path) :
          rest = SubSeq(source.path, k + 1, Len(source.path)) /\ at = Asked(SubSeq(source.path, 1, k))
    BY <2>1 DEF Descent
  <2>3. ASSUME NEW e \in Subtrees(at, Head(rest)), at' = e.id, rest' = Tail(rest), UNCHANGED pc PROVE Descent'
    <3>1. at' = Stepped(at, Head(rest))
      BY <2>1, <2>3, SteppedUnique DEF TypeOK, Holding
    <3>2. source.path \in Seq(Word) /\ SubSeq(source.path, k + 1, Len(source.path)) # <<>>
      BY <2>1, <2>2 DEF TypeOK, None
    <3>3. k + 1 \in 0..Len(source.path) /\ rest' = SubSeq(source.path, (k + 1) + 1, Len(source.path))
          /\ at' = Asked(SubSeq(source.path, 1, k + 1))
      BY <2>2, <2>3, <3>1, <3>2, OneFurther DEF Asked
    <3> QED
      BY <2>1, <2>3, <3>3 DEF Descent, Asked, Arrived
  <2> QED
    BY <1>2, <1>8, <2>3 DEF Descend, Fail
<1>9. CASE Arrive
  <2>1. pc = "directory" /\ rest = None /\ UNCHANGED <<source, at>> /\ pc' \in {"walk", "discover"}
    BY <1>9 DEF Arrive, resolution
  <2>2. PICK k \in 0..Len(source.path) :
          rest = SubSeq(source.path, k + 1, Len(source.path)) /\ at = Asked(SubSeq(source.path, 1, k))
    BY <2>1 DEF Descent
  <2>3. source.path \in Seq(Word) /\ Len(source.path) \in Nat
    BY DEF TypeOK
  <2>4. k = Len(source.path)
    <3>1. k + 1 <= Len(source.path) => Len(SubSeq(source.path, k + 1, Len(source.path))) = Len(source.path) - (k + 1) + 1
      <4>1. k + 1 \in Int /\ \A i \in (k + 1)..Len(source.path) : source.path[i] \in Word
        BY <2>3
      <4> QED
        BY <2>3, <4>1, SubSeqProperties
    <3>2. Len(rest) = 0
      BY <2>1 DEF None
    <3> QED
      BY <2>2, <2>3, <3>1, <3>2
  <2>5. at = Asked(source.path)
    BY <2>2, <2>3, <2>4, SubSeqFull
  <2> QED
    BY <2>1, <2>5 DEF Descent, Asked, Arrived, Holding
<1>10. CASE VisitTree \/ VisitBlob \/ VisitOther \/ Captured \/ Discover \/ Listed \/ \E e \in todo : Child(e)
  <2>1. UNCHANGED <<source, at>> /\ pc \in Arrived /\ pc' \in Arrived \cup {"failed"}
    BY <1>10 DEF VisitTree, VisitBlob, VisitOther, Captured, Discover, Listed, Child, Fail, resolution, Arrived, Holding
  <2> QED
    BY <1>2, <1>4, <2>1
<1>11. ASSUME NEW p \in offers, CaptureResolved(p) PROVE Descent'
  <2>1. source' = [source EXCEPT !.path = p] /\ at' = RootTree[source.commit] /\ rest' = p /\ pc' = "directory"
    BY <1>11 DEF CaptureResolved
  <2>2. source'.path = p /\ source'.commit = source.commit /\ p \in Seq(Word)
    BY <2>1 DEF TypeOK
  <2> QED
    BY <2>1, <2>2, AtRoot DEF Descent, Asked, Arrived
<1>12. CASE UNCHANGED vars \/ \E r \in Ref, c \in Commit \cup {NoCommit} : MoveRef(r, c)
  BY <1>3, <1>12 DEF vars, resolution, MoveRef
<1> QED
  BY <1>5, <1>6, <1>7, <1>8, <1>9, <1>10, <1>11, <1>12 DEF Next

-----------------------------------------------------------------------------
LEMMA LeafOf ==
  ASSUME NEW t \in Tree
  PROVE  Own(t) \subseteq Leaves(t) /\ \A x \in Leaves(t) : x \in Seq(Word) \X Entry
<1>1. Deepest \in Nat /\ Deepest \in 1..Deepest /\ Deepest \in 0..Deepest
  BY BoundAssumption DEF Deepest
<1>2. Leaves(t) = LeavesBelow[Deepest][t]
  BY DEF Leaves, Deepest
<1>3. Own(t) \subseteq LeavesBelow[Deepest][t]
  BY <1>1, LeavesBelowDef
<1>4. LeavesBelow[Deepest][t] \subseteq Seq(Word) \X Entry
  BY <1>1, LeafType
<1> QED
  BY <1>2, <1>3, <1>4

LEMMA ItemType ==
  ASSUME NEW s \in Item
  PROVE  /\ s.path \in Seq(Word) /\ Len(s.path) \in 1..Deepest /\ s.entry \in Entry
         /\ s.entry.kind \in {"tree", "blob", "link", "module"}
         /\ s.entry.kind = "tree" => s.entry.id \in Tree
         /\ s.entry.kind = "blob" => Size[s.entry.id] \in Nat
BY EntryType DEF Item, Entry

LEMMA CountingInit == Init => Counting
<1>1. Bytes({}) = 0 /\ Sized({})
  BY BytesOfPick, FS_EmptySet DEF Sized
<1> QED
  BY <1>1, FS_EmptySet, BoundAssumption DEF Init, Counting

LEMMA CountingKeeps ==
  ASSUME TypeOK, Counting, Visiting, [Next]_vars
  PROVE  Counting'
<1>1. CASE VisitBlob
  <2> DEFINE s == Head(stack)
             b == s.entry.id
             f == <<s.path, b>>
  <2>1. pc = "walk" /\ stack # <<>> /\ s.entry.kind = "blob"
    BY <1>1 DEF VisitBlob
  <2>2. CASE Fail /\ UNCHANGED walk
    BY <2>1, <2>2 DEF Fail, walk, Counting
  <2>3. CASE ~TooMuch(b) /\ files' = files \cup {f} /\ bytes' = bytes + Size[b] /\ UNCHANGED pc
    <3>1. s \in Item
      BY <2>1, AheadOfStack DEF Visiting
    <3>2. Size[b] \in Nat /\ f[2] = b
      BY <2>1, <3>1, ItemType
    <3> HIDE DEF s, b, f
    <3>3. IsFiniteSet(files) /\ Sized(files) /\ bytes \in Nat /\ Bytes(files) <= bytes
      BY DEF Counting, TypeOK
    <3>4. bytes' \in Nat /\ bytes' <= MaxBytes /\ Cardinality(files) < MaxFiles
      <4>1. ~(bytes + Size[b] > MaxBytes) /\ ~(Cardinality(files) >= MaxFiles)
        BY <2>3 DEF TooMuch
      <4> QED
        BY <2>3, <3>2, <3>3, <4>1, BoundAssumption, FS_CardinalityType
    <3>5. IsFiniteSet(files') /\ Sized(files') /\ Cardinality(files') <= MaxFiles
      <4>1. IsFiniteSet(files') /\ Cardinality(files') \in {Cardinality(files), Cardinality(files) + 1}
        BY <2>3, <3>3, FS_AddElement
      <4>2. Cardinality(files) \in Nat
        BY <3>3, FS_CardinalityType
      <4> QED
        BY <2>3, <3>2, <3>3, <3>4, <4>1, <4>2, BoundAssumption DEF Sized
    <3>6. Bytes(files') <= bytes'
      <4>1. CASE f \in files
        <5>1. files' = files /\ bytes' = bytes + Size[b] /\ Bytes(files) \in Nat
          BY <2>3, <3>3, <4>1, BytesType
        <5> QED
          BY <3>2, <3>3, <5>1
      <4>2. CASE f \notin files
        <5>1. f \in files' /\ files' \ {f} = files
          BY <2>3, <4>2
        <5>2. Bytes(files') = Size[f[2]] + Bytes(files)
          BY <3>5, <5>1, BytesOfAny
        <5>3. Bytes(files) \in Nat /\ bytes' = bytes + Size[b]
          BY <2>3, <3>3, BytesType
        <5> QED
          BY <3>2, <3>3, <5>2, <5>3
      <4> QED
        BY <4>1, <4>2
    <3> QED
      BY <2>1, <2>3, <3>4, <3>5, <3>6 DEF Counting
  <2> QED
    BY <1>1, <2>2, <2>3 DEF VisitBlob
<1>2. CASE UNCHANGED <<files, bytes>> /\ (pc \notin {"walk", "captured", "failed"} \/ pc' = pc \/ pc' \in {"failed", "captured"})
  BY <1>2 DEF Counting
<1>3. CASE Next /\ ~VisitBlob
  <2>1. UNCHANGED <<files, bytes>>
    BY <1>3 DEF Next, Repository, TryLink, ResolveRef, Descend, Arrive, VisitTree, VisitOther, Captured,
                Discover, Listed, RequestFails, Child, CaptureResolved, CaptureSource, MoveRef, walk
  <2>2. pc \notin {"walk", "captured", "failed"} \/ pc' = pc \/ pc' \in {"failed", "captured"}
    BY <1>3 DEF Next, Repository, TryLink, ResolveRef, Resolved, Descend, Arrive, VisitTree, VisitOther, Captured,
                Discover, Listed, RequestFails, Child, CaptureResolved, CaptureSource, MoveRef, Fail
  <2> QED
    BY <1>2, <2>1, <2>2
<1>4. CASE UNCHANGED vars
  BY <1>2, <1>4 DEF vars, walk
<1> QED
  BY <1>1, <1>3, <1>4

LEMMA VisitingKeeps ==
  ASSUME TypeOK, Counting, Visiting, [Next]_vars
  PROVE  Visiting'
<1>1. CASE pc' \notin {"walk", "captured"}
  BY <1>1 DEF Visiting
<1>2. CASE Arrive
  <2>1. pc = "directory" /\ UNCHANGED <<at, files>>
    BY <1>2 DEF Arrive
  <2>2. CASE pc' = "walk" /\ stack' = Under(at, None)
    <3>1. at \in Tree /\ files = {}
      BY <2>1 DEF TypeOK, Counting, Holding
    <3>2. None \in Seq(Word) /\ Len(None) <= MaxDepth
      BY BoundAssumption DEF None
    <3>3. stack' \in Seq(Item) /\ Ahead(stack') = Leaves(at)
      BY <2>2, <3>1, <3>2, UnderShown, LeavesShown
    <3> QED
      BY <2>1, <2>2, <3>1, <3>3 DEF Visiting
  <2> QED
    BY <1>1, <1>2, <2>2 DEF Arrive
<1>3. CASE VisitTree
  <2> DEFINE s == Head(stack)
             u == Under(s.entry.id, s.path)
  <2>1. pc = "walk" /\ stack # <<>> /\ s.entry.kind = "tree" /\ UNCHANGED <<at, files>>
    BY <1>3 DEF VisitTree
  <2>2. CASE ~(Len(s.path) > MaxDepth) /\ stack' = u \o Tail(stack) /\ UNCHANGED pc
    <3>1. s \in Item /\ Tail(stack) \in Seq(Item) /\ Ahead(stack) = Standing(s) \cup Ahead(Tail(stack))
      BY <2>1, AheadOfStack DEF Visiting
    <3>2. s.path \in Seq(Word) /\ s.entry.id \in Tree /\ Len(s.path) <= MaxDepth
      <4>1. s.path \in Seq(Word) /\ s.entry.id \in Tree /\ Len(s.path) \in 1..Deepest
        BY <2>1, <3>1, ItemType
      <4> QED
        BY <2>2, <4>1, BoundAssumption
    <3>3. u \in Seq(Item) /\ Ahead(u) = Standing(s)
      <4>1. Standing(s) = Shown(s.entry.id, s.path)
        BY <2>1 DEF Standing
      <4> QED
        BY <3>2, <4>1, UnderShown
    <3> HIDE DEF s, u
    <3>4. stack' \in Seq(Item) /\ Ahead(stack') = Ahead(stack)
      <4> DEFINE r == Tail(stack)
      <4>1. r \in Seq(Item)
        BY <3>1
      <4> HIDE DEF r
      <4>2. u \o r \in Seq(Item) /\ Ahead(u \o r) = Ahead(u) \cup Ahead(r)
        BY <3>3, <4>1, AheadOfStack
      <4> QED
        BY <2>2, <3>1, <3>3, <4>2 DEF r
    <3> QED
      BY <2>1, <2>2, <3>4 DEF Visiting
  <2> QED
    BY <1>1, <1>3, <2>2 DEF VisitTree, Fail
<1>4. CASE VisitBlob
  <2> DEFINE s == Head(stack)
             b == s.entry.id
             y == <<s.path, s.entry>>
  <2>1. pc = "walk" /\ stack # <<>> /\ s.entry.kind = "blob" /\ UNCHANGED at
    BY <1>4 DEF VisitBlob
  <2>2. CASE files' = files \cup {<<s.path, b>>} /\ stack' = Tail(stack) /\ UNCHANGED pc
    <3>1. stack' \in Seq(Item) /\ Ahead(stack) = Standing(s) \cup Ahead(stack')
      BY <2>1, <2>2, AheadOfStack DEF Visiting
    <3>2. Standing(s) = {y}
      BY <2>1 DEF Standing
    <3>3. y \in Leaves(at) /\ y[2].kind = "blob" /\ <<y[1], y[2].id>> = <<s.path, b>>
      BY <2>1, <3>1, <3>2 DEF Visiting
    <3> HIDE DEF y
    <3>4. <<s.path, b>> \in FilesOf(at)
      BY <3>3 DEF FilesOf
    <3>5. Ahead(stack') \subseteq Leaves(at) /\ files' \subseteq FilesOf(at)
      BY <2>1, <2>2, <3>1, <3>4 DEF Visiting
    <3>6. ASSUME NEW x \in Leaves(at), x \notin Ahead(stack') PROVE x[2].kind = "blob" /\ <<x[1], x[2].id>> \in files'
      <4>1. CASE x = y
        BY <2>2, <3>3, <4>1
      <4>2. CASE x # y
        <5>1. x \notin Ahead(stack)
          BY <3>1, <3>2, <3>6, <4>2
        <5> QED
          BY <2>1, <2>2, <5>1 DEF Visiting
      <4> QED
        BY <4>1, <4>2
    <3> QED
      BY <2>1, <2>2, <3>1, <3>5, <3>6 DEF Visiting
  <2> QED
    BY <1>1, <1>4, <2>2 DEF VisitBlob, Fail
<1>5. CASE Captured
  <2>1. pc = "walk" /\ stack = <<>> /\ UNCHANGED <<at, files>> /\ pc' \in {"failed", "captured"}
    BY <1>5 DEF Captured, walk
  <2>2. Ahead(stack) = {}
    BY <2>1, AheadOfStack DEF Visiting
  <2>3. \A x \in Leaves(at) : x[2].kind = "blob" /\ <<x[1], x[2].id>> \in files
    BY <2>1, <2>2 DEF Visiting
  <2>4. files = FilesOf(at) /\ ~HasLink(at)
    BY <2>1, <2>3 DEF Visiting, FilesOf, HasLink
  <2> QED
    BY <2>1, <2>4 DEF Visiting
<1>6. CASE pc' = pc /\ UNCHANGED <<at, walk>>
  BY <1>6 DEF Visiting, walk
<1>7. CASE Repository \/ ResolveRef \/ VisitOther \/ Discover \/ Listed \/ RequestFails
            \/ \E p \in offers : CaptureResolved(p) \/ CaptureSource(p)
  BY <1>1, <1>7 DEF Repository, ResolveRef, Resolved, VisitOther, Discover, Listed, RequestFails,
                    CaptureResolved, CaptureSource, Fail
<1>8. CASE TryLink \/ Descend
  BY <1>1, <1>8 DEF TryLink, Resolved, Descend, Fail
<1>9. CASE UNCHANGED vars \/ (\E e \in todo : Child(e)) \/ \E r \in Ref, c \in Commit \cup {NoCommit} : MoveRef(r, c)
  BY <1>6, <1>9 DEF vars, Child, MoveRef
<1> QED
  BY <1>2, <1>3, <1>4, <1>5, <1>7, <1>8, <1>9 DEF Next

-----------------------------------------------------------------------------
(* A template is offered at the path where it is found.                    *)
LEMMA ChildAsked ==
  ASSUME TypeOK, Descent, pc = "children", NEW d \in Subtrees(at, Templates), NEW e \in Children(d.id)
  PROVE  Asked(source.path \o <<Templates, e.name>>) = e.id
<1> DEFINE p == source.path
<1>1. at \in Tree /\ p \in Seq(Word) /\ at = Asked(p)
  BY DEF TypeOK, Descent, Holding, Arrived
<1>2. d.id \in Tree /\ Stepped(at, Templates) = d.id
  BY <1>1, SteppedUnique
<1>3. e.name \in Word /\ Templates \in Word
  BY <1>2, ChildrenType DEF Word
<1>4. e \in Subtrees(d.id, e.name)
  BY DEF Children, Subtrees
<1>5. Stepped(d.id, e.name) = e.id
  BY <1>2, <1>4, SteppedUnique
<1> HIDE DEF p
<1>6. p \o <<Templates, e.name>> = Append(Append(p, Templates), e.name)
  BY <1>1, <1>3
<1>7. Asked(Append(p, Templates)) = Stepped(at, Templates) /\ Append(p, Templates) \in Seq(Word)
  BY <1>1, <1>3, TreeAtAppend DEF Asked
<1>8. Asked(Append(Append(p, Templates), e.name)) = Stepped(Asked(Append(p, Templates)), e.name)
  <2> DEFINE q == Append(p, Templates)
  <2>1. q \in Seq(Word)
    BY <1>7
  <2> HIDE DEF q
  <2>2. Asked(Append(q, e.name)) = Stepped(Asked(q), e.name)
    BY <1>3, <2>1, TreeAtAppend DEF Asked
  <2> QED
    BY <2>2 DEF q
<1>9. Asked(Append(Append(p, Templates), e.name)) = e.id
  BY <1>2, <1>5, <1>7, <1>8
<1> QED
  BY <1>6, <1>9 DEF p

LEMMA OfferedKeeps ==
  ASSUME TypeOK, Descent, Offered, [Next]_vars
  PROVE  Offered'
<1>1. ASSUME UNCHANGED <<client, offers, goal, source>>, pc' \notin Resolving,
             pc' \in {"discover", "children", "offered"} => goal # "capture",
             pc' \in {"walk", "captured"} => goal = "capture",
             pc' = "children" => pc = "children" /\ UNCHANGED <<at, todo>>,
             pc' = "failed" \/ pc # "failed"
      PROVE  Offered'
  BY <1>1 DEF Offered, Asked
<1>2. ASSUME UNCHANGED <<client, offers, goal>>, pc \in Resolving, pc' \in Resolving \cup {"directory", "failed"}
      PROVE  Offered'
  BY <1>2 DEF Offered, Resolving
<1>3. CASE Repository \/ TryLink \/ ResolveRef
  <2>1. UNCHANGED <<client, offers, goal>> /\ pc \in Resolving
    BY <1>3 DEF Repository, TryLink, ResolveRef, listing, Resolving
  <2>2. pc' \in Resolving \cup {"directory", "failed"}
    BY <1>3 DEF Repository, TryLink, ResolveRef, Resolved, Fail, Resolving
  <2> QED
    BY <1>2, <2>1, <2>2
<1>4. CASE Descend \/ Arrive
  <2>1. UNCHANGED <<client, offers, goal, source>> /\ pc = "directory"
    BY <1>4 DEF Descend, Arrive, listing, resolution
  <2>2. pc' \in {"failed", "directory"} \/ (goal = "capture" /\ pc' = "walk") \/ (goal # "capture" /\ pc' = "discover")
    BY <1>4 DEF Descend, Arrive, Fail
  <2> QED
    BY <1>1, <2>1, <2>2 DEF Resolving
<1>5. CASE VisitTree \/ VisitBlob \/ VisitOther \/ Captured
  <2>1. UNCHANGED <<client, offers, goal, source>> /\ pc = "walk" /\ pc' \in {"walk", "failed", "captured"}
    BY <1>5 DEF VisitTree, VisitBlob, VisitOther, Captured, Fail, listing, resolution
  <2>2. goal = "capture"
    BY <2>1 DEF Offered
  <2> QED
    BY <1>1, <2>1, <2>2 DEF Resolving
<1>6. CASE Discover
  <2>1. /\ UNCHANGED <<client, goal, source, at>> /\ pc = "discover" /\ pc' \in {"offered", "children", "failed"}
        /\ goal # "capture"
    BY <1>6 DEF Discover, resolution, Offered
  <2>2. CASE IsTemplate(at) /\ offers' = {source.path} /\ pc' = "offered"
    <3>1. at = Asked(source.path)
      BY <2>1 DEF Descent, Arrived, Holding
    <3> QED
      BY <2>1, <2>2, <3>1 DEF Offered, Asked, Resolving
  <2>3. CASE UNCHANGED offers /\ todo' = UNION {Children(e.id) : e \in Subtrees(at, Templates)}
    <3>1. \A e \in todo' : \E d \in Subtrees(at, Templates) : e \in Children(d.id)
      BY <2>3
    <3> QED
      BY <2>1, <2>3, <3>1 DEF Offered, Asked, Resolving
  <2> QED
    BY <1>6, <2>2, <2>3 DEF Discover
<1>7. ASSUME NEW e \in todo, Child(e) PROVE Offered'
  <2>1. UNCHANGED <<client, goal, source, at, pc>> /\ pc = "children" /\ todo' \subseteq todo /\ goal # "capture"
    BY <1>7 DEF Child, resolution, Offered
  <2>2. PICK d \in Subtrees(at, Templates) : e \in Children(d.id)
    BY <2>1 DEF Offered
  <2>3. Asked(source.path \o <<Templates, e.name>>) = e.id
    BY <2>1, <2>2, ChildAsked
  <2>4. ASSUME client = "go", NEW p \in offers' PROVE IsTemplate(Asked(p))
    <3>1. p \in offers \/ (IsTemplate(e.id) /\ p = source.path \o <<Templates, e.name>>)
      BY <1>7 DEF Child
    <3> QED
      BY <2>3, <2>4, <3>1 DEF Offered
  <2> QED
    BY <2>1, <2>4 DEF Offered, Asked, Resolving
<1>8. CASE Listed \/ RequestFails
  <2>1. UNCHANGED <<client, offers, goal, source>>
    BY <1>8 DEF Listed, RequestFails, listing, resolution
  <2>2. pc' = "failed" \/ (pc = "children" /\ pc' = "offered")
    BY <1>8 DEF Listed, RequestFails, Fail
  <2> QED
    BY <1>1, <2>1, <2>2 DEF Offered, Resolving
<1>9. ASSUME NEW p \in offers, CaptureResolved(p) PROVE Offered'
  <2>1. UNCHANGED <<client, offers>> /\ goal' = "capture" /\ pc = "offered" /\ pc' = "directory" /\ source' = [source EXCEPT !.path = p]
    BY <1>9 DEF CaptureResolved, listing
  <2>2. source'.path = p /\ source'.commit = source.commit
    BY <2>1 DEF TypeOK
  <2> QED
    BY <2>1, <2>2 DEF Offered, Asked, Resolving
<1>10. ASSUME NEW p \in offers, CaptureSource(p) PROVE Offered'
  BY <1>10 DEF CaptureSource, listing, Offered
<1>11. CASE UNCHANGED vars \/ \E r \in Ref, c \in Commit \cup {NoCommit} : MoveRef(r, c)
  <2>1. UNCHANGED <<client, offers, todo, goal, source, pc, at>>
    BY <1>11 DEF MoveRef, vars, listing, resolution
  <2> QED
    BY <2>1 DEF Offered, Asked
<1> QED
  BY <1>3, <1>4, <1>5, <1>6, <1>7, <1>8, <1>9, <1>10, <1>11 DEF Next

-----------------------------------------------------------------------------
(* The inductive invariant.                                                *)
Inv == TypeOK /\ Past /\ Descent /\ Counting /\ Visiting /\ Offered

LEMMA InitInv == Init => Inv
<1> SUFFICES ASSUME Init PROVE Inv
  OBVIOUS
<1>1. Descent /\ Visiting /\ Offered
  BY DEF Init, Descent, Visiting, Offered, Arrived, Holding
<1> QED
  BY <1>1, TypeInit, PastInit, CountingInit DEF Inv

LEMMA Inductive == Inv /\ [Next]_vars => Inv'
<1> SUFFICES ASSUME Inv, [Next]_vars PROVE Inv'
  OBVIOUS
<1>1. TypeOK'
  BY TypeKeeps DEF Inv
<1>2. Past'
  BY PastKeeps DEF Inv
<1>3. Descent'
  BY <1>1, DescentKeeps DEF Inv
<1>4. Counting' /\ Visiting'
  BY CountingKeeps, VisitingKeeps DEF Inv
<1>5. Offered'
  BY OfferedKeeps DEF Inv
<1> QED
  BY <1>1, <1>2, <1>3, <1>4, <1>5 DEF Inv

(* Inv holds in every state that can be reached.                           *)
THEOREM Invariance == Spec => []Inv
BY InitInv, Inductive, PTL DEF Spec

(* A link is read with the longest ref it can mean, whatever happens to    *)
(* the refs meanwhile (github.go: the loop over the prefixes of a link).   *)
THEOREM LongestRef == Spec => []LongestRefIsMeant
<1>1. Inv => LongestRefIsMeant
  BY DEF Inv, Past, Resolution
<1> QED
  BY <1>1, Invariance, PTL

(* However refs move, a snapshot holds exactly the files its directory has *)
(* in the one commit it records, which its ref named during the run, and   *)
(* neither links nor more than the limits (github.go: Resolve, directory   *)
(* and the walk of CaptureResolved; sdk/index.cjs: captureSource).         *)
THEOREM OneCommit == Spec => []SnapshotIsOfOneCommit
<1>1. ASSUME Inv PROVE SnapshotIsOfOneCommit
  <2> SUFFICES ASSUME pc = "captured"
               PROVE  LET directory == TreeAt(RootTree[source.commit], source.path)
                      IN /\ <<source.ref, source.commit>> \in named
                         /\ files = FilesOf(directory) /\ ~HasLink(directory)
                         /\ Cardinality(FilesOf(directory)) <= MaxFiles
                         /\ Bytes(FilesOf(directory)) <= MaxBytes
    BY DEF SnapshotIsOfOneCommit
  <2>1. at = TreeAt(RootTree[source.commit], source.path)
    BY <1>1 DEF Inv, Descent, Asked, Arrived, Holding
  <2>2. <<source.ref, source.commit>> \in named
    BY <1>1 DEF Inv, Past, Resolution, Holding
  <2>3. files = FilesOf(at) /\ ~HasLink(at)
    BY <1>1 DEF Inv, Visiting
  <2>4. Cardinality(files) <= MaxFiles /\ Bytes(files) <= MaxBytes
    <3>1. /\ Sized(files) /\ IsFiniteSet(files) /\ bytes \in Nat /\ Bytes(files) <= bytes /\ bytes <= MaxBytes
          /\ Cardinality(files) <= MaxFiles
      BY <1>1 DEF Inv, TypeOK, Counting
    <3>2. Bytes(files) \in Nat /\ MaxBytes \in Nat
      BY <3>1, BytesType, BoundAssumption
    <3> QED
      BY <3>1, <3>2
  <2> QED
    BY <2>1, <2>2, <2>3, <2>4
<1> QED
  BY <1>1, Invariance, PTL

(* What the Go client captures of an offer is of the commit that was       *)
(* discovered, and is a template there (github.go: Discover and            *)
(* CaptureResolved).                                                       *)
THEOREM OffersKept == Spec => OffersStayGood
<1>1. Inv /\ [Next]_vars => [client = "go" /\ pc = "offered" => source'.commit = source.commit]_vars
  <2> SUFFICES ASSUME Inv, [Next]_vars, client = "go", pc = "offered" PROVE source'.commit = source.commit
    OBVIOUS
  <2>1. source' = source \/ \E p \in offers : source' = [source EXCEPT !.path = p]
    BY DEF Next, vars, resolution, Repository, TryLink, ResolveRef, Descend, Arrive, VisitTree, VisitBlob, VisitOther,
           Captured, Discover, Listed, RequestFails, Child, CaptureResolved, CaptureSource, MoveRef
  <2> QED
    BY <2>1 DEF Inv, TypeOK
<1>2. Inv => (client = "go" /\ pc = "captured" /\ offers # {} =>
                \E f \in files : Len(f[1]) = 1 /\ f[1][1] \in EntryNames)
  <2> SUFFICES ASSUME Inv, client = "go", pc = "captured", offers # {}
               PROVE  \E f \in files : Len(f[1]) = 1 /\ f[1][1] \in EntryNames
    OBVIOUS
  <2>1. at \in Tree /\ IsTemplate(at) /\ files = FilesOf(at) /\ ~HasLink(at)
    BY DEF Inv, TypeOK, Descent, Visiting, Offered, Arrived, Holding
  <2>2. PICK e \in ToSet(Entries[at]) : e.kind \in {"blob", "link"} /\ e.name \in EntryNames
    BY <2>1 DEF IsTemplate
  <2> DEFINE x == <<<<e.name>>, e>>
             f == <<<<e.name>>, e.id>>
  <2>3. x \in Own(at) /\ x[2] = e /\ f = <<x[1], x[2].id>>
    BY <2>2 DEF Own, Children
  <2>4. x \in Leaves(at)
    BY <2>1, <2>3, LeafOf
  <2>6. x[2].kind = "blob"
    BY <2>1, <2>2, <2>3, <2>4 DEF HasLink
  <2> HIDE DEF x
  <2>5. f \in files
    BY <2>1, <2>3, <2>4, <2>6 DEF FilesOf
  <2> QED
    BY <2>2, <2>5
<1> QED
  BY <1>1, <1>2, Invariance, PTL DEF Spec, OffersStayGood
=============================================================================
