-------------------------- MODULE DiscoveryProofs ---------------------------
(***************************************************************************)
(* What a discovery guarantees for any tags, images, platforms, page sizes *)
(* and changes of the registry, and that the comparison it chooses a       *)
(* release by is the precedence of Semantic Versioning and a total order,  *)
(* for any texts.                                                          *)
(***************************************************************************)
EXTENDS Discovery, Versions, SequenceTheorems, FiniteSetTheorems, WellFoundedInduction, TLAPS

USE DEF results, pages

TypeOK ==
  /\ registry \in [Tag -> Image \cup {NoImage}]
  /\ listed \subseteq Tag /\ obedient \in BOOLEAN
  /\ cursor \in Int /\ (pc = "npm" \/ pc = "token" => cursor = Start)

-----------------------------------------------------------------------------
(* The invariant, in parts.                                                *)

Resolving == {"index", "manifests", "done"}
Listing == {"list", "choose"} \cup Resolving

(* What the tags name is known to the history.                             *)
Observed ==
  pc \in Listing =>
    /\ steady \subseteq Present
    /\ \A t \in Present : <<t, registry[t]>> \in named

(* The tags up to the cursor were seen, if they were there all the time.   *)
Collected ==
  obedient =>
    /\ pc = "list" => \A t \in steady : t <= cursor => t \in listed
    /\ pc \in {"choose"} \cup Resolving => steady \subseteq listed

Chosen ==
  pc \in Resolving =>
    /\ version \in Tag
    /\ \A t \in listed \cap Eligible : ~Older[version][t]

(* The manifests are those of the image the tag named when it was resolved. *)
Imaged ==
  /\ pc \in {"npm", "token", "list", "choose", "index"} => artifacts = {}
  /\ pc \in {"manifests", "done"} =>
       /\ index \in Image /\ <<version, index>> \in named
       /\ \A f \in artifacts : \E p \in Platform : f = <<p, Digest(index, p)>>
  /\ pc = "done" => \A p \in Platform : Fetched(p)

Inv == TypeOK /\ Observed /\ Collected /\ Chosen /\ Imaged

-----------------------------------------------------------------------------
(* Pages.                                                                  *)

(* A page that is not the last holds everything up to its last tag. *)
LEMMA PageIsClosed ==
  ASSUME TypeOK, NEW m \in Page, NEW t \in After, t <= m
  PROVE  t \in Page
<1> DEFINE upto(x) == {u \in After : u <= x}
<1>1. m \in After /\ Cardinality(upto(m)) <= PageSize
  BY DEF Page
<1>2. After \subseteq Tag /\ \A u \in After : u \in Int
  BY TagAssumption DEF After, Present
<1>3. upto(t) \subseteq upto(m)
  BY <1>1, <1>2
<1>4. IsFiniteSet(upto(m))
  BY <1>2, TagAssumption, FS_Subset
<1> HIDE DEF upto
<1>5. Cardinality(upto(t)) <= Cardinality(upto(m)) /\ Cardinality(upto(t)) \in Nat /\ Cardinality(upto(m)) \in Nat
  BY <1>3, <1>4, FS_Subset, FS_CardinalityType
<1>6. PageSize \in Nat
  BY BoundAssumption
<1>7. Cardinality(upto(t)) <= PageSize
  BY <1>1, <1>5, <1>6
<1> QED
  BY <1>7 DEF Page, upto

(* After a page every steady tag up to the next cursor was listed, and     *)
(* after the last page every steady tag was.                               *)
LEMMA PageCollects ==
  ASSUME TypeOK, Observed, pc = "list", NEW c \in NextCursor,
         \A t \in steady : t <= cursor => t \in listed
  PROVE  /\ c \in Int
         /\ c = Start => steady \subseteq listed \cup Page
         /\ \A t \in steady : t <= c => t \in listed \cup Page
<1>1. /\ \A t \in steady : t \in Int /\ t > 0 /\ t \in Tag
      /\ \A t \in steady : t \in After \/ t <= cursor
      /\ Page \subseteq After /\ \A u \in After : u \in Int /\ u > 0
  <2>1. \A t \in Tag : t \in Int /\ t > 0
    BY TagAssumption
  <2>2. steady \subseteq Present /\ Present \subseteq Tag /\ cursor \in Int
    BY DEF TypeOK, Observed, Listing, Present
  <2>3. After = {t \in Present : t > cursor} /\ Page \subseteq After
    BY DEF After, Page
  <2> QED
    BY <2>1, <2>2, <2>3
<1>2. CASE Page = After /\ c = Start
  BY <1>1, <1>2 DEF Start
<1>3. CASE c \in LastOfPage
  <2>1. c \in Page /\ c \in Int /\ c > 0
    BY <1>1, <1>3 DEF LastOfPage
  <2>2. \A t \in steady : t <= c => t \in listed \cup Page
    BY <1>1, <2>1, PageIsClosed
  <2> QED
    BY <2>1, <2>2 DEF Start
<1> QED
  BY <1>2, <1>3 DEF NextCursor

-----------------------------------------------------------------------------
(* The steps.                                                              *)

LEMMA InitInv == Init => Inv
  BY DEF Init, Inv, TypeOK, Observed, Collected, Chosen, Imaged, Listing, Resolving, Start

LEMMA ListKept == Inv /\ List => Inv'
<1> SUFFICES ASSUME Inv, List PROVE Inv'
  OBVIOUS
<1>1. pc = "list" /\ UNCHANGED <<registry, latest, obedient, results, changes, steady, named>>
  BY DEF List
<1>2. CASE Fail /\ UNCHANGED pages
  BY <1>1, <1>2 DEF Fail, Inv, TypeOK, Observed, Collected, Chosen, Imaged, Listing, Resolving
<1>3. CASE /\ listed' = listed \cup Page
           /\ cursor' \in IF obedient THEN NextCursor ELSE 0..(MaxPages + 1)
           /\ pc' \in {"failed", "choose", "list"} /\ (pc' = "choose" => cursor' = Start)
  <2>1. Page \subseteq Tag
    BY DEF Page, After, Present
  <2>2. obedient => /\ cursor' \in Int
                    /\ cursor' = Start => steady \subseteq listed'
                    /\ \A t \in steady : t <= cursor' => t \in listed'
    BY <1>1, <1>3, PageCollects DEF Inv, Collected
  <2>3. ~obedient => cursor' \in Int
    <3>1. MaxPages \in Nat
      BY BoundAssumption
    <3> QED
      BY <1>3, <3>1
  <2>4. TypeOK'
    BY <1>1, <1>3, <2>1, <2>2, <2>3 DEF Inv, TypeOK
  <2>5. Collected'
    BY <1>1, <1>3, <2>2 DEF Collected, Resolving
  <2>6. Observed' /\ Chosen' /\ Imaged'
    BY <1>1, <1>3 DEF Inv, Observed, Chosen, Imaged, Listing, Resolving, Present
  <2> QED
    BY <2>4, <2>5, <2>6 DEF Inv
<1> QED
  BY <1>2, <1>3 DEF List

LEMMA ChangeKept == ASSUME Inv, NEW t \in Tag, NEW i \in Image \cup {NoImage}, Change(t, i) PROVE Inv'
<1>1. /\ registry' = [registry EXCEPT ![t] = i]
      /\ steady' = IF i = NoImage THEN steady \ {t} ELSE steady
      /\ named' = IF i = NoImage THEN named ELSE named \cup {<<t, i>>}
      /\ UNCHANGED <<latest, obedient, pc, pages, results>>
  BY DEF Change
<1>2. registry'[t] = i /\ \A u \in Tag : u # t => registry'[u] = registry[u]
  BY <1>1 DEF Inv, TypeOK
<1>3. TypeOK'
  BY <1>1 DEF Inv, TypeOK
<1>4. Observed'
  BY <1>1, <1>2 DEF Inv, Observed, Present
<1>5. Collected'
  BY <1>1 DEF Inv, Collected
<1>6. Chosen' /\ Imaged'
  BY <1>1 DEF Inv, Chosen, Imaged, Fetched
<1> QED
  BY <1>3, <1>4, <1>5, <1>6 DEF Inv

(* Every step keeps the invariant.                                         *)
LEMMA StepInv == Inv /\ [Next]_vars => Inv'
<1> SUFFICES ASSUME Inv, [Next]_vars PROVE Inv'
  OBVIOUS
<1> USE DEF Listing, Resolving
<1>1. CASE DiscoverNPM
  BY <1>1 DEF DiscoverNPM, Inv, TypeOK, Observed, Collected, Chosen, Imaged
<1>2. CASE Token
  <2>1. \A t \in steady' : t > 0 /\ t \in Int
    BY <1>2, TagAssumption DEF Token, Present
  <2> QED
    BY <1>2, <2>1 DEF Token, Inv, TypeOK, Observed, Collected, Chosen, Imaged, Present, Start
<1>3. CASE List
  BY <1>3, ListKept
<1>4. CASE Choose
  <2>1. \/ Fail /\ UNCHANGED version
        \/ version' \in Newest(listed \cap Eligible) /\ pc' = "index"
    BY <1>4 DEF Choose
  <2>2. pc' = "index" => version' \in Tag /\ \A t \in listed \cap Eligible : ~Older[version'][t]
    BY <2>1 DEF Fail, Newest, Inv, TypeOK
  <2>3. Chosen'
    BY <1>4, <2>1, <2>2 DEF Choose, Fail, Chosen
  <2> QED
    BY <1>4, <2>1, <2>3 DEF Choose, Fail, Inv, TypeOK, Observed, Collected, Imaged, Present
<1>5. CASE Resolve
  <2>1. registry[version] # NoImage => registry[version] \in Image /\ <<version, registry[version]>> \in named
    BY <1>5 DEF Resolve, Inv, TypeOK, Observed, Chosen, Present
  <2> QED
    BY <1>5, <2>1 DEF Resolve, Fail, Inv, TypeOK, Observed, Collected, Chosen, Imaged, Present
<1>6. CASE Finish
  BY <1>6 DEF Finish, Inv, TypeOK, Observed, Collected, Chosen, Imaged, Present, Fetched
<1>7. CASE \E p \in Platform : FetchManifest(p)
  BY <1>7 DEF FetchManifest, Required, Inv, TypeOK, Observed, Collected, Chosen, Imaged, Present
<1>8. CASE RequestFails
  BY <1>8 DEF RequestFails, Running, Fail, Inv, TypeOK, Observed, Collected, Chosen, Imaged
<1>9. CASE \E t \in Tag, i \in Image \cup {NoImage} : Change(t, i)
  BY <1>9, ChangeKept
<1>10. CASE UNCHANGED vars
  BY <1>10 DEF vars, Inv, TypeOK, Observed, Collected, Chosen, Imaged, Present, Fetched
<1> QED
  BY <1>1, <1>2, <1>3, <1>4, <1>5, <1>6, <1>7, <1>8, <1>9, <1>10 DEF Next, Step

-----------------------------------------------------------------------------
(* What holds of every behaviour.                                          *)

THEOREM Invariance == Spec => []Inv
  BY InitInv, StepInv, PTL DEF Spec

(* However tags come and go between two pages, a release that was there    *)
(* all the time is not newer than the one chosen.                          *)
THEOREM NewestIsFound == Spec => []NoSteadyTagIsMissed
<1>1. Inv => NoSteadyTagIsMissed
  BY DEF Inv, Collected, Chosen, Resolving, NoSteadyTagIsMissed
<1> QED
  BY <1>1, Invariance, PTL

(* A plan has every platform of one image, which its tag named.            *)
THEOREM OneImage == Spec => []ArtifactsAreOfOneImage
<1>1. Inv => ArtifactsAreOfOneImage
  <2> SUFFICES ASSUME Inv, pc = "done"
               PROVE  artifacts = {<<p, Digest(index, p)>> : p \in Platform}
    BY DEF Inv, Imaged, ArtifactsAreOfOneImage
  <2>1. \A f \in artifacts : \E p \in Platform : f = <<p, Digest(index, p)>>
    BY DEF Inv, Imaged
  <2>2. \A p \in Platform : \E f \in artifacts : f[1] = p
    BY DEF Inv, Imaged, Fetched
  <2>3. \A p \in Platform : <<p, Digest(index, p)>> \in artifacts
    BY <2>1, <2>2
  <2> QED
    BY <2>1, <2>3
<1> QED
  BY <1>1, Invariance, PTL

-----------------------------------------------------------------------------
(* Counting: the least of some numbers, and induction over them.           *)

LEMMA LeastMember ==
  ASSUME NEW T, T \subseteq Nat, T # {}
  PROVE  \E m \in T : \A k \in T : m <= k
<1> DEFINE R == OpToRel(<, Nat)
<1>1. IsWellFoundedOn(R, Nat)
  BY NatLessThanWellFounded
<1>2. \A x, y \in Nat : x < y => <<x, y>> \in R
  BY DEF OpToRel
<1> HIDE DEF R
<1>3. \E x \in T : \A y \in T : ~ (<<y, x>> \in R)
  BY <1>1, WFMin
<1>4. PICK m \in T : \A y \in T : ~ (<<y, m>> \in R)
  BY <1>3
<1>5. ASSUME NEW k \in T PROVE m <= k
  <2>1. k \in Nat /\ m \in Nat /\ ~(k < m)
    BY <1>2, <1>4
  <2> QED
    BY <2>1
<1> QED
  BY <1>5

LEMMA Upwards ==
  ASSUME NEW S, 0 \in S, \A n \in Nat : n \in S => n + 1 \in S
  PROVE  Nat \subseteq S
<1> DEFINE T == Nat \ S
<1>1. SUFFICES ASSUME T # {} PROVE FALSE
  OBVIOUS
<1>2. PICK m \in T : \A k \in T : m <= k
  BY <1>1, LeastMember
<1>3. m \in Nat /\ m \notin S /\ m # 0
  BY <1>2
<1>4. m - 1 \in Nat /\ m - 1 < m /\ (m - 1) + 1 = m
  BY <1>3
<1>5. m - 1 \notin T
  BY <1>2, <1>4
<1> QED
  BY <1>3, <1>4, <1>5

LEMMA MinOf ==
  ASSUME NEW T, T \subseteq Nat, T # {}
  PROVE  Min(T) \in T /\ \A k \in T : Min(T) <= k
<1>1. \E m \in T : \A k \in T : m <= k
  BY LeastMember
<1> QED
  BY <1>1 DEF Min

LEMMA MinIs ==
  ASSUME NEW T, T \subseteq Nat, NEW m \in T, \A k \in T : m <= k
  PROVE  Min(T) = m
<1>1. Min(T) \in T /\ \A k \in T : Min(T) <= k
  BY MinOf
<1>2. Min(T) <= m /\ m <= Min(T) /\ m \in Nat /\ Min(T) \in Nat
  BY <1>1
<1> QED
  BY <1>2

-----------------------------------------------------------------------------
(* Texts with separators.                                                  *)

Lacks(s, c) == \A i \in 1..Len(s) : s[i] # c

(* One text, a separator and another text.                                 *)
LEMMA SeparatedIs ==
  ASSUME NEW t \in Seq(Nat), NEW u \in Seq(Nat), NEW c \in Nat
  PROVE  /\ t \o (<<c>> \o u) \in Seq(Nat)
         /\ Len(t \o (<<c>> \o u)) = Len(t) + 1 + Len(u)
         /\ \A i \in 1..Len(t) : (t \o (<<c>> \o u))[i] = t[i]
         /\ (t \o (<<c>> \o u))[Len(t) + 1] = c
         /\ \A i \in 1..Len(u) : (t \o (<<c>> \o u))[Len(t) + 1 + i] = u[i]
<1>1. <<c>> \in Seq(Nat) /\ Len(<<c>>) = 1 /\ <<c>>[1] = c
  OBVIOUS
<1>2. Len(t) \in Nat /\ Len(u) \in Nat
  OBVIOUS
<1> DEFINE w == <<c>> \o u
           s == t \o w
<1>3. w \in Seq(Nat) /\ Len(w) = 1 + Len(u) /\ w[1] = c /\ \A i \in 1..Len(u) : w[1 + i] = u[i]
  BY <1>1
<1> HIDE DEF w
<1>4. /\ s \in Seq(Nat) /\ Len(s) = Len(t) + Len(w)
      /\ \A i \in 1..Len(t) : s[i] = t[i]
      /\ \A i \in 1..Len(w) : s[Len(t) + i] = w[i]
  <2>1. w \in Seq(Nat) /\ Len(w) \in Nat
    BY <1>3
  <2>2. s \in Seq(Nat) /\ Len(s) = Len(t) + Len(w)
    BY <2>1
  <2>3. ASSUME NEW i \in 1..Len(t) PROVE s[i] = t[i]
    BY <2>1
  <2>4. ASSUME NEW i \in 1..Len(w) PROVE s[Len(t) + i] = w[i]
    BY <1>2, <2>1
  <2> QED
    BY <2>2, <2>3, <2>4
<1> HIDE DEF s
<1>5. s[Len(t) + 1] = c
  BY <1>2, <1>3, <1>4
<1>6. ASSUME NEW i \in 1..Len(u) PROVE s[Len(t) + 1 + i] = u[i]
  <2>1. 1 + i \in 1..Len(w) /\ Len(t) + 1 + i = Len(t) + (1 + i)
    BY <1>2, <1>3
  <2> QED
    BY <1>3, <1>4, <2>1
<1>7. Len(s) = Len(t) + 1 + Len(u)
  BY <1>2, <1>3, <1>4
<1> QED
  BY <1>4, <1>5, <1>6, <1>7 DEF s, w

(* SubSeqProperties, where the bounds lie within the sequence. *)
LEMMA SubSeqIs ==
  ASSUME NEW s \in Seq(Nat), NEW p \in Nat, NEW q \in Nat, p >= 1, q <= Len(s), p <= q + 1
  PROVE  /\ SubSeq(s, p, q) \in Seq(Nat) /\ Len(SubSeq(s, p, q)) = q - p + 1
         /\ \A i \in 1..(q - p + 1) : SubSeq(s, p, q)[i] = s[p + i - 1]
<1>1. \A i \in p..q : s[i] \in Nat
  <2>1. \A i \in p..q : i \in 1..Len(s)
    OBVIOUS
  <2> QED
    BY <2>1
<1>2. /\ SubSeq(s, p, q) \in Seq(Nat)
      /\ Len(SubSeq(s, p, q)) = IF p <= q THEN q - p + 1 ELSE 0
      /\ \A i \in 1..q - p + 1 : SubSeq(s, p, q)[i] = s[p + i - 1]
  BY <1>1, SubSeqProperties
<1>3. (IF p <= q THEN q - p + 1 ELSE 0) = q - p + 1
  OBVIOUS
<1> QED
  BY <1>2, <1>3

(* strings.SplitN finds the first separator.                               *)
LEMMA SplitAtFirst ==
  ASSUME NEW t \in Seq(Nat), NEW u \in Seq(Nat), NEW c \in Nat, Lacks(t, c)
  PROVE  Upto(t \o (<<c>> \o u), c) = t /\ Beyond(t \o (<<c>> \o u), c) = u
<1> DEFINE s == t \o (<<c>> \o u)
           n == Len(t) + 1
           T == {Len(s) + 1} \cup {i \in 1..Len(s) : s[i] = c}
<1>1. /\ s \in Seq(Nat) /\ Len(s) = Len(t) + 1 + Len(u)
      /\ \A i \in 1..Len(t) : s[i] = t[i]
      /\ s[Len(t) + 1] = c
      /\ \A i \in 1..Len(u) : s[Len(t) + 1 + i] = u[i]
  BY SeparatedIs
<1>2. Len(t) \in Nat /\ Len(u) \in Nat
  OBVIOUS
<1> HIDE DEF s
<1>3. T \subseteq Nat
  BY <1>1, <1>2
<1>4. n \in T
  BY <1>1, <1>2
<1>5. ASSUME NEW k \in T PROVE n <= k
  <2>1. CASE k = Len(s) + 1
    BY <1>1, <1>2, <2>1
  <2>2. CASE k \in 1..Len(s) /\ s[k] = c
    <3>1. k \notin 1..Len(t)
      BY <1>1, <2>2 DEF Lacks
    <3> QED
      BY <1>1, <1>2, <2>2, <3>1
  <2> QED
    BY <2>1, <2>2
<1>6. First(s, c) = n
  <2> HIDE DEF T, n
  <2>1. Min(T) = n
    BY <1>3, <1>4, <1>5, MinIs
  <2> QED
    BY <2>1 DEF First, T
<1>7. Upto(s, c) = t
  <2>1. Upto(s, c) = SubSeq(s, 1, Len(t))
    <3>1. n - 1 = Len(t)
      BY <1>2
    <3> QED
      BY <1>6, <3>1 DEF Upto
  <2> DEFINE z == SubSeq(s, 1, Len(t))
  <2>2. z \in Seq(Nat) /\ Len(z) = Len(t) /\ \A i \in 1..Len(t) : z[i] = s[i]
    BY <1>1, <1>2
  <2> HIDE DEF z
  <2>3. z = t
    BY <1>1, <2>2, SeqEqual
  <2> QED
    BY <2>1, <2>3 DEF z
<1>8. Beyond(s, c) = u
  <2>1. Beyond(s, c) = SubSeq(s, Len(t) + 2, Len(s))
    <3>1. n + 1 = Len(t) + 2
      BY <1>2
    <3> QED
      BY <1>6, <3>1 DEF Beyond
  <2> DEFINE z == SubSeq(s, Len(t) + 2, Len(s))
  <2>2. /\ z \in Seq(Nat) /\ Len(z) = Len(u)
        /\ \A i \in 1..Len(u) : z[i] = s[Len(t) + 2 + i - 1]
    <3>1. /\ Len(t) + 2 \in Nat /\ Len(s) \in Nat /\ Len(t) + 2 >= 1 /\ Len(s) <= Len(s)
          /\ Len(t) + 2 <= Len(s) + 1 /\ Len(s) - (Len(t) + 2) + 1 = Len(u)
      BY <1>1, <1>2
    <3>2. /\ z \in Seq(Nat) /\ Len(z) = Len(s) - (Len(t) + 2) + 1
          /\ \A i \in 1..(Len(s) - (Len(t) + 2) + 1) : z[i] = s[Len(t) + 2 + i - 1]
      BY <1>1, <3>1, SubSeqIs
    <3> HIDE DEF z
    <3> QED
      BY <3>1, <3>2
  <2> HIDE DEF z
  <2>3. ASSUME NEW i \in 1..Len(u) PROVE z[i] = u[i]
    <3>1. Len(t) + 2 + i - 1 = Len(t) + 1 + i
      BY <1>2
    <3> QED
      BY <1>1, <2>2, <3>1
  <2>4. z = u
    BY <2>2, <2>3, SeqEqual
  <2> QED
    BY <2>1, <2>4 DEF z
<1> QED
  BY <1>7, <1>8 DEF s

(* A text without the separator stays whole. *)
LEMMA SplitNever ==
  ASSUME NEW s \in Seq(Nat), NEW c, Lacks(s, c)
  PROVE  Upto(s, c) = s
<1> DEFINE T == {Len(s) + 1} \cup {i \in 1..Len(s) : s[i] = c}
<1>1. T = {Len(s) + 1} /\ Len(s) \in Nat
  BY DEF Lacks
<1>2. Min(T) = Len(s) + 1
  <2> HIDE DEF T
  <2>1. T \subseteq Nat /\ Len(s) + 1 \in T /\ \A k \in T : Len(s) + 1 <= k
    BY <1>1
  <2> QED
    BY <2>1, MinIs
<1>3. Upto(s, c) = SubSeq(s, 1, Len(s) + 1 - 1)
  <2>1. First(s, c) = Min(T)
    BY DEF First
  <2> HIDE DEF T
  <2> QED
    BY <1>2, <2>1 DEF Upto
<1>4. Len(s) + 1 - 1 = Len(s)
  BY <1>1
<1> QED
  BY <1>3, <1>4

(* The text between two separators.                                        *)
Cuts(s) == {0, Len(s) + 1} \cup {i \in 1..Len(s) : s[i] = Dot}
Cut(s, i) == Min({j \in Cuts(s) : j > i})

(* A text without a dot is its only part. *)
LEMMA PartsOfOne ==
  ASSUME NEW s \in Seq(Nat), Lacks(s, Dot)
  PROVE  Parts(s) = {s}
<1> DEFINE C == Cuts(s)
<1>1. Len(s) \in Nat
  OBVIOUS
<1>2. C = {0, Len(s) + 1}
  BY DEF Cuts, Lacks
<1>3. Parts(s) = {SubSeq(s, i + 1, Cut(s, i) - 1) : i \in C \ {Len(s) + 1}}
  BY DEF Parts, Cut, Cuts
<1> HIDE DEF C
<1>4. C \ {Len(s) + 1} = {0}
  BY <1>1, <1>2
<1>5. Cut(s, 0) = Len(s) + 1
  <2> DEFINE T == {j \in C : j > 0}
  <2>1. T = {Len(s) + 1}
    BY <1>1, <1>2
  <2> HIDE DEF T
  <2>2. T \subseteq Nat /\ Len(s) + 1 \in T /\ \A k \in T : Len(s) + 1 <= k
    BY <1>1, <2>1
  <2>3. Min(T) = Len(s) + 1
    BY <2>2, MinIs
  <2> QED
    BY <2>3 DEF Cut, T, C
<1>6. Parts(s) = {SubSeq(s, 0 + 1, (Len(s) + 1) - 1)}
  BY <1>3, <1>4, <1>5
<1>7. 0 + 1 = 1 /\ (Len(s) + 1) - 1 = Len(s)
  BY <1>1
<1>8. SubSeq(s, 1, Len(s)) = s
  OBVIOUS
<1> QED
  BY <1>6, <1>7, <1>8

(* Another text after a dot is another part.                               *)
LEMMA PartsOfMore ==
  ASSUME NEW t \in Seq(Nat), NEW u \in Seq(Nat), Lacks(u, Dot)
  PROVE  Parts(t \o (<<Dot>> \o u)) = Parts(t) \cup {u}
<1> DEFINE s == t \o (<<Dot>> \o u)
           m == Len(t)
           k == Len(u)
           C == Cuts(s)
           B == Cuts(t)
<1>1. /\ s \in Seq(Nat) /\ Len(s) = m + 1 + k
      /\ \A i \in 1..m : s[i] = t[i]
      /\ s[m + 1] = Dot
      /\ \A i \in 1..k : s[m + 1 + i] = u[i]
  <2>1. Dot \in Nat
    BY DEF Dot
  <2> QED
    BY <2>1, SeparatedIs
<1>2. m \in Nat /\ k \in Nat
  OBVIOUS
<1>3. Parts(s) = {SubSeq(s, i + 1, Cut(s, i) - 1) : i \in C \ {Len(s) + 1}}
  BY DEF Parts, Cut, Cuts
<1>4. Parts(t) = {SubSeq(t, i + 1, Cut(t, i) - 1) : i \in B \ {m + 1}}
  BY DEF Parts, Cut, Cuts
<1>5. B = {0, m + 1} \cup {i \in 1..m : t[i] = Dot}
  BY DEF Cuts
<1>6. C = {0, Len(s) + 1} \cup {i \in 1..Len(s) : s[i] = Dot}
  BY DEF Cuts
<1>7. Cut(s, m + 1) = Min({j \in C : j > m + 1}) /\ \A i \in B : Cut(s, i) = Min({j \in C : j > i}) /\ Cut(t, i) = Min({j \in B : j > i})
  BY DEF Cut
<1>8. \A i \in 1..k : u[i] # Dot
  BY DEF Lacks
<1> HIDE DEF s, m, k, C, B
<1>9. C = B \cup {m + 1 + k + 1}
  <2>1. ASSUME NEW i \in C PROVE i \in B \cup {m + 1 + k + 1}
    <3>1. CASE i \in 1..Len(s) /\ s[i] = Dot
      <4>1. CASE i \in 1..m
        BY <1>1, <1>5, <3>1, <4>1
      <4>2. CASE i = m + 1
        BY <1>5, <4>2
      <4>3. CASE i > m + 1
        <5>1. i - (m + 1) \in 1..k /\ m + 1 + (i - (m + 1)) = i
          BY <1>1, <1>2, <3>1, <4>3
        <5> QED
          BY <1>1, <1>8, <3>1, <5>1
      <4> QED
        BY <1>1, <1>2, <3>1, <4>1, <4>2, <4>3
    <3> QED
      BY <1>1, <1>5, <1>6, <3>1
  <2>2. ASSUME NEW i \in B PROVE i \in C
    <3>1. CASE i \in 1..m /\ t[i] = Dot
      <4>1. i \in 1..Len(s) /\ s[i] = Dot
        BY <1>1, <1>2, <3>1
      <4> QED
        BY <1>6, <4>1
    <3>2. CASE i = m + 1
      <4>1. i \in 1..Len(s) /\ s[i] = Dot
        BY <1>1, <1>2, <3>2
      <4> QED
        BY <1>6, <4>1
    <3>3. CASE i = 0
      BY <1>6, <3>3
    <3> QED
      BY <1>5, <3>1, <3>2, <3>3
  <2>3. m + 1 + k + 1 \in C
    BY <1>1, <1>6
  <2> QED
    BY <2>1, <2>2, <2>3
<1>10. B \subseteq Nat /\ m + 1 \in B /\ \A i \in B : i <= m + 1
  BY <1>2, <1>5
<1>11. ASSUME NEW i \in B \ {m + 1}
       PROVE  SubSeq(s, i + 1, Cut(s, i) - 1) = SubSeq(t, i + 1, Cut(t, i) - 1)
  <2> DEFINE T == {j \in B : j > i}
             n == Min(T)
             S == {j \in C : j > i}
  <2>1. i \in Nat /\ i < m + 1
    BY <1>2, <1>10, <1>11
  <2>2. T \subseteq Nat /\ m + 1 \in T
    BY <1>10, <2>1
  <2>3. n \in T /\ \A j \in T : n <= j
    <3> HIDE DEF T
    <3> QED
      BY <2>2, MinOf
  <2> HIDE DEF n
  <2>4. n \in Nat /\ n > i /\ n <= m + 1
    BY <1>10, <2>2, <2>3
  <2>5. Min(S) = n
    <3>1. S = T \cup {m + 1 + k + 1}
      BY <1>2, <1>9, <2>1
    <3> HIDE DEF S, T
    <3>2. S \subseteq Nat /\ n \in S /\ \A j \in S : n <= j
      BY <1>2, <2>2, <2>3, <2>4, <3>1
    <3> QED
      BY <3>2, MinIs
  <2>6. Cut(s, i) = n /\ Cut(t, i) = n
    BY <1>7, <1>11, <2>5 DEF n
  <2> DEFINE x == SubSeq(s, i + 1, n - 1)
             y == SubSeq(t, i + 1, n - 1)
  <2>7. x \in Seq(Nat) /\ Len(x) = n - 1 - i /\ \A j \in 1..(n - 1 - i) : x[j] = s[i + 1 + j - 1]
    <3>1. /\ i + 1 \in Nat /\ n - 1 \in Nat /\ i + 1 >= 1 /\ n - 1 <= Len(s) /\ i + 1 <= (n - 1) + 1
          /\ (n - 1) - (i + 1) + 1 = n - 1 - i
      BY <1>1, <1>2, <2>1, <2>4
    <3>2. x \in Seq(Nat) /\ Len(x) = (n - 1) - (i + 1) + 1 /\ \A j \in 1..((n - 1) - (i + 1) + 1) : x[j] = s[i + 1 + j - 1]
      BY <1>1, <3>1, SubSeqIs
    <3> HIDE DEF x
    <3> QED
      BY <3>1, <3>2
  <2>8. y \in Seq(Nat) /\ Len(y) = n - 1 - i /\ \A j \in 1..(n - 1 - i) : y[j] = t[i + 1 + j - 1]
    <3>1. /\ i + 1 \in Nat /\ n - 1 \in Nat /\ i + 1 >= 1 /\ n - 1 <= Len(t) /\ i + 1 <= (n - 1) + 1
          /\ (n - 1) - (i + 1) + 1 = n - 1 - i
      BY <1>2, <2>1, <2>4 DEF m
    <3>2. y \in Seq(Nat) /\ Len(y) = (n - 1) - (i + 1) + 1 /\ \A j \in 1..((n - 1) - (i + 1) + 1) : y[j] = t[i + 1 + j - 1]
      BY <3>1, SubSeqIs
    <3> HIDE DEF y
    <3> QED
      BY <3>1, <3>2
  <2> HIDE DEF x, y
  <2>9. ASSUME NEW j \in 1..(n - 1 - i) PROVE x[j] = y[j]
    <3>1. i + 1 + j - 1 \in 1..m
      BY <1>2, <2>1, <2>4
    <3> QED
      BY <1>1, <2>7, <2>8, <3>1
  <2>10. x = y
    BY <2>7, <2>8, <2>9, SeqEqual
  <2> QED
    BY <2>6, <2>10 DEF x, y
<1>12. SubSeq(s, (m + 1) + 1, Cut(s, m + 1) - 1) = u
  <2> DEFINE S == {j \in C : j > m + 1}
  <2>1. S = {m + 1 + k + 1}
    <3>1. ASSUME NEW j \in S PROVE j = m + 1 + k + 1
      <4>1. j \in C /\ j > m + 1
        OBVIOUS
      <4>2. j \notin B
        <5>1. ASSUME j \in B PROVE FALSE
          <6>1. j \in Nat /\ j <= m + 1
            BY <1>10, <5>1
          <6> HIDE DEF S
          <6> QED
            BY <1>2, <4>1, <6>1
        <5> QED
          BY <5>1
      <4> QED
        BY <1>9, <4>1, <4>2
    <3>2. m + 1 + k + 1 \in S
      BY <1>2, <1>9
    <3> QED
      BY <3>1, <3>2
  <2>2. Min(S) = m + 1 + k + 1
    <3> HIDE DEF S
    <3>1. S \subseteq Nat /\ m + 1 + k + 1 \in S /\ \A j \in S : m + 1 + k + 1 <= j
      BY <1>2, <2>1
    <3> QED
      BY <3>1, MinIs
  <2>3. Cut(s, m + 1) - 1 = Len(s) /\ (m + 1) + 1 = m + 2
    <3> HIDE DEF S
    <3>1. Cut(s, m + 1) = m + 1 + k + 1
      BY <1>7, <2>2 DEF S
    <3> QED
      BY <1>1, <1>2, <3>1
  <2> DEFINE z == SubSeq(s, m + 2, Len(s))
  <2>4. z \in Seq(Nat) /\ Len(z) = k /\ \A i \in 1..k : z[i] = s[m + 2 + i - 1]
    <3>1. m + 2 \in Nat /\ m + 2 >= 1 /\ m + 2 <= Len(s) + 1 /\ Len(s) \in Nat /\ Len(s) <= Len(s) /\ Len(s) - (m + 2) + 1 = k
      BY <1>1, <1>2
    <3>2. z \in Seq(Nat) /\ Len(z) = Len(s) - (m + 2) + 1 /\ \A i \in 1..(Len(s) - (m + 2) + 1) : z[i] = s[m + 2 + i - 1]
      BY <1>1, <3>1, SubSeqIs
    <3> HIDE DEF z
    <3> QED
      BY <3>1, <3>2
  <2> HIDE DEF z
  <2>5. ASSUME NEW i \in 1..k PROVE z[i] = u[i]
    <3>1. m + 2 + i - 1 = m + 1 + i
      BY <1>2
    <3> QED
      BY <1>1, <2>4, <3>1
  <2>6. z = u
    BY <2>4, <2>5, SeqEqual DEF k
  <2> QED
    BY <2>3, <2>6 DEF z
<1>13. C \ {Len(s) + 1} = (B \ {m + 1}) \cup {m + 1}
  BY <1>1, <1>2, <1>9, <1>10
<1> DEFINE p(i) == SubSeq(s, i + 1, Cut(s, i) - 1)
           r(i) == SubSeq(t, i + 1, Cut(t, i) - 1)
<1>14. /\ Parts(s) = {p(i) : i \in C \ {Len(s) + 1}} /\ Parts(t) = {r(i) : i \in B \ {m + 1}}
       /\ p(m + 1) = u /\ \A i \in B \ {m + 1} : p(i) = r(i)
  BY <1>3, <1>4, <1>11, <1>12
<1> HIDE DEF p, r
<1>15. Parts(s) = Parts(t) \cup {u}
  BY <1>13, <1>14
<1> QED
  BY <1>15 DEF s

(* Induction over the recursion of Joined: a function that satisfies its   *)
(* equation exists, and there is only one.                                 *)
Joins(ids, f) ==
  f = [n \in 1..Len(ids) |-> IF n = 1 THEN ids[1] ELSE f[n - 1] \o (<<Dot>> \o ids[n])]

LEMMA JoinedIs ==
  ASSUME NEW ids \in Seq(Seq(Nat)), ids # <<>>
  PROVE  \E f \in [1..Len(ids) -> Seq(Nat)] :
           /\ Joined(ids) = f[Len(ids)] /\ f[1] = ids[1]
           /\ \A n \in 2..Len(ids) : f[n] = f[n - 1] \o (<<Dot>> \o ids[n])
<1> DEFINE N == Len(ids)
           D == <<Dot>>
           Good(m, f) == /\ f \in [1..m -> Seq(Nat)] /\ f[1] = ids[1]
                         /\ \A n \in 2..m : f[n] = f[n - 1] \o (D \o ids[n])
           S == {m \in Nat : m + 1 <= N => \E f : Good(m + 1, f)}
<1>1. N \in Nat /\ N >= 1 /\ (\A n \in 1..N : ids[n] \in Seq(Nat)) /\ D \in Seq(Nat)
  <2>1. N # 0 /\ N \in Nat
    BY EmptySeq
  <2>2. Dot \in Nat
    BY DEF Dot
  <2> QED
    BY <2>1, <2>2
<1> HIDE DEF N, D
<1>2. 0 \in S
  <2> DEFINE f == [n \in 1..1 |-> ids[1]]
  <2>1. 1 \in 1..N /\ ids[1] \in Seq(Nat)
    BY <1>1
  <2>2. Good(0 + 1, f)
    <3>1. f \in [1..1 -> Seq(Nat)] /\ f[1] = ids[1]
      BY <2>1
    <3>2. ASSUME NEW n \in 2..1 PROVE FALSE
      OBVIOUS
    <3>3. 0 + 1 = 1
      OBVIOUS
    <3> HIDE DEF f
    <3> QED
      BY <3>1, <3>2, <3>3
  <2> HIDE DEF Good
  <2> QED
    BY <2>2
<1>3. ASSUME NEW k \in Nat, k \in S PROVE k + 1 \in S
  <2> DEFINE m == k + 1
  <2> SUFFICES ASSUME m + 1 <= N PROVE \E f : Good(m + 1, f)
    <3> HIDE DEF Good
    <3> QED
      OBVIOUS
  <2>1. PICK f : Good(m, f)
    <3> HIDE DEF Good
    <3>1. k + 1 <= N
      BY <1>1
    <3> QED
      BY <1>3, <3>1
  <2>2. m \in Nat /\ m >= 1
    OBVIOUS
  <2> DEFINE top == f[m] \o (D \o ids[m + 1])
             g == [n \in 1..(m + 1) |-> IF n = m + 1 THEN top ELSE f[n]]
  <2> HIDE DEF m
  <2>3. top \in Seq(Nat)
    <3>1. f[m] \in Seq(Nat) /\ m + 1 \in 1..N
      BY <1>1, <2>1, <2>2
    <3>2. ids[m + 1] \in Seq(Nat)
      BY <1>1, <3>1
    <3> DEFINE p == f[m]
               q == ids[m + 1]
    <3> HIDE DEF p, q
    <3>3. p \in Seq(Nat) /\ q \in Seq(Nat)
      BY <3>1, <3>2 DEF p, q
    <3>4. p \o (D \o q) \in Seq(Nat)
      BY <1>1, <3>3
    <3> QED
      BY <3>4 DEF p, q
  <2> HIDE DEF top
  <2>4. g \in [1..(m + 1) -> Seq(Nat)]
    <3>1. \A n \in 1..(m + 1) : n = m + 1 \/ n \in 1..m
      BY <2>2
    <3> QED
      BY <2>1, <2>3, <3>1
  <2>5. g[1] = ids[1]
    <3>1. 1 \in 1..(m + 1) /\ 1 # m + 1
      BY <2>2
    <3> QED
      BY <2>1, <3>1
  <2>6. ASSUME NEW n \in 2..(m + 1) PROVE g[n] = g[n - 1] \o (D \o ids[n])
    <3>1. n - 1 \in 1..(m + 1) /\ n - 1 # m + 1 /\ n \in 1..(m + 1)
      BY <2>2
    <3>2. g[n - 1] = f[n - 1]
      BY <3>1
    <3>3. CASE n = m + 1
      <4>1. g[n] = top /\ n - 1 = m
        BY <2>2, <3>1, <3>3
      <4> QED
        BY <3>2, <3>3, <4>1 DEF top
    <3>4. CASE n # m + 1
      <4>1. g[n] = f[n] /\ n \in 2..m
        BY <2>2, <3>1, <3>4
      <4> QED
        BY <2>1, <3>2, <4>1
    <3> QED
      BY <3>3, <3>4
  <2> HIDE DEF g
  <2>7. Good(m + 1, g)
    BY <2>4, <2>5, <2>6
  <2> QED
    BY <2>7
<1>4. N - 1 \in S /\ (N - 1) + 1 = N
  <2> HIDE DEF S
  <2>1. N - 1 \in Nat /\ (N - 1) + 1 = N
    BY <1>1
  <2>2. Nat \subseteq S
    BY <1>2, <1>3, Upwards
  <2> QED
    BY <2>1, <2>2
<1>5. PICK f : Good(N, f)
  <2> HIDE DEF Good
  <2> QED
    BY <1>1, <1>4
<1> DEFINE step(h, n) == IF n = 1 THEN ids[1] ELSE h[n - 1] \o (D \o ids[n])
<1>6. ASSUME NEW h, Joins(ids, h) PROVE h = f
  <2>1. h = [n \in 1..N |-> step(h, n)] /\ \A n \in 1..N : h[n] = step(h, n)
    BY <1>6 DEF Joins, N, D
  <2> DEFINE T == {k \in Nat : k + 1 <= N => h[k + 1] = f[k + 1]}
  <2>2. 0 \in T
    <3>1. 1 \in 1..N /\ step(h, 1) = ids[1] /\ 0 + 1 = 1
      BY <1>1
    <3>2. h[1] = ids[1]
      BY <2>1, <3>1
    <3> QED
      BY <1>5, <3>1, <3>2
  <2>3. ASSUME NEW k \in Nat, k \in T PROVE k + 1 \in T
    <3> DEFINE m == k + 1
    <3> SUFFICES ASSUME m + 1 <= N PROVE h[m + 1] = f[m + 1]
      OBVIOUS
    <3>1. h[m] = f[m] /\ m + 1 \in 1..N /\ m + 1 \in 2..N /\ (m + 1) - 1 = m /\ m + 1 # 1
      BY <1>1, <2>3
    <3> HIDE DEF m
    <3>2. h[m + 1] = h[m] \o (D \o ids[m + 1])
      BY <2>1, <3>1
    <3>3. f[m + 1] = f[m] \o (D \o ids[m + 1])
      BY <1>5, <3>1
    <3> QED
      BY <3>1, <3>2, <3>3
  <2>4. Nat \subseteq T
    <3> HIDE DEF T
    <3> QED
      BY <2>2, <2>3, Upwards
  <2>5. ASSUME NEW n \in 1..N PROVE h[n] = f[n]
    <3>1. n - 1 \in Nat /\ (n - 1) + 1 = n /\ n <= N
      BY <1>1
    <3>2. n - 1 \in T
      BY <2>4, <3>1
    <3> QED
      BY <3>1, <3>2
  <2>6. f = [n \in 1..N |-> f[n]]
    BY <1>5
  <2>7. h = [n \in 1..N |-> h[n]]
    BY <2>1
  <2> QED
    BY <2>5, <2>6, <2>7
<1>7. Joins(ids, f)
  <2>1. \A n \in 1..N : f[n] = step(f, n)
    <3>1. \A n \in 1..N : n = 1 \/ n \in 2..N
      BY <1>1
    <3>2. ASSUME NEW n \in 2..N PROVE n # 1
      OBVIOUS
    <3> QED
      BY <1>5, <3>1, <3>2
  <2>2. f = [n \in 1..N |-> f[n]]
    BY <1>5
  <2>3. f = [n \in 1..N |-> step(f, n)]
    BY <2>1, <2>2
  <2> QED
    BY <2>3 DEF Joins, N, D
<1> DEFINE c == CHOOSE h : Joins(ids, h)
<1>8. c = f
  <2>1. Joins(ids, c)
    BY <1>7
  <2> HIDE DEF c
  <2> QED
    BY <1>6, <2>1
<1>9. Joined(ids) = c[N]
  BY DEF Joined, Joins, N, D
<1> QED
  BY <1>5, <1>8, <1>9 DEF N, D

(* What is joined has no other separators than the texts had, and splits   *)
(* into them again.                                                        *)
(* A separator brings no other one with it. *)
LEMMA SeparatedLacks ==
  ASSUME NEW t \in Seq(Nat), NEW u \in Seq(Nat), NEW d \in Nat, NEW c \in Nat \ {d},
         Lacks(t, c), Lacks(u, c)
  PROVE  Lacks(t \o (<<d>> \o u), c)
<1> DEFINE s == t \o (<<d>> \o u)
<1>1. /\ Len(s) = Len(t) + 1 + Len(u)
      /\ \A i \in 1..Len(t) : s[i] = t[i]
      /\ s[Len(t) + 1] = d
      /\ \A i \in 1..Len(u) : s[Len(t) + 1 + i] = u[i]
  BY SeparatedIs
<1>2. Len(t) \in Nat /\ Len(u) \in Nat
  OBVIOUS
<1> HIDE DEF s
<1>3. ASSUME NEW i \in 1..Len(s) PROVE s[i] # c
  <2>1. CASE i \in 1..Len(t)
    BY <1>1, <2>1 DEF Lacks
  <2>2. CASE i = Len(t) + 1
    BY <1>1, <2>2
  <2>3. CASE i > Len(t) + 1
    <3> DEFINE j == i - (Len(t) + 1)
    <3>1. j \in 1..Len(u) /\ Len(t) + 1 + j = i
      BY <1>1, <1>2, <2>3
    <3> HIDE DEF j
    <3>2. s[i] = u[j] /\ u[j] # c
      BY <1>1, <3>1 DEF Lacks
    <3> QED
      BY <3>2
  <2>4. i \in 1..Len(t) \/ i = Len(t) + 1 \/ i > Len(t) + 1
    BY <1>1, <1>2
  <2> QED
    BY <2>1, <2>2, <2>3, <2>4
<1>4. Lacks(s, c)
  BY <1>3 DEF Lacks
<1> QED
  BY <1>4 DEF s

LEMMA JoinedLacks ==
  ASSUME NEW ids \in Seq(Seq(Nat)), ids # <<>>, NEW c \in Nat \ {Dot},
         \A i \in 1..Len(ids) : Lacks(ids[i], c)
  PROVE  Joined(ids) \in Seq(Nat) /\ Lacks(Joined(ids), c)
<1> DEFINE N == Len(ids)
<1>1. N \in Nat /\ N >= 1 /\ (\A n \in 1..N : ids[n] \in Seq(Nat) /\ Lacks(ids[n], c))
  <2>1. N # 0 /\ N \in Nat
    BY EmptySeq
  <2> QED
    BY <2>1
<1>2. PICK f \in [1..N -> Seq(Nat)] :
           /\ Joined(ids) = f[N] /\ f[1] = ids[1]
           /\ \A n \in 2..N : f[n] = f[n - 1] \o (<<Dot>> \o ids[n])
  BY JoinedIs
<1> HIDE DEF N
<1> DEFINE S == {k \in Nat : k + 1 <= N => Lacks(f[k + 1], c)}
<1>3. 0 \in S
  <2>1. 0 + 1 = 1 /\ 1 \in 1..N
    BY <1>1
  <2> QED
    BY <1>1, <1>2, <2>1
<1>4. ASSUME NEW k \in Nat, k \in S PROVE k + 1 \in S
  <2> SUFFICES ASSUME (k + 1) + 1 <= N PROVE Lacks(f[(k + 1) + 1], c)
    OBVIOUS
  <2> DEFINE t == f[k + 1]
             u == ids[(k + 1) + 1]
             s == f[(k + 1) + 1]
  <2>1. k + 1 \in 1..N /\ (k + 1) + 1 \in 1..N /\ (k + 1) + 1 \in 2..N /\ ((k + 1) + 1) - 1 = k + 1 /\ k + 1 <= N
    BY <1>1
  <2>2. t \in Seq(Nat) /\ u \in Seq(Nat) /\ Lacks(t, c) /\ Lacks(u, c)
    BY <1>1, <1>2, <1>4, <2>1
  <2>3. s = f[((k + 1) + 1) - 1] \o (<<Dot>> \o u)
    BY <1>2, <2>1
  <2>4. s = t \o (<<Dot>> \o u)
    BY <2>1, <2>3
  <2> HIDE DEF t, u, s
  <2>5. Dot \in Nat
    BY DEF Dot
  <2>6. Lacks(t \o (<<Dot>> \o u), c)
    BY <2>2, <2>5, SeparatedLacks
  <2>7. Lacks(s, c)
    BY <2>4, <2>6
  <2> QED
    BY <2>7 DEF s
<1>5. N - 1 \in S /\ (N - 1) + 1 = N
  <2> HIDE DEF S
  <2>1. N - 1 \in Nat /\ (N - 1) + 1 = N
    BY <1>1
  <2> QED
    BY <1>3, <1>4, <2>1, Upwards
<1>6. Lacks(f[N], c) /\ f[N] \in Seq(Nat)
  BY <1>1, <1>2, <1>5
<1> QED
  BY <1>2, <1>6

(* strings.Split undoes strings.Join. *)
LEMMA JoinedParts ==
  ASSUME NEW ids \in Seq(Seq(Nat)), ids # <<>>,
         \A i \in 1..Len(ids) : Lacks(ids[i], Dot)
  PROVE  Parts(Joined(ids)) = {ids[i] : i \in 1..Len(ids)}
<1> DEFINE N == Len(ids)
<1>1. N \in Nat /\ N >= 1 /\ (\A n \in 1..N : ids[n] \in Seq(Nat) /\ Lacks(ids[n], Dot))
  <2>1. N # 0 /\ N \in Nat
    BY EmptySeq
  <2> QED
    BY <2>1
<1>2. PICK f \in [1..N -> Seq(Nat)] :
           /\ Joined(ids) = f[N] /\ f[1] = ids[1]
           /\ \A n \in 2..N : f[n] = f[n - 1] \o (<<Dot>> \o ids[n])
  BY JoinedIs
<1> HIDE DEF N
<1> DEFINE S == {k \in Nat : k + 1 <= N => Parts(f[k + 1]) = {ids[i] : i \in 1..(k + 1)}}
<1>3. 0 \in S
  <2>1. 0 + 1 = 1 /\ 1 \in 1..N /\ 1..1 = {1}
    BY <1>1
  <2>2. Parts(ids[1]) = {ids[1]}
    BY <1>1, <2>1, PartsOfOne
  <2>3. Parts(f[1]) = {ids[i] : i \in 1..1}
    BY <1>2, <2>1, <2>2
  <2> QED
    BY <2>1, <2>3
<1>4. ASSUME NEW k \in Nat, k \in S PROVE k + 1 \in S
  <2> SUFFICES ASSUME (k + 1) + 1 <= N
               PROVE  Parts(f[(k + 1) + 1]) = {ids[i] : i \in 1..((k + 1) + 1)}
    OBVIOUS
  <2> DEFINE t == f[k + 1]
             u == ids[(k + 1) + 1]
             s == f[(k + 1) + 1]
  <2>1. k + 1 \in 1..N /\ (k + 1) + 1 \in 1..N /\ (k + 1) + 1 \in 2..N /\ ((k + 1) + 1) - 1 = k + 1 /\ k + 1 <= N
    BY <1>1
  <2>2. t \in Seq(Nat) /\ u \in Seq(Nat) /\ Lacks(u, Dot) /\ Parts(t) = {ids[i] : i \in 1..(k + 1)}
    BY <1>1, <1>2, <1>4, <2>1
  <2>3. s = f[((k + 1) + 1) - 1] \o (<<Dot>> \o u)
    BY <1>2, <2>1
  <2>4. s = t \o (<<Dot>> \o u)
    BY <2>1, <2>3
  <2>5. 1..((k + 1) + 1) = 1..(k + 1) \cup {(k + 1) + 1}
    OBVIOUS
  <2>6. {ids[i] : i \in 1..((k + 1) + 1)} = {ids[i] : i \in 1..(k + 1)} \cup {u}
    BY <2>5
  <2> HIDE DEF t, u, s
  <2>7. Parts(s) = Parts(t) \cup {u}
    BY <2>2, <2>4, PartsOfMore
  <2>8. Parts(s) = {ids[i] : i \in 1..((k + 1) + 1)}
    BY <2>2, <2>6, <2>7
  <2> QED
    BY <2>8 DEF s
<1>5. N - 1 \in S /\ (N - 1) + 1 = N
  <2> HIDE DEF S
  <2>1. N - 1 \in Nat /\ (N - 1) + 1 = N
    BY <1>1
  <2> QED
    BY <1>3, <1>4, <2>1, Upwards
<1>6. Parts(f[N]) = {ids[i] : i \in 1..N}
  <2>1. N <= N
    BY <1>1
  <2>2. Parts(f[(N - 1) + 1]) = {ids[i] : i \in 1..((N - 1) + 1)}
    BY <1>5, <2>1
  <2> QED
    BY <1>5, <2>2
<1> QED
  BY <1>2, <1>6 DEF N

(* The texts of a version, and of its build metadata.                      *)
Spelled(v) ==
  /\ v.core \in Seq(Seq(Nat)) /\ Len(v.core) = 3
  /\ \A i \in 1..3 : Lacks(v.core[i], Dot) /\ Lacks(v.core[i], Hyphen) /\ Lacks(v.core[i], Plus)
  /\ v.pre \in Seq(Seq(Nat))
  /\ \A i \in 1..Len(v.pre) : Lacks(v.pre[i], Dot) /\ Lacks(v.pre[i], Plus)

(* Identifiers, of a pre-release or of build metadata. *)
LEMMA IdentifiersAre ==
  ASSUME NEW n \in 0..MaxLength, NEW ids \in [1..n -> Identifier]
  PROVE  /\ ids \in Seq(Seq(Nat)) /\ Len(ids) = n /\ n \in Nat
         /\ \A i \in 1..n : ids[i] \in Identifier /\ Lacks(ids[i], Dot) /\ Lacks(ids[i], Plus)
<1>1. n \in Nat
  BY TextAssumption
<1>2. \A i \in 1..n : ids[i] \in Seq(Nat \ {Dot, Plus})
  BY TextAssumption
<1>3. ASSUME NEW i \in 1..n PROVE ids[i] \in Seq(Nat) /\ Lacks(ids[i], Dot) /\ Lacks(ids[i], Plus)
  <2> DEFINE s == ids[i]
  <2>1. s \in Seq(Nat \ {Dot, Plus})
    BY <1>2
  <2> HIDE DEF s
  <2>2. s \in Seq(Nat) /\ \A k \in 1..Len(s) : s[k] # Dot /\ s[k] # Plus
    BY <2>1
  <2> QED
    BY <2>2 DEF Lacks, s
<1>4. ids \in [1..n -> Seq(Nat)]
  BY <1>3
<1>5. ids \in Seq(Seq(Nat)) /\ Len(ids) = n
  BY <1>1, <1>4
<1> QED
  BY <1>1, <1>3, <1>5

LEMMA VersionIsSpelled ==
  ASSUME NEW v \in Version
  PROVE  Spelled(v)
<1> DEFINE c == v.core
           p == v.pre
<1>1. c \in [1..3 -> Seq(Nat \ {Dot, Hyphen, Plus})]
  BY TextAssumption DEF Version
<1>2. \E n \in 0..MaxLength : p \in [1..n -> Identifier]
  BY DEF Version
<1> HIDE DEF c, p
<1>3. PICK n \in 0..MaxLength : p \in [1..n -> Identifier]
  BY <1>2
<1>4. /\ p \in Seq(Seq(Nat)) /\ Len(p) = n
      /\ \A i \in 1..n : Lacks(p[i], Dot) /\ Lacks(p[i], Plus)
  BY <1>3, IdentifiersAre
<1>5. ASSUME NEW i \in 1..3
      PROVE  c[i] \in Seq(Nat) /\ Lacks(c[i], Dot) /\ Lacks(c[i], Hyphen) /\ Lacks(c[i], Plus)
  <2> DEFINE s == c[i]
  <2>1. s \in Seq(Nat \ {Dot, Hyphen, Plus})
    BY <1>1
  <2> HIDE DEF s
  <2>2. s \in Seq(Nat) /\ \A k \in 1..Len(s) : s[k] # Dot /\ s[k] # Hyphen /\ s[k] # Plus
    BY <2>1
  <2> QED
    BY <2>2 DEF Lacks, s
<1>6. c \in [1..3 -> Seq(Nat)]
  BY <1>1, <1>5
<1>7. c \in Seq(Seq(Nat)) /\ Len(c) = 3
  <2> DEFINE three == 3
  <2>1. three \in Nat /\ c \in [1..three -> Seq(Nat)]
    BY <1>6
  <2> HIDE DEF three
  <2>2. c \in Seq(Seq(Nat)) /\ Len(c) = three
    BY <2>1
  <2> QED
    BY <2>2 DEF three
<1> QED
  BY <1>4, <1>5, <1>7 DEF Spelled, c, p

(* The readers find the pre-release in the text that the watcher wrote.    *)
LEMMA PreReleaseIsFound ==
  ASSUME NEW v, Spelled(v), v.pre # <<>>,
         NEW build, build = <<>> \/ Joined(build) \in Seq(Nat)
  PROVE  PreReleaseText(Upto(Text(v, build), Plus)) = Joined(v.pre)
<1> DEFINE A == Joined(v.core)
           B == Joined(v.pre)
           M == Joined(build)
           s == A \o (<<Hyphen>> \o B)
<1>1. Dot \in Nat /\ Plus \in Nat \ {Dot} /\ Hyphen \in Nat \ {Dot, Plus} /\ Hyphen \in Nat \ {Dot} /\ Plus \in Nat \ {Hyphen}
  BY DEF Dot, Plus, Hyphen
<1>2. A \in Seq(Nat) /\ Lacks(A, Hyphen) /\ Lacks(A, Plus)
  <2>1. v.core # <<>>
    BY DEF Spelled
  <2>2. A \in Seq(Nat) /\ Lacks(A, Hyphen)
    BY <1>1, <2>1, JoinedLacks DEF Spelled
  <2>3. A \in Seq(Nat) /\ Lacks(A, Plus)
    BY <1>1, <2>1, JoinedLacks DEF Spelled
  <2> QED
    BY <2>2, <2>3
<1>3. B \in Seq(Nat) /\ Lacks(B, Plus)
  BY <1>1, JoinedLacks DEF Spelled
<1>4. Text(v, build) = IF build = <<>> THEN (A \o (<<Hyphen>> \o B)) \o <<>> ELSE (A \o (<<Hyphen>> \o B)) \o (<<Plus>> \o M)
  BY DEF Text
<1> HIDE DEF A, B
<1>5. s \in Seq(Nat) /\ Lacks(s, Plus)
  <2>1. s \in Seq(Nat)
    BY <1>1, <1>2, <1>3, SeparatedIs
  <2> QED
    BY <1>1, <1>2, <1>3, <2>1, SeparatedLacks
<1>6. PreReleaseText(s) = B
  BY <1>1, <1>2, <1>3, SplitAtFirst DEF PreReleaseText
<1> HIDE DEF s
<1>7. Upto(Text(v, build), Plus) = s
  <2>1. CASE build = <<>>
    <3>1. Text(v, build) = s
      <4>1. Text(v, build) = s \o <<>>
        BY <1>4, <2>1 DEF s
      <4>2. s \o <<>> = s
        BY <1>5
      <4> QED
        BY <4>1, <4>2
    <3> QED
      BY <1>5, <3>1, SplitNever
  <2>2. CASE build # <<>>
    <3>1. M \in Seq(Nat)
      BY <2>2
    <3> HIDE DEF M
    <3>2. Text(v, build) = s \o (<<Plus>> \o M)
      BY <1>4, <2>2 DEF s
    <3>3. Upto(s \o (<<Plus>> \o M), Plus) = s
      BY <1>1, <1>5, <3>1, SplitAtFirst
    <3> QED
      BY <3>2, <3>3
  <2> QED
    BY <2>1, <2>2
<1> QED
  BY <1>6, <1>7 DEF B

(* A valid text is not empty, and what is joined of one or more is empty   *)
(* only if the one is.                                                     *)
LEMMA JoinedIsEmpty ==
  ASSUME NEW ids \in Seq(Seq(Nat)), ids # <<>>, Joined(ids) = <<>>
  PROVE  ids[1] = <<>>
<1> DEFINE N == Len(ids)
<1>1. N \in Nat /\ N >= 1 /\ \A n \in 1..N : ids[n] \in Seq(Nat)
  <2>1. N # 0 /\ N \in Nat
    BY EmptySeq
  <2> QED
    BY <2>1
<1>2. PICK f \in [1..N -> Seq(Nat)] :
           /\ Joined(ids) = f[N] /\ f[1] = ids[1]
           /\ \A n \in 2..N : f[n] = f[n - 1] \o (<<Dot>> \o ids[n])
  BY JoinedIs
<1> HIDE DEF N
<1>3. CASE N = 1
  BY <1>2, <1>3
<1>4. CASE N # 1
  <2> DEFINE t == f[N - 1]
             u == ids[N]
  <2>1. N \in 2..N /\ N - 1 \in 1..N /\ N \in 1..N
    BY <1>1, <1>4
  <2>2. t \in Seq(Nat) /\ u \in Seq(Nat) /\ Joined(ids) = t \o (<<Dot>> \o u)
    BY <1>1, <1>2, <2>1
  <2> HIDE DEF t, u
  <2>3. Dot \in Nat
    BY DEF Dot
  <2>4. Len(t \o (<<Dot>> \o u)) = Len(t) + 1 + Len(u)
    BY <2>2, <2>3, SeparatedIs
  <2>5. Len(t) \in Nat /\ Len(u) \in Nat /\ Len(<<>>) = 0
    BY <2>2
  <2>6. Len(t) + 1 + Len(u) = 0
    BY <2>2, <2>4, <2>5
  <2> QED
    BY <2>5, <2>6
<1> QED
  BY <1>3, <1>4

(* The two validators accept the same versions, whatever metadata follows. *)
LEMMA ExactIs ==
  ASSUME NEW v, Spelled(v), NEW build,
         build = <<>> \/ (Joined(build) \in Seq(Nat) /\ Joined(build) # <<>>)
  PROVE  ExactVersion(v, build) <=> ValidVersion(v)
<1> DEFINE ids == v.pre
           text == Upto(Text(v, build), Plus)
<1>1. ids \in Seq(Seq(Nat)) /\ \A i \in 1..Len(ids) : Lacks(ids[i], Dot)
  BY DEF Spelled
<1>2. ExactVersion(v, build) <=>
        /\ \A i \in 1..3 : ValidNumber(v.core[i])
        /\ ids # <<>> => Joined(ids) # <<>>
        /\ ids # <<>> => \A id \in Parts(PreReleaseText(text)) : ValidIdentifier(id)
  BY DEF ExactVersion
<1>3. ValidVersion(v) <=>
        /\ \A i \in 1..3 : ValidNumber(v.core[i])
        /\ \A i \in 1..Len(ids) : ValidIdentifier(ids[i])
  BY DEF ValidVersion
<1>4. ids # <<>> => PreReleaseText(text) = Joined(ids)
  BY PreReleaseIsFound
<1> HIDE DEF ids, text
<1>5. CASE ids = <<>>
  <2>1. Len(ids) = 0
    BY <1>5
  <2>2. \A i \in 1..Len(ids) : FALSE
    BY <2>1
  <2> QED
    BY <1>2, <1>3, <1>5, <2>2
<1>6. CASE ids # <<>>
  <2>1. Parts(PreReleaseText(text)) = {ids[i] : i \in 1..Len(ids)}
    BY <1>1, <1>4, <1>6, JoinedParts
  <2>2. (\A id \in Parts(PreReleaseText(text)) : ValidIdentifier(id)) <=> \A i \in 1..Len(ids) : ValidIdentifier(ids[i])
    BY <2>1
  <2>3. ASSUME \A i \in 1..Len(ids) : ValidIdentifier(ids[i]) PROVE Joined(ids) # <<>>
    <3>1. 1 \in 1..Len(ids)
      <4>1. Len(ids) # 0 /\ Len(ids) \in Nat
        BY <1>1, <1>6, EmptySeq
      <4> QED
        BY <4>1
    <3>2. ids[1] # <<>>
      BY <2>3, <3>1 DEF ValidIdentifier
    <3> QED
      BY <1>1, <1>6, <3>2, JoinedIsEmpty
  <2> QED
    BY <1>2, <1>3, <1>6, <2>2, <2>3
<1> QED
  BY <1>5, <1>6

(* What releasewatcher takes for a version (validVersion), the template    *)
(* readers take for one (validExactVersion), build metadata or not.        *)
THEOREM Validators == VersionsSpec => []ValidatorsAgree
<1>1. VersionsInit => a \in Version
  BY DEF VersionsInit
<1>2. a \in Version /\ [VersionsNext]_<<a, b>> => (a \in Version)'
  BY DEF VersionsNext
<1>3. a \in Version => ValidatorsAgree
  <2> SUFFICES ASSUME a \in Version PROVE ValidatorsAgree
    OBVIOUS
  <2>1. Spelled(a)
    BY VersionIsSpelled
  <2>2. ExactVersion(a, <<>>) <=> ValidVersion(a)
    BY <2>1, ExactIs
  <2>3. ASSUME NEW build \in UNION {[1..n -> Identifier \ {<<>>}] : n \in 1..MaxLength}, ValidVersion(a)
        PROVE  ExactVersion(a, build)
    <3>1. PICK n \in 1..MaxLength : build \in [1..n -> Identifier \ {<<>>}]
      OBVIOUS
    <3>2. n \in 0..MaxLength /\ build \in [1..n -> Identifier] /\ 1 \in 1..n
      BY <3>1, TextAssumption
    <3>3. /\ build \in Seq(Seq(Nat)) /\ Len(build) = n
          /\ \A i \in 1..n : Lacks(build[i], Plus)
      BY <3>2, IdentifiersAre
    <3>4. build[1] # <<>> /\ build # <<>>
      BY <3>1, <3>2, <3>3
    <3>5. Plus \in Nat \ {Dot}
      BY DEF Plus, Dot
    <3>6. Joined(build) \in Seq(Nat)
      BY <3>3, <3>4, <3>5, JoinedLacks
    <3>7. Joined(build) # <<>>
      BY <3>3, <3>4, JoinedIsEmpty
    <3> QED
      BY <2>1, <2>3, <3>6, <3>7, ExactIs
  <2> QED
    BY <2>2, <2>3 DEF ValidatorsAgree
<1> QED
  BY <1>1, <1>2, <1>3, PTL DEF VersionsSpec

-----------------------------------------------------------------------------
(* The first difference of two sequences.                                  *)

(* Both ways of comparing two sequences find the same first difference. *)
LEMMA DifferIs ==
  ASSUME NEW S, NEW x \in Seq(S), NEW y \in Seq(S)
  PROVE  /\ Differ(x, y) = {i \in 1..Len(x) : i <= Len(y) /\ x[i] # y[i]}
         /\ Differ(x, y) = Differ(y, x)
         /\ Differ(x, y) # {} =>
              /\ Min(Differ(x, y)) \in Differ(x, y)
              /\ \A i \in Differ(x, y) : Min(Differ(x, y)) <= i
<1> DEFINE m == Min({Len(x), Len(y)})
<1>1. Len(x) \in Nat /\ Len(y) \in Nat
  OBVIOUS
<1>2. m \in {Len(x), Len(y)} /\ m <= Len(x) /\ m <= Len(y)
  <2>1. {Len(x), Len(y)} \subseteq Nat /\ {Len(x), Len(y)} # {}
    BY <1>1
  <2> QED
    BY <2>1, MinOf
<1>3. Differ(x, y) = {i \in 1..m : x[i] # y[i]}
  BY DEF Differ
<1>4. Differ(y, x) = {i \in 1..m : y[i] # x[i]}
  <2>1. {Len(x), Len(y)} = {Len(y), Len(x)}
    OBVIOUS
  <2> QED
    BY <2>1 DEF Differ
<1> HIDE DEF m
<1>5. Differ(x, y) = {i \in 1..Len(x) : i <= Len(y) /\ x[i] # y[i]}
  BY <1>1, <1>2, <1>3
<1>6. Differ(x, y) = Differ(y, x)
  BY <1>3, <1>4
<1>7. Differ(x, y) \subseteq Nat
  BY <1>5
<1> QED
  BY <1>5, <1>6, <1>7, MinOf

(* Sequences that nowhere differ are equal, or one is longer. *)
LEMMA PrefixIs ==
  ASSUME NEW S, NEW x \in Seq(S), NEW y \in Seq(S)
  PROVE  /\ IsStrictPrefix(x, y) <=> Differ(x, y) = {} /\ Len(x) < Len(y)
         /\ x = y <=> Differ(x, y) = {} /\ Len(x) = Len(y)
<1>1. Len(x) \in Nat /\ Len(y) \in Nat
  OBVIOUS
<1>2. Differ(x, y) = {i \in 1..Len(x) : i <= Len(y) /\ x[i] # y[i]}
  BY DifferIs
<1>3. x = y <=> Len(x) = Len(y) /\ \A i \in 1..Len(x) : x[i] = y[i]
  BY SeqEqual
<1>4. x = y <=> Differ(x, y) = {} /\ Len(x) = Len(y)
  BY <1>1, <1>2, <1>3
<1>5. ASSUME Len(x) <= Len(y)
      PROVE  SubSeq(x, 1, Len(x)) = SubSeq(y, 1, Len(x)) <=> Differ(x, y) = {}
  <2>1. SubSeq(x, 1, Len(x)) = x
    OBVIOUS
  <2>2. /\ SubSeq(y, 1, Len(x)) \in Seq(S) /\ Len(SubSeq(y, 1, Len(x))) = Len(x)
        /\ \A i \in 1..Len(x) : SubSeq(y, 1, Len(x))[i] = y[i]
    BY <1>1, <1>5
  <2>3. x = SubSeq(y, 1, Len(x)) <=> \A i \in 1..Len(x) : x[i] = SubSeq(y, 1, Len(x))[i]
    BY <2>2, SeqEqual
  <2> QED
    BY <1>1, <1>2, <1>5, <2>1, <2>2, <2>3
<1>6. IsStrictPrefix(x, y) <=> Len(x) <= Len(y) /\ Differ(x, y) = {} /\ x # y
  BY <1>5 DEF IsStrictPrefix, IsPrefix
<1> QED
  BY <1>1, <1>4, <1>6

(* What comes before the first difference is the same, and only there.     *)
LEMMA FirstDifference ==
  ASSUME NEW S, NEW x \in Seq(S), NEW y \in Seq(S), NEW i \in Differ(x, y)
  PROVE  SubSeq(x, 1, i - 1) = SubSeq(y, 1, i - 1) <=> i = Min(Differ(x, y))
<1> DEFINE m == Min(Differ(x, y))
           u == SubSeq(x, 1, i - 1)
           w == SubSeq(y, 1, i - 1)
<1>1. /\ Differ(x, y) = {k \in 1..Len(x) : k <= Len(y) /\ x[k] # y[k]}
      /\ m \in Differ(x, y) /\ \A k \in Differ(x, y) : m <= k
  BY DifferIs
<1>2. /\ i \in Nat /\ i >= 1 /\ i <= Len(x) /\ i <= Len(y) /\ Len(x) \in Nat /\ Len(y) \in Nat
      /\ m \in Nat /\ m >= 1
  BY <1>1
<1>3. /\ u \in Seq(S) /\ Len(u) = i - 1 /\ \A k \in 1..(i - 1) : u[k] = x[k]
      /\ w \in Seq(S) /\ Len(w) = i - 1 /\ \A k \in 1..(i - 1) : w[k] = y[k]
  BY <1>2
<1>4. u = w <=> \A k \in 1..(i - 1) : x[k] = y[k]
  <2> HIDE DEF u, w
  <2>1. u = w <=> Len(u) = Len(w) /\ \A k \in 1..Len(u) : u[k] = w[k]
    BY <1>3, SeqEqual
  <2> QED
    BY <1>3, <2>1
<1> HIDE DEF m, u, w
<1>5. (\A k \in 1..(i - 1) : x[k] = y[k]) <=> i = m
  <2>1. ASSUME i = m, NEW k \in 1..(i - 1) PROVE x[k] = y[k]
    <3>1. k \in 1..Len(x) /\ k <= Len(y) /\ ~(m <= k)
      BY <1>2, <2>1
    <3> QED
      BY <1>1, <3>1
  <2>2. ASSUME i # m PROVE \E k \in 1..(i - 1) : x[k] # y[k]
    <3>1. m \in 1..(i - 1) /\ x[m] # y[m]
      BY <1>1, <1>2, <2>2
    <3> QED
      BY <3>1
  <2> QED
    BY <2>1, <2>2
<1> QED
  BY <1>4, <1>5 DEF m, u, w

-----------------------------------------------------------------------------
(* Numbers.                                                                *)

(* Induction over the recursion of Value: f holds the value of the first n *)
(* digits.                                                                 *)
Counts(s, f) == f = [n \in 0..Len(s) |-> IF n = 0 THEN 0 ELSE 10 * f[n - 1] + (s[n] - 48)]

LEMMA ValueIs ==
  ASSUME NEW s \in Seq(Nat)
  PROVE  \E f \in [0..Len(s) -> Int] :
           /\ Value(s) = f[Len(s)] /\ f[0] = 0
           /\ \A n \in 1..Len(s) : f[n] = 10 * f[n - 1] + (s[n] - 48)
<1> DEFINE N == Len(s)
           Good(m, f) == /\ f \in [0..m -> Int] /\ f[0] = 0
                         /\ \A n \in 1..m : f[n] = 10 * f[n - 1] + (s[n] - 48)
           S == {m \in Nat : m <= N => \E f : Good(m, f)}
<1>1. N \in Nat /\ \A n \in 1..N : s[n] \in Nat
  OBVIOUS
<1> HIDE DEF N
<1>2. 0 \in S
  <2> DEFINE f == [n \in 0..0 |-> 0]
  <2>1. Good(0, f)
    OBVIOUS
  <2> QED
    BY <2>1
<1>3. ASSUME NEW m \in Nat, m \in S PROVE m + 1 \in S
  <2> SUFFICES ASSUME m + 1 <= N PROVE \E f : Good(m + 1, f)
    <3> HIDE DEF Good
    <3> QED
      OBVIOUS
  <2>1. PICK f : Good(m, f)
    <3> HIDE DEF Good
    <3>1. m <= N
      BY <1>1
    <3> QED
      BY <1>3, <3>1
  <2> DEFINE g == [n \in 0..(m + 1) |-> IF n = m + 1 THEN 10 * f[m] + (s[m + 1] - 48) ELSE f[n]]
  <2>2. f[m] \in Int /\ s[m + 1] \in Nat /\ 10 * f[m] + (s[m + 1] - 48) \in Int
    <3>1. f[m] \in Int /\ s[m + 1] \in Nat
      BY <1>1, <2>1
    <3> QED
      BY <3>1
  <2>3. \A n \in 0..m : f[n] \in Int
    BY <2>1
  <2> DEFINE top == 10 * f[m] + (s[m + 1] - 48)
  <2>4. g[0] = 0
    BY <2>1
  <2>5. g \in [0..(m + 1) -> Int]
    <3> HIDE DEF top
    <3>1. \A n \in 0..(m + 1) : n = m + 1 \/ n \in 0..m
      OBVIOUS
    <3>2. top \in Int
      BY <2>2 DEF top
    <3>3. g = [n \in 0..(m + 1) |-> IF n = m + 1 THEN top ELSE f[n]]
      BY DEF top
    <3> QED
      BY <2>3, <3>1, <3>2, <3>3
  <2>6. ASSUME NEW n \in 1..(m + 1) PROVE g[n] = 10 * g[n - 1] + (s[n] - 48)
    <3>1. n - 1 \in 0..m /\ n - 1 # m + 1 /\ n \in 0..(m + 1) /\ n - 1 \in 0..(m + 1)
      OBVIOUS
    <3>2. g[n - 1] = f[n - 1]
      BY <3>1
    <3>3. CASE n = m + 1
      <4>1. g[n] = 10 * f[m] + (s[m + 1] - 48) /\ n - 1 = m
        BY <3>1, <3>3
      <4> QED
        BY <3>2, <3>3, <4>1
    <3>4. CASE n # m + 1
      <4>1. g[n] = f[n] /\ n \in 1..m
        BY <3>1, <3>4
      <4> QED
        BY <2>1, <3>2, <4>1
    <3> QED
      BY <3>3, <3>4
  <2> HIDE DEF g
  <2>7. Good(m + 1, g)
    BY <2>4, <2>5, <2>6
  <2> QED
    BY <2>7
<1>4. N \in S
  <2> HIDE DEF S
  <2> QED
    BY <1>1, <1>2, <1>3, Upwards
<1>5. PICK f : Good(N, f)
  <2> HIDE DEF Good
  <2> QED
    BY <1>1, <1>4
<1> DEFINE step(h, n) == IF n = 0 THEN 0 ELSE 10 * h[n - 1] + (s[n] - 48)
<1>6. ASSUME NEW h, Counts(s, h) PROVE h = f
  <2>1. h = [n \in 0..N |-> step(h, n)] /\ \A n \in 0..N : h[n] = step(h, n)
    BY <1>6 DEF Counts, N
  <2> DEFINE T == {m \in Nat : m <= N => h[m] = f[m]}
  <2>2. 0 \in T
    <3>1. 0 \in 0..N /\ step(h, 0) = 0
      BY <1>1
    <3> QED
      BY <1>5, <2>1, <3>1
  <2>3. ASSUME NEW m \in Nat, m \in T PROVE m + 1 \in T
    <3> SUFFICES ASSUME m + 1 <= N PROVE h[m + 1] = f[m + 1]
      OBVIOUS
    <3>1. h[m] = f[m] /\ m + 1 \in 0..N /\ m + 1 \in 1..N /\ (m + 1) - 1 = m /\ m + 1 # 0
      BY <1>1, <2>3
    <3>2. h[m + 1] = 10 * h[m] + (s[m + 1] - 48)
      BY <2>1, <3>1
    <3>3. f[m + 1] = 10 * f[m] + (s[m + 1] - 48)
      BY <1>5, <3>1
    <3> QED
      BY <3>1, <3>2, <3>3
  <2>4. Nat \subseteq T
    <3> HIDE DEF T
    <3> QED
      BY <2>2, <2>3, Upwards
  <2>5. \A m \in 0..N : h[m] = f[m]
    BY <1>1, <2>4
  <2>6. DOMAIN f = 0..N /\ f = [n \in 0..N |-> f[n]]
    BY <1>5
  <2>7. h = [n \in 0..N |-> h[n]]
    BY <2>1
  <2> QED
    BY <2>5, <2>6, <2>7
<1>7. Counts(s, f)
  <2>1. \A n \in 0..N : f[n] = step(f, n)
    BY <1>1, <1>5
  <2>2. f = [n \in 0..N |-> f[n]]
    BY <1>5
  <2>3. f = [n \in 0..N |-> step(f, n)]
    BY <2>1, <2>2
  <2> QED
    BY <2>3 DEF Counts, N
<1> DEFINE c == CHOOSE h : Counts(s, h)
<1>8. c = f
  <2>1. Counts(s, c)
    BY <1>7
  <2> HIDE DEF c
  <2> QED
    BY <1>6, <2>1
<1>9. Value(s) = c[N]
  BY DEF Value, Counts, N
<1> QED
  BY <1>5, <1>8, <1>9 DEF N

(* A number is written without leading zeros.                              *)
Numeral(s) == s \in Seq(Nat) /\ AllDigits(s) /\ (Len(s) > 1 => s[1] # 48)

(* What AllDigits says of each digit. *)
LEMMA DigitsIn ==
  ASSUME NEW s \in Seq(Nat), AllDigits(s)
  PROVE  Len(s) >= 1 /\ \A i \in 1..Len(s) : s[i] >= 48 /\ s[i] <= 57
<1>1. s # <<>> /\ {s[i] : i \in DOMAIN s} \subseteq 48..57
  BY DEF AllDigits, ToSet, Digits
<1>2. Len(s) # 0 /\ DOMAIN s = 1..Len(s) /\ Len(s) \in Nat
  BY <1>1, EmptySeq
<1>3. ASSUME NEW i \in 1..Len(s) PROVE s[i] >= 48 /\ s[i] <= 57
  <2>1. s[i] \in {s[k] : k \in DOMAIN s}
    BY <1>2
  <2>2. s[i] \in 48..57
    BY <1>1, <2>1
  <2> QED
    BY <2>2
<1>4. Len(s) >= 1
  BY <1>2
<1> QED
  BY <1>3, <1>4

(* What the recursion of Value runs through.                               *)
Reads(s, f) ==
  /\ f \in [0..Len(s) -> Int] /\ f[0] = 0 /\ Value(s) = f[Len(s)]
  /\ \A n \in 1..Len(s) : s[n] \in 48..57 /\ f[n] = 10 * f[n - 1] + (s[n] - 48)

(* A numeral has such a reading. *)
LEMMA NumeralReads ==
  ASSUME NEW s, Numeral(s)
  PROVE  /\ Len(s) \in Nat /\ Len(s) >= 1
         /\ \E f : Reads(s, f)
         /\ Len(s) > 1 => s[1] # 48
         /\ \A i \in 1..Len(s) : s[i] \in 48..57
<1>1. s \in Seq(Nat) /\ AllDigits(s) /\ (Len(s) > 1 => s[1] # 48)
  BY DEF Numeral
<1>2. Len(s) >= 1 /\ \A i \in 1..Len(s) : s[i] >= 48 /\ s[i] <= 57
  BY <1>1, DigitsIn
<1>3. Len(s) \in Nat /\ \A i \in 1..Len(s) : s[i] \in Nat
  BY <1>1
<1>4. \A i \in 1..Len(s) : s[i] \in 48..57
  BY <1>2, <1>3
<1>5. \E f \in [0..Len(s) -> Int] :
           /\ Value(s) = f[Len(s)] /\ f[0] = 0
           /\ \A n \in 1..Len(s) : f[n] = 10 * f[n - 1] + (s[n] - 48)
  BY <1>1, ValueIs
<1>6. \E f : Reads(s, f)
  BY <1>4, <1>5 DEF Reads
<1> QED
  BY <1>1, <1>2, <1>3, <1>4, <1>6

(* A value that is greater stays greater, whatever digits follow.          *)
LEMMA GreaterStays ==
  ASSUME NEW x, NEW y, NEW f, NEW g, Reads(x, f), Reads(y, g), Len(x) \in Nat, Len(y) \in Nat,
         NEW i \in 0..Len(x), NEW j \in 0..Len(y), Len(x) - i = Len(y) - j, f[i] > g[j]
  PROVE  Value(x) \in Int /\ Value(y) \in Int /\ Value(x) > Value(y)
<1> DEFINE M == Len(x)
           N == Len(y)
<1>6. M \in Nat /\ N \in Nat /\ i \in 0..M /\ j \in 0..N /\ M - i = N - j /\ f[i] > g[j]
  OBVIOUS
<1>7. /\ f \in [0..M -> Int] /\ Value(x) = f[M]
      /\ \A n \in 1..M : x[n] \in 48..57 /\ f[n] = 10 * f[n - 1] + (x[n] - 48)
  BY DEF Reads
<1>8. /\ g \in [0..N -> Int] /\ Value(y) = g[N]
      /\ \A n \in 1..N : y[n] \in 48..57 /\ g[n] = 10 * g[n - 1] + (y[n] - 48)
  BY DEF Reads
<1> HIDE DEF M, N
<1> DEFINE S == {k \in Nat : i + k <= M => f[i + k] > g[j + k]}
<1>1. 0 \in S
  BY <1>6
<1>2. ASSUME NEW k \in Nat, k \in S PROVE k + 1 \in S
  <2> SUFFICES ASSUME i + (k + 1) <= M PROVE f[i + (k + 1)] > g[j + (k + 1)]
    OBVIOUS
  <2>1. /\ i + (k + 1) \in 1..M /\ (i + (k + 1)) - 1 = i + k /\ i + k \in 0..M
        /\ j + (k + 1) \in 1..N /\ (j + (k + 1)) - 1 = j + k /\ j + k \in 0..N
    BY <1>6
  <2>2. f[i + k] > g[j + k] /\ f[i + k] \in Int /\ g[j + k] \in Int
    BY <1>2, <1>6, <1>7, <1>8, <2>1
  <2>3. f[i + (k + 1)] = 10 * f[i + k] + (x[i + (k + 1)] - 48) /\ x[i + (k + 1)] \in 48..57
    BY <1>7, <2>1
  <2>4. g[j + (k + 1)] = 10 * g[j + k] + (y[j + (k + 1)] - 48) /\ y[j + (k + 1)] \in 48..57
    BY <1>8, <2>1
  <2> DEFINE p == f[i + k]
             q == g[j + k]
             c == x[i + (k + 1)]
             d == y[j + (k + 1)]
  <2>5. p \in Int /\ q \in Int /\ p > q /\ c \in 48..57 /\ d \in 48..57
    BY <2>2, <2>3, <2>4
  <2>6. f[i + (k + 1)] = 10 * p + (c - 48) /\ g[j + (k + 1)] = 10 * q + (d - 48)
    BY <2>3, <2>4
  <2> HIDE DEF p, q, c, d
  <2>7. 10 * p + (c - 48) > 10 * q + (d - 48)
    BY <2>5
  <2> QED
    BY <2>6, <2>7
<1>3. M - i \in S
  <2> HIDE DEF S
  <2>1. M - i \in Nat
    BY <1>6
  <2> QED
    BY <1>1, <1>2, <2>1, Upwards
<1>4. M - i \in Nat /\ i + (M - i) = M /\ j + (M - i) = N
  BY <1>6
<1>5. f[i + (M - i)] > g[j + (M - i)]
  BY <1>3, <1>4
<1>9. f[M] \in Int /\ g[N] \in Int
  BY <1>6, <1>7, <1>8
<1> QED
  BY <1>4, <1>5, <1>7, <1>8, <1>9

(* More digits, with no leading zero, are more.                            *)
LEMMA LongerIsGreater ==
  ASSUME NEW x, NEW y, Numeral(x), Numeral(y), Len(x) > Len(y)
  PROVE  Value(x) \in Int /\ Value(y) \in Int /\ Value(x) > Value(y)
<1>1. /\ Len(x) \in Nat /\ Len(x) >= 1 /\ \E f : Reads(x, f)
      /\ (Len(x) > 1 => x[1] # 48) /\ \A i \in 1..Len(x) : x[i] \in 48..57
  BY NumeralReads
<1>2. Len(y) \in Nat /\ Len(y) >= 1 /\ \E f : Reads(y, f)
  BY NumeralReads
<1>3. PICK f : Reads(x, f)
  BY <1>1
<1>4. PICK g : Reads(y, g)
  BY <1>2
<1> DEFINE M == Len(x)
           N == Len(y)
<1>5. M \in Nat /\ N \in Nat /\ M > N /\ M >= 1 /\ N >= 1
  BY <1>1, <1>2
<1>6. /\ f \in [0..M -> Int] /\ f[0] = 0 /\ Value(x) = f[M]
      /\ \A n \in 1..M : x[n] \in 48..57 /\ f[n] = 10 * f[n - 1] + (x[n] - 48)
  BY <1>3 DEF Reads
<1>7. /\ g \in [0..N -> Int] /\ g[0] = 0 /\ Value(y) = g[N]
      /\ \A n \in 1..N : y[n] \in 48..57 /\ g[n] = 10 * g[n - 1] + (y[n] - 48)
  BY <1>4 DEF Reads
<1>8. 1 \in 1..M /\ x[1] \in 48..57 /\ x[1] # 48
  BY <1>1, <1>5
<1> HIDE DEF M, N
<1> DEFINE S == {n \in Nat : n + 1 <= M => f[n + 1] >= 1}
<1>9. 0 \in S
  <2>1. f[1] = 10 * f[0] + (x[1] - 48)
    <3>1. f[1] = 10 * f[1 - 1] + (x[1] - 48)
      BY <1>6, <1>8
    <3>2. 1 - 1 = 0
      OBVIOUS
    <3> QED
      BY <3>1, <3>2
  <2> DEFINE c == x[1]
  <2>2. c \in 48..57 /\ c # 48 /\ f[1] = 10 * 0 + (c - 48)
    BY <1>6, <1>8, <2>1
  <2> HIDE DEF c
  <2>3. f[1] >= 1
    BY <2>2
  <2>4. 0 + 1 = 1 /\ 0 \in Nat
    OBVIOUS
  <2> QED
    BY <2>3, <2>4
<1>10. ASSUME NEW n \in Nat, n \in S PROVE n + 1 \in S
  <2> SUFFICES ASSUME (n + 1) + 1 <= M PROVE f[(n + 1) + 1] >= 1
    OBVIOUS
  <2>1. (n + 1) + 1 \in 1..M /\ ((n + 1) + 1) - 1 = n + 1 /\ n + 1 \in 0..M /\ n + 1 <= M
    BY <1>5
  <2> DEFINE p == f[n + 1]
             k == (n + 1) + 1
             c == x[k]
  <2>2. p \in Int /\ p >= 1
    BY <1>6, <1>10, <2>1
  <2>3. c \in 48..57 /\ f[k] = 10 * f[k - 1] + (c - 48)
    BY <1>6, <2>1
  <2>4. f[k - 1] = p
    BY <2>1
  <2> HIDE DEF p, c
  <2>5. f[k] = 10 * p + (c - 48)
    BY <2>3, <2>4
  <2>6. 10 * p + (c - 48) >= 1
    BY <2>2, <2>3
  <2> QED
    BY <2>5, <2>6
<1>11. Nat \subseteq S
  <2> HIDE DEF S
  <2> QED
    BY <1>9, <1>10, Upwards
<1> DEFINE i == M - N
<1>12. /\ i \in 0..M /\ 0 \in 0..N /\ M - i = N - 0 /\ i - 1 \in Nat /\ (i - 1) + 1 = i /\ i <= M
       /\ f[i] > g[0]
  <2>1. i \in 0..M /\ 0 \in 0..N /\ M - i = N - 0 /\ i - 1 \in Nat /\ (i - 1) + 1 = i /\ i <= M
    BY <1>5
  <2> HIDE DEF i
  <2>2. i - 1 \in S
    BY <1>11, <2>1
  <2>3. f[i] >= 1 /\ f[i] \in Int
    BY <1>6, <2>1, <2>2
  <2> QED
    BY <1>7, <2>1, <2>3
<1> HIDE DEF i, S
<1> QED
  BY <1>1, <1>2, <1>3, <1>4, <1>12, GreaterStays DEF M, N

(* Of two numbers of the same length the first different digit decides.    *)
LEMMA FirstGreater ==
  ASSUME NEW x, NEW y, Numeral(x), Numeral(y), Len(x) = Len(y),
         Differ(x, y) # {} => x[Min(Differ(x, y))] > y[Min(Differ(x, y))]
  PROVE  /\ Value(x) \in Int /\ Value(y) \in Int
         /\ Differ(x, y) = {} => Value(x) = Value(y)
         /\ Differ(x, y) # {} => Value(x) > Value(y)
<1>1. x \in Seq(Nat) /\ y \in Seq(Nat)
  BY DEF Numeral
<1>2. Len(x) \in Nat /\ Len(x) >= 1 /\ \E f : Reads(x, f)
  BY NumeralReads
<1>3. Len(y) \in Nat /\ Len(y) >= 1 /\ \E f : Reads(y, f)
  BY NumeralReads
<1>4. PICK f : Reads(x, f)
  BY <1>2
<1>5. PICK g : Reads(y, g)
  BY <1>3
<1> DEFINE N == Len(x)
           D == Differ(x, y)
<1>6. /\ f \in [0..N -> Int] /\ f[0] = 0 /\ Value(x) = f[N]
      /\ \A n \in 1..N : x[n] \in 48..57 /\ f[n] = 10 * f[n - 1] + (x[n] - 48)
  BY <1>4 DEF Reads
<1>7. /\ g \in [0..N -> Int] /\ g[0] = 0 /\ Value(y) = g[N]
      /\ \A n \in 1..N : y[n] \in 48..57 /\ g[n] = 10 * g[n - 1] + (y[n] - 48)
  BY <1>5 DEF Reads
<1>8. /\ D = {i \in 1..Len(x) : i <= Len(y) /\ x[i] # y[i]}
      /\ D # {} => Min(D) \in D /\ \A i \in D : Min(D) <= i
  BY <1>1, DifferIs
<1>9. D = {i \in 1..N : x[i] # y[i]} /\ N \in Nat /\ N >= 1
  BY <1>2, <1>8
<1> HIDE DEF N, D
<1>10. ASSUME NEW m \in 0..N, \A i \in 1..m : x[i] = y[i] PROVE f[m] = g[m]
  <2> DEFINE S == {n \in Nat : n <= m => f[n] = g[n]}
  <2>1. 0 \in S
    BY <1>6, <1>7
  <2>2. ASSUME NEW n \in Nat, n \in S PROVE n + 1 \in S
    <3> SUFFICES ASSUME n + 1 <= m PROVE f[n + 1] = g[n + 1]
      OBVIOUS
    <3>1. n + 1 \in 1..N /\ n + 1 \in 1..m /\ (n + 1) - 1 = n /\ n <= m
      BY <1>9
    <3>2. f[n] = g[n] /\ x[n + 1] = y[n + 1]
      BY <1>10, <2>2, <3>1
    <3>3. f[n + 1] = 10 * f[(n + 1) - 1] + (x[n + 1] - 48)
      BY <1>6, <3>1
    <3>4. g[n + 1] = 10 * g[(n + 1) - 1] + (y[n + 1] - 48)
      BY <1>7, <3>1
    <3> QED
      BY <3>1, <3>2, <3>3, <3>4
  <2>3. Nat \subseteq S
    <3> HIDE DEF S
    <3> QED
      BY <2>1, <2>2, Upwards
  <2>4. m \in Nat /\ m <= m
    BY <1>9
  <2> QED
    BY <2>3, <2>4
<1>11. f[N] \in Int /\ g[N] \in Int
  BY <1>6, <1>7, <1>9
<1>12. ASSUME D = {} PROVE Value(x) = Value(y)
  <2>1. \A i \in 1..N : x[i] = y[i]
    BY <1>9, <1>12
  <2>2. N \in 0..N
    BY <1>9
  <2>3. f[N] = g[N]
    BY <1>10, <2>1, <2>2
  <2> QED
    BY <1>6, <1>7, <2>3
<1>13. ASSUME D # {} PROVE Value(x) > Value(y)
  <2> DEFINE i == Min(D)
  <2>1. i \in D /\ \A k \in D : i <= k
    BY <1>8, <1>13
  <2>2. x[i] > y[i]
    BY <1>13 DEF D
  <2> HIDE DEF i
  <2>3. i \in 1..N /\ \A k \in 1..N : k < i => x[k] = y[k]
    <3>1. ASSUME NEW k \in 1..N, k < i PROVE x[k] = y[k]
      <4>1. i \in 1..N
        BY <1>9, <2>1
      <4>2. ~(i <= k)
        BY <3>1, <4>1, <1>9
      <4> QED
        BY <1>9, <2>1, <4>2
    <3> QED
      BY <1>9, <2>1, <3>1
  <2>4. i \in 0..N /\ i - 1 \in 0..N
    BY <1>9, <2>3
  <2>5. \A k \in 1..(i - 1) : x[k] = y[k]
    <3>1. ASSUME NEW k \in 1..(i - 1) PROVE k \in 1..N /\ k < i
      BY <1>9, <2>3
    <3> QED
      BY <2>3, <3>1
  <2>6. f[i - 1] = g[i - 1] /\ f[i - 1] \in Int
    BY <1>6, <1>10, <2>4, <2>5
  <2>7. f[i] = 10 * f[i - 1] + (x[i] - 48) /\ x[i] \in 48..57
    BY <1>6, <2>3
  <2>8. g[i] = 10 * g[i - 1] + (y[i] - 48) /\ y[i] \in 48..57
    BY <1>7, <2>3
  <2> DEFINE p == f[i - 1]
             c == x[i]
             d == y[i]
  <2>9. p \in Int /\ c \in 48..57 /\ d \in 48..57 /\ c > d /\ f[i] = 10 * p + (c - 48) /\ g[i] = 10 * p + (d - 48)
    BY <2>2, <2>6, <2>7, <2>8
  <2> HIDE DEF p, c, d
  <2>10. f[i] > g[i]
    BY <2>9
  <2>11. Len(x) - i = Len(y) - i /\ i \in 0..Len(x) /\ i \in 0..Len(y)
    BY <2>4 DEF N
  <2> QED
    BY <1>2, <1>3, <1>4, <1>5, <2>10, <2>11, GreaterStays
<1> QED
  BY <1>6, <1>7, <1>11, <1>12, <1>13 DEF D

(* So the comparison of digit strings is that of their values.             *)
LEMMA NumericIs ==
  ASSUME NEW x, NEW y, Numeral(x), Numeral(y)
  PROVE  Value(x) \in Int /\ Value(y) \in Int /\ NumericCompare(x, y) = Sign(Value(x), Value(y))
<1>1. x \in Seq(Nat) /\ y \in Seq(Nat) /\ Len(x) \in Nat /\ Len(y) \in Nat
  BY DEF Numeral
<1>2. ASSUME Len(x) > Len(y)
      PROVE Value(x) \in Int /\ Value(y) \in Int /\ NumericCompare(x, y) = Sign(Value(x), Value(y))
  <2>1. Value(x) \in Int /\ Value(y) \in Int /\ Value(x) > Value(y)
    BY <1>2, LongerIsGreater
  <2>2. NumericCompare(x, y) = Sign(Len(x), Len(y))
    BY <1>1, <1>2 DEF NumericCompare
  <2> QED
    BY <1>1, <1>2, <2>1, <2>2 DEF Sign
<1>3. ASSUME Len(y) > Len(x)
      PROVE Value(x) \in Int /\ Value(y) \in Int /\ NumericCompare(x, y) = Sign(Value(x), Value(y))
  <2>1. Value(x) \in Int /\ Value(y) \in Int /\ Value(y) > Value(x)
    BY <1>3, LongerIsGreater
  <2>2. NumericCompare(x, y) = Sign(Len(x), Len(y))
    BY <1>1, <1>3 DEF NumericCompare
  <2> QED
    BY <1>1, <1>3, <2>1, <2>2 DEF Sign
<1>4. ASSUME Len(x) = Len(y)
      PROVE Value(x) \in Int /\ Value(y) \in Int /\ NumericCompare(x, y) = Sign(Value(x), Value(y))
  <2> DEFINE D == Differ(x, y)
             i == Min(D)
             p == x[i]
             q == y[i]
  <2>1. /\ D = {} => NumericCompare(x, y) = Sign(Len(x), Len(y))
        /\ D # {} => NumericCompare(x, y) = Sign(p, q)
    BY <1>1, <1>4 DEF NumericCompare, StringCompare
  <2>2. D = Differ(y, x) /\ D = {k \in 1..Len(x) : k <= Len(y) /\ x[k] # y[k]} /\ (D # {} => i \in D)
    BY <1>1, DifferIs
  <2>3. D # {} => p \in Nat /\ q \in Nat /\ p # q
    <3> SUFFICES ASSUME D # {} PROVE p \in Nat /\ q \in Nat /\ p # q
      OBVIOUS
    <3> HIDE DEF D, i
    <3>1. i \in 1..Len(x) /\ i \in 1..Len(y) /\ x[i] # y[i]
      BY <1>1, <1>4, <2>2
    <3> QED
      BY <1>1, <3>1
  <2>4. ASSUME D # {} => p > q
        PROVE  /\ Value(x) \in Int /\ Value(y) \in Int
               /\ D = {} => Value(x) = Value(y)
               /\ D # {} => Value(x) > Value(y)
    <3>1. Differ(x, y) # {} => x[Min(Differ(x, y))] > y[Min(Differ(x, y))]
      BY <2>4
    <3> QED
      BY <1>4, <3>1, FirstGreater
  <2>5. ASSUME D # {} => q > p
        PROVE  /\ Value(x) \in Int /\ Value(y) \in Int
               /\ D = {} => Value(y) = Value(x)
               /\ D # {} => Value(y) > Value(x)
    <3>1. Differ(y, x) # {} => y[Min(Differ(y, x))] > x[Min(Differ(y, x))]
      BY <2>2, <2>5
    <3>2. /\ Value(y) \in Int /\ Value(x) \in Int
          /\ Differ(y, x) = {} => Value(y) = Value(x)
          /\ Differ(y, x) # {} => Value(y) > Value(x)
      BY <1>4, <3>1, FirstGreater
    <3> QED
      BY <2>2, <3>2
  <2> HIDE DEF D, i, p, q
  <2>6. Sign(Len(x), Len(y)) = 0
    BY <1>1, <1>4 DEF Sign
  <2>7. CASE D = {}
    <3>1. Value(x) \in Int /\ Value(y) \in Int /\ Value(x) = Value(y)
      BY <2>4, <2>7
    <3>2. NumericCompare(x, y) = 0
      BY <2>1, <2>6, <2>7
    <3> QED
      BY <3>1, <3>2 DEF Sign
  <2>8. CASE D # {} /\ p > q
    <3>1. Value(x) \in Int /\ Value(y) \in Int /\ Value(x) > Value(y)
      BY <2>4, <2>8
    <3>2. NumericCompare(x, y) = 1
      BY <2>1, <2>8 DEF Sign
    <3> QED
      BY <3>1, <3>2 DEF Sign
  <2>9. CASE D # {} /\ q > p
    <3>1. Value(x) \in Int /\ Value(y) \in Int /\ Value(y) > Value(x)
      BY <2>5, <2>9
    <3>2. NumericCompare(x, y) = -1
      BY <2>1, <2>3, <2>9 DEF Sign
    <3> QED
      BY <3>1, <3>2 DEF Sign
  <2> QED
    BY <2>3, <2>7, <2>8, <2>9
<1> QED
  BY <1>1, <1>2, <1>3, <1>4

(* A comparison decides an order.                                          *)
Decides(c, xy, yx) == c \in {-1, 0, 1} /\ (c = -1 <=> xy) /\ (c = 1 <=> yx)

(* Sign decides the order of numbers. *)
LEMMA SignDecides ==
  ASSUME NEW p \in Int, NEW q \in Int
  PROVE  Decides(Sign(p, q), p < q, q < p)
BY DEF Sign, Decides

(* Words are compared as the specification has it.                         *)
LEMMA StringIs ==
  ASSUME NEW x \in Seq(Nat), NEW y \in Seq(Nat)
  PROVE  Decides(StringCompare(x, y),
                 \/ IsStrictPrefix(x, y)
                 \/ \E i \in Differ(x, y) : x[i] < y[i] /\ SubSeq(x, 1, i - 1) = SubSeq(y, 1, i - 1),
                 \/ IsStrictPrefix(y, x)
                 \/ \E i \in Differ(y, x) : y[i] < x[i] /\ SubSeq(y, 1, i - 1) = SubSeq(x, 1, i - 1))
<1> DEFINE D == Differ(x, y)
           m == Min(D)
           p == x[m]
           q == y[m]
           xy == \E i \in Differ(x, y) : x[i] < y[i] /\ SubSeq(x, 1, i - 1) = SubSeq(y, 1, i - 1)
           yx == \E i \in Differ(y, x) : y[i] < x[i] /\ SubSeq(y, 1, i - 1) = SubSeq(x, 1, i - 1)
<1>1. D = Differ(y, x) /\ D = {k \in 1..Len(x) : k <= Len(y) /\ x[k] # y[k]} /\ (D # {} => m \in D)
  BY DifferIs
<1>2. D # {} => p \in Int /\ q \in Int
  <2> SUFFICES ASSUME D # {} PROVE p \in Int /\ q \in Int
    OBVIOUS
  <2> HIDE DEF D, m
  <2>1. m \in 1..Len(x) /\ m \in 1..Len(y)
    BY <1>1
  <2> QED
    BY <2>1
<1>3. xy <=> D # {} /\ p < q
  <2>1. \A i \in D : SubSeq(x, 1, i - 1) = SubSeq(y, 1, i - 1) <=> i = m
    BY FirstDifference
  <2> HIDE DEF m
  <2> QED
    BY <1>1, <2>1
<1>4. yx <=> D # {} /\ q < p
  <2>1. \A i \in D : SubSeq(x, 1, i - 1) = SubSeq(y, 1, i - 1) <=> i = m
    BY FirstDifference
  <2> HIDE DEF m
  <2> QED
    BY <1>1, <2>1
<1>5. /\ IsStrictPrefix(x, y) <=> D = {} /\ Len(x) < Len(y)
      /\ IsStrictPrefix(y, x) <=> D = {} /\ Len(y) < Len(x)
  BY <1>1, PrefixIs
<1>6. StringCompare(x, y) = IF D = {} THEN Sign(Len(x), Len(y)) ELSE Sign(p, q)
  BY DEF StringCompare
<1>7. Len(x) \in Int /\ Len(y) \in Int
  OBVIOUS
<1> HIDE DEF D, m, p, q, xy, yx
<1>8. Decides(StringCompare(x, y), IsStrictPrefix(x, y) \/ xy, IsStrictPrefix(y, x) \/ yx)
  <2>1. CASE D = {}
    <3>1. Decides(Sign(Len(x), Len(y)), Len(x) < Len(y), Len(y) < Len(x))
      BY <1>7, SignDecides
    <3> QED
      BY <1>3, <1>4, <1>5, <1>6, <2>1, <3>1 DEF Decides
  <2>2. CASE D # {}
    <3>1. Decides(Sign(p, q), p < q, q < p)
      BY <1>2, <2>2, SignDecides
    <3> QED
      BY <1>3, <1>4, <1>5, <1>6, <2>2, <3>1 DEF Decides
  <2> QED
    BY <2>1, <2>2
<1> QED
  BY <1>8 DEF xy, yx

(* A valid identifier is a numeral, if a number at all.                    *)
LEMMA IdentifierIs ==
  ASSUME NEW x \in Seq(Nat), NEW y \in Seq(Nat), ValidIdentifier(x), ValidIdentifier(y)
  PROVE  Decides(IdentifierCompare(x, y), IdentifierBefore(x, y), IdentifierBefore(y, x))
<1> DEFINE p == AllDigits(x)
           q == AllDigits(y)
<1>1. p \in BOOLEAN /\ q \in BOOLEAN
  BY DEF AllDigits
<1>2. CASE p /\ q
  <2>1. Numeral(x) /\ Numeral(y)
    BY <1>2 DEF ValidIdentifier, Numeral
  <2>2. Value(x) \in Int /\ Value(y) \in Int /\ NumericCompare(x, y) = Sign(Value(x), Value(y))
    BY <2>1, NumericIs
  <2>3. Decides(Sign(Value(x), Value(y)), Value(x) < Value(y), Value(y) < Value(x))
    BY <2>2, SignDecides
  <2>4. IdentifierCompare(x, y) = NumericCompare(x, y)
    BY <1>2 DEF IdentifierCompare
  <2>5. /\ IdentifierBefore(x, y) <=> Value(x) < Value(y)
        /\ IdentifierBefore(y, x) <=> Value(y) < Value(x)
    BY <1>2 DEF IdentifierBefore
  <2> QED
    BY <2>2, <2>3, <2>4, <2>5 DEF Decides
<1>3. CASE p /\ ~q
  <2>1. IdentifierBefore(x, y) <=> p
    BY <1>1, <1>3 DEF IdentifierBefore
  <2>2. IdentifierBefore(y, x) <=> q
    BY <1>1, <1>3 DEF IdentifierBefore
  <2>3. IdentifierCompare(x, y) = -1
    BY <1>3 DEF IdentifierCompare
  <2> QED
    BY <1>3, <2>1, <2>2, <2>3 DEF Decides
<1>4. CASE ~p /\ q
  <2>1. IdentifierBefore(x, y) <=> p
    BY <1>1, <1>4 DEF IdentifierBefore
  <2>2. IdentifierBefore(y, x) <=> q
    BY <1>1, <1>4 DEF IdentifierBefore
  <2>3. IdentifierCompare(x, y) = 1
    BY <1>4 DEF IdentifierCompare
  <2> QED
    BY <1>4, <2>1, <2>2, <2>3 DEF Decides
<1>5. CASE ~p /\ ~q
  <2> DEFINE xy == \/ IsStrictPrefix(x, y)
                   \/ \E i \in Differ(x, y) : x[i] < y[i] /\ SubSeq(x, 1, i - 1) = SubSeq(y, 1, i - 1)
             yx == \/ IsStrictPrefix(y, x)
                   \/ \E i \in Differ(y, x) : y[i] < x[i] /\ SubSeq(y, 1, i - 1) = SubSeq(x, 1, i - 1)
  <2>1. Decides(StringCompare(x, y), xy, yx)
    BY StringIs
  <2>2. IdentifierBefore(x, y) <=> xy
    BY <1>1, <1>5 DEF IdentifierBefore
  <2>3. IdentifierBefore(y, x) <=> yx
    BY <1>1, <1>5 DEF IdentifierBefore
  <2>4. IdentifierCompare(x, y) = StringCompare(x, y)
    BY <1>5 DEF IdentifierCompare
  <2> HIDE DEF xy, yx
  <2> QED
    BY <2>1, <2>2, <2>3, <2>4 DEF Decides
<1> QED
  BY <1>1, <1>2, <1>3, <1>4, <1>5

(* Pre-releases.                                                           *)
LEMMA PreReleaseIs ==
  ASSUME NEW x \in Seq(Seq(Nat)), NEW y \in Seq(Seq(Nat)),
         \A i \in 1..Len(x) : ValidIdentifier(x[i]),
         \A i \in 1..Len(y) : ValidIdentifier(y[i])
  PROVE  Decides(PreReleaseCompare(x, y), PreReleaseBefore(x, y), PreReleaseBefore(y, x))
<1> DEFINE D == Differ(x, y)
           m == Min(D)
           p == x[m]
           q == y[m]
           xy == \E i \in Differ(x, y) :
                   IdentifierBefore(x[i], y[i]) /\ SubSeq(x, 1, i - 1) = SubSeq(y, 1, i - 1)
           yx == \E i \in Differ(y, x) :
                   IdentifierBefore(y[i], x[i]) /\ SubSeq(y, 1, i - 1) = SubSeq(x, 1, i - 1)
<1>1. D = Differ(y, x) /\ D = {k \in 1..Len(x) : k <= Len(y) /\ x[k] # y[k]} /\ (D # {} => m \in D)
  BY DifferIs
<1>2. D # {} => /\ p \in Seq(Nat) /\ q \in Seq(Nat) /\ ValidIdentifier(p) /\ ValidIdentifier(q)
                /\ m \in 1..Len(x) /\ m \in 1..Len(y)
  <2> SUFFICES ASSUME D # {}
               PROVE  /\ p \in Seq(Nat) /\ q \in Seq(Nat) /\ ValidIdentifier(p) /\ ValidIdentifier(q)
                      /\ m \in 1..Len(x) /\ m \in 1..Len(y)
    OBVIOUS
  <2> HIDE DEF D, m
  <2>1. m \in 1..Len(x) /\ m \in 1..Len(y)
    BY <1>1
  <2>2. p \in Seq(Nat) /\ q \in Seq(Nat)
    BY <2>1
  <2> QED
    BY <2>1, <2>2
<1>3. \A i \in D : SubSeq(x, 1, i - 1) = SubSeq(y, 1, i - 1) <=> i = m
  BY FirstDifference
<1>4. xy <=> D # {} /\ IdentifierBefore(p, q)
  <2> HIDE DEF m
  <2> QED
    BY <1>1, <1>3
<1>5. yx <=> D # {} /\ IdentifierBefore(q, p)
  <2> HIDE DEF m
  <2> QED
    BY <1>1, <1>3
<1>6. /\ IsStrictPrefix(x, y) <=> D = {} /\ Len(x) < Len(y)
      /\ IsStrictPrefix(y, x) <=> D = {} /\ Len(y) < Len(x)
      /\ x = y <=> D = {} /\ Len(x) = Len(y)
  BY <1>1, PrefixIs
<1>7. /\ Len(x) \in Nat /\ Len(y) \in Nat
      /\ x = <<>> <=> Len(x) = 0
      /\ y = <<>> <=> Len(y) = 0
  BY EmptySeq
<1>8. PreReleaseBefore(x, y) <=> (x # <<>> /\ y = <<>>) \/ (x # <<>> /\ IsStrictPrefix(x, y)) \/ xy
  BY DEF PreReleaseBefore
<1>9. PreReleaseBefore(y, x) <=> (y # <<>> /\ x = <<>>) \/ (y # <<>> /\ IsStrictPrefix(y, x)) \/ yx
  BY DEF PreReleaseBefore
<1>10. PreReleaseCompare(x, y) =
         IF x = y THEN 0 ELSE IF x = <<>> THEN 1 ELSE IF y = <<>> THEN -1
         ELSE IF D # {} THEN IdentifierCompare(p, q)
         ELSE IF Len(x) > Len(y) THEN 1 ELSE -1
  BY DEF PreReleaseCompare
<1> HIDE DEF D, m, p, q, xy, yx
<1>11. CASE D = {}
  <2>1. /\ PreReleaseBefore(x, y) <=> (Len(x) # 0 /\ Len(y) = 0) \/ (Len(x) # 0 /\ Len(x) < Len(y))
        /\ PreReleaseBefore(y, x) <=> (Len(y) # 0 /\ Len(x) = 0) \/ (Len(y) # 0 /\ Len(y) < Len(x))
    BY <1>4, <1>5, <1>6, <1>7, <1>8, <1>9, <1>11
  <2>2. PreReleaseCompare(x, y) =
          IF Len(x) = Len(y) THEN 0 ELSE IF Len(x) = 0 THEN 1 ELSE IF Len(y) = 0 THEN -1
          ELSE IF Len(x) > Len(y) THEN 1 ELSE -1
    BY <1>6, <1>7, <1>10, <1>11
  <2> QED
    BY <1>7, <2>1, <2>2 DEF Decides
<1>12. CASE D # {}
  <2>1. Len(x) # 0 /\ Len(y) # 0 /\ x # y
    BY <1>2, <1>6, <1>7, <1>12
  <2>2. /\ PreReleaseBefore(x, y) <=> IdentifierBefore(p, q)
        /\ PreReleaseBefore(y, x) <=> IdentifierBefore(q, p)
    BY <1>4, <1>5, <1>6, <1>7, <1>8, <1>9, <1>12, <2>1
  <2>3. PreReleaseCompare(x, y) = IdentifierCompare(p, q)
    BY <1>7, <1>10, <1>12, <2>1
  <2>4. Decides(IdentifierCompare(p, q), IdentifierBefore(p, q), IdentifierBefore(q, p))
    BY <1>2, <1>12, IdentifierIs
  <2> QED
    BY <2>2, <2>3, <2>4 DEF Decides
<1> QED
  BY <1>11, <1>12

(* A core number has no leading zero. *)
LEMMA NumberIsNumeral ==
  ASSUME NEW s \in Seq(Nat), ValidNumber(s)
  PROVE  Numeral(s)
<1>1. AllDigits(s) /\ (s[1] = 48 => Len(s) = 1)
  BY DEF ValidNumber
<1>2. ASSUME s[1] = 48 PROVE ~(Len(s) > 1)
  <2>1. Len(s) = 1
    BY <1>1, <1>2
  <2> QED
    BY <2>1
<1> QED
  BY <1>1, <1>2 DEF Numeral

(* The core numbers decide first, then the pre-release.                    *)
LEMMA CompareIs ==
  ASSUME NEW v, NEW w, Spelled(v), Spelled(w), ValidVersion(v), ValidVersion(w)
  PROVE  Decides(CompareVersions(v, w), Precedes(v, w), Precedes(w, v))
<1> DEFINE c(i) == NumericCompare(v.core[i], w.core[i])
           p(i) == Value(v.core[i])
           q(i) == Value(w.core[i])
           D == {i \in 1..3 : c(i) # 0}
           m == Min(D)
           x == v.pre
           y == w.pre
<1>1. ASSUME NEW i \in 1..3 PROVE p(i) \in Int /\ q(i) \in Int /\ c(i) = Sign(p(i), q(i))
  <2>1. Numeral(v.core[i]) /\ Numeral(w.core[i])
    <3>1. v.core[i] \in Seq(Nat) /\ w.core[i] \in Seq(Nat)
      BY DEF Spelled
    <3>2. ValidNumber(v.core[i]) /\ ValidNumber(w.core[i])
      BY DEF ValidVersion
    <3> QED
      BY <3>1, <3>2, NumberIsNumeral
  <2> QED
    BY <2>1, NumericIs
<1>2. Decides(PreReleaseCompare(x, y), PreReleaseBefore(x, y), PreReleaseBefore(y, x))
  <2>1. x \in Seq(Seq(Nat)) /\ y \in Seq(Seq(Nat))
    BY DEF Spelled
  <2>2. (\A i \in 1..Len(x) : ValidIdentifier(x[i])) /\ (\A i \in 1..Len(y) : ValidIdentifier(y[i]))
    BY DEF ValidVersion
  <2> HIDE DEF x, y
  <2> QED
    BY <2>1, <2>2, PreReleaseIs
<1>3. Precedes(v, w) <=>
        \/ \E i \in 1..3 : p(i) < q(i) /\ \A j \in 1..(i - 1) : p(j) = q(j)
        \/ (\A i \in 1..3 : p(i) = q(i)) /\ PreReleaseBefore(x, y)
  BY DEF Precedes
<1>4. Precedes(w, v) <=>
        \/ \E i \in 1..3 : q(i) < p(i) /\ \A j \in 1..(i - 1) : q(j) = p(j)
        \/ (\A i \in 1..3 : q(i) = p(i)) /\ PreReleaseBefore(y, x)
  BY DEF Precedes
<1>5. CompareVersions(v, w) = IF D # {} THEN c(m) ELSE PreReleaseCompare(x, y)
  BY DEF CompareVersions
<1>6. D # {} => m \in D /\ \A i \in D : m <= i
  <2>1. D \subseteq Nat
    OBVIOUS
  <2> HIDE DEF D
  <2> QED
    BY <2>1, MinOf
<1> HIDE DEF x, y, c, p, q, m
<1>7. \A i \in 1..3 : i \in D <=> p(i) # q(i)
  <2>1. ASSUME NEW i \in 1..3 PROVE c(i) # 0 <=> p(i) # q(i)
    BY <1>1 DEF Sign
  <2> QED
    BY <2>1
<1>8. CASE D = {}
  <2>1. \A i \in 1..3 : p(i) = q(i)
    BY <1>7, <1>8
  <2> HIDE DEF D
  <2>2. ASSUME NEW i \in 1..3 PROVE ~(p(i) < q(i)) /\ ~(q(i) < p(i))
    BY <1>1, <2>1
  <2>3. Precedes(v, w) <=> PreReleaseBefore(x, y)
    BY <1>3, <2>1, <2>2
  <2>4. Precedes(w, v) <=> PreReleaseBefore(y, x)
    BY <1>4, <2>1, <2>2
  <2>5. CompareVersions(v, w) = PreReleaseCompare(x, y)
    BY <1>5, <1>8
  <2> QED
    BY <1>2, <2>3, <2>4, <2>5 DEF Decides
<1>9. CASE D # {}
  <2>1. m \in 1..3 /\ p(m) # q(m)
    BY <1>6, <1>7, <1>9
  <2>2. \A j \in 1..(m - 1) : p(j) = q(j)
    <3>1. ASSUME NEW j \in 1..(m - 1) PROVE j \in 1..3 /\ ~(m <= j)
      BY <2>1
    <3>2. ASSUME NEW j \in 1..(m - 1) PROVE j \notin D
      BY <1>6, <1>9, <3>1
    <3> QED
      BY <1>7, <3>1, <3>2
  <2>3. ~ \A i \in 1..3 : p(i) = q(i)
    BY <2>1
  <2> HIDE DEF D
  <2>4. ASSUME NEW i \in 1..3, \A j \in 1..(i - 1) : p(j) = q(j), p(i) # q(i) PROVE i = m
    <3>1. ~(m < i)
      <4>1. ASSUME m < i PROVE FALSE
        <5>1. m \in 1..(i - 1)
          BY <2>1, <4>1
        <5> QED
          BY <2>1, <2>4, <5>1
      <4> QED
        BY <4>1
    <3>2. ~(i < m)
      <4>1. ASSUME i < m PROVE FALSE
        <5>1. i \in 1..(m - 1)
          BY <2>1, <4>1
        <5> QED
          BY <2>2, <2>4, <5>1
      <4> QED
        BY <4>1
    <3> QED
      BY <2>1, <3>1, <3>2
  <2>5. Precedes(v, w) <=> p(m) < q(m)
    <3>1. ASSUME NEW i \in 1..3, p(i) < q(i), \A j \in 1..(i - 1) : p(j) = q(j) PROVE p(m) < q(m)
      <4>1. p(i) # q(i)
        BY <1>1, <3>1
      <4>2. i = m
        BY <2>4, <3>1, <4>1
      <4> QED
        BY <3>1, <4>2
    <3> QED
      BY <1>3, <2>1, <2>2, <2>3, <3>1
  <2>6. Precedes(w, v) <=> q(m) < p(m)
    <3>1. ASSUME NEW i \in 1..3, q(i) < p(i), \A j \in 1..(i - 1) : q(j) = p(j) PROVE q(m) < p(m)
      <4>1. p(i) # q(i) /\ \A j \in 1..(i - 1) : p(j) = q(j)
        BY <1>1, <3>1
      <4>2. i = m
        BY <2>4, <4>1
      <4> QED
        BY <3>1, <4>2
    <3> QED
      BY <1>4, <2>1, <2>2, <2>3, <3>1
  <2>7. CompareVersions(v, w) = Sign(p(m), q(m)) /\ p(m) \in Int /\ q(m) \in Int
    <3>1. CompareVersions(v, w) = c(m)
      BY <1>5, <1>9
    <3> QED
      BY <1>1, <2>1, <3>1
  <2>8. Decides(Sign(p(m), q(m)), p(m) < q(m), q(m) < p(m))
    BY <2>7, SignDecides
  <2> QED
    BY <2>5, <2>6, <2>7, <2>8 DEF Decides
<1> QED
  BY <1>8, <1>9

(* The invariant: both are versions, and the second is valid once chosen.  *)
IVersions == a \in Version /\ (b = a \/ (b \in Version /\ ValidVersion(b)))

(* compareVersions gives the precedence of the Semantic Versioning         *)
(* specification for any two valid versions, of any length.                *)
THEOREM Precedence == VersionsSpec => []CompareIsPrecedence
<1>1. VersionsInit => IVersions
  BY DEF VersionsInit, IVersions
<1>2. IVersions /\ [VersionsNext]_<<a, b>> => IVersions'
  BY DEF VersionsNext, IVersions, Valid
<1>3. IVersions => CompareIsPrecedence
  <2> SUFFICES ASSUME IVersions, ValidVersion(a)
               PROVE  CompareVersions(a, b) = IF Precedes(a, b) THEN -1 ELSE IF Precedes(b, a) THEN 1 ELSE 0
    BY DEF CompareIsPrecedence
  <2>1. a \in Version /\ b \in Version /\ ValidVersion(a) /\ ValidVersion(b)
    BY DEF IVersions
  <2>2. Spelled(a) /\ Spelled(b)
    BY <2>1, VersionIsSpelled
  <2>3. Decides(CompareVersions(a, b), Precedes(a, b), Precedes(b, a))
    BY <2>1, <2>2, CompareIs
  <2> QED
    BY <2>3 DEF Decides
<1> QED
  BY <1>1, <1>2, <1>3, PTL DEF VersionsSpec

-----------------------------------------------------------------------------
(* The order of versions.                                                  *)

(* Only the same texts compare as equal.                                   *)
LEMMA StringTies ==
  ASSUME NEW x \in Seq(Nat), NEW y \in Seq(Nat)
  PROVE  /\ StringCompare(x, y) = 0 => x = y
         /\ NumericCompare(x, y) = 0 => x = y
         /\ NumericCompare(x, x) = 0
<1> DEFINE D == Differ(x, y)
           m == Min(D)
           p == x[m]
           q == y[m]
<1>1. /\ D = {k \in 1..Len(x) : k <= Len(y) /\ x[k] # y[k]} /\ (D # {} => m \in D)
      /\ x = y <=> D = {} /\ Len(x) = Len(y)
  BY DifferIs, PrefixIs
<1>2. D # {} => p \in Int /\ q \in Int /\ p # q
  <2> SUFFICES ASSUME D # {} PROVE p \in Int /\ q \in Int /\ p # q
    OBVIOUS
  <2> HIDE DEF D, m
  <2>1. m \in 1..Len(x) /\ m \in 1..Len(y) /\ x[m] # y[m]
    BY <1>1
  <2> QED
    BY <2>1
<1>3. /\ StringCompare(x, y) = IF D = {} THEN Sign(Len(x), Len(y)) ELSE Sign(p, q)
      /\ NumericCompare(x, y) = IF Len(x) # Len(y) THEN Sign(Len(x), Len(y)) ELSE StringCompare(x, y)
  BY DEF StringCompare, NumericCompare
<1>4. Len(x) \in Int /\ Len(y) \in Int
  OBVIOUS
<1>5. NumericCompare(x, x) = 0
  <2>1. Differ(x, x) = {}
    BY DifferIs
  <2>2. NumericCompare(x, x) = Sign(Len(x), Len(x))
    BY <2>1 DEF StringCompare, NumericCompare
  <2> QED
    BY <1>4, <2>2 DEF Sign
<1> HIDE DEF D, m, p, q
<1>6. Sign(Len(x), Len(y)) = 0 => Len(x) = Len(y)
  BY <1>4 DEF Sign
<1>7. D # {} => Sign(p, q) # 0
  BY <1>2 DEF Sign
<1> QED
  BY <1>1, <1>3, <1>5, <1>6, <1>7

(* The same of identifiers, and below of pre-releases. *)
LEMMA IdentifierTies ==
  ASSUME NEW x \in Seq(Nat), NEW y \in Seq(Nat), IdentifierCompare(x, y) = 0
  PROVE  x = y
<1>1. \/ IdentifierCompare(x, y) = NumericCompare(x, y) \/ IdentifierCompare(x, y) = -1
      \/ IdentifierCompare(x, y) = 1 \/ IdentifierCompare(x, y) = StringCompare(x, y)
  BY DEF IdentifierCompare
<1> QED
  BY <1>1, StringTies

(* Only the same identifiers are a tie. *)
LEMMA PreReleaseTies ==
  ASSUME NEW x \in Seq(Seq(Nat)), NEW y \in Seq(Seq(Nat)), PreReleaseCompare(x, y) = 0
  PROVE  x = y
<1> DEFINE D == Differ(x, y)
           m == Min(D)
<1>1. D = {k \in 1..Len(x) : k <= Len(y) /\ x[k] # y[k]} /\ (D # {} => m \in D)
  BY DifferIs
<1>2. x = y \/ (D # {} /\ IdentifierCompare(x[m], y[m]) = 0)
  BY DEF PreReleaseCompare
<1> HIDE DEF D, m
<1>3. ASSUME D # {}, IdentifierCompare(x[m], y[m]) = 0 PROVE FALSE
  <2>1. m \in 1..Len(x) /\ m \in 1..Len(y) /\ x[m] # y[m]
    BY <1>1, <1>3
  <2>2. x[m] \in Seq(Nat) /\ y[m] \in Seq(Nat)
    BY <2>1
  <2> QED
    BY <1>3, <2>1, <2>2, IdentifierTies
<1> QED
  BY <1>2, <1>3

(* Only a version itself compares as equal.                                *)
LEMMA VersionTies ==
  ASSUME NEW v \in Version, NEW w \in Version
  PROVE  CompareVersions(v, w) = 0 <=> v = w
<1> DEFINE c(i) == NumericCompare(v.core[i], w.core[i])
           D == {i \in 1..3 : c(i) # 0}
           m == Min(D)
<1>1. Spelled(v) /\ Spelled(w)
  BY VersionIsSpelled
<1>2. CompareVersions(v, w) = IF D # {} THEN c(m) ELSE PreReleaseCompare(v.pre, w.pre)
  BY DEF CompareVersions
<1>3. D # {} => m \in D
  <2>1. D \subseteq Nat
    OBVIOUS
  <2> HIDE DEF D
  <2> QED
    BY <2>1, MinOf
<1>4. ASSUME NEW i \in 1..3 PROVE v.core[i] \in Seq(Nat) /\ w.core[i] \in Seq(Nat)
  BY <1>1 DEF Spelled
<1>5. v.pre \in Seq(Seq(Nat)) /\ w.pre \in Seq(Seq(Nat))
  BY <1>1 DEF Spelled
<1>6. ASSUME CompareVersions(v, w) = 0 PROVE v = w
  <2>1. D = {}
    BY <1>2, <1>3, <1>6
  <2>2. ASSUME NEW i \in 1..3 PROVE v.core[i] = w.core[i]
    <3>1. c(i) = 0
      BY <2>1
    <3> QED
      BY <1>4, <3>1, StringTies
  <2>3. v.core = w.core
    <3> DEFINE x == v.core
               y == w.core
               T == Seq(Nat \ {Dot, Hyphen, Plus})
    <3>1. x \in [1..3 -> T] /\ y \in [1..3 -> T]
      BY TextAssumption DEF Version
    <3>2. \A i \in 1..3 : x[i] = y[i]
      BY <2>2
    <3> HIDE DEF x, y, T
    <3>3. x = y
      BY <3>1, <3>2
    <3> QED
      BY <3>3 DEF x, y
  <2>4. v.pre = w.pre
    BY <1>2, <1>5, <1>6, <2>1, PreReleaseTies
  <2>5. v = [core |-> v.core, pre |-> v.pre] /\ w = [core |-> w.core, pre |-> w.pre]
    BY DEF Version
  <2> QED
    BY <2>3, <2>4, <2>5
<1>7. ASSUME v = w PROVE CompareVersions(v, w) = 0
  <2>1. ASSUME NEW i \in 1..3 PROVE c(i) = 0
    BY <1>4, <1>7, StringTies
  <2>2. D = {}
    BY <2>1
  <2>3. PreReleaseCompare(v.pre, w.pre) = 0
    BY <1>7 DEF PreReleaseCompare
  <2> QED
    BY <1>2, <2>2, <2>3
<1> QED
  BY <1>6, <1>7

(* A lexicographic order: x and y agree on their first n elements, and     *)
(* then x ends or has the smaller one.                                     *)
LexAt(x, y, R, n) ==
  /\ n <= Len(x) /\ n < Len(y) /\ \A k \in 1..n : x[k] = y[k]
  /\ n = Len(x) \/ <<x[n + 1], y[n + 1]>> \in R
Lex(x, y, R) == \E n \in Nat : LexAt(x, y, R, n)

(* It is transitive where the order of the elements is. *)
LEMMA LexIsTransitive ==
  ASSUME NEW S, NEW R,
         \A p, q, r \in S : <<p, q>> \in R /\ <<q, r>> \in R => <<p, r>> \in R,
         NEW x \in Seq(S), NEW y \in Seq(S), NEW z \in Seq(S), Lex(x, y, R), Lex(y, z, R)
  PROVE  Lex(x, z, R)
<1>1. PICK n \in Nat : LexAt(x, y, R, n)
  BY DEF Lex
<1>2. PICK m \in Nat : LexAt(y, z, R, m)
  BY DEF Lex
<1>3. /\ n <= Len(x) /\ n < Len(y) /\ \A k \in 1..n : x[k] = y[k]
      /\ n = Len(x) \/ <<x[n + 1], y[n + 1]>> \in R
  BY <1>1 DEF LexAt
<1>4. /\ m <= Len(y) /\ m < Len(z) /\ \A k \in 1..m : y[k] = z[k]
      /\ m = Len(y) \/ <<y[m + 1], z[m + 1]>> \in R
  BY <1>2 DEF LexAt
<1>5. Len(x) \in Nat /\ Len(y) \in Nat /\ Len(z) \in Nat
  OBVIOUS
<1>6. CASE n < m
  <2>1. n + 1 \in 1..m /\ n < Len(z) /\ \A k \in 1..n : k \in 1..m
    BY <1>4, <1>5, <1>6
  <2>2. y[n + 1] = z[n + 1] /\ \A k \in 1..n : x[k] = z[k]
    BY <1>3, <1>4, <2>1
  <2>3. LexAt(x, z, R, n)
    BY <1>3, <2>1, <2>2 DEF LexAt
  <2> QED
    BY <2>3 DEF Lex
<1>7. CASE m < n
  <2>1. m + 1 \in 1..n /\ m <= Len(x) /\ m # Len(y) /\ \A k \in 1..m : k \in 1..n
    BY <1>3, <1>5, <1>7
  <2>2. x[m + 1] = y[m + 1] /\ \A k \in 1..m : x[k] = z[k]
    BY <1>3, <1>4, <2>1
  <2>3. <<x[m + 1], z[m + 1]>> \in R
    BY <1>4, <2>1, <2>2
  <2>4. LexAt(x, z, R, m)
    BY <1>4, <2>1, <2>2, <2>3 DEF LexAt
  <2> QED
    BY <2>4 DEF Lex
<1>8. CASE n = m
  <2>1. n # Len(y) /\ \A k \in 1..n : x[k] = z[k]
    BY <1>3, <1>4, <1>5, <1>8
  <2>2. <<y[n + 1], z[n + 1]>> \in R
    BY <1>4, <1>8, <2>1
  <2>3. n = Len(x) \/ <<x[n + 1], z[n + 1]>> \in R
    <3>1. CASE n = Len(x)
      BY <3>1
    <3>2. CASE n # Len(x)
      <4> DEFINE i == n + 1
      <4>1. i \in 1..Len(x) /\ i \in 1..Len(y) /\ i \in 1..Len(z)
        BY <1>3, <1>4, <1>5, <1>8, <3>2
      <4>2. <<x[i], y[i]>> \in R /\ <<y[i], z[i]>> \in R
        BY <1>3, <2>2, <3>2
      <4> HIDE DEF i
      <4>3. x[i] \in S /\ y[i] \in S /\ z[i] \in S
        BY <4>1
      <4>4. <<x[i], z[i]>> \in R
        BY <4>2, <4>3
      <4> QED
        BY <4>4 DEF i
    <3> QED
      BY <3>1, <3>2
  <2>4. LexAt(x, z, R, n)
    BY <1>3, <1>4, <1>8, <2>1, <2>3 DEF LexAt
  <2> QED
    BY <2>4 DEF Lex
<1>9. n < m \/ m < n \/ n = m
  OBVIOUS
<1> QED
  BY <1>6, <1>7, <1>8, <1>9

(* The form in which the specification has it.                             *)
Foregoes(x, y, R) ==
  \/ IsStrictPrefix(x, y)
  \/ \E i \in Differ(x, y) : <<x[i], y[i]>> \in R /\ SubSeq(x, 1, i - 1) = SubSeq(y, 1, i - 1)

LEMMA LexIs ==
  ASSUME NEW S, NEW R, \A p \in S : <<p, p>> \notin R, NEW x \in Seq(S), NEW y \in Seq(S)
  PROVE  Lex(x, y, R) <=> Foregoes(x, y, R)
<1> DEFINE D == Differ(x, y)
           m == Min(D)
           P == \E i \in Differ(x, y) : <<x[i], y[i]>> \in R /\ SubSeq(x, 1, i - 1) = SubSeq(y, 1, i - 1)
<1>1. D = {k \in 1..Len(x) : k <= Len(y) /\ x[k] # y[k]} /\ (D # {} => m \in D /\ \A i \in D : m <= i)
  BY DifferIs
<1>2. P <=> D # {} /\ <<x[m], y[m]>> \in R
  <2>1. \A i \in D : SubSeq(x, 1, i - 1) = SubSeq(y, 1, i - 1) <=> i = m
    BY FirstDifference
  <2> HIDE DEF m
  <2> QED
    BY <1>1, <2>1
<1>3. IsStrictPrefix(x, y) <=> D = {} /\ Len(x) < Len(y)
  BY PrefixIs
<1>4. Len(x) \in Nat /\ Len(y) \in Nat
  OBVIOUS
<1> HIDE DEF D, m, P
<1>5. ASSUME Lex(x, y, R) PROVE IsStrictPrefix(x, y) \/ P
  <2>1. PICK n \in Nat : LexAt(x, y, R, n)
    BY <1>5 DEF Lex
  <2>2. /\ n <= Len(x) /\ n < Len(y) /\ \A k \in 1..n : x[k] = y[k]
        /\ n = Len(x) \/ <<x[n + 1], y[n + 1]>> \in R
    BY <2>1 DEF LexAt
  <2>3. CASE n = Len(x)
    <3>1. D = {}
      BY <1>1, <2>2, <2>3
    <3> QED
      BY <1>3, <2>2, <2>3, <3>1
  <2>4. CASE n # Len(x)
    <3> DEFINE i == n + 1
    <3>1. i \in 1..Len(x) /\ i \in 1..Len(y) /\ <<x[i], y[i]>> \in R
      BY <1>4, <2>2, <2>4
    <3>2. \A k \in 1..Len(x) : k < i => k \in 1..n
      BY <1>4
    <3> HIDE DEF i
    <3>3. x[i] \in S
      BY <3>1
    <3>4. x[i] # y[i]
      BY <3>1, <3>3
    <3>5. i \in D
      BY <1>1, <1>4, <3>1, <3>4
    <3>6. m \in 1..Len(x) /\ m \notin 1..n /\ m <= i
      BY <1>1, <2>2, <3>5
    <3>7. m = i
      BY <1>4, <3>1, <3>2, <3>6
    <3> QED
      BY <1>2, <3>1, <3>5, <3>7
  <2> QED
    BY <2>3, <2>4
<1>6. ASSUME IsStrictPrefix(x, y) PROVE Lex(x, y, R)
  <2>1. \A k \in 1..Len(x) : x[k] = y[k]
    BY <1>1, <1>3, <1>4, <1>6
  <2>2. LexAt(x, y, R, Len(x))
    BY <1>3, <1>4, <1>6, <2>1 DEF LexAt
  <2> QED
    BY <1>4, <2>2 DEF Lex
<1>7. ASSUME P PROVE Lex(x, y, R)
  <2>1. D # {} /\ <<x[m], y[m]>> \in R /\ m \in 1..Len(x) /\ m <= Len(y) /\ \A i \in D : m <= i
    BY <1>1, <1>2, <1>7
  <2>2. m - 1 \in Nat /\ (m - 1) + 1 = m /\ m - 1 <= Len(x) /\ m - 1 < Len(y)
    BY <1>4, <2>1
  <2>3. ASSUME NEW k \in 1..(m - 1) PROVE x[k] = y[k]
    <3>1. k \in 1..Len(x) /\ k <= Len(y) /\ ~(m <= k)
      BY <1>4, <2>1
    <3> QED
      BY <1>1, <2>1, <3>1
  <2>4. <<x[(m - 1) + 1], y[(m - 1) + 1]>> \in R
    BY <2>1, <2>2
  <2>5. LexAt(x, y, R, m - 1)
    BY <2>2, <2>3, <2>4 DEF LexAt
  <2> QED
    BY <2>2, <2>5 DEF Lex
<1> QED
  BY <1>5, <1>6, <1>7 DEF P, Foregoes

(* Numbers by value, then words lexicographically. *)
LEMMA IdentifierBeforeIsTransitive ==
  ASSUME NEW x \in Seq(Nat), NEW y \in Seq(Nat), NEW z \in Seq(Nat),
         ValidIdentifier(x), ValidIdentifier(y), ValidIdentifier(z),
         IdentifierBefore(x, y), IdentifierBefore(y, z)
  PROVE  IdentifierBefore(x, z)
<1> DEFINE R == {r \in Nat \X Nat : r[1] < r[2]}
           W(s, t) == \/ IsStrictPrefix(s, t)
                      \/ \E i \in Differ(s, t) : s[i] < t[i] /\ SubSeq(s, 1, i - 1) = SubSeq(t, 1, i - 1)
<1>1. ASSUME NEW s \in Seq(Nat), NEW t \in Seq(Nat) PROVE W(s, t) <=> Lex(s, t, R)
  <2>1. Differ(s, t) = {k \in 1..Len(s) : k <= Len(t) /\ s[k] # t[k]}
    BY DifferIs
  <2>2. ASSUME NEW i \in Differ(s, t) PROVE s[i] < t[i] <=> <<s[i], t[i]>> \in R
    <3>1. i \in 1..Len(s) /\ i \in 1..Len(t)
      BY <2>1
    <3>2. s[i] \in Nat /\ t[i] \in Nat
      BY <3>1
    <3> QED
      BY <3>2
  <2>3. \A p \in Nat : <<p, p>> \notin R
    OBVIOUS
  <2>4. W(s, t) <=> Foregoes(s, t, R)
    <3> HIDE DEF R
    <3> QED
      BY <2>2 DEF Foregoes
  <2>5. Lex(s, t, R) <=> Foregoes(s, t, R)
    <3> HIDE DEF R
    <3> QED
      BY <2>3, LexIs
  <2> QED
    BY <2>4, <2>5
<1>2. \A p, q, r \in Nat : <<p, q>> \in R /\ <<q, r>> \in R => <<p, r>> \in R
  OBVIOUS
<1>3. \A s, t : IdentifierBefore(s, t) <=>
        IF AllDigits(s) /\ AllDigits(t) THEN Value(s) < Value(t)
        ELSE IF AllDigits(s) # AllDigits(t) THEN AllDigits(s) ELSE W(s, t)
  BY DEF IdentifierBefore
<1>4. AllDigits(x) \in BOOLEAN /\ AllDigits(y) \in BOOLEAN /\ AllDigits(z) \in BOOLEAN
  BY DEF AllDigits
<1>5. W(x, y) /\ W(y, z) => W(x, z)
  <2>1. (W(x, y) <=> Lex(x, y, R)) /\ (W(y, z) <=> Lex(y, z, R)) /\ (W(x, z) <=> Lex(x, z, R))
    BY <1>1
  <2> HIDE DEF W, R
  <2>2. Lex(x, y, R) /\ Lex(y, z, R) => Lex(x, z, R)
    BY <1>2, LexIsTransitive
  <2> QED
    BY <2>1, <2>2
<1>6. ASSUME AllDigits(x), AllDigits(y), AllDigits(z), Value(x) < Value(y), Value(y) < Value(z) PROVE Value(x) < Value(z)
  <2>1. Numeral(x) /\ Numeral(y) /\ Numeral(z)
    BY <1>6 DEF ValidIdentifier, Numeral
  <2>2. Value(x) \in Int /\ Value(y) \in Int /\ Value(z) \in Int
    BY <2>1, NumericIs
  <2> QED
    BY <1>6, <2>2
<1> HIDE DEF W, R
<1> QED
  BY <1>3, <1>4, <1>5, <1>6

(* Pre-releases lexicographically by their identifiers. *)
LEMMA PreReleaseBeforeIsTransitive ==
  ASSUME NEW x \in Seq(Seq(Nat)), NEW y \in Seq(Seq(Nat)), NEW z \in Seq(Seq(Nat)),
         \A i \in 1..Len(x) : ValidIdentifier(x[i]),
         \A i \in 1..Len(y) : ValidIdentifier(y[i]),
         \A i \in 1..Len(z) : ValidIdentifier(z[i]),
         PreReleaseBefore(x, y), PreReleaseBefore(y, z)
  PROVE  PreReleaseBefore(x, z)
<1> DEFINE V == {s \in Seq(Nat) : ValidIdentifier(s)}
           R == {r \in V \X V : IdentifierBefore(r[1], r[2])}
           W(s, t) == \/ IsStrictPrefix(s, t)
                      \/ \E i \in Differ(s, t) :
                           IdentifierBefore(s[i], t[i]) /\ SubSeq(s, 1, i - 1) = SubSeq(t, 1, i - 1)
<1>1. \A p \in V : <<p, p>> \notin R
  <2>1. ASSUME NEW p \in V PROVE ~IdentifierBefore(p, p)
    <3>1. Decides(IdentifierCompare(p, p), IdentifierBefore(p, p), IdentifierBefore(p, p))
      BY IdentifierIs
    <3> QED
      BY <3>1 DEF Decides
  <2> QED
    BY <2>1
<1>2. \A p, q, r \in V : <<p, q>> \in R /\ <<q, r>> \in R => <<p, r>> \in R
  BY IdentifierBeforeIsTransitive
<1>3. ASSUME NEW s \in Seq(V), NEW t \in Seq(V) PROVE W(s, t) <=> Lex(s, t, R)
  <2>1. Differ(s, t) = {k \in 1..Len(s) : k <= Len(t) /\ s[k] # t[k]}
    BY DifferIs
  <2>2. ASSUME NEW i \in Differ(s, t) PROVE IdentifierBefore(s[i], t[i]) <=> <<s[i], t[i]>> \in R
    <3>1. i \in 1..Len(s) /\ i \in 1..Len(t)
      BY <2>1
    <3>2. s[i] \in V /\ t[i] \in V
      <4> HIDE DEF V
      <4> QED
        BY <3>1
    <3> HIDE DEF V
    <3> QED
      BY <3>2
  <2>4. W(s, t) <=> Foregoes(s, t, R)
    <3> HIDE DEF R
    <3> QED
      BY <2>2 DEF Foregoes
  <2>5. Lex(s, t, R) <=> Foregoes(s, t, R)
    <3> HIDE DEF R, V
    <3> QED
      BY <1>1, LexIs
  <2> QED
    BY <2>4, <2>5
<1>4. x \in Seq(V) /\ y \in Seq(V) /\ z \in Seq(V)
  <2>1. ASSUME NEW s \in Seq(Seq(Nat)), \A i \in 1..Len(s) : ValidIdentifier(s[i]) PROVE s \in Seq(V)
    <3>1. \A i \in 1..Len(s) : s[i] \in V
      BY <2>1
    <3> HIDE DEF V
    <3>2. Len(s) \in Nat /\ s = [i \in 1..Len(s) |-> s[i]]
      OBVIOUS
    <3> DEFINE n == Len(s)
    <3>3. n \in Nat /\ s \in [1..n -> V]
      BY <3>1, <3>2
    <3> HIDE DEF n
    <3> QED
      BY <3>3
  <2> HIDE DEF V
  <2> QED
    BY <2>1
<1>6. ASSUME NEW s \in Seq(Seq(Nat)), NEW t \in Seq(Seq(Nat))
      PROVE  PreReleaseBefore(s, t) <=> s # <<>> /\ (t = <<>> \/ W(s, t))
  <2>1. s = <<>> => Differ(s, t) = {}
    <3>1. Differ(s, t) = {k \in 1..Len(s) : k <= Len(t) /\ s[k] # t[k]}
      BY DifferIs
    <3>2. s = <<>> => Len(s) = 0
      OBVIOUS
    <3> QED
      BY <3>1, <3>2
  <2> QED
    BY <2>1 DEF PreReleaseBefore
<1> HIDE DEF W, R, V
<1>7. x # <<>> /\ y # <<>> /\ W(x, y) /\ (z = <<>> \/ W(y, z))
  BY <1>6
<1>8. z # <<>> => W(x, z)
  <2>1. (W(x, y) <=> Lex(x, y, R)) /\ (W(y, z) <=> Lex(y, z, R)) /\ (W(x, z) <=> Lex(x, z, R))
    BY <1>3, <1>4
  <2>2. Lex(x, y, R) /\ Lex(y, z, R) => Lex(x, z, R)
    BY <1>2, <1>4, LexIsTransitive
  <2> QED
    BY <1>7, <2>1, <2>2
<1> QED
  BY <1>6, <1>7, <1>8

(* The first core number that differs decides, or the pre-release. *)
LEMMA PrecedesIsTransitive ==
  ASSUME NEW u \in Valid, NEW v \in Valid, NEW w \in Valid, Precedes(u, v), Precedes(v, w)
  PROVE  Precedes(u, w)
<1> DEFINE p(i) == Value(u.core[i])
           q(i) == Value(v.core[i])
           r(i) == Value(w.core[i])
           x == u.pre
           y == v.pre
           z == w.pre
<1>1. Spelled(u) /\ Spelled(v) /\ Spelled(w) /\ ValidVersion(u) /\ ValidVersion(v) /\ ValidVersion(w)
  BY VersionIsSpelled DEF Valid
<1>2. ASSUME NEW t, Spelled(t), ValidVersion(t), NEW i \in 1..3 PROVE Value(t.core[i]) \in Int
  <2>1. t.core[i] \in Seq(Nat) /\ ValidNumber(t.core[i])
    BY <1>2 DEF Spelled, ValidVersion
  <2>2. Numeral(t.core[i])
    BY <2>1, NumberIsNumeral
  <2> QED
    BY <2>2, NumericIs
<1>3. \A i \in 1..3 : p(i) \in Int /\ q(i) \in Int /\ r(i) \in Int
  BY <1>1, <1>2
<1>4. /\ x \in Seq(Seq(Nat)) /\ \A i \in 1..Len(x) : ValidIdentifier(x[i])
      /\ y \in Seq(Seq(Nat)) /\ \A i \in 1..Len(y) : ValidIdentifier(y[i])
      /\ z \in Seq(Seq(Nat)) /\ \A i \in 1..Len(z) : ValidIdentifier(z[i])
  BY <1>1 DEF Spelled, ValidVersion
<1>5. /\ \/ \E i \in 1..3 : p(i) < q(i) /\ \A j \in 1..(i - 1) : p(j) = q(j)
         \/ (\A i \in 1..3 : p(i) = q(i)) /\ PreReleaseBefore(x, y)
      /\ \/ \E i \in 1..3 : q(i) < r(i) /\ \A j \in 1..(i - 1) : q(j) = r(j)
         \/ (\A i \in 1..3 : q(i) = r(i)) /\ PreReleaseBefore(y, z)
  BY DEF Precedes
<1>6. Precedes(u, w) <=>
        \/ \E i \in 1..3 : p(i) < r(i) /\ \A j \in 1..(i - 1) : p(j) = r(j)
        \/ (\A i \in 1..3 : p(i) = r(i)) /\ PreReleaseBefore(x, z)
  BY DEF Precedes
<1> HIDE DEF p, q, r, x, y, z
<1>7. CASE (\A i \in 1..3 : p(i) = q(i)) /\ PreReleaseBefore(x, y)
  <2>1. CASE (\A i \in 1..3 : q(i) = r(i)) /\ PreReleaseBefore(y, z)
    <3>1. PreReleaseBefore(x, z)
      BY <1>4, <1>7, <2>1, PreReleaseBeforeIsTransitive
    <3> QED
      BY <1>6, <1>7, <2>1, <3>1
  <2>2. ASSUME NEW i \in 1..3, q(i) < r(i), \A j \in 1..(i - 1) : q(j) = r(j) PROVE Precedes(u, w)
    <3>1. \A j \in 1..(i - 1) : j \in 1..3
      BY <2>2
    <3>2. p(i) < r(i) /\ \A j \in 1..(i - 1) : p(j) = r(j)
      BY <1>7, <2>2, <3>1
    <3> QED
      BY <1>6, <3>2
  <2> QED
    BY <1>5, <2>1, <2>2
<1>8. ASSUME NEW i \in 1..3, p(i) < q(i), \A j \in 1..(i - 1) : p(j) = q(j) PROVE Precedes(u, w)
  <2>1. CASE \A k \in 1..3 : q(k) = r(k)
    <3>1. \A j \in 1..(i - 1) : j \in 1..3
      BY <1>8
    <3>2. p(i) < r(i) /\ \A j \in 1..(i - 1) : p(j) = r(j)
      BY <1>8, <2>1, <3>1
    <3> QED
      BY <1>6, <3>2
  <2>2. ASSUME NEW k \in 1..3, q(k) < r(k), \A j \in 1..(k - 1) : q(j) = r(j) PROVE Precedes(u, w)
    <3>1. CASE k < i
      <4>1. k \in 1..(i - 1) /\ \A j \in 1..(k - 1) : j \in 1..(i - 1)
        BY <1>8, <2>2, <3>1
      <4>2. p(k) < r(k) /\ \A j \in 1..(k - 1) : p(j) = r(j)
        BY <1>8, <2>2, <4>1
      <4> QED
        BY <1>6, <4>2
    <3>2. CASE i < k
      <4>1. i \in 1..(k - 1) /\ \A j \in 1..(i - 1) : j \in 1..(k - 1)
        BY <1>8, <2>2, <3>2
      <4>2. p(i) < r(i) /\ \A j \in 1..(i - 1) : p(j) = r(j)
        BY <1>8, <2>2, <4>1
      <4> QED
        BY <1>6, <4>2
    <3>3. CASE k = i
      <4>1. p(i) < r(i)
        BY <1>3, <1>8, <2>2, <3>3
      <4>2. \A j \in 1..(i - 1) : p(j) = r(j)
        BY <1>8, <2>2, <3>3
      <4> QED
        BY <1>6, <4>1, <4>2
    <3>4. k < i \/ i < k \/ k = i
      BY <1>8, <2>2
    <3> QED
      BY <3>1, <3>2, <3>3, <3>4
  <2> QED
    BY <1>5, <2>1, <2>2
<1> QED
  BY <1>5, <1>7, <1>8

(* compareVersions is a strict total order of the valid versions: only a   *)
(* version itself compares as equal, the answer turns around with the      *)
(* arguments, and it is transitive.  The sort of the tags (discover.go     *)
(* line 177) has one result, and whatever else a registry holds the        *)
(* watcher finds one newest release.                                       *)
THEOREM TotalOrder ==
  \A u, v, w \in Valid :
    /\ CompareVersions(u, v) \in {-1, 0, 1}
    /\ CompareVersions(u, v) = 0 <=> u = v
    /\ CompareVersions(u, v) = -1 <=> CompareVersions(v, u) = 1
    /\ CompareVersions(u, v) = -1 /\ CompareVersions(v, w) = -1 => CompareVersions(u, w) = -1
<1> SUFFICES ASSUME NEW u \in Valid, NEW v \in Valid, NEW w \in Valid
             PROVE  /\ CompareVersions(u, v) \in {-1, 0, 1}
                    /\ CompareVersions(u, v) = 0 <=> u = v
                    /\ CompareVersions(u, v) = -1 <=> CompareVersions(v, u) = 1
                    /\ CompareVersions(u, v) = -1 /\ CompareVersions(v, w) = -1
                         => CompareVersions(u, w) = -1
  OBVIOUS
<1>1. ASSUME NEW s \in Valid, NEW t \in Valid
      PROVE  Decides(CompareVersions(s, t), Precedes(s, t), Precedes(t, s))
  <2>1. Spelled(s) /\ Spelled(t) /\ ValidVersion(s) /\ ValidVersion(t)
    BY VersionIsSpelled DEF Valid
  <2> QED
    BY <2>1, CompareIs
<1>2. CompareVersions(u, v) = 0 <=> u = v
  BY VersionTies DEF Valid
<1>3. /\ Decides(CompareVersions(u, v), Precedes(u, v), Precedes(v, u))
      /\ Decides(CompareVersions(v, u), Precedes(v, u), Precedes(u, v))
      /\ Decides(CompareVersions(v, w), Precedes(v, w), Precedes(w, v))
      /\ Decides(CompareVersions(u, w), Precedes(u, w), Precedes(w, u))
  BY <1>1
<1>4. Precedes(u, v) /\ Precedes(v, w) => Precedes(u, w)
  BY PrecedesIsTransitive
<1> QED
  BY <1>2, <1>3, <1>4 DEF Decides
=============================================================================
