------------------------------ MODULE Versions ------------------------------
(***************************************************************************)
(* validVersion and compareVersions of internal/releasewatcher/semver.go,  *)
(* by which the watcher recognises the newest release and refuses to go    *)
(* back to an older one, checked against the precedence of the Semantic    *)
(* Versioning specification.  Numbers are compared as digit strings, so    *)
(* that none overflows; characters are their ASCII codes.  Next to it      *)
(* validExactVersion of template/validate.go, by which the readers accept  *)
(* the version that the watcher has put into a template.                   *)
(***************************************************************************)
EXTENDS Integers, Sequences, SequencesExt, FiniteSetsExt

CONSTANTS
  Core,        \* major, minor and patch numbers, as digit strings
  Identifier,  \* the pre-release identifiers, valid or not
  MaxLength    \* bound: identifiers in a pre-release

Dot == 46
Hyphen == 45
Plus == 43

(* Texts are sequences of codes; what stands between the dots has none.    *)
ASSUME TextAssumption ==
  /\ Core \subseteq [1..3 -> Seq(Nat \ {Dot, Hyphen, Plus})]
  /\ Identifier \subseteq Seq(Nat \ {Dot, Plus}) /\ MaxLength \in Nat

VARIABLES a, b   \* a version, valid or not, and one to compare it with

Digits == 48..57
Version == [core : Core, pre : UNION {[1..n -> Identifier] : n \in 0..MaxLength}]

-----------------------------------------------------------------------------
AllDigits(s) == s # <<>> /\ ToSet(s) \subseteq Digits

(* versionRE lets a core number have no leading zero, and validVersion     *)
(* refuses one in a numeric identifier.                                    *)
ValidNumber(s) == AllDigits(s) /\ (s[1] = 48 => Len(s) = 1)
ValidIdentifier(s) == s # <<>> /\ (AllDigits(s) /\ Len(s) > 1 => s[1] # 48)
ValidVersion(v) ==
  /\ \A i \in 1..3 : ValidNumber(v.core[i])
  /\ \A i \in 1..Len(v.pre) : ValidIdentifier(v.pre[i])

(* How a version is written, with its build metadata.                      *)
Joined(ids) ==
  LET joined[n \in 1..Len(ids)] ==
        IF n = 1 THEN ids[1] ELSE joined[n - 1] \o (<<Dot>> \o ids[n])
  IN joined[Len(ids)]
Text(v, build) ==
  Joined(v.core) \o (IF v.pre = <<>> THEN <<>> ELSE <<Hyphen>> \o Joined(v.pre))
                 \o (IF build = <<>> THEN <<>> ELSE <<Plus>> \o Joined(build))

(* strings.SplitN(s, c, 2), and strings.Split at the dots.                 *)
First(s, c) == Min({Len(s) + 1} \cup {i \in 1..Len(s) : s[i] = c})
Upto(s, c) == SubSeq(s, 1, First(s, c) - 1)
Beyond(s, c) == SubSeq(s, First(s, c) + 1, Len(s))
Parts(s) ==
  LET cuts == {0, Len(s) + 1} \cup {i \in 1..Len(s) : s[i] = Dot}
  IN {SubSeq(s, i + 1, Min({j \in cuts : j > i}) - 1) : i \in cuts \ {Len(s) + 1}}

(* Mutant of PreReleaseText: the text is split at every hyphen. *)
PreReleaseTextSplit(text) == Upto(Beyond(text, Hyphen), Hyphen)

(* What follows the first hyphen.                                          *)
PreReleaseText(text) == Beyond(text, Hyphen)

(* validExactVersion: the pattern lets a pre-release and metadata be any   *)
(* text with dots; only the identifiers of the first are looked at.        *)
ExactVersion(v, build) ==
  LET text == Upto(Text(v, build), Plus)
  IN /\ \A i \in 1..3 : ValidNumber(v.core[i])
     /\ v.pre # <<>> => Joined(v.pre) # <<>>
     /\ build # <<>> => Joined(build) # <<>>
     /\ v.pre # <<>> => \A id \in Parts(PreReleaseText(text)) : ValidIdentifier(id)

Sign(x, y) == IF x > y THEN 1 ELSE IF x < y THEN -1 ELSE 0

(* Where two sequences first differ, within the shorter one.               *)
Differ(x, y) == {i \in 1..Min({Len(x), Len(y)}) : x[i] # y[i]}

(* strings.Compare.                                                        *)
StringCompare(x, y) ==
  IF Differ(x, y) = {} THEN Sign(Len(x), Len(y))
  ELSE Sign(x[Min(Differ(x, y))], y[Min(Differ(x, y))])

NumericCompare(x, y) ==
  IF Len(x) # Len(y) THEN Sign(Len(x), Len(y)) ELSE StringCompare(x, y)

(* Mutant of IdentifierCompare: a number and a word are compared as words. *)
IdentifierCompareMixed(x, y) ==
  IF AllDigits(x) /\ AllDigits(y) THEN NumericCompare(x, y) ELSE StringCompare(x, y)

(* Lines 67 to 77: a number comes before a word.                           *)
IdentifierCompare(x, y) ==
  IF AllDigits(x) /\ AllDigits(y) THEN NumericCompare(x, y)
  ELSE IF AllDigits(x) THEN -1
  ELSE IF AllDigits(y) THEN 1
  ELSE StringCompare(x, y)

(* Lines 53 to 82: no pre-release comes after any, then the first          *)
(* difference decides, then the length.                                    *)
PreReleaseCompare(x, y) ==
  IF x = y THEN 0
  ELSE IF x = <<>> THEN 1
  ELSE IF y = <<>> THEN -1
  ELSE IF Differ(x, y) # {}
    THEN IdentifierCompare(x[Min(Differ(x, y))], y[Min(Differ(x, y))])
  ELSE IF Len(x) > Len(y) THEN 1 ELSE -1

CompareVersions(v, w) ==
  LET differ == {i \in 1..3 : NumericCompare(v.core[i], w.core[i]) # 0}
  IN IF differ # {} THEN NumericCompare(v.core[Min(differ)], w.core[Min(differ)])
     ELSE PreReleaseCompare(v.pre, w.pre)

Valid == {v \in Version : ValidVersion(v)}

VersionsInit == a \in Version /\ b = a

(* Another valid version to compare a valid one with.                      *)
VersionsNext == ValidVersion(a) /\ b = a /\ b' \in Valid \ {a} /\ UNCHANGED a

VersionsSpec == VersionsInit /\ [][VersionsNext]_<<a, b>>

-----------------------------------------------------------------------------
(* The precedence of the specification (semver.org, item 11), on numbers.  *)

Value(s) ==
  LET value[n \in 0..Len(s)] == IF n = 0 THEN 0 ELSE 10 * value[n - 1] + (s[n] - 48)
  IN value[Len(s)]

IdentifierBefore(x, y) ==
  CASE AllDigits(x) /\ AllDigits(y) -> Value(x) < Value(y)
    [] AllDigits(x) # AllDigits(y)  -> AllDigits(x)
    [] OTHER -> \/ IsStrictPrefix(x, y)
                \/ \E i \in Differ(x, y) : x[i] < y[i] /\ SubSeq(x, 1, i - 1) = SubSeq(y, 1, i - 1)

PreReleaseBefore(x, y) ==
  \/ x # <<>> /\ y = <<>>
  \/ x # <<>> /\ IsStrictPrefix(x, y)
  \/ \E i \in Differ(x, y) :
       IdentifierBefore(x[i], y[i]) /\ SubSeq(x, 1, i - 1) = SubSeq(y, 1, i - 1)

Precedes(v, w) ==
  \/ \E i \in 1..3 :
       /\ Value(v.core[i]) < Value(w.core[i])
       /\ \A j \in 1..(i - 1) : Value(v.core[j]) = Value(w.core[j])
  \/ /\ \A i \in 1..3 : Value(v.core[i]) = Value(w.core[i])
     /\ PreReleaseBefore(v.pre, w.pre)

(* Properties.                                                             *)

(* compareVersions is the precedence of the specification, hence a total   *)
(* order: sort.Slice (discover.go:177) relies on that, and it makes "the   *)
(* newest" one release.                                                    *)
CompareIsPrecedence ==
  ValidVersion(a) =>
  CompareVersions(a, b) = IF Precedes(a, b) THEN -1 ELSE IF Precedes(b, a) THEN 1 ELSE 0

(* A release that the watcher recognises and writes into a template is one *)
(* that the readers of the published template accept, whatever metadata it *)
(* has; without metadata they accept the same versions.                    *)
ValidatorsAgree ==
  /\ ExactVersion(a, <<>>) <=> ValidVersion(a)
  /\ ValidVersion(a) =>
       \A build \in UNION {[1..n -> Identifier \ {<<>>}] : n \in 1..MaxLength} : ExactVersion(a, build)
=============================================================================
