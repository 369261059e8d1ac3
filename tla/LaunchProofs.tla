---------------------------- MODULE LaunchProofs ----------------------------
(***************************************************************************)
(* Theorems about the opening URL: for every output a service can write,   *)
(* symbol by symbol, and for every value of the limits, an answer the host *)
(* got from a complete line is final, the SDK's loop over the lines finds  *)
(* what the Go package finds unless their URL parsers differ, and what the *)
(* generated scripts open is the URL the reader finds, or starts with it.  *)
(*                                                                         *)
(* The reader is restated as operators on the text it has read, and one    *)
(* lemma after the other says what one more symbol changes: the last line  *)
(* only, which ends or gets longer.  The SDK's loop is a recursive         *)
(* function of the position in the output; UpTo is its closed form.        *)
(*                                                                         *)
(* The last part is about the documents: for every source of the types of  *)
(* SourceAssumption, Read accepts it exactly when it is a published        *)
(* document, and the adapters keep its meaning.  An object is known by its *)
(* keys and values; Becomes says what an adapter does to them, AdaptedIs   *)
(* composes the chain, SpecRead and DocumentRead show for each version     *)
(* that the checks of the reader amount to its published shape.            *)
(***************************************************************************)
EXTENDS Launch, SequenceTheorems, FiniteSetTheorems, WellFoundedInduction, TLAPS

(* A set of naturals has a least member.                                   *)
LEMMA LeastMember ==
  ASSUME NEW T, T \subseteq Nat, T # {}
  PROVE  \E m \in T : \A k \in T : m <= k
<1> DEFINE R == OpToRel(<, Nat)
<1>1. IsWellFoundedOn(R, Nat)
  BY NatLessThanWellFounded
<1>2. \A x, y \in Nat : x < y => <<x, y>> \in R
  BY DEF OpToRel
<1> HIDE DEF R
<1>3. \E x \in T : \A y \in T : ~ (<<y, x>> \in R)
  BY <1>1, WFMin
<1>4. PICK m \in T : \A y \in T : ~ (<<y, m>> \in R)
  BY <1>3
<1>5. ASSUME NEW k \in T PROVE m <= k
  <2>1. k \in Nat /\ m \in Nat /\ ~(k < m)
    BY <1>2, <1>4
  <2> QED
    BY <2>1
<1> QED
  BY <1>5

(* What is true of 0, and of n + 1 if of n, is true of every natural.      *)
LEMMA Upwards ==
  ASSUME NEW S, 0 \in S, \A n \in Nat : n \in S => n + 1 \in S
  PROVE  Nat \subseteq S
<1> DEFINE T == Nat \ S
<1>1. SUFFICES ASSUME T # {} PROVE FALSE
  OBVIOUS
<1>2. PICK m \in T : \A k \in T : m <= k
  BY <1>1, LeastMember
<1>3. m \in Nat /\ m \notin S /\ m # 0
  BY <1>2
<1>4. m - 1 \in Nat /\ m - 1 < m /\ (m - 1) + 1 = m
  BY <1>3
<1>5. m - 1 \notin T
  BY <1>2, <1>4
<1> QED
  BY <1>3, <1>4, <1>5

(* Min and Max choose what they should.                                    *)
LEMMA MinOf ==
  ASSUME NEW T, T \subseteq Nat, T # {}
  PROVE  Min(T) \in T /\ \A k \in T : Min(T) <= k
<1>1. \E m \in T : \A k \in T : m <= k
  BY LeastMember
<1> QED
  BY <1>1 DEF Min

LEMMA MaxOf ==
  ASSUME NEW N \in Nat, NEW T, T \subseteq 0..N, T # {}
  PROVE  Max(T) \in T /\ \A k \in T : k <= Max(T)
<1> DEFINE D == {N - x : x \in T}
<1>1. D \subseteq Nat /\ D # {}
  <2>1. \A x \in T : N - x \in Nat
    OBVIOUS
  <2>2. PICK x \in T : TRUE
    OBVIOUS
  <2>3. N - x \in D
    BY <2>2
  <2> QED
    BY <2>1, <2>3
<1>2. PICK m \in D : \A k \in D : m <= k
  <2> HIDE DEF D
  <2> QED
    BY <1>1, LeastMember
<1>3. PICK x \in T : m = N - x
  OBVIOUS
<1>4. ASSUME NEW y \in T PROVE x >= y
  <2>1. m <= N - y
    BY <1>2
  <2> QED
    BY <1>3, <2>1
<1> HIDE DEF D
<1>5. \E z \in T : \A y \in T : z >= y
  BY <1>4
<1>6. Max(T) \in T /\ \A k \in T : Max(T) >= k
  BY <1>5 DEF Max
<1> QED
  BY <1>6

LEMMA MinOfTwo ==
  ASSUME NEW i \in Nat, NEW j \in Nat
  PROVE  Min({i, j}) = IF i <= j THEN i ELSE j
<1>1. Min({i, j}) \in {i, j} /\ \A k \in {i, j} : Min({i, j}) <= k
  BY MinOf
<1> QED
  BY <1>1

-----------------------------------------------------------------------------
(* Lines.                                                                  *)

(* Has the line that starts at n its end?                                  *)
Ended(text, n) == \E i \in n..Len(text) : text[i] = LineEnd
EndOf(text, n) == IF Ended(text, n) THEN Min({i \in n..Len(text) : text[i] = LineEnd}) - 1 ELSE Len(text)

(* A line reaches from its start to its end, or to the end of the text.    *)
LEMMA LineType ==
  ASSUME NEW text \in Seq(Symbol), NEW n \in StartsIn(text)
  PROVE  /\ Len(text) \in Nat /\ n \in 1..(Len(text) + 1) /\ EndOf(text, n) \in (n - 1)..Len(text)
         /\ LineIn(text, n) = SubSeq(text, n, EndOf(text, n))
         /\ LineIn(text, n) \in Seq(Symbol) /\ Len(LineIn(text, n)) = EndOf(text, n) - n + 1
         /\ \A i \in n..EndOf(text, n) : text[i] # LineEnd
         /\ Ended(text, n) => EndOf(text, n) + 1 \in n..Len(text) /\ text[EndOf(text, n) + 1] = LineEnd
<1>1. Len(text) \in Nat /\ n \in 1..(Len(text) + 1)
  BY DEF StartsIn
<1> DEFINE ends == {i \in n..Len(text) : text[i] = LineEnd}
           e == EndOf(text, n)
<1>2. Ended(text, n) => Min(ends) \in ends /\ \A k \in ends : Min(ends) <= k
  <2>1. ends \subseteq Nat
    BY <1>1
  <2>2. Ended(text, n) => ends # {}
    BY DEF Ended
  <2> HIDE DEF ends
  <2> QED
    BY <2>1, <2>2, MinOf
<1>3. Ended(text, n) <=> ends # {}
  BY DEF Ended
<1>4. e = IF Ended(text, n) THEN Min(ends) - 1 ELSE Len(text)
  BY DEF EndOf
<1>5. LineIn(text, n) = SubSeq(text, n, e)
  BY <1>3, <1>4 DEF LineIn
<1>6. Ended(text, n) => Min(ends) \in n..Len(text) /\ text[Min(ends)] = LineEnd
  <2> DEFINE k == Min(ends)
  <2>1. Ended(text, n) => k \in ends
    BY <1>2
  <2> HIDE DEF k
  <2> QED
    BY <2>1 DEF k
<1>7. e \in (n - 1)..Len(text)
  <2> HIDE DEF ends, e
  <2>1. CASE Ended(text, n)
    BY <1>1, <1>4, <1>6, <2>1
  <2>2. CASE ~Ended(text, n)
    BY <1>1, <1>4, <2>2
  <2> QED
    BY <2>1, <2>2
<1>8. \A i \in n..e : text[i] # LineEnd
  <2>1. SUFFICES ASSUME NEW i \in n..e, text[i] = LineEnd PROVE FALSE
    OBVIOUS
  <2>2. i \in ends
    <3> HIDE DEF e
    <3> QED
      BY <1>1, <1>7, <2>1
  <2> HIDE DEF ends, e
  <2> QED
    BY <1>1, <1>2, <1>3, <1>4, <1>6, <2>1, <2>2
<1>9. Ended(text, n) => e + 1 \in n..Len(text) /\ text[e + 1] = LineEnd
  <2>1. Ended(text, n) => e + 1 = Min(ends)
    <3> HIDE DEF ends, e
    <3> QED
      BY <1>1, <1>4, <1>6
  <2> HIDE DEF e, ends
  <2> QED
    BY <1>6, <2>1
<1>10. SubSeq(text, n, e) \in Seq(Symbol) /\ Len(SubSeq(text, n, e)) = e - n + 1
  <2>1. n \in Int /\ e \in Int /\ \A i \in n..e : text[i] \in Symbol
    <3> HIDE DEF e
    <3> QED
      BY <1>1, <1>7
  <2> HIDE DEF e
  <2> QED
    BY <1>1, <1>7, <2>1, SubSeqProperties
<1> HIDE DEF e
<1> QED
  BY <1>1, <1>5, <1>7, <1>8, <1>9, <1>10 DEF e

(* Every line but the last has its end.                                    *)
LEMMA EarlierEnded ==
  ASSUME NEW text \in Seq(Symbol), NEW i \in StartsIn(text), NEW n \in StartsIn(text)
  PROVE  /\ i < n => Ended(text, i)
         /\ i <= n /\ Ended(text, n) => Ended(text, i)
<1>1. Len(text) \in Nat /\ i \in 1..(Len(text) + 1) /\ n \in 1..(Len(text) + 1)
  BY LineType
<1>2. ASSUME i < n PROVE Ended(text, i)
  <2>1. PICK j \in 1..Len(text) : text[j] = LineEnd /\ n = j + 1
    BY <1>1, <1>2 DEF StartsIn
  <2> QED
    BY <1>1, <1>2, <2>1 DEF Ended
<1>3. ASSUME i <= n, Ended(text, n) PROVE Ended(text, i)
  BY <1>1, <1>3 DEF Ended
<1> QED
  BY <1>2, <1>3

(* The last line is the one without an end.                                *)
LEMMA StartsBound ==
  ASSUME NEW text \in Seq(Symbol)
  PROVE  /\ 1 \in StartsIn(text) /\ StartsIn(text) \subseteq 1..(Len(text) + 1) /\ Len(text) + 1 \in Nat
         /\ Max(StartsIn(text)) \in StartsIn(text) /\ \A n \in StartsIn(text) : n <= Max(StartsIn(text))
         /\ \A n \in StartsIn(text) : Ended(text, n) <=> n < Max(StartsIn(text))
<1>1. 1 \in StartsIn(text) /\ StartsIn(text) \subseteq 1..(Len(text) + 1) /\ Len(text) + 1 \in Nat
  BY DEF StartsIn
<1>2. Max(StartsIn(text)) \in StartsIn(text) /\ \A n \in StartsIn(text) : n <= Max(StartsIn(text))
  <2>1. StartsIn(text) \subseteq 0..(Len(text) + 1) /\ StartsIn(text) # {}
    BY <1>1
  <2> QED
    BY <1>1, <2>1, MaxOf
<1>3. ASSUME NEW n \in StartsIn(text), Ended(text, n) PROVE n < Max(StartsIn(text))
  <2>1. PICK i \in n..Len(text) : text[i] = LineEnd
    BY <1>3 DEF Ended
  <2>2. n \in 1..(Len(text) + 1)
    BY <1>1
  <2>3. i \in 1..Len(text)
    BY <2>2
  <2>4. i + 1 \in StartsIn(text)
    BY <2>1, <2>3 DEF StartsIn
  <2> QED
    BY <1>1, <1>2, <2>2, <2>3, <2>4
<1>4. ASSUME NEW n \in StartsIn(text), n < Max(StartsIn(text)) PROVE Ended(text, n)
  BY <1>2, <1>4, EarlierEnded
<1> QED
  BY <1>1, <1>2, <1>3, <1>4

(* One more symbol ends the last line or makes it longer, and touches no   *)
(* other.                                                                  *)
LEMMA OneMore ==
  ASSUME NEW text \in Seq(Symbol), NEW c \in Symbol, NEW n \in StartsIn(text)
  PROVE  LET more == Append(text, c)
         IN /\ n \in StartsIn(more)
            /\ Ended(text, n) => Ended(more, n) /\ LineIn(more, n) = LineIn(text, n)
            /\ ~Ended(text, n) => LineIn(more, n) \in {LineIn(text, n), Append(LineIn(text, n), c)}
<1> DEFINE more == Append(text, c)
<1>1. Len(text) \in Nat /\ Len(more) = Len(text) + 1 /\ more[Len(text) + 1] = c
      /\ \A i \in 1..Len(text) : more[i] = text[i]
  OBVIOUS
<1>2. more \in Seq(Symbol)
  OBVIOUS
<1> HIDE DEF more
<1>3. n \in StartsIn(more) /\ n \in 1..(Len(text) + 1)
  <2>1. n \in 1..(Len(text) + 1)
    BY LineType
  <2>2. n = 1 \/ \E i \in 1..Len(text) : text[i] = LineEnd /\ n = i + 1
    BY DEF StartsIn
  <2>3. \A i \in 1..Len(text) : i \in 1..Len(more) /\ more[i] = text[i]
    BY <1>1
  <2> QED
    BY <2>1, <2>2, <2>3 DEF StartsIn
<1> DEFINE e == EndOf(text, n)
           f == EndOf(more, n)
<1>4. /\ e \in (n - 1)..Len(text) /\ LineIn(text, n) = SubSeq(text, n, e)
      /\ \A i \in n..e : text[i] # LineEnd
      /\ Ended(text, n) => e + 1 \in n..Len(text) /\ text[e + 1] = LineEnd
  BY LineType
<1>5. /\ f \in (n - 1)..Len(more) /\ LineIn(more, n) = SubSeq(more, n, f)
      /\ \A i \in n..f : more[i] # LineEnd
      /\ Ended(more, n) => f + 1 \in n..Len(more) /\ more[f + 1] = LineEnd
  BY <1>2, <1>3, LineType
<1>6. ~Ended(text, n) => e = Len(text)
  BY DEF EndOf
<1>7. ~Ended(more, n) => f = Len(text) + 1
  BY <1>1 DEF EndOf
<1> HIDE DEF e, f
<1>8. SubSeq(more, n, e) = SubSeq(text, n, e)
  <2>1. n \in Int /\ e \in Int /\ \A i \in n..e : text[i] \in Symbol /\ more[i] = text[i]
    <3>1. \A i \in n..e : i \in 1..Len(text)
      BY <1>1, <1>3, <1>4
    <3> QED
      BY <1>1, <1>3, <1>4, <3>1
  <2>2. SubSeq(text, n, e) \in Seq(Symbol) /\ Len(SubSeq(text, n, e)) = (IF n <= e THEN e - n + 1 ELSE 0)
        /\ \A i \in 1..(e - n + 1) : SubSeq(text, n, e)[i] = text[n + i - 1]
    BY <2>1, SubSeqProperties
  <2>3. SubSeq(more, n, e) \in Seq(Symbol) /\ Len(SubSeq(more, n, e)) = (IF n <= e THEN e - n + 1 ELSE 0)
        /\ \A i \in 1..(e - n + 1) : SubSeq(more, n, e)[i] = more[n + i - 1]
    BY <2>1, SubSeqProperties
  <2>4. \A i \in 1..(e - n + 1) : n + i - 1 \in n..e
    BY <2>1
  <2>5. \A i \in 1..(e - n + 1) : SubSeq(more, n, e)[i] = SubSeq(text, n, e)[i]
    BY <2>1, <2>2, <2>3, <2>4
  <2>6. Len(SubSeq(text, n, e)) = Len(SubSeq(more, n, e)) /\ \A i \in 1..Len(SubSeq(text, n, e)) : i \in 1..(e - n + 1)
    BY <2>1, <2>2, <2>3
  <2> QED
    BY <2>2, <2>3, <2>5, <2>6, SeqEqual
<1>9. ASSUME Ended(text, n) PROVE Ended(more, n) /\ LineIn(more, n) = LineIn(text, n)
  <2>1. e + 1 \in n..Len(more) /\ more[e + 1] = LineEnd
    BY <1>1, <1>3, <1>4, <1>9
  <2>2. Ended(more, n)
    BY <2>1 DEF Ended
  <2>3. f = e
    <3>1. ~(e + 1 \in n..f)
      BY <1>5, <2>1
    <3>2. f + 1 <= Len(text) => text[f + 1] = LineEnd
      BY <1>1, <1>3, <1>5, <2>2
    <3>3. ~(f + 1 \in n..e)
      BY <1>1, <1>3, <1>4, <3>2
    <3> QED
      BY <1>1, <1>3, <1>4, <1>5, <1>9, <2>2, <3>1, <3>3
  <2> QED
    BY <1>4, <1>5, <1>8, <2>2, <2>3
<1>10. ASSUME ~Ended(text, n) PROVE LineIn(more, n) \in {LineIn(text, n), Append(LineIn(text, n), c)}
  <2>1. e = Len(text)
    BY <1>6, <1>10
  <2>2. CASE f = e
    BY <1>4, <1>5, <1>8, <2>2
  <2>3. CASE f # e
    <3>1. f = Len(text) + 1
      <4>1. Ended(more, n) /\ f + 1 <= Len(text) => FALSE
        <5>1. Ended(more, n) /\ f + 1 <= Len(text) => f + 1 \in n..Len(text) /\ text[f + 1] = LineEnd
          BY <1>1, <1>3, <1>5
        <5> QED
          BY <1>10, <5>1 DEF Ended
      <4> QED
        BY <1>1, <1>3, <1>5, <1>7, <2>1, <2>3, <4>1
    <3>2. SubSeq(more, n, f) = SubSeq(more, n, f - 1) \o <<more[f]>>
      <4>1. n \in 1..Len(more) /\ f \in n..Len(more)
        BY <1>1, <1>3, <3>1
      <4> QED
        BY <1>2, <4>1, SubSeqRecursiveSecond
    <3>3. f - 1 = e /\ more[f] = c
      BY <1>1, <2>1, <3>1
    <3>4. LineIn(text, n) \in Seq(Symbol)
      BY LineType
    <3>5. LineIn(more, n) = LineIn(text, n) \o <<c>>
      BY <1>4, <1>5, <1>8, <3>2, <3>3
    <3> QED
      BY <3>4, <3>5, AppendIsConcat
  <2> QED
    BY <2>2, <2>3
<1> QED
  BY <1>3, <1>9, <1>10 DEF more

(* One more symbol starts one more line at most, behind all others.        *)
LEMMA NewStart ==
  ASSUME NEW text \in Seq(Symbol), NEW c \in Symbol
  PROVE  \A n \in StartsIn(Append(text, c)) : n \in StartsIn(text) \/ n = Len(text) + 2
<1>1. Len(text) \in Nat /\ Len(Append(text, c)) = Len(text) + 1 /\ \A i \in 1..Len(text) : Append(text, c)[i] = text[i]
  OBVIOUS
<1> QED
  BY <1>1 DEF StartsIn

-----------------------------------------------------------------------------
(* The reader, as operators on the text it has read.                       *)

LongIn(text, n) == Len(LineIn(text, n)) >= MaxLine
ScannedIn(text) == {n \in StartsIn(text) : \A i \in StartsIn(text) : i <= n => ~LongIn(text, i)}
MatchingIn(text) == {n \in ScannedIn(text) : Candidate(LineIn(text, n)) # <<>>}
ChosenIn(text) == Min(MatchingIn(text))
SettledIn(text) == MatchingIn(text) # {} /\ Ended(text, ChosenIn(text))
AnswerIn(text, over) ==
  IF MatchingIn(text) # {} /\ ~ValidURL(Candidate(LineIn(text, ChosenIn(text))))
    THEN Result("OPENING_URL_INVALID", <<>>)
  ELSE IF ScannedIn(text) # StartsIn(text) \/ over
    THEN Limit
  ELSE IF MatchingIn(text) = {}
    THEN Result("OPENING_URL_MISSING", <<>>)
  ELSE Result("", Candidate(LineIn(text, ChosenIn(text))))

LEMMA ChosenType ==
  ASSUME NEW text \in Seq(Symbol)
  PROVE  /\ MatchingIn(text) \subseteq ScannedIn(text) /\ ScannedIn(text) \subseteq StartsIn(text)
         /\ StartsIn(text) \subseteq Nat
         /\ MatchingIn(text) # {} =>
              ChosenIn(text) \in MatchingIn(text) /\ \A k \in MatchingIn(text) : ChosenIn(text) <= k
<1>1. MatchingIn(text) \subseteq ScannedIn(text) /\ ScannedIn(text) \subseteq StartsIn(text)
  BY DEF MatchingIn, ScannedIn
<1>2. StartsIn(text) \subseteq Nat
  BY StartsBound
<1>3. MatchingIn(text) \subseteq Nat
  BY <1>1, <1>2
<1> QED
  BY <1>1, <1>2, <1>3, MinOf DEF ChosenIn

(* The reader of the text it has read is the module's reader.              *)
LEMMA ReaderIn ==
  ASSUME NEW text \in Seq(Symbol), Read = text
  PROVE  /\ Starts = StartsIn(text) /\ Scanned = ScannedIn(text) /\ Matching = MatchingIn(text)
         /\ Chosen = ChosenIn(text) /\ (Settled <=> SettledIn(text))
         /\ Answer = AnswerIn(text, Len(output) > MaxOutput)
<1>1. Starts = StartsIn(text) /\ \A n : Line(n) = LineIn(text, n)
  BY DEF Starts, Line
<1>2. \A n : Long(n) <=> LongIn(text, n)
  BY <1>1 DEF Long, LongIn
<1>3. Scanned = ScannedIn(text)
  BY <1>1, <1>2 DEF Scanned, ScannedIn
<1>4. Matching = MatchingIn(text)
  BY <1>1, <1>3 DEF Matching, MatchingIn
<1>5. Chosen = ChosenIn(text)
  BY <1>4 DEF Chosen, ChosenIn
<1>6. Settled <=> SettledIn(text)
  <2>1. MatchingIn(text) # {} => ChosenIn(text) \in StartsIn(text)
    BY ChosenType
  <2>2. MatchingIn(text) # {} => (Ended(text, ChosenIn(text)) <=> ChosenIn(text) < Max(StartsIn(text)))
    BY <2>1, StartsBound
  <2> QED
    BY <1>1, <1>4, <1>5, <2>2 DEF Settled, SettledIn
<1>7. Answer = AnswerIn(text, Len(output) > MaxOutput)
  BY <1>1, <1>3, <1>4, <1>5 DEF Answer, AnswerIn, Limit
<1> QED
  BY <1>1, <1>3, <1>4, <1>5, <1>6, <1>7

(* One more symbol: what is kept of the lines scanned.                     *)
LEMMA ScannedKept ==
  ASSUME NEW text \in Seq(Symbol), NEW c \in Symbol, NEW more, more = Append(text, c)
  PROVE  /\ more \in Seq(Symbol) /\ StartsIn(text) \subseteq StartsIn(more)
         /\ \A n \in StartsIn(text) : LongIn(text, n) => LongIn(more, n)
         /\ \A n \in ScannedIn(text) : Ended(text, n) => n \in ScannedIn(more)
         /\ \A n \in ScannedIn(more) : n \in StartsIn(text) => n \in ScannedIn(text)
         /\ \A n \in StartsIn(more), i \in StartsIn(text) : n <= i => n \in StartsIn(text)
<1>1. \A n \in StartsIn(text) :
        /\ n \in StartsIn(more)
        /\ Ended(text, n) => Ended(more, n) /\ LineIn(more, n) = LineIn(text, n)
        /\ ~Ended(text, n) => LineIn(more, n) \in {LineIn(text, n), Append(LineIn(text, n), c)}
  BY OneMore
<1>2. more \in Seq(Symbol)
  OBVIOUS
<1>3. StartsIn(text) \subseteq StartsIn(more)
  BY <1>1
<1>4. ASSUME NEW n \in StartsIn(text), LongIn(text, n) PROVE LongIn(more, n)
  <2>1. LineIn(text, n) \in Seq(Symbol) /\ LineIn(more, n) \in {LineIn(text, n), Append(LineIn(text, n), c)}
    BY <1>1, LineType
  <2>2. Len(LineIn(more, n)) >= Len(LineIn(text, n)) /\ Len(LineIn(text, n)) \in Nat /\ Len(LineIn(more, n)) \in Nat
    BY <2>1
  <2> QED
    BY <1>4, <2>2, OpeningAssumption DEF LongIn
<1>5. ASSUME NEW n \in StartsIn(more), NEW i \in StartsIn(text), n <= i PROVE n \in StartsIn(text)
  <2>1. n \in StartsIn(text) \/ n = Len(text) + 2
    BY NewStart
  <2>2. i <= Len(text) + 1 /\ i \in Nat /\ Len(text) \in Nat
    BY StartsBound
  <2> QED
    BY <1>5, <2>1, <2>2
<1>6. ASSUME NEW n \in ScannedIn(text), Ended(text, n) PROVE n \in ScannedIn(more)
  <2>1. n \in StartsIn(text) /\ n \in StartsIn(more)
    BY <1>3 DEF ScannedIn
  <2>2. ASSUME NEW i \in StartsIn(more), i <= n PROVE ~LongIn(more, i)
    <3>1. i \in StartsIn(text)
      BY <1>5, <2>1, <2>2
    <3>2. Ended(text, i)
      BY <1>6, <2>1, <2>2, <3>1, EarlierEnded
    <3>3. LineIn(more, i) = LineIn(text, i)
      BY <1>1, <3>1, <3>2
    <3>4. ~LongIn(text, i)
      BY <2>2, <3>1 DEF ScannedIn
    <3> QED
      BY <3>3, <3>4 DEF LongIn
  <2> QED
    BY <2>1, <2>2 DEF ScannedIn
<1>7. ASSUME NEW n \in ScannedIn(more), n \in StartsIn(text) PROVE n \in ScannedIn(text)
  <2>1. \A i \in StartsIn(text) : i <= n => ~LongIn(text, i)
    BY <1>3, <1>4, <1>7 DEF ScannedIn
  <2> QED
    BY <1>7, <2>1 DEF ScannedIn
<1> QED
  BY <1>2, <1>3, <1>4, <1>5, <1>6, <1>7

(* The line that decides an answer, once it has its end, decides it for    *)
(* good.                                                                   *)
LEMMA SettledKept ==
  ASSUME NEW text \in Seq(Symbol), NEW c \in Symbol, SettledIn(text), NEW more, more = Append(text, c)
  PROVE  /\ SettledIn(more) /\ ChosenIn(more) = ChosenIn(text)
         /\ LineIn(more, ChosenIn(more)) = LineIn(text, ChosenIn(text))
<1> DEFINE ch == ChosenIn(text)
<1>1. MatchingIn(text) # {} /\ Ended(text, ch)
  BY DEF SettledIn
<1>2. ch \in MatchingIn(text) /\ ch \in ScannedIn(text) /\ ch \in StartsIn(text) /\ \A k \in MatchingIn(text) : ch <= k
  BY <1>1, ChosenType
<1> HIDE DEF ch
<1>3. /\ more \in Seq(Symbol)
      /\ \A n \in ScannedIn(text) : Ended(text, n) => n \in ScannedIn(more)
      /\ \A n \in ScannedIn(more) : n \in StartsIn(text) => n \in ScannedIn(text)
      /\ \A n \in StartsIn(more), i \in StartsIn(text) : n <= i => n \in StartsIn(text)
  BY ScannedKept
<1>4. Ended(more, ch) /\ LineIn(more, ch) = LineIn(text, ch)
  BY <1>1, <1>2, OneMore
<1>5. ch \in MatchingIn(more)
  <2>1. Candidate(LineIn(text, ch)) # <<>>
    BY <1>2 DEF MatchingIn
  <2>2. Candidate(LineIn(more, ch)) # <<>>
    BY <1>4, <2>1
  <2>3. ch \in ScannedIn(more)
    BY <1>1, <1>2, <1>3
  <2> QED
    BY <2>2, <2>3 DEF MatchingIn
<1>6. ASSUME NEW k \in MatchingIn(more), k < ch PROVE FALSE
  <2>1. k \in ScannedIn(more) /\ k \in StartsIn(more) /\ k \in Nat /\ ch \in Nat
    BY <1>2, <1>3, ChosenType
  <2>2. k <= ch
    BY <1>6, <2>1
  <2>3. k \in StartsIn(text)
    BY <1>2, <1>3, <2>1, <2>2
  <2>4. k \in ScannedIn(text)
    BY <1>3, <2>1, <2>3
  <2>5. Ended(text, k)
    BY <1>2, <1>6, <2>3, EarlierEnded
  <2>6. LineIn(more, k) = LineIn(text, k)
    BY <2>3, <2>5, OneMore
  <2>7. Candidate(LineIn(more, k)) # <<>>
    BY DEF MatchingIn
  <2>8. k \in MatchingIn(text)
    BY <2>4, <2>6, <2>7 DEF MatchingIn
  <2> QED
    BY <1>2, <1>6, <2>1, <2>8
<1>7. ChosenIn(more) = ch
  <2>1. MatchingIn(more) \subseteq Nat /\ ch \in Nat
    BY <1>2, <1>3, ChosenType
  <2>2. ChosenIn(more) \in MatchingIn(more) /\ \A k \in MatchingIn(more) : ChosenIn(more) <= k
    BY <1>3, <1>5, ChosenType
  <2>3. ~(ChosenIn(more) < ch)
    BY <1>6, <2>2
  <2>4. ChosenIn(more) <= ch
    BY <1>5, <2>2
  <2> QED
    BY <2>1, <2>2, <2>3, <2>4
<1> QED
  BY <1>4, <1>5, <1>7 DEF SettledIn, ch

(* Behind a line over the limit nothing is scanned, now or later.          *)
LEMMA LimitKept ==
  ASSUME NEW text \in Seq(Symbol), NEW c \in Symbol, ScannedIn(text) # StartsIn(text), NEW more, more = Append(text, c)
  PROVE  /\ ScannedIn(more) # StartsIn(more) /\ MatchingIn(more) = MatchingIn(text)
         /\ \A n \in MatchingIn(text) : LineIn(more, n) = LineIn(text, n)
<1>1. /\ more \in Seq(Symbol) /\ StartsIn(text) \subseteq StartsIn(more)
      /\ \A n \in StartsIn(text) : LongIn(text, n) => LongIn(more, n)
      /\ \A n \in ScannedIn(text) : Ended(text, n) => n \in ScannedIn(more)
      /\ \A n \in ScannedIn(more) : n \in StartsIn(text) => n \in ScannedIn(text)
      /\ \A n \in StartsIn(more), i \in StartsIn(text) : n <= i => n \in StartsIn(text)
  BY ScannedKept
<1>2. ScannedIn(text) \subseteq StartsIn(text) /\ ScannedIn(more) \subseteq StartsIn(more)
      /\ StartsIn(text) \subseteq Nat /\ StartsIn(more) \subseteq Nat
  BY <1>1, ChosenType
<1>3. PICK i \in StartsIn(text) : LongIn(text, i)
  BY <1>2 DEF ScannedIn
<1>4. \A n \in ScannedIn(text) : n < i
  <2>1. \A n \in ScannedIn(text) : ~(i <= n)
    BY <1>3 DEF ScannedIn
  <2> QED
    BY <1>2, <2>1
<1>5. \A n \in ScannedIn(text) : Ended(text, n)
  BY <1>2, <1>4, EarlierEnded
<1>6. \A n \in ScannedIn(text) : LineIn(more, n) = LineIn(text, n)
  BY <1>2, <1>5, OneMore
<1>7. ScannedIn(more) = ScannedIn(text)
  <2>1. ASSUME NEW n \in ScannedIn(more) PROVE n \in ScannedIn(text)
    <3>1. ~(i <= n)
      BY <1>1, <1>3 DEF ScannedIn
    <3>2. n <= i
      BY <1>2, <3>1
    <3> QED
      BY <1>1, <1>2, <3>2
  <2> QED
    BY <1>1, <1>5, <2>1
<1>8. i \notin ScannedIn(more) /\ i \in StartsIn(more)
  <2>1. ~(i < i)
    BY <1>2
  <2> QED
    BY <1>1, <1>4, <1>7, <2>1
<1> QED
  BY <1>6, <1>7, <1>8 DEF MatchingIn

LEMMA ResultsDiffer ==
  \A u : /\ Result("OPENING_URL_INVALID", u) # Limit /\ Result("", u) # Limit
         /\ Result("OPENING_URL_MISSING", u) # Limit
         /\ Result("", u).code # "OPENING_URL_INVALID"
         /\ Limit.code # "OPENING_URL_INVALID" /\ Limit.code # ""
         /\ Result("OPENING_URL_MISSING", u).code # "OPENING_URL_INVALID"
         /\ Result("OPENING_URL_MISSING", u).code # ""
         /\ Result("OPENING_URL_INVALID", u).code # ""
         /\ Result("", u).url = u /\ Result("", u).code = ""
<1>1. \A d, u : Result(d, u).code = d /\ Result(d, u).url = u
  BY DEF Result
<1>2. Limit.code = "OPENING_OUTPUT_LIMIT"
  BY <1>1 DEF Limit
<1> QED
  <2> SUFFICES ASSUME NEW u
               PROVE /\ Result("OPENING_URL_INVALID", u) # Limit /\ Result("", u) # Limit
                     /\ Result("OPENING_URL_MISSING", u) # Limit
                     /\ Result("", u).code # "OPENING_URL_INVALID"
                     /\ Limit.code # "OPENING_URL_INVALID" /\ Limit.code # ""
                     /\ Result("OPENING_URL_MISSING", u).code # "OPENING_URL_INVALID"
                     /\ Result("OPENING_URL_MISSING", u).code # ""
                     /\ Result("OPENING_URL_INVALID", u).code # ""
                     /\ Result("", u).url = u /\ Result("", u).code = ""
    OBVIOUS
  <2>1. /\ Result("OPENING_URL_INVALID", u).code = "OPENING_URL_INVALID"
        /\ Result("OPENING_URL_MISSING", u).code = "OPENING_URL_MISSING"
        /\ Result("", u).code = "" /\ Result("", u).url = u
    BY <1>1
  <2> QED
    BY <1>2, <2>1

(* An answer, when the text grows and the total limit may be passed.       *)
LEMMA AnswerKept ==
  ASSUME NEW text \in Seq(Symbol), NEW c \in Symbol, NEW over \in BOOLEAN,
         NEW more, more = Append(text, c)
  PROVE  /\ AnswerIn(text, FALSE) = Limit => AnswerIn(more, over) = Limit
         /\ SettledIn(text) => SettledIn(more) /\ AnswerIn(more, over) \in {AnswerIn(text, FALSE), Limit}
         /\ SettledIn(text) /\ AnswerIn(text, FALSE).code = "OPENING_URL_INVALID"
              => AnswerIn(more, over) = AnswerIn(text, FALSE)
<1> DEFINE Bad(t) == MatchingIn(t) # {} /\ ~ValidURL(Candidate(LineIn(t, ChosenIn(t))))
           Cut(t) == ScannedIn(t) # StartsIn(t)
<1>1. \A t, o : AnswerIn(t, o) =
        IF Bad(t) THEN Result("OPENING_URL_INVALID", <<>>)
        ELSE IF Cut(t) \/ o THEN Limit
        ELSE IF MatchingIn(t) = {} THEN Result("OPENING_URL_MISSING", <<>>)
        ELSE Result("", Candidate(LineIn(t, ChosenIn(t))))
  BY DEF AnswerIn
<1>2. ASSUME Cut(text) PROVE Cut(more) /\ (Bad(more) <=> Bad(text))
  <2>1. /\ ScannedIn(more) # StartsIn(more) /\ MatchingIn(more) = MatchingIn(text)
        /\ \A n \in MatchingIn(text) : LineIn(more, n) = LineIn(text, n)
    BY <1>2, LimitKept
  <2>2. ChosenIn(more) = ChosenIn(text) /\ (MatchingIn(text) # {} => ChosenIn(text) \in MatchingIn(text))
    BY <2>1, ChosenType DEF ChosenIn
  <2> QED
    BY <2>1, <2>2
<1>3. ASSUME SettledIn(text)
      PROVE  /\ SettledIn(more) /\ MatchingIn(more) # {} /\ MatchingIn(text) # {} /\ (Bad(more) <=> Bad(text))
             /\ Candidate(LineIn(more, ChosenIn(more))) = Candidate(LineIn(text, ChosenIn(text)))
  <2>1. SettledIn(more) /\ LineIn(more, ChosenIn(more)) = LineIn(text, ChosenIn(text))
    BY <1>3, SettledKept
  <2>2. MatchingIn(more) # {} /\ MatchingIn(text) # {}
    BY <1>3, <2>1 DEF SettledIn
  <2> QED
    BY <2>1, <2>2
<1> HIDE DEF Bad, Cut
<1>4. AnswerIn(text, FALSE) = Limit => Cut(text) /\ ~Bad(text)
  BY <1>1, ResultsDiffer
<1>5. AnswerIn(text, FALSE) = Limit => AnswerIn(more, over) = Limit
  BY <1>1, <1>2, <1>4
<1>6. AnswerIn(text, FALSE).code = "OPENING_URL_INVALID" => Bad(text)
  BY <1>1, ResultsDiffer
<1>7. Bad(text) => AnswerIn(text, FALSE) = Result("OPENING_URL_INVALID", <<>>)
  BY <1>1
<1>8. Bad(more) => AnswerIn(more, over) = Result("OPENING_URL_INVALID", <<>>)
  BY <1>1
<1>9. ASSUME SettledIn(text) PROVE AnswerIn(more, over) \in {AnswerIn(text, FALSE), Limit}
  <2>1. CASE Bad(text)
    BY <1>3, <1>7, <1>8, <1>9, <2>1
  <2>2. CASE ~Bad(text) /\ Cut(text)
    BY <1>1, <1>2, <2>2
  <2>3. CASE ~Bad(text) /\ ~Cut(text)
    <3>1. AnswerIn(text, FALSE) = Result("", Candidate(LineIn(text, ChosenIn(text))))
      BY <1>1, <1>3, <1>9, <2>3
    <3>2. AnswerIn(more, over) \in {Limit, Result("", Candidate(LineIn(more, ChosenIn(more))))}
      BY <1>1, <1>3, <1>9, <2>3
    <3> QED
      BY <1>3, <1>9, <3>1, <3>2
  <2> QED
    BY <2>1, <2>2, <2>3
<1> QED
  BY <1>3, <1>5, <1>6, <1>7, <1>8, <1>9

-----------------------------------------------------------------------------
(* The reader and the service's output.                                    *)

(* What the limited reader reads of an output within the limit and of a    *)
(* longer one.                                                             *)
LEMMA ReadOf ==
  ASSUME output \in Seq(Symbol)
  PROVE  /\ Len(output) <= MaxOutput => Read = output
         /\ Len(output) > MaxOutput => Read = SubSeq(output, 1, MaxOutput + 1)
         /\ Read \in Seq(Symbol)
<1>1. MaxOutput \in Nat /\ Len(output) \in Nat
  BY OpeningAssumption
<1>2. Min({Len(output), MaxOutput + 1}) = IF Len(output) <= MaxOutput THEN Len(output) ELSE MaxOutput + 1
  <2>1. MaxOutput + 1 \in Nat
    BY <1>1
  <2>2. Min({Len(output), MaxOutput + 1}) = IF Len(output) <= MaxOutput + 1 THEN Len(output) ELSE MaxOutput + 1
    BY <1>1, <2>1, MinOfTwo
  <2> QED
    BY <1>1, <2>2
<1>3. SubSeq(output, 1, Len(output)) = output
  OBVIOUS
<1>4. Len(output) > MaxOutput => SubSeq(output, 1, MaxOutput + 1) \in Seq(Symbol)
  BY <1>1
<1>5. Len(output) <= MaxOutput => Read = output
  BY <1>1, <1>2, <1>3 DEF Read
<1>6. Len(output) > MaxOutput => Read = SubSeq(output, 1, MaxOutput + 1)
  <2>1. Len(output) > MaxOutput => Min({Len(output), MaxOutput + 1}) = MaxOutput + 1
    BY <1>1, <1>2
  <2> QED
    BY <2>1 DEF Read
<1> QED
  BY <1>1, <1>4, <1>5, <1>6

(* The inductive invariant: the property itself, and that a line, once it  *)
(* has decided, goes on deciding.                                          *)
OpeningInv ==
  /\ output \in Seq(Symbol)
  /\ AnswersAreFinal
  /\ reading.settled => Settled

(* What a step of the service can do to the answer.                        *)
LEMMA GrowStep ==
  ASSUME output \in Seq(Symbol), Grow
  PROVE  /\ output' \in Seq(Symbol)
         /\ Answer = Limit => Answer' = Limit
         /\ Settled => Settled' /\ Answer' \in {Answer, Limit}
         /\ Settled /\ Answer.code = "OPENING_URL_INVALID" => Answer' = Answer
<1>1. PICK c \in Symbol : output' = Append(output, c)
  BY DEF Grow
<1>2. output' \in Seq(Symbol) /\ Len(output') = Len(output) + 1 /\ Len(output) \in Nat /\ MaxOutput \in Nat
  BY <1>1, OpeningAssumption
<1>3. CASE Len(output) <= MaxOutput
  <2>1. Read = output
    BY <1>3, ReadOf
  <2>2. Read' = output'
    <3>1. Min({Len(output'), MaxOutput + 1}) = Len(output')
      <4>1. MaxOutput + 1 \in Nat /\ Len(output') \in Nat /\ Len(output') <= MaxOutput + 1
        BY <1>2, <1>3
      <4> QED
        BY <4>1, MinOfTwo
    <3>2. SubSeq(output', 1, Len(output')) = output'
      BY <1>2
    <3> QED
      BY <3>1, <3>2 DEF Read
  <2>3. (Settled <=> SettledIn(output)) /\ Answer = AnswerIn(output, FALSE)
    <3>1. ~(Len(output) > MaxOutput)
      BY <1>2, <1>3
    <3>2. AnswerIn(output, Len(output) > MaxOutput) = AnswerIn(output, FALSE)
      BY <3>1 DEF AnswerIn
    <3> QED
      BY <2>1, <3>2, ReaderIn
  <2> DEFINE over == Len(output') > MaxOutput
             more == output'
  <2>4. (Settled' <=> SettledIn(more)) /\ Answer' = AnswerIn(more, over)
    <3>1. /\ Starts' = StartsIn(more) /\ \A n : Line(n)' = LineIn(more, n)
      BY <2>2 DEF Starts, Line
    <3>2. \A n : Long(n)' <=> LongIn(more, n)
      BY <3>1 DEF Long, LongIn
    <3>3. Scanned' = ScannedIn(more)
      BY <3>1, <3>2 DEF Scanned, ScannedIn
    <3>4. Matching' = MatchingIn(more)
      BY <3>1, <3>3 DEF Matching, MatchingIn
    <3>5. Chosen' = ChosenIn(more)
      BY <3>4 DEF Chosen, ChosenIn
    <3>6. Settled' <=> SettledIn(more)
      <4>1. MatchingIn(more) # {} => ChosenIn(more) \in StartsIn(more)
        BY <1>2, ChosenType
      <4>2. MatchingIn(more) # {} => (Ended(more, ChosenIn(more)) <=> ChosenIn(more) < Max(StartsIn(more)))
        BY <1>2, <4>1, StartsBound
      <4> QED
        BY <3>1, <3>4, <3>5, <4>2 DEF Settled, SettledIn
    <3>7. Answer' = AnswerIn(more, over)
      BY <3>1, <3>3, <3>4, <3>5 DEF Answer, AnswerIn, Limit
    <3> QED
      BY <3>6, <3>7
  <2>5. over \in BOOLEAN /\ more = Append(output, c)
    BY <1>1
  <2> HIDE DEF over
  <2>6. /\ AnswerIn(output, FALSE) = Limit => AnswerIn(more, over) = Limit
        /\ SettledIn(output) => SettledIn(more) /\ AnswerIn(more, over) \in {AnswerIn(output, FALSE), Limit}
        /\ SettledIn(output) /\ AnswerIn(output, FALSE).code = "OPENING_URL_INVALID"
             => AnswerIn(more, over) = AnswerIn(output, FALSE)
    <3> DEFINE next == Append(output, c)
    <3>1. /\ AnswerIn(output, FALSE) = Limit => AnswerIn(next, over) = Limit
          /\ SettledIn(output) => SettledIn(next) /\ AnswerIn(next, over) \in {AnswerIn(output, FALSE), Limit}
          /\ SettledIn(output) /\ AnswerIn(output, FALSE).code = "OPENING_URL_INVALID"
               => AnswerIn(next, over) = AnswerIn(output, FALSE)
      BY <2>5, AnswerKept
    <3> HIDE DEF next
    <3>2. more = next
      BY <2>5 DEF next
    <3> QED
      BY <3>1, <3>2
  <2> QED
    BY <1>2, <2>3, <2>4, <2>6
<1>4. CASE Len(output) > MaxOutput
  <2>1. Read = SubSeq(output, 1, MaxOutput + 1)
    BY <1>4, ReadOf
  <2>2. Read' = SubSeq(output', 1, MaxOutput + 1)
    <3>1. Min({Len(output'), MaxOutput + 1}) = MaxOutput + 1
      <4>1. MaxOutput + 1 \in Nat /\ Len(output') \in Nat /\ ~(Len(output') <= MaxOutput + 1)
        BY <1>2, <1>4
      <4> QED
        BY <4>1, MinOfTwo
    <3> QED
      BY <3>1 DEF Read
  <2>3. SubSeq(output', 1, MaxOutput + 1) = SubSeq(output, 1, MaxOutput + 1)
    BY <1>1, <1>2, <1>4
  <2>4. Read' = Read /\ (Len(output') > MaxOutput) /\ Len(output) > MaxOutput
    BY <1>2, <1>4, <2>1, <2>2, <2>3
  <2>5. Starts' = Starts /\ \A n : Line(n)' = Line(n)
    BY <2>4 DEF Starts, Line
  <2>6. Scanned' = Scanned /\ Matching' = Matching
    BY <2>5 DEF Scanned, Matching, Long
  <2>7. Chosen' = Chosen
    BY <2>6 DEF Chosen
  <2>8. Answer' = Answer
    BY <2>4, <2>5, <2>6, <2>7 DEF Answer
  <2>9. Settled => Settled'
    BY <2>5, <2>6, <2>7 DEF Settled
  <2> QED
    BY <1>2, <2>8, <2>9
<1> QED
  BY <1>2, <1>3, <1>4

(* The invariant is inductive.                                             *)
LEMMA OpeningStep ==
  ASSUME OpeningInv, [Next]_vars
  PROVE  OpeningInv'
<1>1. CASE Grow
  <2>1. /\ output' \in Seq(Symbol)
        /\ Answer = Limit => Answer' = Limit
        /\ Settled => Settled' /\ Answer' \in {Answer, Limit}
        /\ Settled /\ Answer.code = "OPENING_URL_INVALID" => Answer' = Answer
    BY <1>1, GrowStep DEF OpeningInv
  <2>2. reading' = reading /\ Limit' = Limit
    BY <1>1 DEF Grow, Limit
  <2>3. AnswersAreFinal /\ (reading.settled => Settled)
    BY DEF OpeningInv
  <2>4. reading.settled => Answer' \in {reading.answer, Limit}
    BY <2>1, <2>3 DEF AnswersAreFinal
  <2>5. reading.settled /\ reading.answer.code = "OPENING_URL_INVALID" => Answer' = reading.answer
    BY <2>1, <2>3 DEF AnswersAreFinal
  <2>6. reading.answer = Limit => Answer' = Limit
    BY <2>1, <2>3 DEF AnswersAreFinal
  <2> QED
    BY <2>1, <2>2, <2>3, <2>4, <2>5, <2>6 DEF OpeningInv, AnswersAreFinal
<1>2. CASE Parse
  <2>1. output' = output /\ reading'.answer = Answer /\ reading'.settled = Settled
    BY <1>2 DEF Parse
  <2>2. Read' = Read
    BY <2>1 DEF Read
  <2>3. Starts' = Starts /\ \A n : Line(n)' = Line(n)
    BY <2>2 DEF Starts, Line
  <2>4. Scanned' = Scanned /\ Matching' = Matching
    BY <2>3 DEF Scanned, Matching, Long
  <2>5. Chosen' = Chosen
    BY <2>4 DEF Chosen
  <2>6. Answer' = Answer /\ (Settled' <=> Settled) /\ Limit' = Limit
    BY <2>1, <2>3, <2>4, <2>5 DEF Answer, Settled, Limit
  <2> QED
    BY <2>1, <2>6 DEF OpeningInv, AnswersAreFinal
<1>3. CASE UNCHANGED vars
  <2>1. output' = output /\ reading' = reading
    BY <1>3 DEF vars
  <2>2. Read' = Read
    BY <2>1 DEF Read
  <2>3. Starts' = Starts /\ \A n : Line(n)' = Line(n)
    BY <2>2 DEF Starts, Line
  <2>4. Scanned' = Scanned /\ Matching' = Matching
    BY <2>3 DEF Scanned, Matching, Long
  <2>5. Chosen' = Chosen
    BY <2>4 DEF Chosen
  <2>6. Answer' = Answer /\ (Settled' <=> Settled) /\ Limit' = Limit
    BY <2>1, <2>3, <2>4, <2>5 DEF Answer, Settled, Limit
  <2> QED
    BY <2>1, <2>6 DEF OpeningInv, AnswersAreFinal
<1> QED
  BY <1>1, <1>2, <1>3 DEF Next

LEMMA OpeningInit == Init => OpeningInv
<1> SUFFICES ASSUME Init PROVE OpeningInv
  OBVIOUS
<1>1. reading = [answer |-> Result("", <<>>), settled |-> FALSE] /\ output = <<>>
  BY DEF Init, Never
<1>2. reading.settled = FALSE /\ reading.answer = Result("", <<>>)
  BY <1>1
<1>3. Result("", <<>>) # Limit
  BY ResultsDiffer
<1>4. output \in Seq(Symbol)
  BY <1>1, EmptySeq
<1> QED
  BY <1>2, <1>3, <1>4 DEF OpeningInv, AnswersAreFinal

-----------------------------------------------------------------------------
(* The loop of the SDK.                                                    *)

(* What it has found when it has seen the lines that start up to n.        *)
UpTo(text, n) ==
  IF (\E k \in MatchingIn(text) : k <= n) /\ ~SDKValidURL(Candidate(LineIn(text, ChosenIn(text))))
    THEN Result("OPENING_URL_INVALID", <<>>)
  ELSE IF \E i \in StartsIn(text) : i <= n /\ i \notin ScannedIn(text)
    THEN Limit
  ELSE IF \E k \in MatchingIn(text) : k <= n
    THEN Result("", Candidate(LineIn(text, ChosenIn(text))))
  ELSE Result("", <<>>)

Turn(text, n, before) ==
  IF n = 0 THEN Result("", <<>>)
  ELSE IF n \in StartsIn(text) THEN SDKLine(before, LineIn(text, n)) ELSE before

(* One turn takes what was found in the lines before n to what is found    *)
(* when line n has been seen too.                                          *)
LEMMA OneTurn ==
  ASSUME NEW text \in Seq(Symbol), NEW n \in Nat, n # 0
  PROVE  Turn(text, n, UpTo(text, n - 1)) = UpTo(text, n)
<1> DEFINE Sc == ScannedIn(text)
           St == StartsIn(text)
           M == MatchingIn(text)
           ch == ChosenIn(text)
           cand(k) == Candidate(LineIn(text, k))
           seen(k) == \E i \in M : i <= k
           cut(k) == \E i \in St : i <= k /\ i \notin Sc
           bad == ~SDKValidURL(cand(ch))
           before == UpTo(text, n - 1)
           line == LineIn(text, n)
<1>1. /\ M \subseteq Sc /\ Sc \subseteq St /\ St \subseteq Nat
      /\ M # {} => ch \in M /\ \A k \in M : ch <= k
  BY ChosenType
<1>2. \A k \in Sc, i \in St : i <= k => i \in Sc
  <2>1. \A k \in Sc, i \in St, j \in St : i <= k /\ j <= i => j <= k
    BY <1>1
  <2> QED
    BY <2>1 DEF ScannedIn
<1>3. \A k \in St : k \in M <=> k \in Sc /\ cand(k) # <<>>
  BY DEF MatchingIn
<1>4. \A k \in Nat : k <= n <=> k <= n - 1 \/ k = n
  OBVIOUS
<1>5. (seen(n) <=> seen(n - 1) \/ n \in M) /\ (cut(n) <=> cut(n - 1) \/ (n \in St /\ n \notin Sc))
  <2>1. n <= n
    OBVIOUS
  <2> HIDE DEF Sc, St, M
  <2> QED
    BY <1>1, <1>4, <2>1
<1>6. \A k : UpTo(text, k) =
        IF seen(k) /\ bad THEN Result("OPENING_URL_INVALID", <<>>)
        ELSE IF cut(k) THEN Limit
        ELSE IF seen(k) THEN Result("", cand(ch))
        ELSE Result("", <<>>)
  BY DEF UpTo
<1>7. Turn(text, n, before) = IF n \in St THEN SDKLine(before, line) ELSE before
  BY DEF Turn
<1>8. SDKLine(before, line) =
        IF before.code # "" THEN before
        ELSE IF LongIn(text, n) THEN Limit
        ELSE IF before.url # <<>> \/ cand(n) = <<>> THEN before
        ELSE IF SDKValidURL(cand(n)) THEN Result("", cand(n))
        ELSE Result("OPENING_URL_INVALID", <<>>)
  BY DEF SDKLine, LongIn, Limit
<1>9. cut(n - 1) => n \notin M
  BY <1>1, <1>2
<1>10. n \in St /\ ~cut(n - 1) => (n \in Sc <=> ~LongIn(text, n))
  <2>1. ASSUME n \in St, ~cut(n - 1), ~LongIn(text, n) PROVE n \in Sc
    <3>1. ASSUME NEW i \in St, i <= n PROVE ~LongIn(text, i)
      <4>1. CASE i = n
        BY <2>1, <4>1
      <4>2. CASE i # n
        <5>1. i \in Nat /\ i <= n - 1
          BY <1>1, <3>1, <4>2
        <5>2. i \in Sc /\ i <= i
          BY <2>1, <5>1
        <5> QED
          BY <5>2 DEF ScannedIn
      <4> QED
        BY <4>1, <4>2
    <3> QED
      BY <2>1, <3>1 DEF ScannedIn
  <2>2. n \in Sc => ~LongIn(text, n)
    <3>1. n <= n
      OBVIOUS
    <3> QED
      BY <3>1 DEF ScannedIn
  <2> QED
    BY <2>1, <2>2
<1>11. n \in M /\ ~seen(n - 1) => ch = n
  <2>1. M # {} => ch \in Nat /\ (ch <= n /\ ch # n => ch <= n - 1)
    BY <1>1
  <2> HIDE DEF M, ch
  <2> QED
    BY <1>1, <2>1
<1>12. seen(n - 1) => cand(ch) # <<>>
  BY <1>1, <1>3
<1> HIDE DEF Sc, St, M, ch, cand, seen, cut, bad, before, line
<1>13. before =
        IF seen(n - 1) /\ bad THEN Result("OPENING_URL_INVALID", <<>>)
        ELSE IF cut(n - 1) THEN Limit
        ELSE IF seen(n - 1) THEN Result("", cand(ch))
        ELSE Result("", <<>>)
  BY <1>6 DEF before
<1>14. UpTo(text, n) =
        IF seen(n) /\ bad THEN Result("OPENING_URL_INVALID", <<>>)
        ELSE IF cut(n) THEN Limit
        ELSE IF seen(n) THEN Result("", cand(ch))
        ELSE Result("", <<>>)
  BY <1>6
<1>15. bad = ~SDKValidURL(cand(ch))
  BY DEF bad, cand
<1>16. n \in M => n \in St /\ n \in Sc
  BY <1>1
<1>17. CASE n \notin St
  BY <1>5, <1>7, <1>13, <1>14, <1>16, <1>17 DEF before
<1>18. CASE n \in St /\ seen(n - 1) /\ bad
  <2>1. before = Result("OPENING_URL_INVALID", <<>>) /\ UpTo(text, n) = before
    BY <1>5, <1>13, <1>14, <1>18
  <2>2. before.code # ""
    BY <2>1, ResultsDiffer
  <2> QED
    BY <1>7, <1>8, <1>18, <2>1, <2>2 DEF before
<1>19. CASE n \in St /\ ~(seen(n - 1) /\ bad) /\ cut(n - 1)
  <2>1. before = Limit /\ UpTo(text, n) = before
    BY <1>5, <1>9, <1>13, <1>14, <1>19
  <2>2. before.code # ""
    BY <2>1, ResultsDiffer
  <2> QED
    BY <1>7, <1>8, <1>19, <2>1, <2>2 DEF before
<1>20. CASE n \in St /\ ~cut(n - 1) /\ LongIn(text, n) /\ ~(seen(n - 1) /\ bad)
  <2>1. before.code = ""
    BY <1>13, <1>20, ResultsDiffer DEF Result
  <2>2. UpTo(text, n) = Limit
    BY <1>5, <1>10, <1>14, <1>16, <1>20
  <2> QED
    BY <1>7, <1>8, <1>20, <2>1, <2>2 DEF before
<1>21. CASE n \in St /\ ~cut(n - 1) /\ ~LongIn(text, n) /\ seen(n - 1) /\ ~bad
  <2>1. before = Result("", cand(ch)) /\ UpTo(text, n) = before
    BY <1>5, <1>10, <1>13, <1>14, <1>21
  <2>2. before.code = "" /\ before.url = cand(ch)
    BY <2>1, ResultsDiffer
  <2>3. cand(ch) # <<>>
    BY <1>12, <1>21
  <2> QED
    BY <1>7, <1>8, <1>21, <2>1, <2>2, <2>3 DEF before
<1>22. CASE n \in St /\ ~cut(n - 1) /\ ~LongIn(text, n) /\ ~seen(n - 1)
  <2>1. before = Result("", <<>>)
    BY <1>13, <1>22
  <2>2. before.code = "" /\ before.url = <<>>
    BY <2>1 DEF Result
  <2>3. n \in Sc /\ ~cut(n) /\ (n \in M <=> cand(n) # <<>>)
    BY <1>3, <1>5, <1>10, <1>22 DEF cand
  <2>4. CASE cand(n) = <<>>
    <3>1. UpTo(text, n) = before
      BY <1>5, <1>14, <1>22, <2>1, <2>3, <2>4
    <3> QED
      BY <1>7, <1>8, <1>22, <2>2, <2>4, <3>1 DEF before
  <2>5. CASE cand(n) # <<>>
    <3>1. seen(n) /\ ch = n
      BY <1>5, <1>11, <1>22, <2>3, <2>5
    <3>2. Turn(text, n, before) = IF SDKValidURL(cand(n)) THEN Result("", cand(n)) ELSE Result("OPENING_URL_INVALID", <<>>)
      BY <1>7, <1>8, <1>22, <2>2, <2>5
    <3>3. UpTo(text, n) = IF ~SDKValidURL(cand(n)) THEN Result("OPENING_URL_INVALID", <<>>) ELSE Result("", cand(n))
      BY <1>14, <1>15, <2>3, <3>1
    <3>4. Turn(text, n, before) = UpTo(text, n)
      <4>1. CASE SDKValidURL(cand(n))
        BY <3>2, <3>3, <4>1
      <4>2. CASE ~SDKValidURL(cand(n))
        BY <3>2, <3>3, <4>2
      <4> QED
        BY <4>1, <4>2
    <3> QED
      BY <3>4 DEF before
  <2> QED
    BY <2>4, <2>5
<1> QED
  BY <1>17, <1>18, <1>19, <1>20, <1>21, <1>22

Turns(text, found) == found = [n \in 0..(Len(text) + 1) |-> Turn(text, n, found[n - 1])]

LEMMA UpToNone == ASSUME NEW text \in Seq(Symbol) PROVE UpTo(text, 0) = Result("", <<>>)
<1>1. \A k \in StartsIn(text) : ~(k <= 0)
  BY StartsBound
<1>2. MatchingIn(text) \subseteq StartsIn(text)
  BY ChosenType
<1> QED
  BY <1>1, <1>2 DEF UpTo

(* The loop, as a function of the position, exists, and it is its closed   *)
(* form.                                                                   *)
LEMMA TurnsExist ==
  ASSUME NEW text \in Seq(Symbol)
  PROVE  \E found : Turns(text, found)
<1> DEFINE N == Len(text) + 1
           f == [n \in 0..N |-> UpTo(text, n)]
<1>1. N \in Nat
  OBVIOUS
<1> HIDE DEF N
<1>2. ASSUME NEW n \in 0..N PROVE UpTo(text, n) = Turn(text, n, f[n - 1])
  <2>1. CASE n = 0
    BY <2>1, UpToNone DEF Turn
  <2>2. CASE n # 0
    <3>1. n \in Nat /\ n - 1 \in 0..N
      BY <1>1, <2>2
    <3>2. f[n - 1] = UpTo(text, n - 1)
      BY <3>1
    <3> QED
      BY <2>2, <3>1, <3>2, OneTurn
  <2> QED
    BY <2>1, <2>2
<1>3. f = [n \in 0..N |-> Turn(text, n, f[n - 1])]
  BY <1>2
<1>4. Turns(text, f)
  <2> HIDE DEF f
  <2> QED
    BY <1>3 DEF Turns, N
<1> QED
  BY <1>4

LEMMA TurnsFind ==
  ASSUME NEW text \in Seq(Symbol), NEW found, Turns(text, found)
  PROVE  found[Len(text) + 1] = UpTo(text, Len(text) + 1)
<1> DEFINE N == Len(text) + 1
           S == {n \in Nat : n \in 0..N => found[n] = UpTo(text, n)}
<1>1. N \in Nat
  OBVIOUS
<1>2. \A n \in 0..N : found[n] = Turn(text, n, found[n - 1])
  BY DEF Turns
<1> HIDE DEF N
<1>3. 0 \in S
  BY <1>1, <1>2, UpToNone DEF Turn
<1>4. ASSUME NEW n \in Nat, n \in S PROVE n + 1 \in S
  <2>1. SUFFICES ASSUME n + 1 \in 0..N PROVE found[n + 1] = UpTo(text, n + 1)
    BY <1>4
  <2>2. n \in 0..N /\ (n + 1) - 1 = n /\ n + 1 # 0 /\ n + 1 \in Nat
    BY <1>1, <2>1
  <2>3. found[n + 1] = Turn(text, n + 1, found[n])
    BY <1>2, <2>1, <2>2
  <2>4. found[n] = UpTo(text, n)
    BY <1>4, <2>2
  <2>5. Turn(text, n + 1, UpTo(text, (n + 1) - 1)) = UpTo(text, n + 1)
    BY <2>2, OneTurn
  <2> QED
    BY <2>2, <2>3, <2>4, <2>5
<1>5. Nat \subseteq S
  <2> HIDE DEF S
  <2> QED
    BY <1>3, <1>4, Upwards
<1> QED
  BY <1>1, <1>5 DEF N

LEMMA SDKFinds ==
  ASSUME output \in Seq(Symbol)
  PROVE  SDKAnswer = IF Len(output) > MaxOutput THEN Limit
                     ELSE IF UpTo(output, Len(output) + 1) = Result("", <<>>) THEN Result("OPENING_URL_MISSING", <<>>)
                     ELSE UpTo(output, Len(output) + 1)
<1> DEFINE found == CHOOSE f : Turns(output, f)
<1>1. Turns(output, found)
  BY TurnsExist
<1>2. found[Len(output) + 1] = UpTo(output, Len(output) + 1)
  <2> HIDE DEF found
  <2> QED
    BY <1>1, TurnsFind
<1>3. SDKAnswer = IF Len(output) > MaxOutput THEN Limit
                  ELSE IF found[Len(output) + 1] = Result("", <<>>) THEN Result("OPENING_URL_MISSING", <<>>)
                  ELSE found[Len(output) + 1]
  BY DEF SDKAnswer, Turns, Turn, Limit
<1> QED
  BY <1>2, <1>3

(* Which candidate the two URL parsers take differently.                   *)
DisputedIn(text) ==
  /\ MatchingIn(text) # {}
  /\ LET candidate == Candidate(LineIn(text, ChosenIn(text)))
     IN ValidURL(candidate) # SDKValidURL(candidate)

(* The two implementations agree on every output of which the candidate is *)
(* not disputed, and one of them refuses a disputed candidate.             *)
LEMMA Agreement == output \in Seq(Symbol) => ImplementationsAgree
<1> SUFFICES ASSUME output \in Seq(Symbol) PROVE ImplementationsAgree
  OBVIOUS
<1> DEFINE text == output
           N == Len(output) + 1
<1>1. CASE Len(output) > MaxOutput
  <2>1. SDKAnswer = Limit /\ Answer \in {Result("OPENING_URL_INVALID", <<>>), Limit}
    BY <1>1, SDKFinds DEF Answer, Limit
  <2>2. ~(Len(output) <= MaxOutput)
    BY <1>1, OpeningAssumption
  <2>3. SDKAnswer.code # "" /\ Answer.code # ""
    BY <2>1, ResultsDiffer
  <2> QED
    BY <2>2, <2>3 DEF ImplementationsAgree
<1>2. CASE ~(Len(output) > MaxOutput)
  <2>0. ~(Len(output) > MaxOutput)
    BY <1>2
  <2>1. Len(output) <= MaxOutput /\ Len(output) \in Nat
    BY <1>2, OpeningAssumption
  <2>2. Answer = AnswerIn(output, FALSE)
    <3>1. Answer = AnswerIn(output, Len(output) > MaxOutput)
      BY <2>1, ReadOf, ReaderIn
    <3> QED
      BY <1>2, <3>1 DEF AnswerIn
  <2>3. /\ MatchingIn(text) \subseteq ScannedIn(text) /\ ScannedIn(text) \subseteq StartsIn(text)
        /\ \A n \in StartsIn(text) : n <= N
        /\ MatchingIn(text) # {} => ChosenIn(text) \in MatchingIn(text)
    BY ChosenType, StartsBound
  <2>4. (\E k \in MatchingIn(text) : k <= N) <=> MatchingIn(text) # {}
    BY <2>3
  <2>5. (\E i \in StartsIn(text) : i <= N /\ i \notin ScannedIn(text)) <=> ScannedIn(text) # StartsIn(text)
    BY <2>3
  <2>6. MatchingIn(text) # {} => Candidate(LineIn(text, ChosenIn(text))) # <<>>
    BY <2>3 DEF MatchingIn
  <2>7. SDKAnswer = IF UpTo(text, N) = Result("", <<>>) THEN Result("OPENING_URL_MISSING", <<>>) ELSE UpTo(text, N)
    BY <1>2, SDKFinds
  <2>8. UpTo(text, N) =
          IF MatchingIn(text) # {} /\ ~SDKValidURL(Candidate(LineIn(text, ChosenIn(text))))
            THEN Result("OPENING_URL_INVALID", <<>>)
          ELSE IF ScannedIn(text) # StartsIn(text) THEN Limit
          ELSE IF MatchingIn(text) # {} THEN Result("", Candidate(LineIn(text, ChosenIn(text))))
          ELSE Result("", <<>>)
    BY <2>4, <2>5 DEF UpTo
  <2>9. ASSUME NEW u, u # <<>> PROVE Result("", u) # Result("", <<>>)
    <3>1. Result("", u).url = u /\ Result("", <<>>).url = <<>>
      BY ResultsDiffer
    <3> QED
      BY <2>9, <3>1
  <2>10. Result("OPENING_URL_INVALID", <<>>) # Result("", <<>>) /\ Limit # Result("", <<>>)
    <3>1. Result("", <<>>).code = "" /\ Result("OPENING_URL_INVALID", <<>>).code # "" /\ Limit.code # ""
      BY ResultsDiffer
    <3> QED
      BY <3>1
  <2>11. Disputed <=> DisputedIn(text)
    <3>1. Matching = MatchingIn(text) /\ Chosen = ChosenIn(text) /\ \A n : Line(n) = LineIn(text, n)
      BY <2>1, ReadOf, ReaderIn DEF Line
    <3> QED
      BY <3>1 DEF Disputed, DisputedIn
  <2>12. CASE ~DisputedIn(text)
    <3>1. MatchingIn(text) # {} =>
            (ValidURL(Candidate(LineIn(text, ChosenIn(text)))) <=> SDKValidURL(Candidate(LineIn(text, ChosenIn(text)))))
      BY <2>12 DEF DisputedIn, ValidURL, SDKValidURL
    <3>2. SDKAnswer = Answer
      BY <2>2, <2>6, <2>7, <2>8, <2>9, <2>10, <3>1 DEF AnswerIn
    <3> QED
      BY <2>0, <2>11, <2>12, <3>2 DEF ImplementationsAgree
  <2>13. CASE DisputedIn(text)
    <3>1. MatchingIn(text) # {}
      BY <2>13 DEF DisputedIn
    <3>2. \/ ~ValidURL(Candidate(LineIn(text, ChosenIn(text))))
          \/ ~SDKValidURL(Candidate(LineIn(text, ChosenIn(text))))
      BY <2>13 DEF DisputedIn, ValidURL, SDKValidURL
    <3>3. Result("OPENING_URL_INVALID", <<>>) \in {Answer, SDKAnswer}
      BY <2>2, <2>7, <2>8, <2>10, <3>1, <3>2 DEF AnswerIn
    <3>4. Result("OPENING_URL_INVALID", <<>>).code = "OPENING_URL_INVALID"
      BY DEF Result
    <3>5. "OPENING_URL_INVALID" \in {Answer.code, SDKAnswer.code}
      BY <3>3, <3>4
    <3> QED
      BY <2>0, <2>11, <2>13, <3>5 DEF ImplementationsAgree
  <2> QED
    BY <2>12, <2>13
<1> QED
  BY <1>1, <1>2

-----------------------------------------------------------------------------
(* Beginnings.                                                             *)

(* A beginning, symbol by symbol.                                          *)
LEMMA PrefixOf ==
  ASSUME NEW s \in Seq(Symbol), NEW t \in Seq(Symbol)
  PROVE  IsPrefix(s, t) <=> Len(s) <= Len(t) /\ \A i \in 1..Len(s) : s[i] = t[i]
<1>1. SubSeq(s, 1, Len(s)) = s
  OBVIOUS
<1>2. ASSUME Len(s) <= Len(t)
      PROVE  /\ SubSeq(t, 1, Len(s)) \in Seq(Symbol) /\ Len(SubSeq(t, 1, Len(s))) = Len(s)
             /\ \A i \in 1..Len(s) : SubSeq(t, 1, Len(s))[i] = t[i]
  <2>1. 1 \in Int /\ Len(s) \in Int /\ \A i \in 1..Len(s) : t[i] \in Symbol
    BY <1>2
  <2> QED
    BY <2>1, SubSeqProperties
<1>3. ASSUME Len(s) <= Len(t), \A i \in 1..Len(s) : s[i] = t[i] PROVE s = SubSeq(t, 1, Len(s))
  <2>1. /\ SubSeq(t, 1, Len(s)) \in Seq(Symbol) /\ Len(SubSeq(t, 1, Len(s))) = Len(s)
        /\ \A i \in 1..Len(s) : s[i] = SubSeq(t, 1, Len(s))[i]
    BY <1>2, <1>3
  <2> QED
    BY <2>1, SeqEqual
<1>4. ASSUME IsPrefix(s, t) PROVE Len(s) <= Len(t) /\ \A i \in 1..Len(s) : s[i] = t[i]
  <2>1. Len(s) <= Len(t) /\ s = SubSeq(t, 1, Len(s))
    BY <1>1, <1>4 DEF IsPrefix
  <2> QED
    BY <1>2, <2>1
<1> QED
  BY <1>1, <1>3, <1>4 DEF IsPrefix

(* What follows the declared prefix on a line.                             *)
Rest(line) == SubSeq(line, Len(LinePrefix) + 1, Len(line))

LEMMA RestType ==
  ASSUME NEW line \in Seq(Symbol), IsPrefix(LinePrefix, line)
  PROVE  /\ LinePrefix \in Seq(Symbol) /\ Len(LinePrefix) \in Nat /\ Len(LinePrefix) <= Len(line)
         /\ Rest(line) \in Seq(Symbol) /\ Len(Rest(line)) = Len(line) - Len(LinePrefix)
         /\ \A i \in 1..Len(Rest(line)) : Rest(line)[i] = line[Len(LinePrefix) + i]
<1>1. LinePrefix \in Seq(Symbol)
  BY OpeningAssumption
<1>2. Len(LinePrefix) \in Nat /\ Len(LinePrefix) <= Len(line)
  BY <1>1, PrefixOf
<1> DEFINE p == Len(LinePrefix)
           q == Len(line)
<1>3. p + 1 \in Int /\ q \in Nat /\ \A i \in (p + 1)..q : line[i] \in Symbol
  BY <1>2
<1>4. /\ SubSeq(line, p + 1, q) \in Seq(Symbol)
      /\ Len(SubSeq(line, p + 1, q)) = IF p + 1 <= q THEN q - (p + 1) + 1 ELSE 0
      /\ \A i \in 1..(q - (p + 1) + 1) : SubSeq(line, p + 1, q)[i] = line[p + 1 + i - 1]
  <2> HIDE DEF p, q
  <2> QED
    BY <1>3, SubSeqProperties
<1>5. Rest(line) = SubSeq(line, p + 1, q)
  BY DEF Rest
<1> HIDE DEF p, q
<1>6. p \in Nat /\ p <= q
  BY <1>2 DEF p, q
<1>7. Len(Rest(line)) = q - p
  BY <1>3, <1>4, <1>5, <1>6
<1>8. \A i \in 1..(q - p) : Rest(line)[i] = line[p + i]
  <2>1. \A i \in 1..(q - p) : i \in 1..(q - (p + 1) + 1) /\ p + 1 + i - 1 = p + i
    BY <1>3, <1>6
  <2> QED
    BY <1>4, <1>5, <2>1
<1> QED
  BY <1>1, <1>2, <1>4, <1>5, <1>7, <1>8 DEF p, q

(* A line that starts with the prefix still does when it is longer, and    *)
(* what follows the prefix is longer by the same symbol.                   *)
LEMMA RestGrows ==
  ASSUME NEW line \in Seq(Symbol), NEW c \in Symbol, IsPrefix(LinePrefix, line),
         NEW s \in Seq(Symbol), IsPrefix(s, Rest(line))
  PROVE  LET more == Append(line, c)
         IN IsPrefix(LinePrefix, more) /\ IsPrefix(s, Rest(more))
<1> DEFINE more == Append(line, c)
           p == Len(LinePrefix)
<1>1. /\ LinePrefix \in Seq(Symbol) /\ p \in Nat /\ p <= Len(line)
      /\ Rest(line) \in Seq(Symbol) /\ Len(Rest(line)) = Len(line) - p
      /\ \A i \in 1..Len(Rest(line)) : Rest(line)[i] = line[p + i]
  BY RestType
<1>2. more \in Seq(Symbol) /\ Len(more) = Len(line) + 1 /\ \A i \in 1..Len(line) : more[i] = line[i]
  OBVIOUS
<1> HIDE DEF more, p
<1>3. \A i \in 1..p : LinePrefix[i] = line[i]
  BY <1>1, PrefixOf DEF p
<1>4. IsPrefix(LinePrefix, more)
  <2>1. p <= Len(more) /\ \A i \in 1..p : LinePrefix[i] = more[i]
    BY <1>1, <1>2, <1>3
  <2> QED
    BY <1>1, <1>2, <2>1, PrefixOf DEF p
<1>5. /\ Rest(more) \in Seq(Symbol) /\ Len(Rest(more)) = Len(more) - p
      /\ \A i \in 1..Len(Rest(more)) : Rest(more)[i] = more[p + i]
  BY <1>2, <1>4, RestType DEF p
<1>6. Len(s) \in Nat /\ Len(s) <= Len(Rest(line)) /\ \A i \in 1..Len(s) : s[i] = Rest(line)[i]
  BY <1>1, PrefixOf
<1>7. ASSUME NEW i \in 1..Len(s) PROVE s[i] = Rest(more)[i]
  <2>1. i \in 1..Len(Rest(line)) /\ i \in 1..Len(Rest(more)) /\ p + i \in 1..Len(line)
    BY <1>1, <1>2, <1>5, <1>6
  <2> QED
    BY <1>1, <1>2, <1>5, <1>6, <2>1
<1>8. Len(s) <= Len(Rest(more))
  BY <1>1, <1>2, <1>5, <1>6
<1>9. IsPrefix(s, Rest(more))
  BY <1>5, <1>7, <1>8, PrefixOf
<1> QED
  BY <1>4, <1>9 DEF more

Words(s) == {n \in 1..Len(s) : s[n] # Blank}
FirstRun(s) == {n \in Words(s) : \A i \in Min(Words(s))..n : i \in Words(s)}

(* The first field reaches from the first symbol that is not blank to the  *)
(* last before a blank.                                                    *)
LEMMA FirstFieldIs ==
  ASSUME NEW s \in Seq(Symbol)
  PROVE  /\ Words(s) = {} => FirstField(s) = <<>>
         /\ Words(s) # {} =>
              /\ Min(Words(s)) \in Words(s) /\ \A n \in Words(s) : Min(Words(s)) <= n
              /\ Max(FirstRun(s)) \in FirstRun(s) /\ \A n \in FirstRun(s) : n <= Max(FirstRun(s))
              /\ Min(Words(s)) \in 1..Len(s) /\ Max(FirstRun(s)) \in Min(Words(s))..Len(s)
              /\ FirstField(s) \in Seq(Symbol)
              /\ Len(FirstField(s)) = Max(FirstRun(s)) - Min(Words(s)) + 1
              /\ \A i \in 1..Len(FirstField(s)) : FirstField(s)[i] = s[Min(Words(s)) + i - 1]
<1> DEFINE W == Words(s)
           R == FirstRun(s)
           a == Min(W)
           b == Max(R)
<1>1. Len(s) \in Nat /\ W \subseteq 1..Len(s) /\ R \subseteq W
  BY DEF Words, FirstRun
<1>2. W = {} => FirstField(s) = <<>>
  BY DEF FirstField, Words
<1>3. SUFFICES ASSUME W # {}
               PROVE  /\ a \in W /\ \A n \in W : a <= n
                      /\ b \in R /\ \A n \in R : n <= b
                      /\ a \in 1..Len(s) /\ b \in a..Len(s)
                      /\ FirstField(s) \in Seq(Symbol)
                      /\ Len(FirstField(s)) = b - a + 1
                      /\ \A i \in 1..Len(FirstField(s)) : FirstField(s)[i] = s[a + i - 1]
  BY <1>2
<1>4. a \in W /\ \A n \in W : a <= n
  <2>1. W \subseteq Nat
    BY <1>1
  <2> HIDE DEF W
  <2> QED
    BY <1>3, <2>1, MinOf
<1>5. a \in R
  <2>1. \A i \in a..a : i = a
    BY <1>1, <1>4
  <2> QED
    BY <1>4, <2>1 DEF FirstRun
<1>6. b \in R /\ \A n \in R : n <= b
  <2>1. R \subseteq 0..Len(s) /\ R # {}
    <3> HIDE DEF a, R, W
    <3> QED
      BY <1>1, <1>5
  <2> HIDE DEF R
  <2> QED
    BY <1>1, <2>1, MaxOf
<1>7. FirstField(s) = SubSeq(s, a, b)
  BY <1>3 DEF FirstField, Words, FirstRun
<1> HIDE DEF a, b, W, R
<1>8. a \in 1..Len(s) /\ b \in a..Len(s)
  BY <1>1, <1>4, <1>6
<1>9. /\ SubSeq(s, a, b) \in Seq(Symbol) /\ Len(SubSeq(s, a, b)) = b - a + 1
      /\ \A i \in 1..(b - a + 1) : SubSeq(s, a, b)[i] = s[a + i - 1]
  <2>1. a \in Int /\ b \in Int /\ a <= b /\ \A i \in a..b : s[i] \in Symbol
    BY <1>1, <1>8
  <2> QED
    BY <2>1, SubSeqProperties
<1> QED
  BY <1>4, <1>6, <1>7, <1>8, <1>9

(* The first field of what goes on starts where it started before, and     *)
(* reaches as far at least.                                                *)
LEMMA RunKept ==
  ASSUME NEW s \in Seq(Symbol), NEW r \in Seq(Symbol), IsPrefix(s, r), Words(s) # {}
  PROVE  /\ \A n \in 1..Len(s) : n \in Words(s) <=> n \in Words(r)
         /\ Words(r) # {} /\ Min(Words(r)) = Min(Words(s)) /\ Max(FirstRun(s)) \in FirstRun(r)
<1> DEFINE a == Min(Words(s))
           b == Max(FirstRun(s))
           a2 == Min(Words(r))
<1>1. Len(s) \in Nat /\ Len(r) \in Nat /\ Len(s) <= Len(r) /\ \A i \in 1..Len(s) : s[i] = r[i]
  BY PrefixOf
<1>2. \A n \in 1..Len(s) : n \in 1..Len(r) /\ (n \in Words(s) <=> n \in Words(r))
  BY <1>1 DEF Words
<1>3. /\ a \in Words(s) /\ \A n \in Words(s) : a <= n
      /\ b \in FirstRun(s) /\ a \in 1..Len(s) /\ b \in a..Len(s)
  BY FirstFieldIs
<1>4. Words(r) # {} /\ a \in Words(r)
  BY <1>2, <1>3
<1>5. a2 \in Words(r) /\ (\A n \in Words(r) : a2 <= n) /\ a2 \in 1..Len(r)
  BY <1>4, FirstFieldIs
<1>6. \A i \in a..b : i \in Words(s) /\ i \in 1..Len(s)
  <2>1. \A i \in a..b : i \in Words(s)
    BY <1>3 DEF FirstRun
  <2> QED
    BY <2>1 DEF Words
<1> HIDE DEF a, b, a2
<1>7. a2 = a
  <2>1. a2 <= a
    BY <1>4, <1>5
  <2>2. a2 \in 1..Len(s)
    BY <1>3, <1>5, <2>1
  <2>3. a <= a2
    BY <1>2, <1>3, <1>5, <2>2
  <2> QED
    BY <1>3, <2>1, <2>2, <2>3
<1>8. b \in FirstRun(r)
  <2>1. b \in a..b
    BY <1>3
  <2>2. \A i \in a..b : i \in Words(r)
    BY <1>2, <1>6
  <2>3. Min(Words(r)) = a
    BY <1>7 DEF a2
  <2> QED
    BY <2>1, <2>2, <2>3 DEF FirstRun
<1> QED
  BY <1>2, <1>4, <1>7, <1>8 DEF a, b, a2

(* The first field of a beginning is a beginning of the first field.       *)
LEMMA FirstFieldGrows ==
  ASSUME NEW s \in Seq(Symbol), NEW r \in Seq(Symbol), IsPrefix(s, r)
  PROVE  /\ IsPrefix(FirstField(s), FirstField(r))
         /\ FirstField(s) # <<>> => FirstField(r) # <<>>
<1>1. Len(s) \in Nat /\ Len(r) \in Nat /\ Len(s) <= Len(r) /\ \A i \in 1..Len(s) : s[i] = r[i]
  BY PrefixOf
<1>2. CASE Words(s) = {}
  <2>1. FirstField(s) = <<>>
    BY <1>2, FirstFieldIs
  <2>2. FirstField(r) \in Seq(Symbol)
    <3>1. CASE Words(r) = {}
      BY <3>1, FirstFieldIs, EmptySeq
    <3>2. CASE Words(r) # {}
      BY <3>2, FirstFieldIs
    <3> QED
      BY <3>1, <3>2
  <2>3. <<>> \in Seq(Symbol) /\ Len(<<>>) = 0
    BY EmptySeq
  <2>4. IsPrefix(<<>>, FirstField(r))
    <3>1. Len(<<>>) <= Len(FirstField(r)) /\ 1..Len(<<>>) = {}
      BY <2>2, <2>3
    <3> QED
      BY <2>2, <2>3, <3>1, PrefixOf
  <2> QED
    BY <2>1, <2>4
<1>3. CASE Words(s) # {}
  <2> DEFINE a == Min(Words(s))
             b == Max(FirstRun(s))
             b2 == Max(FirstRun(r))
  <2>1. /\ a \in 1..Len(s) /\ b \in a..Len(s)
        /\ FirstField(s) \in Seq(Symbol)
        /\ Len(FirstField(s)) = b - a + 1
        /\ \A i \in 1..Len(FirstField(s)) : FirstField(s)[i] = s[a + i - 1]
    BY <1>3, FirstFieldIs
  <2>2. Words(r) # {} /\ Min(Words(r)) = a /\ b \in FirstRun(r)
    BY <1>3, RunKept
  <2>3. /\ \A n \in FirstRun(r) : n <= b2
        /\ b2 \in a..Len(r)
        /\ FirstField(r) \in Seq(Symbol)
        /\ Len(FirstField(r)) = b2 - a + 1
        /\ \A i \in 1..Len(FirstField(r)) : FirstField(r)[i] = r[a + i - 1]
    BY <2>2, FirstFieldIs
  <2> HIDE DEF a, b, b2
  <2>4. b <= b2
    BY <2>2, <2>3
  <2>5. Len(FirstField(s)) \in Nat \ {0} /\ Len(FirstField(r)) \in Nat \ {0} /\ Len(FirstField(s)) <= Len(FirstField(r))
    BY <1>1, <2>1, <2>3, <2>4
  <2>6. ASSUME NEW i \in 1..Len(FirstField(s)) PROVE FirstField(s)[i] = FirstField(r)[i]
    <3>1. i \in 1..Len(FirstField(r)) /\ a + i - 1 \in 1..Len(s)
      BY <1>1, <2>1, <2>5
    <3> QED
      BY <1>1, <2>1, <2>3, <3>1
  <2>7. IsPrefix(FirstField(s), FirstField(r))
    BY <2>1, <2>3, <2>5, <2>6, PrefixOf
  <2>8. FirstField(r) # <<>>
    BY <2>5
  <2> QED
    BY <2>7, <2>8
<1> QED
  BY <1>2, <1>3

(* A first field that something follows does not change any more.          *)
LEMMA FirstFieldStays ==
  ASSUME NEW s \in Seq(Symbol), NEW r \in Seq(Symbol), IsPrefix(s, r),
         Words(s) # {}, Max(FirstRun(s)) < Len(s)
  PROVE  FirstField(r) = FirstField(s)
<1> DEFINE a == Min(Words(s))
           b == Max(FirstRun(s))
           b2 == Max(FirstRun(r))
<1>1. Len(s) \in Nat /\ Len(r) \in Nat /\ Len(s) <= Len(r) /\ \A i \in 1..Len(s) : s[i] = r[i]
  BY PrefixOf
<1>2. /\ b \in FirstRun(s) /\ \A n \in FirstRun(s) : n <= b
      /\ a \in 1..Len(s) /\ b \in a..Len(s)
      /\ FirstField(s) \in Seq(Symbol)
      /\ Len(FirstField(s)) = b - a + 1
      /\ \A i \in 1..Len(FirstField(s)) : FirstField(s)[i] = s[a + i - 1]
  BY FirstFieldIs
<1>3. /\ \A n \in 1..Len(s) : n \in Words(s) <=> n \in Words(r)
      /\ Words(r) # {} /\ Min(Words(r)) = a /\ b \in FirstRun(r)
  BY RunKept
<1>4. /\ b2 \in FirstRun(r) /\ \A n \in FirstRun(r) : n <= b2
      /\ b2 \in a..Len(r)
      /\ FirstField(r) \in Seq(Symbol)
      /\ Len(FirstField(r)) = b2 - a + 1
      /\ \A i \in 1..Len(FirstField(r)) : FirstField(r)[i] = r[a + i - 1]
  BY <1>3, FirstFieldIs
<1>5. \A i \in a..b : i \in Words(s)
  BY <1>2 DEF FirstRun
<1>6. \A i \in a..b2 : i \in Words(r)
  <2>1. \A i \in Min(Words(r))..b2 : i \in Words(r)
    BY <1>4 DEF FirstRun
  <2> QED
    BY <1>3, <2>1
<1> HIDE DEF b, b2
<1>7. b + 1 \notin Words(s)
  <2>1. SUFFICES ASSUME b + 1 \in Words(s) PROVE FALSE
    OBVIOUS
  <2>2. \A i \in a..(b + 1) : i \in a..b \/ i = b + 1
    BY <1>2
  <2>3. b + 1 \in FirstRun(s)
    BY <1>5, <2>1, <2>2 DEF FirstRun
  <2> QED
    BY <1>2, <2>3
<1> HIDE DEF a
<1>8. b < Len(s)
  BY DEF b
<1>9. b2 = b
  <2>1. b \in Nat /\ b2 \in Nat /\ b <= b2
    BY <1>1, <1>2, <1>3, <1>4
  <2>2. ASSUME b < b2 PROVE FALSE
    <3>1. b + 1 \in a..b2 /\ b + 1 \in 1..Len(s)
      BY <1>1, <1>2, <1>8, <2>1, <2>2
    <3> QED
      BY <1>3, <1>6, <1>7, <3>1
  <2> QED
    BY <2>1, <2>2
<1>10. Len(FirstField(s)) = Len(FirstField(r))
  BY <1>2, <1>4, <1>9
<1>11. ASSUME NEW i \in 1..Len(FirstField(s)) PROVE FirstField(s)[i] = FirstField(r)[i]
  <2>1. i \in 1..Len(FirstField(r)) /\ a + i - 1 \in 1..Len(s)
    BY <1>1, <1>2, <1>10
  <2> QED
    BY <1>1, <1>2, <1>4, <2>1
<1> QED
  BY <1>2, <1>4, <1>10, <1>11, SeqEqual

-----------------------------------------------------------------------------
(* The generated script.                                                   *)

(* The line it took what it stored from: the first with the prefix.        *)
TakenFrom(text, url, whole, m) ==
  /\ m \in StartsIn(text)
  /\ \A k \in StartsIn(text) : k < m => ~IsPrefix(LinePrefix, LineIn(text, k))
  /\ IsPrefix(LinePrefix, LineIn(text, m))
  /\ IF whole THEN Ended(text, m) /\ url = Rest(LineIn(text, m))
     ELSE IsPrefix(url, Rest(LineIn(text, m)))

(* The inductive invariant: what is stored follows the prefix on the first *)
(* line that has it, all of it if the line had its end.                    *)
StoredInv ==
  /\ output \in Seq(Symbol)
  /\ stored \in Seq(Symbol) /\ storedSettled \in BOOLEAN
  /\ Len(output) <= MaxOutput /\ stored # <<>> => \E m \in Nat : TakenFrom(output, stored, storedSettled, m)

(* The line the script took stays the first with the prefix, however the   *)
(* output goes on.                                                         *)
LEMMA TakenKept ==
  ASSUME NEW text \in Seq(Symbol), NEW c \in Symbol, NEW url \in Seq(Symbol), NEW whole \in BOOLEAN,
         NEW m \in Nat, TakenFrom(text, url, whole, m)
  PROVE  TakenFrom(Append(text, c), url, whole, m)
<1> DEFINE more == Append(text, c)
<1>1. /\ m \in StartsIn(text)
      /\ \A k \in StartsIn(text) : k < m => ~IsPrefix(LinePrefix, LineIn(text, k))
      /\ IsPrefix(LinePrefix, LineIn(text, m))
      /\ IF whole THEN Ended(text, m) /\ url = Rest(LineIn(text, m))
         ELSE IsPrefix(url, Rest(LineIn(text, m)))
  BY DEF TakenFrom
<1>2. /\ more \in Seq(Symbol) /\ StartsIn(text) \subseteq StartsIn(more)
      /\ \A n \in StartsIn(more), i \in StartsIn(text) : n <= i => n \in StartsIn(text)
  BY ScannedKept
<1>3. StartsIn(more) \subseteq Nat
  BY <1>2, ChosenType
<1>4. ASSUME NEW k \in StartsIn(more), k < m PROVE ~IsPrefix(LinePrefix, LineIn(more, k))
  <2>1. k <= m
    BY <1>3, <1>4
  <2>2. k \in StartsIn(text)
    BY <1>1, <1>2, <2>1
  <2>3. LineIn(more, k) = LineIn(text, k)
    BY <1>1, <1>4, <2>2, EarlierEnded, OneMore
  <2> QED
    BY <1>1, <1>4, <2>2, <2>3
<1>5. CASE Ended(text, m)
  <2>1. Ended(more, m) /\ LineIn(more, m) = LineIn(text, m)
    BY <1>1, <1>5, OneMore
  <2> QED
    BY <1>1, <1>2, <1>4, <2>1 DEF TakenFrom
<1>6. CASE ~Ended(text, m)
  <2>1. LineIn(more, m) \in {LineIn(text, m), Append(LineIn(text, m), c)}
    BY <1>1, <1>6, OneMore
  <2>2. ~whole /\ IsPrefix(url, Rest(LineIn(text, m)))
    BY <1>1, <1>6
  <2>3. LineIn(text, m) \in Seq(Symbol)
    BY <1>1, LineType
  <2>4. IsPrefix(LinePrefix, LineIn(more, m)) /\ IsPrefix(url, Rest(LineIn(more, m)))
    <3>1. CASE LineIn(more, m) = LineIn(text, m)
      BY <1>1, <2>2, <3>1
    <3>2. CASE LineIn(more, m) = Append(LineIn(text, m), c)
      BY <1>1, <2>2, <2>3, <3>2, RestGrows
    <3> QED
      BY <2>1, <3>1, <3>2
  <2> QED
    BY <1>1, <1>2, <1>4, <2>2, <2>4 DEF TakenFrom
<1> QED
  BY <1>5, <1>6

(* The script sees all of an output within the limit.                      *)
LEMMA SampleOf ==
  ASSUME output \in Seq(Symbol)
  PROVE  /\ Len(output) <= MaxOutput => Sample = output
         /\ Sample \in Seq(Symbol)
<1>1. MaxOutput \in Nat /\ Len(output) \in Nat
  BY OpeningAssumption
<1>2. Min({Len(output), MaxOutput}) = IF Len(output) <= MaxOutput THEN Len(output) ELSE MaxOutput
  BY <1>1, MinOfTwo
<1>3. SubSeq(output, 1, Len(output)) = output
  OBVIOUS
<1>4. Len(output) <= MaxOutput => Sample = output
  BY <1>2, <1>3 DEF Sample
<1>5. ~(Len(output) <= MaxOutput) => SubSeq(output, 1, MaxOutput) \in Seq(Symbol)
  BY <1>1
<1>6. ~(Len(output) <= MaxOutput) => Sample = SubSeq(output, 1, MaxOutput)
  <2>1. ~(Len(output) <= MaxOutput) => Min({Len(output), MaxOutput}) = MaxOutput
    BY <1>2
  <2> QED
    BY <2>1 DEF Sample
<1> QED
  BY <1>4, <1>5, <1>6

LEMMA PollStep ==
  ASSUME StoredInv, Poll
  PROVE  StoredInv'
<1>1. /\ stored = <<>> /\ Announcing # {} /\ output' = output /\ output \in Seq(Symbol)
      /\ stored' = Rest(Announced) /\ storedSettled' = (Min(Announcing) < Max(StartsIn(Sample)))
  BY DEF Poll, StoredInv, Rest
<1> DEFINE m == Min(Announcing)
<1>2. Sample \in Seq(Symbol)
  BY <1>1, SampleOf
<1>3. m \in Announcing /\ \A k \in Announcing : m <= k
  <2>1. Announcing \subseteq Nat
    BY <1>2, StartsBound DEF Announcing
  <2> QED
    BY <1>1, <2>1, MinOf
<1>4. m \in StartsIn(Sample) /\ m \in Nat /\ IsPrefix(LinePrefix, LineIn(Sample, m))
  BY <1>2, <1>3, StartsBound DEF Announcing
<1>5. \A k \in StartsIn(Sample) : k < m => ~IsPrefix(LinePrefix, LineIn(Sample, k))
  <2>1. SUFFICES ASSUME NEW k \in StartsIn(Sample), k < m, IsPrefix(LinePrefix, LineIn(Sample, k)) PROVE FALSE
    OBVIOUS
  <2>2. m <= k
    BY <1>3, <2>1 DEF Announcing
  <2>3. k \in Nat
    BY <1>2, StartsBound
  <2> QED
    BY <1>4, <2>1, <2>2, <2>3
<1>6. LineIn(Sample, m) \in Seq(Symbol)
  BY <1>2, <1>4, LineType
<1>7. stored' = Rest(LineIn(Sample, m))
  BY <1>1 DEF Announced
<1>8. Rest(LineIn(Sample, m)) \in Seq(Symbol)
  BY <1>4, <1>6, RestType
<1>9. storedSettled' \in BOOLEAN /\ (storedSettled' <=> Ended(Sample, m))
  <2>1. Ended(Sample, m) <=> m < Max(StartsIn(Sample))
    BY <1>2, <1>4, StartsBound
  <2>2. storedSettled' = (m < Max(StartsIn(Sample)))
    BY <1>1
  <2> HIDE DEF m
  <2>3. storedSettled' \in BOOLEAN
    BY <2>2
  <2> QED
    BY <2>1, <2>2, <2>3
<1>10. IsPrefix(Rest(LineIn(Sample, m)), Rest(LineIn(Sample, m)))
  BY <1>8, PrefixOf
<1>11. ASSUME Len(output) <= MaxOutput PROVE TakenFrom(output', stored', storedSettled', m)
  <2>1. Sample = output
    BY <1>1, <1>11, SampleOf
  <2> HIDE DEF m
  <2> QED
    BY <1>1, <1>4, <1>5, <1>7, <1>9, <1>10, <2>1 DEF TakenFrom
<1>12. MaxOutput' = MaxOutput
  OBVIOUS
<1> HIDE DEF m
<1>13. stored' \in Seq(Symbol)
  BY <1>7, <1>8
<1>14. Len(output') <= MaxOutput => \E k \in Nat : TakenFrom(output', stored', storedSettled', k)
  BY <1>1, <1>4, <1>11
<1> QED
  BY <1>1, <1>9, <1>13, <1>14 DEF StoredInv

LEMMA StoredStep ==
  ASSUME StoredInv, [LaunchNext]_launchVars
  PROVE  StoredInv'
<1>1. CASE Poll
  BY <1>1, PollStep
<1>2. CASE Grow /\ UNCHANGED <<source, opening, stored, storedSettled>>
  <2>1. PICK c \in Symbol : output' = Append(output, c)
    BY <1>2 DEF Grow
  <2>2. stored' = stored /\ storedSettled' = storedSettled
    BY <1>2
  <2>3. output \in Seq(Symbol) /\ stored \in Seq(Symbol) /\ storedSettled \in BOOLEAN
    BY DEF StoredInv
  <2>4. output' \in Seq(Symbol) /\ Len(output') = Len(output) + 1 /\ Len(output) \in Nat /\ MaxOutput \in Nat
    BY <2>1, <2>3, OpeningAssumption
  <2>5. ASSUME Len(output') <= MaxOutput, stored' # <<>>
        PROVE  \E m \in Nat : TakenFrom(output', stored', storedSettled', m)
    <3>1. Len(output) <= MaxOutput
      BY <2>4, <2>5
    <3>2. PICK m \in Nat : TakenFrom(output, stored, storedSettled, m)
      BY <2>2, <2>5, <3>1 DEF StoredInv
    <3>3. TakenFrom(Append(output, c), stored, storedSettled, m)
      BY <2>3, <3>2, TakenKept
    <3> QED
      BY <2>1, <2>2, <3>3
  <2> QED
    BY <2>2, <2>3, <2>4, <2>5 DEF StoredInv
<1>3. CASE UNCHANGED <<output, stored, storedSettled>>
  <2>1. output' = output /\ stored' = stored /\ storedSettled' = storedSettled
    BY <1>3
  <2> QED
    BY <2>1 DEF StoredInv
<1> QED
  BY <1>1, <1>2, <1>3 DEF LaunchNext, Start, Parse, launchVars

(* What open_script prints starts with the first field of what is stored,  *)
(* and is no more than that unless a blank follows the field.              *)
LEMMA OpenedIs ==
  ASSUME stored \in Seq(Symbol), Opened # <<>>
  PROVE  /\ Words(stored) # {}
         /\ FirstField(stored) # <<>> /\ IsPrefix(FirstField(stored), Opened)
         /\ Blank \in ToSet(Opened) => Max(FirstRun(stored)) < Len(stored)
         /\ Blank \notin ToSet(Opened) => Opened = FirstField(stored)
<1> DEFINE W == Words(stored)
           a == Min(W)
           b == Max(FirstRun(stored))
           z == Max(W)
           field == FirstField(stored)
<1>1. W # {} /\ Opened = SubSeq(stored, a, z)
  BY DEF Opened, Words
<1>2. /\ a \in W /\ (\A n \in W : a <= n)
      /\ b \in FirstRun(stored) /\ (\A n \in FirstRun(stored) : n <= b)
      /\ a \in 1..Len(stored) /\ b \in a..Len(stored)
      /\ field \in Seq(Symbol) /\ Len(field) = b - a + 1
      /\ \A i \in 1..Len(field) : field[i] = stored[a + i - 1]
  BY <1>1, FirstFieldIs
<1>3. Len(stored) \in Nat /\ W \subseteq 1..Len(stored) /\ FirstRun(stored) \subseteq W
  BY DEF Words, FirstRun
<1>4. z \in W /\ \A n \in W : n <= z
  <2>1. W \subseteq 0..Len(stored)
    BY <1>3
  <2> HIDE DEF W
  <2> QED
    BY <1>1, <1>3, <2>1, MaxOf
<1>5. \A i \in a..b : i \in W
  BY <1>2 DEF FirstRun
<1>6. \A i \in 1..Len(stored) : i \in W <=> stored[i] # Blank
  BY DEF Words
<1>7. \A n \in W : (\A i \in a..n : i \in W) => n \in FirstRun(stored)
  BY DEF FirstRun
<1> HIDE DEF W, a, b, z, field
<1>8. z \in 1..Len(stored) /\ b \in a..z
  BY <1>2, <1>3, <1>4
<1>9. /\ Opened \in Seq(Symbol) /\ Len(Opened) = z - a + 1
      /\ \A i \in 1..(z - a + 1) : Opened[i] = stored[a + i - 1]
  <2>1. a \in Int /\ z \in Int /\ a <= z /\ \A i \in a..z : stored[i] \in Symbol
    BY <1>2, <1>3, <1>8
  <2> QED
    BY <1>1, <2>1, SubSeqProperties
<1>10. Len(field) \in Nat \ {0} /\ Len(field) <= Len(Opened)
  BY <1>2, <1>3, <1>8, <1>9
<1>11. \A i \in 1..Len(field) : field[i] = Opened[i]
  <2>1. \A i \in 1..Len(field) : i \in 1..(z - a + 1)
    BY <1>2, <1>3, <1>8
  <2> QED
    BY <1>2, <1>9, <2>1
<1>12. IsPrefix(field, Opened)
  BY <1>2, <1>9, <1>10, <1>11, PrefixOf
<1>13. ASSUME b = z PROVE Opened = field /\ Blank \notin ToSet(Opened)
  <2>1. Len(field) = Len(Opened)
    BY <1>2, <1>9, <1>13
  <2>2. Opened = field
    BY <1>2, <1>9, <1>11, <2>1, SeqEqual
  <2>3. ASSUME NEW i \in 1..Len(Opened) PROVE Opened[i] # Blank
    <3>1. a + i - 1 \in a..b /\ i \in 1..(z - a + 1)
      BY <1>2, <1>3, <1>8, <1>9, <1>13
    <3>2. a + i - 1 \in W /\ Opened[i] = stored[a + i - 1]
      BY <1>5, <1>9, <3>1
    <3> QED
      BY <1>3, <1>6, <3>2
  <2> QED
    BY <2>2, <2>3 DEF ToSet
<1>14. ASSUME b # z PROVE b < Len(stored) /\ Blank \in ToSet(Opened)
  <2>1. b < z /\ b + 1 \in 1..Len(stored) /\ b \in Nat
    BY <1>2, <1>3, <1>8, <1>14
  <2>2. b + 1 \notin W
    <3>1. \A i \in a..(b + 1) : i \in a..b \/ i = b + 1
      BY <1>2, <1>3
    <3>2. ~(b + 1 <= b)
      BY <2>1
    <3> QED
      BY <1>2, <1>5, <1>7, <3>1, <3>2
  <2>3. stored[b + 1] = Blank
    BY <1>6, <2>1, <2>2
  <2>4. (b - a + 2) \in 1..(z - a + 1) /\ a + (b - a + 2) - 1 = b + 1
    BY <1>2, <1>3, <1>8, <2>1
  <2>5. Opened[b - a + 2] = Blank /\ (b - a + 2) \in 1..Len(Opened)
    BY <1>9, <2>3, <2>4
  <2> QED
    BY <1>8, <2>1, <2>5 DEF ToSet
<1>15. field # <<>>
  BY <1>10
<1> QED
  BY <1>1, <1>12, <1>13, <1>14, <1>15 DEF W, b, field

(* The invariant implies the property.                                     *)
LEMMA StoredAgrees ==
  ASSUME StoredInv
  PROVE  HookAgrees
<1>1. SUFFICES ASSUME Opened # <<>>, Answer.code = ""
               PROVE IF Blank \in ToSet(Opened) THEN IsPrefix(Answer.url, Opened)
                     ELSE IF storedSettled THEN Opened = Answer.url
                     ELSE IsPrefix(Opened, Answer.url)
  BY DEF HookAgrees
<1>2. output \in Seq(Symbol) /\ stored \in Seq(Symbol) /\ storedSettled \in BOOLEAN
  BY DEF StoredInv
<1>3. Len(output) <= MaxOutput
  <2>1. CASE Len(output) > MaxOutput
    <3>1. Answer \in {Result("OPENING_URL_INVALID", <<>>), Limit}
      BY <2>1 DEF Answer, Limit
    <3> QED
      BY <1>1, <3>1, ResultsDiffer
  <2> QED
    BY <1>2, <2>1, OpeningAssumption
<1> DEFINE text == output
           M == MatchingIn(text)
           ch == ChosenIn(text)
<1>4. Answer = AnswerIn(text, FALSE)
  <2>1. Answer = AnswerIn(text, Len(output) > MaxOutput)
    BY <1>2, <1>3, ReadOf, ReaderIn
  <2>2. ~(Len(output) > MaxOutput)
    BY <1>2, <1>3, OpeningAssumption
  <2> QED
    BY <2>1, <2>2 DEF AnswerIn
<1>5. ScannedIn(text) = StartsIn(text) /\ M # {} /\ Answer.url = Candidate(LineIn(text, ch))
  <2>1. AnswerIn(text, FALSE).code = ""
    BY <1>1, <1>4
  <2>2. /\ ScannedIn(text) = StartsIn(text) /\ M # {}
        /\ AnswerIn(text, FALSE) = Result("", Candidate(LineIn(text, ch)))
    BY <2>1, ResultsDiffer DEF AnswerIn
  <2> QED
    BY <1>4, <2>2, ResultsDiffer
<1>6. /\ Words(stored) # {}
      /\ FirstField(stored) # <<>> /\ IsPrefix(FirstField(stored), Opened)
      /\ Blank \in ToSet(Opened) => Max(FirstRun(stored)) < Len(stored)
      /\ Blank \notin ToSet(Opened) => Opened = FirstField(stored)
  BY <1>1, <1>2, OpenedIs
<1>7. stored # <<>>
  BY <1>6 DEF Words
<1>8. PICK m \in Nat : TakenFrom(text, stored, storedSettled, m)
  BY <1>3, <1>7 DEF StoredInv
<1> DEFINE r == Rest(LineIn(text, m))
<1>9. /\ m \in StartsIn(text)
      /\ \A k \in StartsIn(text) : k < m => ~IsPrefix(LinePrefix, LineIn(text, k))
      /\ IsPrefix(LinePrefix, LineIn(text, m))
      /\ IF storedSettled THEN stored = r ELSE IsPrefix(stored, r)
  BY <1>8 DEF TakenFrom
<1>10. Candidate(LineIn(text, m)) = FirstField(r)
  BY <1>9 DEF Candidate, Rest
<1>11. ch \in M /\ ch \in StartsIn(text) /\ StartsIn(text) \subseteq Nat /\ \A k \in M : ch <= k
  BY <1>2, <1>5, ChosenType
<1>12. IsPrefix(LinePrefix, LineIn(text, ch))
  BY <1>11 DEF MatchingIn, Candidate
<1> HIDE DEF ch
<1>13. m <= ch
  BY <1>9, <1>11, <1>12
<1>14. ASSUME FirstField(r) # <<>> PROVE Answer.url = FirstField(r)
  <2>1. m \in M
    BY <1>5, <1>9, <1>10, <1>14 DEF MatchingIn
  <2>2. ch = m
    BY <1>11, <1>13, <2>1
  <2> QED
    BY <1>5, <1>10, <2>2
<1>15. r \in Seq(Symbol)
  BY <1>2, <1>9, LineType, RestType
<1> HIDE DEF r
<1>16. CASE storedSettled
  <2>1. Answer.url = FirstField(stored)
    BY <1>6, <1>9, <1>14, <1>16
  <2> QED
    BY <1>6, <1>16, <2>1
<1>17. CASE ~storedSettled
  <2>1. IsPrefix(stored, r)
    BY <1>9, <1>17
  <2>2. IsPrefix(FirstField(stored), FirstField(r)) /\ FirstField(r) # <<>>
    BY <1>2, <1>6, <1>15, <2>1, FirstFieldGrows
  <2>3. Answer.url = FirstField(r)
    BY <1>14, <2>2
  <2>4. Max(FirstRun(stored)) < Len(stored) => FirstField(r) = FirstField(stored)
    BY <1>2, <1>6, <1>15, <2>1, FirstFieldStays
  <2>5. CASE Blank \in ToSet(Opened)
    <3>1. Answer.url = FirstField(stored)
      BY <1>6, <2>3, <2>4, <2>5
    <3> QED
      BY <1>6, <2>5, <3>1
  <2>6. CASE Blank \notin ToSet(Opened)
    <3>1. Opened = FirstField(stored)
      BY <1>6, <2>6
    <3> QED
      BY <1>17, <2>2, <2>3, <2>6, <3>1
  <2> QED
    BY <2>5, <2>6
<1> QED
  BY <1>16, <1>17

-----------------------------------------------------------------------------
(* The theorems.                                                           *)

(* AnswersAreFinal: an answer from a line with its end, an invalid URL and *)
(* an exceeded limit stay the answer of every later reading                *)
(* (ParseStartupURL applied again while the service goes on writing).      *)
THEOREM Final == Spec => []AnswersAreFinal
<1>1. Init => OpeningInv
  BY OpeningInit
<1>2. OpeningInv /\ [Next]_vars => OpeningInv'
  BY OpeningStep
<1>3. OpeningInv => AnswersAreFinal
  BY DEF OpeningInv
<1> QED
  BY <1>1, <1>2, <1>3, PTL DEF Spec

(* ImplementationsAgree: Desktop (the SDK) and Runtime (the Go package)    *)
(* open the same URL of the same output or report the same error, up to    *)
(* the total limit, unless url.Parse and new URL differ about the          *)
(* candidate; then one of them refuses it.  Beyond the limit both refuse.  *)
THEOREM Agree == Spec => []ImplementationsAgree
<1>1. Init => OpeningInv
  BY OpeningInit
<1>2. OpeningInv /\ [Next]_vars => OpeningInv'
  BY OpeningStep
<1>3. OpeningInv => ImplementationsAgree
  BY Agreement DEF OpeningInv
<1> QED
  BY <1>1, <1>2, <1>3, PTL DEF Spec

(* A launch, by whichever way its URL comes, is a behaviour of the opening *)
(* module; what holds of every reading of a growing output holds in it.    *)
THEOREM LaunchOpens == LaunchSpec => Spec
<1>1. LaunchInit => Init
  BY DEF LaunchInit
<1>2. [LaunchNext]_launchVars => [Next]_vars
  <2> SUFFICES ASSUME [LaunchNext]_launchVars PROVE Next \/ UNCHANGED vars
    OBVIOUS
  <2>1. CASE Start
    BY <2>1 DEF Start, vars
  <2>2. CASE Poll
    BY <2>2 DEF Poll, vars
  <2>3. CASE Grow \/ Parse
    BY <2>3 DEF Next
  <2>4. CASE UNCHANGED launchVars
    BY <2>4 DEF launchVars, vars
  <2> QED
    BY <2>1, <2>2, <2>3, <2>4 DEF LaunchNext
<1> QED
  BY <1>1, <1>2, PTL DEF Spec, LaunchSpec

(* The two theorems about the readers, for a launch: final answers, and    *)
(* two implementations that agree but for the limit and the URL parsers.   *)
THEOREM LaunchAnswers == LaunchSpec => [](AnswersAreFinal /\ ImplementationsAgree)
BY Final, Agree, LaunchOpens, PTL

(* HookAgrees: what the generated scripts of an old document open is what  *)
(* ParseStartupURL finds if the line holds nothing else, a beginning of it *)
(* if the line had no end yet, and the URL with all that follows it on any *)
(* other line.                                                             *)
THEOREM ScriptAgrees == LaunchSpec => []HookAgrees
<1>1. LaunchInit => StoredInv
  <2> SUFFICES ASSUME LaunchInit PROVE StoredInv
    OBVIOUS
  <2>1. output = <<>> /\ stored = <<>> /\ storedSettled = FALSE
    BY DEF LaunchInit, Init
  <2>2. <<>> \in Seq(Symbol)
    BY EmptySeq
  <2> QED
    BY <2>1, <2>2 DEF StoredInv
<1>2. StoredInv /\ [LaunchNext]_launchVars => StoredInv'
  BY StoredStep
<1>3. StoredInv => HookAgrees
  BY StoredAgrees
<1> QED
  BY <1>1, <1>2, <1>3, PTL DEF LaunchSpec

-----------------------------------------------------------------------------
(* The documents.  Which sources are read, and what is made of them: the   *)
(* key sets of every version, part by part.                                *)

(* Objects.                                                                *)

LEMMA WithoutIs ==
  ASSUME NEW o, NEW K
  PROVE  /\ Object(Without(o, K)) /\ DOMAIN Without(o, K) = DOMAIN o \ K
         /\ \A k \in DOMAIN o \ K : Without(o, K)[k] = o[k]
BY DEF Object, Without, Restrict

LEMMA OverIs ==
  ASSUME NEW o, NEW p
  PROVE  /\ Object(Over(o, p)) /\ DOMAIN Over(o, p) = DOMAIN o \cup DOMAIN p
         /\ \A k \in DOMAIN o : Over(o, p)[k] = o[k]
         /\ \A k \in DOMAIN p \ DOMAIN o : Over(o, p)[k] = p[k]
BY DEF Object, Over

LEMMA ExceptIs ==
  ASSUME NEW o, NEW c, NEW x
  PROVE  LET p == [o EXCEPT ![c] = x]
         IN /\ Object(p) /\ DOMAIN p = DOMAIN o
            /\ \A k \in DOMAIN o : p[k] = IF k = c THEN x ELSE o[k]
BY DEF Object

(* Two objects with the same keys and values are the same.                 *)
LEMMA SameObject ==
  ASSUME NEW o, NEW p, Object(o), Object(p), DOMAIN o = DOMAIN p, \A k \in DOMAIN o : o[k] = p[k]
  PROVE  o = p
BY DEF Object

LEMMA NoKeys == Object(<<>>) /\ DOMAIN <<>> = {}
BY DEF Object

LEMMA WithoutNothing ==
  ASSUME NEW o, NEW K, Object(o), DOMAIN o \cap K = {}
  PROVE  Without(o, K) = o
<1>1. /\ Object(Without(o, K)) /\ DOMAIN Without(o, K) = DOMAIN o \ K
      /\ \A k \in DOMAIN o \ K : Without(o, K)[k] = o[k]
  BY WithoutIs
<1>2. DOMAIN o \ K = DOMAIN o
  OBVIOUS
<1> QED
  BY <1>1, <1>2, SameObject

-----------------------------------------------------------------------------
(* The adapters of a specification.                                        *)

Typed(spec) ==
  /\ Object(spec) /\ Has(spec, "schema_version") /\ Has(spec, "kind")
  /\ Object(Part(spec, "host")) /\ Object(Part(spec, "container"))

NewHost(host) ==
  Over([after_start_script |-> WaitFor(host.open_target), open_script |-> <<"print">>, output_mode |-> "private_file"],
       Without(host, {"open_target"}))

(* What an adapter does to the host and the container of a specification,  *)
(* and that it leaves the rest alone.                                      *)
Becomes(spec, new, keys, host, container) ==
  /\ Object(new) /\ DOMAIN new = keys
  /\ Part(new, "host") = host /\ Part(new, "container") = container
  /\ \A k \in keys : k \notin {"schema_version", "host", "container"} => new[k] = spec[k]

(* What each adapter does.                                                 *)
LEMMA UpgradeV3Is ==
  ASSUME NEW spec, Typed(spec)
  PROVE  /\ Becomes(spec, UpgradeV3(spec), DOMAIN spec, Part(spec, "host"),
                    Without(Part(spec, "container"), {"release_policy"}))
         /\ UpgradeV3(spec).schema_version = spec.schema_version
<1> DEFINE c == Without(spec.container, {"release_policy"})
           new == [spec EXCEPT !.container = c]
<1>1. CASE ~Has(spec, "container")
  <2>1. UpgradeV3(spec) = spec
    BY <1>1 DEF UpgradeV3
  <2>2. Part(spec, "container") = <<>>
    BY <1>1 DEF Part
  <2>3. Without(<<>>, {"release_policy"}) = <<>>
    BY NoKeys, WithoutNothing
  <2> QED
    BY <2>1, <2>2, <2>3 DEF Becomes, Typed
<1>2. CASE Has(spec, "container")
  <2>1. UpgradeV3(spec) = new
    BY <1>2 DEF UpgradeV3
  <2>2. new = [spec EXCEPT !["container"] = c]
    OBVIOUS
  <2> HIDE DEF c
  <2>3. /\ Object(new) /\ DOMAIN new = DOMAIN spec
        /\ \A k \in DOMAIN spec : new[k] = IF k = "container" THEN c ELSE spec[k]
    BY <2>2, ExceptIs
  <2> HIDE DEF new
  <2>4. Part(new, "container") = c /\ Part(new, "host") = Part(spec, "host")
    BY <1>2, <2>3 DEF Part, Has
  <2>5. Part(spec, "container") = spec.container
    BY <1>2 DEF Part
  <2>6. c = Without(Part(spec, "container"), {"release_policy"})
    BY <2>5 DEF c
  <2>7. new.schema_version = spec.schema_version
    BY <2>3 DEF Typed, Has
  <2> QED
    BY <2>1, <2>3, <2>4, <2>6, <2>7 DEF Becomes
<1> QED
  BY <1>1, <1>2

LEMMA UpgradeV5Is ==
  ASSUME NEW spec, Typed(spec)
  PROVE  /\ Becomes(spec, UpgradeV5(spec), DOMAIN spec,
                    IF Has(Part(spec, "host"), "open_target") THEN NewHost(Part(spec, "host")) ELSE Part(spec, "host"),
                    Part(spec, "container"))
         /\ UpgradeV5(spec).schema_version = spec.schema_version
<1> DEFINE h == NewHost(spec.host)
           new == [spec EXCEPT !.host = h]
<1>1. CASE ~Has(Part(spec, "host"), "open_target")
  <2>1. UpgradeV5(spec) = spec
    BY <1>1 DEF UpgradeV5
  <2> QED
    BY <1>1, <2>1 DEF Becomes, Typed
<1>2. CASE Has(Part(spec, "host"), "open_target")
  <2>1. UpgradeV5(spec) = new
    BY <1>2 DEF UpgradeV5, NewHost
  <2>2. new = [spec EXCEPT !["host"] = h]
    OBVIOUS
  <2> HIDE DEF h
  <2>3. /\ Object(new) /\ DOMAIN new = DOMAIN spec
        /\ \A k \in DOMAIN spec : new[k] = IF k = "host" THEN h ELSE spec[k]
    BY <2>2, ExceptIs
  <2> HIDE DEF new
  <2>4. Has(spec, "host") /\ Part(spec, "host") = spec.host
    BY <1>2, NoKeys DEF Part, Has
  <2>5. Part(new, "host") = h /\ Part(new, "container") = Part(spec, "container")
    BY <2>3, <2>4 DEF Part, Has
  <2>6. h = NewHost(Part(spec, "host"))
    BY <2>4 DEF h
  <2>7. new.schema_version = spec.schema_version
    BY <2>3 DEF Typed, Has
  <2> QED
    BY <1>2, <2>1, <2>3, <2>5, <2>6, <2>7 DEF Becomes
<1> QED
  BY <1>1, <1>2

LEMMA ClearPathIs ==
  ASSUME NEW spec, Typed(spec)
  PROVE  /\ Becomes(spec, ClearPath(spec), IF Hook(spec) THEN DOMAIN spec \ {"path"} ELSE DOMAIN spec,
                    Part(spec, "host"), Part(spec, "container"))
         /\ ClearPath(spec).schema_version = spec.schema_version
<1>1. CASE ~Hook(spec)
  BY <1>1 DEF ClearPath, Becomes, Typed
<1>2. CASE Hook(spec)
  <2> DEFINE new == Without(spec, {"path"})
  <2>1. ClearPath(spec) = new
    BY <1>2 DEF ClearPath
  <2>2. /\ Object(new) /\ DOMAIN new = DOMAIN spec \ {"path"}
        /\ \A k \in DOMAIN spec \ {"path"} : new[k] = spec[k]
    BY WithoutIs
  <2> HIDE DEF new
  <2>3. Part(new, "host") = Part(spec, "host") /\ Part(new, "container") = Part(spec, "container")
    BY <2>2 DEF Part, Has
  <2>4. new.schema_version = spec.schema_version
    BY <2>2 DEF Typed, Has
  <2> QED
    BY <1>2, <2>1, <2>2, <2>3, <2>4 DEF Becomes
<1> QED
  BY <1>1, <1>2

LEMMA NewHostIs ==
  ASSUME NEW host
  PROVE  /\ Object(NewHost(host)) /\ DOMAIN NewHost(host) = HookKeys \cup (DOMAIN host \ {"open_target"})
         /\ NewHost(host).after_start_script = WaitFor(host.open_target)
         /\ NewHost(host).open_script = <<"print">> /\ NewHost(host).output_mode = "private_file"
         /\ \A k \in DOMAIN host \ (HookKeys \cup {"open_target"}) : NewHost(host)[k] = host[k]
<1> DEFINE r == [after_start_script |-> WaitFor(host.open_target), open_script |-> <<"print">>, output_mode |-> "private_file"]
           w == Without(host, {"open_target"})
<1>1. /\ DOMAIN r = HookKeys /\ r["after_start_script"] = WaitFor(host.open_target)
      /\ r["open_script"] = <<"print">> /\ r["output_mode"] = "private_file"
  BY DEF HookKeys
<1>2. DOMAIN w = DOMAIN host \ {"open_target"} /\ \A k \in DOMAIN w : w[k] = host[k]
  <2>1. DOMAIN w = DOMAIN host \ {"open_target"} /\ \A k \in DOMAIN host \ {"open_target"} : w[k] = host[k]
    BY WithoutIs
  <2> HIDE DEF w
  <2> QED
    BY <2>1
<1>3. NewHost(host) = Over(r, w)
  BY DEF NewHost
<1> HIDE DEF r, w
<1>4. /\ Object(Over(r, w)) /\ DOMAIN Over(r, w) = DOMAIN r \cup DOMAIN w
      /\ \A k \in DOMAIN r : Over(r, w)[k] = r[k]
      /\ \A k \in DOMAIN w \ DOMAIN r : Over(r, w)[k] = w[k]
  BY OverIs
<1>5. {"after_start_script", "open_script", "output_mode"} \subseteq DOMAIN r
  BY <1>1 DEF HookKeys
<1> QED
  BY <1>1, <1>2, <1>3, <1>4, <1>5

LEMMA HookOf ==
  ASSUME NEW a, NEW b, Part(a, "host") = Part(b, "host")
  PROVE  Hook(a) <=> Hook(b)
<1>1. \A s : Hook(s) <=> Has(Part(s, "host"), "open_script") /\ Part(s, "host").open_script # <<>>
  BY NoKeys DEF Hook, Part, Has
<1> QED
  BY <1>1

(* The whole chain.                                                        *)
AdaptedHost(spec) ==
  IF spec.schema_version < 6 /\ Has(Part(spec, "host"), "open_target") THEN NewHost(Part(spec, "host"))
  ELSE Part(spec, "host")
AdaptedContainer(spec) ==
  IF spec.schema_version = 3 THEN Without(Part(spec, "container"), {"release_policy"}) ELSE Part(spec, "container")

LEMMA AdaptedIs ==
  ASSUME NEW spec, Typed(spec), spec.schema_version \in 3..7
  PROVE  /\ Becomes(spec, Adapted(spec),
                    IF spec.schema_version < 7 /\ Hook(Adapted(spec)) THEN DOMAIN spec \ {"path"} ELSE DOMAIN spec,
                    AdaptedHost(spec), AdaptedContainer(spec))
         /\ Adapted(spec).schema_version = 7 /\ Adapted(spec).kind = spec.kind /\ Typed(Adapted(spec))
<1> DEFINE v == spec.schema_version
           current == IF v = 3 THEN UpgradeV5(UpgradeV3(spec)) ELSE IF v < 6 THEN UpgradeV5(spec) ELSE spec
           cleared == IF v < 7 THEN ClearPath(current) ELSE current
           new == [cleared EXCEPT !.schema_version = 7]
<1>1. Adapted(spec) = new
  BY DEF Adapted
<1>2. Becomes(spec, current, DOMAIN spec, AdaptedHost(spec), AdaptedContainer(spec)) /\ current.schema_version = v
  <2>1. CASE v = 3
    <3> DEFINE mid == UpgradeV3(spec)
    <3>1. Becomes(spec, mid, DOMAIN spec, Part(spec, "host"), AdaptedContainer(spec)) /\ mid.schema_version = v
      BY <2>1, UpgradeV3Is DEF AdaptedContainer
    <3>2. Object(AdaptedContainer(spec))
      BY WithoutIs DEF AdaptedContainer, Typed
    <3> HIDE DEF mid
    <3>3. Typed(mid)
      BY <3>1, <3>2 DEF Becomes, Typed, Has
    <3>4. /\ Becomes(mid, UpgradeV5(mid), DOMAIN mid,
                     IF Has(Part(mid, "host"), "open_target") THEN NewHost(Part(mid, "host")) ELSE Part(mid, "host"),
                     Part(mid, "container"))
          /\ UpgradeV5(mid).schema_version = mid.schema_version
      BY <3>3, UpgradeV5Is
    <3>5. Part(mid, "host") = Part(spec, "host") /\ Part(mid, "container") = AdaptedContainer(spec) /\ DOMAIN mid = DOMAIN spec
      BY <3>1 DEF Becomes
    <3>6. AdaptedHost(spec) = IF Has(Part(mid, "host"), "open_target") THEN NewHost(Part(mid, "host")) ELSE Part(mid, "host")
      BY <2>1, <3>5 DEF AdaptedHost
    <3>7. Becomes(mid, UpgradeV5(mid), DOMAIN spec, AdaptedHost(spec), AdaptedContainer(spec))
      BY <3>4, <3>5, <3>6
    <3>8. Becomes(spec, UpgradeV5(mid), DOMAIN spec, AdaptedHost(spec), AdaptedContainer(spec))
      BY <3>1, <3>7 DEF Becomes
    <3> QED
      BY <2>1, <3>1, <3>4, <3>8 DEF mid
  <2>2. CASE v \in 4..5
    <3>1. /\ Becomes(spec, UpgradeV5(spec), DOMAIN spec,
                    IF Has(Part(spec, "host"), "open_target") THEN NewHost(Part(spec, "host")) ELSE Part(spec, "host"),
                    Part(spec, "container"))
         /\ UpgradeV5(spec).schema_version = spec.schema_version
      BY UpgradeV5Is
    <3>2. current = UpgradeV5(spec) /\ v < 6 /\ v # 3
      BY <2>2
    <3>3. AdaptedContainer(spec) = Part(spec, "container")
      BY <3>2 DEF AdaptedContainer
    <3>4. AdaptedHost(spec) = IF Has(Part(spec, "host"), "open_target") THEN NewHost(Part(spec, "host")) ELSE Part(spec, "host")
      BY <3>2 DEF AdaptedHost
    <3> HIDE DEF current
    <3> QED
      BY <3>1, <3>2, <3>3, <3>4
  <2>3. CASE v \in 6..7
    <3>1. current = spec /\ ~(v < 6) /\ v # 3
      BY <2>3
    <3>2. AdaptedContainer(spec) = Part(spec, "container") /\ AdaptedHost(spec) = Part(spec, "host")
      BY <3>1 DEF AdaptedContainer, AdaptedHost
    <3> HIDE DEF current
    <3> QED
      BY <3>1, <3>2 DEF Becomes, Typed
  <2> QED
    BY <2>1, <2>2, <2>3
<1> HIDE DEF current
<1>3. Object(AdaptedHost(spec)) /\ Object(AdaptedContainer(spec))
  BY NewHostIs, WithoutIs DEF AdaptedHost, AdaptedContainer, Typed
<1>4. Typed(current)
  BY <1>2, <1>3 DEF Becomes, Typed, Has
<1> DEFINE keys == IF v < 7 /\ Hook(current) THEN DOMAIN spec \ {"path"} ELSE DOMAIN spec
<1>5. Becomes(spec, cleared, keys, AdaptedHost(spec), AdaptedContainer(spec))
  <2>1. CASE v < 7
    <3>1. Becomes(current, ClearPath(current), IF Hook(current) THEN DOMAIN current \ {"path"} ELSE DOMAIN current,
                  Part(current, "host"), Part(current, "container"))
      BY <1>4, ClearPathIs
    <3>2. DOMAIN current = DOMAIN spec /\ cleared = ClearPath(current)
      BY <1>2, <2>1 DEF Becomes
    <3>3. keys = IF Hook(current) THEN DOMAIN current \ {"path"} ELSE DOMAIN current
      BY <2>1, <3>2
    <3> HIDE DEF keys, cleared
    <3> QED
      BY <1>2, <3>1, <3>2, <3>3 DEF Becomes
  <2>2. CASE ~(v < 7)
    <3>1. cleared = current /\ keys = DOMAIN spec
      BY <2>2
    <3> HIDE DEF keys, cleared
    <3> QED
      BY <1>2, <3>1
  <2> QED
    BY <2>1, <2>2
<1> HIDE DEF cleared
<1>6. {"schema_version", "kind"} \subseteq keys /\ keys \subseteq DOMAIN spec
  BY DEF Typed, Has
<1>7. /\ Object(new) /\ DOMAIN new = keys
      /\ \A k \in keys : new[k] = IF k = "schema_version" THEN 7 ELSE cleared[k]
  <2>1. new = [cleared EXCEPT !["schema_version"] = 7] /\ DOMAIN cleared = keys
    BY <1>5 DEF Becomes
  <2> HIDE DEF keys
  <2> QED
    BY <2>1, ExceptIs
<1> HIDE DEF new, keys
<1>8. Part(new, "host") = Part(cleared, "host") /\ Part(new, "container") = Part(cleared, "container")
  <2>1. DOMAIN cleared = keys
    BY <1>5 DEF Becomes
  <2> QED
    BY <1>7, <2>1 DEF Part, Has
<1>9. Becomes(spec, new, keys, AdaptedHost(spec), AdaptedContainer(spec))
  BY <1>5, <1>7, <1>8 DEF Becomes
<1>10. Hook(new) <=> Hook(current)
  <2>1. Part(new, "host") = Part(current, "host")
    BY <1>2, <1>9 DEF Becomes
  <2> QED
    BY <2>1, HookOf
<1>11. keys = IF v < 7 /\ Hook(new) THEN DOMAIN spec \ {"path"} ELSE DOMAIN spec
  BY <1>10 DEF keys
<1>12. new.schema_version = 7 /\ new.kind = spec.kind
  BY <1>6, <1>7, <1>9 DEF Becomes
<1>13. Typed(new)
  BY <1>3, <1>6, <1>9 DEF Becomes, Typed, Has
<1> QED
  BY <1>1, <1>9, <1>11, <1>12, <1>13

-----------------------------------------------------------------------------
(* Which specifications are read.                                          *)

(* The part of Conforms and WellMeant about the specification.             *)
GoodSpec(spec) ==
  LET host == Part(spec, "host")
      v == spec.schema_version
  IN /\ spec.kind \in Sections
     /\ DOMAIN spec \subseteq SpecShape(v).top
     /\ DOMAIN host \subseteq SpecShape(v).host
     /\ DOMAIN Part(spec, "container") \subseteq SpecShape(v).container
     /\ DOMAIN spec \cap Sections = {spec.kind}
     /\ spec.kind = "host" => Has(spec.host, "start_script")
     /\ Has(host, "open_target") => spec.host.open_target # <<>>
     /\ v = 7 => OneOpening(spec)

LEMMA FieldsOf ==
  ASSUME NEW spec
  PROVE  /\ Has(spec, "host") => Part(spec, "host") = spec.host
         /\ \A k : Has(Part(spec, "host"), k) => Has(spec, "host")
         /\ Hook(spec) <=> Has(Part(spec, "host"), "open_script") /\ Part(spec, "host").open_script # <<>>
<1>1. Has(spec, "host") => Part(spec, "host") = spec.host
  BY DEF Part
<1>2. \A k : Has(Part(spec, "host"), k) => Has(spec, "host")
  BY NoKeys DEF Part, Has
<1> QED
  BY <1>1, <1>2 DEF Hook

(* The published shapes, without the case distinctions of the module.      *)
LEMMA ShapeOf ==
  \A v \in 3..7 :
    /\ SpecShape(v).top = LegacySpecKeys \cup (IF v = 7 THEN {"startup_url"} ELSE {})
    /\ SpecShape(v).host = {"start_script"} \cup (IF v = 5 THEN {"open_target"} ELSE IF v < 5 THEN {} ELSE HookKeys)
    /\ SpecShape(v).container = {"image"} \cup (IF v = 3 THEN {"release_policy"} ELSE {})
BY DEF SpecShape

(* Cardinalities, as quantifiers.                                          *)
LEMMA AtMostOne ==
  ASSUME NEW S, NEW a, NEW b, NEW c, S \subseteq {a, b, c}
  PROVE  Cardinality(S) <= 1 <=> \A x, y \in S : x = y
<1>1. IsFiniteSet(S)
  <2>1. IsFiniteSet({}) /\ IsFiniteSet({a}) /\ IsFiniteSet({a} \cup {b}) /\ IsFiniteSet(({a} \cup {b}) \cup {c})
    BY FS_EmptySet, FS_AddElement
  <2>2. ({a} \cup {b}) \cup {c} = {a, b, c}
    OBVIOUS
  <2> QED
    BY <2>1, <2>2, FS_Subset
<1>2. Cardinality(S) \in Nat
  BY <1>1, FS_CardinalityType
<1>3. Cardinality(S) = 0 <=> S = {}
  BY <1>1, FS_EmptySet
<1>4. Cardinality(S) = 1 <=> \E x : S = {x}
  BY <1>1, FS_Singleton
<1>5. (\A x, y \in S : x = y) <=> S = {} \/ \E x : S = {x}
  <2>1. ASSUME \A x, y \in S : x = y, S # {} PROVE \E x : S = {x}
    <3>1. PICK x \in S : TRUE
      BY <2>1
    <3>2. S = {x}
      BY <2>1, <3>1
    <3> QED
      BY <3>2
  <2> QED
    BY <2>1
<1>6. Cardinality(S) <= 1 <=> Cardinality(S) = 0 \/ Cardinality(S) = 1
  BY <1>2
<1> QED
  BY <1>3, <1>4, <1>5, <1>6

LEMMA OneOpeningIs ==
  ASSUME NEW spec
  PROVE  OneOpening(spec) <=>
           LET host == Part(spec, "host")
           IN /\ ~(Has(spec, "path") /\ Has(spec, "startup_url")) /\ ~(Has(spec, "path") /\ Hook(spec))
              /\ ~(Has(spec, "startup_url") /\ Hook(spec))
              /\ Has(spec, "startup_url") =>
                   /\ spec.startup_url # <<>>
                   /\ spec.kind = "host" =>
                        /\ Has(host, "output_mode") /\ host.output_mode = "private_file"
                        /\ Part(host, "after_start_script") = <<>>
<1> DEFINE S == {k \in {"path", "startup_url"} : Has(spec, k)} \cup (IF Hook(spec) THEN {"hook"} ELSE {})
<1>1. S \subseteq {"path", "startup_url", "hook"}
  OBVIOUS
<1>2. /\ "path" \in S <=> Has(spec, "path")
      /\ "startup_url" \in S <=> Has(spec, "startup_url")
      /\ "hook" \in S <=> Hook(spec)
  OBVIOUS
<1>3. OneOpening(spec) <=>
        /\ Cardinality(S) <= 1
        /\ Has(spec, "startup_url") =>
             /\ spec.startup_url # <<>>
             /\ spec.kind = "host" =>
                  /\ Has(Part(spec, "host"), "output_mode") /\ Part(spec, "host").output_mode = "private_file"
                  /\ Part(Part(spec, "host"), "after_start_script") = <<>>
  BY DEF OneOpening
<1> HIDE DEF S
<1>4. Cardinality(S) <= 1 <=> \A x, y \in S : x = y
  BY <1>1, AtMostOne
<1>5. (\A x, y \in S : x = y) <=>
        /\ ~(Has(spec, "path") /\ Has(spec, "startup_url")) /\ ~(Has(spec, "path") /\ Hook(spec))
        /\ ~(Has(spec, "startup_url") /\ Hook(spec))
  <2>1. "path" # "startup_url" /\ "path" # "hook" /\ "startup_url" # "hook"
    OBVIOUS
  <2> QED
    BY <1>1, <1>2, <2>1
<1> QED
  BY <1>3, <1>4, <1>5

(* Version 7 is read as it is.                                             *)
LEMMA SpecSeven ==
  ASSUME NEW spec, Typed(spec), spec.schema_version = 7
  PROVE  Adapted(spec) = spec /\ (Normalizes(spec) <=> GoodSpec(spec))
<1> DEFINE A == Adapted(spec)
           host == Part(spec, "host")
<1>1. Becomes(spec, A, DOMAIN spec, host, Part(spec, "container")) /\ A.schema_version = 7 /\ A.kind = spec.kind
  <2>1. spec.schema_version \in 3..7 /\ ~(spec.schema_version < 7) /\ ~(spec.schema_version < 6) /\ spec.schema_version # 3
    OBVIOUS
  <2>2. AdaptedHost(spec) = host /\ AdaptedContainer(spec) = Part(spec, "container")
    BY <2>1 DEF AdaptedHost, AdaptedContainer
  <2>3. /\ Becomes(spec, A, IF spec.schema_version < 7 /\ Hook(A) THEN DOMAIN spec \ {"path"} ELSE DOMAIN spec,
                   AdaptedHost(spec), AdaptedContainer(spec))
        /\ A.schema_version = 7 /\ A.kind = spec.kind
    BY <2>1, AdaptedIs
  <2> HIDE DEF A
  <2> QED
    BY <2>1, <2>2, <2>3
<1> HIDE DEF A
<1>2. A = spec
  <2>1. ASSUME NEW k \in DOMAIN spec PROVE A[k] = spec[k]
    <3>1. CASE k = "schema_version"
      BY <1>1, <3>1
    <3>2. CASE k = "host"
      BY <1>1, <3>2 DEF Becomes, Part, Has
    <3>3. CASE k = "container"
      BY <1>1, <3>3 DEF Becomes, Part, Has
    <3>4. CASE k \notin {"schema_version", "host", "container"}
      BY <1>1, <3>4 DEF Becomes
    <3> QED
      BY <3>1, <3>2, <3>3, <3>4
  <2> QED
    BY <1>1, <2>1, SameObject DEF Becomes, Typed
<1>3. Normalizes(spec) <=>
        /\ Strict(spec, LegacySpecKeys \cup {"startup_url"}, {"start_script"} \cup HookKeys)
        /\ DOMAIN spec \cap Sections \subseteq {spec.kind}
        /\ SpecAccepted(spec)
  BY <1>2 DEF Normalizes, NewerKeys, A
<1>4. Strict(spec, LegacySpecKeys \cup {"startup_url"}, {"start_script"} \cup HookKeys) <=>
        /\ DOMAIN spec \subseteq SpecShape(7).top
        /\ DOMAIN host \subseteq SpecShape(7).host
        /\ DOMAIN Part(spec, "container") \subseteq SpecShape(7).container
  BY ShapeOf DEF Strict
<1>5. DOMAIN host \subseteq SpecShape(7).host => ~Has(host, "open_target")
  BY ShapeOf DEF Has, HookKeys
<1>6. spec.kind \in Sections => ((DOMAIN spec \cap Sections \subseteq {spec.kind} /\ Has(spec, spec.kind)) <=> DOMAIN spec \cap Sections = {spec.kind})
  BY DEF Has
<1>7. DOMAIN spec \cap Sections = {spec.kind} /\ spec.kind = "host" => spec.host = host
  BY DEF Part, Has, Sections
<1>8. OpeningAccepted(spec) /\ DOMAIN spec \cap Sections = {spec.kind} <=> OneOpening(spec) /\ DOMAIN spec \cap Sections = {spec.kind}
  <2>1. ASSUME DOMAIN spec \cap Sections = {spec.kind} PROVE OpeningAccepted(spec) <=> OneOpening(spec)
    <3>1. spec.kind = "host" => Has(spec, "host") /\ spec.host = host
      BY <2>1 DEF Part, Has, Sections
    <3>2. CASE spec.kind = "host"
      BY <3>1, <3>2, OneOpeningIs DEF OpeningAccepted
    <3>3. CASE spec.kind # "host"
      BY <3>3, OneOpeningIs DEF OpeningAccepted
    <3> QED
      BY <3>2, <3>3
  <2> QED
    BY <2>1
<1>9. Normalizes(spec) <=> GoodSpec(spec)
  BY <1>3, <1>4, <1>5, <1>6, <1>7, <1>8 DEF GoodSpec, SpecAccepted
<1> QED
  BY <1>2, <1>9 DEF A

(* Version 6: a hook hides a path.                                         *)
LEMMA SpecSix ==
  ASSUME NEW spec, Typed(spec), spec.schema_version = 6
  PROVE  Normalizes(spec) <=> GoodSpec(spec)
<1> DEFINE A == Adapted(spec)
           host == Part(spec, "host")
<1>1. /\ Becomes(spec, A, IF Hook(A) THEN DOMAIN spec \ {"path"} ELSE DOMAIN spec, host, Part(spec, "container"))
      /\ A.schema_version = 7 /\ A.kind = spec.kind
  BY AdaptedIs DEF AdaptedHost, AdaptedContainer
<1>2. Normalizes(spec) <=>
        /\ ~Has(spec, "startup_url")
        /\ Strict(A, LegacySpecKeys \cup {"startup_url"}, {"start_script"} \cup HookKeys)
        /\ DOMAIN spec \cap Sections \subseteq {spec.kind}
        /\ SpecAccepted(A)
  BY DEF Normalizes, NewerKeys
<1> HIDE DEF A
<1>3. /\ DOMAIN A = IF Hook(A) THEN DOMAIN spec \ {"path"} ELSE DOMAIN spec
      /\ Part(A, "host") = host /\ Part(A, "container") = Part(spec, "container")
  BY <1>1 DEF Becomes
<1>4. ~Has(spec, "startup_url") =>
        (Strict(A, LegacySpecKeys \cup {"startup_url"}, {"start_script"} \cup HookKeys) <=>
        /\ DOMAIN spec \subseteq SpecShape(6).top
        /\ DOMAIN host \subseteq SpecShape(6).host
        /\ DOMAIN Part(spec, "container") \subseteq SpecShape(6).container)
  <2>1. "path" \in LegacySpecKeys
    BY DEF LegacySpecKeys
  <2>2. ~Has(spec, "startup_url") => (DOMAIN A \subseteq LegacySpecKeys \cup {"startup_url"} <=> DOMAIN spec \subseteq LegacySpecKeys)
    BY <1>3, <2>1 DEF Has
  <2>3. /\ SpecShape(6).top = LegacySpecKeys /\ SpecShape(6).host = {"start_script"} \cup HookKeys
        /\ SpecShape(6).container = {"image"}
    BY ShapeOf
  <2> QED
    BY <1>3, <2>2, <2>3 DEF Strict
<1>5. /\ DOMAIN host \subseteq SpecShape(6).host => ~Has(host, "open_target")
      /\ DOMAIN spec \subseteq SpecShape(6).top => ~Has(spec, "startup_url")
  BY ShapeOf DEF Has, HookKeys, LegacySpecKeys, Sections
<1>6. spec.kind \in Sections =>
        /\ (DOMAIN spec \cap Sections \subseteq {spec.kind} /\ Has(spec, spec.kind)) <=> DOMAIN spec \cap Sections = {spec.kind}
        /\ Has(A, spec.kind) <=> Has(spec, spec.kind)
  <2>1. "path" \notin Sections
    BY DEF Sections
  <2> QED
    BY <1>3, <2>1 DEF Has
<1>7. DOMAIN spec \cap Sections = {spec.kind} /\ spec.kind = "host" => spec.host = host
  BY DEF Part, Has, Sections
<1>8. Has(A, "host") => A.host = host
  BY <1>3 DEF Part
<1>9. ~Has(spec, "startup_url") => OpeningAccepted(A)
  BY <1>3 DEF OpeningAccepted, Has
<1> QED
  BY <1>1, <1>2, <1>4, <1>5, <1>6, <1>7, <1>8, <1>9 DEF GoodSpec, SpecAccepted

(* Versions 3 to 5: what the frozen types accept is what the adapters need.*)
LEMMA SpecLegacy ==
  ASSUME NEW spec, Typed(spec), spec.schema_version \in 3..5
  PROVE  Normalizes(spec) <=> GoodSpec(spec)
<1> DEFINE A == Adapted(spec)
           host == Part(spec, "host")
           v == spec.schema_version
           L == IF v = 3 THEN UpgradeV3(spec) ELSE spec
           AC == AdaptedContainer(spec)
           sound == /\ DOMAIN spec \subseteq LegacySpecKeys
                    /\ DOMAIN host \subseteq {"start_script", "open_target"}
                    /\ DOMAIN AC \subseteq {"image"}
                    /\ DOMAIN spec \cap Sections = {spec.kind}
                    /\ spec.kind = "host" => Has(spec.host, "start_script")
                    /\ Has(host, "open_target") => spec.host.open_target # <<>>
           old == /\ ~Has(spec, "startup_url") /\ DOMAIN host \cap HookKeys = {}
                  /\ v < 5 => ~Has(host, "open_target")
<1>1. v \in 3..7 /\ v < 6 /\ v < 7 /\ v # 7
  OBVIOUS
<1>2. /\ Becomes(spec, A, IF Hook(A) THEN DOMAIN spec \ {"path"} ELSE DOMAIN spec, AdaptedHost(spec), AC)
      /\ A.schema_version = 7 /\ A.kind = spec.kind
  <2>1. /\ Becomes(spec, A, IF v < 7 /\ Hook(A) THEN DOMAIN spec \ {"path"} ELSE DOMAIN spec, AdaptedHost(spec), AC)
        /\ A.schema_version = 7 /\ A.kind = spec.kind
    BY <1>1, AdaptedIs
  <2> HIDE DEF A, AC
  <2> QED
    BY <1>1, <2>1
<1>3. Becomes(spec, L, DOMAIN spec, host, AC)
  <2>1. CASE v = 3
    BY <2>1, UpgradeV3Is DEF AdaptedContainer
  <2>2. CASE v # 3
    BY <2>2 DEF AdaptedContainer, Becomes, Typed
  <2> QED
    BY <2>1, <2>2
<1>4. Normalizes(spec) <=>
        /\ old /\ LegacyAccepted(L)
        /\ Strict(A, LegacySpecKeys \cup {"startup_url"}, {"start_script"} \cup HookKeys)
        /\ DOMAIN spec \cap Sections \subseteq {spec.kind}
        /\ SpecAccepted(A)
  BY <1>1 DEF Normalizes, NewerKeys, Has
<1> HIDE DEF L
<1>5. LegacyAccepted(L) <=> sound
  <2>1. DOMAIN L = DOMAIN spec /\ Part(L, "host") = host /\ Part(L, "container") = AC /\ L.kind = spec.kind
    <3>1. "kind" \in DOMAIN spec
      BY DEF Typed, Has
    <3> QED
      BY <1>3, <3>1 DEF Becomes
  <2>2. Has(L, "host") <=> Has(spec, "host")
    BY <2>1 DEF Has
  <2>3. Has(spec, "host") => L.host = spec.host
    BY <2>1, <2>2 DEF Part
  <2>4. Has(host, "open_target") => Has(spec, "host")
    BY FieldsOf
  <2>5. DOMAIN spec \cap Sections = {spec.kind} /\ spec.kind = "host" => Has(spec, "host")
    BY DEF Has, Sections
  <2> HIDE DEF host, AC
  <2>6. LegacyAccepted(L) <=>
          /\ DOMAIN spec \subseteq LegacySpecKeys
          /\ DOMAIN host \subseteq {"start_script", "open_target"}
          /\ DOMAIN AC \subseteq {"image"}
          /\ DOMAIN spec \cap Sections = {spec.kind}
          /\ spec.kind = "host" => Has(L.host, "start_script")
          /\ Has(host, "open_target") => L.host.open_target # <<>>
    BY <2>1 DEF LegacyAccepted, Strict
  <2>7. DOMAIN spec \cap Sections = {spec.kind} /\ spec.kind = "host" => L.host = spec.host
    BY <2>3, <2>5
  <2>8. Has(host, "open_target") => L.host = spec.host
    BY <2>3, <2>4
  <2> QED
    BY <2>6, <2>7, <2>8
<1>6. DOMAIN AC \subseteq {"image"} <=> DOMAIN Part(spec, "container") \subseteq SpecShape(v).container
  <2>1. CASE v = 3
    <3>1. DOMAIN AC = DOMAIN Part(spec, "container") \ {"release_policy"}
      BY <2>1, WithoutIs DEF AdaptedContainer
    <3>2. SpecShape(v).container = {"image", "release_policy"}
      BY <1>1, <2>1, ShapeOf
    <3> HIDE DEF AC
    <3> QED
      BY <3>1, <3>2
  <2>2. CASE v # 3
    <3>1. SpecShape(v).container = {"image"}
      BY <1>1, <2>2, ShapeOf
    <3>2. AC = Part(spec, "container")
      BY <2>2 DEF AdaptedContainer
    <3> QED
      BY <3>1, <3>2
  <2> QED
    BY <2>1, <2>2
<1>7. (DOMAIN host \cap HookKeys = {} /\ (v < 5 => ~Has(host, "open_target")) /\ DOMAIN host \subseteq {"start_script", "open_target"})
        <=> DOMAIN host \subseteq SpecShape(v).host
  <2>1. CASE v = 5
    <3>1. SpecShape(v).host = {"start_script", "open_target"} /\ ~(v < 5)
      BY <1>1, <2>1, ShapeOf
    <3>2. {"start_script", "open_target"} \cap HookKeys = {}
      BY DEF HookKeys
    <3> QED
      BY <3>1, <3>2
  <2>2. CASE v # 5
    <3>1. v < 5
      BY <2>2
    <3>2. SpecShape(v).host = {"start_script"}
      BY <1>1, <2>2, <3>1, ShapeOf
    <3>3. {"start_script"} \cap HookKeys = {}
      BY DEF HookKeys
    <3> QED
      BY <3>1, <3>2, <3>3 DEF Has
  <2> QED
    BY <2>1, <2>2
<1>8. (~Has(spec, "startup_url") /\ DOMAIN spec \subseteq LegacySpecKeys) <=> DOMAIN spec \subseteq SpecShape(v).top
  <2>1. SpecShape(v).top = LegacySpecKeys
    BY <1>1, ShapeOf
  <2>2. "startup_url" \notin LegacySpecKeys
    BY DEF LegacySpecKeys, Sections
  <2> QED
    BY <2>1, <2>2 DEF Has
<1>9. GoodSpec(spec) <=> old /\ sound
  <2>1. DOMAIN spec \cap Sections = {spec.kind} => spec.kind \in Sections
    OBVIOUS
  <2>2. GoodSpec(spec) <=>
          /\ DOMAIN spec \subseteq SpecShape(v).top /\ DOMAIN host \subseteq SpecShape(v).host
          /\ DOMAIN Part(spec, "container") \subseteq SpecShape(v).container
          /\ DOMAIN spec \cap Sections = {spec.kind}
          /\ spec.kind = "host" => Has(spec.host, "start_script")
          /\ Has(host, "open_target") => spec.host.open_target # <<>>
    BY <1>1, <2>1 DEF GoodSpec
  <2> HIDE DEF host, AC, v
  <2> QED
    BY <1>6, <1>7, <1>8, <2>2
<1>10. ASSUME old, sound
       PROVE  /\ Strict(A, LegacySpecKeys \cup {"startup_url"}, {"start_script"} \cup HookKeys)
              /\ DOMAIN spec \cap Sections \subseteq {spec.kind} /\ SpecAccepted(A)
  <2>1. /\ DOMAIN A = IF Hook(A) THEN DOMAIN spec \ {"path"} ELSE DOMAIN spec
        /\ Part(A, "host") = AdaptedHost(spec) /\ Part(A, "container") = AC /\ A.kind = spec.kind
    BY <1>2 DEF Becomes
  <2>2. DOMAIN AdaptedHost(spec) \subseteq {"start_script"} \cup HookKeys
        /\ (Has(host, "start_script") => Has(AdaptedHost(spec), "start_script"))
    <3>1. CASE Has(host, "open_target")
      <4>1. AdaptedHost(spec) = NewHost(host)
        BY <1>1, <3>1 DEF AdaptedHost
      <4>2. DOMAIN NewHost(host) = HookKeys \cup (DOMAIN host \ {"open_target"})
        BY NewHostIs
      <4> QED
        BY <1>10, <4>1, <4>2 DEF Has
    <3>2. CASE ~Has(host, "open_target")
      <4>1. AdaptedHost(spec) = host
        BY <3>2 DEF AdaptedHost
      <4> QED
        BY <1>10, <3>2, <4>1 DEF Has
    <3> QED
      BY <3>1, <3>2
  <2> HIDE DEF A, AC
  <2>3. Strict(A, LegacySpecKeys \cup {"startup_url"}, {"start_script"} \cup HookKeys)
    BY <1>10, <2>1, <2>2 DEF Strict
  <2>4. spec.kind \in Sections /\ Has(spec, spec.kind) /\ "path" \notin Sections
    BY <1>10 DEF Has, Sections
  <2>5. Has(A, spec.kind)
    BY <2>1, <2>4 DEF Has
  <2>6. OpeningAccepted(A)
    BY <1>10, <2>1 DEF OpeningAccepted, Has
  <2>7. spec.kind = "host" => Has(A.host, "start_script")
    <3>1. spec.kind = "host" => spec.host = host /\ A.host = AdaptedHost(spec)
      BY <2>1, <2>4, <2>5 DEF Part
    <3> QED
      BY <1>10, <2>2, <3>1
  <2> QED
    BY <1>10, <2>1, <2>3, <2>4, <2>5, <2>6, <2>7 DEF SpecAccepted
<1> HIDE DEF old, sound, A
<1> QED
  BY <1>4, <1>5, <1>9, <1>10

LEMMA SpecRead ==
  ASSUME NEW spec, Typed(spec), spec.schema_version \in 3..7
  PROVE  Normalizes(spec) <=> GoodSpec(spec)
<1>1. spec.schema_version \in 3..5 \/ spec.schema_version = 6 \/ spec.schema_version = 7
  OBVIOUS
<1> QED
  BY <1>1, SpecLegacy, SpecSix, SpecSeven

-----------------------------------------------------------------------------
(* Which documents are read.                                               *)

TypedSource(s) ==
  /\ Object(s) /\ DOMAIN s = {"document", "entries", "locales"}
  /\ s.entries \subseteq {"template.json", "redeven-service-template.json"}
  /\ Object(s.document) /\ Has(s.document, "schema_version") /\ Has(s.document, "spec")
  /\ s.document.schema_version \in Int /\ s.document.spec.schema_version \in Int
  /\ Typed(s.document.spec)

Explicit == {"kind", "default_locale", "locales"}

(* The adapters of a document, key by key.                                 *)
LEMMA UpgradedOneIs ==
  ASSUME NEW doc, Object(doc)
  PROVE  /\ DOMAIN UpgradeDocumentV1(doc) = (DOMAIN doc \ {"version"}) \cup {"recommended_version"}
         /\ UpgradeDocumentV1(doc).recommended_version = doc.version
         /\ \A k \in DOMAIN doc : k \notin {"version", "recommended_version", "release_discovery"} => UpgradeDocumentV1(doc)[k] = doc[k]
         /\ Has(doc, "release_discovery") =>
              /\ Object(UpgradeDocumentV1(doc).release_discovery)
              /\ DOMAIN UpgradeDocumentV1(doc).release_discovery = {"source"}
<1> DEFINE r == [recommended_version |-> doc.version]
           w == Without(doc, {"version"})
           renamed == Over(r, w)
           sources == Restrict(doc.release_discovery, {"source"})
           new == [renamed EXCEPT !.release_discovery = sources]
<1>1. DOMAIN r = {"recommended_version"} /\ r["recommended_version"] = doc.version
  OBVIOUS
<1>2. DOMAIN w = DOMAIN doc \ {"version"} /\ \A k \in DOMAIN w : w[k] = doc[k]
  <2>1. DOMAIN w = DOMAIN doc \ {"version"} /\ \A k \in DOMAIN doc \ {"version"} : w[k] = doc[k]
    BY WithoutIs
  <2> HIDE DEF w
  <2> QED
    BY <2>1
<1>3. UpgradeDocumentV1(doc) = IF ~Has(doc, "release_discovery") THEN renamed ELSE new
  BY DEF UpgradeDocumentV1
<1>4. Object(sources) /\ DOMAIN sources = {"source"}
  BY DEF Object, Restrict
<1> HIDE DEF r, w, sources
<1>5. /\ Object(renamed) /\ DOMAIN renamed = DOMAIN r \cup DOMAIN w
      /\ \A k \in DOMAIN r : renamed[k] = r[k]
      /\ \A k \in DOMAIN w \ DOMAIN r : renamed[k] = w[k]
  BY OverIs
<1> HIDE DEF renamed
<1>6. /\ DOMAIN renamed = (DOMAIN doc \ {"version"}) \cup {"recommended_version"}
      /\ renamed["recommended_version"] = doc.version
      /\ \A k \in DOMAIN doc : k \notin {"version", "recommended_version"} => renamed[k] = doc[k]
  BY <1>1, <1>2, <1>5
<1>7. DOMAIN new = DOMAIN renamed /\ \A k \in DOMAIN renamed : new[k] = IF k = "release_discovery" THEN sources ELSE renamed[k]
  <2>1. new = [renamed EXCEPT !["release_discovery"] = sources]
    OBVIOUS
  <2> QED
    BY <2>1, ExceptIs
<1> HIDE DEF new
<1>8. CASE ~Has(doc, "release_discovery")
  BY <1>3, <1>6, <1>8
<1>9. CASE Has(doc, "release_discovery")
  <2>1. new["release_discovery"] = sources
    BY <1>6, <1>7, <1>9 DEF Has
  <2>2. new["recommended_version"] = doc.version
    BY <1>6, <1>7
  <2>3. \A k \in DOMAIN doc : k \notin {"version", "recommended_version", "release_discovery"} => new[k] = doc[k]
    BY <1>6, <1>7
  <2> QED
    BY <1>3, <1>4, <1>6, <1>7, <1>9, <2>1, <2>2, <2>3
<1> QED
  BY <1>8, <1>9

LEMMA UpgradedTwoIs ==
  ASSUME NEW doc, NEW locales
  PROVE  LET new == UpgradeDocumentV2(doc, locales)
         IN /\ Object(new) /\ DOMAIN new = DOMAIN doc \cup Explicit
            /\ new.kind = "redeven.service-template" /\ new.default_locale = "en-US" /\ new.locales = locales
            /\ \A k \in DOMAIN doc \ Explicit : new[k] = doc[k]
<1> DEFINE r == [kind |-> "redeven.service-template", default_locale |-> "en-US", locales |-> locales]
<1>1. DOMAIN r = Explicit /\ r["kind"] = "redeven.service-template" /\ r["default_locale"] = "en-US" /\ r["locales"] = locales
  BY DEF Explicit
<1>2. UpgradeDocumentV2(doc, locales) = Over(r, doc)
  BY DEF UpgradeDocumentV2
<1> HIDE DEF r
<1>3. /\ Object(Over(r, doc)) /\ DOMAIN Over(r, doc) = DOMAIN r \cup DOMAIN doc
      /\ \A k \in DOMAIN r : Over(r, doc)[k] = r[k]
      /\ \A k \in DOMAIN doc \ DOMAIN r : Over(r, doc)[k] = doc[k]
  BY OverIs
<1>4. {"kind", "default_locale", "locales"} \subseteq DOMAIN r
  BY <1>1 DEF Explicit
<1> QED
  BY <1>1, <1>2, <1>3, <1>4

(* The document the rest of the reader sees.                               *)
LEMMA UpgradedIs ==
  ASSUME NEW s, TypedSource(s), s.document.schema_version \in 1..4
  PROVE  LET doc == s.document
             v == doc.schema_version
             new == Upgraded(s)
         IN /\ Object(new)
            /\ DOMAIN new = IF v = 1 THEN (DOMAIN doc \ {"version"}) \cup {"recommended_version"} \cup Explicit
                            ELSE IF v = 2 THEN DOMAIN doc \cup Explicit ELSE DOMAIN doc
            /\ v < 3 => new.kind = "redeven.service-template" /\ new.default_locale = "en-US" /\ new.locales = s.locales
            /\ v > 2 => new = doc
            /\ v = 1 => new.recommended_version = doc.version
            /\ v = 1 /\ Has(doc, "release_discovery") =>
                 Object(new.release_discovery) /\ DOMAIN new.release_discovery = {"source"}
            /\ v # 1 /\ Has(doc, "release_discovery") => new.release_discovery = doc.release_discovery
            /\ v = 2 /\ Has(doc, "recommended_version") => new.recommended_version = doc.recommended_version
            /\ new.spec = doc.spec /\ (Has(new, "deployment") <=> Has(doc, "deployment"))
            /\ Has(doc, "deployment") => new.deployment = doc.deployment
<1> DEFINE doc == s.document
           v == doc.schema_version
           new == Upgraded(s)
<1>1. Object(doc) /\ "spec" \in DOMAIN doc
  BY DEF TypedSource, Has
<1>2. CASE v = 1
  <2> DEFINE mid == UpgradeDocumentV1(doc)
  <2>1. new = UpgradeDocumentV2(mid, s.locales)
    BY <1>2 DEF Upgraded
  <2>2. /\ DOMAIN mid = (DOMAIN doc \ {"version"}) \cup {"recommended_version"}
        /\ mid["recommended_version"] = doc.version
        /\ \A k \in DOMAIN doc : k \notin {"version", "recommended_version", "release_discovery"} => mid[k] = doc[k]
        /\ Has(doc, "release_discovery") =>
             Object(mid["release_discovery"]) /\ DOMAIN mid["release_discovery"] = {"source"}
    BY <1>1, UpgradedOneIs
  <2> HIDE DEF mid, new
  <2>3. /\ Object(new) /\ DOMAIN new = DOMAIN mid \cup Explicit
        /\ new.kind = "redeven.service-template" /\ new.default_locale = "en-US" /\ new.locales = s.locales
        /\ \A k \in DOMAIN mid \ Explicit : new[k] = mid[k]
    <3> HIDE DEF doc
    <3>1. LET two == UpgradeDocumentV2(mid, s.locales)
          IN /\ Object(two) /\ DOMAIN two = DOMAIN mid \cup Explicit
             /\ two.kind = "redeven.service-template" /\ two.default_locale = "en-US" /\ two.locales = s.locales
             /\ \A k \in DOMAIN mid \ Explicit : two[k] = mid[k]
      BY UpgradedTwoIs
    <3> QED
      BY <2>1, <3>1
  <2>4. /\ {"recommended_version", "spec"} \subseteq DOMAIN mid \ Explicit
        /\ Has(doc, "release_discovery") => "release_discovery" \in DOMAIN mid \ Explicit
        /\ Has(doc, "deployment") => "deployment" \in DOMAIN mid \ Explicit
        /\ Has(new, "deployment") <=> Has(doc, "deployment")
    BY <1>1, <2>2, <2>3 DEF Has, Explicit
  <2>5. new["recommended_version"] = doc.version /\ new["spec"] = doc["spec"]
    BY <1>1, <2>2, <2>3, <2>4
  <2>6. Has(doc, "release_discovery") => new["release_discovery"] = mid["release_discovery"]
    BY <2>3, <2>4
  <2>7. Has(doc, "deployment") => new["deployment"] = doc["deployment"]
    BY <2>2, <2>3, <2>4 DEF Has
  <2> HIDE DEF doc
  <2> QED
    BY <1>2, <2>2, <2>3, <2>4, <2>5, <2>6, <2>7 DEF new, doc
<1>3. CASE v = 2
  <2>1. new = UpgradeDocumentV2(doc, s.locales)
    BY <1>3 DEF Upgraded
  <2> HIDE DEF new
  <2>2. /\ Object(new) /\ DOMAIN new = DOMAIN doc \cup Explicit
        /\ new.kind = "redeven.service-template" /\ new.default_locale = "en-US" /\ new.locales = s.locales
        /\ \A k \in DOMAIN doc \ Explicit : new[k] = doc[k]
    <3> HIDE DEF doc
    <3>1. LET two == UpgradeDocumentV2(doc, s.locales)
          IN /\ Object(two) /\ DOMAIN two = DOMAIN doc \cup Explicit
             /\ two.kind = "redeven.service-template" /\ two.default_locale = "en-US" /\ two.locales = s.locales
             /\ \A k \in DOMAIN doc \ Explicit : two[k] = doc[k]
      BY UpgradedTwoIs
    <3> QED
      BY <2>1, <3>1
  <2>3. {"recommended_version", "spec", "release_discovery", "deployment"} \cap Explicit = {}
    BY DEF Explicit
  <2>4. /\ new["spec"] = doc["spec"]
        /\ Has(doc, "release_discovery") => new["release_discovery"] = doc["release_discovery"]
        /\ Has(doc, "recommended_version") => new["recommended_version"] = doc["recommended_version"]
        /\ Has(doc, "deployment") => new["deployment"] = doc["deployment"]
        /\ Has(new, "deployment") <=> Has(doc, "deployment")
    BY <1>1, <2>2, <2>3 DEF Has
  <2> HIDE DEF doc
  <2> QED
    BY <1>3, <2>2, <2>4 DEF new, doc
<1>4. CASE v \in 3..4
  <2>1. new = doc
    BY <1>4 DEF Upgraded
  <2> HIDE DEF doc
  <2> QED
    BY <1>1, <1>4, <2>1 DEF new, doc
<1>5. v \in 1..4
  OBVIOUS
<1> QED
  BY <1>2, <1>3, <1>4, <1>5

(* The published pairs of versions.                                        *)
LEMMA PairsOf ==
  ASSUME NEW v \in 1..4, NEW w \in Int
  PROVE  /\ w \in DocumentShape(v).specs <=> <<v, w>> \in Pairs
         /\ w \in DocumentShape(v).specs => w \in 3..7
<1>1. DocumentShape(v).specs = CASE v = 1 -> {3} [] v = 2 -> {4, 5, 6} [] v = 3 -> {6} [] v = 4 -> {7}
  BY DEF DocumentShape
<1>2. v = 1 \/ v = 2 \/ v = 3 \/ v = 4
  OBVIOUS
<1>3. DocumentShape(v).specs = IF v = 1 THEN {3} ELSE IF v = 2 THEN {4, 5, 6} ELSE IF v = 3 THEN {6} ELSE {7}
  BY <1>1, <1>2
<1> QED
  BY <1>2, <1>3 DEF Pairs

LEMMA DocumentShapeOf ==
  ASSUME NEW v \in 1..4
  PROVE  /\ DocumentShape(v).keys = IF v = 1 THEN (DocumentKeys \ ({"recommended_version"} \cup Explicit)) \cup {"version"}
                                    ELSE IF v = 2 THEN DocumentKeys \ Explicit ELSE DocumentKeys
         /\ DocumentShape(v).required = {"schema_version", "spec"} \cup (IF v < 3 THEN {} ELSE Explicit)
         /\ DocumentShape(v).discovery = {"source"} \cup (IF v = 1 THEN {"allow_prerelease", "allow_non_semver"} ELSE {})
<1>1. {"recommended_version", "kind", "default_locale", "locales"} = {"recommended_version"} \cup Explicit
  BY DEF Explicit
<1> QED
  BY <1>1 DEF DocumentShape, Explicit

(* One entrypoint, the one of the version.                                 *)
EntryOf(v) == IF v < 3 THEN "template.json" ELSE "redeven-service-template.json"

LEMMA EntryIs ==
  ASSUME NEW s, TypedSource(s), s.document.schema_version \in 1..4
  PROVE  LET v == s.document.schema_version
         IN (Cardinality(s.entries) = 1 /\ (IF Legacy(s) THEN v \in {1, 2} ELSE v \in {3, 4}))
              <=> s.entries = {EntryOf(v)}
<1> DEFINE E == s.entries
           v == s.document.schema_version
<1>1. E \subseteq {"template.json", "redeven-service-template.json"}
  BY DEF TypedSource
<1>2. IsFiniteSet(E)
  <2>1. IsFiniteSet({"template.json"}) /\ IsFiniteSet({"redeven-service-template.json"})
    BY FS_Singleton
  <2>2. IsFiniteSet({"template.json"} \cup {"redeven-service-template.json"})
    BY <2>1, FS_Union
  <2>3. E \subseteq {"template.json"} \cup {"redeven-service-template.json"}
    BY <1>1
  <2> QED
    BY <2>2, <2>3, FS_Subset
<1>3. Cardinality(E) = 1 <=> \E e : E = {e}
  BY <1>2, FS_Singleton
<1>4. Legacy(s) <=> "template.json" \in E
  BY DEF Legacy
<1>5. "template.json" # "redeven-service-template.json"
  OBVIOUS
<1>6. (v \in {1, 2} <=> v < 3) /\ (v \in {3, 4} <=> ~(v < 3))
  OBVIOUS
<1> HIDE DEF E, v
<1>7. CASE v < 3
  <2>1. E = {"template.json"} <=> Cardinality(E) = 1 /\ "template.json" \in E
    BY <1>1, <1>3, <1>5
  <2> QED
    BY <1>4, <1>6, <1>7, <2>1 DEF EntryOf, E, v
<1>8. CASE ~(v < 3)
  <2>1. E = {"redeven-service-template.json"} <=> Cardinality(E) = 1 /\ "template.json" \notin E
    BY <1>1, <1>3, <1>5
  <2> QED
    BY <1>4, <1>6, <1>8, <2>1 DEF EntryOf, E, v
<1> QED
  BY <1>7, <1>8

(* What readDocument and validateDocument ask of a document under its      *)
(* entrypoint, and what its published shape and its meaning ask.           *)
Accepted(s) ==
  LET doc == s.document
      v == doc.schema_version
      discovery == DOMAIN Part(doc, "release_discovery")
      new == Upgraded(s)
  IN /\ v < 3 => DOMAIN doc \cap Explicit = {}
     /\ IF v = 1 THEN /\ ~Has(doc, "recommended_version") /\ Has(doc, "version")
                      /\ discovery \subseteq {"source", "allow_prerelease", "allow_non_semver"}
        ELSE discovery \subseteq {"source"}
     /\ DOMAIN new \subseteq DocumentKeys
     /\ Has(new, "deployment") => new.deployment = new.spec.kind
     /\ DocumentAccepted(new, s.locales)

GoodDocument(s) ==
  LET doc == s.document
      v == doc.schema_version
      shape == DocumentShape(v)
      named == IF v < 3 THEN s.locales ELSE doc.locales
  IN /\ DOMAIN doc \subseteq shape.keys /\ shape.required \subseteq DOMAIN doc
     /\ DOMAIN Part(doc, "release_discovery") \subseteq shape.discovery
     /\ Has(doc, "kind") => doc.kind = "redeven.service-template"
     /\ (IF v < 3 THEN "en-US" ELSE doc.default_locale) \in named /\ named \subseteq s.locales
     /\ v = 1 => Has(doc, "version")
     /\ Has(doc, "deployment") => doc.deployment = doc.spec.kind

LEMMA DocumentRead ==
  ASSUME NEW s, TypedSource(s), s.document.schema_version \in 1..4
  PROVE  Accepted(s) <=> GoodDocument(s)
<1> DEFINE doc == s.document
           v == doc.schema_version
           new == Upgraded(s)
           discovery == DOMAIN Part(doc, "release_discovery")
           deployed == Has(doc, "deployment") => doc.deployment = doc.spec.kind
<1>1. {"schema_version", "spec"} \subseteq DOMAIN doc
  BY DEF TypedSource, Has
<1>2. /\ DOMAIN new = IF v = 1 THEN (DOMAIN doc \ {"version"}) \cup {"recommended_version"} \cup Explicit
                      ELSE IF v = 2 THEN DOMAIN doc \cup Explicit ELSE DOMAIN doc
      /\ v < 3 => new.kind = "redeven.service-template" /\ new.default_locale = "en-US" /\ new.locales = s.locales
      /\ v > 2 => new = doc
      /\ new.spec = doc.spec /\ (Has(new, "deployment") <=> Has(doc, "deployment"))
      /\ Has(doc, "deployment") => new.deployment = doc.deployment
  BY UpgradedIs
<1>3. /\ DocumentShape(v).keys = IF v = 1 THEN (DocumentKeys \ ({"recommended_version"} \cup Explicit)) \cup {"version"}
                                 ELSE IF v = 2 THEN DocumentKeys \ Explicit ELSE DocumentKeys
      /\ DocumentShape(v).required = {"schema_version", "spec"} \cup (IF v < 3 THEN {} ELSE Explicit)
      /\ DocumentShape(v).discovery = {"source"} \cup (IF v = 1 THEN {"allow_prerelease", "allow_non_semver"} ELSE {})
  BY DocumentShapeOf
<1>4. /\ Explicit \subseteq DocumentKeys /\ "recommended_version" \in DocumentKeys
      /\ "version" \notin Explicit /\ "recommended_version" \notin Explicit /\ "version" # "recommended_version"
      /\ "kind" \in Explicit /\ "default_locale" \in Explicit /\ "locales" \in Explicit
  BY DEF Explicit, DocumentKeys
<1>5. (Has(new, "deployment") => new.deployment = new.spec.kind) <=> deployed
  BY <1>2
<1>6. Accepted(s) <=>
        /\ v < 3 => DOMAIN doc \cap Explicit = {}
        /\ IF v = 1 THEN /\ ~Has(doc, "recommended_version") /\ Has(doc, "version")
                         /\ discovery \subseteq {"source", "allow_prerelease", "allow_non_semver"}
           ELSE discovery \subseteq {"source"}
        /\ DOMAIN new \subseteq DocumentKeys
        /\ deployed
        /\ DocumentAccepted(new, s.locales)
  BY <1>5 DEF Accepted
<1>7. GoodDocument(s) <=>
        /\ DOMAIN doc \subseteq DocumentShape(v).keys /\ DocumentShape(v).required \subseteq DOMAIN doc
        /\ discovery \subseteq DocumentShape(v).discovery
        /\ Has(doc, "kind") => doc.kind = "redeven.service-template"
        /\ (IF v < 3 THEN "en-US" ELSE doc.default_locale) \in (IF v < 3 THEN s.locales ELSE doc.locales)
        /\ (IF v < 3 THEN s.locales ELSE doc.locales) \subseteq s.locales
        /\ v = 1 => Has(doc, "version")
        /\ deployed
  BY DEF GoodDocument
<1>8. DocumentAccepted(new, s.locales) <=>
        /\ "kind" \in DOMAIN new /\ new.kind = "redeven.service-template"
        /\ "locales" \in DOMAIN new /\ "default_locale" \in DOMAIN new
        /\ new.default_locale \in new.locales /\ new.locales \subseteq s.locales
  BY DEF DocumentAccepted, Has
<1>9. v = 1 \/ v = 2 \/ v \in 3..4
  OBVIOUS
<1> HIDE DEF new, discovery, deployed, doc
<1>10. CASE v = 1
  <2>1. v < 3
    BY <1>10
  <2>2. DocumentAccepted(new, s.locales) <=> "en-US" \in s.locales
    BY <1>2, <1>4, <1>8, <1>10, <2>1
  <2>3. Accepted(s) <=>
          /\ DOMAIN doc \cap Explicit = {} /\ ~Has(doc, "recommended_version") /\ Has(doc, "version")
          /\ discovery \subseteq {"source", "allow_prerelease", "allow_non_semver"}
          /\ (DOMAIN doc \ {"version"}) \cup {"recommended_version"} \cup Explicit \subseteq DocumentKeys
          /\ deployed /\ "en-US" \in s.locales
    BY <1>2, <1>6, <1>10, <2>1, <2>2
  <2>4. GoodDocument(s) <=>
          /\ DOMAIN doc \subseteq (DocumentKeys \ ({"recommended_version"} \cup Explicit)) \cup {"version"}
          /\ discovery \subseteq {"source", "allow_prerelease", "allow_non_semver"}
          /\ Has(doc, "kind") => doc.kind = "redeven.service-template"
          /\ Has(doc, "version") /\ deployed /\ "en-US" \in s.locales
    <3>1. /\ DocumentShape(v).keys = (DocumentKeys \ ({"recommended_version"} \cup Explicit)) \cup {"version"}
          /\ DocumentShape(v).required = {"schema_version", "spec"}
          /\ DocumentShape(v).discovery = {"source", "allow_prerelease", "allow_non_semver"}
      BY <1>3, <1>10, <2>1
    <3> QED
      BY <1>1, <1>7, <1>10, <2>1, <3>1
  <2>5. (/\ DOMAIN doc \cap Explicit = {} /\ ~Has(doc, "recommended_version")
         /\ (DOMAIN doc \ {"version"}) \cup {"recommended_version"} \cup Explicit \subseteq DocumentKeys)
        <=> DOMAIN doc \subseteq (DocumentKeys \ ({"recommended_version"} \cup Explicit)) \cup {"version"}
    BY <1>4 DEF Has
  <2>6. DOMAIN doc \cap Explicit = {} => ~Has(doc, "kind")
    BY <1>4 DEF Has
  <2> QED
    BY <2>3, <2>4, <2>5, <2>6
<1>11. CASE v = 2
  <2>1. v < 3 /\ v # 1
    BY <1>11
  <2>2. DocumentAccepted(new, s.locales) <=> "en-US" \in s.locales
    BY <1>2, <1>4, <1>8, <1>11, <2>1
  <2>3. Accepted(s) <=>
          /\ DOMAIN doc \cap Explicit = {} /\ discovery \subseteq {"source"}
          /\ DOMAIN doc \cup Explicit \subseteq DocumentKeys
          /\ deployed /\ "en-US" \in s.locales
    BY <1>2, <1>6, <1>11, <2>1, <2>2
  <2>4. GoodDocument(s) <=>
          /\ DOMAIN doc \subseteq DocumentKeys \ Explicit /\ discovery \subseteq {"source"}
          /\ Has(doc, "kind") => doc.kind = "redeven.service-template"
          /\ deployed /\ "en-US" \in s.locales
    <3>1. /\ DocumentShape(v).keys = DocumentKeys \ Explicit
          /\ DocumentShape(v).required = {"schema_version", "spec"}
          /\ DocumentShape(v).discovery = {"source"}
      BY <1>3, <1>11, <2>1
    <3> QED
      BY <1>1, <1>7, <2>1, <3>1
  <2>5. (DOMAIN doc \cap Explicit = {} /\ DOMAIN doc \cup Explicit \subseteq DocumentKeys)
        <=> DOMAIN doc \subseteq DocumentKeys \ Explicit
    BY <1>4
  <2>6. DOMAIN doc \cap Explicit = {} => ~Has(doc, "kind")
    BY <1>4 DEF Has
  <2> QED
    BY <2>3, <2>4, <2>5, <2>6
<1>12. CASE v \in 3..4
  <2>1. ~(v < 3) /\ v # 1 /\ v # 2 /\ v > 2
    BY <1>12
  <2>2. Accepted(s) <=>
          /\ discovery \subseteq {"source"} /\ DOMAIN doc \subseteq DocumentKeys /\ deployed
          /\ "kind" \in DOMAIN doc /\ doc.kind = "redeven.service-template"
          /\ "locales" \in DOMAIN doc /\ "default_locale" \in DOMAIN doc
          /\ doc.default_locale \in doc.locales /\ doc.locales \subseteq s.locales
    BY <1>2, <1>6, <1>8, <2>1
  <2>3. GoodDocument(s) <=>
          /\ DOMAIN doc \subseteq DocumentKeys /\ Explicit \subseteq DOMAIN doc
          /\ discovery \subseteq {"source"}
          /\ Has(doc, "kind") => doc.kind = "redeven.service-template"
          /\ doc.default_locale \in doc.locales /\ doc.locales \subseteq s.locales /\ deployed
    <3>1. /\ DocumentShape(v).keys = DocumentKeys
          /\ DocumentShape(v).required = {"schema_version", "spec"} \cup Explicit
          /\ DocumentShape(v).discovery = {"source"}
      BY <1>3, <2>1
    <3> QED
      BY <1>1, <1>7, <2>1, <3>1
  <2>4. Explicit \subseteq DOMAIN doc <=> "kind" \in DOMAIN doc /\ "locales" \in DOMAIN doc /\ "default_locale" \in DOMAIN doc
    BY DEF Explicit
  <2> QED
    BY <2>2, <2>3, <2>4 DEF Has
<1> QED
  BY <1>9, <1>10, <1>11, <1>12

(* The reader, with the document and the specification apart.              *)
LEMMA ReadsParts ==
  ASSUME NEW s, TypedSource(s), s.document.schema_version \in 1..4
  PROVE  LET v == s.document.schema_version
             spec == s.document.spec
         IN Reads(s) <=>
              s.entries = {EntryOf(v)} /\ Accepted(s) /\ <<v, spec.schema_version>> \in Pairs /\ Normalizes(spec)
<1> DEFINE doc == s.document
           v == doc.schema_version
           spec == doc.spec
           new == Upgraded(s)
           discovery == DOMAIN Part(doc, "release_discovery")
           versions == IF v = 1 THEN /\ ~Has(doc, "recommended_version") /\ Has(doc, "version")
                                     /\ discovery \subseteq {"source", "allow_prerelease", "allow_non_semver"}
                       ELSE discovery \subseteq {"source"}
           deployed == Has(new, "deployment") => new.deployment = new.spec.kind
<1>1. new.spec = spec
  BY UpgradedIs
<1>2. (Cardinality(s.entries) = 1 /\ (IF Legacy(s) THEN v \in {1, 2} ELSE v \in {3, 4}))
        <=> s.entries = {EntryOf(v)}
  BY EntryIs
<1>3. (s.entries = {EntryOf(v)}) => (Legacy(s) <=> v < 3)
  BY DEF EntryOf, Legacy
<1>4. Reads(s) <=>
        /\ Cardinality(s.entries) = 1 /\ (IF Legacy(s) THEN v \in {1, 2} ELSE v \in {3, 4})
        /\ Legacy(s) => DOMAIN doc \cap Explicit = {}
        /\ versions /\ DOMAIN new \subseteq DocumentKeys /\ <<v, spec.schema_version>> \in Pairs
        /\ Normalizes(new.spec) /\ deployed /\ DocumentAccepted(new, s.locales)
  BY DEF Reads, DocumentReads, Explicit
<1>5. Accepted(s) <=>
        /\ v < 3 => DOMAIN doc \cap Explicit = {}
        /\ versions /\ DOMAIN new \subseteq DocumentKeys /\ deployed /\ DocumentAccepted(new, s.locales)
  BY DEF Accepted
<1> HIDE DEF versions, deployed, new
<1> QED
  BY <1>1, <1>2, <1>3, <1>4, <1>5

(* The reader accepts exactly the published documents.                     *)
LEMMA ReadsIs ==
  ASSUME NEW s, TypedSource(s)
  PROVE  Reads(s) <=>
           /\ s.entries = {EntryOf(s.document.schema_version)}
           /\ Conforms(s.document) /\ WellMeant(s)
<1> DEFINE doc == s.document
           v == doc.schema_version
           spec == doc.spec
           w == spec.schema_version
<1>1. CASE v \notin 1..4
  <2>1. ~Conforms(doc)
    BY <1>1 DEF Conforms
  <2>2. ~DocumentReads(s)
    BY <1>1 DEF DocumentReads
  <2> QED
    BY <2>1, <2>2 DEF Reads
<1>2. CASE v \in 1..4
  <2>1. Typed(spec) /\ w \in Int
    BY DEF TypedSource
  <2>2. /\ w \in DocumentShape(v).specs <=> <<v, w>> \in Pairs
        /\ w \in DocumentShape(v).specs => w \in 3..7
    BY <1>2, <2>1, PairsOf
  <2>3. w \in 3..7 => (Normalizes(spec) <=> GoodSpec(spec))
    BY <2>1, SpecRead
  <2>4. Accepted(s) <=> GoodDocument(s)
    BY <1>2, DocumentRead
  <2>5. Reads(s) <=> s.entries = {EntryOf(v)} /\ Accepted(s) /\ <<v, w>> \in Pairs /\ Normalizes(spec)
    BY <1>2, ReadsParts
  <2>6. (Conforms(doc) /\ WellMeant(s)) <=> GoodDocument(s) /\ w \in DocumentShape(v).specs /\ GoodSpec(spec)
    <3>1. Conforms(doc) <=>
            /\ DOMAIN doc \subseteq DocumentShape(v).keys /\ DocumentShape(v).required \subseteq DOMAIN doc
            /\ DOMAIN Part(doc, "release_discovery") \subseteq DocumentShape(v).discovery
            /\ Has(doc, "kind") => doc.kind = "redeven.service-template"
            /\ w \in DocumentShape(v).specs /\ spec.kind \in Sections
            /\ DOMAIN spec \subseteq SpecShape(w).top
            /\ DOMAIN Part(spec, "host") \subseteq SpecShape(w).host
            /\ DOMAIN Part(spec, "container") \subseteq SpecShape(w).container
      BY <1>2 DEF Conforms
    <3>2. WellMeant(s) <=>
            /\ (IF v < 3 THEN "en-US" ELSE doc.default_locale) \in (IF v < 3 THEN s.locales ELSE doc.locales)
            /\ (IF v < 3 THEN s.locales ELSE doc.locales) \subseteq s.locales
            /\ v = 1 => Has(doc, "version")
            /\ Has(doc, "deployment") => doc.deployment = spec.kind
            /\ DOMAIN spec \cap Sections = {spec.kind}
            /\ spec.kind = "host" => Has(spec.host, "start_script")
            /\ Has(Part(spec, "host"), "open_target") => spec.host.open_target # <<>>
            /\ w = 7 => OneOpening(spec)
      BY DEF WellMeant
    <3>3. GoodDocument(s) <=>
            /\ DOMAIN doc \subseteq DocumentShape(v).keys /\ DocumentShape(v).required \subseteq DOMAIN doc
            /\ DOMAIN Part(doc, "release_discovery") \subseteq DocumentShape(v).discovery
            /\ Has(doc, "kind") => doc.kind = "redeven.service-template"
            /\ (IF v < 3 THEN "en-US" ELSE doc.default_locale) \in (IF v < 3 THEN s.locales ELSE doc.locales)
            /\ (IF v < 3 THEN s.locales ELSE doc.locales) \subseteq s.locales
            /\ v = 1 => Has(doc, "version")
            /\ Has(doc, "deployment") => doc.deployment = spec.kind
      BY DEF GoodDocument
    <3>4. GoodSpec(spec) <=>
            /\ spec.kind \in Sections
            /\ DOMAIN spec \subseteq SpecShape(w).top
            /\ DOMAIN Part(spec, "host") \subseteq SpecShape(w).host
            /\ DOMAIN Part(spec, "container") \subseteq SpecShape(w).container
            /\ DOMAIN spec \cap Sections = {spec.kind}
            /\ spec.kind = "host" => Has(spec.host, "start_script")
            /\ Has(Part(spec, "host"), "open_target") => spec.host.open_target # <<>>
            /\ w = 7 => OneOpening(spec)
      BY DEF GoodSpec
    <3> HIDE DEF doc, v, spec, w
    <3> QED
      BY <3>1, <3>2, <3>3, <3>4
  <2> HIDE DEF doc
  <2> QED
    BY <2>2, <2>3, <2>4, <2>5, <2>6 DEF doc
<1> QED
  BY <1>1, <1>2

(* What the reader returns.                                                *)
LEMMA TemplateIs ==
  ASSUME NEW s, TypedSource(s), s.document.schema_version \in 1..4
  PROVE  LET new == Template(s)
             doc == Upgraded(s)
         IN /\ Object(new) /\ DOMAIN new = {"schema_version", "deployment", "spec"} \cup DOMAIN doc
            /\ new.schema_version = 4 /\ new.deployment = s.document.spec.kind /\ new.spec = Adapted(s.document.spec)
            /\ \A k \in DOMAIN doc : k \notin {"schema_version", "deployment", "spec"} => new[k] = doc[k]
<1> DEFINE new == Template(s)
           doc == Upgraded(s)
           spec == s.document.spec
           r == [schema_version |-> 4, deployment |-> spec.kind, spec |-> Adapted(spec)]
<1>1. doc.spec = spec
  BY UpgradedIs
<1>2. new = Over(r, doc)
  BY <1>1 DEF Template
<1>3. /\ DOMAIN r = {"schema_version", "deployment", "spec"}
      /\ r["schema_version"] = 4 /\ r["deployment"] = spec.kind /\ r["spec"] = Adapted(spec)
  OBVIOUS
<1> HIDE DEF r, doc
<1>4. /\ Object(Over(r, doc)) /\ DOMAIN Over(r, doc) = DOMAIN r \cup DOMAIN doc
      /\ \A k \in DOMAIN r : Over(r, doc)[k] = r[k]
      /\ \A k \in DOMAIN doc \ DOMAIN r : Over(r, doc)[k] = doc[k]
  BY OverIs
<1> HIDE DEF new, spec
<1>5. /\ Object(new) /\ DOMAIN new = {"schema_version", "deployment", "spec"} \cup DOMAIN doc
      /\ new["schema_version"] = 4 /\ new["deployment"] = spec.kind /\ new["spec"] = Adapted(spec)
      /\ \A k \in DOMAIN doc : k \notin {"schema_version", "deployment", "spec"} => new[k] = doc[k]
  BY <1>2, <1>3, <1>4
<1> QED
  BY <1>5 DEF new, spec, doc

LEMMA CanonicalIs ==
  ASSUME NEW s, TypedSource(s)
  PROVE  LET c == Canonical(s)
         IN /\ Object(c) /\ DOMAIN c = {"document", "entries", "locales"}
            /\ c.entries = {"redeven-service-template.json"} /\ c.document = Template(s) /\ c.locales = s.locales
<1> DEFINE e == {"redeven-service-template.json"}
           d == Template(s)
           mid == [s EXCEPT !["entries"] = e]
           c == [mid EXCEPT !["document"] = d]
<1>1. Canonical(s) = c
  BY DEF Canonical
<1>2. DOMAIN s = {"document", "entries", "locales"}
  BY DEF TypedSource
<1> HIDE DEF e, d
<1>3. DOMAIN mid = DOMAIN s /\ \A k \in DOMAIN s : mid[k] = IF k = "entries" THEN e ELSE s[k]
  BY ExceptIs
<1> HIDE DEF mid
<1>4. Object(c) /\ DOMAIN c = DOMAIN mid /\ \A k \in DOMAIN mid : c[k] = IF k = "document" THEN d ELSE mid[k]
  BY ExceptIs
<1> HIDE DEF c
<1>5. /\ Object(c) /\ DOMAIN c = {"document", "entries", "locales"}
      /\ c["entries"] = e /\ c["document"] = d /\ c["locales"] = s["locales"]
  BY <1>2, <1>3, <1>4
<1> QED
  BY <1>1, <1>5 DEF e, d

(* A normalized specification stays what it is.                            *)
LEMMA NormalizedAgain ==
  ASSUME NEW spec, Typed(spec), spec.schema_version \in 3..7, Normalizes(spec)
  PROVE  LET A == Adapted(spec)
         IN Typed(A) /\ A.schema_version = 7 /\ A.kind = spec.kind /\ Adapted(A) = A /\ Normalizes(A)
<1> DEFINE A == Adapted(spec)
<1>1. /\ Becomes(spec, A, IF spec.schema_version < 7 /\ Hook(A) THEN DOMAIN spec \ {"path"} ELSE DOMAIN spec,
                 AdaptedHost(spec), AdaptedContainer(spec))
      /\ A.schema_version = 7 /\ A.kind = spec.kind /\ Typed(A)
  BY AdaptedIs
<1>2. /\ Strict(A, LegacySpecKeys \cup {"startup_url"}, {"start_script"} \cup HookKeys)
      /\ DOMAIN spec \cap Sections \subseteq {spec.kind} /\ SpecAccepted(A)
  BY DEF Normalizes
<1> HIDE DEF A
<1>3. DOMAIN A \subseteq DOMAIN spec
  BY <1>1 DEF Becomes
<1>4. Adapted(A) = A
  BY <1>1, SpecSeven
<1>5. Normalizes(A)
  BY <1>1, <1>2, <1>3, <1>4 DEF Normalizes, NewerKeys
<1> QED
  BY <1>1, <1>4, <1>5 DEF A

(* The hosts of a specification that is read.                              *)
LEMMA HostsOf ==
  ASSUME NEW spec, Typed(spec), spec.schema_version \in 3..7, GoodSpec(spec)
  PROVE  LET host == Part(spec, "host")
             w == spec.schema_version
         IN /\ w > 5 => AdaptedHost(spec) = host /\ ~Has(host, "open_target")
            /\ w < 6 /\ Has(host, "open_target") => AdaptedHost(spec) = NewHost(host) /\ w = 5
            /\ w < 6 /\ ~Has(host, "open_target") => AdaptedHost(spec) = host /\ DOMAIN host \subseteq {"start_script"}
            /\ w < 7 => ~Has(spec, "startup_url")
<1> DEFINE host == Part(spec, "host")
           w == spec.schema_version
<1>1. DOMAIN host \subseteq SpecShape(w).host /\ DOMAIN spec \subseteq SpecShape(w).top
  BY DEF GoodSpec
<1>2. /\ SpecShape(w).host = {"start_script"} \cup (IF w = 5 THEN {"open_target"} ELSE IF w < 5 THEN {} ELSE HookKeys)
      /\ SpecShape(w).top = LegacySpecKeys \cup (IF w = 7 THEN {"startup_url"} ELSE {})
  BY ShapeOf
<1>3. AdaptedHost(spec) = IF w < 6 /\ Has(host, "open_target") THEN NewHost(host) ELSE host
  BY DEF AdaptedHost
<1>4. "open_target" \notin {"start_script"} \cup HookKeys /\ "startup_url" \notin LegacySpecKeys
  BY DEF HookKeys, LegacySpecKeys, Sections
<1>5. w \in 3..7
  OBVIOUS
<1> HIDE DEF host, w
<1>6. w > 5 => w # 5 /\ ~(w < 5) /\ ~(w < 6)
  BY <1>5
<1>7. w < 6 => w = 5 \/ w < 5
  BY <1>5
<1>8. w < 5 => w # 5
  BY <1>5
<1>9. w > 5 => AdaptedHost(spec) = host /\ ~Has(host, "open_target")
  BY <1>1, <1>2, <1>3, <1>4, <1>6 DEF Has
<1>10. w < 6 /\ Has(host, "open_target") => AdaptedHost(spec) = NewHost(host) /\ w = 5
  BY <1>1, <1>2, <1>3, <1>4, <1>7, <1>8 DEF Has
<1>11. w < 6 /\ ~Has(host, "open_target") => AdaptedHost(spec) = host /\ DOMAIN host \subseteq {"start_script"}
  BY <1>1, <1>2, <1>3, <1>7, <1>8 DEF Has
<1>12. w < 7 => w # 7
  BY <1>5
<1>13. w < 7 => ~Has(spec, "startup_url")
  BY <1>1, <1>2, <1>4, <1>12 DEF Has
<1> QED
  BY <1>9, <1>10, <1>11, <1>13 DEF host, w

(* Where the URL comes from, for a specification with no startup_url.      *)
LEMMA OpeningIs ==
  ASSUME NEW spec, spec.schema_version \in 3..7, ~Has(spec, "startup_url")
  PROVE  LET v == spec.schema_version
             host == Part(spec, "host")
         IN OpeningOf(spec) =
              IF v = 5 /\ Has(host, "open_target") THEN <<"output", host.open_target>>
              ELSE IF v >= 6 /\ Hook(spec)
                   THEN IF Wait(Part(host, "after_start_script")) THEN <<"output", host.after_start_script[2]>>
                        ELSE <<"script", Part(host, "after_start_script")>>
              ELSE <<"path", Part(spec, "path")>>
<1> DEFINE v == spec.schema_version
           host == Part(spec, "host")
           target == v = 5 /\ Has(host, "open_target")
           hook == v >= 6 /\ Hook(spec)
           url == v = 7 /\ Has(spec, "startup_url")
           b == <<"output", host.open_target>>
           c == IF Wait(Part(host, "after_start_script")) THEN <<"output", host.after_start_script[2]>>
                ELSE <<"script", Part(host, "after_start_script")>>
           d == <<"path", Part(spec, "path")>>
<1>1. OpeningOf(spec) = CASE url -> <<"output", spec.startup_url>> [] target -> b [] hook -> c [] OTHER -> d
  BY DEF OpeningOf
<1>2. ~url /\ ~(target /\ hook)
  OBVIOUS
<1> HIDE DEF url, target, hook, b, c, d
<1>3. OpeningOf(spec) = IF target THEN b ELSE IF hook THEN c ELSE d
  BY <1>1, <1>2
<1> QED
  BY <1>3 DEF target, hook, b, c, d

LEMMA WaitForIs ==
  \A x : WaitFor(x) # <<>> /\ WaitFor(x)[1] = "wait for" /\ WaitFor(x)[2] = x /\ Wait(WaitFor(x))
BY DEF WaitFor, Wait

(* The opening survives.                                                   *)
LEMMA OpeningKept ==
  ASSUME NEW spec, Typed(spec), spec.schema_version \in 3..7, GoodSpec(spec)
  PROVE  OpeningOf(Adapted(spec)) = OpeningOf(spec)
<1> DEFINE A == Adapted(spec)
           w == spec.schema_version
           host == Part(spec, "host")
           new == Part(A, "host")
           path == <<"path", Part(spec, "path")>>
<1>1. CASE w = 7
  BY <1>1, SpecSeven
<1>2. CASE w \in 3..6
  <2>1. w < 7 /\ w \in 3..7 /\ (w > 5 <=> w = 6) /\ (w >= 6 <=> w = 6) /\ (w < 6 <=> w # 6)
    BY <1>2
  <2>2. /\ Becomes(spec, A, IF w < 7 /\ Hook(A) THEN DOMAIN spec \ {"path"} ELSE DOMAIN spec,
                   AdaptedHost(spec), AdaptedContainer(spec))
        /\ A.schema_version = 7
    BY AdaptedIs
  <2>3. /\ w = 6 => AdaptedHost(spec) = host /\ ~Has(host, "open_target")
        /\ w # 6 /\ Has(host, "open_target") => AdaptedHost(spec) = NewHost(host) /\ w = 5
        /\ w # 6 /\ ~Has(host, "open_target") => AdaptedHost(spec) = host /\ DOMAIN host \subseteq {"start_script"}
        /\ ~Has(spec, "startup_url")
    BY <2>1, HostsOf
  <2> HIDE DEF A
  <2>4. /\ DOMAIN A = IF Hook(A) THEN DOMAIN spec \ {"path"} ELSE DOMAIN spec
        /\ new = AdaptedHost(spec)
        /\ \A k \in DOMAIN A : k \notin {"schema_version", "host", "container"} => A[k] = spec[k]
    BY <2>1, <2>2 DEF Becomes
  <2>5. ~Has(A, "startup_url")
    BY <2>3, <2>4 DEF Has
  <2>6. ~Hook(A) => Part(A, "path") = Part(spec, "path")
    BY <2>4 DEF Part, Has
  <2>7. /\ Hook(spec) <=> Has(host, "open_script") /\ host.open_script # <<>>
        /\ Hook(A) <=> Has(new, "open_script") /\ new.open_script # <<>>
    BY FieldsOf
  <2>8. OpeningOf(spec) =
          IF w = 5 /\ Has(host, "open_target") THEN <<"output", host.open_target>>
          ELSE IF w >= 6 /\ Hook(spec)
               THEN IF Wait(Part(host, "after_start_script")) THEN <<"output", host.after_start_script[2]>>
                    ELSE <<"script", Part(host, "after_start_script")>>
          ELSE path
    BY <2>1, <2>3, OpeningIs
  <2>9. OpeningOf(A) =
          IF Hook(A)
          THEN IF Wait(Part(new, "after_start_script")) THEN <<"output", new.after_start_script[2]>>
               ELSE <<"script", Part(new, "after_start_script")>>
          ELSE <<"path", Part(A, "path")>>
    <3>1. A.schema_version \in 3..7 /\ A.schema_version >= 6 /\ A.schema_version # 5
      BY <2>2
    <3> QED
      BY <2>5, <3>1, OpeningIs
  <2> HIDE DEF host, new
  <2>10. ASSUME w = 6 PROVE OpeningOf(A) = OpeningOf(spec)
    <3>1. new = host
      BY <2>3, <2>4, <2>10
    <3>2. Hook(A) <=> Hook(spec)
      BY <2>7, <3>1
    <3>3. w >= 6 /\ w # 5
      BY <2>10
    <3> QED
      BY <2>6, <2>8, <2>9, <3>1, <3>2, <3>3
  <2>11. ASSUME w # 6 /\ Has(host, "open_target") PROVE OpeningOf(A) = OpeningOf(spec)
    <3>1. new = NewHost(host) /\ w = 5
      BY <2>3, <2>4, <2>11
    <3>2. /\ DOMAIN new = HookKeys \cup (DOMAIN host \ {"open_target"})
          /\ new.after_start_script = WaitFor(host.open_target) /\ new.open_script = <<"print">>
      BY <3>1, NewHostIs
    <3>3. Has(new, "open_script") /\ Has(new, "after_start_script")
      BY <3>2 DEF Has, HookKeys
    <3>4. Hook(A)
      BY <2>7, <3>2, <3>3
    <3>5. Part(new, "after_start_script") = new.after_start_script
      BY <3>3 DEF Part
    <3>6. Wait(new.after_start_script) /\ new.after_start_script[2] = host.open_target
      BY <3>2, WaitForIs
    <3> QED
      BY <2>8, <2>9, <2>11, <3>1, <3>4, <3>5, <3>6
  <2>12. ASSUME w # 6 /\ ~Has(host, "open_target") PROVE OpeningOf(A) = OpeningOf(spec)
    <3>1. new = host /\ DOMAIN host \subseteq {"start_script"}
      BY <2>3, <2>4, <2>12
    <3>2. ~Has(host, "open_script")
      BY <3>1 DEF Has
    <3>3. ~Hook(A) /\ ~(w >= 6)
      BY <2>1, <2>7, <2>12, <3>1, <3>2
    <3> QED
      BY <2>6, <2>8, <2>9, <2>12, <3>3
  <2> QED
    BY <2>10, <2>11, <2>12 DEF A
<1>3. w \in 3..7
  OBVIOUS
<1> QED
  BY <1>1, <1>2, <1>3

(* A waiting hook has the output it waits for.                             *)
LEMMA CaptureKept ==
  ASSUME NEW spec, Typed(spec), spec.schema_version \in 3..7, GoodSpec(spec), Has(Part(spec, "host"), "open_target")
  PROVE  Has(AdaptedHost(spec), "output_mode") /\ AdaptedHost(spec).output_mode = "private_file"
<1> DEFINE host == Part(spec, "host")
           w == spec.schema_version
<1>1. AdaptedHost(spec) = NewHost(host)
  <2>1. w > 5 \/ w < 6
    OBVIOUS
  <2> QED
    BY <2>1, HostsOf
<1>2. DOMAIN NewHost(host) = HookKeys \cup (DOMAIN host \ {"open_target"}) /\ NewHost(host).output_mode = "private_file"
  BY NewHostIs
<1>3. Has(NewHost(host), "output_mode")
  BY <1>2 DEF Has, HookKeys
<1> QED
  BY <1>1, <1>2, <1>3

(* The scripts and the image survive.                                      *)
LEMMA ScriptsKept ==
  ASSUME NEW spec, Typed(spec), spec.schema_version \in 3..7, GoodSpec(spec)
  PROVE  Without(AdaptedHost(spec), HookKeys) = Without(Part(spec, "host"), HookKeys \cup {"open_target"})
<1> DEFINE host == Part(spec, "host")
           w == spec.schema_version
           a == Without(AdaptedHost(spec), HookKeys)
           b == Without(host, HookKeys \cup {"open_target"})
<1>1. /\ w > 5 => AdaptedHost(spec) = host /\ ~Has(host, "open_target")
      /\ w < 6 /\ Has(host, "open_target") => AdaptedHost(spec) = NewHost(host)
      /\ w < 6 /\ ~Has(host, "open_target") => AdaptedHost(spec) = host
  BY HostsOf
<1>2. w > 5 \/ w < 6
  OBVIOUS
<1>3. /\ Object(a) /\ DOMAIN a = DOMAIN AdaptedHost(spec) \ HookKeys
      /\ \A k \in DOMAIN AdaptedHost(spec) \ HookKeys : a[k] = AdaptedHost(spec)[k]
  BY WithoutIs
<1>4. /\ Object(b) /\ DOMAIN b = DOMAIN host \ (HookKeys \cup {"open_target"})
      /\ \A k \in DOMAIN host \ (HookKeys \cup {"open_target"}) : b[k] = host[k]
  BY WithoutIs
<1>5. /\ DOMAIN NewHost(host) = HookKeys \cup (DOMAIN host \ {"open_target"})
      /\ \A k \in DOMAIN host \ (HookKeys \cup {"open_target"}) : NewHost(host)[k] = host[k]
  BY NewHostIs
<1> HIDE DEF a, b, host, w
<1>6. CASE AdaptedHost(spec) = host /\ ~Has(host, "open_target")
  <2>1. DOMAIN a = DOMAIN b /\ \A k \in DOMAIN a : a[k] = b[k]
    BY <1>3, <1>4, <1>6 DEF Has
  <2> QED
    BY <1>3, <1>4, <2>1, SameObject DEF a, b, host
<1>7. CASE AdaptedHost(spec) = NewHost(host)
  <2>1. DOMAIN a = DOMAIN b /\ \A k \in DOMAIN a : a[k] = b[k]
    BY <1>3, <1>4, <1>5, <1>7
  <2> QED
    BY <1>3, <1>4, <2>1, SameObject DEF a, b, host
<1> QED
  BY <1>1, <1>2, <1>6, <1>7

LEMMA ImageKept ==
  ASSUME NEW spec, Typed(spec), spec.schema_version \in 3..7, GoodSpec(spec)
  PROVE  AdaptedContainer(spec) = Without(Part(spec, "container"), {"release_policy"})
<1> DEFINE c == Part(spec, "container")
<1>1. CASE spec.schema_version = 3
  BY <1>1 DEF AdaptedContainer
<1>2. CASE spec.schema_version # 3
  <2>1. AdaptedContainer(spec) = c
    BY <1>2 DEF AdaptedContainer
  <2>2. DOMAIN c \subseteq SpecShape(spec.schema_version).container
    BY DEF GoodSpec
  <2>3. SpecShape(spec.schema_version).container = {"image"}
    BY <1>2, ShapeOf
  <2>4. Object(c) /\ DOMAIN c \cap {"release_policy"} = {}
    BY <2>2, <2>3 DEF Typed
  <2> HIDE DEF c
  <2>5. Without(c, {"release_policy"}) = c
    BY <2>4, WithoutNothing
  <2> QED
    BY <2>1, <2>5 DEF c
<1> QED
  BY <1>1, <1>2

(* So does the recommendation.                                             *)
LEMMA RecommendationKept ==
  ASSUME NEW s, TypedSource(s), s.document.schema_version \in 1..4, Accepted(s)
  PROVE  Part(Template(s), "recommended_version") =
           IF Has(s.document, "version") THEN s.document.version ELSE Part(s.document, "recommended_version")
<1> DEFINE old == s.document
           v == old.schema_version
           doc == Upgraded(s)
           new == Template(s)
<1>1. /\ DOMAIN new = {"schema_version", "deployment", "spec"} \cup DOMAIN doc
      /\ \A k \in DOMAIN doc : k \notin {"schema_version", "deployment", "spec"} => new[k] = doc[k]
  BY TemplateIs
<1>2. /\ DOMAIN doc = IF v = 1 THEN (DOMAIN old \ {"version"}) \cup {"recommended_version"} \cup Explicit
                      ELSE IF v = 2 THEN DOMAIN old \cup Explicit ELSE DOMAIN old
      /\ v > 2 => doc = old
      /\ v = 1 => doc.recommended_version = old.version
      /\ v = 2 /\ Has(old, "recommended_version") => doc.recommended_version = old.recommended_version
  BY UpgradedIs
<1>3. (v = 1 => Has(old, "version")) /\ DOMAIN doc \subseteq DocumentKeys
  BY DEF Accepted
<1>4. v = 1 \/ v = 2 \/ v > 2
  OBVIOUS
<1>5. v > 2 => v # 1 /\ v # 2
  OBVIOUS
<1>6. "version" \notin DocumentKeys /\ "recommended_version" \notin Explicit
  BY DEF DocumentKeys, Explicit
<1> HIDE DEF old, v, doc, new
<1>7. Part(new, "recommended_version") = Part(doc, "recommended_version")
  BY <1>1 DEF Part, Has
<1>8. CASE v = 1
  <2>1. Has(doc, "recommended_version")
    BY <1>2, <1>8 DEF Has
  <2> QED
    BY <1>2, <1>3, <1>7, <1>8, <2>1 DEF Part, old, new
<1>9. CASE v = 2
  <2>1. ~Has(old, "version")
    BY <1>2, <1>3, <1>6, <1>9 DEF Has
  <2>2. Has(doc, "recommended_version") <=> Has(old, "recommended_version")
    BY <1>2, <1>6, <1>9 DEF Has
  <2> QED
    BY <1>2, <1>7, <1>9, <2>1, <2>2 DEF Part, old, new
<1>10. CASE v > 2
  <2>1. doc = old
    BY <1>2, <1>10
  <2>2. ~Has(old, "version")
    BY <1>3, <1>6, <2>1 DEF Has
  <2> QED
    BY <1>7, <2>1, <2>2 DEF old, new
<1> QED
  BY <1>4, <1>8, <1>9, <1>10

(* What Read returned reads as itself.                                     *)
LEMMA ReadsAgain ==
  ASSUME NEW s, TypedSource(s), s.document.schema_version \in 1..4, s.document.spec.schema_version \in 3..7,
         Accepted(s), Normalizes(s.document.spec)
  PROVE  Reads(Canonical(s)) /\ Template(Canonical(s)) = Template(s)
<1> DEFINE old == s.document
           v == old.schema_version
           A == Adapted(old.spec)
           doc == Upgraded(s)
           new == Template(s)
           c == Canonical(s)
<1>1. /\ Object(new) /\ DOMAIN new = {"schema_version", "deployment", "spec"} \cup DOMAIN doc
      /\ new.schema_version = 4 /\ new.deployment = old.spec.kind /\ new.spec = A
      /\ \A k \in DOMAIN doc : k \notin {"schema_version", "deployment", "spec"} => new[k] = doc[k]
  BY TemplateIs
<1>2. /\ Object(c) /\ DOMAIN c = {"document", "entries", "locales"}
      /\ c.entries = {"redeven-service-template.json"} /\ c.document = new /\ c.locales = s.locales
  BY CanonicalIs
<1>3. Typed(A) /\ A.schema_version = 7 /\ A.kind = old.spec.kind /\ Adapted(A) = A /\ Normalizes(A)
  BY NormalizedAgain DEF TypedSource
<1>4. /\ DOMAIN doc = IF v = 1 THEN (DOMAIN old \ {"version"}) \cup {"recommended_version"} \cup Explicit
                      ELSE IF v = 2 THEN DOMAIN old \cup Explicit ELSE DOMAIN old
      /\ v = 1 /\ Has(old, "release_discovery") =>
           Object(doc.release_discovery) /\ DOMAIN doc.release_discovery = {"source"}
      /\ v # 1 /\ Has(old, "release_discovery") => doc.release_discovery = old.release_discovery
  BY UpgradedIs
<1>5. /\ v # 1 => DOMAIN Part(old, "release_discovery") \subseteq {"source"}
      /\ DOMAIN doc \subseteq DocumentKeys
      /\ Has(doc, "kind") /\ doc.kind = "redeven.service-template"
      /\ Has(doc, "locales") /\ Has(doc, "default_locale")
      /\ doc.default_locale \in doc.locales /\ doc.locales \subseteq s.locales
  BY DEF Accepted, DocumentAccepted
<1>6. /\ {"schema_version", "deployment", "spec"} \subseteq DocumentKeys
      /\ "release_discovery" \notin {"version", "recommended_version"} \cup Explicit
      /\ {"schema_version", "deployment", "spec"} \cap (Explicit \cup {"release_discovery"}) = {}
      /\ Explicit = {"kind", "default_locale", "locales"}
  BY DEF DocumentKeys, Explicit
<1> HIDE DEF A, doc, new, c, old, v
<1>7. /\ new.kind = "redeven.service-template" /\ new.default_locale = doc.default_locale
      /\ new.locales = doc.locales /\ Explicit \subseteq DOMAIN new
  BY <1>1, <1>5, <1>6 DEF Has
<1>8. DOMAIN new \subseteq DocumentKeys /\ {"schema_version", "spec", "deployment"} \subseteq DOMAIN new
  BY <1>1, <1>5, <1>6
<1>9. DOMAIN Part(new, "release_discovery") \subseteq {"source"}
  <2>1. Has(new, "release_discovery") <=> Has(old, "release_discovery")
    BY <1>1, <1>4, <1>6 DEF Has
  <2>2. CASE ~Has(new, "release_discovery")
    BY <2>2, NoKeys DEF Part
  <2>3. CASE Has(new, "release_discovery")
    <3>1. Part(new, "release_discovery") = doc.release_discovery
      BY <1>1, <1>6, <2>3 DEF Part, Has
    <3>2. v # 1 => Part(old, "release_discovery") = doc.release_discovery
      BY <1>4, <2>1, <2>3 DEF Part
    <3>3. DOMAIN doc.release_discovery \subseteq {"source"}
      BY <1>4, <1>5, <2>1, <2>3, <3>2
    <3> QED
      BY <3>1, <3>3
  <2> QED
    BY <2>2, <2>3
<1>10. TypedSource(c)
  <2>1. Has(c.document, "schema_version") /\ Has(c.document, "spec")
    BY <1>2, <1>8 DEF Has
  <2>2. c.document.schema_version \in Int /\ c.document.spec.schema_version \in Int /\ Typed(c.document.spec)
    BY <1>1, <1>2, <1>3
  <2> QED
    BY <1>1, <1>2, <2>1, <2>2 DEF TypedSource
<1>11. c.document.schema_version = 4 /\ c.document.spec = A
  BY <1>1, <1>2
<1>12. GoodDocument(c)
  <2>1. /\ DocumentShape(4).keys = DocumentKeys
        /\ DocumentShape(4).required = {"schema_version", "spec"} \cup Explicit
        /\ DocumentShape(4).discovery = {"source"}
    <3>1. 4 \in 1..4 /\ 4 # 1 /\ 4 # 2 /\ ~(4 < 3)
      OBVIOUS
    <3> QED
      BY <3>1, DocumentShapeOf
  <2>2. GoodDocument(c) <=>
          /\ DOMAIN new \subseteq DocumentShape(4).keys /\ DocumentShape(4).required \subseteq DOMAIN new
          /\ DOMAIN Part(new, "release_discovery") \subseteq DocumentShape(4).discovery
          /\ Has(new, "kind") => new.kind = "redeven.service-template"
          /\ new.default_locale \in new.locales /\ new.locales \subseteq c.locales
          /\ Has(new, "deployment") => new.deployment = new.spec.kind
    <3>1. c.document = new /\ new.schema_version = 4 /\ ~(4 < 3) /\ 4 # 1
      BY <1>1, <1>2
    <3> QED
      BY <3>1 DEF GoodDocument
  <2>3. new.deployment = new.spec.kind
    BY <1>1, <1>3
  <2> QED
    BY <1>2, <1>5, <1>7, <1>8, <1>9, <2>1, <2>2, <2>3
<1>13. Accepted(c)
  BY <1>10, <1>11, <1>12, DocumentRead
<1>14. Reads(c)
  <2>1. /\ c.entries = {EntryOf(4)} /\ <<4, 7>> \in Pairs /\ c.document.spec.schema_version = 7
        /\ Normalizes(c.document.spec) /\ c.document.schema_version \in 1..4
    BY <1>2, <1>3, <1>11 DEF EntryOf, Pairs
  <2> QED
    BY <1>10, <1>11, <1>13, <2>1, ReadsParts
<1>15. Template(c) = new
  <2>1. c.document.schema_version \in 1..4 /\ c.document.schema_version > 2
    BY <1>11
  <2>2. Upgraded(c) = new
    BY <1>2, <1>10, <2>1, UpgradedIs
  <2>3. /\ Object(Template(c)) /\ DOMAIN Template(c) = {"schema_version", "deployment", "spec"} \cup DOMAIN new
        /\ Template(c).schema_version = 4 /\ Template(c).deployment = A.kind /\ Template(c).spec = A
        /\ \A k \in DOMAIN new : k \notin {"schema_version", "deployment", "spec"} => Template(c)[k] = new[k]
    <3>1. LET two == Template(c)
              of == Upgraded(c)
          IN /\ Object(two) /\ DOMAIN two = {"schema_version", "deployment", "spec"} \cup DOMAIN of
             /\ two.schema_version = 4 /\ two.deployment = c.document.spec.kind /\ two.spec = Adapted(c.document.spec)
             /\ \A k \in DOMAIN of : k \notin {"schema_version", "deployment", "spec"} => two[k] = of[k]
      BY <1>10, <2>1, TemplateIs
    <3> QED
      BY <1>3, <1>11, <2>2, <3>1
  <2> DEFINE two == Template(c)
  <2>4. DOMAIN two = DOMAIN new
    BY <1>8, <2>3
  <2>5. ASSUME NEW k \in DOMAIN two PROVE two[k] = new[k]
    <3>1. two["schema_version"] = new["schema_version"] /\ two["deployment"] = new["deployment"] /\ two["spec"] = new["spec"]
      BY <1>1, <1>3, <2>3
    <3> QED
      BY <2>3, <2>4, <3>1
  <2> HIDE DEF two
  <2>6. Object(two)
    BY <2>3 DEF two
  <2>7. two = new
    BY <1>1, <2>4, <2>5, <2>6, SameObject
  <2> QED
    BY <2>7 DEF two
<1> QED
  BY <1>14, <1>15 DEF c, new

-----------------------------------------------------------------------------
(* The theorems.                                                           *)

LEMMA SourcesTyped ==
  ASSUME NEW s \in Sources
  PROVE  TypedSource(s)
BY SourceAssumption DEF TypedSource, Typed

(* As long as no service runs, the source is the author's.                 *)
SourceInv == opening = "none" => source \in Sources

LEMMA SourceKept == LaunchSpec => []SourceInv
<1>1. LaunchInit => SourceInv
  BY DEF LaunchInit, SourceInv
<1>2. SourceInv /\ [LaunchNext]_launchVars => SourceInv'
  <2> SUFFICES ASSUME SourceInv, [LaunchNext]_launchVars PROVE SourceInv'
    OBVIOUS
  <2>1. CASE Start
    BY <2>1 DEF Start, SourceInv
  <2>2. CASE opening # "none" /\ Grow /\ UNCHANGED <<source, opening, stored, storedSettled>>
    BY <2>2 DEF SourceInv
  <2>3. CASE opening = "startup" /\ Parse /\ UNCHANGED <<source, opening, stored, storedSettled>>
    BY <2>3 DEF SourceInv
  <2>4. CASE Poll
    BY <2>4 DEF Poll, SourceInv
  <2>5. CASE UNCHANGED launchVars
    BY <2>5 DEF SourceInv, launchVars
  <2> QED
    BY <2>1, <2>2, <2>3, <2>4, <2>5 DEF LaunchNext
<1> QED
  BY <1>1, <1>2, PTL DEF LaunchSpec

(* ReadsExactlyThePublished: whatever keys and values its author wrote,    *)
(* Read accepts a source if and only if it is a published document under   *)
(* the entrypoint of its version.                                          *)
THEOREM ReadsThePublished == LaunchSpec => []ReadsExactlyThePublished
<1>1. SourceInv => ReadsExactlyThePublished
  <2> SUFFICES ASSUME SourceInv, opening = "none"
               PROVE  Reads(source) <=>
                        /\ source.entries = {IF source.document.schema_version < 3
                                               THEN "template.json" ELSE "redeven-service-template.json"}
                        /\ Conforms(source.document) /\ WellMeant(source)
    BY DEF ReadsExactlyThePublished
  <2>1. TypedSource(source)
    BY SourcesTyped DEF SourceInv
  <2> QED
    BY <2>1, ReadsIs DEF EntryOf
<1> QED
  BY <1>1, SourceKept, PTL

LEMMA FaithfulTo ==
  ASSUME NEW s \in Sources, Reads(s)
  PROVE  LET old == s.document
             new == Template(s)
             host == Part(new.spec, "host")
         IN /\ OpeningOf(new.spec) = OpeningOf(old.spec)
            /\ Has(Part(old.spec, "host"), "open_target") =>
                 Has(host, "output_mode") /\ host.output_mode = "private_file"
            /\ Without(host, HookKeys) = Without(Part(old.spec, "host"), HookKeys \cup {"open_target"})
            /\ Part(new.spec, "container") = Without(Part(old.spec, "container"), {"release_policy"})
            /\ Part(new, "recommended_version") =
                 (IF Has(old, "version") THEN old.version ELSE Part(old, "recommended_version"))
            /\ Reads(Canonical(s)) /\ Template(Canonical(s)) = new
<1> DEFINE old == s.document
           spec == old.spec
           v == old.schema_version
           w == spec.schema_version
           new == Template(s)
<1>1. TypedSource(s)
  BY SourcesTyped
<1>2. v \in 1..4
  <2>1. Conforms(old)
    BY <1>1, ReadsIs
  <2> QED
    BY <2>1 DEF Conforms
<1>3. Accepted(s) /\ <<v, w>> \in Pairs /\ Normalizes(spec)
  BY <1>1, <1>2, ReadsParts
<1>4. Typed(spec) /\ w \in 3..7
  <2>1. Typed(spec) /\ w \in Int
    BY <1>1 DEF TypedSource
  <2> QED
    BY <1>2, <1>3, <2>1, PairsOf
<1>5. GoodSpec(spec)
  BY <1>3, <1>4, SpecRead
<1>6. new.spec = Adapted(spec)
  BY <1>1, <1>2, TemplateIs
<1>7. Part(new.spec, "host") = AdaptedHost(spec) /\ Part(new.spec, "container") = AdaptedContainer(spec)
  BY <1>4, <1>6, AdaptedIs DEF Becomes
<1>8. OpeningOf(new.spec) = OpeningOf(spec)
  BY <1>4, <1>5, <1>6, OpeningKept
<1>9. Has(Part(spec, "host"), "open_target") =>
        Has(AdaptedHost(spec), "output_mode") /\ AdaptedHost(spec).output_mode = "private_file"
  BY <1>4, <1>5, CaptureKept
<1>10. Without(AdaptedHost(spec), HookKeys) = Without(Part(spec, "host"), HookKeys \cup {"open_target"})
  BY <1>4, <1>5, ScriptsKept
<1>11. AdaptedContainer(spec) = Without(Part(spec, "container"), {"release_policy"})
  BY <1>4, <1>5, ImageKept
<1>12. Part(new, "recommended_version") =
         IF Has(old, "version") THEN old.version ELSE Part(old, "recommended_version")
  BY <1>1, <1>2, <1>3, RecommendationKept
<1>13. Reads(Canonical(s)) /\ Template(Canonical(s)) = new
  BY <1>1, <1>2, <1>3, <1>4, ReadsAgain
<1> QED
  BY <1>7, <1>8, <1>9, <1>10, <1>11, <1>12, <1>13

(* Faithful: whatever the source, what Read returns says what the document *)
(* said under its own version, and reads as itself.                        *)
THEOREM Faithfully == LaunchSpec => []Faithful
<1>1. SourceInv => Faithful
  <2> SUFFICES ASSUME SourceInv, opening = "none", Reads(source) PROVE Faithful
    BY DEF Faithful
  <2>1. source \in Sources
    BY DEF SourceInv
  <2> QED
    BY <2>1, FaithfulTo DEF Faithful
<1> QED
  BY <1>1, SourceKept, PTL
=============================================================================
