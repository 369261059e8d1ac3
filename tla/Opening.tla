------------------------------ MODULE Opening -------------------------------
(***************************************************************************)
(* ParseStartupURL of template/opening.go, applied again and again to the  *)
(* output of one launch while the service is still writing it.  The output *)
(* is a sequence of symbols: pieces of a URL, blanks, line ends and other  *)
(* text; it ends wherever the service's last write ended.                  *)
(***************************************************************************)
EXTENDS Integers, Sequences, SequencesExt, FiniteSetsExt

CONSTANTS
  LinePrefix,  \* the declared prefix
  Begin,       \* scheme and host, the beginning of a URL
  GoOnly,      \* beginnings that only Go takes: a port above 65535
  SDKOnly,     \* beginnings that only JavaScript takes: an empty user name
  More,        \* more of a URL: a port, a path, a token
  Blank,
  LineEnd,
  Text,        \* other text
  MaxOutput,   \* 16 MiB in the code
  MaxLine,     \* 64 KiB in the code
  MaxGrowth    \* bound: length of the output

Symbol == {Begin, More, Blank, LineEnd, Text} \cup GoOnly \cup SDKOnly

ASSUME OpeningAssumption ==
  /\ LinePrefix \in Seq(Symbol \ {LineEnd}) /\ LinePrefix # <<>>
  /\ \A n \in {MaxOutput, MaxLine, MaxGrowth} : n \in Nat

VARIABLES
  output,   \* what the service has written
  reading   \* what the host got when it last read the output

vars == <<output, reading>>

Result(c, u) == [code |-> c, url |-> u]
Never == [answer |-> Result("", <<>>), settled |-> FALSE]

Init == output = <<>> /\ reading = Never

(* The service writes on.                                                  *)
Grow ==
  /\ Len(output) < MaxGrowth
  /\ \E c \in Symbol : output' = Append(output, c)
  /\ UNCHANGED reading

-----------------------------------------------------------------------------
(* The reader.                                                             *)

(* LimitedReader: one symbol more than the limit is read at most.          *)
Read == SubSeq(output, 1, Min({Len(output), MaxOutput + 1}))

(* Where the lines of a text start, and the one that starts at n, which    *)
(* need not have an end if it is the last.                                 *)
StartsIn(text) == {1} \cup {n + 1 : n \in {i \in 1..Len(text) : text[i] = LineEnd}}
LineIn(text, n) ==
  LET ends == {i \in n..Len(text) : text[i] = LineEnd}
  IN SubSeq(text, n, IF ends = {} THEN Len(text) ELSE Min(ends) - 1)

(* bufio.ScanLines.                                                        *)
Starts == StartsIn(Read)
Line(n) == LineIn(Read, n)

(* strings.Fields: the first run of symbols that are not blank.            *)
FirstField(s) ==
  LET words == {n \in 1..Len(s) : s[n] # Blank}
      first == Min(words)
      last  == Max({n \in words : \A i \in first..n : i \in words})
  IN IF words = {} THEN <<>> ELSE SubSeq(s, first, last)

Candidate(line) ==
  IF IsPrefix(LinePrefix, line)
    THEN FirstField(SubSeq(line, Len(LinePrefix) + 1, Len(line))) ELSE <<>>

(* url.Parse, and the checks of scheme, host and user, which refuse even   *)
(* an empty user name; Text stands for what no URL contains.               *)
ValidURL(s) == s[1] \in {Begin} \cup GoOnly /\ \A n \in 2..Len(s) : s[n] # Text

(* Mutant of Long: only the line still being written is measured. *)
LongWithEnd(n) == n = Max(Starts) /\ Len(Line(n)) >= MaxLine

(* The scanner gives up at a line that fills its buffer.                   *)
Long(n) == Len(Line(n)) >= MaxLine

Scanned == {n \in Starts : \A i \in Starts : i <= n => ~Long(i)}
Matching == {n \in Scanned : Candidate(Line(n)) # <<>>}

(* Mutant of Chosen: a later line replaces the result. *)
ChosenLast == Max(Matching)

(* The first line that has a candidate decides; later ones are skipped.    *)
Chosen == Min(Matching)

(* The order of the returns: an invalid URL at once, a limit at the end.   *)
Answer ==
  IF Matching # {} /\ ~ValidURL(Candidate(Line(Chosen)))
    THEN Result("OPENING_URL_INVALID", <<>>)
  ELSE IF Scanned # Starts \/ Len(output) > MaxOutput
    THEN Result("OPENING_OUTPUT_LIMIT", <<>>)
  ELSE IF Matching = {}
    THEN Result("OPENING_URL_MISSING", <<>>)
  ELSE Result("", Candidate(Line(Chosen)))

(* Has the line that decides the answer been written with its end?         *)
Settled == Matching # {} /\ Chosen < Max(Starts)

(* new URL, which refuses a port above 65535 where url.Parse takes any     *)
(* digits, and the checks of protocol, host and user, of which an empty    *)
(* user name is none.                                                      *)
SDKValidURL(s) == s[1] \in {Begin} \cup SDKOnly /\ \A n \in 2..Len(s) : s[n] # Text

(* Mutant of SDKLine: an earlier URL does not keep a later line out. *)
SDKLineLast(before, line) ==
  IF before.code # "" THEN before
  ELSE IF Len(line) >= MaxLine THEN Result("OPENING_OUTPUT_LIMIT", <<>>)
  ELSE IF Candidate(line) = <<>> THEN before
  ELSE IF SDKValidURL(Candidate(line)) THEN Result("", Candidate(line))
  ELSE Result("OPENING_URL_INVALID", <<>>)

(* One turn of the loop of parseStartupURL in sdk/index.cjs.               *)
SDKLine(before, line) ==
  IF before.code # "" THEN before
  ELSE IF Len(line) >= MaxLine THEN Result("OPENING_OUTPUT_LIMIT", <<>>)
  ELSE IF before.url # <<>> \/ Candidate(line) = <<>> THEN before
  ELSE IF SDKValidURL(Candidate(line)) THEN Result("", Candidate(line))
  ELSE Result("OPENING_URL_INVALID", <<>>)

(* parseStartupURL of the SDK, which looks at the whole output first and   *)
(* then at every line.                                                     *)
SDKAnswer ==
  LET found[n \in 0..(Len(output) + 1)] ==
        IF n = 0 THEN Result("", <<>>)
        ELSE IF n \in StartsIn(output) THEN SDKLine(found[n - 1], LineIn(output, n)) ELSE found[n - 1]
      last == found[Len(output) + 1]
  IN IF Len(output) > MaxOutput THEN Result("OPENING_OUTPUT_LIMIT", <<>>)
     ELSE IF last = Result("", <<>>) THEN Result("OPENING_URL_MISSING", <<>>)
     ELSE last

(* The host reads the output, at any time.                                 *)
Parse ==
  /\ reading' = [answer |-> Answer, settled |-> Settled]
  /\ UNCHANGED output

Next == Grow \/ Parse

Spec == Init /\ [][Next]_vars

-----------------------------------------------------------------------------
(* Properties.  Each compares what the host got with what it would get if  *)
(* it read again, after the service has written more.                      *)

Limit == Result("OPENING_OUTPUT_LIMIT", <<>>)

(* Once the line with the opening URL is complete, every later reading     *)
(* gives the same answer, until the output exceeds its limits: trailing    *)
(* "LAN descriptions" (opening.go:31) and later lines never change it.  A  *)
(* complete line with an invalid URL is refused for good even then, and an *)
(* output over a limit never yields a URL again.                           *)
AnswersAreFinal ==
  /\ reading.settled => Answer \in {reading.answer, Limit}
  /\ reading.settled /\ reading.answer.code = "OPENING_URL_INVALID" => Answer = reading.answer
  /\ reading.answer = Limit => Answer = Limit

(* Do url.Parse and new URL take the candidate that decides differently?   *)
Disputed ==
  LET candidate == Candidate(Line(Chosen))
  IN Matching # {} /\ (ValidURL(candidate) # SDKValidURL(candidate))

(* Desktop, which uses the SDK, and Runtime, which uses the Go package,    *)
(* open the same URL of the same output and report the same error, with    *)
(* two exceptions.  Over its total limit the SDK refuses an output before  *)
(* it looks at the lines: then both refuse.  And a candidate that one URL  *)
(* parser takes and the other does not is refused by that one as invalid.  *)
(* They never open two different URLs.                                     *)
ImplementationsAgree ==
  /\ Len(output) > MaxOutput => SDKAnswer.code # "" /\ Answer.code # ""
  /\ Len(output) <= MaxOutput =>
       IF Disputed THEN "OPENING_URL_INVALID" \in {Answer.code, SDKAnswer.code}
       ELSE SDKAnswer = Answer

(* "It returns the first complete URL after the declared exact prefix"     *)
(* (opening.go:30): a URL, once returned, is not the beginning of another. *)
(* The reader takes a last line without an end, so a URL of which the      *)
(* service has written only a part is returned.                            *)
ReturnsCompleteURL ==
  reading.answer.url # <<>> => Answer \in {reading.answer, Limit}
=============================================================================
