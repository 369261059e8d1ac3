------------------------ MODULE CatalogBuildProofs --------------------------
(***************************************************************************)
(* What the commands guarantee for any number of templates, platforms,     *)
(* commands, saves and changes of the registry.                            *)
(***************************************************************************)
EXTENDS CatalogBuild, FiniteSetTheorems, TLAPS

(* The groups of variables, expanded wherever an action is. *)
USE DEF disk, registry, request, check, build

Active == {"preflight", "read", "validate"}

TypeOK ==
  /\ definitions \in [ToSet(Template) -> Content]
  /\ tags \in [ToSet(Template) -> Index \cup {NoIndex}]
  /\ checked \in Seq(Content) /\ Len(checked) <= Len(Template)
  /\ stage \in {"next", "plain", "token", "retry", "compare"}
  /\ wanted \in {"index"} \cup Platform /\ todo \subseteq Platform
  /\ verdict \in {"none", "error", "failed", "passed"}
  /\ registryFlag \in BOOLEAN /\ phase \in Active \cup {"ok", "failed"}
  /\ output \in Seq(Content) /\ Len(output) <= Len(Template)
  /\ unwritten \subseteq File /\ DOMAIN dist = File
  /\ runs \in Nat /\ requests \in Nat

-----------------------------------------------------------------------------
(* Templates and sequences.                                                *)

(* There is a first template, and every one has a definition. *)
LEMMA Templates ==
  /\ Len(Template) \in Nat \ {0}
  /\ \A n \in 1..Len(Template) : Template[n] \in ToSet(Template)
<1>1. Template \in Seq(ToSet(Template)) /\ Template # <<>>
  BY TemplateAssumption
<1> QED
  BY <1>1 DEF ToSet

(* What a sequence holds after one more element. *)
LEMMA Appended ==
  ASSUME NEW S, NEW s \in Seq(S), NEW e \in S
  PROVE  /\ Append(s, e) \in Seq(S) /\ Append(s, e) # <<>>
         /\ Len(Append(s, e)) = Len(s) + 1 /\ Append(s, e)[Len(s) + 1] = e
         /\ \A n \in 1..Len(s) : Append(s, e)[n] = s[n]
  OBVIOUS

(* The last element that was read. *)
LEMMA LastRead ==
  ASSUME NEW S, NEW s \in Seq(S), s # <<>>
  PROVE  Len(s) \in Nat \ {0} /\ Last(s) = s[Len(s)] /\ s[Len(s)] \in S
<1>1. Len(s) \in Nat /\ Len(s) # 0
  OBVIOUS
<1>2. Len(s) \in 1..Len(s)
  BY <1>1
<1> QED
  BY <1>1, <1>2 DEF Last

-----------------------------------------------------------------------------
(* Types.                                                                  *)

(* Every step keeps the types. *)
LEMMA TypesKept == TypeOK /\ [Next]_vars => TypeOK'
<1> SUFFICES ASSUME TypeOK, [Next]_vars PROVE TypeOK'
  OBVIOUS
<1>0. Len(Template) \in Nat \ {0} /\ Len(checked) \in Nat /\ Len(output) \in Nat
  BY Templates DEF TypeOK
<1> USE DEF Active
<1>1. CASE Begin
  BY <1>1, <1>0 DEF TypeOK, Begin, StartCheck
<1>2. CASE AfterPreflight \/ ValidateSource \/ GiveUp \/ Verify
  BY <1>2 DEF TypeOK, AfterPreflight, ValidateSource, GiveUp, Verify
<1>3. CASE ReadDefinition
  <2>1. Len(output) + 1 \in 1..Len(Template)
    BY <1>3, <1>0 DEF ReadDefinition
  <2>2. definitions[Template[Len(output) + 1]] \in Content
    BY <2>1, Templates DEF TypeOK
  <2>3. output' \in Seq(Content) /\ Len(output') <= Len(Template)
    <3> DEFINE c == definitions[Template[Len(output) + 1]]
    <3> HIDE DEF c
    <3>1. c \in Content /\ output' \in {output, Append(output, c)}
      BY <1>3, <2>2 DEF ReadDefinition, c
    <3>2. Append(output, c) \in Seq(Content) /\ Len(Append(output, c)) = Len(output) + 1
      BY <3>1, Appended DEF TypeOK
    <3> QED
      BY <3>1, <3>2, <2>1, <1>0 DEF TypeOK
  <2> QED
    BY <1>3, <2>3 DEF TypeOK, ReadDefinition
<1>4. CASE \E f \in File : Write(f)
  <2> PICK f \in File : Write(f)
    BY <1>4
  <2> QED
    BY DEF TypeOK, Write
<1>5. CASE Check /\ UNCHANGED build
  <2>1. CASE Visit
    <3>1. Len(checked) + 1 \in 1..Len(Template)
      BY <2>1, <1>0 DEF Visit
    <3>2. definitions[Template[Len(checked) + 1]] \in Content
      BY <3>1, Templates DEF TypeOK
    <3>3. checked' \in Seq(Content) /\ Len(checked') <= Len(Template)
      BY <2>1, <1>0, <3>2, <3>1 DEF TypeOK, Visit
    <3> QED
      BY <1>5, <2>1, <3>3 DEF TypeOK, Visit, Fails
  <2>2. CASE Answer
    BY <1>5, <2>2 DEF TypeOK, Answer, IndexServed, ManifestServed, Unauthorized, Fails
  <2>3. CASE Token
    BY <1>5, <2>3 DEF TypeOK, Token, Fails
  <2>4. CASE Conclude
    BY <1>5, <2>4 DEF TypeOK, Conclude
  <2>5. CASE \E p \in Platform : Compare(p)
    BY <1>5, <2>5 DEF TypeOK, Compare, Fails
  <2> QED
    BY <1>5, <2>1, <2>2, <2>3, <2>4, <2>5 DEF Check
<1>6. CASE Change /\ UNCHANGED build
  BY <1>6 DEF TypeOK, Change
<1>7. CASE Save /\ UNCHANGED build
  BY <1>7 DEF TypeOK, Save
<1>8. CASE UNCHANGED vars
  BY <1>8 DEF TypeOK, vars
<1> QED
  BY <1>1, <1>2, <1>3, <1>4, <1>5, <1>6, <1>7, <1>8 DEF Next
-----------------------------------------------------------------------------
(* What the registry held.                                                 *)

(* Published, of what is known at some moment. *)
Held(N, E, t, c) ==
  \E i \in Index : <<t, i>> \in N /\ c.pins = Names[i] /\ \A p \in Platform : c.pins[p] \in E

LEMMA PublishedIsHeld == \A t, c : Published(t, c) <=> Held(named, existed, t, c)
  BY DEF Published, Held

(* What was published stays so, as more becomes known. *)
LEMMA HeldStays ==
  ASSUME NEW N, NEW E, NEW M, NEW F, N \subseteq M, E \subseteq F
  PROVE  \A t, c : Held(N, E, t, c) => Held(M, F, t, c)
  BY DEF Held

(* Of the platforms not in todo, the index has the declared digest, and    *)
(* the manifest was there.                                                 *)
Compared ==
  \A p \in Platform \ todo : Names[index][p] = Declared.pins[p] /\ Declared.pins[p] \in existed

(* The template that is being checked.                                     *)
Checking ==
  stage # "next" =>
    /\ verdict = "none" /\ checked # <<>>
    /\ stage = "compare" \/ wanted # "index" =>
         /\ index \in Index /\ <<Current, index>> \in named /\ Compared
    /\ stage # "compare" /\ wanted # "index" =>
         Names[index][wanted] = Declared.pins[wanted]
    /\ stage # "compare" /\ wanted = "index" => todo = Platform

(* What is known of those before.                                          *)
Settled ==
  \A n \in 1..Len(checked) :
    checked[n].source = "oci" =>
      \/ Template[n] \in failures
      \/ Held(named, existed, Template[n], checked[n])
      \/ stage # "next" /\ n = Len(checked)
      \/ verdict = "error"

Verdicts ==
  /\ verdict \in {"failed", "passed"} => Len(checked) = Len(Template)
  /\ verdict = "passed" => failures = {} /\ stage = "next"

Observed ==
  phase = "preflight" =>
    /\ stored \subseteq existed
    /\ \A t \in ToSet(Template) : <<t, tags[t]>> \in named

PreflightInv == Checking /\ Settled /\ Verdicts /\ Observed

(* A step of the check itself. *)
LEMMA CheckKept ==
  ASSUME TypeOK, TypeOK', PreflightInv, phase = "preflight", Check, UNCHANGED build
  PROVE  PreflightInv'
<1>0. /\ Len(checked) \in Nat /\ UNCHANGED <<disk, registry>>
      /\ \A n \in 1..Len(checked) : checked[n] \in Content
  BY DEF TypeOK, Check, Visit, Answer, Token, Conclude, Compare
<1>a. Observed'
  BY <1>0 DEF PreflightInv, Observed
<1>b. ASSUME checked # <<>>
      PROVE  /\ Current \in ToSet(Template) /\ Current = Template[Len(checked)]
             /\ Declared = checked[Len(checked)] /\ Declared \in Content
  BY <1>b, LastRead, Templates DEF TypeOK, Current, Declared
(* The three ways a request ends. *)
<1>c. ASSUME stage # "next", Fails(Current), UNCHANGED checked
      PROVE  (Checking /\ Settled /\ Verdicts)'
  BY <1>c, <1>0, <1>b DEF Fails, PreflightInv, Checking, Settled, Verdicts
<1>d. ASSUME stage # "next", stage' \in {"token", "retry"}, stage # "compare", UNCHANGED <<request, failures, verdict, checked>>
      PROVE  (Checking /\ Settled /\ Verdicts)'
  BY <1>d, <1>0 DEF PreflightInv, Checking, Settled, Verdicts, Compared, Current, Declared
<1>1. CASE Visit
  <2> DEFINE t == Template[Len(checked) + 1]
             c == definitions[t]
  <2>1. stage = "next" /\ verdict = "none" /\ Len(checked) + 1 \in 1..Len(Template)
    BY <1>1, <1>0, Templates DEF Visit
  <2>2. t \in ToSet(Template) /\ c \in Content
    BY <2>1, Templates DEF TypeOK
  <2>3. checked' = Append(checked, c)
    BY <1>1 DEF Visit
  <2> HIDE DEF c
  <2>4. /\ Len(checked') = Len(checked) + 1 /\ checked'[Len(checked) + 1] = c /\ checked' # <<>>
        /\ \A n \in 1..Len(checked) : checked'[n] = checked[n]
    BY <2>2, <2>3, Appended DEF TypeOK
  <2>5. failures \subseteq failures' /\ (verdict' = "none" \/ verdict' = "error")
    BY <1>1, <2>1 DEF Visit, Fails
  <2>6. c.source = "oci" => t \in failures' \/ stage' # "next" \/ verdict' = "error"
    BY <1>1 DEF Visit, Fails, c
  <2>7. stage' # "next" => stage' = "plain" /\ wanted' = "index" /\ todo' = Platform /\ verdict' = "none"
    BY <1>1, <2>1 DEF Visit, Fails
  <2>8. Settled'
    BY <2>1, <2>4, <2>5, <2>6, <1>0 DEF PreflightInv, Settled
  <2>9. Checking' /\ Verdicts'
    BY <2>4, <2>5, <2>7 DEF Checking, Verdicts
  <2> QED
    BY <2>8, <2>9, <1>a DEF PreflightInv
<1>2. CASE Answer
  <2>1. stage \in {"plain", "retry"} /\ UNCHANGED checked
    BY <1>2 DEF Answer
  <2>2. checked # <<>> /\ verdict = "none"
    BY <2>1 DEF PreflightInv, Checking
  <2>3. CASE Exists /\ wanted = "index" /\ IndexServed
    <3>1. tags[Current] \in Index /\ <<Current, tags[Current]>> \in named
      BY <2>2, <2>3, <1>b DEF Exists, TypeOK, PreflightInv, Observed
    <3>2. /\ index' = tags[Current] /\ stage' = "compare" /\ todo = Platform
          /\ UNCHANGED <<wanted, todo, failures, verdict>>
      BY <2>1, <2>3 DEF IndexServed, PreflightInv, Checking
    <3>3. Checking'
      BY <2>1, <2>2, <3>1, <3>2, <1>0, <2>3 DEF Checking, Compared, Current
    <3>4. Settled' /\ Verdicts'
      BY <2>1, <2>2, <3>2, <1>0 DEF PreflightInv, Settled, Verdicts
    <3> QED
      BY <3>3, <3>4, <1>a DEF PreflightInv
  <2>4. CASE Exists /\ wanted # "index" /\ ManifestServed
    <3>1. /\ index \in Index /\ <<Current, index>> \in named /\ Compared
          /\ Names[index][wanted] = Declared.pins[wanted]
          /\ Declared.pins[wanted] \in existed
      BY <2>1, <2>4 DEF Exists, PreflightInv, Checking, Observed
    <3>2. todo' = todo \ {wanted} /\ UNCHANGED <<wanted, index, failures, verdict>>
      BY <2>4 DEF ManifestServed
    <3>3. Compared'
      BY <3>1, <3>2, <2>1, <1>0 DEF Compared, Declared
    <3>4. CASE todo' # {}
      <4>1. stage' = "compare"
        BY <2>4, <3>4 DEF ManifestServed
      <4>2. Checking'
        BY <2>1, <2>2, <3>1, <3>2, <3>3, <4>1, <1>0 DEF Checking, Current
      <4>3. Settled' /\ Verdicts'
        BY <2>1, <2>2, <3>2, <4>1, <1>0 DEF PreflightInv, Settled, Verdicts
      <4> QED
        BY <4>2, <4>3, <1>a DEF PreflightInv
    <3>5. CASE todo' = {}
      <4>1. stage' = "next"
        BY <2>4, <3>5 DEF ManifestServed
      <4>2. \A p \in Platform : Names[index][p] = Declared.pins[p] /\ Declared.pins[p] \in existed
        BY <3>3, <3>5, <3>2, <2>1, <1>0 DEF Compared, Declared
      <4>3. Declared.pins = Names[index]
        <5>1. Declared.pins \in [Platform -> Digest] /\ Names[index] \in [Platform -> Digest]
          BY <1>b, <2>2, <3>1, TemplateAssumption DEF Definition
        <5> QED
          BY <5>1, <4>2
      <4>4. Held(named, existed, Template[Len(checked)], checked[Len(checked)])
        BY <3>1, <4>2, <4>3, <1>b, <2>2 DEF Held
      <4>5. Settled'
        BY <2>1, <3>2, <4>1, <4>4, <1>0 DEF PreflightInv, Settled
      <4>6. Checking' /\ Verdicts'
        BY <2>1, <2>2, <3>2, <4>1 DEF Checking, Verdicts
      <4> QED
        BY <4>5, <4>6, <1>a DEF PreflightInv
    <3> QED
      BY <3>4, <3>5
  <2>5. CASE Unauthorized
    BY <2>1, <2>5, <1>a, <1>d DEF Unauthorized, PreflightInv
  <2>6. CASE Fails(Current)
    BY <2>1, <2>6, <1>a, <1>c DEF PreflightInv
  <2> QED
    BY <1>2, <2>3, <2>4, <2>5, <2>6 DEF Answer
<1>3. CASE Token
  <2>1. stage # "next" /\ stage # "compare" /\ UNCHANGED checked
    BY <1>3 DEF Token
  <2> QED
    BY <1>3, <2>1, <1>a, <1>c, <1>d DEF Token, PreflightInv
<1>4. CASE Conclude
  BY <1>4, <1>0, <1>a DEF Conclude, PreflightInv, Checking, Settled, Verdicts
<1>5. CASE \E p \in Platform : Compare(p)
  <2> PICK p \in Platform : Compare(p)
    BY <1>5
  <2>1. stage = "compare" /\ UNCHANGED checked
    BY DEF Compare
  <2>2. CASE Fails(Current)
    BY <2>1, <2>2, <1>a, <1>c DEF PreflightInv
  <2>3. CASE /\ Names[index][p] = Declared.pins[p] /\ wanted' = p /\ stage' = "plain"
             /\ UNCHANGED <<index, todo, failures, verdict>>
    <3>1. p # "index" /\ stage' # "compare" /\ stage' # "next"
      BY <2>3, TemplateAssumption
    <3>2. Compared' /\ Current' = Current /\ Declared' = Declared
      BY <2>1, <2>3, <1>0 DEF PreflightInv, Checking, Compared, Current, Declared
    <3>3. Checking'
      BY <2>1, <2>3, <3>1, <3>2, <1>0 DEF PreflightInv, Checking
    <3>4. Settled' /\ Verdicts'
      BY <2>1, <2>3, <3>1, <1>0 DEF PreflightInv, Checking, Settled, Verdicts
    <3> QED
      BY <3>3, <3>4, <1>a DEF PreflightInv
  <2> QED
    BY <2>2, <2>3 DEF Compare
<1> QED
  BY <1>1, <1>2, <1>3, <1>4, <1>5 DEF Check
-----------------------------------------------------------------------------
(* The commands.                                                           *)

(* What was read of a definition is on disk, unless somebody saved it.     *)
Sources ==
  /\ \A n \in 1..Len(checked) : checked[n] = definitions[Template[n]] \/ Template[n] \in saved
  /\ \A n \in 1..Len(output) : output[n] = definitions[Template[n]] \/ Template[n] \in saved

Flow ==
  /\ phase \in Active => runs > 0
  /\ phase = "preflight" => output = <<>>
  /\ phase = "validate" => output # <<>>
  /\ registryFlag /\ phase \in {"read", "validate", "ok"} /\ runs > 0 => verdict = "passed"

(* All definitions of the bundle but the one just read passed.             *)
Validated ==
  phase \in {"read", "validate", "ok"} =>
    \A n \in 1..Len(output) :
      \/ output[n].fault \notin {"json", "source"} \/ Template[n] \in saved
      \/ phase = "validate" /\ n = Len(output)

Written ==
  /\ phase \in Active /\ unwritten # File => Generated
  /\ phase \in Active => \A f \in File \ unwritten : dist[f] = output
  /\ phase = "ok" /\ runs > 0 /\ output # <<>> => \A f \in File : dist[f] = output

IInv == TypeOK /\ PreflightInv /\ Sources /\ Flow /\ Validated /\ Written

LEMMA InitInv == Init => IInv
<1> SUFFICES ASSUME Init PROVE IInv
  OBVIOUS
<1> USE DEF Init, InitCheck
<1>1. TypeOK
  BY Templates DEF TypeOK, Active
<1>2. PreflightInv
  BY DEF PreflightInv, Checking, Settled, Verdicts, Observed
<1>3. Sources /\ Flow /\ Validated /\ Written
  BY DEF Sources, Flow, Validated, Written, Active
<1> QED
  BY <1>1, <1>2, <1>3 DEF IInv

(* Nothing the check knows changes in a phase of the generator. *)
LEMMA OtherKept ==
  ASSUME TypeOK, PreflightInv, UNCHANGED <<registry, check>>, phase' # "preflight"
  PROVE  PreflightInv'
  BY DEF PreflightInv, Checking, Compared, Current, Declared, Settled, Verdicts, Observed

(* Every step keeps the invariant. *)
LEMMA StepInv == IInv /\ [Next]_vars => IInv'
<1> SUFFICES ASSUME IInv, [Next]_vars PROVE IInv'
  OBVIOUS
<1>0. /\ TypeOK /\ TypeOK' /\ PreflightInv /\ Sources /\ Flow /\ Validated /\ Written
      /\ Len(Template) \in Nat \ {0} /\ Len(checked) \in Nat /\ Len(output) \in Nat
  BY TypesKept, Templates DEF IInv, TypeOK
<1>1. CASE Begin
  <2>1. PreflightInv'
    BY <1>1, <1>0 DEF Begin, StartCheck, PreflightInv, Checking, Settled, Verdicts, Observed
  <2>2. (Sources /\ Flow /\ Validated /\ Written)'
    BY <1>1, <1>0 DEF Begin, StartCheck, TypeOK, Sources, Flow, Validated, Written, Active
  <2> QED
    BY <2>1, <2>2, <1>0 DEF IInv
<1>2. CASE AfterPreflight
  <2>1. PreflightInv'
    BY <1>2, <1>0, OtherKept DEF AfterPreflight
  <2>2. (Sources /\ Flow /\ Validated /\ Written)'
    BY <1>2, <1>0 DEF AfterPreflight, TypeOK, Sources, Flow, Validated, Written, Active, Generated
  <2> QED
    BY <2>1, <2>2, <1>0 DEF IInv
<1>3. CASE ReadDefinition
  <2>1. PreflightInv'
    BY <1>3, <1>0, OtherKept DEF ReadDefinition
  <2> DEFINE t == Template[Len(output) + 1]
             c == definitions[t]
  <2>2. t \in ToSet(Template) /\ c \in Content /\ Len(output) # Len(Template)
    BY <1>3, <1>0, Templates DEF ReadDefinition, TypeOK
  <2>3. CASE phase' = "failed" /\ UNCHANGED output
    BY <1>3, <2>1, <2>3, <1>0 DEF ReadDefinition, IInv, Sources, Flow, Validated, Written, Active
  <2>4. CASE phase' = "validate" /\ output' = Append(output, c)
    <3>1. UNCHANGED <<disk, checked, unwritten, dist, registryFlag, runs, verdict>> /\ phase = "read"
      BY <1>3 DEF ReadDefinition
    <3>2. definitions[t] = c
      OBVIOUS
    <3> HIDE DEF c, t
    <3>3. /\ Len(output') = Len(output) + 1 /\ output'[Len(output) + 1] = c /\ output' # <<>>
          /\ \A n \in 1..Len(output) : output'[n] = output[n]
      <4>1. output \in Seq(Content) /\ c \in Content
        BY <2>2, <1>0 DEF TypeOK
      <4> QED
        BY <4>1, <2>4, Appended
    <3>4. Sources'
      BY <3>1, <3>2, <3>3, <1>0 DEF Sources, t
    <3>5. Flow' /\ Validated'
      BY <3>1, <3>3, <2>4, <1>0 DEF Flow, Validated, Active
    <3>6. unwritten = File
      BY <3>1, <2>2, <1>0 DEF Written, Generated, Active
    <3>7. Written'
      BY <3>1, <3>6, <2>4 DEF Written
    <3> QED
      BY <3>4, <3>5, <3>7, <2>1, <1>0 DEF IInv
  <2> QED
    BY <1>3, <2>3, <2>4 DEF ReadDefinition
<1>4. CASE ValidateSource
  <2>1. PreflightInv'
    BY <1>4, <1>0, OtherKept DEF ValidateSource
  <2>2. output[Len(output)] = definitions[Generating] \/ Template[Len(output)] \in saved
    BY <1>4, <1>0 DEF ValidateSource, Sources, Flow, TypeOK, Generating
  <2>3. Validated'
    BY <1>4, <2>2, <1>0 DEF ValidateSource, Validated, Generating
  <2>4. (Sources /\ Flow /\ Written)'
    BY <1>4, <1>0 DEF ValidateSource, Sources, Flow, Written, Active, Generated
  <2> QED
    BY <2>1, <2>3, <2>4, <1>0 DEF IInv
<1>5. CASE GiveUp
  BY <1>5, <1>0, OtherKept DEF GiveUp, IInv, Sources, Flow, Validated, Written, Active
<1>6. CASE Verify
  BY <1>6, <1>0, OtherKept DEF Verify, IInv, Sources, Flow, Validated, Written, Active, Generated
<1>7. CASE \E f \in File : Write(f)
  <2> PICK f \in File : Write(f)
    BY <1>7
  <2>1. PreflightInv'
    BY <1>0, OtherKept DEF Write, Generated
  <2>2. (Sources /\ Flow /\ Validated)'
    BY <1>0 DEF Write, Generated, Sources, Flow, Validated, Active
  <2>3. Written'
    BY <1>0 DEF Write, Generated, Written, Active, TypeOK
  <2> QED
    BY <2>1, <2>2, <2>3, <1>0 DEF IInv
<1>8. CASE phase = "preflight" /\ Check /\ UNCHANGED build
  <2>1. PreflightInv'
    BY <1>8, <1>0, CheckKept
  <2>2. Flow' /\ Validated' /\ Written'
    BY <1>8, <1>0 DEF Flow, Validated, Written, Active, Generated
  <2>3. Sources'
    <3>1. UNCHANGED <<disk, output>>
      BY <1>8 DEF Check, Visit, Answer, Token, Conclude, Compare
    <3>2. CASE Visit
      <4> DEFINE c == definitions[Template[Len(checked) + 1]]
      <4>1. Len(checked) + 1 \in 1..Len(Template) /\ checked' = Append(checked, c)
        BY <3>2, <1>0 DEF Visit
      <4>2. c \in Content /\ definitions[Template[Len(checked) + 1]] = c
        BY <4>1, Templates, <1>0 DEF TypeOK
      <4> HIDE DEF c
      <4>3. /\ Len(checked') = Len(checked) + 1 /\ checked'[Len(checked) + 1] = c
            /\ \A n \in 1..Len(checked) : checked'[n] = checked[n]
        BY <4>1, <4>2, <1>0, Appended DEF TypeOK
      <4> QED
        BY <3>1, <4>2, <4>3, <1>0 DEF Sources
    <3>3. CASE UNCHANGED checked
      BY <3>1, <3>3, <1>0 DEF Sources
    <3> QED
      BY <1>8, <3>2, <3>3 DEF Check, Answer, Token, Conclude, Compare
  <2> QED
    BY <2>1, <2>2, <2>3, <1>0 DEF IInv
<1>9. CASE phase = "preflight" /\ Change /\ UNCHANGED build
  <2>1. /\ named \subseteq named' /\ existed \subseteq existed' /\ UNCHANGED <<disk, check>>
        /\ Observed'
    BY <1>9, <1>0 DEF Change, PreflightInv, Observed, TypeOK
  <2>2. Settled'
    <3>1. \A t, c : Held(named, existed, t, c) => Held(named', existed', t, c)
      BY <2>1, HeldStays
    <3> QED
      BY <2>1, <3>1, <1>0 DEF PreflightInv, Settled
  <2>3. Checking' /\ Verdicts'
    BY <2>1, <1>0 DEF PreflightInv, Checking, Compared, Current, Declared, Verdicts
  <2>4. (Sources /\ Flow /\ Validated /\ Written)'
    BY <1>9, <2>1, <1>0 DEF Sources, Flow, Validated, Written, Active, Generated
  <2> QED
    BY <2>1, <2>2, <2>3, <2>4, <1>0 DEF IInv, PreflightInv
<1>10. CASE phase \notin {"ok", "failed"} /\ Save /\ UNCHANGED build
  <2>1. PreflightInv'
    BY <1>10, <1>0 DEF Save, PreflightInv, Checking, Compared, Current, Declared, Settled, Verdicts, Observed
  <2>2. PICK t \in ToSet(Template), c \in Content :
          definitions' = [definitions EXCEPT ![t] = c] /\ saved' = saved \cup {t}
    BY <1>10 DEF Save
  <2>3. \A u \in ToSet(Template) : definitions'[u] = definitions[u] \/ u \in saved'
    BY <2>2, <1>0 DEF TypeOK
  <2>4. UNCHANGED <<checked, output, phase, unwritten, dist, registryFlag, runs, verdict>> /\ saved \subseteq saved'
    BY <1>10, <2>2 DEF Save
  <2>5. Sources'
    BY <2>3, <2>4, <1>0, Templates DEF Sources, TypeOK
  <2>6. (Flow /\ Validated /\ Written)'
    BY <2>4, <1>0 DEF Flow, Validated, Written, Active, Generated
  <2> QED
    BY <2>1, <2>5, <2>6, <1>0 DEF IInv
<1>11. CASE UNCHANGED vars
  <2>1. PreflightInv'
    BY <1>11, <1>0 DEF vars, PreflightInv, Checking, Compared, Current, Declared, Settled, Verdicts, Observed
  <2>2. (Sources /\ Flow /\ Validated /\ Written)'
    BY <1>11, <1>0 DEF vars, Sources, Flow, Validated, Written, Generated
  <2> QED
    BY <2>1, <2>2, <1>0 DEF IInv
<1> QED
  BY <1>1, <1>2, <1>3, <1>4, <1>5, <1>6, <1>7, <1>8, <1>9, <1>10, <1>11 DEF Next
-----------------------------------------------------------------------------
(* The number of requests.                                                 *)

(* What one template may cost, and what n may.                             *)
Cost == 3 * (1 + Cardinality(Platform))
Allowed(n) == Cost * n

(* The requests for the current template: three for each manifest that is  *)
(* no longer in todo, three for the index, and those for the one that is   *)
(* being asked for.                                                        *)
Position == CASE stage = "token" -> 1 [] stage = "retry" -> 2 [] OTHER -> 0
Spent ==
  IF wanted = "index" /\ stage # "compare" THEN Position
  ELSE 3 + 3 * (Cardinality(Platform) - Cardinality(todo)) + Position

Budget ==
  /\ stage = "next" => requests <= Allowed(Len(checked))
  /\ stage # "next" => requests <= Allowed(Len(checked) - 1) + Spent
  /\ stage \notin {"next", "compare"} /\ wanted # "index" => wanted \in todo

LEMMA Allowance ==
  /\ Cost \in Nat /\ Cardinality(Platform) \in Nat /\ Cost = 3 + 3 * Cardinality(Platform)
  /\ \A n \in Nat : Allowed(n) \in Nat /\ Allowed(n + 1) = Allowed(n) + Cost
  /\ \A n, m \in Nat : n <= m => Allowed(n) <= Allowed(m)
<1>1. Cardinality(Platform) \in Nat
  BY TemplateAssumption, FS_CardinalityType
<1>2. Cost \in Nat /\ Cost = 3 + 3 * Cardinality(Platform)
  BY <1>1 DEF Cost
<1>3. \A n \in Nat : Allowed(n) \in Nat /\ Allowed(n + 1) = Allowed(n) + Cost
  BY <1>2 DEF Allowed
<1>4. ASSUME NEW n \in Nat, NEW m \in Nat, n <= m PROVE Allowed(n) <= Allowed(m)
  <2>1. Cost * (m - n) \in Nat /\ Cost * m = Cost * n + Cost * (m - n)
    BY <1>4, <1>2
  <2> QED
    BY <2>1, <1>2 DEF Allowed
<1> QED
  BY <1>1, <1>2, <1>3, <1>4

(* How many manifests are left, before and after one of them. *)
LEMMA Remaining ==
  ASSUME NEW D, D \subseteq Platform
  PROVE  /\ Cardinality(D) \in Nat /\ Cardinality(D) <= Cardinality(Platform)
         /\ \A p \in D : Cardinality(D \ {p}) = Cardinality(D) - 1 /\ Cardinality(D) >= 1
<1>1. IsFiniteSet(D) /\ Cardinality(D) <= Cardinality(Platform) /\ Cardinality(D) \in Nat
  BY TemplateAssumption, FS_Subset, FS_CardinalityType
<1>2. ASSUME NEW p \in D PROVE Cardinality(D \ {p}) = Cardinality(D) - 1 /\ Cardinality(D) >= 1
  <2>1. Cardinality(D \ {p}) = Cardinality(D) - 1
    BY <1>1, FS_RemoveElement
  <2>2. Cardinality(D \ {p}) \in Nat
    BY <1>1, FS_RemoveElement, FS_CardinalityType
  <2> QED
    BY <2>1, <2>2, <1>1
<1> QED
  BY <1>1, <1>2

(* The arithmetic of it: A was allowed before the current template, P       *)
(* platforms are declared, T of them left, q requests sent, i for this one. *)
LEMMA Sums ==
  ASSUME NEW A \in Nat, NEW P \in Nat, NEW T \in Nat, NEW q \in Nat, NEW i \in 0..2
  PROVE  /\ q <= A + i => q + 1 <= A + 3 + 3 * P /\ q + 1 <= A + (i + 1)
         /\ q <= A + (3 + 3 * (P - T) + i) /\ T >= 1 => q + 1 <= A + 3 + 3 * P
         /\ q <= A + (3 + 3 * (P - T) + i) => q + 1 <= A + (3 + 3 * (P - T) + (i + 1))
  OBVIOUS

LEMMA SumsServed ==
  ASSUME NEW A \in Nat, NEW P \in Nat, NEW T \in Nat, NEW q \in Nat, NEW i \in 0..2, T <= P
  PROVE  /\ q <= A + i => q + 1 <= A + (3 + 3 * (P - T))
         /\ q <= A + (3 + 3 * (P - T) + i) => q + 1 <= A + (3 + 3 * (P - (T - 1)))
         /\ q <= A + (3 + 3 * (P - T)) => q <= A + 3 + 3 * P
  OBVIOUS

(* The check keeps to its budget. *)
LEMMA BudgetKept ==
  ASSUME TypeOK, TypeOK', PreflightInv, Budget, Check
  PROVE  Budget'
<1>0. /\ Len(checked) \in Nat /\ requests \in Nat /\ todo \subseteq Platform
      /\ stage # "next" => Len(checked) - 1 \in Nat
  BY LastRead DEF TypeOK, PreflightInv, Checking
<1>1. CASE Visit
  <2>1. Len(checked') = Len(checked) + 1
    <3>1. Len(checked) + 1 \in 1..Len(Template)
      BY <1>1, <1>0, Templates DEF Visit
    <3> QED
      BY <1>1, <3>1, <1>0, Templates, Appended DEF Visit, TypeOK
  <2>2. requests <= Allowed(Len(checked)) /\ requests' = requests
    BY <1>1 DEF Visit, Budget
  <2>3. stage' = "next" \/ (stage' = "plain" /\ wanted' = "index")
    BY <1>1 DEF Visit, Fails
  <2>4. Len(checked') - 1 = Len(checked)
    BY <2>1, <1>0
  <2>5. requests' <= Allowed(Len(checked') - 1)
    BY <2>4, <2>2
  <2>6. requests' <= Allowed(Len(checked'))
    <3> DEFINE n == Len(checked)
    <3>1. n \in Nat /\ Len(checked') = n + 1 /\ requests' <= Allowed(n) /\ requests' \in Nat
      BY <2>1, <2>2, <1>0
    <3> HIDE DEF n
    <3>2. Allowed(n) \in Nat /\ Allowed(n + 1) = Allowed(n) + Cost /\ Cost \in Nat
      BY <3>1, Allowance
    <3>3. requests' <= Allowed(n) + Cost
      BY <3>1, <3>2
    <3> QED
      BY <3>1, <3>2, <3>3
  <2>7. CASE stage' = "next"
    BY <2>7, <2>6 DEF Budget
  <2>8. CASE stage' = "plain" /\ wanted' = "index"
    <3>1. Spent' = 0
      BY <2>8 DEF Spent, Position
    <3>2. Allowed(Len(checked)) \in Nat
      BY <1>0, Allowance
    <3>3. requests' <= Allowed(Len(checked') - 1) + Spent'
      BY <3>1, <3>2, <2>4, <2>5
    <3> QED
      BY <2>8, <3>3 DEF Budget
  <2> QED
    BY <2>3, <2>7, <2>8
<1> DEFINE A == Allowed(Len(checked) - 1)
           P == Cardinality(Platform)
           T == Cardinality(todo)
<1>2. /\ P \in Nat /\ T \in Nat /\ T <= P
      /\ \A p \in todo : Cardinality(todo \ {p}) = T - 1 /\ T >= 1
  BY Allowance, Remaining, <1>0
<1>3. ASSUME stage # "next" PROVE A \in Nat /\ Allowed(Len(checked)) = A + 3 + 3 * P
  <2> DEFINE n == Len(checked) - 1
  <2>1. n \in Nat /\ Len(checked) = n + 1
    BY <1>3, <1>0
  <2> HIDE DEF n
  <2>2. Allowed(n) \in Nat /\ Allowed(n + 1) = Allowed(n) + Cost
    BY <2>1, Allowance
  <2>3. Cost \in Nat /\ Cost = 3 + 3 * P
    BY Allowance
  <2>4. Allowed(Len(checked)) = Allowed(n) + 3 + 3 * P
    BY <2>1, <2>2, <2>3, <1>2
  <2> QED
    BY <2>2, <2>4 DEF n
<1>4. ASSUME UNCHANGED checked
      PROVE  Allowed(Len(checked') - 1) = A /\ Allowed(Len(checked')) = Allowed(Len(checked))
  BY <1>4
<1>5. ASSUME stage # "next" PROVE requests <= A + Spent
  BY <1>5 DEF Budget
<1> HIDE DEF A, P, T
<1>6. CASE Answer \/ Token
  <2>1. stage \in {"plain", "token", "retry"} /\ requests' = requests + 1 /\ UNCHANGED checked
    BY <1>6 DEF Answer, Token
  <2>2. /\ A \in Nat /\ Allowed(Len(checked)) = A + 3 + 3 * P /\ requests <= A + Spent
        /\ Position \in 0..2
        /\ wanted # "index" => wanted \in todo
    BY <2>1, <1>3, <1>5 DEF Position, Budget
  <2>3. Spent = IF wanted = "index" THEN Position ELSE 3 + 3 * (P - T) + Position
    BY <2>1 DEF Spent, P, T
  <2>4. wanted # "index" => T >= 1
    BY <2>2, <1>2
  <2> DEFINE i == Position
  <2>5. i \in 0..2 /\ Spent = IF wanted = "index" THEN i ELSE 3 + 3 * (P - T) + i
    BY <2>2, <2>3
  <2> HIDE DEF i
  <2>6. requests' <= A + 3 + 3 * P
    BY <2>1, <2>2, <2>4, <2>5, <1>0, <1>2, Sums
  <2>7. CASE stage' = "next"
    <3>1. requests' <= Allowed(Len(checked'))
      BY <2>1, <2>2, <2>6, <1>4
    <3> QED
      BY <2>7, <3>1 DEF Budget
  <2>8. CASE /\ UNCHANGED <<wanted, todo>>
             /\ \/ stage = "plain" /\ stage' = "token"
                \/ stage = "token" /\ stage' = "retry"
    <3>1. Position' = i + 1
      BY <2>8 DEF Position, i
    <3>2. Spent' = IF wanted = "index" THEN i + 1 ELSE 3 + 3 * (P - T) + (i + 1)
      BY <2>8, <3>1 DEF Spent, P, T
    <3>3. requests' <= A + Spent'
      BY <3>2, <2>1, <2>2, <2>5, <1>0, <1>2, Sums
    <3> QED
      BY <2>1, <2>2, <2>8, <3>3, <1>4 DEF Budget
  <2>9. CASE wanted = "index" /\ IndexServed
    <3>1. stage' = "compare" /\ UNCHANGED <<wanted, todo>>
      BY <2>9 DEF IndexServed
    <3>2. Position' = 0 /\ Spent' = 3 + 3 * (P - T) + Position'
      BY <3>1 DEF Spent, Position, P, T
    <3>3. requests' <= A + Spent'
      BY <3>2, <2>1, <2>2, <2>5, <2>9, <1>0, <1>2, SumsServed
    <3> QED
      BY <2>1, <3>1, <3>3, <1>4 DEF Budget
  <2>10. CASE wanted # "index" /\ ManifestServed /\ stage' # "next"
    <3>1. stage' = "compare" /\ todo' = todo \ {wanted} /\ UNCHANGED wanted
      BY <2>10 DEF ManifestServed
    <3>2. Cardinality(todo') = T - 1
      BY <3>1, <2>2, <2>10, <1>2
    <3>3. Position' = 0 /\ Spent' = 3 + 3 * (P - (T - 1)) + Position'
      BY <3>1, <3>2 DEF Spent, Position, P
    <3>4. requests' <= A + Spent'
      BY <3>3, <2>1, <2>2, <2>5, <2>10, <1>0, <1>2, SumsServed
    <3> QED
      BY <2>1, <3>1, <3>4, <1>4 DEF Budget
  <2>11. CASE Fails(Current)
    BY <2>11, <2>7 DEF Fails
  <2>12. CASE Answer
    <3>1. CASE Unauthorized
      <4>1. UNCHANGED <<wanted, todo>> /\ stage = "plain" /\ stage' = "token"
        BY <3>1 DEF Unauthorized
      <4> QED
        BY <4>1, <2>8
    <3>2. CASE wanted # "index" /\ ManifestServed
      BY <3>2, <2>7, <2>10
    <3> QED
      BY <2>12, <3>1, <3>2, <2>9, <2>11 DEF Answer
  <2>13. CASE Token
    BY <2>13, <2>8, <2>11 DEF Token
  <2> QED
    BY <1>6, <2>12, <2>13
<1>7. CASE Conclude
  BY <1>7 DEF Conclude, Budget
<1>8. CASE \E p \in Platform : Compare(p)
  <2> PICK p \in Platform : Compare(p)
    BY <1>8
  <2>1. stage = "compare" /\ p \in todo /\ UNCHANGED <<checked, requests>>
    BY DEF Compare
  <2>2. /\ A \in Nat /\ Allowed(Len(checked)) = A + 3 + 3 * P
        /\ Position = 0 /\ Spent = 3 + 3 * (P - T) + Position
    BY <2>1, <1>3 DEF Position, Spent, P, T
  <2>3. requests <= A + (3 + 3 * (P - T)) /\ requests <= A + 3 + 3 * P
    BY <2>1, <2>2, <1>0, <1>2, <1>5, SumsServed
  <2>4. CASE Fails(Current)
    <3>1. stage' = "next" /\ requests' <= Allowed(Len(checked'))
      BY <2>1, <2>2, <2>3, <2>4, <1>4 DEF Fails
    <3> QED
      BY <3>1 DEF Budget
  <2>5. CASE wanted' = p /\ stage' = "plain" /\ UNCHANGED todo
    <3>1. p # "index"
      BY TemplateAssumption
    <3>2. Position' = 0 /\ Spent' = 3 + 3 * (P - T) + Position'
      BY <2>5, <3>1 DEF Spent, Position, P, T
    <3>3. requests' <= A + Spent'
      BY <3>2, <2>1, <2>3, <1>2
    <3> QED
      BY <2>1, <2>5, <3>3, <1>4 DEF Budget
  <2> QED
    BY <2>4, <2>5 DEF Compare
<1> QED
  BY <1>1, <1>6, <1>7, <1>8 DEF Check

-----------------------------------------------------------------------------
(* What holds of every behaviour.                                          *)

(* The budget holds between runs too: only Begin and Check touch it. *)
LEMMA StepBudget == IInv /\ IInv' /\ Budget /\ [Next]_vars => Budget'
<1> SUFFICES ASSUME IInv, IInv', Budget, [Next]_vars PROVE Budget'
  OBVIOUS
<1>1. CASE Begin
  <2>1. stage' = "next" /\ requests' = 0 /\ Len(checked') = 0
    BY <1>1 DEF Begin, StartCheck
  <2>2. Allowed(0) \in Nat
    BY Allowance
  <2> QED
    BY <2>1, <2>2 DEF Budget
<1>2. CASE phase = "preflight" /\ Check /\ UNCHANGED build
  BY <1>2, BudgetKept DEF IInv
<1>3. CASE UNCHANGED check
  BY <1>3 DEF Budget, Spent, Position
<1>4. CASE AfterPreflight \/ ReadDefinition \/ ValidateSource \/ GiveUp \/ Verify
  BY <1>4, <1>3 DEF AfterPreflight, ReadDefinition, ValidateSource, GiveUp, Verify
<1>5. CASE \E f \in File : Write(f)
  BY <1>5, <1>3 DEF Write
<1>6. CASE Change \/ Save \/ UNCHANGED vars
  BY <1>6, <1>3 DEF Change, Save, vars
<1> QED
  BY <1>1, <1>2, <1>4, <1>5, <1>6 DEF Next

LEMMA InitBudget == Init => Budget
<1>1. ASSUME Init PROVE stage = "next" /\ requests = 0 /\ Len(checked) = 0
  BY <1>1 DEF Init, InitCheck
<1>2. Allowed(0) \in Nat
  BY Allowance
<1> QED
  BY <1>1, <1>2 DEF Budget

(* A run stays within three requests for each index and manifest.          *)
LEMMA WithinBudget == IInv /\ Budget => RequestsAreBounded
<1> SUFFICES ASSUME IInv, Budget PROVE requests <= Allowed(Len(Template))
  BY DEF RequestsAreBounded, Allowed, Cost
<1>0. /\ Len(checked) \in Nat /\ Len(Template) \in Nat /\ requests \in Nat
      /\ Len(checked) <= Len(Template) /\ todo \subseteq Platform
  BY Templates DEF IInv, TypeOK
<1>1. CASE stage = "next"
  <2>1. Allowed(Len(checked)) <= Allowed(Len(Template)) /\ Allowed(Len(checked)) \in Nat
        /\ Allowed(Len(Template)) \in Nat
    BY <1>0, Allowance
  <2> QED
    BY <2>1, <1>1, <1>0 DEF Budget
<1>2. CASE stage # "next"
  <2> DEFINE n == Len(checked) - 1
             P == Cardinality(Platform)
             T == Cardinality(todo)
  <2>1. n \in Nat /\ n <= Len(Template) /\ n + 1 <= Len(Template) /\ requests <= Allowed(n) + Spent
    BY <1>2, <1>0, LastRead DEF IInv, TypeOK, PreflightInv, Checking, Budget
  <2>2. P \in Nat /\ T \in Nat /\ T <= P /\ (wanted \in todo => T >= 1)
    BY <1>0, Allowance, Remaining
  <2>3. Position \in 0..2 /\ (stage = "compare" => Position = 0)
    BY DEF Position
  <2>4. \/ Spent = Position
        \/ Spent = 3 + 3 * (P - T) + Position /\ stage = "compare"
        \/ Spent = 3 + 3 * (P - T) + Position /\ wanted \in todo
    BY <1>2 DEF Spent, Budget
  <2> HIDE DEF n, P, T
  <2>5. Spent \in Int /\ Spent <= 3 + 3 * P
    BY <2>2, <2>3, <2>4
  <2>6. Cost = 3 + 3 * P
    BY Allowance DEF P
  <2>7. /\ Allowed(n) \in Nat /\ Allowed(n + 1) = Allowed(n) + Cost
        /\ Allowed(Len(Template)) \in Nat /\ Allowed(n + 1) <= Allowed(Len(Template))
    <3>1. n + 1 \in Nat
      BY <2>1
    <3> QED
      BY <3>1, <2>1, <1>0, Allowance
  <2> QED
    BY <2>1, <2>5, <2>6, <2>7, <2>2, <1>0
<1> QED
  BY <1>1, <1>2

(* What the invariant says of a check that ended. *)
LEMMA Ended ==
  ASSUME IInv, verdict \in {"failed", "passed"}
  PROVE  /\ Len(checked) = Len(Template)
         /\ verdict = "passed" => failures = {}
         /\ \A n \in DOMAIN checked :
              checked[n].source = "oci" =>
                Template[n] \in failures \/ Published(Template[n], checked[n])
<1>1. stage = "next" /\ DOMAIN checked = 1..Len(checked)
  BY DEF IInv, TypeOK, PreflightInv, Checking
<1> QED
  BY <1>1, PublishedIsHeld DEF IInv, PreflightInv, Settled, Verdicts

LEMMA PublishedCatalog == IInv => CatalogWasPublished
<1> SUFFICES ASSUME IInv, Succeeded, registryFlag
             PROVE  LET last == IF output = <<>> THEN checked ELSE output
                    IN \A n \in DOMAIN last :
                         last[n].source = "oci" =>
                           Published(Template[n], last[n]) \/ Template[n] \in saved
  BY DEF CatalogWasPublished
<1>1. verdict = "passed"
  BY DEF Succeeded, IInv, Flow
<1>2. /\ Len(checked) = Len(Template)
      /\ \A n \in DOMAIN checked : checked[n].source = "oci" => Published(Template[n], checked[n])
  BY <1>1, Ended
<1>3. /\ DOMAIN checked = 1..Len(Template) /\ DOMAIN output \subseteq 1..Len(Template)
      /\ DOMAIN output = 1..Len(output)
  BY <1>2, Templates DEF IInv, TypeOK
<1>4. ASSUME NEW n \in DOMAIN output
      PROVE  output[n] = checked[n] \/ Template[n] \in saved
  BY <1>2, <1>3, <1>4 DEF IInv, Sources
<1> QED
  BY <1>2, <1>3, <1>4

LEMMA AllReported == IInv => FailuresAreAllReported
  BY Ended DEF FailuresAreAllReported

LEMMA ValidBundle == IInv => BundleIsValid
<1> SUFFICES ASSUME IInv, Succeeded, NEW n \in DOMAIN output
             PROVE  output[n].fault \notin {"json", "source"} \/ Template[n] \in saved
  BY DEF BundleIsValid
<1>1. n \in 1..Len(output) /\ phase = "ok"
  BY DEF IInv, TypeOK, Succeeded
<1> QED
  BY <1>1 DEF IInv, Validated

LEMMA WholeCatalog == IInv => DistIsOneCatalog
  BY DEF IInv, Written, DistIsOneCatalog, Succeeded

(* The invariant holds: between the readings of one definition, either     *)
(* nothing was saved or the run knows it.                                  *)
THEOREM Invariance == Spec => [](IInv /\ Budget)
<1>1. IInv /\ Budget /\ [Next]_vars => (IInv /\ Budget)'
  BY StepInv, StepBudget
<1> QED
  BY <1>1, InitInv, InitBudget, PTL DEF Spec

(* A command with --check-registry succeeds only with definitions whose    *)
(* images the registry held during the run, whatever it did meanwhile.     *)
THEOREM CatalogPublication == Spec => []CatalogWasPublished
  BY Invariance, PublishedCatalog, PTL

(* A template that fails hides no other: the check goes on to the last.    *)
THEOREM FailureReporting == Spec => []FailuresAreAllReported
  BY Invariance, AllReported, PTL

(* A check never sends more than its three requests for each index and     *)
(* manifest, however often it is challenged and refused.                   *)
THEOREM RequestBound == Spec => []RequestsAreBounded
  BY Invariance, WithinBudget, PTL

(* Everything in a bundle that was written or verified was validated, in   *)
(* the reading that went into it or in one nobody had changed.             *)
THEOREM BundleValidity == Spec => []BundleIsValid
  BY Invariance, ValidBundle, PTL

(* What an interrupted Write leaves in dist/ is never verified, and what a *)
(* command that succeeded leaves is of one output.                         *)
THEOREM OneCatalog == Spec => []DistIsOneCatalog
  BY Invariance, WholeCatalog, PTL
=============================================================================
