----------------------------- MODULE Preflight ------------------------------
(***************************************************************************)
(* Check of internal/registrycheck/check.go: asking the registries whether *)
(* every recommended image is there with the declared digests, template by *)
(* template, while tags and manifests come and go, definitions are saved,  *)
(* and any request may be refused, fail or first ask for a token.          *)
(***************************************************************************)
EXTENDS Integers, FiniteSets, Sequences, SequencesExt

CONSTANTS
  Template,   \* the sequence of directories under templates/
  Platform,   \* the platforms they declare
  Content,    \* what a definition may hold, see below
  Index,      \* the manifest indexes a template's tag may name
  Names,      \* Names[i][p]: the digest an index gives for a platform
  NoIndex,
  MaxChanges, \* bound: changes of the registry
  MaxSaves    \* bound: saves of a definition

Digest == {Names[i][p] : i \in Index, p \in Platform}

(* A definition: where its releases are discovered, the digests it pins,   *)
(* and the first reader that refuses it.                                   *)
Definition == [source : {"oci", "npm"}, pins : [Platform -> Digest],
               fault : {"none", "json", "preflight", "source"}]

ASSUME TemplateAssumption ==
  /\ Template \in Seq(ToSet(Template)) /\ Template # <<>>
  /\ Content \subseteq Definition /\ NoIndex \notin Index
  /\ IsFiniteSet(Platform) /\ "index" \notin Platform
  /\ \A i \in Index : Names[i] \in [Platform -> Digest]
ASSUME ChangesAssumption == MaxChanges \in Nat /\ MaxSaves \in Nat

VARIABLES
  definitions, \* on disk
  saves,
  tags,        \* the index each template's recommended tag names
  stored,      \* the manifests that exist
  changes,
  checked,     \* the definitions Check has read so far, in order
  stage,       \* next, plain, token, retry, compare
  wanted,      \* what is requested: the index or a platform's manifest
  index,       \* the index fetched for the current template
  todo,        \* platforms still to compare
  failures,    \* templates that failed
  verdict,
  requests,    \* sent so far
  (* history: never read by an action of Check *)
  saved,       \* templates saved during the run
  named,       \* <<template, index>>: what the tags named during the run
  existed      \* manifests that existed at some time of the run

disk == <<definitions, saves, saved>>
registry == <<tags, stored, changes, named, existed>>
request == <<wanted, index, todo>>
check == <<checked, stage, request, failures, verdict, requests>>

(* The beginning of a run.                                                 *)
StartCheck ==
  /\ checked' = <<>> /\ stage' = "next" /\ wanted' = "index" /\ index' = NoIndex
  /\ todo' = {} /\ failures' = {} /\ verdict' = "none" /\ requests' = 0
  /\ named' = {<<t, tags[t]>> : t \in ToSet(Template)} /\ existed' = stored

InitCheck ==
  /\ definitions \in [ToSet(Template) -> Content] /\ saves = 0 /\ saved = {}
  /\ tags \in [ToSet(Template) -> Index \cup {NoIndex}] /\ stored \in SUBSET Digest
  /\ changes = 0 /\ checked = <<>> /\ stage = "next" /\ wanted = "index"
  /\ index = NoIndex /\ todo = {} /\ failures = {} /\ verdict = "none" /\ requests = 0
  /\ named = {} /\ existed = {}

Current == Template[Len(checked)]
Declared == Last(checked)

(* Mutant of Fails: the first failing template ends the run. *)
FailsAtOnce(t) ==
  /\ failures' = failures \cup {t} /\ verdict' = "failed"
  /\ stage' = "next" /\ UNCHANGED request

(* The template fails; the others are checked all the same.                *)
Fails(t) ==
  /\ failures' = failures \cup {t} /\ stage' = "next" /\ UNCHANGED <<request, verdict>>

-----------------------------------------------------------------------------

(* The next template: its definition ends the run, is skipped, is refused  *)
(* for what it declares (lines 155 to 186), or its index is asked for.     *)
Visit ==
  /\ stage = "next" /\ verdict = "none" /\ Len(checked) < Len(Template)
  /\ LET t == Template[Len(checked) + 1]
         c == definitions[t]
     IN /\ checked' = Append(checked, c)
        /\ \/ verdict' = "error" /\ UNCHANGED <<stage, request, failures>>
           \/ /\ c.fault # "json" /\ c.source # "oci"
              /\ UNCHANGED <<stage, request, failures, verdict>>
           \/ c.source = "oci" /\ c.fault = "preflight" /\ Fails(t)
           \/ /\ c.source = "oci" /\ c.fault \notin {"json", "preflight"}
              /\ stage' = "plain" /\ wanted' = "index" /\ index' = NoIndex
              /\ todo' = Platform /\ UNCHANGED <<failures, verdict>>
  /\ UNCHANGED <<disk, registry, requests>>

(* What a request finds at the registry.                                   *)
Exists == IF wanted = "index" THEN tags[Current] # NoIndex
                              ELSE Declared.pins[wanted] \in stored

(* A manifest index: only its body says which manifests there are.         *)
IndexServed ==
  /\ index' = tags[Current] /\ stage' = "compare" /\ UNCHANGED <<wanted, todo, failures, verdict>>

(* A manifest that is there: its body is not read.                         *)
ManifestServed ==
  /\ todo' = todo \ {wanted} /\ UNCHANGED <<wanted, index, failures, verdict>>
  /\ stage' = IF todo' = {} THEN "next" ELSE "compare"

(* Mutant of Unauthorized: a rejected token is asked for again. *)
UnauthorizedAgain ==
  stage' = "token" /\ UNCHANGED <<request, failures, verdict>>

(* A registry may ask for a token; it is presented once.                   *)
Unauthorized ==
  stage = "plain" /\ stage' = "token" /\ UNCHANGED <<request, failures, verdict>>

(* The answer to a request for the index or for a manifest, or an error:   *)
(* not found, denied, limited, unavailable, timed out, malformed.          *)
Answer ==
  /\ stage \in {"plain", "retry"} /\ requests' = requests + 1
  /\ \/ Exists /\ wanted = "index" /\ IndexServed
     \/ Exists /\ wanted # "index" /\ ManifestServed
     \/ Unauthorized
     \/ Fails(Current)
  /\ UNCHANGED <<disk, registry, checked>>

(* bearerToken: the challenge is refused, or the token service answers.    *)
Token ==
  /\ stage = "token" /\ requests' = requests + 1
  /\ \/ stage' = "retry" /\ UNCHANGED <<request, failures, verdict>>
     \/ Fails(Current)
  /\ UNCHANGED <<disk, registry, checked>>

(* Mutant of Compare: the index's digest is not compared. *)
CompareSkipped(p) ==
  /\ stage = "compare" /\ p \in todo /\ wanted' = p /\ stage' = "plain"
  /\ UNCHANGED <<index, todo, failures, verdict, disk, registry, checked, requests>>

(* Compare a platform's digest in the index with the declared one, then    *)
(* request that manifest.                                                  *)
Compare(p) ==
  /\ stage = "compare" /\ p \in todo
  /\ IF Names[index][p] # Declared.pins[p]
       THEN Fails(Current)
       ELSE wanted' = p /\ stage' = "plain" /\ UNCHANGED <<index, todo, failures, verdict>>
  /\ UNCHANGED <<disk, registry, checked, requests>>

(* After the last directory.                                               *)
Conclude ==
  /\ stage = "next" /\ verdict = "none" /\ Len(checked) = Len(Template)
  /\ verdict' = CASE \A n \in DOMAIN checked : checked[n].source # "oci" -> "error"
                  [] failures # {} -> "failed"
                  [] OTHER -> "passed"
  /\ UNCHANGED <<disk, registry, checked, stage, request, failures, requests>>

Check ==
  \/ Visit \/ Answer \/ Token \/ Conclude
  \/ \E p \in Platform : Compare(p)

-----------------------------------------------------------------------------

(* A tag is published, moved or deleted; a manifest appears or is deleted. *)
Change ==
  /\ changes < MaxChanges /\ changes' = changes + 1
  /\ \/ \E t \in ToSet(Template), i \in Index \cup {NoIndex} :
          /\ tags' = [tags EXCEPT ![t] = i] /\ named' = named \cup {<<t, i>>}
          /\ UNCHANGED <<stored, existed>>
     \/ \E d \in Digest :
          /\ stored' \in {stored \cup {d}, stored \ {d}} /\ existed' = existed \cup stored'
          /\ UNCHANGED <<tags, named>>
  /\ UNCHANGED <<disk, check>>

(* Somebody saves a definition.                                            *)
Save ==
  /\ saves < MaxSaves /\ saves' = saves + 1
  /\ \E t \in ToSet(Template), c \in Content :
       definitions' = [definitions EXCEPT ![t] = c] /\ saved' = saved \cup {t}
  /\ UNCHANGED <<registry, check>>

-----------------------------------------------------------------------------
(* Properties.                                                             *)

(* Has the registry held exactly this definition's digests, under one      *)
(* index the template's tag named, with each manifest, during the run?     *)
Published(t, c) ==
  \E i \in Index :
    <<t, i>> \in named /\ c.pins = Names[i] /\ \A p \in Platform : c.pins[p] \in existed

(* A failure of one template hides no failure of another: a run that       *)
(* reports failures reached every template, and those it does not report   *)
(* were published when it looked.                                          *)
FailuresAreAllReported ==
  verdict = "failed" =>
    /\ Len(checked) = Len(Template)
    /\ \A n \in DOMAIN checked :
         checked[n].source = "oci" =>
           Template[n] \in failures \/ Published(Template[n], checked[n])

(* However the registry challenges, a run ends within three requests for   *)
(* each index and manifest, each limited by the client's timeout.  (The    *)
(* -timeout flag is described as "maximum time for each Registry preflight *)
(* run", at cmd/check-registry/main.go:15, but limits one request: this    *)
(* product is the bound that holds.)                                       *)
RequestsAreBounded ==
  requests <= 3 * (1 + Cardinality(Platform)) * Len(Template)
=============================================================================
