--------------------------- MODULE CatalogBuild -----------------------------
(***************************************************************************)
(* The commands build-catalog and check-registry: the registry preflight,  *)
(* then Generate, then Write or Verify of internal/cataloggen/generate.go. *)
(* Both read the definitions from disk, at different moments, while people *)
(* save them; Write replaces the three files of dist/ one after another    *)
(* and may fail or be killed anywhere, and commands follow each other.     *)
(***************************************************************************)
EXTENDS Preflight

CONSTANT MaxRuns  \* bound: commands run

ASSUME RunsAssumption == MaxRuns \in Nat

File == {"bundle", "manifest", "sha256"}

VARIABLES
  registryFlag, \* -check-registry
  phase,        \* preflight, read, validate, ok, failed
  output,       \* what Generate has read so far: the definitions of the bundle
  unwritten,    \* the files still to write
  dist,         \* of each file: the output it belongs to, <<>> if not complete
  runs

build == <<registryFlag, phase, output, unwritten, dist, runs>>
vars == <<disk, registry, check, build>>

Init ==
  /\ InitCheck
  /\ registryFlag = TRUE /\ phase = "ok" /\ output = <<>> /\ unwritten = {}
  /\ dist = [f \in File |-> <<>>] /\ runs = 0

Begin ==
  /\ phase \in {"ok", "failed"} /\ runs < MaxRuns /\ runs' = runs + 1
  /\ registryFlag' \in BOOLEAN
  /\ phase' = IF registryFlag' THEN "preflight" ELSE "read"
  /\ output' = <<>> /\ unwritten' = File /\ StartCheck /\ saved' = {}
  /\ UNCHANGED <<definitions, saves, tags, stored, changes, dist>>

(* check-registry ends here; -verify is looked at only after Generate.     *)
AfterPreflight ==
  /\ phase = "preflight" /\ verdict # "none"
  /\ phase' \in IF verdict # "passed" THEN {"failed"} ELSE {"ok", "read"}
  /\ UNCHANGED <<disk, registry, check, registryFlag, output, unwritten, dist, runs>>

-----------------------------------------------------------------------------
(* Generate.                                                               *)

Generating == Template[Len(output)]

(* readStrictJSON: this reading goes into the bundle.                      *)
ReadDefinition ==
  /\ phase = "read" /\ Len(output) < Len(Template)
  /\ LET c == definitions[Template[Len(output) + 1]]
     IN IF c.fault = "json"
          THEN phase' = "failed" /\ UNCHANGED output
          ELSE phase' = "validate" /\ output' = Append(output, c)
  /\ UNCHANGED <<disk, registry, check, registryFlag, unwritten, dist, runs>>

(* Mutant of ValidateSource: the source is not validated. *)
ValidateSourceSkipped ==
  /\ phase = "validate" /\ phase' = "read"
  /\ UNCHANGED <<disk, registry, check, registryFlag, output, unwritten, dist, runs>>

(* template.ReadDirectory reads the files again; template.Read validates   *)
(* that reading.                                                           *)
ValidateSource ==
  /\ phase = "validate"
  /\ phase' = IF definitions[Generating].fault \in {"json", "source"} THEN "failed" ELSE "read"
  /\ UNCHANGED <<disk, registry, check, registryFlag, output, unwritten, dist, runs>>

(* Any other refusal, I/O error or kill: nothing of dist/ has changed.     *)
GiveUp ==
  /\ phase \in {"preflight", "read", "validate"} /\ phase' = "failed"
  /\ UNCHANGED <<disk, registry, check, registryFlag, output, unwritten, dist, runs>>

Generated == phase = "read" /\ Len(output) = Len(Template)

(* os.WriteFile, one file after another, in any order: an error or a kill  *)
(* leaves an empty or cut file.  main.go:25 refuses it without preflight.  *)
Write(f) ==
  /\ Generated /\ registryFlag /\ f \in unwritten
  /\ \/ /\ dist' = [dist EXCEPT ![f] = output] /\ unwritten' = unwritten \ {f}
        /\ phase' = IF unwritten' = {} THEN "ok" ELSE "read"
     \/ dist' = [dist EXCEPT ![f] = <<>>] /\ phase' = "failed" /\ UNCHANGED unwritten
  /\ UNCHANGED <<disk, registry, check, registryFlag, output, runs>>

(* Mutant of Verify: the digest file stands for all three. *)
VerifyDigest ==
  /\ Generated /\ unwritten = File
  /\ phase' = IF dist["sha256"] = output THEN "ok" ELSE "failed"
  /\ UNCHANGED <<disk, registry, check, registryFlag, output, unwritten, dist, runs>>

Verify ==
  /\ Generated /\ unwritten = File
  /\ phase' = IF \A f \in File : dist[f] = output THEN "ok" ELSE "failed"
  /\ UNCHANGED <<disk, registry, check, registryFlag, output, unwritten, dist, runs>>

-----------------------------------------------------------------------------

Next ==
  \/ Begin \/ AfterPreflight \/ ReadDefinition \/ ValidateSource \/ GiveUp \/ Verify
  \/ \E f \in File : Write(f)
  \/ phase = "preflight" /\ Check /\ UNCHANGED build
  \/ phase = "preflight" /\ Change /\ UNCHANGED build
  \/ phase \notin {"ok", "failed"} /\ Save /\ UNCHANGED build

Spec == Init /\ [][Next]_vars

-----------------------------------------------------------------------------
(* Properties.                                                             *)

Succeeded == phase = "ok" /\ runs > 0

(* "verifies each exact recommendation and architecture digest against its *)
(* registry" (README.md:159): after a command with --check-registry        *)
(* succeeded, every definition of the bundle that pins images pins what    *)
(* the registry held during the run, one index for all platforms, unless   *)
(* somebody saved that definition while the command ran.                   *)
CatalogWasPublished ==
  Succeeded /\ registryFlag =>
    LET last == IF output = <<>> THEN checked ELSE output
    IN \A n \in DOMAIN last :
         last[n].source = "oci" =>
           Published(Template[n], last[n]) \/ Template[n] \in saved

(* The definitions in a generated bundle passed template.Read, although    *)
(* that saw another reading, unless somebody saved them meanwhile.         *)
BundleIsValid ==
  Succeeded =>
    \A n \in DOMAIN output :
      output[n].fault \notin {"json", "source"} \/ Template[n] \in saved

(* A command that wrote or verified dist/ left or found all three files of *)
(* one output: the mixture an interrupted Write leaves is never verified.  *)
DistIsOneCatalog ==
  Succeeded /\ output # <<>> => \A f \in File : dist[f] = output
=============================================================================
