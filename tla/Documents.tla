----------------------------- MODULE Documents ------------------------------
(***************************************************************************)
(* The readers of template/document.go, compat.go and historical_hooks.go: *)
(* a source directory of any published version is read as a document of    *)
(* version 4 with an execution specification of version 7.  A JSON object  *)
(* is a function from its keys; the keys are those by which the versions   *)
(* differ, and one for all the rest where the rest is carried over.        *)
(***************************************************************************)
EXTENDS Integers, Sequences, FiniteSets, Functions

Has(o, k) == k \in DOMAIN o
Without(o, K) == Restrict(o, DOMAIN o \ K)
Over(o, p) == [k \in DOMAIN o \cup DOMAIN p |-> IF k \in DOMAIN o THEN o[k] ELSE p[k]]
Part(spec, k) == IF Has(spec, k) THEN spec[k] ELSE <<>>

Sections == {"host", "container", "compose"}
HookKeys == {"after_start_script", "open_script", "output_mode"}

DocumentKeys == {"schema_version", "kind", "default_locale", "locales",
                 "recommended_version", "release_discovery", "deployment", "spec"}
LegacySpecKeys == {"schema_version", "kind", "path"} \cup Sections

(* DisallowUnknownFields, for the keys of a specification.                 *)
Strict(spec, top, host) ==
  /\ DOMAIN spec \subseteq top
  /\ DOMAIN Part(spec, "host") \subseteq host
  /\ DOMAIN Part(spec, "container") \subseteq {"image"}

-----------------------------------------------------------------------------
(* upgradeSpecV5: the opening target becomes two hooks, see Launch.        *)

WaitFor(prefix) == <<"wait for", prefix>>
Wait(script) == script # <<>> /\ script[1] = "wait for"

LegacyAccepted(spec) ==
  /\ Strict(spec, LegacySpecKeys, {"start_script", "open_target"})
  /\ DOMAIN spec \cap Sections = {spec.kind}
  /\ spec.kind = "host" => Has(spec.host, "start_script")
  /\ Has(Part(spec, "host"), "open_target") => spec.host.open_target # <<>>

(* Mutant of UpgradeV5: the output goes where the old version sent it. *)
UpgradeV5Unlogged(spec) ==
  IF ~Has(Part(spec, "host"), "open_target") THEN spec
  ELSE [spec EXCEPT !.host =
          Over([after_start_script |-> WaitFor(spec.host.open_target), open_script |-> <<"print">>],
               Without(spec.host, {"open_target"}))]

UpgradeV5(spec) ==
  IF ~Has(Part(spec, "host"), "open_target") THEN spec
  ELSE [spec EXCEPT !.host =
          Over([after_start_script |-> WaitFor(spec.host.open_target),
                open_script |-> <<"print">>, output_mode |-> "private_file"],
               Without(spec.host, {"open_target"}))]

(* The tag filters of version 3 are retired, not revived.                  *)
UpgradeV3(spec) ==
  IF ~Has(spec, "container") THEN spec
  ELSE [spec EXCEPT !.container = Without(spec.container, {"release_policy"})]

-----------------------------------------------------------------------------
(* NormalizeSpec.                                                          *)

Hook(spec) == Has(Part(spec, "host"), "open_script") /\ spec.host.open_script # <<>>

(* Mutant of ClearPath: only the hooks written by authors ignore a path. *)
ClearPathBySix(spec) ==
  IF Hook(spec) /\ ~Wait(Part(spec.host, "after_start_script")) THEN Without(spec, {"path"}) ELSE spec

(* The hook executor of old versions ignored the path.                     *)
ClearPath(spec) == IF Hook(spec) THEN Without(spec, {"path"}) ELSE spec

(* The adapters run in this order, each from the version it is named for.  *)
Adapted(spec) ==
  LET v == spec.schema_version
      current == IF v = 3 THEN UpgradeV5(UpgradeV3(spec))
                 ELSE IF v < 6 THEN UpgradeV5(spec) ELSE spec
  IN [(IF v < 7 THEN ClearPath(current) ELSE current) EXCEPT !.schema_version = 7]

OpeningAccepted(spec) ==
  /\ Has(spec, "startup_url") =>
       /\ spec.startup_url # <<>> /\ ~Has(spec, "path") /\ ~Hook(spec)
       /\ spec.kind = "host" /\ Has(spec, "host") =>
            /\ Has(spec.host, "output_mode") /\ spec.host.output_mode = "private_file"
            /\ Part(spec.host, "after_start_script") = <<>>
  /\ ~(Hook(spec) /\ Has(spec, "path"))

(* ValidateSpec, of the rules that tell the keys apart.                    *)
SpecAccepted(spec) ==
  /\ OpeningAccepted(spec)
  /\ spec.kind \in Sections /\ Has(spec, spec.kind)
  /\ spec.kind = "host" => Has(spec.host, "start_script")

NewerKeys(spec) ==
  LET v == spec.schema_version
      host == DOMAIN Part(spec, "host")
  IN \/ v < 7 /\ Has(spec, "startup_url")
     \/ v < 6 /\ host \cap HookKeys # {}
     \/ v < 5 /\ "open_target" \in host

Normalizes(spec) ==
  LET v == spec.schema_version
  IN /\ v \in 3..7 /\ ~NewerKeys(spec)
     /\ v < 6 => LegacyAccepted(IF v = 3 THEN UpgradeV3(spec) ELSE spec)
     /\ Strict(Adapted(spec), LegacySpecKeys \cup {"startup_url"}, {"start_script"} \cup HookKeys)
     /\ DOMAIN spec \cap Sections \subseteq {spec.kind}
     /\ SpecAccepted(Adapted(spec))

-----------------------------------------------------------------------------
(* readDocument.                                                           *)

(* A source: its entrypoints, the document in them, the locale files.      *)
Legacy(source) == "template.json" \in source.entries

(* Version 1: the release default becomes a recommendation, the filters of *)
(* release discovery go.                                                   *)
UpgradeDocumentV1(doc) ==
  LET renamed == Over([recommended_version |-> doc.version], Without(doc, {"version"}))
  IN IF ~Has(doc, "release_discovery") THEN renamed
     ELSE [renamed EXCEPT !.release_discovery = Restrict(doc.release_discovery, {"source"})]

(* Version 2: kind and locales become explicit.                            *)
UpgradeDocumentV2(doc, locales) ==
  Over([kind |-> "redeven.service-template", default_locale |-> "en-US", locales |-> locales], doc)

Upgraded(source) ==
  LET doc == source.document
  IN CASE doc.schema_version = 1 -> UpgradeDocumentV2(UpgradeDocumentV1(doc), source.locales)
       [] doc.schema_version = 2 -> UpgradeDocumentV2(doc, source.locales)
       [] OTHER -> doc

(* The document and execution versions published together.                 *)
Pairs == {<<1, 3>>, <<2, 4>>, <<2, 5>>, <<2, 6>>, <<3, 6>>, <<4, 7>>}

DocumentReads(source) ==
  LET doc == source.document
      v == doc.schema_version
      filters == {"source", "allow_prerelease", "allow_non_semver"}
      discovery == DOMAIN Part(doc, "release_discovery")
  IN /\ IF Legacy(source) THEN v \in {1, 2} ELSE v \in {3, 4}
     /\ Legacy(source) => DOMAIN doc \cap {"kind", "default_locale", "locales"} = {}
     /\ IF v = 1 THEN ~Has(doc, "recommended_version") /\ Has(doc, "version") /\ discovery \subseteq filters
                 ELSE discovery \subseteq {"source"}
     /\ DOMAIN Upgraded(source) \subseteq DocumentKeys
     /\ <<v, doc.spec.schema_version>> \in Pairs

(* validateDocument, and the localizations.                                *)
DocumentAccepted(doc, locales) ==
  /\ Has(doc, "kind") /\ doc.kind = "redeven.service-template"
  /\ Has(doc, "locales") /\ Has(doc, "default_locale")
  /\ doc.default_locale \in doc.locales /\ doc.locales \subseteq locales

-----------------------------------------------------------------------------
(* Read.                                                                   *)

Reads(source) ==
  /\ Cardinality(source.entries) = 1
  /\ DocumentReads(source)
  /\ LET doc == Upgraded(source)
     IN /\ Normalizes(doc.spec)
        /\ Has(doc, "deployment") => doc.deployment = doc.spec.kind
        /\ DocumentAccepted(doc, source.locales)

Template(source) ==
  LET doc == Upgraded(source)
  IN Over([schema_version |-> 4, deployment |-> doc.spec.kind, spec |-> Adapted(doc.spec)], doc)

(* The document Read returned, as a source of its own.                     *)
Canonical(source) ==
  [source EXCEPT !.entries = {"redeven-service-template.json"}, !.document = Template(source)]

-----------------------------------------------------------------------------
(* Schemas of template/contracts.go: the published shape of each version.  *)

SpecShape(v) ==
  [top |-> LegacySpecKeys \cup IF v = 7 THEN {"startup_url"} ELSE {},
   host |-> {"start_script"} \cup IF v = 5 THEN {"open_target"} ELSE IF v < 5 THEN {} ELSE HookKeys,
   container |-> {"image"} \cup IF v = 3 THEN {"release_policy"} ELSE {}]

DocumentShape(v) ==
  [keys |-> IF v = 1 THEN (DocumentKeys \ {"recommended_version", "kind", "default_locale", "locales"}) \cup {"version"}
            ELSE IF v = 2 THEN DocumentKeys \ {"kind", "default_locale", "locales"} ELSE DocumentKeys,
   required |-> {"schema_version", "spec"} \cup IF v < 3 THEN {} ELSE {"kind", "default_locale", "locales"},
   discovery |-> {"source"} \cup IF v = 1 THEN {"allow_prerelease", "allow_non_semver"} ELSE {},
   specs |-> CASE v = 1 -> {3} [] v = 2 -> {4, 5, 6} [] v = 3 -> {6} [] v = 4 -> {7}]

(* Does the document have the published shape of its version?              *)
Conforms(doc) ==
  doc.schema_version \in 1..4 /\
  LET shape == DocumentShape(doc.schema_version)
      spec == doc.spec
      v == spec.schema_version
  IN /\ DOMAIN doc \subseteq shape.keys /\ shape.required \subseteq DOMAIN doc
     /\ DOMAIN Part(doc, "release_discovery") \subseteq shape.discovery
     /\ Has(doc, "kind") => doc.kind = "redeven.service-template"
     /\ v \in shape.specs /\ spec.kind \in Sections
     /\ DOMAIN spec \subseteq SpecShape(v).top
     /\ DOMAIN Part(spec, "host") \subseteq SpecShape(v).host
     /\ DOMAIN Part(spec, "container") \subseteq SpecShape(v).container
=============================================================================
