------------------------------- MODULE Launch -------------------------------
(***************************************************************************)
(* From a source directory to the URL a host opens.  A host reads the      *)
(* source with Documents and starts its service; the opening URL then      *)
(* comes from the service's growing output, by ParseStartupURL (Opening)   *)
(* for a current document, and for an old one by the shell script that     *)
(* upgradeSpecV5 generates, which stores what follows the prefix.          *)
(***************************************************************************)
EXTENDS Opening, Documents

CONSTANT Sources   \* the source directories authors may have written

(* A JSON object is a function from its keys.                              *)
Object(o) == o = [k \in DOMAIN o |-> o[k]]

(* What the decoder's types and the shape of a file tree make sure of.     *)
ASSUME SourceAssumption ==
  \A s \in Sources :
    LET doc == s.document
        spec == doc.spec
    IN /\ Object(s) /\ DOMAIN s = {"document", "entries", "locales"}
       /\ s.entries \subseteq {"template.json", "redeven-service-template.json"}
       /\ Object(doc) /\ Has(doc, "schema_version") /\ Has(doc, "spec")
       /\ Object(spec) /\ Has(spec, "schema_version") /\ Has(spec, "kind")
       /\ doc.schema_version \in Int /\ spec.schema_version \in Int
       /\ Object(Part(spec, "host")) /\ Object(Part(spec, "container"))

VARIABLES
  source,         \* the directory, until its service is started
  opening,        \* "none", or where the running service's URL comes from
  stored,         \* the file open-url
  storedSettled   \* was the line it was taken from written to its end?

launchVars == <<output, reading, source, opening, stored, storedSettled>>

LaunchInit ==
  /\ Init
  /\ source \in Sources
  /\ opening = "none" /\ stored = <<>> /\ storedSettled = FALSE

(* The host starts a service that announces its URL.  The directory plays  *)
(* no part from then on: the model forgets it.                             *)
Start ==
  /\ opening = "none" /\ Reads(source)
  /\ LET spec == Template(source).spec
         host == Part(spec, "host")
     IN \/ Has(spec, "startup_url") /\ opening' = "startup"
        \/ Hook(spec) /\ Wait(Part(host, "after_start_script")) /\ opening' = "hook"
  /\ source' = [entries |-> {}]
  /\ UNCHANGED <<output, reading, stored, storedSettled>>

(* The line the script's awk takes: head gives it a limited beginning of   *)
(* the output, index($0, prefix) == 1 is true of a line with the prefix,   *)
(* and the line need not have an end.                                      *)
Sample == SubSeq(output, 1, Min({Len(output), MaxOutput}))
Announcing == {n \in StartsIn(Sample) : IsPrefix(LinePrefix, LineIn(Sample, n))}
Announced == LineIn(Sample, Min(Announcing))

(* Mutant of Poll: awk goes on to the last line with the prefix. *)
PollLast ==
  /\ opening = "hook" /\ stored = <<>> /\ Announcing # {}
  /\ LET line == LineIn(Sample, Max(Announcing))
     IN stored' = SubSeq(line, Len(LinePrefix) + 1, Len(line))
  /\ storedSettled' = (Max(Announcing) < Max(StartsIn(output)))
  /\ UNCHANGED <<output, reading, source, opening>>

(* One turn of the script's loop: what follows the prefix is stored once   *)
(* and for all, if it is not empty.                                        *)
Poll ==
  /\ opening = "hook" /\ stored = <<>> /\ Announcing # {}
  /\ stored' = SubSeq(Announced, Len(LinePrefix) + 1, Len(Announced))
  /\ storedSettled' = (Min(Announcing) < Max(StartsIn(Sample)))
  /\ UNCHANGED <<output, reading, source, opening>>

LaunchNext ==
  \/ Start
  \/ /\ opening # "none" /\ Grow
     /\ UNCHANGED <<source, opening, stored, storedSettled>>
  \/ /\ opening = "startup" /\ Parse
     /\ UNCHANGED <<source, opening, stored, storedSettled>>
  \/ Poll

LaunchSpec == LaunchInit /\ [][LaunchNext]_launchVars

-----------------------------------------------------------------------------
(* Properties of the readers.                                              *)

(* Where a specification of version v says its URL comes from; a fixed     *)
(* path gives way to a hook in the versions whose executor ignored it, and *)
(* only from version 7 on must there be no more than one source.           *)
OpeningOf(spec) ==
  LET v == spec.schema_version
      host == Part(spec, "host")
  IN CASE v = 7 /\ Has(spec, "startup_url") -> <<"output", spec.startup_url>>
       [] v = 5 /\ Has(host, "open_target") -> <<"output", host.open_target>>
       [] v >= 6 /\ Hook(spec) ->
            IF Wait(Part(host, "after_start_script")) THEN <<"output", host.after_start_script[2]>>
            ELSE <<"script", Part(host, "after_start_script")>>
       [] OTHER -> <<"path", Part(spec, "path")>>

(* The rules a published document obeys beyond its shape.                  *)
OneOpening(spec) ==
  LET host == Part(spec, "host")
      sources == {k \in {"path", "startup_url"} : Has(spec, k)} \cup (IF Hook(spec) THEN {"hook"} ELSE {})
  IN /\ Cardinality(sources) <= 1
     /\ Has(spec, "startup_url") =>
          /\ spec.startup_url # <<>>
          /\ spec.kind = "host" =>
               /\ Has(host, "output_mode") /\ host.output_mode = "private_file"
               /\ Part(host, "after_start_script") = <<>>

WellMeant(s) ==
  LET doc == s.document
      v == doc.schema_version
      spec == doc.spec
      named == IF v < 3 THEN s.locales ELSE doc.locales
  IN /\ (IF v < 3 THEN "en-US" ELSE doc.default_locale) \in named /\ named \subseteq s.locales
     /\ v = 1 => Has(doc, "version")
     /\ Has(doc, "deployment") => doc.deployment = spec.kind
     /\ DOMAIN spec \cap Sections = {spec.kind}
     /\ spec.kind = "host" => Has(spec.host, "start_script")
     /\ Has(Part(spec, "host"), "open_target") => spec.host.open_target # <<>>
     /\ spec.schema_version = 7 => OneOpening(spec)

(* "Every supported historical format is a permanent compatibility         *)
(* commitment" (README.md:91) and "malformed historical fields [...] fail  *)
(* clearly" (:88): the chain of checks and adapters accepts exactly the    *)
(* documents under the entrypoint of their version that have the shape     *)
(* Schemas publishes for it and the meaning they had then.                 *)
ReadsExactlyThePublished ==
  opening = "none" =>
    (Reads(source) <=>
      /\ source.entries = {IF source.document.schema_version < 3
                             THEN "template.json" ELSE "redeven-service-template.json"}
      /\ Conforms(source.document)
      /\ WellMeant(source))

(* What an accepted document says survives its adapters: the opening it    *)
(* had under its own version, with the capture a wait hook reads, its      *)
(* scripts and image, its recommendation; and the result is itself a       *)
(* current document that reads as itself, so ForPlatform, which decodes    *)
(* and validates it again, meets what Read returned.                       *)
Faithful ==
  opening = "none" /\ Reads(source) =>
    LET old == source.document
        new == Template(source)
        host == Part(new.spec, "host")
    IN /\ OpeningOf(new.spec) = OpeningOf(old.spec)
       /\ Has(Part(old.spec, "host"), "open_target") =>
            Has(host, "output_mode") /\ host.output_mode = "private_file"
       /\ Without(host, HookKeys) = Without(Part(old.spec, "host"), HookKeys \cup {"open_target"})
       /\ Part(new.spec, "container") = Without(Part(old.spec, "container"), {"release_policy"})
       /\ Part(new, "recommended_version") =
            (IF Has(old, "version") THEN old.version ELSE Part(old, "recommended_version"))
       /\ Reads(Canonical(source)) /\ Template(Canonical(source)) = new

-----------------------------------------------------------------------------
(* Properties of the two ways to the URL.                                  *)

(* What open_script prints, without the blanks around it.                  *)
Opened ==
  LET words == {n \in 1..Len(stored) : stored[n] # Blank}
  IN IF words = {} THEN <<>> ELSE SubSeq(stored, Min(words), Max(words))

(* The script stores all that follows the prefix and open_script prints    *)
(* all of it (historical_hooks.go:57, 59).  Of a line that holds nothing   *)
(* but the URL that is, once the line was complete, what ParseStartupURL   *)
(* finds, however the output goes on, and a beginning of it if the line    *)
(* was still being written.  Of any other line it is the URL and what      *)
(* follows it.                                                             *)
HookAgrees ==
  Opened # <<>> /\ Answer.code = "" =>
    IF Blank \in ToSet(Opened) THEN IsPrefix(Answer.url, Opened)
    ELSE IF storedSettled THEN Opened = Answer.url
    ELSE IsPrefix(Opened, Answer.url)

(* "Execution 5's startup-output opening declaration becomes the           *)
(* equivalent private-output after-start and open hooks in execution 6"    *)
(* (README.md:79): from a complete line the hooks open what                *)
(* ParseStartupURL would.  They open the LAN description with it.          *)
HookIsEquivalent ==
  Opened # <<>> /\ storedSettled /\ Answer.code = "" => Opened = Answer.url
=============================================================================
