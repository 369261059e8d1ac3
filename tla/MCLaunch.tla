------------------------------ MODULE MCLaunch ------------------------------
(* Every pair of document and execution versions under every choice of     *)
(* entrypoints, every choice of a document's keys, every choice of a       *)
(* specification's keys, and for the services they start every output of   *)
(* up to six symbols.                                                      *)
EXTENDS Launch

MCPrefix == <<"text">>

(* An optional key: no key, or one with one of the values V.               *)
Optional(k, V) == {<<>>} \cup {k :> x : x \in V}
Both(A, B) == {a @@ b : a \in A, b \in B}

Hosts ==
  Both(Both(Optional("start_script", {<<"script">>}), Optional("open_target", {<<>>, MCPrefix})),
       Both(Optional("after_start_script", {<<"script">>}),
            Both(Optional("open_script", {<<>>, <<"script">>}), Optional("output_mode", {"private_file", "discard"}))))
Containers == Both({"image" :> "image"}, Optional("release_policy", {"filters"}))

Specs(versions, hosts, containers) ==
  Both(Both({"schema_version" :> v : v \in versions}, {"kind" :> k : k \in Sections}),
  Both(Both(Optional("host", hosts), Optional("container", containers)),
  Both(Optional("compose", {"yaml"}),
       Both(Optional("path", {<<"path">>}), Optional("startup_url", {<<>>, MCPrefix})))))

PlainSpec(v) == [schema_version |-> v, kind |-> "host", host |-> ("start_script" :> <<"script">>)]

DocumentsOf(versions, specs) ==
  Both(Both(Both({"schema_version" :> v : v \in versions}, {"spec" :> s : s \in specs}),
            Both(Optional("kind", {"redeven.service-template", "other"}), Optional("default_locale", {"fr"}))),
  Both(Both(Optional("locales", {{"fr"}, {"fr", "en-US"}}), Optional("deployment", {"host", "compose"})),
  Both(Both(Optional("version", {"1.0.0"}), Optional("recommended_version", {"2.0.0"})),
       Optional("release_discovery", {"source" :> "npm", [source |-> "npm", allow_prerelease |-> TRUE]}))))

PlainDocument(v, spec) ==
  [schema_version |-> v, spec |-> spec] @@
    CASE v = 1 -> "version" :> "1.0.0"
      [] v = 2 -> <<>>
      [] OTHER -> [kind |-> "redeven.service-template", default_locale |-> "fr", locales |-> {"fr"}]

(* A document version that goes with each execution version.               *)
VersionFor(spec) == CASE spec < 4 -> 1 [] spec < 6 -> 2 [] spec = 6 -> 3 [] OTHER -> 4

Entries == SUBSET {"template.json", "redeven-service-template.json"}
Entry(doc) == {IF doc.schema_version < 3 THEN "template.json" ELSE "redeven-service-template.json"}
In(doc, entries, locales) == [document |-> doc, entries |-> entries, locales |-> locales]

MCSources ==
  {In(PlainDocument(VersionFor(w), [PlainSpec(w) EXCEPT !.kind = "none"]), Entry(PlainDocument(VersionFor(w), PlainSpec(w))), {"fr", "en-US"}) : w \in 3..7} \cup
  {In(PlainDocument(v, PlainSpec(w)), e, {"fr", "en-US"}) : v \in 1..5, w \in 2..8, e \in Entries}
  \cup {In(d, Entry(d), l) : l \in {{"fr"}, {"fr", "en-US"}},
          d \in UNION {DocumentsOf({v}, {PlainSpec(CHOOSE w \in 3..7 : VersionFor(w) = v)}) : v \in 1..4}}
  \cup {In(PlainDocument(VersionFor(s.schema_version), s), Entry(PlainDocument(VersionFor(s.schema_version), s)), {"fr", "en-US"})
          : s \in Specs(2..8, Hosts, Containers)}

(* One document of an execution-5 service with an open_target.             *)
MCHookSources ==
  LET doc == PlainDocument(2, [PlainSpec(5) EXCEPT !.host = @ @@ ("open_target" :> MCPrefix)])
  IN {In(doc, Entry(doc), {"fr", "en-US"})}
=============================================================================
