-------------------------- MODULE MCCatalogBuild ----------------------------
(* Two templates for TLC whose definitions may pin either of two indexes,  *)
(* be discovered from npm, or be refused by one of the readers.            *)
EXTENDS CatalogBuild

MCTemplate == <<"desktop", "webtop">>
MCPlatform == {"amd64", "arm64"}
MCIndex == {"old", "new"}
MCNames == [i \in MCIndex |-> [p \in MCPlatform |->
              IF i = "new" /\ p = "amd64" THEN "b" ELSE "a"]]
Holding(s, i, f) == [source |-> s, pins |-> MCNames[i], fault |-> f]
MCContent ==
  {Holding("oci", "new", f) : f \in {"none", "json", "preflight", "source"}}
    \cup {Holding("oci", "old", "none"), Holding("npm", "new", "none")}

(* At first every manifest is there and every tag names an index.          *)
MCInit == Init /\ stored = Digest /\ \A t \in DOMAIN tags : tags[t] # NoIndex
MCSpec == MCInit /\ [][Next]_vars

(* One command meets a change of the registry and a save; two commands, of *)
(* which the first has touched dist/, meet one of them.                    *)
Bounded == runs = 2 => changes + saves <= 1 /\ \E f \in File : dist[f] # <<>>
=============================================================================
