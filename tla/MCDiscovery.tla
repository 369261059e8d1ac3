---------------------------- MODULE MCDiscovery -----------------------------
(* Small instances of Discovery for TLC.  In the order of a listing the    *)
(* tags read 1.10.0, 1.9.0 and 2.0.0-market.1.  The versions to compare    *)
(* are 9.9.9, 9.10.9 and 10.9.0 with up to two of the identifiers 9, 10,   *)
(* 09, -, -A, 1A and the empty one.                                        *)
EXTENDS Discovery, Versions

MCTag == 1..3
MCEligible == 1..2
Written ==
  <<[core |-> <<<<49>>, <<49, 48>>, <<48>>>>, pre |-> <<>>],
    [core |-> <<<<49>>, <<57>>, <<48>>>>, pre |-> <<>>],
    [core |-> <<<<50>>, <<48>>, <<48>>>>, pre |-> <<<<109, 97, 114, 107, 101, 116>>, <<49>>>>]>>
MCOlder == [s \in MCTag |-> [t \in MCTag |-> CompareVersions(Written[s], Written[t]) < 0]]
MCPlatform == {"amd64", "arm64"}
MCProvides == [i \in {"whole1", "whole2", "partial"} |->
                 IF i = "partial" THEN {"amd64"} ELSE {"amd64", "arm64", "s390x"}]
MCImage == {"whole1", "whole2", "partial"}

MCCore == {<<<<57>>, <<57>>, <<57>>>>, <<<<57>>, <<49, 48>>, <<57>>>>, <<<<49, 48>>, <<57>>, <<48>>>>}
MCIdentifier == {<<>>, <<57>>, <<49, 48>>, <<48, 57>>, <<45>>, <<45, 65>>, <<49, 65>>}

(* Discovery and Versions share no state.  So that TLC does not multiply   *)
(* them, versions other than the invalid 9.9.9- are compared only while a  *)
(* discovery finds an empty registry that nobody changes.                  *)
Unfit == [core |-> <<<<57>>, <<57>>, <<57>>>>, pre |-> <<<<>>>>]
Empty == Present = {} /\ ~latest /\ ~obedient

MCInit == Init /\ VersionsInit /\ (a # Unfit => Empty)
MCNext ==
  \/ Next /\ UNCHANGED <<a, b>> /\ (a # Unfit => changes' = 0)
  \/ VersionsNext /\ UNCHANGED vars /\ pc = "npm" /\ Empty /\ changes = 0

MCSpec == MCInit /\ [][MCNext]_<<vars, a, b>> /\ WF_vars(Step)
=============================================================================
