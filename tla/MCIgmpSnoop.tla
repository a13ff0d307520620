---------------------------- MODULE MCIgmpSnoop ----------------------------
(* Two groups with one MAC address and a third one, for two entries; two      *)
(* ports, one of them with a router.                                          *)
EXTENDS IgmpSnoop
MCGroups == {"a", "b", "c"}
MCMacs == {"ab", "c"}
MCMac == [g \in MCGroups |-> IF g = "c" THEN "c" ELSE "ab"]
MCPorts == {1, 2}
MCV2Ports == {1}
MCRouterPorts == {2}
=============================================================================
