----------------------------- MODULE MCFwLinkscan -----------------------------
(* Two ports; scanning is configured for both, for one and for none.        *)
EXTENDS FwLinkscan

MCPorts == {1, 2}
MCConfigs == {{}, {1}, {1, 2}}
=============================================================================
