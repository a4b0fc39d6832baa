---------------------------- MODULE MCBridgeService ----------------------------
(* Small instances of BridgeService: callers p, q and a probe.                *)
EXTENDS BridgeService

CONSTANTS p, q, probe

NoClient == {}
One      == {p}
Three    == {p, q, probe}
Probe    == {probe}
=============================================================================
