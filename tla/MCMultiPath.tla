----------------------------- MODULE MCMultiPath -----------------------------
(* Paths over one or two interfaces.                                       *)
EXTENDS MultiPath

Failover  == {"failover"}
Redundant == {"redundant"}
BothModes == {"redundant", "failover"}

NicFaults   == {"nic", "scan", "silence", "stop"}
StopFaults  == {"silence", "stop"}
NicSilence  == {"nic", "silence"}
==============================================================================
