-------------------------- MODULE MCServerForwarding --------------------------
(* Forwarding to a client one of whose NICs changes its port.              *)
EXTENDS ServerForwarding

OneRebinds == [n \in NIC |-> IF n = "n1" THEN 2 ELSE 1]

==============================================================================
