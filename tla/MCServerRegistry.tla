--------------------------- MODULE MCServerRegistry ---------------------------
(* The registry with a few clients and fewer addresses than they want.     *)
EXTENDS ServerRegistry

NoAdmin   == {}
AllOps    == {"update", "delete", "remove"}
UpdateOp  == {"update"}
AllFaults == {"expire", "restart"}
TornFile  == {"expire", "torn"}
NoFaults  == {}

==============================================================================
