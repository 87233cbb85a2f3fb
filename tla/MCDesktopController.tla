------------------------- MODULE MCDesktopController -------------------------
(* A user who connects a few times and a NIC that changes a few times.     *)
EXTENDS DesktopController
==============================================================================
