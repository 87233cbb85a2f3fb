----------------------------- MODULE MCMobileApp -----------------------------
(* A few clients in turn.                                                  *)
EXTENDS MobileApp
==============================================================================
