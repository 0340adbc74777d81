--------------------------- MODULE MCMobileClient ---------------------------
(* Instances of MobileClient for TLC. *)
EXTENDS MobileClient
=============================================================================
