-------------------------- MODULE MCMainnetRelease --------------------------
(* Small instances of MainnetRelease. *)
EXTENDS MainnetRelease
=============================================================================
