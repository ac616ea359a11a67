---------------------------- MODULE MCBootstrap ----------------------------
(* Small instance of Bootstrap for TLC. *)
EXTENDS Bootstrap

=============================================================================
