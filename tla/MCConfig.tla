------------------------------ MODULE MCConfig ------------------------------
(* Small instances of Config for TLC. *)
EXTENDS Config
=============================================================================
