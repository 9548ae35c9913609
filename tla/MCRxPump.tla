------------------------------ MODULE MCRxPump ------------------------------
(* TLC instance of the receive pump: see the cfg files for the values. *)
EXTENDS RxPump
=============================================================================
