---------------------------- MODULE MCMediaKeys ----------------------------
(* A small instance of MediaKeys for TLC. *)
EXTENDS MediaKeys
=============================================================================
