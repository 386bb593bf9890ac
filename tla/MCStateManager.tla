--------------------------- MODULE MCStateManager ---------------------------
(***************************************************************************)
(* Two sessions, two voice channels, capacity                              *)
(* unlimited or one.                                                       *)
(***************************************************************************)
EXTENDS StateManager, TLC

Sessions == Permutations(Clients)
=============================================================================
