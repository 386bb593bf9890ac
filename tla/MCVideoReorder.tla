--------------------------- MODULE MCVideoReorder ---------------------------
(***************************************************************************)
(* Sixteen sequence numbers and a stream that crosses their rollover.      *)
(***************************************************************************)
EXTENDS VideoReorder
=============================================================================
