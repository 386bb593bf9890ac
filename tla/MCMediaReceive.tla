--------------------------- MODULE MCMediaReceive ---------------------------
(***************************************************************************)
(* Behaviours with several controls and moves and one frame per epoch, and *)
(* behaviours with one epoch and many frames: two sources whose clocks     *)
(* cross the rollover, and room for one.                                   *)
(***************************************************************************)
EXTENDS MediaReceive

CONSTANTS s1, s2

frames(S, T, C) == {[source |-> s, time |-> t, counter |-> c] : s \in S, t \in T, c \in C}

SmallLoads ==
  {[controls |-> 2, moves |-> 2, faults |-> 0, frames |-> frames({s1}, {12}, {0})],
   [controls |-> 2, moves |-> 1, faults |-> 1, frames |-> frames({s1}, {12}, {0})],
   [controls |-> 3, moves |-> 0, faults |-> 1, frames |-> {}],
   [controls |-> 1, moves |-> 0, faults |-> 0, frames |-> frames({s1, s2}, 12..18, {0, 1})]}
=============================================================================
