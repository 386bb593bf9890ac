----------------------------- MODULE MediaReplay -----------------------------
(***************************************************************************)
(* The replay window of encrypted media                                    *)
(* (client/frontend/src/media-replay.js): for each source of one key       *)
(* generation, the frames seen within a window of RTP timestamps.          *)
(*                                                                         *)
(* A sender's clock runs 0, 1, 2, ...; the wire carries it modulo Space    *)
(* (2^32).  An IV is a source, a timestamp and a counter.  A window is a   *)
(* record                                                                  *)
(*   newest   for each known source, its newest timestamp,                 *)
(*   frames   the IVs that are remembered.                                 *)
(***************************************************************************)
EXTENDS Integers, FiniteSets, TLC

CONSTANTS MaxSources, MaxFrames,  \* sources of a window, frames of a source
          Space,                  \* timestamps on the wire
          TimestampWindow

ASSUME WindowBounds ==
  /\ {Space, MaxSources, MaxFrames} \subseteq Nat \ {0} /\ TimestampWindow \in Nat
  /\ Space % 2 = 0 /\ TimestampWindow < Space \div 2

NewWindow == [newest |-> << >>, frames |-> {}]

Half    == Space \div 2
wire(t) == t % Space
\* (a - b) | 0
signed(d)      == LET m == d % Space IN IF m >= Half THEN m - Space ELSE m
distance(a, b) == signed(a - b)

known(w, iv)  == iv.source \in DOMAIN w.newest
sourceFree(w) == Cardinality(DOMAIN w.newest) < MaxSources
ahead(w, iv)  == IF known(w, iv) THEN distance(iv.time, w.newest[iv.source]) ELSE 0

tooOld(w, iv)    == ahead(w, iv) < -TimestampWindow
keepAll(w, iv)   == w.frames   \* variant: nothing leaves the window
stillSeen(w, iv) == {f \in w.frames : f.source = iv.source => distance(iv.time, f.time) <= TimestampWindow}
full(w, iv)      == Cardinality({f \in w.frames : f.source = iv.source}) >= MaxFrames

(* Too many sources, an IV seen before, or one older than the window. *)
rejected(w, iv) == (~known(w, iv) /\ ~sourceFree(w)) \/ iv \in w.frames \/ tooOld(w, iv)

(* A frame ahead of the others moves the window, also when there is no     *)
(* room left for the frame itself.                                         *)
moved(w, iv) ==
  IF known(w, iv) /\ ahead(w, iv) <= 0 THEN w
  ELSE [newest |-> (iv.source :> iv.time) @@ w.newest, frames |-> stillSeen(w, iv)]

accept(w, iv) == ~rejected(w, iv) /\ ~full(moved(w, iv), iv)

(* The window after a frame was judged. *)
check(w, iv) ==
  IF rejected(w, iv) THEN w
  ELSE [moved(w, iv) EXCEPT !.frames = IF accept(w, iv) THEN @ \cup {iv} ELSE @]
=============================================================================
