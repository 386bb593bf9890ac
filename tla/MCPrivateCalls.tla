--------------------------- MODULE MCPrivateCalls ---------------------------
(***************************************************************************)
(* Instances of PrivateCalls for TLC: a caller and a callee with two       *)
(* sessions (PrivateCalls.cfg, CallEndings.cfg), and three accounts in a  *)
(* group (GroupCalls.cfg), whose members the model does not tell apart.    *)
(***************************************************************************)
EXTENDS PrivateCalls, TLC

CONSTANTS alice, bob, carol, a1, b1, b2, c1

TwoPeople   == (a1 :> alice) @@ (b1 :> bob) @@ (b2 :> bob)
ThreePeople == (a1 :> alice) @@ (b1 :> bob) @@ (c1 :> carol)

Devices == Permutations({b1, b2})
People  ==
  {[x \in Accounts \cup Sessions |->
      IF x \in Accounts THEN p[x] ELSE CHOOSE s \in Sessions : Owner[s] = p[Owner[x]]] :
     p \in Permutations(Accounts)}
=============================================================================
