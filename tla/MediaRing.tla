----------------------------- MODULE MediaRing -----------------------------
(***************************************************************************)
(* The key ring the media worker keeps for one publication (a "pid":       *)
(* one slot of one publisher) in client/frontend/src/media-e2ee-core.js.   *)
(*                                                                         *)
(* A ring is a record                                                      *)
(*   epochs   the live epochs, each with the key slot (kid) it occupies,   *)
(*   active   the epoch a sender encrypts under, 0 for none,               *)
(*   retired  the highest epoch ever retired.                              *)
(* The worker runs its operations one after the other, so each is one      *)
(* function of the ring.  Key material is a function of (publisher,        *)
(* epoch): a second installation of an epoch brings the same key.          *)
(***************************************************************************)
EXTENDS Integers, FiniteSets

CONSTANTS MAX_LIVE_EPOCHS,  \* live epochs a ring holds
          KEYRING           \* key slots of a ring

ASSUME RingBounds == MAX_LIVE_EPOCHS \in Nat \ {0} /\ KEYRING \in Nat \ {0}

EmptyRing == [epochs |-> << >>, active |-> 0, retired |-> 0]

Live(r) == DOMAIN r.epochs

larger(a, b) == IF a < b THEN b ELSE a

(* retireEpoch: an epoch that is not live changes nothing. *)
retireEpoch(r, e) ==
  IF e \notin Live(r) THEN r
  ELSE [epochs  |-> [x \in Live(r) \ {e} |-> r.epochs[x]],
        active  |-> IF r.active = e THEN 0 ELSE r.active,
        retired |-> larger(r.retired, e)]

(* Whether the key operation throws.  The mark of retired epochs is asked  *)
(* before the ring, so it also refuses an epoch that is still live.        *)
keyRefused(r, e, kid) ==
  \/ e <= r.retired
  \/ e \notin Live(r) /\ \E old \in Live(r) : r.epochs[old] = kid /\ old > e

(* A slot is taken over from an older epoch, and a full ring gives up its  *)
(* oldest epoch.                                                           *)
takeSlot(r, kid) ==
  LET held == {old \in Live(r) : r.epochs[old] = kid}
  IN  IF held = {} THEN r ELSE retireEpoch(r, CHOOSE old \in held : TRUE)

evictOldest(r) ==
  IF Cardinality(Live(r)) < MAX_LIVE_EPOCHS THEN r
  ELSE retireEpoch(r, CHOOSE e \in Live(r) : \A x \in Live(r) : e <= x)

key(r, e, kid) ==
  IF keyRefused(r, e, kid) \/ e \in Live(r) THEN r
  ELSE LET freed == evictOldest(takeSlot(r, kid))
       IN  [freed EXCEPT !.epochs = [x \in Live(freed) \cup {e} |->
                                       IF x = e THEN kid ELSE freed.epochs[x]]]

activateRefused(r, e) == e \notin Live(r) \/ e < r.active

activate(r, e) == IF activateRefused(r, e) THEN r ELSE [r EXCEPT !.active = e]

retireOne(r, e) == retireEpoch(r, e)

retire(r, through) ==
  LET kept == {e \in Live(r) : e > through}
  IN  [epochs  |-> [x \in kept |-> r.epochs[x]],
       active  |-> IF r.active \in kept THEN r.active ELSE 0,
       retired |-> larger(r.retired, through)]

(* The ring is dropped; the mark of retired epochs stays. *)
forgetAll(r) == EmptyRing   \* variant: no mark
forget(r) == [EmptyRing EXCEPT !.retired = CHOOSE m \in Live(r) \cup {r.retired} : \A e \in Live(r) \cup {r.retired} : e <= m]
=============================================================================
