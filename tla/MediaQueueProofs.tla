-------------------------- MODULE MediaQueueProofs --------------------------
(***************************************************************************)
(* Proofs about the sending half of the media key engine, for any number   *)
(* of devices, slots, changes and faults:                                  *)
(*   - no pending removal is forgotten (RemovalsAreServed);                *)
(*   - an engine at rest has served its recipients (RecipientsAreCurrent); *)
(*   - QInv, which says how the requests in the worker's queue, the rings  *)
(*     and the rekey under way stand to each other, is kept by every step. *)
(* MediaKeysProofs builds the removal bound on QInv.                       *)
(***************************************************************************)
EXTENDS MediaKeys, TLAPS

Busy == {"install", "wait", "urgent", "decide", "activate"}   \* a rekey whose epoch may still activate

-----------------------------------------------------------------------------
(* What is said of the schedule. *)

(* The recipients of the epoch that is active, or on its way, are the      *)
(* present ones, or another run is bound to come.                          *)
Covered ==
  /\ pc = "idle" => debounce \/ runRetry \/ failedRun \/ activeRecipients = recipients
  /\ pc = "loop" => again \/ debounce \/ activeRecipients = recipients
  /\ pc \in Busy => again \/ debounce \/ rk.recipients = recipients

SInv ==
  /\ RemovalsAreServed
  /\ pc = "loop" /\ removals # {} => again
  /\ paused => removals # {}
  /\ Covered

(* No step loses a pending removal or a change of recipients.  Only Begin, *)
(* setRoster and Activated touch what Covered compares; only Loop and      *)
(* thrown end a run.                                                       *)
LEMMA BeginSchedule ==
  ASSUME SInv, Begin
  PROVE  SInv'
<1>1. PICK delivered \in BOOLEAN : begin(ratchetHead(delivered))
  BY Zenon DEF Begin
<1>2. pc' = "install" /\ recipients' = roster /\ UNCHANGED pauseVars
  BY <1>1, Zenon DEF begin
<1>3. rk'.recipients = roster
  BY <1>1, Zenon DEF begin
<1> QED
  BY <1>2, <1>3, Zenon DEF SInv, RemovalsAreServed, Covered, Busy, pauseVars

LEMMA ScheduleStep ==
  ASSUME SInv, [Next]_vars
  PROVE  SInv'
<1> USE DEF SInv, RemovalsAreServed, Covered, Busy
<1>1. ASSUME NEW S \in SUBSET Devices, setRoster(S) PROVE SInv'
  BY <1>1, Zenon DEF setRoster, epochVars, Micro
<1>2. ASSUME NEW r \in {"membership", "renewal"}, schedule(r) PROVE SInv'
  BY <1>2, Zenon DEF schedule, rosterVars, epochVars, pauseVars, Micro
<1>3. CASE TimedOut
  BY <1>3, Zenon DEF TimedOut, thrown, retried, rosterVars, epochVars, pauseVars
<1>4. CASE RunDebounced
  <2>1. CASE pc = "idle"
    BY <2>1, <1>4, BeginSchedule, Zenon DEF RunDebounced, run
  <2>2. CASE pc # "idle"
    BY <2>2, <1>4, Zenon DEF RunDebounced, run, rosterVars, epochVars, pauseVars, Micro
  <2> QED  BY <2>1, <2>2, Zenon
<1>5. CASE RunRetried
  <2>1. CASE pc = "idle"
    BY <2>1, <1>5, BeginSchedule, Zenon DEF RunRetried, run
  <2>2. CASE pc # "idle"
    BY <2>2, <1>5, Zenon DEF RunRetried, run, rosterVars, epochVars, pauseVars, Micro
  <2> QED  BY <2>1, <2>2, Zenon
<1>6. CASE Loop
  <2>1. CASE again
    BY <2>1, <1>6, BeginSchedule, Zenon DEF Loop
  <2>2. CASE ~again
    BY <2>2, <1>6, Zenon DEF Loop, rosterVars, epochVars, pauseVars
  <2> QED  BY <2>1, <2>2, Zenon
<1>7. CASE NextSlot
  BY <1>7 DEF NextSlot, rosterVars, runVars, epochVars, pauseVars
<1>8. CASE Installed
  BY <1>8, Zenon DEF Installed, rosterVars, runVars, pauseVars
<1>9. CASE WaitOver
  BY <1>9, Zenon DEF WaitOver, rosterVars, runVars, epochVars, pauseVars
<1>10. CASE Preempted
  BY <1>10, Zenon DEF Preempted, withdraw, rosterVars
<1>11. CASE Decide
  <2>1. CASE laterDue
    BY <2>1, <1>11, Zenon DEF Decide, withdraw, rosterVars
  <2>2. CASE ~laterDue
    <3>1. rk' = [rk EXCEPT !.slot = 1] /\ pc = "decide" /\ pc' = "activate"
      BY <2>2, <1>11, Zenon DEF Decide
    <3>2. UNCHANGED <<rosterVars, runVars, activeRecipients, removals, paused>>
      BY <2>2, <1>11, Zenon DEF Decide, runVars
    <3> QED
      BY <3>1, <3>2 DEF rosterVars, runVars
  <2> QED  BY <2>1, <2>2, Zenon
<1>12. CASE Activated
  BY <1>12, Zenon DEF Activated, pausedNow, laterDue, rosterVars
<1>13. CASE Refused
  BY <1>13, Zenon DEF Refused, thrown, retried, rosterVars, epochVars, pauseVars
<1>14. CASE Work
  BY <1>14, Zenon DEF Work, rosterVars, runVars, epochVars, pauseVars
<1>15. CASE RetirePrevious
  BY <1>15 DEF RetirePrevious, rosterVars, runVars, epochVars, pauseVars
<1>16. CASE Deadline
  <2>1. PICK r \in removals : deadline(r)
    BY <1>16, Zenon DEF Deadline
  <2>2. removals # {} /\ removals' # {}
    BY <2>1, Zenon DEF deadline
  <2>3. pc \notin Micro /\ (pc' = pc \/ (pc = "urgent" /\ pc' = "decide")) /\ UNCHANGED <<rosterVars, runVars, rk, epochVars>>
    BY <2>1, Zenon DEF deadline
  <2> QED
    BY <2>2, <2>3, Zenon DEF rosterVars, runVars, epochVars, Micro
<1>17. CASE UNCHANGED vars
  BY <1>17, Zenon DEF vars, rosterVars, runVars, epochVars, pauseVars
<1> QED
  BY <1>1, <1>2, <1>3, <1>4, <1>5, <1>6, <1>7, <1>8, <1>9, <1>10, <1>11, <1>12, <1>13, <1>14, <1>15,
     <1>16, <1>17, Zenon DEF Next, Environment, Rekey

(* A pending removal always has a timer or a run working towards the epoch *)
(* that covers it (media-keys.js:347, 551).                                *)
THEOREM RemovalsServed == Spec => []RemovalsAreServed
<1>1. Init => SInv
  BY Zenon DEF Init, SInv, RemovalsAreServed, Covered, Busy
<1> QED
  BY <1>1, ScheduleStep, PTL DEF Spec, SInv

(* An engine at rest whose last run succeeded has an active epoch made for *)
(* exactly its present recipients, and is not silent (media-keys.js:6-10). *)
THEOREM RecipientsServed == Spec => []RecipientsAreCurrent
<1>1. Init => SInv
  BY Zenon DEF Init, SInv, RemovalsAreServed, Covered, Busy
<1>2. SInv => RecipientsAreCurrent
  BY Zenon DEF SInv, RemovalsAreServed, Covered, RecipientsAreCurrent, quiet
<1> QED
  BY <1>1, <1>2, ScheduleStep, PTL DEF Spec

-----------------------------------------------------------------------------
(* What is said of the worker's queue, its rings, and the page's books. *)

Requests    == {m \in [op : {"key", "activate", "retireOne", "retire"}, slot : 0..NSlots, epoch : Nat, kid : Int, ask : BOOLEAN] :
                  m.op \in {"retireOne", "retire"} => m.slot = 0}
Removals    == [seq : Nat, gone : SUBSET Devices, due : BOOLEAN]
Activations == [epoch : Nat, created : Nat]
Rekeys      == [created : Nat, urgent : BOOLEAN, previous : Nat, recipients : SUBSET Devices, head : BOOLEAN,
                epoch : Nat, kid : Int, chain : SUBSET Devices, slot : 0..NSlots]

(* A ring encrypts under no epoch or a live one. *)
sound(r) ==
  /\ r = [epochs |-> r.epochs, active |-> r.active, retired |-> r.retired]
  /\ r.active = 0 \/ r.active \in Live(r)

PageTypes ==
  /\ pc \in Busy \cup {"idle", "loop", "preempted"} /\ rk \in Rekeys
  /\ {roster, recipients, noted} \subseteq SUBSET Devices
  /\ removals \subseteq Removals /\ activating \subseteq Activations
  /\ changes \in Nat /\ issued \in Nat /\ active \in Nat /\ kid \in Int /\ oldTimers \subseteq Nat
  /\ knows = [e \in DOMAIN knows |-> knows[e]] /\ DOMAIN knows \subseteq Nat
  /\ DOMAIN deliveries \subseteq Nat /\ \A e \in DOMAIN deliveries : deliveries[e].kid \in Int

WorkTypes ==
  /\ wq \in Seq(Requests) /\ reply \in {"none", "ok", "error"}
  /\ DOMAIN ring = Slots /\ ring = [s \in Slots |-> ring[s]] /\ \A s \in Slots : sound(ring[s])

keyed(e) == \E i \in DOMAIN wq : wq[i].op = "key" /\ wq[i].epoch = e

(* The request that is awaited, and how it stands to the rekey. *)
Awaited ==
  /\ reply # "none" => pc \in {"install", "activate"}
  /\ \A i \in DOMAIN wq : wq[i].ask =>
       /\ reply = "none" /\ pc \in {"install", "activate"}
       /\ pc = "install" => wq[i].op = "key" /\ wq[i].epoch = rk.epoch
       /\ pc = "activate" => wq[i].op = "activate" /\ wq[i].slot = rk.slot /\ wq[i].epoch = rk.epoch
       /\ \A j \in DOMAIN wq : wq[j].ask \/ wq[j].op = "activate" => j <= i

(* The key of the rekey's epoch is awaited for as long as it is under way. *)
KeyFirst ==
  /\ \A i \in DOMAIN wq : wq[i].op = "key" /\ pc # "idle" /\ wq[i].epoch = rk.epoch => wq[i].ask /\ pc = "install"
  /\ \A a \in activating : ~keyed(a.epoch)
  /\ ~keyed(active)

(* The slots that were activated already encrypt under the rekey's epoch   *)
(* or not at all, and nothing in the queue changes that.                   *)
activated(s) == s < rk.slot \/ (s = rk.slot /\ reply = "ok")
SlotBySlot ==
  pc = "activate" =>
    /\ rk.slot \in Slots
    /\ rk.slot > 1 \/ reply # "none" => \A i \in DOMAIN wq : wq[i].op = "activate" => wq[i].ask
    /\ \A s \in Slots : activated(s) => ring[s].active \in {0, rk.epoch}

Numbers ==
  /\ active <= issued /\ \A a \in activating : a.epoch <= issued /\ a.created <= changes
  /\ \A i \in DOMAIN wq : wq[i].op = "key" => wq[i].epoch <= issued
  /\ pc # "idle" => rk.epoch = issued /\ rk.epoch # 0 /\ rk.epoch \in DOMAIN knows /\ rk.created <= changes
  /\ pc \in Busy \ {"activate"} => \A a \in activating : a.epoch # rk.epoch
  /\ active # 0 => active \in DOMAIN knows
  /\ \A a \in activating : a.epoch \in DOMAIN knows

QInv == PageTypes /\ WorkTypes /\ Awaited /\ KeyFirst /\ SlotBySlot /\ Numbers

-----------------------------------------------------------------------------
(* The rings. *)

(* Retiring leaves a sound ring without the epoch. *)
LEMMA RetireEpochRing ==
  ASSUME NEW r, NEW e, sound(r)
  PROVE  /\ sound(retireEpoch(r, e))
         /\ Live(retireEpoch(r, e)) = Live(r) \ {e}
         /\ retireEpoch(r, e).active \in {0, r.active}
<1>1. CASE e \notin Live(r)
  BY <1>1, Zenon DEF retireEpoch
<1>2. CASE e \in Live(r)
  BY <1>2, Zenon DEF retireEpoch, sound, Live
<1> QED  BY <1>1, <1>2, Zenon

(* retire leaves a sound ring without the epochs up to the given one. *)
LEMMA RetireRing ==
  ASSUME NEW r, NEW p, sound(r)
  PROVE  /\ sound(retire(r, p))
         /\ Live(retire(r, p)) = {e \in Live(r) : e > p}
         /\ retire(r, p).active \in {0, r.active}
  BY Zenon DEF retire, sound, Live

(* Activating takes a live epoch, or is refused and changes nothing. *)
LEMMA ActivateRing ==
  ASSUME NEW r, NEW e, sound(r)
  PROVE  /\ sound(activate(r, e))
         /\ Live(activate(r, e)) = Live(r)
         /\ activate(r, e).active \in {e, r.active}
         /\ ~activateRefused(r, e) => activate(r, e).active = e
<1>1. CASE activateRefused(r, e)
  BY <1>1, Zenon DEF activate
<1>2. CASE ~activateRefused(r, e)
  <2>1. activate(r, e) = [epochs |-> r.epochs, active |-> e, retired |-> r.retired]
    BY <1>2, Zenon DEF activate, sound
  <2> QED  BY <2>1, <1>2 DEF sound, Live, activateRefused
<1> QED  BY <1>1, <1>2, Zenon

(* Installing a key adds its epoch at most, and activates nothing. *)
LEMMA KeyRing ==
  ASSUME NEW r, NEW e, NEW k, sound(r)
  PROVE  /\ sound(key(r, e, k))
         /\ Live(key(r, e, k)) \subseteq Live(r) \cup {e}
         /\ key(r, e, k).active \in {0, r.active}
<1> DEFINE taken == takeSlot(r, k)
           freed == evictOldest(taken)
<1>1. sound(taken) /\ Live(taken) \subseteq Live(r) /\ taken.active \in {0, r.active}
  BY RetireEpochRing, Zenon DEF takeSlot
<1> HIDE DEF taken
<1>2. sound(freed) /\ Live(freed) \subseteq Live(taken) /\ freed.active \in {0, taken.active}
  BY <1>1, RetireEpochRing DEF evictOldest
<1> HIDE DEF freed
<1>3. CASE keyRefused(r, e, k) \/ e \in Live(r)
  BY <1>3, Zenon DEF key
<1>4. CASE ~(keyRefused(r, e, k) \/ e \in Live(r))
  <2> DEFINE es == [x \in Live(freed) \cup {e} |-> IF x = e THEN k ELSE freed.epochs[x]]
  <2>1. key(r, e, k) = [freed EXCEPT !.epochs = es]
    BY <1>4, Zenon DEF key, taken, freed
  <2>2. DOMAIN es = Live(freed) \cup {e}
    BY Zenon
  <2> HIDE DEF es
  <2>3. key(r, e, k) = [epochs |-> es, active |-> freed.active, retired |-> freed.retired]
    BY <2>1, <1>2, Zenon DEF sound
  <2> QED  BY <2>2, <2>3, <1>1, <1>2 DEF sound, Live
<1> QED  BY <1>3, <1>4, Zenon

(* What any request may do to a ring. *)
LEMMA AppliedRing ==
  ASSUME NEW r, NEW m \in Requests, sound(r)
  PROVE  /\ sound(applied(r, m))
         /\ \A e \in Live(applied(r, m)) : e \in Live(r) \/ (m.op = "key" /\ e = m.epoch)
         /\ m.op = "retireOne" => m.epoch \notin Live(applied(r, m))
         /\ m.op = "retire" => \A e \in Live(applied(r, m)) : e > m.epoch
         /\ applied(r, m).active \in {0, r.active} \/ (m.op = "activate" /\ applied(r, m).active = m.epoch)
         /\ m.op = "activate" /\ ~refused(r, m) => applied(r, m).active = m.epoch
<1>1. CASE m.op = "key"
  BY <1>1, KeyRing DEF applied
<1>2. CASE m.op = "activate"
  BY <1>2, ActivateRing, Zenon DEF applied, refused
<1>3. CASE m.op = "retireOne"
  BY <1>3, RetireEpochRing DEF applied, retireOne
<1>4. CASE m.op = "retire"
  BY <1>4, RetireRing DEF applied
<1> QED  BY <1>1, <1>2, <1>3, <1>4, Zenon DEF Requests

-----------------------------------------------------------------------------
(* What the steps do to the queue. *)

(* The page adds nothing but orders to retire. *)
OnlyRetires ==
  /\ wq' \in Seq(Requests) /\ DOMAIN wq \subseteq DOMAIN wq'
  /\ \A i \in DOMAIN wq : wq'[i] = wq[i]
  /\ \A i \in DOMAIN wq' \ DOMAIN wq : wq'[i].op \in {"retireOne", "retire"} /\ ~wq'[i].ask

LEMMA Pushed ==
  ASSUME wq \in Seq(Requests), NEW m \in Requests, wq' = Append(wq, m)
  PROVE  /\ wq' \in Seq(Requests)
         /\ DOMAIN wq = 1..Len(wq) /\ DOMAIN wq' = 1..(Len(wq) + 1) /\ Len(wq) \in Nat
         /\ \A i \in DOMAIN wq : wq'[i] = wq[i]
         /\ wq'[Len(wq) + 1] = m
  OBVIOUS

LEMMA Entries ==
  ASSUME wq \in Seq(Requests)
  PROVE  \A i \in DOMAIN wq : wq[i] \in Requests /\ wq[i].epoch \in Nat
<1>1. \A i \in DOMAIN wq : wq[i] \in Requests
  OBVIOUS
<1> QED  BY <1>1, Zenon DEF Requests

LEMMA PushedRetire ==
  ASSUME wq \in Seq(Requests), NEW op \in {"retireOne", "retire"}, NEW e \in Nat, wq' = Append(wq, post(op, e))
  PROVE  OnlyRetires /\ \E i \in DOMAIN wq' : wq'[i].op = op /\ wq'[i].epoch = e
<1>1. post(op, e) \in Requests /\ post(op, e).op = op /\ post(op, e).epoch = e /\ ~post(op, e).ask
  BY KeysConstants DEF post, Requests
<1>2. DOMAIN wq' \ DOMAIN wq = {Len(wq) + 1} /\ Len(wq) + 1 \in DOMAIN wq'
  BY <1>1, Pushed
<1> QED  BY <1>1, <1>2, Pushed DEF OnlyRetires

LEMMA Kept ==
  ASSUME wq \in Seq(Requests), wq' = wq
  PROVE  OnlyRetires
  BY Zenon DEF OnlyRetires

LEMMA Popped ==
  ASSUME WorkTypes, Work
  PROVE  /\ wq' \in Seq(Requests) /\ Len(wq) \in Nat \ {0} /\ Head(wq) = wq[1]
         /\ DOMAIN wq = 1..Len(wq) /\ DOMAIN wq' = 1..(Len(wq) - 1)
         /\ \A i \in DOMAIN wq' : wq'[i] = wq[i + 1]
         /\ 1 \in DOMAIN wq /\ wq[1] \in Requests
  BY DEF WorkTypes, Work

LEMMA BeginEffect ==
  ASSUME QInv, Begin
  PROVE  /\ pc' = "install" /\ recipients' = roster
         /\ rk' \in Rekeys /\ rk'.created = changes /\ rk'.recipients = roster /\ rk'.epoch = issued'
         /\ issued' \in Nat /\ issued' > issued
         /\ wq' = Append(wq, [op |-> "key", slot |-> 0, epoch |-> issued', kid |-> rk'.kid, ask |-> TRUE])
         /\ knows' = [x \in DOMAIN knows \cup {issued'} |-> knows'[x]]
         /\ \A x \in DOMAIN knows \ {issued'} : knows'[x] = knows[x]
         /\ roster \subseteq rk'.chain
         /\ \/ knows'[issued'] = {}
            \/ /\ knows'[issued'] = knows[active] /\ active \in DOMAIN deliveries
               /\ deliveries[active].chain \subseteq roster \cap rk'.chain
         /\ UNCHANGED <<roster, noted, changes, kid, active, deliveries, removals, paused, activating, reply, ring, oldTimers>>
<1>1. PICK delivered \in BOOLEAN : begin(ratchetHead(delivered))
  BY Zenon DEF Begin
<1> DEFINE head == ratchetHead(delivered)
<1>2. head \in BOOLEAN
  BY Zenon DEF ratchetHead
<1>3. head => active # 0 /\ issued = active /\ active \in DOMAIN deliveries /\ deliveries[active].chain \subseteq roster
  BY Zenon DEF ratchetHead
<1> HIDE DEF head
<1>4. nextEpoch(head) \in Nat /\ nextEpoch(head) > issued
  BY <1>3 DEF nextEpoch, QInv, PageTypes
<1>5. nextKid(head) \in Int
  <2>1. \A n \in Int : n % KEYRING \in Int
    BY RingBounds
  <2> QED  BY <2>1, <1>3 DEF nextKid, QInv, PageTypes
<1>6. begin(head)
  BY <1>1, Zenon DEF head
<1>7. issued' = nextEpoch(head) /\ pc' = "install" /\ recipients' = roster
  BY <1>6, Zenon DEF begin
<1>8. rk' = [created |-> changes, urgent |-> removals # {}, previous |-> active, recipients |-> roster,
             head |-> head, epoch |-> issued', kid |-> nextKid(head),
             chain |-> IF head THEN roster \cup deliveries[active].chain ELSE roster, slot |-> 0]
  BY <1>6, Zenon DEF begin
<1>9. (IF head THEN roster \cup deliveries[active].chain ELSE roster) \in SUBSET Devices
  BY <1>3, Zenon DEF QInv, PageTypes
<1>10. rk' \in Rekeys
  BY <1>8, <1>9, <1>7, <1>4, <1>5, <1>2, KeysConstants DEF Rekeys, QInv, PageTypes
<1>11. rk'.created = changes /\ rk'.recipients = roster /\ rk'.epoch = issued' /\ rk'.kid = nextKid(head)
  BY <1>8, Zenon
<1>12. roster \subseteq rk'.chain /\ (head => deliveries[active].chain \subseteq roster \cap rk'.chain)
  BY <1>8, <1>3, Zenon
<1>13. wq' = Append(wq, [op |-> "key", slot |-> 0, epoch |-> issued', kid |-> rk'.kid, ask |-> TRUE])
  BY <1>6, <1>11, <1>7, Zenon DEF begin
<1>14. knows' = [x \in DOMAIN knows \cup {issued'} |-> IF x # issued' THEN knows[x] ELSE IF head THEN knows[active] ELSE {}]
  BY <1>6, <1>7, Zenon DEF begin
<1>15. UNCHANGED <<roster, noted, changes, kid, active, deliveries, removals, paused, activating, reply, ring, oldTimers>>
  BY <1>6, Zenon DEF begin, pauseVars
<1> QED
  BY <1>3, <1>4, <1>7, <1>10, <1>11, <1>12, <1>13, <1>14, <1>15, Zenon

LEMMA WorkEffect ==
  ASSUME WorkTypes, Work
  PROVE  /\ WorkTypes'
         /\ \A s \in Slots :
              /\ \A e \in Live(ring'[s]) : e \in Live(ring[s]) \/ (wq[1].op = "key" /\ e = wq[1].epoch)
              /\ wq[1].slot \in {0, s} /\ wq[1].op = "retireOne" => wq[1].epoch \notin Live(ring'[s])
              /\ wq[1].slot \in {0, s} /\ wq[1].op = "retire" => \A e \in Live(ring'[s]) : e > wq[1].epoch
              /\ \/ ring'[s].active \in {0, ring[s].active}
                 \/ wq[1].slot \in {0, s} /\ wq[1].op = "activate" /\ ring'[s].active = wq[1].epoch
              /\ wq[1].slot \in {0, s} /\ wq[1].op = "activate" /\ wq[1].ask /\ reply' = "ok" => ring'[s].active = wq[1].epoch
         /\ IF wq[1].ask THEN reply' \in {"ok", "error"} ELSE reply' = reply
<1> DEFINE m == wq[1]
<1>1. m \in Requests /\ Head(wq) = m /\ wq' \in Seq(Requests)
  BY Popped, Zenon
<1>2. ring' = [s \in Slots |-> IF m.slot \in {0, s} THEN applied(ring[s], m) ELSE ring[s]]
  BY <1>1, Zenon DEF Work
<1>3. reply' = IF ~m.ask THEN reply ELSE IF \E s \in Slots : m.slot \in {0, s} /\ refused(ring[s], m) THEN "error" ELSE "ok"
  BY <1>1, Zenon DEF Work
<1>4. \A s \in Slots : sound(ring[s])
  BY Zenon DEF WorkTypes
<1> HIDE DEF m
<1>5. \A s \in Slots : sound(ring'[s])
  BY <1>1, <1>2, <1>4, AppliedRing, Zenon
<1>6. WorkTypes'
  BY <1>1, <1>2, <1>3, <1>5 DEF WorkTypes
<1>7. ASSUME NEW s \in Slots
      PROVE  /\ \A e \in Live(ring'[s]) : e \in Live(ring[s]) \/ (m.op = "key" /\ e = m.epoch)
             /\ m.slot \in {0, s} /\ m.op = "retireOne" => m.epoch \notin Live(ring'[s])
             /\ m.slot \in {0, s} /\ m.op = "retire" => \A e \in Live(ring'[s]) : e > m.epoch
             /\ \/ ring'[s].active \in {0, ring[s].active}
                \/ m.slot \in {0, s} /\ m.op = "activate" /\ ring'[s].active = m.epoch
             /\ m.slot \in {0, s} /\ m.op = "activate" /\ m.ask /\ reply' = "ok" => ring'[s].active = m.epoch
  <2>1. CASE m.slot \in {0, s}
    BY <2>1, <1>1, <1>2, <1>3, <1>4, AppliedRing
  <2>2. CASE m.slot \notin {0, s}
    BY <2>2, <1>2, Zenon
  <2> QED  BY <2>1, <2>2, Zenon
<1>8. IF m.ask THEN reply' \in {"ok", "error"} ELSE reply' = reply
  BY <1>3, Zenon
<1> QED
  BY <1>6, <1>7, <1>8, Zenon DEF m

-----------------------------------------------------------------------------
(* QInv is inductive. *)

(* Steps that end a wait or withdraw an epoch, and add orders to retire. *)
Aside ==
  /\ OnlyRetires /\ UNCHANGED <<reply, ring, rk, issued, active, knows>>
  /\ activating' \subseteq activating /\ changes' \in {changes, changes + 1}
  /\ \/ pc' = pc
     \/ pc \in {"wait", "urgent"} /\ pc' \in {"decide", "preempted"}
     \/ pc \in {"preempted", "decide"} /\ pc' = "loop"

LEMMA SameKeys ==
  ASSUME WorkTypes, OnlyRetires
  PROVE  /\ \A e : keyed(e)' <=> keyed(e)
         /\ \A i \in DOMAIN wq' : wq'[i].op \in {"key", "activate"} \/ wq'[i].ask => i \in DOMAIN wq /\ wq'[i] = wq[i]
<1>1. \A i \in DOMAIN wq' : wq'[i].op \in {"key", "activate"} \/ wq'[i].ask => i \in DOMAIN wq /\ wq'[i] = wq[i]
  BY Zenon DEF OnlyRetires
<1>2. ASSUME NEW e PROVE keyed(e)' <=> keyed(e)
  BY <1>1, Zenon DEF keyed, OnlyRetires
<1> QED  BY <1>1, <1>2, Zenon

LEMMA AsideStep ==
  ASSUME QInv, Aside, PageTypes'
  PROVE  QInv'
<1>1. WorkTypes /\ WorkTypes' /\ PageTypes
  BY Zenon DEF QInv, WorkTypes, Aside, OnlyRetires
<1>2. /\ \A e : keyed(e)' <=> keyed(e)
      /\ \A i \in DOMAIN wq' : wq'[i].op \in {"key", "activate"} \/ wq'[i].ask => i \in DOMAIN wq /\ wq'[i] = wq[i]
  BY <1>1, SameKeys, Zenon DEF Aside
<1>3. Awaited'
  BY <1>2 DEF QInv, Awaited, Aside
<1>4. KeyFirst'
  BY <1>2, Zenon DEF QInv, KeyFirst, Aside
<1>5. SlotBySlot'
  BY <1>2, Zenon DEF QInv, SlotBySlot, activated, Aside
<1>6. Numbers'
  <2>1. \A a \in activating : a.epoch <= issued /\ a.created <= changes'
    BY <1>1 DEF QInv, Numbers, Aside, PageTypes, Activations
  <2>2. \A i \in DOMAIN wq' : wq'[i].op = "key" => wq'[i].epoch <= issued
    BY <1>2, Zenon DEF QInv, Numbers
  <2>3. pc' # "idle" => rk.created <= changes'
    BY <1>1 DEF QInv, Numbers, Aside, PageTypes, Rekeys
  <2> QED  BY <2>1, <2>2, <2>3, Zenon DEF QInv, Numbers, Aside, Busy
<1> QED  BY <1>1, <1>3, <1>4, <1>5, <1>6, Zenon DEF QInv

(* A run begins when none is under way. *)
LEMMA BeginStep ==
  ASSUME QInv, Begin, pc \in {"idle", "loop"}
  PROVE  QInv'
<1> DEFINE m == [op |-> "key", slot |-> 0, epoch |-> issued', kid |-> rk'.kid, ask |-> TRUE]
<1>0. /\ pc' = "install" /\ recipients' = roster
      /\ rk' \in Rekeys /\ rk'.created = changes /\ rk'.recipients = roster /\ rk'.epoch = issued'
      /\ issued' \in Nat /\ issued' > issued
      /\ knows' = [x \in DOMAIN knows \cup {issued'} |-> knows'[x]]
      /\ UNCHANGED <<roster, noted, changes, kid, active, deliveries, removals, paused, activating, reply, ring, oldTimers>>
  BY BeginEffect, Zenon
<1>1. m \in Requests /\ wq' = Append(wq, m)
  BY <1>0, BeginEffect, KeysConstants DEF Requests, Rekeys
<1>2. m.op = "key" /\ m.epoch = issued' /\ m.ask
  BY Zenon
<1> HIDE DEF m
<1>3. wq \in Seq(Requests)
  BY Zenon DEF QInv, WorkTypes
<1>4. /\ wq' \in Seq(Requests) /\ DOMAIN wq = 1..Len(wq) /\ DOMAIN wq' = 1..(Len(wq) + 1) /\ Len(wq) \in Nat
      /\ \A i \in DOMAIN wq : wq'[i] = wq[i]
      /\ wq'[Len(wq) + 1] = m
  BY <1>1, <1>3, Pushed, Zenon
<1>5. reply = "none" /\ \A i \in DOMAIN wq : ~wq[i].ask
  BY Zenon DEF QInv, Awaited
<1>6. \A i \in DOMAIN wq' : (i \in DOMAIN wq /\ wq'[i] = wq[i]) \/ (i = Len(wq) + 1 /\ wq'[i] = m)
  BY <1>4
<1>7. DOMAIN knows' = DOMAIN knows \cup {issued'}
  BY <1>0, Zenon
<1>8. PageTypes'
  BY <1>0, <1>7 DEF QInv, PageTypes, Busy
<1>9. WorkTypes'
  BY <1>0, <1>4, Zenon DEF QInv, WorkTypes
<1>10. Awaited'
  BY <1>0, <1>2, <1>4, <1>5, <1>6 DEF Awaited
<1>11. \A e \in Nat : e <= issued => (keyed(e)' <=> keyed(e))
  <2>1. issued \in Nat
    BY Zenon DEF QInv, PageTypes
  <2>2. ASSUME NEW e \in Nat, e <= issued PROVE e # m.epoch
    BY <2>1, <2>2, <1>0, <1>2
  <2>3. ASSUME NEW e, e # m.epoch PROVE keyed(e)' <=> keyed(e)
    BY <2>3, <1>4, <1>6 DEF keyed
  <2> QED  BY <2>2, <2>3, Zenon
<1>12. \A i \in DOMAIN wq : wq[i].op = "key" => wq[i].epoch # issued' /\ wq[i].epoch <= issued'
  <2>1. issued \in Nat /\ \A i \in DOMAIN wq : wq[i].epoch \in Nat
    BY <1>3, Entries, Zenon DEF QInv, PageTypes
  <2>2. \A i \in DOMAIN wq : wq[i].op = "key" => wq[i].epoch <= issued
    BY Zenon DEF QInv, Numbers
  <2> QED  BY <2>1, <2>2, <1>0
<1>13. KeyFirst'
  <2>1. \A a \in activating : a.epoch \in Nat /\ a.epoch <= issued
    BY Zenon DEF QInv, Numbers, PageTypes, Activations
  <2>2. active \in Nat /\ active <= issued
    BY Zenon DEF QInv, Numbers, PageTypes
  <2>3. \A i \in DOMAIN wq' : wq'[i].op = "key" /\ wq'[i].epoch = issued' => wq'[i].ask
    BY <1>2, <1>6, <1>12, Zenon
  <2>4. ~keyed(active)' /\ \A a \in activating : ~keyed(a.epoch)'
    BY <2>1, <2>2, <1>11, <1>0, Zenon DEF QInv, KeyFirst
  <2> QED  BY <2>3, <2>4, <1>0, Zenon DEF KeyFirst
<1>14. SlotBySlot'
  BY <1>0, Zenon DEF SlotBySlot
<1>15. Numbers'
  <2>1. active <= issued' /\ \A a \in activating : a.epoch <= issued' /\ a.epoch # issued'
    BY <1>0 DEF QInv, Numbers, PageTypes, Activations
  <2>2. \A i \in DOMAIN wq' : wq'[i].op = "key" => wq'[i].epoch <= issued'
    BY <1>0, <1>2, <1>6, <1>12
  <2>3. issued' # 0 /\ rk'.created <= changes /\ rk'.epoch \in DOMAIN knows'
    BY <1>0, <1>7 DEF QInv, PageTypes
  <2> QED  BY <2>1, <2>2, <2>3, <1>0, <1>7, Zenon DEF QInv, Numbers
<1> QED  BY <1>8, <1>9, <1>10, <1>13, <1>14, <1>15, Zenon DEF QInv

(* A rekey ends, and what it awaited is awaited no more. *)
Ended ==
  /\ pc' = "idle" /\ rk' = noRekey /\ reply' = "none"
  /\ wq' \in Seq(Requests) /\ DOMAIN wq' = DOMAIN wq
  /\ \A i \in DOMAIN wq : wq'[i].op = wq[i].op /\ wq'[i].epoch = wq[i].epoch /\ ~wq'[i].ask
  /\ UNCHANGED <<roster, recipients, noted, changes, issued, active, kid, knows, deliveries, removals, activating, ring, oldTimers>>

LEMMA EndedStep ==
  ASSUME QInv, Ended
  PROVE  QInv'
<1>1. noRekey \in Rekeys
  BY KeysConstants DEF noRekey, Rekeys
<1>2. PageTypes'
  BY <1>1, Zenon DEF QInv, PageTypes, Ended
<1>3. WorkTypes'
  BY Zenon DEF QInv, WorkTypes, Ended
<1>4. Awaited'
  BY Zenon DEF Awaited, Ended
<1>5. \A e : keyed(e)' <=> keyed(e)
  BY Zenon DEF keyed, Ended
<1>6. KeyFirst'
  BY <1>5, Zenon DEF QInv, KeyFirst, Ended
<1>7. SlotBySlot'
  BY Zenon DEF SlotBySlot, Ended
<1>8. Numbers'
  BY Zenon DEF QInv, Numbers, Ended, Busy
<1> QED  BY <1>2, <1>3, <1>4, <1>6, <1>7, <1>8, Zenon DEF QInv

LEMMA ThrownEnds ==
  ASSUME QInv, Refused \/ TimedOut \/ (Loop /\ ~again)
  PROVE  Ended
<1>0. wq \in Seq(Requests) /\ \A i \in DOMAIN wq : wq[i] \in Requests
  BY Entries, Zenon DEF QInv, WorkTypes
<1>1. CASE Refused
  <2>1. \A i \in DOMAIN wq : ~wq[i].ask
    BY <1>1, Zenon DEF QInv, Awaited, Refused
  <2> QED  BY <2>1, <1>0, <1>1, Zenon DEF Refused, thrown, Ended, rosterVars, epochVars, pauseVars
<1>2. CASE TimedOut
  <2>1. wq' = [i \in DOMAIN wq |-> [wq[i] EXCEPT !.ask = FALSE]] /\ thrown
    BY <1>2, Zenon DEF TimedOut
  <2>2. \A i \in DOMAIN wq : /\ wq'[i] \in Requests
                             /\ wq'[i].op = wq[i].op /\ wq'[i].epoch = wq[i].epoch /\ ~wq'[i].ask
    BY <2>1, <1>0, Zenon DEF Requests
  <2>3. DOMAIN wq' = DOMAIN wq /\ wq' = [i \in DOMAIN wq |-> wq'[i]] /\ DOMAIN wq = 1..Len(wq) /\ Len(wq) \in Nat
    BY <2>1, <1>0
  <2>4. wq' \in Seq(Requests)
    BY <2>2, <2>3
  <2> QED  BY <2>1, <2>2, <2>3, <2>4, Zenon DEF thrown, Ended, rosterVars, epochVars, pauseVars
<1>3. CASE Loop /\ ~again
  <2>1. reply = "none" /\ \A i \in DOMAIN wq : ~wq[i].ask
    BY <1>3, Zenon DEF QInv, Awaited, Loop
  <2> QED  BY <2>1, <1>0, <1>3, Zenon DEF Loop, Ended, rosterVars, epochVars, pauseVars, workVars
<1> QED  BY <1>1, <1>2, <1>3, Zenon

(* The next slot is asked to activate. *)
Asks(n) ==
  /\ pc' = "activate" /\ rk' = [rk EXCEPT !.slot = n] /\ reply' = "none" /\ wq' = Append(wq, activateSlot(n))
  /\ activating' \in {activating, activating \cup {[epoch |-> rk.epoch, created |-> rk.created]}}
  /\ UNCHANGED <<roster, recipients, noted, changes, issued, active, kid, knows, deliveries, removals, ring, oldTimers>>

LEMMA AsksStep ==
  ASSUME QInv, NEW n \in Slots, Asks(n),
         (pc = "decide" /\ n = 1) \/ (pc = "activate" /\ reply = "ok" /\ n = rk.slot + 1)
  PROVE  QInv'
<1> DEFINE m == activateSlot(n)
           b == [epoch |-> rk.epoch, created |-> rk.created]
<1>1. rk \in Rekeys /\ rk.epoch \in Nat /\ rk.created \in Nat /\ n \in 1..NSlots /\ rk.slot \in 0..NSlots /\ NSlots \in Nat
  BY KeysConstants, Zenon DEF QInv, PageTypes, Rekeys, Slots
<1>2. m \in Requests /\ m.op = "activate" /\ m.slot = n /\ m.epoch = rk.epoch /\ m.ask
  BY <1>1 DEF activateSlot, Requests
<1>3. wq' = Append(wq, m) /\ wq \in Seq(Requests)
  BY Zenon DEF Asks, QInv, WorkTypes
<1> HIDE DEF m
<1>4. /\ wq' \in Seq(Requests) /\ DOMAIN wq = 1..Len(wq) /\ DOMAIN wq' = 1..(Len(wq) + 1) /\ Len(wq) \in Nat
      /\ \A i \in DOMAIN wq : wq'[i] = wq[i]
      /\ wq'[Len(wq) + 1] = m
  BY <1>2, <1>3, Pushed, Zenon
<1>5. \A i \in DOMAIN wq' : (i \in DOMAIN wq /\ wq'[i] = wq[i]) \/ (i = Len(wq) + 1 /\ wq'[i] = m)
  BY <1>4
<1>6. \A i \in DOMAIN wq : ~wq[i].ask
  BY Zenon DEF QInv, Awaited
<1>7. rk' \in Rekeys /\ rk'.epoch = rk.epoch /\ rk'.created = rk.created /\ rk'.slot = n
  BY <1>1 DEF Asks, Rekeys
<1>8. \A a \in activating' : a \in activating \/ a = b
  BY Zenon DEF Asks
<1>9. b \in Activations /\ b.epoch = rk.epoch /\ b.created = rk.created
  BY <1>1, Zenon DEF Activations
<1> HIDE DEF b
<1>10. activating' \subseteq Activations
  BY <1>8, <1>9, Zenon DEF QInv, PageTypes
<1>11. PageTypes'
  BY <1>7, <1>10, Zenon DEF QInv, PageTypes, Asks, Busy
<1>12. WorkTypes'
  BY <1>4, Zenon DEF QInv, WorkTypes, Asks
<1>13. Awaited'
  BY <1>2, <1>4, <1>5, <1>6, <1>7 DEF Awaited, Asks
<1>14. \A e : keyed(e)' <=> keyed(e)
  BY <1>2, <1>4, <1>5 DEF keyed
<1>15. \A i \in DOMAIN wq : wq[i].op = "key" => wq[i].epoch # rk.epoch
  BY <1>6, Zenon DEF QInv, KeyFirst
<1>16. KeyFirst'
  <2>1. \A i \in DOMAIN wq' : wq'[i].op = "key" => wq'[i].epoch # rk'.epoch
    BY <1>2, <1>5, <1>7, <1>15, Zenon
  <2>2. ~keyed(b.epoch)
    BY <1>9, <1>15, Zenon DEF keyed
  <2>3. \A a \in activating' : ~keyed(a.epoch)'
    BY <2>2, <1>8, <1>14, Zenon DEF QInv, KeyFirst
  <2>4. ~keyed(active)'
    BY <1>14, Zenon DEF QInv, KeyFirst, Asks
  <2> QED  BY <2>1, <2>3, <2>4, Zenon DEF KeyFirst
<1>17. SlotBySlot'
  <2>1. CASE pc = "decide" /\ n = 1
    BY <2>1, <1>7 DEF SlotBySlot, activated, Asks, Slots
  <2>2. CASE pc = "activate" /\ reply = "ok" /\ n = rk.slot + 1
    <3>1. \A s \in Slots : s < n => s < rk.slot \/ s = rk.slot
      BY <2>2, <1>1 DEF Slots
    <3>2. \A s \in Slots : s < n => ring[s].active \in {0, rk.epoch}
      BY <3>1, <2>2, Zenon DEF QInv, SlotBySlot, activated
    <3>3. \A i \in DOMAIN wq : wq[i].op # "activate"
      BY <2>2, <1>6, Zenon DEF QInv, SlotBySlot
    <3> QED  BY <3>2, <3>3, <1>2, <1>5, <1>7 DEF SlotBySlot, activated, Asks
  <2> QED  BY <2>1, <2>2, Zenon
<1>18. Numbers'
  <2>1. \A a \in activating' : a.epoch <= issued /\ a.created <= changes /\ a.epoch \in DOMAIN knows
    BY <1>8, <1>9, <1>1 DEF QInv, Numbers, PageTypes
  <2>2. \A i \in DOMAIN wq' : wq'[i].op = "key" => wq'[i].epoch <= issued
    BY <1>2, <1>5, Zenon DEF QInv, Numbers
  <2> QED  BY <2>1, <2>2, <1>7, Zenon DEF QInv, Numbers, Asks
<1> QED  BY <1>11, <1>12, <1>13, <1>16, <1>17, <1>18, Zenon DEF QInv

LEMMA InstalledStep ==
  ASSUME QInv, Installed
  PROVE  QInv'
<1>1. /\ pc = "install" /\ pc' \in {"urgent", "preempted", "decide", "wait"} /\ reply = "ok" /\ reply' = "none"
      /\ UNCHANGED <<roster, recipients, noted, changes, issued, active, removals, activating, ring, wq, rk, oldTimers>>
  BY Zenon DEF Installed, rosterVars, pauseVars
<1>2. kid' = rk.kid /\ rk.kid \in Int /\ rk.epoch \in Nat
  BY Zenon DEF Installed, QInv, PageTypes, Rekeys
<1>3. DOMAIN deliveries' = DOMAIN deliveries \cup {rk.epoch} /\ \A e \in DOMAIN deliveries' : deliveries'[e].kid \in Int
  BY <1>2, Zenon DEF Installed, QInv, PageTypes
<1>4. DOMAIN knows' = DOMAIN knows /\ knows' = [e \in DOMAIN knows |-> knows'[e]]
  BY Zenon DEF Installed, QInv, PageTypes
<1>5. PageTypes'
  BY <1>1, <1>2, <1>3, <1>4, Zenon DEF QInv, PageTypes, Busy
<1>6. WorkTypes'
  BY <1>1, Zenon DEF QInv, WorkTypes
<1>7. \A i \in DOMAIN wq : ~wq[i].ask
  BY <1>1, Zenon DEF QInv, Awaited
<1>8. Awaited'
  BY <1>1, <1>7, Zenon DEF Awaited
<1>9. \A e : keyed(e)' <=> keyed(e)
  BY <1>1, Zenon DEF keyed
<1>10. KeyFirst'
  BY <1>1, <1>7, <1>9, Zenon DEF QInv, KeyFirst
<1>11. SlotBySlot'
  BY <1>1, Zenon DEF SlotBySlot
<1>12. Numbers'
  BY <1>1, <1>4, Zenon DEF QInv, Numbers, Busy
<1> QED  BY <1>5, <1>6, <1>8, <1>10, <1>11, <1>12, Zenon DEF QInv

(* When every slot is activated, the epoch is the newest and the only one  *)
(* that is hot, and no activation is under way.                            *)
LEMMA ActivatedEffect ==
  ASSUME QInv, Activated
  PROVE  /\ pc = "activate" /\ pc' = "loop" /\ reply' = "none" /\ OnlyRetires
         /\ active' = rk.epoch /\ activating' = {} /\ removals' = later /\ paused' = laterDue
         /\ DOMAIN knows' = {e \in DOMAIN knows : e >= rk.epoch} /\ \A e \in DOMAIN knows' : knows'[e] = knows[e]
         /\ DOMAIN deliveries' = {e \in DOMAIN deliveries : e >= rk.epoch}
         /\ \A e \in DOMAIN deliveries' : deliveries'[e] = deliveries[e]
         /\ knows' = [e \in DOMAIN knows' |-> knows'[e]]
         /\ rk.epoch \in Nat \ {0} /\ rk.epoch \in DOMAIN knows'
         /\ laterDue => \E i \in DOMAIN wq' : wq'[i].op = "retireOne" /\ wq'[i].epoch = rk.epoch
         /\ \A i \in DOMAIN wq' : wq'[i].op # "activate" /\ ~wq'[i].ask
         /\ \A s \in Slots : ring[s].active \in {0, rk.epoch}
         /\ oldTimers' \subseteq Nat /\ UNCHANGED <<roster, recipients, noted, changes, issued, kid, ring, rk>>
<1>1. /\ pc = "activate" /\ pc' = "loop" /\ reply = "ok" /\ reply' = "none" /\ rk.slot = NSlots
      /\ active' = rk.epoch /\ removals' = later /\ paused' = laterDue
      /\ activating' = {a \in activating : a.epoch > rk.epoch}
      /\ wq' = IF laterDue THEN Append(wq, post("retireOne", rk.epoch)) ELSE wq
      /\ deliveries' = [e \in {x \in DOMAIN deliveries : x >= rk.epoch} |-> deliveries[e]]
      /\ knows' = [e \in {x \in DOMAIN knows : x >= rk.epoch} |-> knows[e]]
      /\ UNCHANGED <<roster, recipients, noted, changes, issued, kid, ring, rk>>
  BY Zenon DEF Activated, pausedNow, rosterVars
<1>2. rk.epoch \in Nat \ {0} /\ rk.epoch = issued /\ rk.epoch \in DOMAIN knows /\ wq \in Seq(Requests)
  BY <1>1, Zenon DEF QInv, PageTypes, Numbers, Rekeys, WorkTypes
<1>3. activating' = {}
  BY <1>1, <1>2 DEF QInv, Numbers, PageTypes, Activations
<1>4. OnlyRetires /\ (laterDue => \E i \in DOMAIN wq' : wq'[i].op = "retireOne" /\ wq'[i].epoch = rk.epoch)
  <2>1. CASE laterDue
    BY <2>1, <1>1, <1>2, PushedRetire, Zenon
  <2>2. CASE ~laterDue
    BY <2>2, <1>1, <1>2, Kept, Zenon
  <2> QED  BY <2>1, <2>2, Zenon
<1>5. \A i \in DOMAIN wq : ~wq[i].ask /\ wq[i].op # "activate"
  BY <1>1, Zenon DEF QInv, Awaited, SlotBySlot
<1>6. \A i \in DOMAIN wq' : wq'[i].op # "activate" /\ ~wq'[i].ask
  BY <1>4, <1>5, Zenon DEF OnlyRetires
<1>7. \A s \in Slots : activated(s)
  BY <1>1, KeysConstants DEF activated, Slots
<1>8. \A s \in Slots : ring[s].active \in {0, rk.epoch}
  BY <1>1, <1>7, Zenon DEF QInv, SlotBySlot
<1>9. rk.epoch \in {e \in DOMAIN knows : e >= rk.epoch}
  BY <1>2
<1>10. oldTimers' \subseteq Nat
  BY Zenon DEF Activated, QInv, PageTypes, Rekeys
<1> QED  BY <1>1, <1>2, <1>3, <1>4, <1>6, <1>8, <1>9, <1>10, Zenon

LEMMA ActivatedStep ==
  ASSUME QInv, Activated
  PROVE  QInv'
<1>1. /\ pc = "activate" /\ pc' = "loop" /\ reply' = "none" /\ OnlyRetires
      /\ active' = rk.epoch /\ activating' = {} /\ removals' = later
      /\ DOMAIN knows' = {e \in DOMAIN knows : e >= rk.epoch}
      /\ DOMAIN deliveries' = {e \in DOMAIN deliveries : e >= rk.epoch}
      /\ \A e \in DOMAIN deliveries' : deliveries'[e] = deliveries[e]
      /\ knows' = [e \in DOMAIN knows' |-> knows'[e]]
      /\ rk.epoch \in Nat \ {0} /\ rk.epoch \in DOMAIN knows'
      /\ \A i \in DOMAIN wq' : wq'[i].op # "activate" /\ ~wq'[i].ask
      /\ oldTimers' \subseteq Nat /\ UNCHANGED <<roster, recipients, noted, changes, issued, kid, ring, rk>>
  BY ActivatedEffect, Zenon
<1>2. WorkTypes /\ WorkTypes'
  BY <1>1, Zenon DEF QInv, WorkTypes, OnlyRetires
<1>3. /\ \A e : keyed(e)' <=> keyed(e)
      /\ \A i \in DOMAIN wq' : wq'[i].op = "key" => i \in DOMAIN wq /\ wq'[i] = wq[i]
  BY <1>1, <1>2, SameKeys, Zenon
<1>4. activating' \subseteq Activations /\ removals' \subseteq Removals
  BY <1>1, Zenon DEF QInv, PageTypes, later
<1>5. PageTypes'
  BY <1>1, <1>4, Zenon DEF QInv, PageTypes
<1>6. Awaited'
  BY <1>1, Zenon DEF Awaited
<1>7. \A i \in DOMAIN wq' : wq'[i].op = "key" => wq'[i].epoch # rk.epoch /\ wq'[i].epoch <= issued
  BY <1>1, <1>3 DEF QInv, KeyFirst, Numbers
<1>8. KeyFirst'
  BY <1>1, <1>7, Zenon DEF KeyFirst, keyed
<1>9. SlotBySlot'
  BY <1>1, Zenon DEF SlotBySlot
<1>10. Numbers'
  BY <1>1, <1>7, Zenon DEF QInv, Numbers, PageTypes, Busy
<1> QED  BY <1>2, <1>5, <1>6, <1>8, <1>9, <1>10, Zenon DEF QInv

LEMMA WorkStep ==
  ASSUME QInv, Work
  PROVE  QInv'
<1> DEFINE m == wq[1]
<1>1. WorkTypes /\ PageTypes
  BY Zenon DEF QInv
<1>2. /\ Len(wq) \in Nat \ {0} /\ DOMAIN wq = 1..Len(wq) /\ DOMAIN wq' = 1..(Len(wq) - 1)
      /\ \A i \in DOMAIN wq' : wq'[i] = wq[i + 1]
      /\ 1 \in DOMAIN wq /\ m \in Requests
  BY <1>1, Popped, Zenon
<1>3. \A i \in DOMAIN wq' : i \in Nat \ {0} /\ i + 1 \in DOMAIN wq
  BY <1>2
<1>4. UNCHANGED <<pc, rk, roster, recipients, noted, removals, activating, changes, issued, active, kid, knows, deliveries, oldTimers>>
  BY Zenon DEF Work, rosterVars, epochVars, pauseVars
<1>5. PageTypes'
  BY <1>1, <1>4, Zenon DEF PageTypes
<1>6. WorkTypes'
  BY <1>1, WorkEffect, Zenon
<1>7. IF m.ask THEN reply' \in {"ok", "error"} ELSE reply' = reply
  BY <1>1, WorkEffect, Zenon
<1>8. ASSUME NEW s \in Slots
      PROVE  \/ ring'[s].active \in {0, ring[s].active}
             \/ m.slot \in {0, s} /\ m.op = "activate" /\ ring'[s].active = m.epoch
  BY <1>1, WorkEffect, Zenon
<1>9. \A s \in Slots : m.slot \in {0, s} /\ m.op = "activate" /\ m.ask /\ reply' = "ok" => ring'[s].active = m.epoch
  BY <1>1, WorkEffect, Zenon
<1> HIDE DEF m
<1>10. m.ask => reply = "none" /\ \A i \in DOMAIN wq' : ~wq'[i].ask /\ wq'[i].op # "activate"
  <2>1. m.ask => reply = "none" /\ \A j \in DOMAIN wq : wq[j].ask \/ wq[j].op = "activate" => j <= 1
    BY <1>2, Zenon DEF QInv, Awaited, m
  <2> QED  BY <2>1, <1>2, <1>3
<1>11. Awaited'
  <2>1. reply' # "none" => pc \in {"install", "activate"}
    BY <1>2, <1>7, Zenon DEF QInv, Awaited, m
  <2>2. ASSUME NEW i \in DOMAIN wq', wq'[i].ask
        PROVE  /\ reply' = "none" /\ pc \in {"install", "activate"}
               /\ pc = "install" => wq'[i].op = "key" /\ wq'[i].epoch = rk.epoch
               /\ pc = "activate" => wq'[i].op = "activate" /\ wq'[i].slot = rk.slot /\ wq'[i].epoch = rk.epoch
               /\ \A j \in DOMAIN wq' : wq'[j].ask \/ wq'[j].op = "activate" => j <= i
    <3>1. ~m.ask /\ reply' = reply
      BY <2>2, <1>7, <1>10, Zenon
    <3>2. /\ reply = "none" /\ pc \in {"install", "activate"}
          /\ pc = "install" => wq'[i].op = "key" /\ wq'[i].epoch = rk.epoch
          /\ pc = "activate" => wq'[i].op = "activate" /\ wq'[i].slot = rk.slot /\ wq'[i].epoch = rk.epoch
          /\ \A j \in DOMAIN wq : wq[j].ask \/ wq[j].op = "activate" => j <= i + 1
      BY <2>2, <1>2, <1>3 DEF QInv, Awaited
    <3>3. \A j \in DOMAIN wq' : wq'[j].ask \/ wq'[j].op = "activate" => j <= i
      BY <3>2, <1>2, <1>3
    <3> QED  BY <3>1, <3>2, <3>3, Zenon
  <2> QED  BY <2>1, <2>2, <1>4, Zenon DEF Awaited
<1>12. \A e : keyed(e)' => keyed(e)
  BY <1>2, <1>3, Zenon DEF keyed
<1>13. KeyFirst'
  <2>1. \A i \in DOMAIN wq' : wq'[i].op = "key" /\ pc # "idle" /\ wq'[i].epoch = rk.epoch => wq'[i].ask /\ pc = "install"
    BY <1>2, <1>3, Zenon DEF QInv, KeyFirst
  <2>2. ~keyed(active)' /\ \A a \in activating : ~keyed(a.epoch)'
    BY <1>4, <1>12, Zenon DEF QInv, KeyFirst
  <2> QED  BY <2>1, <2>2, <1>4, Zenon DEF KeyFirst
<1>14. SlotBySlot'
  <2> SUFFICES ASSUME pc = "activate" PROVE SlotBySlot'
    BY <1>4, Zenon DEF SlotBySlot
  <2>1. rk.slot \in Slots /\ rk.slot # 0
    BY KeysConstants DEF QInv, SlotBySlot, Slots
  <2>2. m.ask => m.op = "activate" /\ m.slot = rk.slot /\ m.epoch = rk.epoch
    BY <1>2, Zenon DEF QInv, Awaited, m
  <2>3. rk.slot > 1 \/ reply # "none" => \A i \in DOMAIN wq : wq[i].op = "activate" => wq[i].ask
    BY Zenon DEF QInv, SlotBySlot
  <2>4. rk.slot > 1 \/ reply' # "none" => \A i \in DOMAIN wq' : wq'[i].op = "activate" => wq'[i].ask
    BY <2>3, <1>2, <1>3, <1>7, <1>10, Zenon
  <2>5. ASSUME NEW s \in Slots, s < rk.slot PROVE ring'[s].active \in {0, rk.epoch}
    <3>1. rk.slot > 1 /\ s # 0 /\ s # rk.slot
      BY <2>1, <2>5, KeysConstants DEF Slots
    <3>2. m.op = "activate" => m.slot \notin {0, s}
      BY <3>1, <2>1, <2>2, <2>3, <1>2, Zenon DEF m
    <3>3. ring[s].active \in {0, rk.epoch}
      BY <2>5, Zenon DEF QInv, SlotBySlot, activated
    <3> QED  BY <3>2, <3>3, <1>8, Zenon
  <2>6. ASSUME reply' = "ok" PROVE ring'[rk.slot].active \in {0, rk.epoch}
    <3>1. CASE m.ask
      BY <3>1, <2>6, <2>1, <2>2, <1>9, Zenon
    <3>2. CASE ~m.ask
      <4>1. reply = "ok"
        BY <3>2, <2>6, <1>7, Zenon
      <4>2. m.op # "activate"
        BY <4>1, <3>2, <2>3, <1>2, Zenon DEF m
      <4>3. ring[rk.slot].active \in {0, rk.epoch}
        BY <4>1, <2>1, Zenon DEF QInv, SlotBySlot, activated
      <4> QED  BY <4>2, <4>3, <2>1, <1>8, Zenon
    <3> QED  BY <3>1, <3>2, Zenon
  <2> QED  BY <2>1, <2>4, <2>5, <2>6, <1>4, Zenon DEF SlotBySlot, activated
<1>15. Numbers'
  <2>1. \A i \in DOMAIN wq' : wq'[i].op = "key" => wq'[i].epoch <= issued
    BY <1>2, <1>3, Zenon DEF QInv, Numbers
  <2> QED  BY <2>1, <1>4, Zenon DEF QInv, Numbers
<1> QED  BY <1>5, <1>6, <1>11, <1>13, <1>14, <1>15, Zenon DEF QInv

LEMMA AsideTypes ==
  ASSUME QInv, Aside, UNCHANGED <<kid, deliveries>>, roster' \in SUBSET Devices, recipients' \in SUBSET Devices,
         noted' \in SUBSET Devices, removals' \subseteq Removals, oldTimers' \subseteq Nat
  PROVE  QInv'
<1>1. PageTypes'
  BY DEF QInv, PageTypes, Aside, Busy
<1> QED  BY <1>1, AsideStep, Zenon

(* A removal that falls due only adds orders to retire, one for each epoch *)
(* it finds too old.                                                       *)
DeadlineRetires ==
  \A r \in removals : deadline(r) =>
    OnlyRetires /\ \A e \in stale(r) : \E i \in DOMAIN wq' : wq'[i].op = "retireOne" /\ wq'[i].epoch = e

LEMMA DeadlineAside ==
  ASSUME QInv, DeadlineRetires, NEW r \in removals, deadline(r)
  PROVE  Aside /\ QInv'
<1>1. OnlyRetires
  BY Zenon DEF DeadlineRetires
<1>2. Aside
  BY <1>1, Zenon DEF deadline, Aside, rosterVars, epochVars
<1>3. removals' \subseteq Removals
  BY Zenon DEF deadline, QInv, PageTypes, Removals
<1> QED  BY <1>1, <1>2, <1>3, AsideTypes, Zenon DEF deadline, rosterVars, epochVars, QInv, PageTypes

LEMMA RosterAside ==
  ASSUME QInv, NEW S \in SUBSET Devices, setRoster(S)
  PROVE  Aside /\ QInv'
<1>1. OnlyRetires
  BY Kept, Zenon DEF setRoster, workVars, QInv, WorkTypes
<1>2. Aside
  BY <1>1, Zenon DEF setRoster, Aside, workVars, epochVars
<1>3. [seq |-> changes + 1, gone |-> recipients \ S, due |-> FALSE] \in Removals
  BY DEF QInv, PageTypes, Removals
<1>4. removals' \subseteq Removals
  BY <1>3, Zenon DEF setRoster, QInv, PageTypes
<1>5. /\ roster' = S /\ noted' \in SUBSET Devices /\ recipients' \in SUBSET Devices
      /\ UNCHANGED <<kid, deliveries, activating, oldTimers>>
  BY Zenon DEF setRoster, epochVars, QInv, PageTypes
<1> QED  BY <1>2, <1>4, <1>5, AsideTypes, Zenon DEF QInv, PageTypes

LEMMA WithdrawAside ==
  ASSUME QInv, withdraw, pc \in {"preempted", "decide"},
         UNCHANGED <<rosterVars, active, issued, knows, removals, reply, ring, oldTimers>>
  PROVE  Aside /\ QInv'
<1>1. rk.epoch \in Nat /\ wq \in Seq(Requests)
  BY Zenon DEF QInv, PageTypes, Rekeys, WorkTypes
<1>2. OnlyRetires
  BY <1>1, PushedRetire, Zenon DEF withdraw
<1>3. Aside
  BY <1>2, Zenon DEF Aside, withdraw, rosterVars
<1>4. DOMAIN deliveries' \subseteq DOMAIN deliveries /\ \A e \in DOMAIN deliveries' : deliveries'[e] = deliveries[e]
  BY Zenon DEF withdraw
<1>5. kid' \in Int
  BY Zenon DEF withdraw, QInv, PageTypes
<1>6. PageTypes'
  BY <1>3, <1>4, <1>5, Zenon DEF withdraw, QInv, PageTypes, rosterVars
<1> QED  BY <1>3, <1>6, AsideStep, Zenon

(* The slots are asked one after the other. *)
LEMMA AsksNext ==
  ASSUME QInv, NextSlot \/ (Decide /\ ~laterDue)
  PROVE  \E n \in Slots : /\ Asks(n)
                          /\ (pc = "decide" /\ n = 1) \/ (pc = "activate" /\ reply = "ok" /\ n = rk.slot + 1)
                          /\ pc = "decide" => activating' = activating \cup {[epoch |-> rk.epoch, created |-> rk.created]}
                          /\ pc = "activate" => activating' = activating
                          /\ UNCHANGED paused
<1>1. CASE NextSlot
  <2>1. rk.slot \in Slots /\ rk.slot + 1 \in Slots
    BY <1>1, KeysConstants DEF NextSlot, QInv, SlotBySlot, Slots
  <2>2. pc = "activate" /\ pc' = "activate" /\ reply = "ok" /\ reply' = "none" /\ UNCHANGED <<activating, paused>>
    BY <1>1, Zenon DEF NextSlot, pauseVars
  <2>3. rk' = [rk EXCEPT !.slot = rk.slot + 1]
    BY <1>1, Zenon DEF NextSlot, QInv, PageTypes, Rekeys
  <2>4. Asks(rk.slot + 1)
    BY <2>2, <2>3, <1>1, Zenon DEF NextSlot, Asks, rosterVars, epochVars, pauseVars
  <2> QED  BY <2>1, <2>2, <2>4, Zenon
<1>2. CASE Decide /\ ~laterDue
  <2>1. 1 \in Slots
    BY KeysConstants DEF Slots
  <2>2. pc = "decide" /\ reply = "none"
    BY <1>2, Zenon DEF Decide, QInv, Awaited
  <2>3. /\ activating' = activating \cup {[epoch |-> rk.epoch, created |-> rk.created]}
        /\ wq' = Append(wq, activateSlot(1)) /\ rk' = [rk EXCEPT !.slot = 1] /\ pc' = "activate"
        /\ UNCHANGED <<rosterVars, active, issued, knows, removals, paused, reply, ring, kid, deliveries, oldTimers>>
    BY <1>2, Zenon DEF Decide
  <2>4. Asks(1)
    BY <2>2, <2>3, Zenon DEF Asks, rosterVars
  <2> QED  BY <2>1, <2>2, <2>3, <2>4, Zenon
<1> QED  BY <1>1, <1>2, Zenon

(* Steps of the page and its timers that touch neither the keys nor who is *)
(* to have them.                                                           *)
LEMMA OthersAside ==
  ASSUME QInv, \/ \E r \in {"membership", "renewal"} : schedule(r)
               \/ (RunDebounced \/ RunRetried) /\ pc # "idle"
               \/ WaitOver \/ RetirePrevious \/ UNCHANGED vars
  PROVE  Aside /\ QInv' /\ UNCHANGED <<rosterVars, pauseVars, deliveries>>
<1>1. wq \in Seq(Requests)
  BY Zenon DEF QInv, WorkTypes
<1>2. /\ UNCHANGED <<rosterVars, epochVars, pauseVars, rk, reply, ring>> /\ oldTimers' \subseteq oldTimers
      /\ pc' = pc \/ (pc \in {"wait", "urgent"} /\ pc' = "decide")
      /\ wq' = wq \/ \E p \in oldTimers : wq' = Append(wq, post("retire", p))
  <2>1. ASSUME NEW r \in {"membership", "renewal"}, schedule(r) PROVE <1>2!1 /\ <1>2!2 /\ <1>2!3
    BY <2>1, Zenon DEF schedule, workVars
  <2>2. CASE (RunDebounced \/ RunRetried) /\ pc # "idle"
    BY <2>2, Zenon DEF RunDebounced, RunRetried, run, workVars
  <2>3. CASE WaitOver
    BY <2>3, Zenon DEF WaitOver, workVars
  <2>4. CASE RetirePrevious
    BY <2>4, Zenon DEF RetirePrevious
  <2>5. CASE UNCHANGED vars
    BY <2>5, Zenon DEF vars, workVars
  <2> QED  BY <2>1, <2>2, <2>3, <2>4, <2>5, Zenon
<1>3. OnlyRetires
  BY <1>1, <1>2, Kept, PushedRetire, Zenon DEF QInv, PageTypes
<1>4. Aside
  BY <1>2, <1>3, Zenon DEF Aside, rosterVars, epochVars, pauseVars
<1> QED
  BY <1>2, <1>4, AsideTypes, Zenon DEF QInv, PageTypes, rosterVars, epochVars, pauseVars

(* Every step falls under one of the shapes above. *)
LEMMA Shapes ==
  ASSUME [Next]_vars
  PROVE  \/ \E S \in SUBSET Devices : setRoster(S)
         \/ \E r \in {"membership", "renewal"} : schedule(r)
         \/ (RunDebounced \/ RunRetried) /\ pc # "idle"
         \/ WaitOver \/ RetirePrevious \/ UNCHANGED vars
         \/ Begin /\ pc \in {"idle", "loop"}
         \/ Refused \/ TimedOut \/ (Loop /\ ~again)
         \/ NextSlot \/ (Decide /\ ~laterDue)
         \/ Installed \/ Preempted \/ (Decide /\ laterDue) \/ Activated \/ Work
         \/ \E r \in removals : deadline(r)
  BY Zenon DEF Next, Environment, Rekey, RunDebounced, RunRetried, run, Loop, Deadline

LEMMA WithdrawSteps ==
  ASSUME QInv, Preempted \/ (Decide /\ laterDue)
  PROVE  Aside /\ QInv' /\ withdraw /\ UNCHANGED <<rosterVars, active, knows, pauseVars>>
<1>1. /\ withdraw /\ pc \in {"preempted", "decide"}
      /\ UNCHANGED <<rosterVars, active, issued, knows, removals, reply, ring, oldTimers, paused>>
  BY Zenon DEF Preempted, Decide
<1> QED  BY <1>1, WithdrawAside, Zenon DEF pauseVars, withdraw
=============================================================================
