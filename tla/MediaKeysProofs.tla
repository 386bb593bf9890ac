-------------------------- MODULE MediaKeysProofs --------------------------
(***************************************************************************)
(* The removal bound of the sending half of the media key engine, for any  *)
(* number of devices, slots, changes and faults.  BInv adds to QInv what   *)
(* the page's books say of the epochs a slot may still encrypt under.      *)
(***************************************************************************)
EXTENDS MediaQueueProofs

-----------------------------------------------------------------------------
(* The removal bound. *)

(* The epochs a slot encrypts under, or that the queue asks it to. *)
Hot == {e \in {ring[s].active : s \in Slots} \cup {wq[i].epoch : i \in {j \in DOMAIN wq : wq[j].op = "activate"}} : e # 0}

(* An epoch that no slot holds once the queue has been worked through. *)
dead(e) == ~keyed(e) /\ (leaving(e) \/ \A s \in Slots : e \notin Live(ring[s]))

begun(e) == \E a \in activating : a.epoch = e

(* Whatever is hot is on the page's books, or dead. *)
Accounted ==
  /\ \A e \in Hot : e \in DOMAIN knows /\ (e = active \/ begun(e) \/ dead(e))
  /\ pc = "activate" => begun(rk.epoch) \/ dead(rk.epoch)

(* A due removal leaves nothing alive that is older than it. *)
DueIsDone ==
  /\ paused \/ (\E r \in removals : r.due) => active = 0 \/ dead(active)
  /\ \A r \in removals, a \in activating : r.due => a.created >= r.seq

(* A device that left and holds an epoch has a pending removal newer than  *)
(* that epoch.                                                             *)
pendingFor(d, n) == \E r \in removals : d \in r.gone /\ r.seq > n
Pending ==
  \A d \in noted :
    /\ active # 0 /\ d \in knows[active] => \E r \in removals : d \in r.gone
    /\ \A a \in activating : d \in knows[a.epoch] => pendingFor(d, a.created)
    /\ pc \in Busy /\ d \in knows[rk.epoch] => pendingFor(d, rk.created)

(* Who can decrypt an epoch was sent it, or the one it was derived from;   *)
(* and who left is no recipient.                                           *)
Chains ==
  /\ noted \cap (roster \cup recipients) = {} /\ \A e \in DOMAIN knows : e <= issued
  /\ \A e \in DOMAIN deliveries : e \in DOMAIN knows /\ knows[e] \subseteq deliveries[e].chain
  /\ pc \in Busy => rk.recipients \cup knows[rk.epoch] \subseteq rk.chain

BInv == QInv /\ Accounted /\ DueIsDone /\ Pending /\ Chains

-----------------------------------------------------------------------------
(* How the steps treat the epochs that are hot or dead. *)

LEMMA RetiresKeep ==
  ASSUME WorkTypes, OnlyRetires, ring' = ring
  PROVE  /\ Hot' = Hot
         /\ \A e : dead(e) => dead(e)'
         /\ \A e : (\E i \in DOMAIN wq' : wq'[i].op = "retireOne" /\ wq'[i].epoch = e) /\ ~keyed(e) => dead(e)'
<1>1. /\ \A e : keyed(e)' <=> keyed(e)
      /\ \A i \in DOMAIN wq' : wq'[i].op \in {"key", "activate"} \/ wq'[i].ask => i \in DOMAIN wq /\ wq'[i] = wq[i]
  BY SameKeys, Zenon
<1>2. \A i \in DOMAIN wq : i \in DOMAIN wq' /\ wq'[i] = wq[i]
  BY Zenon DEF OnlyRetires
<1>3. {wq'[i].epoch : i \in {j \in DOMAIN wq' : wq'[j].op = "activate"}} = {wq[i].epoch : i \in {j \in DOMAIN wq : wq[j].op = "activate"}}
  BY <1>1, <1>2, Zenon
<1>4. Hot' = Hot
  BY <1>3, Zenon DEF Hot
<1>5. \A e : leaving(e) => leaving(e)'
  BY <1>2, Zenon DEF leaving
<1>6. \A e : (\E i \in DOMAIN wq' : wq'[i].op = "retireOne" /\ wq'[i].epoch = e) => leaving(e)'
  BY Zenon DEF leaving
<1> QED  BY <1>1, <1>4, <1>5, <1>6, Zenon DEF dead

LEMMA PushKeeps ==
  ASSUME wq \in Seq(Requests), NEW m \in Requests, wq' = Append(wq, m), ring' = ring
  PROVE  /\ \A e \in Hot' : e \in Hot \/ (m.op = "activate" /\ e = m.epoch)
         /\ \A e : dead(e) /\ (m.op = "key" => e # m.epoch) => dead(e)'
<1>1. /\ DOMAIN wq = 1..Len(wq) /\ DOMAIN wq' = 1..(Len(wq) + 1) /\ Len(wq) \in Nat
      /\ \A i \in DOMAIN wq : wq'[i] = wq[i]
      /\ wq'[Len(wq) + 1] = m
  BY Pushed, Zenon
<1>2. \A i \in DOMAIN wq : i \in DOMAIN wq' /\ wq'[i] = wq[i]
  BY <1>1
<1>3. \A i \in DOMAIN wq' : (i \in DOMAIN wq /\ wq'[i] = wq[i]) \/ wq'[i] = m
  BY <1>1
<1>4. \A e \in Hot' : e \in Hot \/ (m.op = "activate" /\ e = m.epoch)
  BY <1>3, Zenon DEF Hot
<1>5. \A e : leaving(e) => leaving(e)'
  BY <1>2, Zenon DEF leaving
<1>6. \A e : keyed(e)' => keyed(e) \/ (m.op = "key" /\ e = m.epoch)
  BY <1>3, Zenon DEF keyed
<1> QED  BY <1>4, <1>5, <1>6 DEF dead

LEMMA EndedKeeps ==
  ASSUME Ended
  PROVE  Hot' = Hot /\ \A e : dead(e) => dead(e)'
<1>1. /\ DOMAIN wq' = DOMAIN wq /\ ring' = ring
      /\ \A i \in DOMAIN wq : wq'[i].op = wq[i].op /\ wq'[i].epoch = wq[i].epoch
  BY Zenon DEF Ended
<1>2. Hot' = Hot
  BY <1>1 DEF Hot
<1>3. \A e : (leaving(e)' <=> leaving(e)) /\ (keyed(e)' <=> keyed(e))
  BY <1>1, Zenon DEF leaving, keyed
<1> QED  BY <1>1, <1>2, <1>3, Zenon DEF dead

LEMMA WorkKeeps ==
  ASSUME QInv, Work
  PROVE  Hot' \subseteq Hot /\ \A e \in Nat : dead(e) => dead(e)'
<1> DEFINE m == wq[1]
<1>1. WorkTypes
  BY Zenon DEF QInv
<1>2. /\ Len(wq) \in Nat \ {0} /\ DOMAIN wq = 1..Len(wq) /\ DOMAIN wq' = 1..(Len(wq) - 1)
      /\ \A i \in DOMAIN wq' : wq'[i] = wq[i + 1]
      /\ 1 \in DOMAIN wq /\ m \in Requests
  BY <1>1, Popped, Zenon
<1>3. \A i \in DOMAIN wq' : i + 1 \in DOMAIN wq
  BY <1>2
<1>4. \A i \in DOMAIN wq : i # 1 => i - 1 \in DOMAIN wq' /\ wq'[i - 1] = wq[i]
  BY <1>2
<1>5. ASSUME NEW s \in Slots
      PROVE  \/ ring'[s].active \in {0, ring[s].active}
             \/ m.op = "activate" /\ ring'[s].active = m.epoch
  BY <1>1, WorkEffect, Zenon
<1>6. ASSUME NEW s \in Slots
      PROVE  /\ \A e \in Live(ring'[s]) : e \in Live(ring[s]) \/ (m.op = "key" /\ e = m.epoch)
             /\ m.slot = 0 /\ m.op = "retireOne" => m.epoch \notin Live(ring'[s])
             /\ m.slot = 0 /\ m.op = "retire" => \A e \in Live(ring'[s]) : e > m.epoch
  BY <1>1, WorkEffect, Zenon
<1>7. m.op \in {"retireOne", "retire"} => m.slot = 0
  BY <1>2, Zenon DEF Requests
<1>8. m.epoch \in Nat
  BY <1>2, Zenon DEF Requests
<1>9. Hot' \subseteq Hot
  <2>1. ASSUME NEW e, e # 0, NEW s \in Slots, ring'[s].active = e PROVE e \in Hot
    BY <2>1, <1>2, <1>5, Zenon DEF Hot
  <2>2. ASSUME NEW i \in DOMAIN wq', wq'[i].op = "activate", wq'[i].epoch # 0 PROVE wq'[i].epoch \in Hot
    BY <2>2, <1>2, <1>3, Zenon DEF Hot
  <2> QED  BY <2>1, <2>2, Zenon DEF Hot
<1> HIDE DEF m
<1>10. ASSUME NEW e \in Nat, dead(e) PROVE dead(e)'
  <2>1. ~keyed(e)'
    BY <1>10, <1>2, <1>3, Zenon DEF dead, keyed
  <2>2. m.op = "key" => e # m.epoch
    BY <1>10, <1>2, Zenon DEF dead, keyed, m
  <2>3. CASE \A s \in Slots : e \notin Live(ring[s])
    BY <2>1, <2>2, <2>3, <1>6, Zenon DEF dead
  <2>4. CASE leaving(e)
    <3>1. PICK i \in DOMAIN wq : \/ wq[i].op = "retireOne" /\ wq[i].epoch = e
                                 \/ wq[i].op = "retire" /\ wq[i].epoch >= e
      BY <2>4, Zenon DEF leaving
    <3>2. CASE i # 1
      <4>1. leaving(e)'
        BY <3>1, <3>2, <1>4, Zenon DEF leaving
      <4> QED  BY <4>1, <2>1, Zenon DEF dead
    <3>3. CASE i = 1
      <4>1. (m.op = "retireOne" /\ m.epoch = e) \/ (m.op = "retire" /\ m.epoch >= e)
        BY <3>1, <3>3, Zenon DEF m
      <4>2. \A s \in Slots : e \notin Live(ring'[s])
        BY <4>1, <1>6, <1>7, <1>8
      <4> QED  BY <4>2, <2>1, Zenon DEF dead
    <3> QED  BY <3>2, <3>3, Zenon
  <2> QED  BY <1>10, <2>3, <2>4, Zenon DEF dead
<1> QED  BY <1>9, <1>10, Zenon

-----------------------------------------------------------------------------
(* BInv is inductive. *)

LEMMA AsideSafe ==
  ASSUME BInv, Aside, QInv', UNCHANGED <<rosterVars, pauseVars>>, DOMAIN deliveries' \subseteq DOMAIN deliveries,
         \A e \in DOMAIN deliveries' : deliveries'[e] = deliveries[e]
  PROVE  BInv'
<1>1. Hot' = Hot /\ \A e : dead(e) => dead(e)'
  BY RetiresKeep, Zenon DEF BInv, QInv, Aside
<1>2. /\ UNCHANGED <<rk, active, issued, knows, roster, recipients, noted, removals, paused, activating>>
      /\ pc' \in Busy => pc \in Busy
      /\ pc' = "activate" => pc = "activate"
  BY Zenon DEF Aside, rosterVars, pauseVars, Busy
<1>3. Accounted'
  BY <1>1, <1>2, Zenon DEF BInv, Accounted, begun
<1>4. DueIsDone'
  BY <1>1, <1>2, Zenon DEF BInv, DueIsDone
<1>5. Pending'
  BY <1>2, Zenon DEF BInv, Pending, pendingFor
<1>6. Chains'
  BY <1>2, Zenon DEF BInv, Chains
<1> QED  BY <1>3, <1>4, <1>5, <1>6, Zenon DEF BInv

LEMMA WorkSafe ==
  ASSUME BInv, Work
  PROVE  BInv'
<1>1. QInv' /\ Hot' \subseteq Hot /\ \A e \in Nat : dead(e) => dead(e)'
  BY WorkStep, WorkKeeps, Zenon DEF BInv
<1>2. UNCHANGED <<pc, rk, active, issued, knows, roster, recipients, noted, removals, paused, activating, deliveries>>
  BY Zenon DEF Work, rosterVars, epochVars, pauseVars
<1>3. DOMAIN knows \subseteq Nat /\ rk.epoch \in Nat /\ active \in Nat
  BY Zenon DEF BInv, QInv, PageTypes, Rekeys
<1>4. Accounted'
  BY <1>1, <1>2, <1>3, Zenon DEF BInv, Accounted, begun
<1>5. DueIsDone'
  BY <1>1, <1>2, <1>3, Zenon DEF BInv, DueIsDone
<1>6. Pending' /\ Chains'
  BY <1>2, Zenon DEF BInv, Pending, pendingFor, Chains
<1> QED  BY <1>1, <1>4, <1>5, <1>6, Zenon DEF BInv

LEMMA EndedSafe ==
  ASSUME BInv, Ended, UNCHANGED paused
  PROVE  BInv'
<1>1. QInv' /\ Hot' = Hot /\ \A e : dead(e) => dead(e)'
  BY EndedStep, EndedKeeps, Zenon DEF BInv
<1>2. Accounted'
  BY <1>1, Zenon DEF BInv, Accounted, begun, Ended
<1>3. DueIsDone'
  BY <1>1, Zenon DEF BInv, DueIsDone, Ended
<1>4. Pending' /\ Chains'
  BY Zenon DEF BInv, Pending, pendingFor, Chains, Ended, Busy
<1> QED  BY <1>1, <1>2, <1>3, <1>4, Zenon DEF BInv

LEMMA BeginSafe ==
  ASSUME BInv, Begin, pc \in {"idle", "loop"}
  PROVE  BInv'
<1>0. QInv
  BY Zenon DEF BInv
<1>1. QInv'
  BY <1>0, BeginStep, Zenon
<1>2. /\ pc' = "install" /\ recipients' = roster
      /\ rk' \in Rekeys /\ rk'.created = changes /\ rk'.recipients = roster /\ rk'.epoch = issued'
      /\ issued' \in Nat /\ issued' > issued
      /\ knows' = [x \in DOMAIN knows \cup {issued'} |-> knows'[x]]
      /\ \A x \in DOMAIN knows \ {issued'} : knows'[x] = knows[x]
      /\ roster \subseteq rk'.chain
      /\ \/ knows'[issued'] = {}
         \/ /\ knows'[issued'] = knows[active] /\ active \in DOMAIN deliveries
            /\ deliveries[active].chain \subseteq roster \cap rk'.chain
      /\ UNCHANGED <<roster, noted, changes, kid, active, deliveries, removals, paused, activating, reply, ring>>
  BY <1>0, BeginEffect, Zenon
<1> DEFINE m == [op |-> "key", slot |-> 0, epoch |-> issued', kid |-> rk'.kid, ask |-> TRUE]
<1>3. m \in Requests /\ m.op = "key" /\ m.epoch = issued' /\ wq' = Append(wq, m) /\ wq \in Seq(Requests)
  BY <1>0, <1>2, BeginEffect, KeysConstants DEF Requests, Rekeys, QInv, WorkTypes
<1> HIDE DEF m
<1>4. (\A e \in Hot' : e \in Hot) /\ \A e : dead(e) /\ e # issued' => dead(e)'
  BY <1>2, <1>3, PushKeeps, Zenon
<1>5. /\ DOMAIN knows' = DOMAIN knows \cup {issued'}
      /\ \A e \in DOMAIN knows : e \in Nat /\ e <= issued /\ e # issued' /\ knows'[e] = knows[e]
  BY <1>2 DEF BInv, Chains, QInv, PageTypes
<1>6. Accounted'
  BY <1>2, <1>4, <1>5, Zenon DEF BInv, Accounted, begun
<1>7. active # issued'
  BY <1>2 DEF BInv, QInv, Numbers, PageTypes
<1>8. DueIsDone'
  BY <1>2, <1>4, <1>7, Zenon DEF BInv, DueIsDone
<1>9. knows'[issued'] \subseteq roster \cap rk'.chain
  BY <1>2, Zenon DEF BInv, Chains
<1>10. Chains'
  <2>1. noted \cap roster = {}
    BY Zenon DEF BInv, Chains
  <2>2. \A e \in DOMAIN knows' : e <= issued'
    BY <1>2, <1>5 DEF BInv, QInv, PageTypes
  <2>3. \A e \in DOMAIN deliveries : e \in DOMAIN knows' /\ knows'[e] \subseteq deliveries[e].chain
    BY <1>5, Zenon DEF BInv, Chains
  <2> QED  BY <2>1, <2>2, <2>3, <1>2, <1>9, Zenon DEF Chains
<1>11. Pending'
  <2> SUFFICES ASSUME NEW d \in noted
               PROVE  /\ active # 0 /\ d \in knows'[active] => \E r \in removals : d \in r.gone
                      /\ \A a \in activating : d \in knows'[a.epoch] => pendingFor(d, a.created)
                      /\ d \notin knows'[issued']
    BY <1>2, Zenon DEF Pending, pendingFor
  <2>1. d \notin roster
    BY Zenon DEF BInv, Chains
  <2>2. active # 0 => active \in DOMAIN knows
    BY Zenon DEF BInv, QInv, Numbers
  <2>3. \A a \in activating : a.epoch \in DOMAIN knows
    BY Zenon DEF BInv, QInv, Numbers
  <2> QED  BY <2>1, <2>2, <2>3, <1>5, <1>9, Zenon DEF BInv, Pending
<1> QED  BY <1>1, <1>6, <1>8, <1>10, <1>11, Zenon DEF BInv

LEMMA InstalledSafe ==
  ASSUME BInv, Installed
  PROVE  BInv'
<1> DEFINE to == rk.recipients \cap recipients
<1>1. QInv'
  BY InstalledStep, Zenon DEF BInv
<1>2. /\ pc = "install" /\ pc' # "activate"
      /\ UNCHANGED <<roster, recipients, noted, issued, active, removals, paused, activating, ring, wq, rk>>
  BY Zenon DEF Installed, rosterVars, pauseVars
<1>3. /\ DOMAIN knows' = DOMAIN knows /\ rk.epoch \in DOMAIN knows
      /\ \A e \in DOMAIN knows : knows'[e] = IF e = rk.epoch THEN knows[e] \cup to ELSE knows[e]
  <2>1. knows = [e \in DOMAIN knows |-> knows[e]] /\ rk.epoch \in DOMAIN knows
    BY <1>2, Zenon DEF BInv, QInv, PageTypes, Numbers
  <2>2. knows' = [knows EXCEPT ![rk.epoch] = @ \cup to]
    BY Zenon DEF Installed
  <2> QED  BY <2>1, <2>2, Zenon
<1>4. /\ DOMAIN deliveries' = DOMAIN deliveries \cup {rk.epoch}
      /\ \A e \in DOMAIN deliveries' : deliveries'[e].chain = IF e = rk.epoch THEN rk.chain ELSE deliveries[e].chain
  BY Zenon DEF Installed
<1>5. Hot' = Hot /\ \A e : dead(e)' <=> dead(e)
  BY <1>2, Zenon DEF Hot, dead, keyed, leaving
<1>6. Accounted'
  BY <1>2, <1>3, <1>5, Zenon DEF BInv, Accounted, begun
<1>7. DueIsDone'
  BY <1>2, <1>5, Zenon DEF BInv, DueIsDone
<1>8. rk.recipients \cup knows[rk.epoch] \subseteq rk.chain
  BY <1>2, Zenon DEF BInv, Chains, Busy
<1>9. Chains'
  BY <1>2, <1>3, <1>4, <1>8 DEF BInv, Chains
<1>10. \A d \in noted, e \in DOMAIN knows : d \in knows'[e] => d \in knows[e]
  BY <1>3, Zenon DEF BInv, Chains
<1>11. Pending'
  <2>1. /\ active # 0 => active \in DOMAIN knows
        /\ \A a \in activating : a.epoch \in DOMAIN knows
    BY Zenon DEF BInv, QInv, Numbers
  <2> QED  BY <2>1, <1>2, <1>3, <1>10, Zenon DEF BInv, Pending, pendingFor, Busy
<1> QED  BY <1>1, <1>6, <1>7, <1>9, <1>11, Zenon DEF BInv

LEMMA AsksSafe ==
  ASSUME BInv, NextSlot \/ (Decide /\ ~laterDue)
  PROVE  BInv'
<1> DEFINE b == [epoch |-> rk.epoch, created |-> rk.created]
<1>0. QInv
  BY Zenon DEF BInv
<1>1. PICK n \in Slots : /\ Asks(n)
                         /\ (pc = "decide" /\ n = 1) \/ (pc = "activate" /\ reply = "ok" /\ n = rk.slot + 1)
                         /\ pc = "decide" => activating' = activating \cup {b}
                         /\ pc = "activate" => activating' = activating
                         /\ UNCHANGED paused
  BY <1>0, AsksNext, Zenon
<1>2. QInv'
  BY <1>0, <1>1, AsksStep, Zenon
<1>3. b.epoch = rk.epoch /\ b.created = rk.created
  BY Zenon
<1> HIDE DEF b
<1>4. rk \in Rekeys /\ rk.epoch \in Nat /\ rk.created \in Nat /\ rk.epoch \in DOMAIN knows /\ wq \in Seq(Requests)
  BY <1>0, <1>1, Zenon DEF QInv, PageTypes, Rekeys, Numbers, WorkTypes
<1>5. /\ pc' = "activate" /\ pc \in {"decide", "activate"}
      /\ rk'.epoch = rk.epoch /\ rk'.created = rk.created /\ rk'.recipients = rk.recipients /\ rk'.chain = rk.chain
      /\ UNCHANGED <<roster, recipients, noted, issued, active, knows, deliveries, removals, ring, paused>>
  BY <1>1, <1>4, Zenon DEF Asks, Rekeys
<1>6. activateSlot(n) \in Requests /\ activateSlot(n).op = "activate" /\ activateSlot(n).epoch = rk.epoch
  BY <1>4, KeysConstants DEF activateSlot, Requests, Slots
<1>7. wq' = Append(wq, activateSlot(n))
  BY <1>1, Zenon DEF Asks
<1>8. (\A e \in Hot' : e \in Hot \/ e = rk.epoch) /\ \A e : dead(e) => dead(e)'
  BY <1>4, <1>5, <1>6, <1>7, PushKeeps, Zenon
<1>9. \A a \in activating : a \in activating'
  BY <1>1, Zenon
<1>10. begun(rk.epoch)' \/ dead(rk.epoch)
  <2>1. CASE pc = "decide"
    BY <2>1, <1>1, <1>3, <1>5, Zenon DEF begun
  <2>2. CASE pc = "activate"
    BY <2>2, <1>5, <1>9, Zenon DEF BInv, Accounted, begun
  <2> QED  BY <2>1, <2>2, <1>5, Zenon
<1>11. Accounted'
  BY <1>4, <1>5, <1>8, <1>9, <1>10, Zenon DEF BInv, Accounted, begun
<1>12. DueIsDone'
  <2>1. ASSUME pc = "decide", NEW r \in removals, r.due PROVE b.created >= r.seq
    <3>1. ~laterDue
      BY <2>1, Zenon DEF NextSlot
    <3>2. ~(r.seq > rk.created)
      BY <3>1, <2>1, Zenon DEF laterDue, later
    <3>3. r.seq \in Nat
      BY <1>0, Zenon DEF QInv, PageTypes, Removals
    <3> QED  BY <3>2, <3>3, <1>3, <1>4
  <2>2. \A r \in removals, a \in activating' : r.due => a.created >= r.seq
    BY <2>1, <1>1, Zenon DEF BInv, DueIsDone
  <2> QED  BY <2>2, <1>5, <1>8, Zenon DEF BInv, DueIsDone
<1>13. Pending'
  <2>1. \A d \in noted : d \in knows[rk.epoch] => pendingFor(d, rk.created)
    BY <1>5, Zenon DEF BInv, Pending, Busy
  <2>2. \A d \in noted, a \in activating' : d \in knows[a.epoch] => pendingFor(d, a.created)
    BY <2>1, <1>1, <1>3, Zenon DEF BInv, Pending
  <2> QED  BY <2>1, <2>2, <1>5, Zenon DEF BInv, Pending, pendingFor
<1>14. Chains'
  BY <1>5, Zenon DEF BInv, Chains, Busy
<1> QED  BY <1>2, <1>11, <1>12, <1>13, <1>14, Zenon DEF BInv

LEMMA ActivatedSafe ==
  ASSUME BInv, Activated
  PROVE  BInv'
<1>0. QInv /\ QInv'
  BY ActivatedStep, Zenon DEF BInv
<1>1. /\ pc = "activate" /\ pc' = "loop" /\ OnlyRetires
      /\ active' = rk.epoch /\ activating' = {} /\ removals' = later /\ paused' = laterDue
      /\ DOMAIN knows' = {e \in DOMAIN knows : e >= rk.epoch} /\ \A e \in DOMAIN knows' : knows'[e] = knows[e]
      /\ DOMAIN deliveries' = {e \in DOMAIN deliveries : e >= rk.epoch}
      /\ \A e \in DOMAIN deliveries' : deliveries'[e] = deliveries[e]
      /\ rk.epoch \in DOMAIN knows'
      /\ laterDue => \E i \in DOMAIN wq' : wq'[i].op = "retireOne" /\ wq'[i].epoch = rk.epoch
      /\ \A i \in DOMAIN wq' : wq'[i].op # "activate"
      /\ \A s \in Slots : ring[s].active \in {0, rk.epoch}
      /\ UNCHANGED <<roster, recipients, noted, issued, ring, rk>>
  BY <1>0, ActivatedEffect, Zenon
<1>2. Hot' \subseteq {rk.epoch}
  <2>1. \A s \in Slots : ring'[s].active \in {0, rk.epoch}
    BY <1>1, Zenon
  <2>2. {j \in DOMAIN wq' : wq'[j].op = "activate"} = {}
    BY <1>1, Zenon
  <2> QED  BY <2>1, <2>2, Zenon DEF Hot
<1>3. Accounted'
  BY <1>1, <1>2, Zenon DEF Accounted
<1>4. laterDue => dead(rk.epoch)'
  <2>1. ~keyed(rk.epoch)'
    BY <1>0, <1>1, Zenon DEF QInv, KeyFirst
  <2>2. laterDue => leaving(rk.epoch)'
    BY <1>1, Zenon DEF leaving
  <2> QED  BY <2>1, <2>2, Zenon DEF dead
<1>5. DueIsDone'
  BY <1>1, <1>4, Zenon DEF DueIsDone, laterDue
<1>6. Pending'
  <2>1. ASSUME NEW d \in noted, d \in knows[rk.epoch] PROVE \E r \in later : d \in r.gone
    BY <2>1, <1>1, Zenon DEF BInv, Pending, pendingFor, later, Busy
  <2> QED  BY <2>1, <1>1, Zenon DEF Pending, Busy
<1>7. Chains'
  BY <1>1, Zenon DEF BInv, Chains, Busy
<1> QED  BY <1>0, <1>3, <1>5, <1>6, <1>7, Zenon DEF BInv

LEMMA RosterSafe ==
  ASSUME BInv, NEW S \in SUBSET Devices, setRoster(S)
  PROVE  BInv'
<1> DEFINE gone == recipients \ S
           new == [seq |-> changes + 1, gone |-> gone, due |-> FALSE]
<1>1. QInv' /\ Aside
  BY RosterAside, Zenon DEF BInv
<1>2. Hot' = Hot /\ \A e : dead(e) => dead(e)'
  BY <1>1, RetiresKeep, Zenon DEF BInv, QInv, Aside
<1>3. /\ UNCHANGED <<rk, active, issued, knows, deliveries, activating, paused>>
      /\ pc' \in Busy => pc \in Busy
      /\ pc' = "activate" => pc = "activate"
      /\ roster' = S
      /\ recipients' \in {S, recipients}
  BY Zenon DEF setRoster, epochVars, Busy
<1>4. \/ removals' = removals \cup {new} /\ noted' = (noted \cup gone) \ S /\ recipients' = S
      \/ removals' = removals /\ noted' = noted \ S
  BY Zenon DEF setRoster
<1>5. new.seq = changes + 1 /\ new.gone = gone /\ ~new.due
  BY Zenon
<1> HIDE DEF new
<1>6. /\ changes \in Nat /\ (pc # "idle" => rk.created \in Nat /\ rk.created <= changes)
      /\ \A a \in activating : a.created \in Nat /\ a.created <= changes
  BY Zenon DEF BInv, QInv, PageTypes, Numbers, Rekeys, Activations
<1>7. Accounted'
  BY <1>2, <1>3, Zenon DEF BInv, Accounted, begun
<1>8. DueIsDone'
  BY <1>2, <1>3, <1>4, <1>5, Zenon DEF BInv, DueIsDone
<1>9. Chains'
  BY <1>3, <1>4, Zenon DEF BInv, Chains
<1>10. \A d \in noted' : d \in noted \/ (new \in removals' /\ d \in new.gone)
  BY <1>4, <1>5, Zenon
<1>11. \A r \in removals : r \in removals'
  BY <1>4, Zenon
<1>12. Pending'
  <2>1. ASSUME NEW d \in noted' PROVE d \in noted \/ \A n \in Nat : n <= changes => pendingFor(d, n)'
    BY <1>5, <1>6, <1>10 DEF pendingFor
  <2>2. ASSUME NEW d \in noted', d \notin noted PROVE \E r \in removals' : d \in r.gone
    BY <2>2, <1>10, Zenon
  <2>3. \A d, n : pendingFor(d, n) => pendingFor(d, n)'
    BY <1>11, Zenon DEF pendingFor
  <2>4. ASSUME NEW d \in noted'
        PROVE  /\ active # 0 /\ d \in knows[active] => \E r \in removals' : d \in r.gone
               /\ \A a \in activating : d \in knows[a.epoch] => pendingFor(d, a.created)'
               /\ pc \in Busy /\ d \in knows[rk.epoch] => pendingFor(d, rk.created)'
    <3>1. CASE d \in noted
      BY <3>1, <2>3, <1>3, <1>11, Zenon DEF BInv, Pending
    <3>2. CASE d \notin noted
      BY <3>2, <2>1, <2>2, <1>3, <1>6, Zenon DEF Busy
    <3> QED  BY <3>1, <3>2, Zenon
  <2>5. ASSUME NEW d \in noted', NEW a \in activating, d \in knows[a.epoch] PROVE pendingFor(d, a.created)'
    BY <2>4, <2>5, Zenon
  <2> QED  BY <2>4, <2>5, <1>3, Zenon DEF Pending, pendingFor
<1> QED  BY <1>1, <1>7, <1>8, <1>9, <1>12, Zenon DEF BInv

LEMMA DeadlineSafe ==
  ASSUME BInv, DeadlineRetires, NEW r \in removals, deadline(r)
  PROVE  BInv'
<1> DEFINE passed == [r EXCEPT !.due = TRUE]
<1>1. QInv /\ QInv' /\ Aside
  BY DeadlineAside, Zenon DEF BInv
<1>2. /\ Hot' = Hot /\ \A e : dead(e) => dead(e)'
      /\ \A e : (\E i \in DOMAIN wq' : wq'[i].op = "retireOne" /\ wq'[i].epoch = e) /\ ~keyed(e) => dead(e)'
  BY <1>1, RetiresKeep, Zenon DEF QInv, Aside
<1>3. \A e \in stale(r) : ~keyed(e) => dead(e)'
  BY <1>2, Zenon DEF DeadlineRetires
<1>4. /\ UNCHANGED <<rk, active, issued, knows, deliveries, roster, recipients, noted>>
      /\ pc' \in Busy => pc \in Busy
      /\ pc' = "activate" => pc = "activate"
      /\ removals' = (removals \ {r}) \cup {passed}
      /\ activating' = {a \in activating : a.created >= r.seq}
  BY Zenon DEF deadline, rosterVars, epochVars, Busy
<1>5. passed.seq = r.seq /\ passed.gone = r.gone /\ r.seq \in Nat
  BY <1>1, Zenon DEF QInv, PageTypes, Removals
<1> HIDE DEF passed
<1>6. \A a \in activating : a.created \in Nat
  BY <1>1, Zenon DEF QInv, PageTypes, Activations
<1>7. \A e : begun(e) => begun(e)' \/ dead(e)'
  <2>1. ASSUME NEW a \in activating, a \notin activating' PROVE dead(a.epoch)'
    <3>1. a.epoch \in stale(r)
      BY <2>1, <1>4, <1>5, <1>6 DEF stale, partial
    <3>2. ~keyed(a.epoch)
      BY <1>1, Zenon DEF QInv, KeyFirst
    <3> QED  BY <3>1, <3>2, <1>3, Zenon
  <2> QED  BY <2>1, Zenon DEF begun
<1>8. Accounted'
  BY <1>2, <1>4, <1>7, Zenon DEF BInv, Accounted
<1>9. DueIsDone'
  <2>1. active = 0 \/ dead(active)'
    <3>1. CASE paused
      BY <3>1, <1>2, <1>4, Zenon DEF BInv, DueIsDone
    <3>2. CASE ~paused /\ active # 0
      <4>1. active \in stale(r) /\ ~keyed(active)
        BY <3>2, <1>1, Zenon DEF stale, QInv, KeyFirst
      <4> QED  BY <4>1, <1>3, <1>4, Zenon
    <3> QED  BY <3>1, <3>2, Zenon
  <2>2. ASSUME NEW x \in removals', NEW a \in activating', x.due PROVE a.created >= x.seq
    <3>1. CASE x = passed
      BY <3>1, <1>4, <1>5, Zenon
    <3>2. CASE x # passed
      BY <3>2, <2>2, <1>4, Zenon DEF BInv, DueIsDone
    <3> QED  BY <3>1, <3>2, Zenon
  <2> QED  BY <2>1, <2>2, <1>4, Zenon DEF DueIsDone
<1>10. \A x \in removals : \E y \in removals' : y.gone = x.gone /\ y.seq = x.seq
  BY <1>4, <1>5, Zenon
<1>11. Pending'
  <2>1. \A d, n : pendingFor(d, n) => pendingFor(d, n)'
    BY <1>10, Zenon DEF pendingFor
  <2>2. \A d : (\E x \in removals : d \in x.gone) => \E y \in removals' : d \in y.gone
    BY <1>10, Zenon
  <2>3. ASSUME NEW d \in noted, NEW a \in activating', d \in knows[a.epoch] PROVE pendingFor(d, a.created)'
    BY <2>1, <2>3, <1>4, Zenon DEF BInv, Pending
  <2>4. ASSUME NEW d \in noted, pc \in Busy, d \in knows[rk.epoch] PROVE pendingFor(d, rk.created)'
    BY <2>1, <2>4, <1>4, Zenon DEF BInv, Pending
  <2>5. ASSUME NEW d \in noted, active # 0, d \in knows[active] PROVE \E y \in removals' : d \in y.gone
    BY <2>2, <2>5, Zenon DEF BInv, Pending
  <2> QED  BY <2>3, <2>4, <2>5, <1>4, Zenon DEF Pending, pendingFor
<1>12. Chains'
  BY <1>4, Zenon DEF BInv, Chains
<1> QED  BY <1>1, <1>8, <1>9, <1>11, <1>12, Zenon DEF BInv

LEMMA BStep ==
  ASSUME BInv, DeadlineRetires, [Next]_vars
  PROVE  BInv'
<1>0. QInv
  BY Zenon DEF BInv
<1>1. CASE NextSlot \/ (Decide /\ ~laterDue)
  BY <1>1, AsksSafe, Zenon
<1>2. CASE Refused \/ TimedOut \/ (Loop /\ ~again)
  <2>1. UNCHANGED paused
    BY <1>2, Zenon DEF Refused, TimedOut, Loop, thrown, pauseVars
  <2> QED  BY <2>1, <1>0, <1>2, ThrownEnds, EndedSafe, Zenon
<1>3. ASSUME NEW S \in SUBSET Devices, setRoster(S) PROVE BInv'
  BY <1>3, RosterSafe, Zenon
<1>4. ASSUME NEW r \in removals, deadline(r) PROVE BInv'
  BY <1>4, DeadlineSafe, Zenon
<1>5. CASE \/ \E r \in {"membership", "renewal"} : schedule(r)
           \/ (RunDebounced \/ RunRetried) /\ pc # "idle"
           \/ WaitOver \/ RetirePrevious \/ UNCHANGED vars
  <2>1. Aside /\ QInv' /\ UNCHANGED <<rosterVars, pauseVars, deliveries>>
    BY <1>0, <1>5, OthersAside, Zenon
  <2> QED  BY <2>1, AsideSafe, Zenon
<1>6. CASE Begin /\ pc \in {"idle", "loop"}
  BY <1>6, BeginSafe, Zenon
<1>7. CASE Preempted \/ (Decide /\ laterDue)
  <2>1. Aside /\ QInv' /\ withdraw /\ UNCHANGED <<rosterVars, pauseVars>>
    BY <1>0, <1>7, WithdrawSteps, Zenon
  <2>2. DOMAIN deliveries' \subseteq DOMAIN deliveries /\ \A e \in DOMAIN deliveries' : deliveries'[e] = deliveries[e]
    BY <2>1, Zenon DEF withdraw
  <2> QED  BY <2>1, <2>2, AsideSafe, Zenon
<1> QED
  BY <1>1, <1>2, <1>3, <1>4, <1>5, <1>6, <1>7, Shapes, InstalledSafe, ActivatedSafe, WorkSafe, Zenon

LEMMA BStart == ASSUME Init PROVE BInv
<1>1. /\ wq = << >> /\ wq \in Seq(Requests) /\ DOMAIN wq = {}
      /\ knows = << >> /\ DOMAIN knows = {} /\ deliveries = << >> /\ DOMAIN deliveries = {}
  BY DEF Init
<1>2. noRekey \in Rekeys
  BY KeysConstants DEF noRekey, Rekeys
<1>3. sound(EmptyRing) /\ EmptyRing.active = 0
  BY Zenon DEF sound, EmptyRing
<1>4. PageTypes
  <2>1. knows = [e \in DOMAIN knows |-> knows[e]]
    BY <1>1
  <2>2. activating \subseteq Activations
    BY Zenon DEF Init
  <2>3. kid \in Int
    BY RingBounds DEF Init
  <2> QED  BY <2>1, <2>2, <2>3, <1>1, <1>2, KeysConstants DEF Init, PageTypes, Busy
<1>5. WorkTypes
  BY <1>1, <1>3, Zenon DEF Init, WorkTypes
<1>6. Awaited /\ KeyFirst /\ SlotBySlot /\ Numbers
  BY <1>1 DEF Init, Awaited, KeyFirst, keyed, SlotBySlot, Numbers, Busy
<1>7. Hot = {}
  BY <1>1, <1>3, Zenon DEF Init, Hot
<1>8. Accounted /\ DueIsDone /\ Pending /\ Chains
  BY <1>1, <1>7, Zenon DEF Init, Accounted, DueIsDone, Pending, Chains, Busy
<1> QED  BY <1>4, <1>5, <1>6, <1>8, Zenon DEF BInv, QInv

(* What the invariant says of a slot's active epoch: it is dead, or its    *)
(* rekey has begun and covers the removal.                                 *)
LEMMA BoundFollows ==
  ASSUME BInv
  PROVE  RemovalBound
<1> SUFFICES ASSUME NEW d \in noted, NEW s \in Slots, ~\E r \in removals : d \in r.gone /\ ~r.due,
              ring[s].active # 0, d \in knows[ring[s].active]
             PROVE  leaving(ring[s].active)
  BY Zenon DEF RemovalBound
<1> DEFINE e == ring[s].active
<1>1. e \in Hot /\ e \in Live(ring[s])
  BY Zenon DEF Hot, BInv, QInv, WorkTypes, sound
<1>2. dead(e) => leaving(e)
  BY <1>1, Zenon DEF dead
<1>3. CASE e = active
  BY <1>2, <1>3, Zenon DEF BInv, Pending, DueIsDone
<1>4. CASE begun(e)
  <2>1. PICK a \in activating : a.epoch = e
    BY <1>4, Zenon DEF begun
  <2>2. PICK r \in removals : d \in r.gone /\ r.seq > a.created
    BY <2>1, Zenon DEF BInv, Pending, pendingFor
  <2>3. r.due /\ a.created >= r.seq
    BY <2>2, Zenon DEF BInv, DueIsDone
  <2>4. r.seq \in Nat /\ a.created \in Nat
    BY Zenon DEF BInv, QInv, PageTypes, Removals, Activations
  <2> QED  BY <2>2, <2>3, <2>4
<1> QED  BY <1>1, <1>2, <1>3, <1>4, Zenon DEF BInv, Accounted

-----------------------------------------------------------------------------
(* Who can decrypt, once the engine rests.  A rekey hands its key to the    *)
(* recipients it started with, and whoever leaves meanwhile is noted, with  *)
(* one exception: an emptied roster that reads as the key last compared.    *)

(* No activation is under way, and the active epoch is known to recipients *)
(* and to noted devices only.                                              *)
AtRest == activating = {} /\ (active # 0 => knows[active] \subseteq recipients \cup noted)

Known ==
  /\ recipientKey \in {roster, {}}
  /\ recipients \subseteq roster \/ (roster = {} /\ recipientKey = {})
  /\ pc \in Busy => rk.recipients \cup knows[rk.epoch] \subseteq recipients \cup noted
  /\ pc = "loop" => again \/ AtRest
  /\ pc = "idle" => failedRun \/ AtRest

(* A step that leaves the roster, the keys and the rekey as they are. *)
LEMMA KnownKept ==
  ASSUME Known, activating' \subseteq activating, again => again', failedRun' = failedRun,
         UNCHANGED <<rosterVars, active, knows>>, rk'.recipients = rk.recipients, rk'.epoch = rk.epoch,
         pc' = pc \/ (pc \in Busy /\ pc' \in Busy)
  PROVE  Known'
<1>1. pc' \in Busy => pc \in Busy
  BY Zenon DEF Busy
<1>2. pc' \in {"loop", "idle"} => pc' = pc
  BY Zenon DEF Busy
<1>3. AtRest => AtRest'
  BY Zenon DEF AtRest, rosterVars
<1> QED
  BY <1>1, <1>2, <1>3, Zenon DEF Known, rosterVars

(* setRoster notes every recipient that left, or keeps the recipients. *)
LEMMA RosterKnown ==
  ASSUME BInv, Known, NEW S \in SUBSET Devices, setRoster(S)
  PROVE  Known'
<1>1. /\ UNCHANGED <<rk, active, knows, activating, again, failedRun>> /\ roster' = S
      /\ pc' = pc \/ (pc \in Busy /\ pc' = "preempted")
  BY Zenon DEF setRoster, epochVars, Busy
<1>2. /\ recipientKey' \in {roster', {}}
      /\ recipients' \subseteq roster' \/ (roster' = {} /\ recipientKey' = {})
      /\ recipients \cup noted \subseteq recipients' \cup noted'
  <2>1. CASE sameRecipients(S)
    <3>1. S = recipientKey /\ roster' = S /\ noted' = noted \ S /\ UNCHANGED <<recipients, recipientKey>>
      BY <2>1, Zenon DEF setRoster, sameRecipients
    <3> QED
      BY <3>1, Zenon DEF Known, BInv, Chains
  <2>2. CASE ~sameRecipients(S)
    <3>1. /\ recipientKey' = S /\ recipients' = S /\ roster' = S
          /\ noted' = (noted \cup (recipients \ S)) \ S
      BY <2>2, Zenon DEF setRoster
    <3> QED
      BY <3>1, Zenon
  <2> QED
    BY <2>1, <2>2, Zenon
<1>3. pc' \in Busy \cup {"loop", "idle"} => pc' = pc
  BY <1>1, Zenon DEF Busy
<1>4. AtRest => AtRest'
  BY <1>1, <1>2, Zenon DEF AtRest
<1> QED
  BY <1>1, <1>2, <1>3, <1>4, Zenon DEF Known

(* A rekey starts from the roster, and ratchets only to devices on it. *)
LEMMA BeginKnown ==
  ASSUME BInv, Known, Begin, pc \in {"idle", "loop"}
  PROVE  Known'
<1>1. /\ pc' = "install" /\ recipients' = roster /\ rk'.recipients = roster /\ rk'.epoch = issued'
      /\ \/ knows'[issued'] = {}
         \/ /\ knows'[issued'] = knows[active] /\ active \in DOMAIN deliveries
            /\ deliveries[active].chain \subseteq roster \cap rk'.chain
      /\ UNCHANGED <<roster, noted, deliveries>>
  BY BeginEffect, Zenon DEF BInv
<1>2. recipientKey' = recipientKey
  BY Zenon DEF Begin, begin
<1>3. knows'[issued'] \subseteq roster
  BY <1>1, Zenon DEF BInv, Chains
<1> QED
  BY <1>1, <1>2, <1>3, Zenon DEF Known

(* The ways a rekey ends: only an activation lets the engine rest. *)
LEMMA EndKnown ==
  ASSUME BInv, Known, Refused \/ TimedOut \/ (Loop /\ ~again) \/ Preempted \/ (Decide /\ laterDue) \/ Activated
  PROVE  Known'
<1>1. CASE Refused \/ TimedOut
  BY <1>1, Zenon DEF Refused, TimedOut, thrown, rosterVars, Known, Busy
<1>2. CASE Loop /\ ~again
  <2>1. AtRest /\ pc' = "idle" /\ UNCHANGED <<roster, recipients, recipientKey, noted, active, knows, activating>>
    BY <1>2, Zenon DEF Loop, rosterVars, epochVars, pauseVars, Known
  <2> QED
    BY <2>1, Zenon DEF Known, AtRest, Busy
<1>3. CASE Preempted \/ (Decide /\ laterDue)
  <2>1. pc' = "loop" /\ again' /\ UNCHANGED rosterVars
    BY <1>3, Zenon DEF Preempted, Decide, withdraw
  <2> QED
    BY <2>1, Zenon DEF Known, rosterVars, Busy
<1>4. CASE Activated
  <2>1. /\ pc = "activate" /\ pc' = "loop" /\ active' = rk.epoch /\ activating' = {}
        /\ \A e \in DOMAIN knows' : knows'[e] = knows[e]
        /\ rk.epoch \in DOMAIN knows' /\ UNCHANGED <<roster, recipients, noted>>
    BY <1>4, ActivatedEffect, Zenon DEF BInv
  <2>2. recipientKey' = recipientKey
    BY <1>4, Zenon DEF Activated, rosterVars
  <2>3. AtRest'
    BY <2>1, Zenon DEF Known, AtRest, Busy
  <2> QED
    BY <2>1, <2>2, <2>3, Zenon DEF Known, Busy
<1> QED
  BY <1>1, <1>2, <1>3, <1>4, Zenon

(* Every step of the engine and its worker. *)
LEMMA KnownStep ==
  ASSUME BInv, Known, [Next]_vars
  PROVE  Known'
<1>1. ASSUME NEW r \in {"membership", "renewal"}, schedule(r) PROVE Known'
  BY <1>1, KnownKept, Zenon DEF schedule, epochVars, pauseVars
<1>2. CASE (RunDebounced \/ RunRetried) /\ pc # "idle"
  BY <1>2, KnownKept, Zenon DEF RunDebounced, RunRetried, run, epochVars, pauseVars
<1>3. CASE WaitOver \/ RetirePrevious \/ Work \/ UNCHANGED vars
  <2>1. UNCHANGED <<rosterVars, runVars, rk, epochVars, pauseVars>> /\ (pc' = pc \/ (pc \in Busy /\ pc' \in Busy))
    BY <1>3, Zenon DEF WaitOver, RetirePrevious, Work, vars, Busy
  <2> QED
    BY <2>1, KnownKept, Zenon DEF runVars, epochVars, pauseVars
<1>4. CASE Installed
  <2>1. /\ pc = "install" /\ pc' \in Busy \cup {"preempted"} /\ knows' = [knows EXCEPT ![rk.epoch] = @ \cup (rk.recipients \cap recipients)]
        /\ UNCHANGED <<rosterVars, rk>>
    BY <1>4, Zenon DEF Installed, Busy
  <2>2. rk.epoch \in DOMAIN knows /\ knows = [e \in DOMAIN knows |-> knows[e]]
    BY <2>1, Zenon DEF BInv, QInv, Numbers, PageTypes
  <2>3. knows'[rk.epoch] = knows[rk.epoch] \cup (rk.recipients \cap recipients)
    BY <2>1, <2>2, Zenon
  <2> QED
    BY <2>1, <2>3, Zenon DEF Known, rosterVars, Busy
<1>5. CASE NextSlot \/ (Decide /\ ~laterDue)
  <2>1. /\ pc \in Busy /\ pc' = "activate" /\ UNCHANGED <<rosterVars, knows>>
        /\ rk'.recipients = rk.recipients /\ rk'.epoch = rk.epoch
    BY <1>5, Zenon DEF NextSlot, Decide, epochVars, Busy, BInv, QInv, PageTypes, Rekeys
  <2> QED
    BY <2>1, Zenon DEF Known, rosterVars, Busy
<1>6. ASSUME NEW r \in removals, deadline(r) PROVE Known'
  <2>1. /\ UNCHANGED <<rosterVars, runVars, rk, epochVars>> /\ activating' \subseteq activating
        /\ pc' = pc \/ (pc \in Busy /\ pc' \in Busy)
    BY <1>6, Zenon DEF deadline, Busy
  <2> QED
    BY <2>1, KnownKept, Zenon DEF runVars, epochVars
<1> QED
  BY <1>1, <1>2, <1>3, <1>4, <1>5, <1>6, Shapes, RosterKnown, BeginKnown, EndKnown, Zenon

(* At rest, a ring is under the active epoch or its retirement is queued. *)
LEMMA QuietFollows ==
  ASSUME BInv, SInv, Known
  PROVE  QuietIsSafe
<1> SUFFICES ASSUME quiet, wq = << >>, NEW d \in Devices \ roster, NEW s \in Slots,
                    ring[s].active # 0, d \in knows[ring[s].active]
             PROVE  d \notin noted /\ (failedRun \/ (roster = {} /\ recipientKey = {}))
  BY Zenon DEF QuietIsSafe
<1> DEFINE e == ring[s].active
<1>1. e \in Hot /\ e \in Live(ring[s])
  BY Zenon DEF Hot, BInv, QInv, WorkTypes, sound
<1>2. ~leaving(e) /\ ~dead(e)
  BY <1>1 DEF leaving, dead
<1>3. d \notin noted
  BY <1>2, BoundFollows, Zenon DEF RemovalBound, SInv, RemovalsAreServed, quiet
<1>4. ASSUME ~failedRun PROVE roster = {} /\ recipientKey = {}
  <2>1. AtRest
    BY <1>4, Zenon DEF Known, quiet
  <2>2. e = active
    BY <1>1, <1>2, <2>1, Zenon DEF BInv, Accounted, begun, AtRest
  <2> QED
    BY <1>3, <2>1, <2>2, Zenon DEF AtRest, Known
<1> QED
  BY <1>3, <1>4, Zenon

-----------------------------------------------------------------------------
(* The epochs whose activation has begun are finitely many, so that their  *)
(* retirement can be ordered one by one.                                   *)
INSTANCE FiniteSetTheorems

LEMMA OneByOne ==
  ASSUME NEW S, IsFiniteSet(S)
  PROVE  /\ Cardinality(S) \in Nat /\ oneByOne(S) \in [1..Cardinality(S) -> S]
         /\ \A e \in S : \E i \in DOMAIN oneByOne(S) : oneByOne(S)[i] = e
<1>1. Cardinality(S) \in Nat /\ ExistsBijection(1..Cardinality(S), S)
  BY FS_CardinalityType, Zenon
<1>2. PICK f : f \in Bijection(1..Cardinality(S), S)
  BY <1>1, Zenon DEF ExistsBijection
<1>3. f \in [1..Cardinality(S) -> S] /\ \A e \in S : \E i \in DOMAIN f : f[i] = e
  BY <1>2, Zenon DEF Bijection, Surjection
<1> QED
  BY <1>1, <1>3, Zenon DEF oneByOne

LEMMA DeadlineEffect ==
  ASSUME PageTypes, WorkTypes, IsFiniteSet(activating)
  PROVE  DeadlineRetires
<1> SUFFICES ASSUME NEW r \in removals, deadline(r)
             PROVE  OnlyRetires /\ \A e \in stale(r) : \E i \in DOMAIN wq' : wq'[i].op = "retireOne" /\ wq'[i].epoch = e
  BY Zenon DEF DeadlineRetires
<1> DEFINE old == {x \in activating : x.created < r.seq}
           epochOf == [a \in old |-> a.epoch]
<1>1. IsFiniteSet(old)
  BY FS_Subset, Zenon
<1>2. epochOf \in Surjection(old, partial(r))
  BY Zenon DEF Surjection, partial
<1>3. IsFiniteSet(partial(r))
  BY <1>1, <1>2, FS_Surjection, Zenon
<1>4. IsFiniteSet(stale(r))
  BY <1>3, FS_Union, FS_EmptySet, FS_Singleton, Zenon DEF stale
<1>5. stale(r) \subseteq Nat
  BY Zenon DEF stale, partial, PageTypes, Activations
<1> DEFINE order == oneByOne(stale(r))
           n == Cardinality(stale(r))
           ms == [i \in DOMAIN order |-> post("retireOne", order[i])]
<1>6. n \in Nat /\ order \in [1..n -> stale(r)] /\ \A e \in stale(r) : \E i \in DOMAIN order : order[i] = e
  BY <1>4, OneByOne, Zenon
<1>7. wq' = wq \o ms
  BY Zenon DEF deadline
<1> HIDE DEF order, n
<1>8. \A e \in Nat : post("retireOne", e) \in Requests /\ post("retireOne", e).op = "retireOne" /\ post("retireOne", e).epoch = e /\ ~post("retireOne", e).ask
  BY KeysConstants DEF post, Requests
<1>9. /\ ms \in Seq(Requests) /\ Len(ms) = n /\ DOMAIN ms = 1..n /\ DOMAIN order = 1..n
      /\ \A i \in 1..n : ms[i].op = "retireOne" /\ ms[i].epoch = order[i] /\ ~ms[i].ask
  BY <1>5, <1>6, <1>8
<1> HIDE DEF ms
<1>10. /\ wq' \in Seq(Requests) /\ DOMAIN wq = 1..Len(wq) /\ Len(wq) \in Nat /\ DOMAIN wq' = 1..(Len(wq) + n)
       /\ \A i \in 1..Len(wq) : wq'[i] = wq[i]
       /\ \A i \in 1..n : wq'[Len(wq) + i] = ms[i]
  BY <1>6, <1>7, <1>9 DEF WorkTypes
<1>11. \A i \in DOMAIN wq' \ DOMAIN wq : i - Len(wq) \in 1..n /\ wq'[i] = ms[i - Len(wq)]
  BY <1>6, <1>10
<1>12. OnlyRetires
  BY <1>9, <1>10, <1>11, <1>6 DEF OnlyRetires
<1>13. ASSUME NEW e \in stale(r) PROVE \E i \in DOMAIN wq' : wq'[i].op = "retireOne" /\ wq'[i].epoch = e
  <2>1. PICK i \in 1..n : order[i] = e
    BY <1>6, <1>9, Zenon
  <2>2. Len(wq) + i \in DOMAIN wq' /\ wq'[Len(wq) + i] = ms[i]
    BY <1>10, <1>6
  <2> QED  BY <2>1, <2>2, <1>9, Zenon
<1> QED
  BY <1>12, <1>13, Zenon

LEMMA FiniteStep ==
  ASSUME IsFiniteSet(activating), [Next]_vars
  PROVE  IsFiniteSet(activating')
<1> DEFINE b == [epoch |-> rk.epoch, created |-> rk.created]
<1>1. activating' \subseteq activating \cup {b}
  <2>1. CASE NextSlot \/ Installed \/ Preempted \/ Activated
    BY <2>1, ZenonT(30) DEF NextSlot, Installed, Preempted, Activated, withdraw, pauseVars
  <2>2. CASE Decide
    BY <2>2, Zenon DEF Decide, withdraw
  <2>3. CASE Begin \/ Refused \/ TimedOut \/ (Loop /\ ~again)
    BY <2>3, Zenon DEF Begin, begin, Refused, TimedOut, Loop, thrown, pauseVars
  <2>4. CASE (RunDebounced \/ RunRetried) /\ pc # "idle"
    BY <2>4, Zenon DEF RunDebounced, RunRetried, run, pauseVars
  <2>5. CASE WaitOver \/ RetirePrevious \/ Work \/ UNCHANGED vars
    BY <2>5, Zenon DEF WaitOver, RetirePrevious, Work, pauseVars, vars
  <2>6. ASSUME NEW S \in SUBSET Devices, setRoster(S) PROVE <1>1
    BY <2>6, Zenon DEF setRoster, pauseVars
  <2>7. ASSUME NEW r \in {"membership", "renewal"}, schedule(r) PROVE <1>1
    BY <2>7, Zenon DEF schedule, pauseVars
  <2>8. ASSUME NEW r \in removals, deadline(r) PROVE <1>1
    BY <2>8, Zenon DEF deadline
  <2> QED  BY <2>1, <2>2, <2>3, <2>4, <2>5, <2>6, <2>7, <2>8, Shapes, Zenon
<1>2. IsFiniteSet(activating \cup {b})
  BY FS_AddElement, Zenon
<1> QED  BY <1>1, <1>2, FS_Subset, Zenon

LEMMA BoundedStep ==
  ASSUME BInv, IsFiniteSet(activating), [Next]_vars
  PROVE  BInv' /\ IsFiniteSet(activating)'
<1>1. DeadlineRetires
  BY DeadlineEffect, Zenon DEF BInv, QInv
<1> QED
  BY <1>1, BStep, FiniteStep, Zenon

(* The removal bound, for every number of devices, slots, changes and      *)
(* faults: once the deadline of a noted removal has passed or an epoch     *)
(* covers it, no slot encrypts under an epoch the removed device can       *)
(* decrypt, or the order to retire that epoch is in the worker's queue     *)
(* (media-keys.js:80-83, 357-369).                                         *)
THEOREM RemovalsBound == Spec => []RemovalBound
<1> DEFINE IInv == BInv /\ IsFiniteSet(activating)
<1>1. Init => IInv
  BY BStart, FS_EmptySet, Zenon DEF Init
<1>2. IInv => RemovalBound
  BY BoundFollows, Zenon
<1>3. IInv /\ [Next]_vars => IInv'
  BY BoundedStep, Zenon
<1> QED
  BY <1>1, <1>2, <1>3, PTL DEF Spec

(* An engine with nothing left to do encrypts under no epoch that a device *)
(* outside the roster can decrypt, unless the device left by an update     *)
(* that #recipientKey hid and every rekey since has failed or has met an   *)
(* empty channel (media-keys.js:80-82, 305-312, 417-430).                  *)
THEOREM QuietIsSafeHolds == Spec => []QuietIsSafe
<1> DEFINE IInv == BInv /\ IsFiniteSet(activating) /\ SInv /\ Known
<1>1. Init => IInv
  <2>1. Init => BInv /\ IsFiniteSet(activating)
    BY BStart, FS_EmptySet, Zenon DEF Init
  <2>2. Init => SInv
    BY Zenon DEF Init, SInv, RemovalsAreServed, Covered, Busy
  <2>3. Init => Known
    BY Zenon DEF Init, Known, AtRest, Busy
  <2> QED
    BY <2>1, <2>2, <2>3, Zenon
<1>2. IInv => QuietIsSafe
  BY QuietFollows, Zenon
<1>3. IInv /\ [Next]_vars => IInv'
  BY BoundedStep, ScheduleStep, KnownStep, Zenon
<1> QED
  BY <1>1, <1>2, <1>3, PTL DEF Spec
=============================================================================
