----------------------------- MODULE MediaKeys -----------------------------
(***************************************************************************)
(* The sending half of MediaKeyEngine (client/frontend/src/media-keys.js): *)
(* one voice session creates an epoch of media keys for every change of    *)
(* its recipients, hands it to them one control each, and has its worker   *)
(* encrypt under it.  The engine runs on the page's event loop; the key    *)
(* rings live in a worker that takes its requests first in, first out.     *)
(*                                                                         *)
(* Page: an action is what runs between two awaits.  A continuation that   *)
(* is due in the same turn (pc in Micro) runs before any other task of     *)
(* the page; the worker is another thread and may step at any time.        *)
(* Time is left out: a timer that is armed may fire at any moment.         *)
(*                                                                         *)
(* The controls of an epoch start together (the page starts up to six at   *)
(* once) and a device that was sent one counts as holding the key, so that *)
(* a control that failed and is sent again changes nothing.  A publication *)
(* change counts as "membership" and the start as "renewal", which have    *)
(* the same rank and the same treatment.  Not modelled: key material, the  *)
(* engine's copy of its own keys for the echo test, and the end of the     *)
(* session (stop and invisibility), which forgets every ring.              *)
(***************************************************************************)
EXTENDS Integers, Sequences, FiniteSets, MediaRing

CONSTANTS Devices,      \* the devices that may be in the channel
          Capable,      \* those that announced ratchet support
          NSlots,       \* media slots (SLOTS), each with a ring of its own
          InitialRosters, \* who may be in the channel when the session starts
          MaxChanges,   \* roster updates, renewals and publication changes
          MaxFaults     \* worker requests that time out

ASSUME KeysConstants == Capable \subseteq Devices /\ InitialRosters \subseteq SUBSET Devices /\ NSlots \in Nat \ {0}

VARIABLES
  roster, recipients, recipientKey,         \* the roster and the recipients taken from it
  reason, debounce, runRetry, again,        \* timers and flags of #schedule and #run
  pc, rk,                                   \* the rekey in flight and its local variables
  removals, paused, activating,             \* pending removals and what they guard
  epoch, kid, active, issued, deliveries,   \* the epochs of this session
  oldTimers,                                \* timers that retire a previous epoch
  wq, reply, ring,                          \* the worker's queue, its answer, its rings
  knows, noted, activeRecipients, failedRun,\* history: who can decrypt an epoch, departures seen
  changes, requests, faults                 \* counters of the bounds

rosterVars == <<roster, recipients, recipientKey, noted, changes>>
runVars    == <<reason, debounce, runRetry, again, failedRun>>
epochVars  == <<epoch, kid, active, activeRecipients, issued, deliveries, knows>>
pauseVars  == <<removals, paused, activating>>
workVars   == <<wq, reply, ring>>
bounds     == <<requests, faults>>
vars == <<rosterVars, runVars, pc, rk, epochVars, pauseVars, workVars, oldTimers, bounds>>

Slots == 1..NSlots
Micro == {"preempted", "decide", "loop"}
noRekey == [created |-> 0, urgent |-> FALSE, previous |-> 0, recipients |-> {},
            head |-> FALSE, epoch |-> 0, kid |-> 0, chain |-> {}, slot |-> 0]

REASON_RANK == [r \in {"", "membership", "renewal", "removal"} |->
                 CASE r = "" -> 0 [] r = "membership" -> 1 [] r = "renewal" -> 2 [] r = "removal" -> 3]

Init ==
  /\ roster \in InitialRosters /\ recipients = {} /\ recipientKey = {}
  /\ reason = "renewal" /\ debounce = TRUE /\ runRetry = FALSE /\ again = FALSE /\ failedRun = FALSE
  /\ pc = "idle" /\ rk = noRekey
  /\ removals = {} /\ paused = FALSE /\ activating = {}
  /\ epoch = 0 /\ kid = KEYRING - 1 /\ active = 0 /\ issued = 0
  /\ deliveries = << >> /\ activeRecipients = {} /\ oldTimers = {}
  /\ wq = << >> /\ reply = "none" /\ ring = [s \in Slots |-> EmptyRing]
  /\ knows = << >> /\ noted = {}
  /\ changes = 0 /\ requests = 0 /\ faults = 0

-----------------------------------------------------------------------------
(* The worker.  A request names one slot, or all of them (slot 0) when the *)
(* page posts it for every slot in one turn; ask marks the request that    *)
(* the rekey in flight awaits.                                             *)

activateSlot(s) == [op |-> "activate", slot |-> s, epoch |-> rk.epoch, kid |-> 0, ask |-> TRUE]
post(op, e) == [op |-> op, slot |-> 0, epoch |-> e, kid |-> 0, ask |-> FALSE]

applied(r, m) ==
  CASE m.op = "key"       -> key(r, m.epoch, m.kid)
    [] m.op = "activate"  -> activate(r, m.epoch)
    [] m.op = "retireOne" -> retireOne(r, m.epoch)
    [] m.op = "retire"    -> retire(r, m.epoch)

refused(r, m) ==
  \/ m.op = "key" /\ keyRefused(r, m.epoch, m.kid)
  \/ m.op = "activate" /\ activateRefused(r, m.epoch)

Work ==
  LET m == Head(wq)
  IN  /\ wq # << >>
      /\ wq' = Tail(wq)
      /\ ring' = [s \in Slots |-> IF m.slot \in {0, s} THEN applied(ring[s], m) ELSE ring[s]]
      /\ reply' = IF ~m.ask THEN reply ELSE IF \E s \in Slots : m.slot \in {0, s} /\ refused(ring[s], m) THEN "error" ELSE "ok"
      /\ UNCHANGED <<rosterVars, runVars, pc, rk, epochVars, pauseVars, oldTimers, bounds>>

-----------------------------------------------------------------------------
(* Roster and schedule. *)

scheduled(r) == IF REASON_RANK[r] >= REASON_RANK[reason] THEN r ELSE reason

(* Whether the list of recipients reads as the one last compared. *)
sameNumber(S) == Cardinality(S) = Cardinality(recipientKey)   \* variant: lengths only
sameRecipients(S) == S = recipientKey

(* setRoster.  A removal is noted when a recipient is gone: it has a place *)
(* in the order of roster updates and rekeys, a deadline of its own, and   *)
(* interrupts the plain wait of a rekey.                                   *)
setRoster(S) ==
  LET gone == recipients \ S
      removal == ~sameRecipients(S) /\ gone # {}
  IN  /\ pc \notin Micro /\ changes + requests < MaxChanges
      /\ changes' = changes + 1
      /\ roster' = S
      /\ IF sameRecipients(S) THEN UNCHANGED <<recipients, recipientKey, reason, debounce>>
         ELSE /\ recipientKey' = S /\ recipients' = S
              /\ reason' = scheduled(IF removal THEN "removal" ELSE "membership")
              /\ debounce' = TRUE
      /\ removals' = IF removal THEN removals \cup {[seq |-> changes + 1, gone |-> gone, due |-> FALSE]} ELSE removals
      /\ noted' = IF removal THEN (noted \cup gone) \ S ELSE noted \ S
      /\ pc' = IF removal /\ pc = "wait" THEN "preempted" ELSE pc
      /\ UNCHANGED <<runRetry, again, failedRun, rk, epochVars, paused, activating, workVars, oldTimers, bounds>>

(* publicationsChanged and the renewal interval. *)
schedule(r) ==
  /\ pc \notin Micro /\ changes + requests < MaxChanges
  /\ requests' = requests + 1
  /\ reason' = scheduled(r) /\ debounce' = TRUE
  /\ UNCHANGED <<rosterVars, runRetry, again, failedRun, pc, rk, epochVars, pauseVars, workVars, oldTimers, faults>>

-----------------------------------------------------------------------------
(* #rekey, first part: the snapshot, the ratchet or fresh epoch, its       *)
(* number, and the request to install it (one for all slots: until the     *)
(* last of them is installed nothing depends on the others).               *)

(* Removals the rekey does not cover. *)
later    == {r \in removals : r.seq > rk.created}
laterDue == \E r \in later : r.due

(* #ratchetHead and #ratchetCapable: whether the next epoch may be derived *)
(* from the active one.  delivered: every control of the active epoch has  *)
(* been acknowledged by now, which may be so or not.                       *)
ratchetHead(delivered) ==
  /\ delivered /\ reason = "membership" /\ removals = {} /\ ~paused
  /\ active # 0 /\ epoch = active /\ issued = active /\ active \in DOMAIN deliveries
  /\ deliveries[active].chain \subseteq (roster \cap deliveries[active].to \cap Capable)

nextEpoch(head) == IF head THEN active + 1 ELSE issued + 2
nextKid(head)   == (IF head THEN deliveries[active].kid + 1 ELSE kid + 2) % KEYRING

begin(head) ==
  LET e == nextEpoch(head)
  IN  /\ reason' = "" /\ again' = FALSE
      /\ recipients' = roster
      /\ issued' = e
      /\ knows' = [x \in DOMAIN knows \cup {e} |-> IF x # e THEN knows[x] ELSE IF head THEN knows[active] ELSE {}]
      /\ rk' = [created |-> changes, urgent |-> removals # {}, previous |-> active, recipients |-> roster,
                head |-> head, epoch |-> e, kid |-> nextKid(head),
                chain |-> IF head THEN roster \cup deliveries[active].chain ELSE roster, slot |-> 0]
      /\ pc' = "install"
      /\ wq' = Append(wq, [op |-> "key", slot |-> 0, epoch |-> e, kid |-> nextKid(head), ask |-> TRUE])
      /\ UNCHANGED <<roster, recipientKey, noted, changes, failedRun, epoch, kid, active, activeRecipients, deliveries,
                     pauseVars, reply, ring, oldTimers, bounds>>

Begin == \E delivered \in BOOLEAN : begin(ratchetHead(delivered))

runDroppedWhenBusy ==
  IF pc = "idle" THEN Begin
  ELSE UNCHANGED <<rosterVars, reason, again, failedRun, pc, rk, epochVars, pauseVars, workVars, oldTimers, bounds>>

(* #run, from a timer; only one at a time. *)
run == IF pc = "idle" THEN Begin
       ELSE again' = TRUE /\ UNCHANGED <<rosterVars, reason, failedRun, pc, rk, epochVars, pauseVars, workVars, oldTimers, bounds>>

RunDebounced == pc \notin Micro /\ debounce /\ debounce' = FALSE /\ run /\ UNCHANGED runRetry
RunRetried   == pc \notin Micro /\ runRetry /\ runRetry' = FALSE /\ run /\ UNCHANGED debounce

(* The loop of #run after a rekey that returned. *)
Loop ==
  /\ pc = "loop"
  /\ IF again THEN Begin /\ UNCHANGED <<debounce, runRetry>>
     ELSE /\ pc' = "idle" /\ rk' = noRekey /\ runRetry' = FALSE /\ failedRun' = FALSE
          /\ UNCHANGED <<rosterVars, reason, debounce, again, epochVars, pauseVars, workVars, oldTimers, bounds>>

(* A rekey that threw: only pending removals are tried again. *)
neverRetried == FALSE
retried == removals # {}

thrown ==
  /\ pc' = "idle" /\ rk' = noRekey /\ failedRun' = TRUE
  /\ runRetry' = (retried \/ runRetry)
  /\ reply' = "none"
  /\ UNCHANGED <<rosterVars, reason, debounce, again, epochVars, pauseVars, ring, oldTimers, requests>>

-----------------------------------------------------------------------------
(* #rekey, second part: install the keys, distribute them, wait, activate. *)

(* Every slot holds the key: the epoch becomes current, its controls go    *)
(* out to those who are still recipients, and the rekey waits as its kind  *)
(* demands.                                                                *)
Installed ==
  LET to == rk.recipients \cap recipients
  IN  /\ pc = "install" /\ reply = "ok"
      /\ reply' = "none"
      /\ epoch' = rk.epoch /\ kid' = rk.kid
      /\ deliveries' = [e \in DOMAIN deliveries \cup {rk.epoch} |->
                          IF e = rk.epoch THEN [to |-> to, kid |-> rk.kid, chain |-> rk.chain] ELSE deliveries[e]]
      /\ knows' = [knows EXCEPT ![rk.epoch] = @ \cup to]
      /\ pc' = IF rk.urgent /\ rk.previous # 0 THEN "urgent"
               ELSE IF later # {} THEN "preempted"
               ELSE IF rk.head \/ rk.previous = 0 THEN "decide" ELSE "wait"
      /\ UNCHANGED <<rosterVars, runVars, rk, active, activeRecipients, issued, pauseVars, wq, ring, oldTimers, bounds>>

(* The controls settled and the delay passed, or the wait is over. *)
WaitOver ==
  /\ pc \in {"wait", "urgent"}
  /\ pc' = "decide"
  /\ UNCHANGED <<rosterVars, runVars, rk, epochVars, pauseVars, workVars, oldTimers, bounds>>

(* An epoch that never activated leaves the worker, and the previous one   *)
(* is current again.                                                       *)
withdraw ==
  LET back == IF rk.previous = 0 THEN rk.epoch ELSE rk.previous
  IN  /\ wq' = Append(wq, post("retireOne", rk.epoch))
      /\ epoch' = back
      /\ kid' = IF back \in DOMAIN deliveries THEN deliveries[back].kid ELSE kid
      /\ deliveries' = [e \in DOMAIN deliveries \ {rk.epoch} |-> deliveries[e]]
      /\ again' = TRUE /\ pc' = "loop"
      /\ UNCHANGED <<rk, activating>>

(* A removal preempts an epoch that has not activated yet. *)
Preempted ==
  /\ pc = "preempted"
  /\ withdraw
  /\ UNCHANGED <<rosterVars, reason, debounce, runRetry, failedRun, active, activeRecipients, issued, knows, removals, paused,
                 reply, ring, oldTimers, bounds>>

(* An epoch older than a removal that is due is withdrawn; any other one   *)
(* starts to activate, slot after slot.                                    *)
Decide ==
  /\ pc = "decide"
  /\ IF laterDue THEN withdraw
     ELSE /\ activating' = activating \cup {[epoch |-> rk.epoch, created |-> rk.created]}
          /\ wq' = Append(wq, activateSlot(1))
          /\ rk' = [rk EXCEPT !.slot = 1]
          /\ pc' = "activate"
          /\ UNCHANGED <<again, epoch, kid, deliveries>>
  /\ UNCHANGED <<rosterVars, reason, debounce, runRetry, failedRun, active, activeRecipients, issued, knows, removals, paused,
                 reply, ring, oldTimers, bounds>>

NextSlot ==
  /\ pc = "activate" /\ reply = "ok" /\ rk.slot < NSlots
  /\ reply' = "none"
  /\ rk' = [rk EXCEPT !.slot = @ + 1]
  /\ wq' = Append(wq, activateSlot(rk.slot + 1))
  /\ UNCHANGED <<rosterVars, runVars, pc, epochVars, pauseVars, ring, oldTimers, bounds>>

(* Whether the sender is silent once the epoch is active. *)
pausedStays == paused \/ laterDue
pausedNow == laterDue

(* Every slot encrypts under the epoch.  The removals it covers are        *)
(* satisfied; one that fell due meanwhile silences it again.               *)
Activated ==
  /\ pc = "activate" /\ reply = "ok" /\ rk.slot = NSlots
  /\ reply' = "none"
  /\ activating' = {a \in activating : a.epoch > rk.epoch}
  /\ active' = rk.epoch /\ activeRecipients' = rk.recipients
  /\ paused' = pausedNow
  /\ wq' = IF laterDue THEN Append(wq, post("retireOne", rk.epoch)) ELSE wq
  /\ deliveries' = [e \in {x \in DOMAIN deliveries : x >= rk.epoch} |-> deliveries[e]]
  /\ knows' = [e \in {x \in DOMAIN knows : x >= rk.epoch} |-> knows[e]]
  /\ removals' = later
  /\ again' = (again \/ later # {})
  /\ oldTimers' = IF rk.previous = 0 THEN oldTimers ELSE oldTimers \cup {rk.previous}
  /\ pc' = "loop"
  /\ UNCHANGED <<rosterVars, reason, debounce, runRetry, failedRun, rk, epoch, kid, issued, ring, bounds>>

(* The worker refused the request, or did not answer it in time: then the  *)
(* request stays in its queue and a late answer finds nobody waiting.      *)
Refused ==
  /\ pc \in {"install", "activate"} /\ reply = "error"
  /\ thrown /\ UNCHANGED <<wq, faults>>

TimedOut ==
  /\ pc \in {"install", "activate"} /\ faults < MaxFaults
  /\ faults' = faults + 1
  /\ wq' = [i \in DOMAIN wq |-> [wq[i] EXCEPT !.ask = FALSE]]
  /\ thrown

(* The timer that retires what the previous epoch left. *)
RetirePrevious ==
  \E p \in oldTimers :
    /\ pc \notin Micro
    /\ oldTimers' = oldTimers \ {p}
    /\ wq' = Append(wq, post("retire", p))
    /\ UNCHANGED <<rosterVars, runVars, pc, rk, epochVars, pauseVars, reply, ring, bounds>>

(* Activations that began before the removal and did not finish: some      *)
(* slots may encrypt under them already.                                   *)
noPartial(r) == {}
partial(r) == {a.epoch : a \in {x \in activating : x.created < r.seq}}

stale(r) == partial(r) \cup (IF active # 0 /\ ~paused THEN {active} ELSE {})

oneByOne(S) == CHOOSE q \in [1..Cardinality(S) -> S] : \A e \in S : \E i \in DOMAIN q : q[i] = e

(* The deadline timer of a removal (#noteRemoval): whatever a removed      *)
(* device may hold is retired, the active epoch and any activation that    *)
(* began before the removal.                                               *)
deadline(r) ==
  LET order == oneByOne(stale(r))
  IN  /\ pc \notin Micro /\ ~r.due
      /\ removals' = (removals \ {r}) \cup {[r EXCEPT !.due = TRUE]}
      /\ activating' = {a \in activating : a.created >= r.seq}
      /\ wq' = wq \o [i \in DOMAIN order |-> post("retireOne", order[i])]
      /\ paused' = (paused \/ stale(r) # {})
      /\ pc' = IF pc = "urgent" /\ r.seq <= rk.created THEN "decide" ELSE pc
      /\ UNCHANGED <<rosterVars, runVars, rk, epochVars, reply, ring, oldTimers, bounds>>

Deadline == \E r \in removals : deadline(r)

-----------------------------------------------------------------------------
Environment == (\E S \in SUBSET Devices : setRoster(S)) \/ (\E r \in {"membership", "renewal"} : schedule(r)) \/ TimedOut

Rekey == RunDebounced \/ RunRetried \/ Loop \/ NextSlot \/ Installed \/ WaitOver \/ Preempted
         \/ Decide \/ Activated \/ Refused

Next == Environment \/ Rekey \/ Work \/ RetirePrevious \/ Deadline

Spec == Init /\ [][Next]_vars

(* Something that can go on does: timers fire, waits end, and the worker   *)
(* works through its queue.                                                *)
FairSpec == Spec /\ WF_vars(Rekey \/ Work \/ Deadline)

-----------------------------------------------------------------------------
(* Properties. *)

(* The order to retire epoch e is in the worker's queue. *)
leaving(e) == \E i \in DOMAIN wq : \/ wq[i].op = "retireOne" /\ wq[i].epoch = e
                                   \/ wq[i].op = "retire" /\ wq[i].epoch >= e

(* The removal bound (media-keys.js:80-83, 357-369): once the deadline of  *)
(* a noted removal has passed, or the removal counts as satisfied, no slot *)
(* of the worker encrypts under an epoch the removed device can decrypt,   *)
(* unless the order to retire that epoch is already in the worker's queue. *)
RemovalBound ==
  \A d \in noted, s \in Slots :
    LET e == ring[s].active
    IN  (~\E r \in removals : d \in r.gone /\ ~r.due) => e = 0 \/ d \notin knows[e] \/ leaving(e)

(* A removal that is still pending is always being worked on: a timer or a *)
(* run is there to create the epoch that covers it (media-keys.js:347,551).*)
RemovalsAreServed == removals # {} => debounce \/ runRetry \/ pc # "idle"

quiet == pc = "idle" /\ ~debounce /\ ~runRetry

(* Once nothing is left to do and no worker request failed, the active     *)
(* epoch was created for exactly the devices that are recipients now       *)
(* (media-keys.js:6-10): no join is lost in a rekey that is under way, and *)
(* the sender is not left silent.                                          *)
RecipientsAreCurrent == quiet /\ ~failedRun => activeRecipients = recipients /\ ~paused

(* The removal bound for every device that left the roster, noted or not   *)
(* (media-keys.js:80-82): an engine with nothing left to do encrypts under *)
(* no epoch that a device outside the roster can decrypt.  There is one    *)
(* exception.  #rekey takes the recipients from the roster and leaves      *)
(* #recipientKey alone, so when the first update of a session empties the  *)
(* channel, setRoster compares "" with "" and notes no removal.  Such a    *)
(* device is heard until the next rekey that succeeds: a failed one is not *)
(* tried again, since no removal is pending.                               *)
QuietIsSafe ==
  LET heard(d) == \E s \in Slots : ring[s].active # 0 /\ d \in knows[ring[s].active]
  IN  quiet /\ wq = << >> => \A d \in Devices \ roster : heard(d) =>
        d \notin noted /\ (failedRun \/ (roster = {} /\ recipientKey = {}))

(* A removal is covered in the end, and the sender is heard again, however *)
(* requests to the worker failed before.                                   *)
Recovers == (removals # {} \/ paused) ~> (removals = {} /\ ~paused)
=============================================================================
