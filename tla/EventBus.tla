------------------------------ MODULE EventBus ------------------------------
(***************************************************************************)
(* The server-side publish/subscribe registry (internal/eventbus/bus.go).  *)
(*                                                                         *)
(* Two locks: publishMu is held for a whole Publish, the registry lock mu  *)
(* is read-held while an event is fanned out and write-held by Subscribe,  *)
(* Unsubscribe, evict and Close.  A consumer takes events out of its       *)
(* channel at any moment, also between two sends of one fan-out.           *)
(***************************************************************************)
EXTENDS Naturals, Sequences, FiniteSets

CONSTANTS Publishers,   \* goroutines that call Publish
          Subs,         \* subscriptions, each registered at most once (ids are never reused)
          EventTypes,   \* event types
          Filter,       \* Filter[s]: the types subscription s wants
          Buffer,       \* capacity of a subscriber channel
          MaxDrops,     \* consecutive drops that evict a subscriber
          MaxSeq        \* bound on published events

ASSUME EventBusAssumption ==
    /\ Buffer \in Nat \ {0} /\ MaxDrops \in Nat \ {0} /\ MaxSeq \in Nat
    /\ IsFiniteSet(Subs) /\ EventTypes # {}
    /\ Filter \in [Subs -> SUBSET EventTypes]

VARIABLES
    \* the Bus
    closed,     \* Bus.closed
    registered, \* the keys of Bus.subs
    seq,        \* Bus.seq
    evicted,    \* Bus.evicted
    \* the Subscriptions; events are known by their sequence numbers
    ch,         \* the buffered channel
    read,       \* what the consumer took out of it so far
    drops,      \* consecutive drops since the last delivery
    dropped,    \* lifetime drops
    evicting,   \* the subscriptions whose evict-once latch is set
    reason,     \* CloseReason, "Unborn" before Subscribe
    \* the publishers, inside Publish
    pc, evtSeq, evtType,
    todo,       \* subscriptions the fan-out loop has not reached
    evict       \* subscriptions the loop chose to evict

busVars == <<closed, registered, seq, evicted>>
chanVars == <<ch, read, drops, dropped, evicting>>
pubVars == <<pc, evtSeq, evtType, todo, evict>>
vars == <<busVars, chanVars, reason, pubVars>>

Reasons == {"Unborn", "Open", "Unsubscribed", "SlowConsumer", "BusClosed"}
NoType == CHOOSE t \in EventTypes : TRUE

Init ==
    /\ closed = FALSE /\ registered = {} /\ seq = 0 /\ evicted = 0
    /\ ch = [s \in Subs |-> <<>>] /\ read = [s \in Subs |-> <<>>]
    /\ drops = [s \in Subs |-> 0] /\ dropped = [s \in Subs |-> 0]
    /\ evicting = {}
    /\ reason = [s \in Subs |-> "Unborn"]
    /\ pc = [p \in Publishers |-> "idle"]
    /\ evtSeq = [p \in Publishers |-> 0]
    /\ evtType = [p \in Publishers |-> NoType]
    /\ todo = [p \in Publishers |-> {}]
    /\ evict = [p \in Publishers |-> {}]

-----------------------------------------------------------------------------
(* Locks.  publishMu is held from "locked" to the end of Publish; mu is    *)
(* read-held exactly while a publisher is in its fan-out loop.             *)

\* Mistake: no publishMu, the read lock alone admits several publishers.
publishMuFreeNoLock == TRUE

publishMuFree == \A p \in Publishers : pc[p] = "idle"

\* Mistake: mu is not read-held while the event is fanned out.
muFreeNoLock == TRUE

muFree == \A p \in Publishers : pc[p] # "fanout"

\* Subscription.close for the subscriptions in S: the first reason stays.
closeAs(S, why) ==
    [s \in Subs |-> IF s \in S /\ reason[s] = "Open" THEN why ELSE reason[s]]

-----------------------------------------------------------------------------
(* The registry operations, each under mu.Lock.                            *)

Subscribe(s) ==
    /\ muFree
    /\ ~closed
    /\ reason[s] = "Unborn"
    /\ registered' = registered \union {s}
    /\ reason' = [reason EXCEPT ![s] = "Open"]
    /\ UNCHANGED <<closed, seq, evicted, chanVars, pubVars>>

Unsubscribe(s) ==
    /\ muFree
    /\ reason[s] # "Unborn"
    /\ \/ /\ closed
          /\ reason' = closeAs({s}, "BusClosed")
          /\ UNCHANGED registered
       \/ /\ ~closed
          /\ reason' = closeAs({s}, "Unsubscribed")
          /\ registered' = registered \ {s}
    /\ UNCHANGED <<closed, seq, evicted, chanVars, pubVars>>

Close ==
    /\ muFree
    /\ ~closed
    /\ closed' = TRUE
    /\ reason' = closeAs(registered, "BusClosed")
    /\ registered' = {}
    /\ UNCHANGED <<seq, evicted, chanVars, pubVars>>

\* The consumer takes the oldest event out of its channel; what a closed
\* channel still buffers stays readable.
Receive(s) ==
    /\ ch[s] # <<>>
    /\ ch' = [ch EXCEPT ![s] = Tail(@)]
    /\ read' = [read EXCEPT ![s] = Append(@, Head(ch[s]))]
    /\ UNCHANGED <<busVars, drops, dropped, evicting, reason, pubVars>>

-----------------------------------------------------------------------------
(* Publish.                                                                *)

\* publishMu.Lock
PublishLock(p, t) ==
    /\ pc[p] = "idle"
    /\ publishMuFree
    /\ seq < MaxSeq
    /\ pc' = [pc EXCEPT ![p] = "locked"]
    /\ evtType' = [evtType EXCEPT ![p] = t]
    /\ UNCHANGED <<busVars, chanVars, reason, evtSeq, todo, evict>>

\* Subscription.wants, over the registry.
wants(t) == {s \in registered : t \in Filter[s]}

\* mu.RLock, and the early return when the bus is closed or nobody listens.
PublishNobody(p) ==
    /\ pc[p] = "locked"
    /\ closed \/ registered = {}
    /\ pc' = [pc EXCEPT ![p] = "unheard"]
    /\ UNCHANGED <<busVars, chanVars, reason, evtSeq, evtType, todo, evict>>

\* mu.RLock; the event takes the next sequence number and the loop starts over
\* every subscriber that wants the type.
PublishFanout(p) ==
    /\ pc[p] = "locked"
    /\ ~closed /\ registered # {}
    /\ pc' = [pc EXCEPT ![p] = "fanout"]
    /\ seq' = seq + 1
    /\ evtSeq' = [evtSeq EXCEPT ![p] = seq + 1]
    /\ todo' = [todo EXCEPT ![p] = wants(evtType[p])]
    /\ UNCHANGED <<closed, registered, evicted, chanVars, reason, evtType, evict>>

\* The event nobody hears still takes a sequence number, after RUnlock.
PublishUnheard(p) ==
    /\ pc[p] = "unheard"
    /\ seq' = seq + 1
    /\ pc' = [pc EXCEPT ![p] = "idle"]
    /\ evtType' = [evtType EXCEPT ![p] = NoType]
    /\ UNCHANGED <<closed, registered, evicted, chanVars, reason, evtSeq, todo, evict>>

\* Mistake: a delivery does not forgive the earlier burst.
DeliverKeepsDrops(p, s) ==
    /\ Len(ch[s]) < Buffer
    /\ ch' = [ch EXCEPT ![s] = Append(@, evtSeq[p])]
    /\ UNCHANGED <<read, drops, dropped, evicting, evict>>

\* A delivery resets the consecutive drops.
Deliver(p, s) ==
    /\ Len(ch[s]) < Buffer
    /\ ch' = [ch EXCEPT ![s] = Append(@, evtSeq[p])]
    /\ drops' = [drops EXCEPT ![s] = 0]
    /\ UNCHANGED <<read, dropped, evicting, evict>>

\* Mistake: the threshold is compared before the drop is counted.
atDropLimitLate(s) == drops[s] >= MaxDrops

atDropLimit(s) == drops[s] + 1 >= MaxDrops

\* A full buffer drops the event.
Drop(p, s) ==
    /\ Len(ch[s]) >= Buffer
    /\ ~atDropLimit(s) \/ s \in evicting
    /\ drops' = [drops EXCEPT ![s] = @ + 1]
    /\ dropped' = [dropped EXCEPT ![s] = @ + 1]
    /\ UNCHANGED <<ch, read, evicting, evict>>

\* The drop that reaches the limit wins the latch and queues the eviction.
DropAndEvict(p, s) ==
    /\ Len(ch[s]) >= Buffer
    /\ atDropLimit(s) /\ s \notin evicting
    /\ drops' = [drops EXCEPT ![s] = @ + 1]
    /\ dropped' = [dropped EXCEPT ![s] = @ + 1]
    /\ evicting' = evicting \union {s}
    /\ evict' = [evict EXCEPT ![p] = @ \union {s}]
    /\ UNCHANGED <<ch, read>>

\* Mistake: the send waits for room instead of dropping.
sendOutcomeBlocks(p, s) == Deliver(p, s)

\* The non-blocking send.
sendOutcome(p, s) == Deliver(p, s) \/ Drop(p, s) \/ DropAndEvict(p, s)

\* One turn of the loop.
PublishSend(p, s) ==
    /\ pc[p] = "fanout"
    /\ s \in todo[p]
    /\ todo' = [todo EXCEPT ![p] = @ \ {s}]
    /\ sendOutcome(p, s)
    /\ UNCHANGED <<busVars, reason, pc, evtSeq, evtType>>

\* mu.RUnlock after the loop.
PublishUnlock(p) ==
    /\ pc[p] = "fanout"
    /\ todo[p] = {}
    /\ pc' = [pc EXCEPT ![p] = "evicting"]
    /\ evtSeq' = [evtSeq EXCEPT ![p] = 0]
    /\ evtType' = [evtType EXCEPT ![p] = NoType]
    /\ UNCHANGED <<busVars, chanVars, reason, todo, evict>>

\* Bus.evict under mu.Lock: only a subscription that is still registered.
Evict(p, s) ==
    /\ pc[p] = "evicting"
    /\ s \in evict[p]
    /\ muFree
    /\ evict' = [evict EXCEPT ![p] = @ \ {s}]
    /\ \/ /\ s \in registered
          /\ reason' = closeAs({s}, "SlowConsumer")
          /\ registered' = registered \ {s}
          /\ evicted' = evicted + 1
       \/ /\ s \notin registered
          /\ UNCHANGED <<reason, registered, evicted>>
    /\ UNCHANGED <<closed, seq, chanVars, pc, evtSeq, evtType, todo>>

\* publishMu.Unlock
PublishDone(p) ==
    /\ pc[p] = "evicting"
    /\ evict[p] = {}
    /\ pc' = [pc EXCEPT ![p] = "idle"]
    /\ UNCHANGED <<busVars, chanVars, reason, evtSeq, evtType, todo, evict>>

\* What a publisher that holds publishMu does until it returns.
Finish(p) ==
    \/ PublishNobody(p)
    \/ PublishFanout(p)
    \/ PublishUnheard(p)
    \/ \E s \in Subs : PublishSend(p, s) \/ Evict(p, s)
    \/ PublishUnlock(p)
    \/ PublishDone(p)

Next ==
    \/ \E s \in Subs : Subscribe(s) \/ Unsubscribe(s) \/ Receive(s)
    \/ Close
    \/ \E p \in Publishers : Finish(p) \/ \E t \in EventTypes : PublishLock(p, t)

Spec == Init /\ [][Next]_vars

\* A publisher inside Publish keeps running: its sends do not block and mu is
\* otherwise held for finite critical sections only.
FairSpec == Spec /\ \A p \in Publishers : WF_vars(Finish(p))

-----------------------------------------------------------------------------
(* Properties.                                                             *)

TypeOK ==
    /\ closed \in BOOLEAN /\ registered \subseteq Subs /\ seq \in Nat /\ evicted \in Nat
    /\ ch \in [Subs -> Seq(Nat)] /\ read \in [Subs -> Seq(Nat)]
    /\ drops \in [Subs -> Nat] /\ dropped \in [Subs -> Nat]
    /\ evicting \subseteq Subs /\ reason \in [Subs -> Reasons]
    /\ pc \in [Publishers -> {"idle", "locked", "unheard", "fanout", "evicting"}]
    /\ evtSeq \in [Publishers -> Nat] /\ evtType \in [Publishers -> EventTypes]
    /\ todo \in [Publishers -> SUBSET Subs] /\ evict \in [Publishers -> SUBSET Subs]

\* What a subscriber has read or can still read.
Log(s) == read[s] \o ch[s]

\* publishMu "preserves sequence order in every subscriber channel": whatever
\* publishers interleave, a subscriber sees strictly increasing numbers.
SequenceOrder ==
    \A s \in Subs : \A i, j \in 1..Len(Log(s)) : i < j => Log(s)[i] < Log(s)[j]

\* The fan-out never reaches a subscription whose channel is closed (a send on
\* a closed Go channel panics), although close runs between two publishes.
NoSendOnClosed ==
    \A p \in Publishers : \A s \in todo[p] : reason[s] = "Open"

\* "A subscriber can detect its own gaps": for a subscriber without a type
\* filter, the numbers missing between the first and the last event it was
\* given are exactly the drops counted before that last event.
GapsAreDrops ==
    \A s \in Subs :
        (Filter[s] = EventTypes /\ Log(s) # <<>>) =>
            Log(s)[Len(Log(s))] + 1 + drops[s] = Log(s)[1] + Len(Log(s)) + dropped[s]

\* A registered subscriber at the drop limit is never forgotten: some publisher
\* still holds it in its eviction list.
SlowIsEvicted ==
    \A s \in registered :
        drops[s] >= MaxDrops => \E p \in Publishers : s \in evict[p]

\* "Once a subscription closes, the reason is immutable", also when shutdown,
\* eviction and the consumer's own Unsubscribe race; and nothing is added to a
\* closed channel.
ClosedIsFinal ==
    [][\A s \in Subs : reason[s] \notin {"Unborn", "Open"} =>
          /\ reason'[s] = reason[s]
          /\ Len(ch'[s]) <= Len(ch[s])]_vars

\* A publisher always gets through, whatever the consumers do: "a slow
\* subscriber never blocks that ordered publish path".
PublishTerminates ==
    \A p \in Publishers : (pc[p] # "idle") ~> (pc[p] = "idle")
=============================================================================
