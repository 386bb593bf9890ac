---------------------------- MODULE VideoReorder ----------------------------
(***************************************************************************)
(* The reorder queue in front of a forwarded video track                   *)
(* (internal/webrtc/video_reorder.go).  Packets with consecutive sequence  *)
(* numbers pass at once; packets behind a gap are held until the gap is    *)
(* repaired, the wait of one of them is over, or the queue is at its       *)
(* limit.                                                                  *)
(*                                                                         *)
(* The sender numbers its packets 0, 1, 2, ...; the wire carries that      *)
(* position modulo Space.  The queue is one record q, and its methods are  *)
(* functions of that record, composed as the code composes them.  q.dirty  *)
(* is left out: every method that sets it recomputes the deadline before   *)
(* it returns.                                                             *)
(***************************************************************************)
EXTENDS Integers, Sequences, FiniteSets, SequencesExt, FiniteSetsExt, Functions

CONSTANTS
  Space,         \* sequence numbers on the wire (2^16)
  Packets,       \* videoReorderPackets
  Bytes,         \* videoReorderBytes
  MaxWait, MinWait,   \* videoReorderWait, videoReorderMinWait
  Freshness,     \* videoRepairRTTFreshness
  FirstSent, LastSent,   \* the positions that are sent, a bounded range
  MaxTime        \* bound on the clock

ASSUME ReorderAssumption ==
  /\ {Space, Packets, Bytes, MaxWait, MinWait} \subseteq Nat \ {0}
  /\ Space % 2 = 0 /\ Packets < Space \div 2
  /\ {Freshness, FirstSent, LastSent, MaxTime} \subseteq Nat
  /\ MinWait <= MaxWait

VARIABLES
  q,      \* the queue
  now,    \* the clock, from 1: 0 is the zero time
  done    \* the read loop has returned

vars == <<q, now, done>>

Half      == Space \div 2
Wire      == 0..(Space - 1)
Positions == FirstSent..LastSent
wire(p)   == p % Space
size(p)   == 1 + (p % 2)      \* two packet sizes

none  == [s \in {} |-> 0]

(***************************************************************************)
(* pending maps a sequence number to the position it stands for, and at    *)
(* and expires to the entry's times; out is what the last step emitted and *)
(* top the newest position emitted before it (both only observe).          *)
(***************************************************************************)
Init ==
  /\ q = [seen |-> FALSE, next |-> 0, bytes |-> 0, pending |-> none, at |-> none,
          until |-> none, expires |-> 0, wait |-> 0, waitUntil |-> 0,
          out |-> <<>>, top |-> FirstSent - 1]
  /\ now = 1 /\ done = FALSE

-----------------------------------------------------------------------------
rtpSequenceDelta(sequence, previous) ==
  LET delta == (sequence - previous) % Space IN
  IF delta >= Half THEN delta - Space ELSE delta

held(r)     == DOMAIN r.pending
ahead(r, s) == (s - r.next) % Space
earliest(r) == Min({r.until[s] : s \in held(r)})

\* The packets at and right behind position k ahead of next.
run(r, k) == {s \in held(r) : /\ ahead(r, s) >= k
                              /\ \A j \in k..ahead(r, s) : (r.next + j) % Space \in held(r)}

\* Emit the packets S in wire order and step over them.
byNumber(r, S) == SetToSortSeq(S, <)      \* variant: rollover forgotten
order(r, S)    == SetToSortSeq(S, LAMBDA s, t : ahead(r, s) < ahead(r, t))
release(r, S) ==
  IF S = {} THEN r ELSE
  LET sent == [i \in 1..Cardinality(S) |-> r.pending[order(r, S)[i]]]
      rest == held(r) \ S
  IN [r EXCEPT !.next = (r.next + Max({ahead(r, s) : s \in S}) + 1) % Space,
               !.bytes = @ - FoldSet(LAMBDA s, n : n + size(r.pending[s]), 0, S),
               !.pending = Restrict(@, rest), !.at = Restrict(@, rest),
               !.until = Restrict(@, rest), !.out = @ \o sent]

\* An empty queue forgets its deadline and its measurement.
settle(r) ==
  IF held(r) = {} THEN [r EXCEPT !.expires = 0, !.wait = 0, !.waitUntil = 0] ELSE r

(***************************************************************************)
(* deadline(): the cached value, recomputed when the entry it came from    *)
(* was among those that left.                                              *)
(***************************************************************************)
redeadline(before, r) ==
  IF held(r) # {} /\ \E s \in held(before) \ held(r) : before.until[s] = before.expires
  THEN [r EXCEPT !.expires = earliest(r)] ELSE r

(***************************************************************************)
(* flushGapsFormats: release everything up to the last packet whose wait   *)
(* is over, with what follows it directly; or everything, by force.        *)
(***************************************************************************)
overdue(r, t) == {s \in held(r) : r.until[s] <= t}
flushGaps(r, t, force) ==
  LET last == Max({ahead(r, s) : s \in overdue(r, t)})
      gone == IF force THEN held(r)
              ELSE IF overdue(r, t) = {} THEN {}
              ELSE {s \in held(r) : ahead(r, s) <= last} \cup run(r, last)
      left == release(r, gone)
  IN IF held(left) = {} THEN left ELSE [left EXCEPT !.expires = earliest(left)]

flush(r, t, force) ==
  LET ready == redeadline(r, release(r, run(r, 0)))
  IN settle(IF held(ready) # {} /\ (force \/ t >= ready.expires)
            THEN flushGaps(ready, t, force) ELSE ready)

-----------------------------------------------------------------------------
noWait(r) == 0      \* variant: a wait that was never measured is taken for none
repairWait(r) == IF r.wait = 0 \/ now > r.waitUntil THEN MaxWait ELSE r.wait

emit(r, p) == [r EXCEPT !.next = (@ + 1) % Space, !.out = Append(@, p)]

hold(r, p) ==
  LET s  == wire(p)
      e  == IF held(r) = {} THEN [r EXCEPT !.wait = 0, !.waitUntil = 0, !.expires = now + MaxWait]
            ELSE r
      ex == now + repairWait(e)
  IN [e EXCEPT !.pending = @ @@ (s :> p), !.at = @ @@ (s :> now), !.until = @ @@ (s :> ex),
               !.expires = Min({@, ex}), !.bytes = @ + size(p)]

late(r, p) == rtpSequenceDelta(wire(p), r.next) < 0
notAtFull(r, p) == FALSE      \* variant: the limits are not tested
atLimit(r, p) == Cardinality(held(r)) >= Packets \/ r.bytes + size(p) > Bytes

\* Exhaustion gives up the gaps; the packet may turn out late then.
holdFull(r, p) ==
  LET f == flush(r, now, TRUE) IN IF late(f, p) THEN f ELSE flush(hold(f, p), 0, FALSE)

\* A packet of more than 65535 bytes that is not the next one is dropped like
\* one that never came.
push(r0, p) ==
  LET r == IF r0.seen THEN r0 ELSE [r0 EXCEPT !.seen = TRUE, !.next = wire(p)]
  IN CASE wire(p) = r.next -> flush(emit(r, p), 0, FALSE)
       [] late(r, p) \/ wire(p) \in held(r) -> r
       [] OTHER -> IF atLimit(r, p) THEN holdFull(r, p) ELSE flush(hold(r, p), 0, FALSE)

\* Variant: the cached deadline is not told.
applyUnnoticed(r, w, measuredAt) ==
  [r EXCEPT !.wait = w, !.waitUntil = measuredAt + Freshness,
            !.until = [s \in held(r) |-> Min({r.until[s], r.at[s] + w})]]

\* A measured round trip shortens waits, of packets already held as well.
applyRepairWait(r, w, measuredAt) ==
  LET shorter == [s \in held(r) |-> Min({r.until[s], r.at[s] + w})]
  IN [r EXCEPT !.wait = w, !.waitUntil = measuredAt + Freshness, !.until = shorter,
               !.expires = Min({@} \cup {shorter[s] : s \in held(r)})]

-----------------------------------------------------------------------------
lastEmitted == IF q.out = <<>> THEN q.top ELSE Last(q.out)

\* A call on the queue: what the call before it emitted is behind it.
call(r) == q' = r
idle    == [q EXCEPT !.out = <<>>, !.top = lastEmitted]

(***************************************************************************)
(* The network may lose, repeat and reorder packets, but displaces none by *)
(* half the sequence space: what is further off cannot be told from the    *)
(* other direction.                                                        *)
(***************************************************************************)
inReach(p) == ~q.seen \/ p - (lastEmitted + 1) \in (-Half)..(Half - 1)

Push(p) ==
  /\ ~done /\ inReach(p)
  /\ call(push(idle, p))
  /\ UNCHANGED <<now, done>>

\* The read deadline, or a poll for repairs before it.
Timeout ==
  /\ ~done /\ held(q) # {}
  /\ call(flush(idle, now, FALSE))
  /\ UNCHANGED <<now, done>>

\* A repair measurement completes, then the queue is flushed.
RepairMeasured(w, measuredAt) ==
  /\ ~done /\ held(q) # {}
  /\ now - measuredAt <= Freshness
  /\ call(flush(applyRepairWait(idle, w, measuredAt), now, FALSE))
  /\ UNCHANGED <<now, done>>

\* The track ends: what is held is released by force.
ReadError ==
  /\ ~done
  /\ call(flush(idle, now, TRUE))
  /\ done' = TRUE
  /\ UNCHANGED now

\* The publication ended or was replaced, or no deadline could be set: the loop
\* returns and what is held is dropped with it.
ScopeChanged ==
  /\ ~done
  /\ call(idle)
  /\ done' = TRUE
  /\ UNCHANGED now

\* The read deadline never lies behind the queue's deadline.
Tick ==
  /\ now < MaxTime
  /\ held(q) = {} \/ now < q.expires
  /\ now' = now + 1
  /\ call(idle)
  /\ UNCHANGED done

Next ==
  \/ \E p \in Positions : Push(p)
  \/ Timeout
  \/ \E w \in MinWait..MaxWait, m \in 1..now : RepairMeasured(w, m)
  \/ ReadError
  \/ ScopeChanged
  \/ Tick

Spec == Init /\ [][Next]_vars

-----------------------------------------------------------------------------

(***************************************************************************)
(* The decoder sees the sender's order: whatever arrives in whatever       *)
(* order, repaired, repeated or given up, across the rollover of the       *)
(* sequence number, each emitted packet is newer than all before it.       *)
(***************************************************************************)
InOrder ==
  \A i \in 1..Len(q.out) : q.out[i] > (IF i = 1 THEN q.top ELSE q.out[i - 1])

(***************************************************************************)
(* Nothing deliverable is held and nothing is held too long: the next      *)
(* number is never in the queue, and a packet leaves it when its own wait, *)
(* at most MaxWait, is over.                                               *)
(***************************************************************************)
HeldForAReason ==
  /\ q.seen => q.next \notin held(q)
  /\ \A s \in held(q) : now <= q.until[s] /\ q.until[s] <= q.at[s] + MaxWait

(***************************************************************************)
(* Both limits hold and the byte count is that of the packets held.        *)
(***************************************************************************)
Bounded ==
  /\ Cardinality(held(q)) <= Packets /\ q.bytes <= Bytes
  /\ q.bytes = FoldSet(LAMBDA s, n : n + size(q.pending[s]), 0, held(q))

(***************************************************************************)
(* A gap is given up only for a reason, each gap that a step gives up for  *)
(* one of its own: the step came at least MinWait after a packet was held  *)
(* behind that very gap, was short of room, or ended the stream.           *)
(***************************************************************************)
GapsWaitTheirTime ==
  [][LET sent == q'.out
         gaps == {i \in 1..Len(sent) : sent[i] # (IF i = 1 THEN lastEmitted ELSE sent[i - 1]) + 1}
     IN q.seen => \A i \in gaps :
          \/ done'
          \/ \E s \in held(q) : q.pending[s] >= sent[i] /\ now >= q.at[s] + MinWait
          \/ Cardinality(held(q)) >= Packets \/ q.bytes + 2 > Bytes]_vars
=============================================================================
