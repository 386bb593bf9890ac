--------------------------- MODULE EventBusProofs ---------------------------
(***************************************************************************)
(* For any number of publishers and subscriptions: a subscriber's channel  *)
(* is in sequence order, nothing is sent on a closed channel, the terminal *)
(* reason of a subscription never changes, a subscriber at the drop limit  *)
(* is never forgotten, and the gaps a subscriber sees are its drops.       *)
(***************************************************************************)
EXTENDS EventBus, TLAPS

\* At most one publisher is inside Publish.
OnePublisher ==
    \A p, q \in Publishers : pc[p] # "idle" /\ pc[q] # "idle" => p = q

\* A subscription is open exactly while it is registered; a closed bus has none.
OpenIsRegistered ==
    /\ \A s \in Subs : s \in registered <=> reason[s] = "Open"
    /\ closed => registered = {}

\* The loop of a publisher covers registered subscriptions only.
TodoIsRegistered ==
    \A p \in Publishers :
        /\ todo[p] \subseteq registered
        /\ pc[p] # "fanout" => todo[p] = {}

\* Inductive invariant of the registry.
RReg == OnePublisher /\ OpenIsRegistered /\ TodoIsRegistered
RInv == TypeOK /\ RReg

\* The placeholder type is an event type.
LEMMA NoTypeType == NoType \in EventTypes
  BY EventBusAssumption, Zenon DEF NoType

\* Every step keeps the variables in their types.
LEMMA TypeStep == TypeOK /\ [Next]_vars => TypeOK'
<1> SUFFICES ASSUME TypeOK, [Next]_vars PROVE TypeOK'
  BY Zenon
<1> USE EventBusAssumption, NoTypeType DEF TypeOK, Reasons
<1>1. ASSUME NEW s \in Subs, Subscribe(s) PROVE TypeOK'
  BY <1>1, Zenon DEF Subscribe, chanVars, pubVars
<1>2. ASSUME NEW s \in Subs, Unsubscribe(s) PROVE TypeOK'
  BY <1>2, Zenon DEF Unsubscribe, closeAs, chanVars, pubVars
<1>3. ASSUME NEW s \in Subs, Receive(s) PROVE TypeOK'
  BY <1>3, SMTT(30) DEF Receive, busVars, pubVars
<1>4. CASE Close
  BY <1>4, Zenon DEF Close, closeAs, chanVars, pubVars
<1>5. ASSUME NEW p \in Publishers, NEW t \in EventTypes, PublishLock(p, t) PROVE TypeOK'
  BY <1>5, Zenon DEF PublishLock, busVars, chanVars
<1>6. ASSUME NEW p \in Publishers, PublishFanout(p) PROVE TypeOK'
  <2>1. wants(evtType[p]) \in SUBSET Subs
    BY Zenon DEF wants
  <2> QED
    BY <1>6, <2>1 DEF PublishFanout, chanVars
<1>13. ASSUME NEW p \in Publishers, PublishNobody(p) PROVE TypeOK'
  BY <1>13, Zenon DEF PublishNobody, chanVars, busVars
<1>7. ASSUME NEW p \in Publishers, PublishUnheard(p) PROVE TypeOK'
  BY <1>7 DEF PublishUnheard, chanVars
<1>8. ASSUME NEW p \in Publishers, NEW s \in Subs, PublishSend(p, s) PROVE TypeOK'
  <2>1. CASE Deliver(p, s)
    <3>1. ch' \in [Subs -> Seq(Nat)] /\ drops' \in [Subs -> Nat]
      BY <2>1 DEF Deliver
    <3>2. todo' \in [Publishers -> SUBSET Subs]
      BY <1>8, Zenon DEF PublishSend
    <3>3. UNCHANGED <<closed, registered, seq, evicted, read, reason, dropped, evicting, pc, evict, evtSeq, evtType>>
      BY <1>8, <2>1, Zenon DEF PublishSend, Deliver, busVars
    <3> QED
      BY <3>1, <3>2, <3>3, Zenon
  <2>2. CASE Drop(p, s)
    <3>1. drops' \in [Subs -> Nat] /\ dropped' \in [Subs -> Nat]
      BY <2>2 DEF Drop
    <3>2. todo' \in [Publishers -> SUBSET Subs]
      BY <1>8, Zenon DEF PublishSend
    <3>3. UNCHANGED <<closed, registered, seq, evicted, ch, read, reason, evicting, pc, evict, evtSeq, evtType>>
      BY <1>8, <2>2, Zenon DEF PublishSend, Drop, busVars
    <3> QED
      BY <3>1, <3>2, <3>3, Zenon
  <2>3. CASE DropAndEvict(p, s)
    <3>1. drops' \in [Subs -> Nat] /\ dropped' \in [Subs -> Nat]
      BY <2>3, SMTT(30) DEF DropAndEvict
    <3>2. evicting' \subseteq Subs /\ evict' \in [Publishers -> SUBSET Subs]
      BY <2>3, Zenon DEF DropAndEvict
    <3>3. todo' \in [Publishers -> SUBSET Subs]
      BY <1>8, Zenon DEF PublishSend
    <3>4. UNCHANGED <<closed, registered, seq, evicted, ch, read, reason, pc, evtSeq, evtType>>
      BY <1>8, <2>3, Zenon DEF PublishSend, DropAndEvict, busVars
    <3> QED
      BY <3>1, <3>2, <3>3, <3>4, Zenon
  <2> QED
    BY <1>8, <2>1, <2>2, <2>3, Zenon DEF PublishSend, sendOutcome
<1>9. ASSUME NEW p \in Publishers, NEW s \in Subs, Evict(p, s) PROVE TypeOK'
  BY <1>9 DEF Evict, closeAs, chanVars
<1>10. ASSUME NEW p \in Publishers, PublishUnlock(p) PROVE TypeOK'
  BY <1>10, Zenon DEF PublishUnlock, busVars, chanVars
<1>11. ASSUME NEW p \in Publishers, PublishDone(p) PROVE TypeOK'
  BY <1>11, Zenon DEF PublishDone, busVars, chanVars
<1>12. CASE UNCHANGED vars
  BY <1>12, Zenon DEF vars, busVars, chanVars, pubVars
<1> QED
  BY <1>1, <1>2, <1>3, <1>4, <1>5, <1>6, <1>7, <1>8, <1>9, <1>10, <1>11, <1>12, <1>13, Zenon DEF Next,
     Finish

\* The initial state satisfies the registry invariant.
LEMMA RInit == Init => RInv
<1> SUFFICES ASSUME Init PROVE RInv
  BY Zenon
<1> USE EventBusAssumption, NoTypeType DEF Init, Reasons
<1>1. TypeOK
  <2>1. ch \in [Subs -> Seq(Nat)] /\ read \in [Subs -> Seq(Nat)]
    OBVIOUS
  <2> QED
    BY <2>1, Zenon DEF TypeOK
<1>2. OnePublisher
  BY Zenon DEF OnePublisher
<1>3. OpenIsRegistered
  BY Zenon DEF OpenIsRegistered
<1>4. TodoIsRegistered
  BY Zenon DEF TodoIsRegistered
<1> QED
  BY <1>1, <1>2, <1>3, <1>4, Zenon DEF RInv, RReg

\* Every step preserves the registry invariant: registry changes wait for the
\* fan-out loop, and a second publisher waits for the first.
LEMMA RStep == RInv /\ [Next]_vars => RInv'
<1> SUFFICES ASSUME RInv, [Next]_vars PROVE RReg'
  BY TypeStep, Zenon DEF RInv
<1> USE DEF RInv, RReg, TypeOK, OnePublisher, OpenIsRegistered, TodoIsRegistered, Reasons
<1>1. ASSUME NEW s \in Subs, Subscribe(s) PROVE RReg'
  BY <1>1 DEF Subscribe, pubVars
<1>2. ASSUME NEW s \in Subs, Unsubscribe(s) PROVE RReg'
  BY <1>2 DEF Unsubscribe, muFree, closeAs, pubVars
<1>3. ASSUME NEW s \in Subs, Receive(s) PROVE RReg'
  BY <1>3, Zenon DEF Receive, busVars, pubVars
<1>4. CASE Close
  BY <1>4, Zenon DEF Close, muFree, closeAs, pubVars
<1>5. ASSUME NEW p \in Publishers, NEW t \in EventTypes, PublishLock(p, t) PROVE RReg'
  BY <1>5 DEF PublishLock, publishMuFree, busVars
<1>6. ASSUME NEW p \in Publishers, PublishFanout(p) PROVE RReg'
  BY <1>6 DEF wants, PublishFanout
<1>13. ASSUME NEW p \in Publishers, PublishNobody(p) PROVE RReg'
  BY <1>13, Zenon DEF PublishNobody, busVars
<1>7. ASSUME NEW p \in Publishers, PublishUnheard(p) PROVE RReg'
  BY <1>7 DEF PublishUnheard
<1>10. ASSUME NEW p \in Publishers, PublishUnlock(p) PROVE RReg'
  BY <1>10 DEF PublishUnlock, busVars
<1>11. ASSUME NEW p \in Publishers, PublishDone(p) PROVE RReg'
  BY <1>11 DEF PublishDone, busVars
<1>8. ASSUME NEW p \in Publishers, NEW s \in Subs, PublishSend(p, s) PROVE RReg'
  BY <1>8 DEF PublishSend, busVars
<1>9. ASSUME NEW p \in Publishers, NEW s \in Subs, Evict(p, s) PROVE RReg'
  BY <1>9 DEF Evict, muFree, closeAs, chanVars
<1>12. CASE UNCHANGED vars
  BY <1>12, Zenon DEF vars, busVars, pubVars
<1> QED
  BY <1>1, <1>2, <1>3, <1>4, <1>5, <1>6, <1>7, <1>8, <1>9, <1>10, <1>11, <1>12, <1>13, Zenon DEF Next,
     Finish

\* No publisher ever sends on a closed channel, for any number of publishers
\* and subscriptions (Publish against Unsubscribe, evict and Close).
THEOREM NoSendOnClosedHolds == Spec => []NoSendOnClosed
<1>1. RInv => NoSendOnClosed
  BY Zenon DEF RInv, RReg, NoSendOnClosed, OpenIsRegistered, TodoIsRegistered, TypeOK
<1> QED
  BY RInit, RStep, <1>1, PTL DEF Spec

\* A closed subscription keeps its reason, and its channel only drains.
THEOREM ClosedIsFinalHolds == Spec => ClosedIsFinal
<1> DEFINE Keeps == \A s \in Subs : reason[s] \notin {"Unborn", "Open"} =>
                       /\ reason'[s] = reason[s]
                       /\ Len(ch'[s]) <= Len(ch[s])
<1>1. ASSUME RInv, [Next]_vars PROVE Keeps
  <2> SUFFICES ASSUME NEW x \in Subs, reason[x] \notin {"Unborn", "Open"}
               PROVE reason'[x] = reason[x] /\ Len(ch'[x]) <= Len(ch[x])
    BY Zenon
  <2> USE <1>1 DEF RInv, RReg, TypeOK, Reasons
  <2>0. ch[x] \in Seq(Nat) /\ Len(ch[x]) \in Nat
    OBVIOUS
  <2>1. ASSUME NEW s \in Subs, Subscribe(s) \/ Unsubscribe(s)
        PROVE reason'[x] = reason[x] /\ ch' = ch
    BY <2>1, Zenon DEF Subscribe, Unsubscribe, closeAs, chanVars
  <2>2. ASSUME NEW s \in Subs, Receive(s) PROVE reason' = reason /\ Len(ch'[x]) <= Len(ch[x])
    BY <2>2 DEF Receive
  <2>3. ASSUME Close PROVE reason'[x] = reason[x] /\ ch' = ch
    BY <2>3, Zenon DEF Close, closeAs, chanVars
  <2>4. ASSUME NEW p \in Publishers, NEW s \in Subs, PublishSend(p, s)
        PROVE reason' = reason /\ ch'[x] = ch[x]
    BY <2>4, Zenon DEF PublishSend, TodoIsRegistered, OpenIsRegistered, sendOutcome, Deliver, Drop,
       DropAndEvict
  <2>5. ASSUME NEW p \in Publishers, NEW s \in Subs, Evict(p, s)
        PROVE reason'[x] = reason[x] /\ ch' = ch
    BY <2>5, Zenon DEF Evict, closeAs, chanVars
  <2>6. ASSUME NEW p \in Publishers,
               \/ PublishNobody(p) \/ PublishFanout(p) \/ PublishUnheard(p)
               \/ PublishUnlock(p) \/ PublishDone(p)
               \/ \E t \in EventTypes : PublishLock(p, t)
        PROVE reason' = reason /\ ch' = ch
    BY <2>6, Zenon DEF PublishNobody, PublishFanout, PublishUnheard, PublishUnlock, PublishDone,
       PublishLock, chanVars
  <2>7. CASE UNCHANGED vars
    BY <2>7 DEF vars, chanVars
  <2> QED
    BY <2>1, <2>2, <2>3, <2>4, <2>5, <2>6, <2>7 DEF Next, Finish
<1>2. RInv /\ [Next]_vars => [Keeps]_vars
  BY <1>1, Zenon
<1> QED
  BY RInit, RStep, <1>2, PTL DEF Spec, ClosedIsFinal

-----------------------------------------------------------------------------
(* Sequence order.                                                         *)

\* Only the empty sequence has no elements.
LEMMA EmptyLength ==
  ASSUME NEW q \in Seq(Nat)
  PROVE  Len(q) \in Nat /\ (q = <<>> <=> Len(q) = 0)
  OBVIOUS

\* What Append and concatenation do, element by element.
LEMMA AppendElements ==
  ASSUME NEW q \in Seq(Nat), NEW e \in Nat
  PROVE  /\ Append(q, e) \in Seq(Nat) /\ Len(Append(q, e)) = Len(q) + 1
         /\ \A i \in 1..Len(q) : Append(q, e)[i] = q[i]
         /\ Append(q, e)[Len(q) + 1] = e
  OBVIOUS

LEMMA ConcatElements ==
  ASSUME NEW q \in Seq(Nat), NEW r \in Seq(Nat)
  PROVE  /\ q \o r \in Seq(Nat) /\ Len(q \o r) = Len(q) + Len(r)
         /\ \A i \in 1..(Len(q) + Len(r)) : (q \o r)[i] = IF i <= Len(q) THEN q[i] ELSE r[i - Len(q)]
  OBVIOUS

\* Appending to the second of two concatenated sequences appends to the whole.
LEMMA ConcatAppend ==
  ASSUME NEW u \in Seq(Nat), NEW v \in Seq(Nat), NEW e \in Nat
  PROVE  u \o Append(v, e) = Append(u \o v, e)
  OBVIOUS

\* Moving the head of the second sequence to the end of the first keeps the whole.
LEMMA ConcatMoveHead ==
  ASSUME NEW u \in Seq(Nat), NEW v \in Seq(Nat), v # <<>>
  PROVE  Append(u, Head(v)) \o Tail(v) = u \o v
<1>1. /\ Head(v) \in Nat /\ Tail(v) \in Seq(Nat) /\ Len(Tail(v)) = Len(v) - 1
      /\ Len(u) \in Nat /\ Len(v) \in Nat /\ Len(v) > 0 /\ Append(u, Head(v)) \in Seq(Nat)
  OBVIOUS
<1>2. /\ Append(u, Head(v)) \o Tail(v) \in Seq(Nat) /\ Len(Append(u, Head(v)) \o Tail(v)) = Len(u) + Len(v)
      /\ u \o v \in Seq(Nat) /\ Len(u \o v) = Len(u) + Len(v)
  BY <1>1
<1>3. ASSUME NEW i \in 1..(Len(u) + Len(v)) PROVE (Append(u, Head(v)) \o Tail(v))[i] = (u \o v)[i]
  BY <1>1
<1> QED
  BY <1>2, <1>3, SMTT(30)

\* Reading moves an event from the channel to what was read: the log stays.
LEMMA LogReceive ==
  ASSUME TypeOK, NEW s \in Subs, Receive(s)
  PROVE  \A x \in Subs : Log(x)' = Log(x)
<1> SUFFICES ASSUME NEW x \in Subs PROVE Log(x)' = Log(x)
  BY Zenon
<1>1. CASE x # s
  BY <1>1, Zenon DEF Receive, Log, TypeOK
<1>2. CASE x = s
  BY <1>2, ConcatMoveHead, Zenon DEF Receive, TypeOK, Log
<1> QED
  BY <1>1, <1>2, Zenon

\* A delivery appends the event to the log of one subscriber.
LEMMA LogDeliver ==
  ASSUME TypeOK, NEW p \in Publishers, NEW s \in Subs, Deliver(p, s)
  PROVE  /\ Log(s)' = Append(Log(s), evtSeq[p])
         /\ \A x \in Subs \ {s} : Log(x)' = Log(x)
<1>1. ch[s] \in Seq(Nat) /\ read[s] \in Seq(Nat) /\ evtSeq[p] \in Nat
  BY Zenon DEF TypeOK
<1>2. Log(s)' = read[s] \o Append(ch[s], evtSeq[p])
  BY Zenon DEF Deliver, Log, TypeOK
<1>3. Log(s)' = Append(Log(s), evtSeq[p])
  BY <1>1, <1>2, ConcatAppend, Zenon DEF Log
<1> QED
  BY <1>3, Zenon DEF Deliver, Log, TypeOK

\* Logs are sequences of numbers.
LEMMA LogType == TypeOK => \A s \in Subs : Log(s) \in Seq(Nat)
  BY DEF TypeOK, Log

\* Sequence numbers in logs are bounded by the bus counter, and strictly below
\* the number of the event being fanned out where it has not arrived yet.
LogBound ==
    /\ \A s \in Subs : \A i \in 1..Len(Log(s)) : Log(s)[i] <= seq
    /\ \A p \in Publishers : pc[p] = "fanout" =>
          /\ evtSeq[p] = seq
          /\ \A s \in todo[p] : \A i \in 1..Len(Log(s)) : Log(s)[i] < seq

OInv == RInv /\ LogBound /\ SequenceOrder

\* A step that leaves the logs alone and does not move the counter back
\* preserves the order invariant, given what it does to the fan-out.
LEMMA OrderFrame ==
  ASSUME OInv, TypeOK', seq <= seq', \A s \in Subs : Log(s)' = Log(s),
         \A p \in Publishers : pc'[p] = "fanout" =>
            /\ evtSeq'[p] = seq'
            /\ \/ pc[p] = "fanout" /\ seq' = seq /\ todo'[p] \subseteq todo[p]
               \/ seq < seq'
  PROVE  (LogBound /\ SequenceOrder)'
<1>1. \A s \in Subs : Log(s) \in Seq(Nat) /\ Len(Log(s)) \in Nat /\ \A i \in 1..Len(Log(s)) : Log(s)[i] \in Nat
  BY LogType DEF OInv, RInv
<1>2. seq \in Nat /\ seq' \in Nat
  BY Zenon DEF OInv, RInv, TypeOK
<1>3. SequenceOrder'
  BY Zenon DEF OInv, SequenceOrder
<1>4. \A s \in Subs : \A i \in 1..Len(Log(s)) : Log(s)[i] <= seq'
  BY <1>1, <1>2 DEF OInv, LogBound
<1>5. ASSUME NEW p \in Publishers, pc'[p] = "fanout", NEW s \in todo'[p], NEW i \in 1..Len(Log(s))
      PROVE Log(s)[i] < seq'
  <2>1. s \in Subs
    BY Zenon DEF TypeOK
  <2> QED
    BY <1>1, <1>2, <1>5, <2>1 DEF OInv, LogBound
<1>6. \A p \in Publishers : pc'[p] = "fanout" => \A s \in todo'[p] : Log(s)' = Log(s)
  BY Zenon DEF TypeOK
<1>7. LogBound'
  BY <1>4, <1>5, <1>6, Zenon DEF LogBound
<1> QED
  BY <1>3, <1>7, Zenon

\* Every step preserves the order invariant.
LEMMA OStep == OInv /\ [Next]_vars => OInv'
<1> SUFFICES ASSUME OInv, [Next]_vars PROVE (LogBound /\ SequenceOrder)'
  BY RStep, Zenon DEF OInv
<1>1. TypeOK /\ TypeOK' /\ RReg
  BY TypeStep, Zenon DEF OInv, RInv
<1>2. seq \in Nat
  BY <1>1, Zenon DEF TypeOK
<1> USE <1>1, <1>2
<1> DEFINE Frame ==
      /\ seq <= seq'
      /\ \A s \in Subs : Log(s)' = Log(s)
      /\ \A p \in Publishers : pc'[p] = "fanout" =>
            /\ evtSeq'[p] = seq'
            /\ \/ pc[p] = "fanout" /\ seq' = seq /\ todo'[p] \subseteq todo[p]
               \/ seq < seq'
<1>3. ASSUME Frame PROVE (LogBound /\ SequenceOrder)'
  BY <1>3, OrderFrame, Zenon
<1>17. ASSUME UNCHANGED <<seq, ch, read, pc, evtSeq, todo>> PROVE Frame
  <2>1. \A s \in Subs : Log(s)' = Log(s)
    BY <1>17, Zenon DEF Log
  <2> QED
    BY <1>17, <2>1 DEF OInv, LogBound
<1>4. ASSUME NEW s \in Subs, Subscribe(s) \/ Unsubscribe(s) PROVE Frame
  BY <1>4, <1>17, Zenon DEF Subscribe, Unsubscribe, chanVars, pubVars
<1>5. ASSUME NEW s \in Subs, Receive(s) PROVE Frame
  <2>1. \A x \in Subs : Log(x)' = Log(x)
    BY <1>5, LogReceive, Zenon
  <2>2. UNCHANGED <<seq, pc, evtSeq, todo>>
    BY <1>5, Zenon DEF Receive, busVars, pubVars
  <2> QED
    BY <2>1, <2>2 DEF OInv, LogBound
<1>6. ASSUME Close PROVE Frame
  BY <1>6, <1>17, Zenon DEF Close, chanVars, pubVars
<1>7. ASSUME NEW p \in Publishers, NEW t \in EventTypes, PublishLock(p, t) PROVE Frame
  BY <1>7 DEF PublishLock, OInv, LogBound, Log, busVars, chanVars, TypeOK
<1>8. ASSUME NEW p \in Publishers, PublishFanout(p) PROVE Frame
  <2>1. \A q \in Publishers : q # p => pc[q] # "fanout"
    BY <1>8, Zenon DEF PublishFanout, RReg, OnePublisher
  <2> QED
    BY <1>8, <2>1 DEF PublishFanout, Log, chanVars, TypeOK
<1>9. ASSUME NEW p \in Publishers, PublishNobody(p) PROVE Frame
  BY <1>9 DEF PublishNobody, OInv, LogBound, Log, busVars, chanVars, TypeOK
<1>10. ASSUME NEW p \in Publishers, PublishUnheard(p) PROVE Frame
  <2>1. \A q \in Publishers : q # p => pc[q] # "fanout"
    BY <1>10, Zenon DEF PublishUnheard, RReg, OnePublisher
  <2> QED
    BY <1>10, <2>1 DEF PublishUnheard, Log, chanVars
<1>11. ASSUME NEW p \in Publishers, PublishUnlock(p) PROVE Frame
  BY <1>11 DEF PublishUnlock, OInv, LogBound, Log, busVars, chanVars, TypeOK
<1>12. ASSUME NEW p \in Publishers, PublishDone(p) PROVE Frame
  BY <1>12, SMTT(30) DEF PublishDone, OInv, LogBound, Log, busVars, chanVars, TypeOK
<1>13. ASSUME NEW p \in Publishers, NEW s \in Subs, Evict(p, s) PROVE Frame
  BY <1>13, <1>17, Zenon DEF Evict, chanVars
<1>14. ASSUME NEW p \in Publishers, NEW s \in Subs, PublishSend(p, s), Drop(p, s) \/ DropAndEvict(p, s)
       PROVE Frame
  <2>1. UNCHANGED <<seq, ch, read, pc, evtSeq>> /\ todo' = [todo EXCEPT ![p] = @ \ {s}]
    BY <1>14, Zenon DEF PublishSend, Drop, DropAndEvict, busVars
  <2> QED
    BY <2>1 DEF OInv, LogBound, Log, TypeOK
<1>15. ASSUME NEW p \in Publishers, NEW s \in Subs, PublishSend(p, s), Deliver(p, s)
       PROVE (LogBound /\ SequenceOrder)'
  <2> DEFINE n == Len(Log(s))
  <2>1. Log(s)' = Append(Log(s), evtSeq[p]) /\ \A x \in Subs \ {s} : Log(x)' = Log(x)
    BY <1>15, LogDeliver, Zenon
  <2>2. /\ pc' = pc /\ seq' = seq /\ evtSeq' = evtSeq
        /\ s \in todo[p] /\ pc[p] = "fanout" /\ todo' = [todo EXCEPT ![p] = @ \ {s}]
    BY <1>15, Zenon DEF PublishSend, busVars
  <2>3. evtSeq[p] = seq /\ \A i \in 1..n : Log(s)[i] < seq
    BY <2>2, Zenon DEF OInv, LogBound
  <2>4. Log(s) \in Seq(Nat)
    BY LogType, Zenon
  <2>5. /\ n \in Nat /\ Len(Log(s)') = n + 1 /\ Log(s)'[n + 1] = seq
        /\ \A i \in 1..n : Log(s)'[i] = Log(s)[i] /\ Log(s)[i] \in Nat
    BY <2>1, <2>3, <2>4
  <2>6. \A q \in Publishers : pc[q] = "fanout" => q = p
    BY <2>2, Zenon DEF RReg, OnePublisher
  <2>7. \A i \in 1..(n + 1) : Log(s)'[i] <= seq
    BY <2>3, <2>5
  <2>8. \A i, j \in 1..(n + 1) : i < j => Log(s)'[i] < Log(s)'[j]
    <3> SUFFICES ASSUME NEW i \in 1..(n + 1), NEW j \in 1..(n + 1), i < j PROVE Log(s)'[i] < Log(s)'[j]
      BY Zenon
    <3>1. i \in 1..n
      OBVIOUS
    <3>2. CASE j = n + 1
      BY <2>3, <2>5, <3>2
    <3>3. CASE j \in 1..n
      BY <2>5, <3>3 DEF OInv, SequenceOrder
    <3> QED
      BY <3>2, <3>3
  <2>9. SequenceOrder'
    BY <2>1, <2>5, <2>8, Zenon DEF OInv, SequenceOrder
  <2>10. \A x \in Subs : \A i \in 1..Len(Log(x)') : Log(x)'[i] <= seq
    BY <2>1, <2>5 DEF OInv, LogBound
  <2>11. ASSUME NEW q \in Publishers, pc[q] = "fanout"
         PROVE evtSeq[q] = seq /\ \A x \in todo'[q] : \A i \in 1..Len(Log(x)') : Log(x)'[i] < seq
    <3>1. q = p /\ todo'[q] = todo[p] \ {s}
      BY <2>2, <2>6, <2>11, Zenon DEF TypeOK
    <3>2. todo[p] \subseteq Subs
      BY Zenon DEF TypeOK
    <3> QED
      BY <2>1, <2>2, <3>1, <3>2, Zenon DEF OInv, LogBound
  <2> QED
    BY <2>2, <2>9, <2>10, <2>11, Zenon DEF LogBound
<1>16. CASE UNCHANGED vars
  BY <1>3, <1>16, <1>17, Zenon DEF vars, busVars, chanVars, pubVars
<1> HIDE DEF Frame
<1> QED
  BY <1>3, <1>4, <1>5, <1>6, <1>7, <1>8, <1>9, <1>10, <1>11, <1>12, <1>13, <1>14, <1>15, <1>16, Zenon
     DEF Next, Finish, PublishSend, sendOutcome

\* Whatever publishers, consumers and registry operations interleave, every
\* subscriber sees strictly increasing sequence numbers.
THEOREM SequenceOrderHolds == Spec => []SequenceOrder
<1>1. Init => OInv
  BY RInit DEF Init, Log, OInv, LogBound, SequenceOrder
<1>2. OInv => SequenceOrder
  BY Zenon DEF OInv
<1> QED
  BY <1>1, <1>2, OStep, PTL DEF Spec

-----------------------------------------------------------------------------
(* Eviction.                                                               *)

\* A subscription that was never registered has dropped nothing and no latch.
Fresh ==
    \A s \in Subs : reason[s] = "Unborn" => drops[s] = 0 /\ s \notin evicting

\* A registered subscriber at the limit has its latch set, and a set latch
\* means that a publisher carries the subscriber in its eviction list.
Latched ==
    \A s \in registered :
        /\ drops[s] >= MaxDrops => s \in evicting
        /\ s \in evicting => \E p \in Publishers : s \in evict[p]

EInv == RInv /\ Fresh /\ Latched

\* Every step preserves the eviction invariant.
LEMMA EStep == EInv /\ [Next]_vars => EInv'
<1> SUFFICES ASSUME EInv, [Next]_vars PROVE (Fresh /\ Latched)'
  BY RStep, Zenon DEF EInv
<1>1. TypeOK /\ TypeOK' /\ RReg /\ RReg' /\ Fresh /\ Latched
  BY RStep, Zenon DEF EInv, RInv
<1> USE <1>1, EventBusAssumption DEF TypeOK, RReg, OpenIsRegistered, Fresh, Latched
<1>2. ASSUME NEW s \in Subs, Subscribe(s) PROVE (Fresh /\ Latched)'
  <2>1. /\ UNCHANGED <<drops, evicting, evict>> /\ registered' = registered \union {s}
        /\ reason' = [reason EXCEPT ![s] = "Open"] /\ reason[s] = "Unborn"
    BY <1>2, Zenon DEF Subscribe, chanVars, pubVars
  <2>2. drops[s] = 0 /\ s \notin evicting /\ MaxDrops > 0
    BY <2>1, SMTT(30)
  <2>3. Fresh'
    BY <2>1, SMTT(30)
  <2>4. ~(drops[s] >= MaxDrops)
    BY <2>2
  <2>5. Latched'
    BY <2>1, <2>2, <2>4, Zenon
  <2> QED
    BY <2>3, <2>5, Zenon
<1>3. ASSUME NEW s \in Subs, Unsubscribe(s) PROVE (Fresh /\ Latched)'
  <2>1. /\ registered' \subseteq registered /\ UNCHANGED <<drops, evicting, evict>>
        /\ \A x \in Subs : reason'[x] = "Unborn" => reason[x] = "Unborn"
    BY <1>3 DEF Unsubscribe, closeAs, chanVars, pubVars
  <2> QED
    BY <2>1, Zenon
<1>4. ASSUME Close PROVE (Fresh /\ Latched)'
  BY <1>4, Zenon DEF Close, closeAs, chanVars, pubVars
<1>5. ASSUME NEW p \in Publishers, NEW s \in Subs, PublishSend(p, s) PROVE (Fresh /\ Latched)'
  <2>1. /\ UNCHANGED <<registered, reason>> /\ s \in registered
        /\ reason[s] = "Open"
    BY <1>5, Zenon DEF PublishSend, busVars, TodoIsRegistered
  <2>2. CASE Deliver(p, s)
    BY <2>1, <2>2, SMTT(30) DEF Deliver
  <2>3. CASE Drop(p, s)
    <3>1. /\ drops' = [drops EXCEPT ![s] = @ + 1] /\ UNCHANGED <<evicting, evict>>
          /\ drops[s] + 1 >= MaxDrops => s \in evicting
      BY <2>3, Zenon DEF Drop, atDropLimit
    <3>2. \A x \in registered : drops'[x] >= MaxDrops => x \in evicting
      BY <3>1, Zenon
    <3> QED
      BY <2>1, <3>1, <3>2, Zenon
  <2>4. CASE DropAndEvict(p, s)
    <3>1. /\ evicting' = evicting \union {s} /\ drops' = [drops EXCEPT ![s] = @ + 1]
          /\ evict' = [evict EXCEPT ![p] = @ \union {s}]
      BY <2>4, Zenon DEF DropAndEvict
    <3>2. \A x \in registered : x \in evicting' => \E r \in Publishers : x \in evict'[r]
      BY <3>1
    <3> QED
      BY <2>1, <3>1, <3>2, Zenon
  <2> QED
    BY <1>5, <2>2, <2>3, <2>4, ZenonT(30) DEF PublishSend, sendOutcome
<1>6. ASSUME NEW p \in Publishers, NEW s \in Subs, Evict(p, s) PROVE (Fresh /\ Latched)'
  <2>1. /\ registered' = registered \ {s} /\ UNCHANGED <<drops, evicting>>
        /\ evict' = [evict EXCEPT ![p] = @ \ {s}]
        /\ \A x \in Subs : reason'[x] = "Unborn" => reason[x] = "Unborn"
    BY <1>6 DEF Evict, closeAs, chanVars
  <2>2. \A x \in registered' : x \in evicting' => \E r \in Publishers : x \in evict'[r]
    BY <2>1, Zenon
  <2> QED
    BY <2>1, <2>2, Zenon
<1>7. ASSUME UNCHANGED <<registered, reason, drops, evicting, evict>> PROVE (Fresh /\ Latched)'
  BY <1>7, Zenon
<1>8. ASSUME NEW s \in Subs, Receive(s) PROVE UNCHANGED <<registered, reason, drops, evicting, evict>>
  BY <1>8, Zenon DEF Receive, busVars, pubVars
<1>9. ASSUME NEW p \in Publishers,
             \/ PublishNobody(p) \/ PublishFanout(p) \/ PublishUnheard(p)
             \/ PublishUnlock(p) \/ PublishDone(p)
             \/ \E t \in EventTypes : PublishLock(p, t)
      PROVE UNCHANGED <<registered, reason, drops, evicting, evict>>
  BY <1>9, Zenon DEF PublishNobody, PublishFanout, PublishUnheard, PublishUnlock, PublishDone,
     PublishLock, busVars, chanVars
<1>10. CASE UNCHANGED vars
  BY <1>7, <1>10, Zenon DEF vars, busVars, chanVars, pubVars
<1> QED
  BY <1>2, <1>3, <1>4, <1>5, <1>6, <1>7, <1>8, <1>9, <1>10, Zenon DEF Next, Finish

\* A registered subscriber at the drop limit is always in some publisher's
\* eviction list: Publish sets the latch and the list in the same turn, and
\* evict takes it out of list and registry together.
THEOREM SlowIsEvictedHolds == Spec => []SlowIsEvicted
<1>1. Init => EInv
  BY RInit, Zenon DEF Init, EInv, Fresh, Latched
<1>2. EInv => SlowIsEvicted
  BY Zenon DEF EInv, Latched, SlowIsEvicted
<1> QED
  BY <1>1, <1>2, EStep, PTL DEF Spec

-----------------------------------------------------------------------------
(* Gaps.                                                                   *)

\* A subscription without a log has dropped nothing; one that was never
\* registered, or was registered while an unheard event is published, has no log.
Blank ==
    /\ \A s \in Subs : reason[s] = "Unborn" => Log(s) = <<>>
    /\ \A s \in Subs : Log(s) = <<>> => drops[s] = 0 /\ dropped[s] = 0
    /\ \A p \in Publishers : pc[p] = "unheard" => \A s \in registered : Log(s) = <<>>

\* The subscriptions the event being fanned out has not reached.
Awaited == UNION {todo[p] : p \in Publishers}

\* A registered subscriber of every type accounts for every event since its
\* first: the last one delivered and the drops after it reach up to the counter.
Counted ==
    \A s \in registered : Filter[s] = EventTypes /\ Log(s) # <<>> =>
        Log(s)[Len(Log(s))] + drops[s] = IF s \in Awaited THEN seq - 1 ELSE seq

GInv == OInv /\ Blank /\ Counted /\ GapsAreDrops

\* What a log that is not empty looks like.
LEMMA LogFacts ==
  ASSUME TypeOK, NEW s \in Subs
  PROVE  /\ Len(Log(s)) \in Nat
         /\ Log(s) # <<>> => Log(s)[1] \in Nat /\ Log(s)[Len(Log(s))] \in Nat /\ Len(Log(s)) > 0
<1>1. Log(s) \in Seq(Nat)
  BY LogType, Zenon
<1> HIDE DEF Log
<1>2. Len(Log(s)) \in Nat /\ (Log(s) # <<>> => Len(Log(s)) > 0)
  OBVIOUS
<1> QED
  BY <1>1

\* A step that keeps logs and counts, registers only blank subscriptions and
\* does not move the counter past a registered log preserves the invariant.
LEMMA GapFrame ==
  ASSUME GInv, TypeOK', UNCHANGED <<drops, dropped>>,
         \A s \in Subs : Log(s)' = Log(s),
         \A s \in Subs : reason'[s] = "Unborn" => reason[s] = "Unborn",
         \A p \in Publishers : pc'[p] = "unheard" => \A s \in registered' : Log(s) = <<>>,
         \A s \in registered' : Log(s) # <<>> =>
            s \in registered /\ (s \in Awaited' <=> s \in Awaited) /\ seq' = seq
  PROVE  (Blank /\ Counted /\ GapsAreDrops)'
<1>1. registered' \subseteq Subs
  BY Zenon DEF TypeOK
<1>2. GapsAreDrops'
  BY Zenon DEF GInv, GapsAreDrops
<1>3. Blank'
  BY <1>1, Zenon DEF GInv, Blank
<1>4. Counted'
  BY <1>1, Zenon DEF GInv, Counted
<1> QED
  BY <1>2, <1>3, <1>4, Zenon

\* The loop's turn for one subscriber takes it out of those awaited, and
\* nobody else.
LEMMA AwaitedSend ==
  ASSUME OInv, NEW p \in Publishers, NEW s \in Subs, PublishSend(p, s)
  PROVE  s \in Awaited /\ Awaited' = Awaited \ {s}
<1>1. TypeOK /\ OnePublisher /\ TodoIsRegistered
  BY Zenon DEF OInv, RInv, RReg
<1>2. /\ pc[p] = "fanout" /\ s \in todo[p] /\ todo' = [todo EXCEPT ![p] = @ \ {s}]
  BY Zenon DEF PublishSend
<1>3. \A q \in Publishers : q # p => todo[q] = {}
  BY <1>1, <1>2, Zenon DEF OnePublisher, TodoIsRegistered
<1>4. todo \in [Publishers -> SUBSET Subs]
  BY <1>1, Zenon DEF TypeOK
<1>5. Awaited = todo[p]
  BY <1>3, Zenon DEF Awaited
<1>6. todo'[p] = todo[p] \ {s} /\ \A q \in Publishers : q # p => todo'[q] = {}
  BY <1>2, <1>3, <1>4, Zenon
<1>7. Awaited' = todo'[p]
  BY <1>6, Zenon DEF Awaited
<1> QED
  BY <1>2, <1>5, <1>6, <1>7, Zenon

\* A turn of the loop delivers or drops.
LEMMA SendCases ==
  ASSUME NEW p, NEW s, PublishSend(p, s)
  PROVE  Deliver(p, s) \/ Drop(p, s) \/ DropAndEvict(p, s)
  BY Zenon DEF PublishSend, sendOutcome

\* Every step preserves the gap invariant.
LEMMA GStep == GInv /\ [Next]_vars => GInv'
<1> SUFFICES ASSUME GInv, [Next]_vars PROVE (Blank /\ Counted /\ GapsAreDrops)'
  BY OStep, Zenon DEF GInv
<1>1. /\ TypeOK /\ TypeOK' /\ RReg /\ RReg' /\ OInv
      /\ Blank /\ Counted /\ GapsAreDrops
  BY OStep, TypeStep, Zenon DEF GInv, OInv, RInv
<1>2. /\ seq \in Nat /\ drops \in [Subs -> Nat] /\ dropped \in [Subs -> Nat]
      /\ registered \subseteq Subs
  BY <1>1, Zenon DEF TypeOK
<1> DEFINE Goal == (Blank /\ Counted /\ GapsAreDrops)'
           Same == \A s \in Subs : Log(s)' = Log(s)
<1>3. UNCHANGED <<ch, read>> => Same
  BY Zenon DEF Log
<1>4. UNCHANGED todo => Awaited' = Awaited
  BY Zenon DEF Awaited
<1> HIDE DEF Goal
<1>5. ASSUME NEW s \in Subs, Subscribe(s) PROVE Goal
  <2>1. /\ UNCHANGED <<ch, read, todo, drops, dropped, seq, pc>> /\ reason[s] = "Unborn"
        /\ reason' = [reason EXCEPT ![s] = "Open"] /\ registered' = registered \union {s}
    BY <1>5, Zenon DEF Subscribe, chanVars, pubVars
  <2>2. Log(s) = <<>>
    BY <1>1, <2>1, Zenon DEF Blank
  <2>3. \A x \in Subs : reason'[x] = "Unborn" => reason[x] = "Unborn"
    BY <1>1, <2>1, Zenon DEF TypeOK
  <2>4. \A p \in Publishers : pc'[p] = "unheard" => \A x \in registered' : Log(x) = <<>>
    BY <1>1, <2>1, <2>2, Zenon DEF Blank
  <2> QED
    BY <1>1, <1>3, <1>4, <2>1, <2>2, <2>3, <2>4, GapFrame, Zenon DEF Goal
<1>6. ASSUME \/ \E s \in Subs : Unsubscribe(s)
             \/ Close
             \/ \E p \in Publishers, s \in Subs : Evict(p, s)
      PROVE Goal
  <2>1. UNCHANGED <<ch, read, todo, drops, dropped, seq, pc>> /\ registered' \subseteq registered
    BY <1>6, Zenon DEF Unsubscribe, Close, Evict, chanVars, pubVars
  <2>2. \A x \in Subs : reason'[x] = "Unborn" => reason[x] = "Unborn"
    BY <1>1, <1>6, ZenonT(30) DEF Unsubscribe, Close, Evict, closeAs, TypeOK
  <2>3. \A p \in Publishers : pc'[p] = "unheard" => \A x \in registered' : Log(x) = <<>>
    BY <1>1, <2>1, Zenon DEF Blank
  <2> QED
    BY <1>1, <1>3, <1>4, <2>1, <2>2, <2>3, GapFrame, Zenon DEF Goal
<1>7. ASSUME NEW s \in Subs, Receive(s) PROVE Goal
  <2>1. Same
    BY <1>1, <1>7, LogReceive, Zenon
  <2>2. UNCHANGED <<todo, drops, dropped, seq, pc, registered, reason>>
    BY <1>7, Zenon DEF Receive, busVars, pubVars
  <2> QED
    BY <1>1, <1>4, <2>1, <2>2, GapFrame, Zenon DEF Goal, Blank
<1>8. ASSUME NEW p \in Publishers, PublishNobody(p) PROVE Goal
  <2>1. UNCHANGED <<ch, read, todo, drops, dropped, seq, registered, reason>> /\ registered = {}
    BY <1>1, <1>8, Zenon DEF PublishNobody, busVars, chanVars, RReg, OpenIsRegistered
  <2> QED
    BY <1>1, <1>3, <1>4, <2>1, GapFrame, Zenon DEF Goal
<1>9. ASSUME NEW p \in Publishers, PublishUnheard(p) PROVE Goal
  <2>1. /\ UNCHANGED <<ch, read, todo, drops, dropped, registered, reason>>
        /\ pc[p] = "unheard"
    BY <1>9, Zenon DEF PublishUnheard, chanVars
  <2>2. \A s \in registered : Log(s) = <<>>
    BY <1>1, <2>1, Zenon DEF Blank
  <2> QED
    BY <1>1, <1>3, <1>4, <2>1, <2>2, GapFrame, Zenon DEF Goal
<1>10. ASSUME NEW p \in Publishers,
              PublishUnlock(p) \/ PublishDone(p) \/ \E t \in EventTypes : PublishLock(p, t)
       PROVE Goal
  <2>1. /\ UNCHANGED <<ch, read, todo, drops, dropped, seq, registered, reason>>
        /\ \A q \in Publishers : pc'[q] = "unheard" => pc[q] = "unheard"
    BY <1>1, <1>10 DEF PublishUnlock, PublishDone, PublishLock, busVars, chanVars, TypeOK
  <2>2. \A q \in Publishers : pc'[q] = "unheard" => \A s \in registered' : Log(s) = <<>>
    BY <1>1, <2>1, ZenonT(30) DEF Blank
  <2> QED
    BY <1>1, <1>3, <1>4, <2>1, <2>2, GapFrame, Zenon DEF Goal
<1>11. ASSUME UNCHANGED vars PROVE Goal
  <2>1. UNCHANGED <<ch, read, todo, drops, dropped, seq, pc, registered, reason>>
    BY <1>11, Zenon DEF vars, busVars, chanVars, pubVars
  <2> QED
    BY <1>1, <1>3, <1>4, <2>1, GapFrame, Zenon DEF Goal, Blank
<1>12. ASSUME NEW p \in Publishers, PublishFanout(p) PROVE Goal
  <2>1. /\ UNCHANGED <<ch, read, drops, dropped, registered, reason>>
        /\ pc[p] = "locked" /\ pc' = [pc EXCEPT ![p] = "fanout"] /\ seq' = seq + 1
        /\ todo' = [todo EXCEPT ![p] = wants(evtType[p])]
    BY <1>12, Zenon DEF PublishFanout, chanVars
  <2>2. Same
    BY <1>3, <2>1, Zenon
  <2>3. \A q \in Publishers : todo[q] = {}
    BY <1>1, <2>1, Zenon DEF RReg, OnePublisher, TodoIsRegistered
  <2>4. Awaited = {}
    BY <2>3, Zenon DEF Awaited
  <2>5. todo'[p] = wants(evtType[p]) /\ evtType[p] \in EventTypes
    BY <1>1, <2>1, Zenon DEF TypeOK
  <2>6. \A s \in registered : Filter[s] = EventTypes => s \in Awaited'
    <3>1. \A s \in registered : Filter[s] = EventTypes => s \in todo'[p]
      BY <2>5, Zenon DEF wants
    <3> QED
      BY <3>1, Zenon DEF Awaited
  <2>7. Counted'
    <3> SUFFICES ASSUME NEW x \in registered, Filter[x] = EventTypes, Log(x) # <<>>
                 PROVE  Log(x)[Len(Log(x))] + drops[x] = IF x \in Awaited' THEN seq + 1 - 1 ELSE seq + 1
      BY <1>2, <2>1, <2>2, SMTT(30) DEF Counted
    <3>1. Log(x)[Len(Log(x))] + drops[x] = seq
      BY <1>1, <2>4, Zenon DEF Counted
    <3>2. x \in Awaited' /\ seq + 1 - 1 = seq
      BY <1>2, <2>6, SMTT(30)
    <3> QED
      BY <3>1, <3>2, ZenonT(30)
  <2>8. Blank'
    BY <1>1, <1>2, <2>1, <2>2, SMTT(30) DEF Blank, TypeOK
  <2>9. GapsAreDrops'
    BY <1>1, <2>1, <2>2, Zenon DEF GapsAreDrops
  <2> QED
    BY <2>7, <2>8, <2>9, Zenon DEF Goal
<1>13. ASSUME NEW p \in Publishers, NEW s \in Subs, PublishSend(p, s), Drop(p, s) \/ DropAndEvict(p, s)
       PROVE Goal
  <2>1. /\ UNCHANGED <<ch, read, seq, registered, reason, pc>> /\ Len(ch[s]) >= Buffer
        /\ drops' = [drops EXCEPT ![s] = @ + 1] /\ dropped' = [dropped EXCEPT ![s] = @ + 1]
    BY <1>13, Zenon DEF PublishSend, Drop, DropAndEvict, busVars
  <2>2. Same
    BY <1>3, <2>1, Zenon
  <2>3. Log(s) # <<>>
    <3>1. ch[s] \in Seq(Nat) /\ read[s] \in Seq(Nat)
      BY <1>1, Zenon DEF TypeOK
    <3>2. Len(Log(s)) = Len(read[s]) + Len(ch[s]) /\ Len(read[s]) \in Nat /\ Len(ch[s]) \in Nat
      BY <3>1, ConcatElements, EmptyLength, Zenon DEF Log
    <3>5. Len(ch[s]) >= Buffer
      BY <2>1, Zenon
    <3>6. Buffer \in Nat /\ Buffer > 0
      BY EventBusAssumption
    <3>7. Len(ch[s]) > 0
      BY <3>2, <3>5, <3>6
    <3>8. \A a, b \in Nat : b > 0 => a + b > 0
      OBVIOUS
    <3>3. Len(Log(s)) > 0
      BY <3>2, <3>7, <3>8, Zenon
    <3>4. Len(<<>>) = 0
      BY Zenon
    <3> QED
      BY <3>3, <3>4
  <2>4. s \in Awaited /\ Awaited' = Awaited \ {s}
    BY <1>1, <1>13, AwaitedSend, Zenon
  <2>5. \A x \in Subs : Len(Log(x)) \in Nat /\ (Log(x) # <<>> => Log(x)[1] \in Nat /\ Log(x)[Len(Log(x))] \in Nat)
    BY <1>1, LogFacts, Zenon
  <2>9. \A x \in Subs : drops'[x] - drops[x] = dropped'[x] - dropped[x]
    BY <1>2, <2>1
  <2>10. drops'[s] = drops[s] + 1 /\ \A x \in Subs : x # s => drops'[x] = drops[x]
    BY <1>2, <2>1, Zenon
  <2>11. drops' \in [Subs -> Nat] /\ dropped' \in [Subs -> Nat]
    BY <1>1, Zenon DEF TypeOK
  <2>6. Counted'
    <3> SUFFICES ASSUME NEW x \in registered, Filter[x] = EventTypes, Log(x) # <<>>
                 PROVE  Log(x)[Len(Log(x))] + drops'[x] = IF x \in Awaited' THEN seq - 1 ELSE seq
      BY <1>2, <2>1, <2>2, Zenon DEF Counted
    <3>1. Log(x)[Len(Log(x))] + drops[x] = IF x \in Awaited THEN seq - 1 ELSE seq
      BY <1>1, Zenon DEF Counted
    <3>2. Log(x)[Len(Log(x))] \in Nat /\ x \in Subs
      BY <1>2, <2>5, Zenon
    <3> QED
      BY <1>2, <2>4, <2>10, <3>1, <3>2, SMTT(30)
  <2>7. Blank'
    BY <1>1, <1>2, <2>1, <2>2, <2>3, Zenon DEF Blank
  <2>8. GapsAreDrops'
    <3> SUFFICES ASSUME NEW x \in Subs, Filter[x] = EventTypes, Log(x) # <<>>
                 PROVE  Log(x)[Len(Log(x))] + 1 + drops'[x] = Log(x)[1] + Len(Log(x)) + dropped'[x]
      BY <2>2, Zenon DEF GapsAreDrops
    <3>1. Log(x)[Len(Log(x))] + 1 + drops[x] = Log(x)[1] + Len(Log(x)) + dropped[x]
      BY <1>1, Zenon DEF GapsAreDrops
    <3>2. Log(x)[Len(Log(x))] \in Nat /\ Log(x)[1] \in Nat /\ Len(Log(x)) \in Nat
      BY <2>5, Zenon
    <3>3. drops[x] \in Nat /\ dropped[x] \in Nat /\ drops'[x] \in Nat /\ dropped'[x] \in Nat
      BY <1>2, <2>11, Zenon
    <3>4. drops'[x] - drops[x] = dropped'[x] - dropped[x]
      BY <2>9, Zenon
    <3> DEFINE a == Log(x)[Len(Log(x))]
               b == Log(x)[1]
               n == Len(Log(x))
               d == drops[x]
               e == dropped[x]
               d1 == drops'[x]
               e1 == dropped'[x]
    <3>5. /\ a \in Nat /\ b \in Nat /\ n \in Nat /\ d \in Nat /\ e \in Nat /\ d1 \in Nat /\ e1 \in Nat
          /\ a + 1 + d = b + n + e /\ d1 - d = e1 - e
      BY <3>1, <3>2, <3>3, <3>4, Zenon
    <3> HIDE DEF a, b, n, d, e, d1, e1
    <3>6. a + 1 + d1 = b + n + e1
      BY <3>5
    <3> QED
      BY <3>6, Zenon DEF a, b, n, d1, e1
  <2> QED
    BY <2>6, <2>7, <2>8, Zenon DEF Goal
<1>14. ASSUME NEW p \in Publishers, NEW s \in Subs, PublishSend(p, s), Deliver(p, s) PROVE Goal
  <2> DEFINE n == Len(Log(s))
  <2>1. /\ UNCHANGED <<seq, registered, reason, pc, dropped>> /\ pc[p] = "fanout" /\ s \in todo[p]
        /\ drops' = [drops EXCEPT ![s] = 0]
    BY <1>14, Zenon DEF PublishSend, Deliver, busVars
  <2>2. evtSeq[p] = seq /\ s \in registered /\ reason[s] = "Open"
    BY <1>1, <2>1, Zenon DEF OInv, LogBound, RReg, TodoIsRegistered, OpenIsRegistered
  <2>3. Log(s)' = Append(Log(s), seq) /\ \A x \in Subs \ {s} : Log(x)' = Log(x)
    BY <1>1, <1>14, <2>2, LogDeliver, Zenon
  <2>4. Log(s) \in Seq(Nat)
    BY <1>1, LogType, Zenon
  <2>5. n \in Nat /\ Len(Log(s)') = n + 1 /\ Log(s)'[n + 1] = seq /\ (n # 0 => Log(s)'[1] = Log(s)[1])
    BY <1>2, <2>3, <2>4, AppendElements, EmptyLength
  <2>6. (n = 0 <=> Log(s) = <<>>) /\ Log(s)' # <<>>
    BY <2>3, <2>4, <2>5, EmptyLength
  <2>7. s \in Awaited /\ Awaited' = Awaited \ {s}
    BY <1>1, <1>14, AwaitedSend, Zenon
  <2>8. \A x \in Subs : Len(Log(x)) \in Nat /\ (Log(x) # <<>> => Log(x)[1] \in Nat /\ Log(x)[Len(Log(x))] \in Nat)
    BY <1>1, LogFacts, Zenon
  <2>9. ASSUME Filter[s] = EventTypes
        PROVE Log(s)'[Len(Log(s)')] + 1 + drops'[s] = Log(s)'[1] + Len(Log(s)') + dropped[s]
    <3>1. CASE n = 0
      <4>1. dropped[s] = 0 /\ Log(s)'[1] = seq
        BY <1>1, <2>5, <2>6, <3>1 DEF Blank
      <4> QED
        BY <1>2, <2>1, <2>5, <3>1, <4>1, SMTT(30)
    <3>2. CASE n # 0
      <4>1. Log(s) # <<>>
        BY <2>6, <3>2, Zenon
      <4>2. Log(s)[n] + drops[s] = seq - 1
        BY <1>1, <2>2, <2>7, <2>9, <4>1, Zenon DEF Counted
      <4>3. Log(s)[n] + 1 + drops[s] = Log(s)[1] + n + dropped[s]
        BY <1>1, <2>9, <4>1, Zenon DEF GapsAreDrops
      <4>4. Log(s)[n] \in Nat /\ Log(s)[1] \in Nat
        BY <2>8, <4>1, Zenon
      <4>5. drops'[s] = 0 /\ Log(s)'[Len(Log(s)')] = seq /\ Log(s)'[1] = Log(s)[1] /\ Len(Log(s)') = n + 1
        BY <1>2, <2>1, <2>5, <3>2, Zenon
      <4>6. drops[s] \in Nat /\ dropped[s] \in Nat /\ n \in Nat
        BY <1>2, <2>5, Zenon
      <4> HIDE DEF n
      <4>7. seq + 1 = Log(s)[1] + (n + 1) + dropped[s]
        BY <1>2, <4>2, <4>3, <4>4, <4>6
      <4> QED
        BY <1>2, <4>5, <4>7
    <3> QED
      BY <3>1, <3>2, Zenon
  <2>10. GapsAreDrops'
    BY <1>1, <1>2, <2>1, <2>3, <2>9, Zenon DEF GapsAreDrops
  <2>11. Counted'
    <3>1. Log(s)'[Len(Log(s)')] + drops'[s] = seq
      BY <1>2, <2>1, <2>5, SMTT(30)
    <3>2. \A x \in registered : x # s => Log(x)' = Log(x) /\ drops'[x] = drops[x] /\ (x \in Awaited' <=> x \in Awaited)
      BY <1>2, <2>1, <2>3, <2>7, Zenon
    <3> QED
      BY <1>1, <1>2, <2>1, <2>7, <3>1, <3>2, Zenon DEF Counted
  <2>12. Blank'
    <3>1. \A q \in Publishers : pc[q] # "unheard"
      BY <1>1, <2>1, Zenon DEF RReg, OnePublisher
    <3> QED
      BY <1>1, <1>2, <2>1, <2>2, <2>3, <2>6, <3>1, Zenon DEF Blank
  <2> QED
    BY <2>10, <2>11, <2>12, Zenon DEF Goal
<1>15. ASSUME NEW p \in Publishers, NEW s \in Subs, PublishSend(p, s) PROVE Goal
  BY <1>13, <1>14, <1>15, SendCases, Zenon
<1>16. ASSUME NEW p \in Publishers, Finish(p) PROVE Goal
  BY <1>6, <1>8, <1>9, <1>10, <1>12, <1>15, <1>16, Zenon DEF Finish
<1>17. Goal
  <2>1. CASE \E s \in Subs : Subscribe(s) \/ Unsubscribe(s) \/ Receive(s)
    BY <1>5, <1>6, <1>7, <2>1, Zenon
  <2>2. CASE \E p \in Publishers : Finish(p) \/ \E t \in EventTypes : PublishLock(p, t)
    BY <1>10, <1>16, <2>2, Zenon
  <2>3. CASE Close
    BY <1>6, <2>3, Zenon
  <2> QED
    BY <1>11, <2>1, <2>2, <2>3, Zenon DEF Next
<1> QED
  BY <1>17, Zenon DEF Goal

\* For a subscriber of every type, the numbers missing between the first and
\* the last event it was given are exactly the drops counted in between,
\* whatever it read meanwhile and whoever published.
THEOREM GapsAreDropsHolds == Spec => []GapsAreDrops
<1>1. Init => GInv
  <2> SUFFICES ASSUME Init PROVE GInv
    BY Zenon
  <2>1. \A s \in Subs : Log(s) = <<>>
    BY DEF Init, Log
  <2>2. OInv
    BY RInit, <2>1 DEF Init, OInv, LogBound, SequenceOrder
  <2> QED
    BY <2>1, <2>2, Zenon DEF Init, GInv, Blank, Counted, GapsAreDrops
<1>2. GInv => GapsAreDrops
  BY Zenon DEF GInv
<1> QED
  BY <1>1, <1>2, GStep, PTL DEF Spec
=============================================================================
