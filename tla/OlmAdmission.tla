---------------------------- MODULE OlmAdmission ----------------------------
(***************************************************************************)
(* Sending one end-to-end encrypted message: the admission protocol        *)
(* between a device's durable store (mobile/src/core/ratchet-store.js, on  *)
(* the desktop internal/e2ee/durable/admission.go), the consumers that     *)
(* drive it (mobile/src/core/ratchet-consumer.js, on the desktop           *)
(* client/ratchet_consumer.go) and the server's attempt table              *)
(* (internal/store/olm_admission.go).                                      *)
(*                                                                         *)
(* A logical message is sealed into an attempt: an immutable manifest with *)
(* its parts, numbered in sequence, committed locally before anything is   *)
(* sent.  The consumer then begins the attempt, uploads the parts and      *)
(* finalizes it; the server admits it or not, and keeps the outcome as a   *)
(* receipt until the device has stored that receipt and retires it.  Only  *)
(* an attempt that ended without admission may be sealed again.            *)
(*                                                                         *)
(* Several consumers of one device (windows, tabs) share the durable store *)
(* and resolve the same attempts side by side.  Calls are lost, answered   *)
(* too late, or executed after their caller gave up; consumers crash;      *)
(* device and server disagree about the time.                              *)
(*                                                                         *)
(* A call the server refuses for a reason outside this state (quota, rate  *)
(* limit, lock timeout, authority) changes nothing and fails at the        *)
(* caller: it is GiveUp with the request dropped.  One account epoch is    *)
(* modelled.                                                               *)
(***************************************************************************)
EXTENDS Integers, FiniteSets

CONSTANTS Consumers,    \* ratchetConsumer instances over one durable store
          Logicals,     \* logical message ids
          Controls,     \* the logicals with purpose control: never resealed
          NoReference,
          Reference,    \* for an edit or a delete, the logical it refers to
          NumParts,     \* wire parts of a manifest
          MaxAttempts,  \* bound on NextAttempt
          MaxTime,      \* bound on both clocks
          AttemptTTL,   \* deadline minus the time of sealing
          Margin,       \* ratchetDeadlineMargin
          MaxAhead,     \* how far ahead a deadline the server takes (3600 s)
          MaxControlTTL,\* the same for a control (admission.MaxControlTTL)
          RetireBatch,  \* receipts one retire_receipt may fold into the fence
          MaxLate       \* bound on requests in flight without a caller

ASSUME OlmAdmissionAssumption ==
  /\ Controls \subseteq Logicals
  /\ NoReference \notin Logicals
  /\ Reference \in [Logicals -> Logicals \cup {NoReference}]
  /\ NumParts \in Nat \ {0}
  /\ {MaxAttempts, MaxTime, AttemptTTL, Margin, MaxAhead, MaxControlTTL, RetireBatch, MaxLate} \subseteq Nat

Attempts == 1..MaxAttempts
Parts    == 1..NumParts
Dead     == {"rejected", "aborted"}
Terminal == Dead \cup {"accepted"}
Requests == {"status", "begin", "put", "finalize", "abort", "retire"}
Answers  == Terminal \cup {"none", "absent", "staging", "retired", "invalid", "ok", "error"}

VARIABLES
  \* the durable store, one transaction per change
  nextAttempt,     \* control.NextAttempt
  logicalOf,       \* manifest.LogicalID
  deadline,        \* manifest.Deadline
  receipt,         \* sentBatch.Receipt
  lastAttempt,     \* logicalRecord.AttemptID, zero without a record
  logical,         \* logicalRecord.State
  noted,           \* attempts under the RetiredMark
  \* the consumers
  pc,              \* "idle", the call awaited, or "apply"
  current,         \* the attempt being resolved
  part,            \* the part being put
  result,          \* the receipt held for ApplyAttemptResult
  answer,          \* the reply waiting to be read
  skewed,          \* attempts the server refused while not yet expired here
  late,            \* requests whose callers gave up, still to be executed
  clientNow,
  \* the server
  state,           \* olm_attempts.state
  parts,           \* olm_parts
  acked,           \* olm_attempts.receipt_ack
  retiredThrough,  \* olm_attempt_fences.retired_through
  messages,        \* the attempts admitted into olm_messages
  staleThrough,    \* attempts sealed before the last roster or member change
  now

device   == <<nextAttempt, logicalOf, deadline, receipt, lastAttempt, logical, noted>>
consumer == <<pc, current, part, result, answer, skewed>>
server   == <<state, parts, acked, retiredThrough, messages>>
clocks   == <<clientNow, now>>
vars == <<device, consumer, late, server, staleThrough, clocks>>

TypeOK ==
  /\ nextAttempt \in 0..MaxAttempts
  /\ logicalOf \in [Attempts -> Logicals \cup {NoReference}]
  /\ deadline \in [Attempts -> Nat]
  /\ receipt \in [Attempts -> Terminal \cup {"none"}]
  /\ lastAttempt \in [Logicals -> 0..MaxAttempts]
  /\ logical \in [Logicals -> Terminal \cup {"none", "pending"}]
  /\ noted \subseteq Attempts
  /\ pc \in [Consumers -> Requests \cup {"idle", "apply"}]
  /\ current \in [Consumers -> 0..MaxAttempts]
  /\ part \in [Consumers -> Parts]
  /\ result \in [Consumers -> Terminal \cup {"none"}]
  /\ answer \in [Consumers -> Answers]
  /\ skewed \in [Consumers -> SUBSET Attempts]
  /\ late \subseteq Requests \X Attempts \X Parts
  /\ clientNow \in Nat /\ now \in Nat
  /\ state \in [Attempts -> Terminal \cup {"absent", "staging"}]
  /\ parts \in [Attempts -> SUBSET Parts]
  /\ acked \subseteq Attempts
  /\ retiredThrough \in 0..MaxAttempts
  /\ messages \subseteq Attempts
  /\ staleThrough \in 0..MaxAttempts

Init ==
  /\ nextAttempt = 0
  /\ logicalOf = [n \in Attempts |-> NoReference]
  /\ deadline = [n \in Attempts |-> 0]
  /\ receipt = [n \in Attempts |-> "none"]
  /\ lastAttempt = [l \in Logicals |-> 0]
  /\ logical = [l \in Logicals |-> "none"]
  /\ noted = {}
  /\ pc = [c \in Consumers |-> "idle"]
  /\ current = [c \in Consumers |-> 0]
  /\ part = [c \in Consumers |-> 1]
  /\ result = [c \in Consumers |-> "none"]
  /\ answer = [c \in Consumers |-> "none"]
  /\ skewed = [c \in Consumers |-> {}]
  /\ late = {}
  /\ state = [n \in Attempts |-> "absent"]
  /\ parts = [n \in Attempts |-> {}]
  /\ acked = {} /\ retiredThrough = 0 /\ messages = {} /\ staleThrough = 0
  /\ clientNow = 0 /\ now = 0

-----------------------------------------------------------------------------
(***************************************************************************)
(* The server.  Every request is one transaction on the attempt's row; its *)
(* answer depends on the state it finds.                                   *)
(***************************************************************************)
\* loadAttempt: the fence answers before the row is looked up.
neverRetired(n) == FALSE
retired(n) == n <= retiredThrough

overdue == {n \in Attempts : state[n] = "staging" /\ deadline[n] <= now}

\* saveReceipt for a set of rows: a row that leaves staging loses its parts.
saveReceipt(S, outcome) ==
  /\ state' = [n \in Attempts |-> IF n \in S THEN outcome ELSE state[n]]
  /\ parts' = [n \in Attempts |-> IF n \in S THEN {} ELSE parts[n]]
  /\ UNCHANGED <<acked, retiredThrough>>

\* insertAttempt: expireOlmAttempts runs in the same transaction.
insertAttempt(n, outcome) ==
  /\ state' = [k \in Attempts |-> IF k = n THEN outcome
                                  ELSE IF k \in overdue THEN "rejected" ELSE state[k]]
  /\ parts' = [k \in Attempts |-> IF k \in overdue THEN {} ELSE parts[k]]
  /\ UNCHANGED <<acked, retiredThrough, messages>>

StatusAnswer(n) == IF retired(n) THEN "retired" ELSE state[n]

deadlineRefused(n) ==
  \/ deadline[n] <= now \/ deadline[n] > now + MaxAhead
  \/ logicalOf[n] \in Controls /\ deadline[n] > now + MaxControlTTL

BeginAnswer(n) ==
  IF StatusAnswer(n) # "absent" THEN StatusAnswer(n)
  ELSE IF deadlineRefused(n) THEN "invalid" ELSE "staging"

BeginOlmAttempt(n) ==
  IF StatusAnswer(n) = "absent" /\ ~deadlineRefused(n)
  THEN insertAttempt(n, "staging")
  ELSE UNCHANGED server

PutAnswer(n) ==
  CASE StatusAnswer(n) = "accepted" -> "ok"
    [] StatusAnswer(n) = "staging" /\ deadline[n] > now -> "ok"
    [] OTHER -> "error"

PutOlmPart(n, p) ==
  IF StatusAnswer(n) # "staging" THEN UNCHANGED server
  ELSE IF deadline[n] <= now THEN saveReceipt({n}, "rejected") /\ UNCHANGED messages
  ELSE /\ parts' = [parts EXCEPT ![n] = @ \cup {p}]
       /\ UNCHANGED <<state, acked, retiredThrough, messages>>

\* EXISTS(SELECT 1 FROM olm_messages WHERE ... logical_id=...)
admitted(l) == \E k \in messages : logicalOf[k] = l

FinalizeAnswer(n) ==
  CASE StatusAnswer(n) = "absent" -> "error"
    [] StatusAnswer(n) \notin {"absent", "staging"} -> StatusAnswer(n)
    [] StatusAnswer(n) = "staging" /\ (n <= staleThrough \/ deadline[n] <= now) -> "rejected"
    [] StatusAnswer(n) = "staging" /\ n > staleThrough /\ deadline[n] > now ->
         IF parts[n] # Parts THEN "error"
         ELSE IF admitted(logicalOf[n]) THEN "rejected"
         ELSE IF Reference[logicalOf[n]] \notin {NoReference} /\ ~admitted(Reference[logicalOf[n]])
              THEN "rejected" ELSE "accepted"

finalizeOlmAttempt(n) ==
  IF StatusAnswer(n) # "staging" \/ FinalizeAnswer(n) = "error" THEN UNCHANGED server
  ELSE /\ saveReceipt({n}, FinalizeAnswer(n))
       /\ messages' = IF FinalizeAnswer(n) = "accepted" THEN messages \cup {n} ELSE messages

AbortAnswer(n) ==
  IF StatusAnswer(n) \in {"absent", "staging"} THEN "aborted" ELSE StatusAnswer(n)

AbortWithoutFence(n) ==
  IF StatusAnswer(n) = "staging"
  THEN saveReceipt({n}, "aborted") /\ UNCHANGED messages ELSE UNCHANGED server
AbortOlmAttempt(n) ==
  CASE StatusAnswer(n) = "absent" -> insertAttempt(n, "aborted")
    [] StatusAnswer(n) = "staging" -> saveReceipt({n}, "aborted") /\ UNCHANGED messages
    [] OTHER -> UNCHANGED server

RetireAnswer(n) == IF StatusAnswer(n) \in {"absent", "staging"} THEN "error" ELSE "ok"

\* The loop that moves the fence over acknowledged receipts, and the DELETE.
foldableUnacked(ack, k) == state[k] \in Terminal
foldable(ack, k) == k \in ack /\ state[k] # "staging"
advanceFence(ack) ==
  \E t \in retiredThrough..MaxAttempts :
    /\ t - retiredThrough <= RetireBatch
    /\ \A k \in (retiredThrough + 1)..t : foldable(ack, k)
    /\ \/ t - retiredThrough = RetireBatch
       \/ t = MaxAttempts
       \/ ~foldable(ack, t + 1)
    /\ retiredThrough' = t
    /\ acked' = {k \in ack : k > t}
    /\ state' = [k \in Attempts |-> IF k \in ack /\ k <= t THEN "absent" ELSE state[k]]
    /\ UNCHANGED <<parts, messages>>

RetireOlmReceipt(n) ==
  IF RetireAnswer(n) = "error" THEN UNCHANGED server
  ELSE advanceFence(IF retired(n) THEN acked ELSE acked \cup {n})

Answer(req, n) ==
  CASE req = "status" -> StatusAnswer(n)
    [] req = "begin" -> BeginAnswer(n)
    [] req = "put" -> PutAnswer(n)
    [] req = "finalize" -> FinalizeAnswer(n)
    [] req = "abort" -> AbortAnswer(n)
    [] req = "retire" -> RetireAnswer(n)

Serve(req, n, p) ==
  \/ req = "status" /\ UNCHANGED server
  \/ req = "begin" /\ BeginOlmAttempt(n)
  \/ req = "put" /\ PutOlmPart(n, p)
  \/ req = "finalize" /\ finalizeOlmAttempt(n)
  \/ req = "abort" /\ AbortOlmAttempt(n)
  \/ req = "retire" /\ RetireOlmReceipt(n)

\* handleOlmAdmission: execute the awaited call and send the result.
Handle(c) ==
  /\ pc[c] \in Requests /\ answer[c] = "none"
  /\ Serve(pc[c], current[c], part[c])
  /\ answer' = [answer EXCEPT ![c] = Answer(pc[c], current[c])]
  /\ UNCHANGED <<device, pc, current, part, result, skewed, late, staleThrough, clocks>>

\* A request whose caller has gone is executed all the same.
HandleLate ==
  /\ \E r \in late : Serve(r[1], r[2], r[3]) /\ late' = late \ {r}
  /\ UNCHANGED <<device, consumer, staleThrough, clocks>>

\* ExpireOlmAttempts, the maintenance sweep.
ExpireOlmAttempts ==
  /\ overdue # {}
  /\ saveReceipt(overdue, "rejected")
  /\ UNCHANGED <<messages, device, consumer, late, staleThrough, clocks>>

\* A device joins or leaves a target account, or a group changes: no
\* attempt sealed so far covers the targets any more (equalCoverage).
RosterChange ==
  /\ staleThrough < nextAttempt
  /\ staleThrough' = nextAttempt
  /\ UNCHANGED <<device, consumer, late, server, clocks>>

-----------------------------------------------------------------------------
(***************************************************************************)
(* The consumers.  One consumer resolves one attempt at a time (serial).   *)
(***************************************************************************)
\* Issue the next call of settle or retire; or return, dropping the locals.
Goto(c, where) ==
  /\ pc' = [pc EXCEPT ![c] = where]
  /\ answer' = [answer EXCEPT ![c] = "none"]
Return(c) ==
  /\ Goto(c, "idle")
  /\ current' = [current EXCEPT ![c] = 0]
  /\ part' = [part EXCEPT ![c] = 1]
  /\ result' = [result EXCEPT ![c] = "none"]

\* prepareAttempt: absent, or ended without admission.
sealableAlways(l) == l \notin Controls
sealable(l) == lastAttempt[l] = 0 \/ (logical[l] \in Dead /\ l \notin Controls)

\* seal: one transaction numbers the attempt and stores its wire parts;
\* resolve follows.  The bound on the clock keeps every deadline reachable.
Seal(c, l) ==
  /\ pc[c] = "idle"
  /\ sealable(l)
  /\ nextAttempt < MaxAttempts
  /\ clientNow + AttemptTTL <= MaxTime
  /\ nextAttempt' = nextAttempt + 1
  /\ logicalOf' = [logicalOf EXCEPT ![nextAttempt + 1] = l]
  /\ deadline' = [deadline EXCEPT ![nextAttempt + 1] = clientNow + AttemptTTL]
  /\ lastAttempt' = [lastAttempt EXCEPT ![l] = nextAttempt + 1]
  /\ logical' = [logical EXCEPT ![l] = "pending"]
  /\ current' = [current EXCEPT ![c] = nextAttempt + 1]
  /\ Goto(c, "status")
  /\ UNCHANGED <<receipt, noted, part, result, skewed, late, server, staleThrough, clocks>>

\* resolve, from a repeated send or from drain: settle an attempt without a
\* receipt, retire one that has it.
Resume(c, n) ==
  /\ pc[c] = "idle"
  /\ n <= nextAttempt /\ n \notin noted
  /\ current' = [current EXCEPT ![c] = n]
  /\ Goto(c, IF receipt[n] = "none" THEN "status" ELSE "retire")
  /\ UNCHANGED <<device, part, result, skewed, late, server, staleThrough, clocks>>

expiredNever(n) == FALSE
expired(n) == deadline[n] <= clientNow + Margin

\* Take a terminal receipt to ApplyAttemptResult.
Conclude(c) ==
  /\ answer[c] \in Terminal
  /\ result' = [result EXCEPT ![c] = answer[c]]
  /\ Goto(c, "apply")
  /\ UNCHANGED <<current, part, skewed>>

\* settle after the status call.  AttemptWire yields nothing once another
\* consumer stored the receipt, or when the trust record changed (gone).
OnStatus(c) ==
  /\ pc[c] = "status" /\ answer[c] # "none"
  /\ \/ Conclude(c)
     \/ /\ answer[c] \notin Terminal
        /\ ~expired(current[c]) /\ current[c] \in skewed[c]
        /\ Return(c) /\ UNCHANGED skewed
     \/ /\ answer[c] \notin Terminal
        /\ expired(current[c]) \/ current[c] \notin skewed[c]
        /\ \E gone \in BOOLEAN :
             /\ receipt[current[c]] # "none" => gone
             /\ Goto(c, IF ~gone /\ (~expired(current[c]) \/ answer[c] # "absent")
                        THEN "begin" ELSE "abort")
        /\ UNCHANGED <<current, part, result, skewed>>
  /\ UNCHANGED <<device, late, server, staleThrough, clocks>>

\* After begin: a deadline the server refuses is clock skew until it has
\* passed here as well; only then is the attempt aborted.
OnBegin(c) ==
  /\ pc[c] = "begin" /\ answer[c] # "none"
  /\ \/ Conclude(c)
     \/ /\ answer[c] = "invalid" /\ ~expired(current[c])
        /\ skewed' = [skewed EXCEPT ![c] = @ \cup {current[c]}]
        /\ Return(c)
     \/ /\ answer[c] = "invalid" /\ expired(current[c])
        /\ Goto(c, "abort") /\ UNCHANGED <<current, part, result, skewed>>
     \/ /\ answer[c] \notin Terminal \cup {"invalid"}
        /\ Goto(c, "put") /\ UNCHANGED <<current, part, result, skewed>>
  /\ UNCHANGED <<device, late, server, staleThrough, clocks>>

\* for part, data := range wire.Parts
moreParts(c) == part[c] < NumParts

OnPut(c) ==
  /\ pc[c] = "put" /\ answer[c] # "none"
  /\ \/ answer[c] = "error" /\ Return(c) /\ UNCHANGED skewed
     \/ /\ answer[c] = "ok" /\ moreParts(c)
        /\ part' = [part EXCEPT ![c] = @ + 1]
        /\ Goto(c, "put") /\ UNCHANGED <<current, result, skewed>>
     \/ /\ answer[c] = "ok" /\ ~moreParts(c)
        /\ Goto(c, "finalize") /\ UNCHANGED <<current, part, result, skewed>>
  /\ UNCHANGED <<device, late, server, staleThrough, clocks>>

\* After finalize and abort: anything but a terminal receipt is "uncertain".
OnFinal(c) ==
  /\ pc[c] \in {"finalize", "abort"} /\ answer[c] # "none"
  /\ \/ Conclude(c)
     \/ answer[c] \notin Terminal /\ Return(c) /\ UNCHANGED skewed
  /\ UNCHANGED <<device, late, server, staleThrough, clocks>>

\* ApplyAttemptResult; the receipt and the logical record change together.
StoreReceipt(c) ==
  /\ pc[c] = "apply"
  /\ receipt[current[c]] = "none"
  /\ lastAttempt[logicalOf[current[c]]] = current[c]
  /\ receipt' = [receipt EXCEPT ![current[c]] = result[c]]
  /\ logical' = [logical EXCEPT ![logicalOf[current[c]]] = result[c]]
  /\ Goto(c, "retire")
  /\ UNCHANGED <<nextAttempt, logicalOf, deadline, lastAttempt, noted, current, part, result,
                 skewed, late, server, staleThrough, clocks>>

\* The same receipt is there already: nothing to store, retire it unless
\* that was noted.  (A different receipt, or a superseded attempt, is a
\* conflict: NoConflict shows that neither happens.)
ReceiptKnown(c) ==
  /\ pc[c] = "apply"
  /\ receipt[current[c]] = result[c]
  /\ \/ current[c] \notin noted /\ Goto(c, "retire") /\ UNCHANGED <<current, part, result>>
     \/ current[c] \in noted /\ Return(c)
  /\ UNCHANGED <<device, skewed, late, server, staleThrough, clocks>>

\* retire: NoteRetired once the server has the acknowledgement.
OnRetire(c) ==
  /\ pc[c] = "retire" /\ answer[c] # "none"
  /\ noted' = IF answer[c] = "ok" THEN noted \cup {current[c]} ELSE noted
  /\ Return(c)
  /\ UNCHANGED <<nextAttempt, logicalOf, deadline, receipt, lastAttempt, logical, skewed,
                 late, server, staleThrough, clocks>>

\* The call fails or the consumer dies; a request not yet executed is lost
\* or stays on its way.  A restarted consumer has forgotten skewed.
Abandon(c) ==
  /\ pc[c] # "idle"
  /\ Return(c)
  /\ \/ UNCHANGED late
     \/ /\ pc[c] \in Requests /\ answer[c] = "none"
        /\ Cardinality(late) < MaxLate
        /\ late' = late \cup {<<pc[c], current[c], part[c]>>}
  /\ UNCHANGED <<device, server, staleThrough, clocks>>

GiveUp(c) == Abandon(c) /\ UNCHANGED skewed
Crash(c)  == Abandon(c) /\ skewed' = [skewed EXCEPT ![c] = {}]

LoseLate ==
  /\ \E r \in late : late' = late \ {r}
  /\ UNCHANGED <<device, consumer, server, staleThrough, clocks>>

TickClient ==
  /\ clientNow < MaxTime /\ clientNow' = clientNow + 1
  /\ UNCHANGED <<device, consumer, late, server, staleThrough, now>>
TickServer ==
  /\ now < MaxTime /\ now' = now + 1
  /\ UNCHANGED <<device, consumer, late, server, staleThrough, clientNow>>

Consume(c) ==
  \/ \E l \in Logicals : Seal(c, l)
  \/ \E n \in Attempts : Resume(c, n)
  \/ OnStatus(c) \/ OnBegin(c) \/ OnPut(c) \/ OnFinal(c)
  \/ StoreReceipt(c) \/ ReceiptKnown(c) \/ OnRetire(c)

Next ==
  \/ \E c \in Consumers : Handle(c) \/ Consume(c) \/ GiveUp(c) \/ Crash(c)
  \/ HandleLate \/ LoseLate \/ ExpireOlmAttempts \/ RosterChange
  \/ TickClient \/ TickServer

Spec == Init /\ [][Next]_vars

(***************************************************************************)
(* Fairness.  Clocks advance; requests are executed and answers acted on;  *)
(* drain runs again and again (on every connection and every doorbell) and *)
(* tries the attempts not yet noted as retired, oldest window first        *)
(* (ratchetResolveOrder); calls do not go on failing for ever.             *)
(***************************************************************************)
React(c) ==
  \/ Handle(c) \/ OnStatus(c) \/ OnBegin(c) \/ OnPut(c) \/ OnFinal(c)
  \/ StoreReceipt(c) \/ ReceiptKnown(c) \/ OnRetire(c)

Drain(c) ==
  \E n \in Attempts : Resume(c, n) /\ \A k \in 1..(n - 1) : k \in noted

\* A failed call or a crash, and no regular end of resolve.
Fault(c) == (GiveUp(c) \/ Crash(c)) /\ ~React(c)

FairSpec ==
  /\ Spec
  /\ WF_vars(TickClient) /\ WF_vars(TickServer)
  /\ \A c \in Consumers : WF_vars(React(c)) /\ SF_vars(Drain(c))
  /\ <>[][\A c \in Consumers : ~Fault(c)]_vars

-----------------------------------------------------------------------------
(***************************************************************************)
(* A stored receipt tells the truth for good: an attempt the device holds  *)
(* as accepted is among the admitted messages, and one it holds as         *)
(* rejected or aborted never is, whatever late request the server still    *)
(* executes and whether or not the row has been folded into the fence      *)
(* (AbortOlmAttempt, loadAttempt, ApplyAttemptResult).                     *)
(***************************************************************************)
ReceiptsTruthful ==
  \A n \in Attempts :
    /\ receipt[n] = "accepted" => n \in messages
    /\ receipt[n] \in Dead => n \notin messages

\* The server may still admit the attempt, or has.
admissible(n) ==
  n \in messages \/ (n <= nextAttempt /\ StatusAnswer(n) \in {"absent", "staging"})

(***************************************************************************)
(* Sealing again never races an earlier attempt: of all the attempts of    *)
(* one logical message at most one is admitted or can still be             *)
(* (prepareAttempt's guard against what the server may yet execute).       *)
(***************************************************************************)
OneLiveAttempt ==
  \A n, m \in Attempts :
    /\ n <= nextAttempt /\ m <= nextAttempt /\ n # m
    /\ logicalOf[n] = logicalOf[m]
    => ~(admissible(n) /\ admissible(m))

(***************************************************************************)
(* The fence never swallows an outcome: the server forgets an attempt only *)
(* after its terminal receipt is in the device's durable store, as the     *)
(* comment of RetireOlmReceipt demands of its callers.                     *)
(***************************************************************************)
RetiredAfterReceipt ==
  \A n \in Attempts : n <= retiredThrough => receipt[n] # "none"

(***************************************************************************)
(* Two consumers resolving one attempt agree: a result brought to          *)
(* ApplyAttemptResult finds no receipt or the same one, and its attempt is *)
(* still the last of its logical message unless the receipt is stored.     *)
(***************************************************************************)
NoConflict ==
  \A c \in Consumers : pc[c] = "apply" =>
    /\ receipt[current[c]] \in {"none", result[c]}
    /\ receipt[current[c]] = "none" => lastAttempt[logicalOf[current[c]]] = current[c]

(***************************************************************************)
(* A terminal outcome is immutable: no request, sweep or retry rewrites    *)
(* it; it only disappears behind the fence.                                *)
(***************************************************************************)
OutcomeImmutable ==
  [][\A n \in Attempts : state[n] \in Terminal =>
       state'[n] = state[n] \/ n <= retiredThrough']_vars

(***************************************************************************)
(* Exactly-once sending as the views see it: what the durable record says  *)
(* of a logical message against what was admitted (see LogicalSend).       *)
(***************************************************************************)
Promise == INSTANCE LogicalSend
  WITH view <- logical, sent <- {logicalOf[n] : n \in messages}
KeepsPromise == Promise!Spec

(***************************************************************************)
(* Every committed attempt is settled and its receipt retired at last, for *)
(* every fault that does not repeat for ever (settle, retire, drain).      *)
(***************************************************************************)
EventuallyRetired ==
  \A n \in Attempts : (n <= nextAttempt) ~> (n \in noted)
=============================================================================
