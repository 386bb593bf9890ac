------------------------- MODULE OlmAdmissionProofs -------------------------
(***************************************************************************)
(* Proofs about the admission protocol, for any number of consumers,       *)
(* messages and attempts, any clocks, and any set of late requests.        *)
(*                                                                         *)
(* The inductive invariant says where the outcome of an attempt is kept:   *)
(* in its row while it is above the fence, in the stored receipt once it   *)
(* is below.  Everything a consumer holds in memory is such an outcome     *)
(* (Held), and outcomes never change.  The server's steps keep it, then    *)
(* the transactions of the device's store, then the consumers' other       *)
(* steps.  From it follow the properties the runs of MCOlmAdmission check, *)
(* and that the protocol implements LogicalSend.                           *)
(***************************************************************************)
EXTENDS OlmAdmission, TLAPS

\* r is the outcome of attempt n.
Held(n, r) ==
  /\ n \in Attempts /\ n <= nextAttempt
  /\ n > retiredThrough => state[n] = r
  /\ n <= retiredThrough => receipt[n] = r

\* Nothing is known of attempts not sealed yet; the sealed ones have a
\* logical message, whose record points at the last of them.
Numbering ==
  /\ retiredThrough <= nextAttempt
  /\ \A n \in Attempts : n > nextAttempt => state[n] = "absent" /\ receipt[n] = "none"
  /\ \A n \in Attempts : n <= nextAttempt =>
       logicalOf[n] \in Logicals /\ n <= lastAttempt[logicalOf[n]]
  /\ \A l \in Logicals : lastAttempt[l] <= nextAttempt
  /\ \A l \in Logicals : lastAttempt[l] # 0 => logicalOf[lastAttempt[l]] = l

\* The logical record repeats the receipt of the last attempt; every earlier
\* one ended without admission.
Records ==
  /\ \A l \in Logicals : lastAttempt[l] = 0 => logical[l] = "none"
  /\ \A l \in Logicals : lastAttempt[l] # 0 =>
       \/ logical[l] = "pending" /\ receipt[lastAttempt[l]] = "none"
       \/ logical[l] \in Terminal /\ receipt[lastAttempt[l]] = logical[l]
  /\ \A n \in Attempts : n <= nextAttempt /\ n # lastAttempt[logicalOf[n]] => receipt[n] \in Dead

Outcomes ==
  /\ \A n \in Attempts : n <= retiredThrough => receipt[n] # "none"
  /\ \A n \in Attempts : n > retiredThrough /\ receipt[n] # "none" => state[n] = receipt[n]
  /\ \A n \in Attempts : n > retiredThrough => (n \in messages <=> state[n] = "accepted")
  /\ \A n \in Attempts : n <= retiredThrough => (n \in messages <=> receipt[n] = "accepted")
  /\ \A n \in acked : receipt[n] # "none"

\* What consumers and requests in flight refer to.
InFlight ==
  /\ \A c \in Consumers : pc[c] # "idle" => current[c] \in Attempts /\ current[c] <= nextAttempt
  /\ \A c \in Consumers : answer[c] \in Terminal => pc[c] # "idle" /\ Held(current[c], answer[c])
  /\ \A c \in Consumers : pc[c] = "apply" => result[c] \in Terminal /\ Held(current[c], result[c])
  /\ \A c \in Consumers : pc[c] = "retire" => receipt[current[c]] # "none"
  /\ \A r \in late : r[2] <= nextAttempt
  /\ \A r \in late : r[1] = "retire" => receipt[r[2]] # "none"

IInv == TypeOK /\ Numbering /\ Records /\ Outcomes /\ InFlight

-----------------------------------------------------------------------------
(***************************************************************************)
(* What executing any request, or the sweep, may do to the server's rows.  *)
(***************************************************************************)
ServerStep ==
  /\ state' \in [Attempts -> Terminal \cup {"absent", "staging"}]
  /\ parts' \in [Attempts -> SUBSET Parts]
  /\ acked' \subseteq Attempts /\ messages' \subseteq Attempts
  /\ retiredThrough' \in 0..MaxAttempts
  /\ retiredThrough <= retiredThrough' /\ retiredThrough' <= nextAttempt
  /\ \A k \in Attempts : k > retiredThrough' /\ state[k] \in Terminal => state'[k] = state[k]
  /\ \A k \in Attempts : k <= retiredThrough' => receipt[k] # "none"
  /\ \A k \in Attempts : k > retiredThrough' => (k \in messages' <=> state'[k] = "accepted")
  /\ \A k \in Attempts : k <= retiredThrough' => (k \in messages' <=> k \in messages)
  /\ \A k \in acked' : receipt[k] # "none"
  /\ \A k \in Attempts : k > nextAttempt => state'[k] = "absent"

LEMMA Standing == Attempts \subseteq Nat /\ MaxAttempts \in Nat /\ NumParts \in Nat /\ 1 \in Parts
  BY OlmAdmissionAssumption DEF Attempts, Parts

LEMMA IdleServer ==
  ASSUME IInv, UNCHANGED server
  PROVE  ServerStep
  BY DEF IInv, TypeOK, Numbering, Outcomes, server, ServerStep

LEMMA SavedReceipt ==
  ASSUME IInv, NEW S \in SUBSET Attempts, NEW r \in Dead,
         \A n \in S : state[n] = "staging",
         saveReceipt(S, r), UNCHANGED messages
  PROVE  ServerStep
  <1> USE Standing DEF IInv, TypeOK, Numbering, Outcomes
  <1>1. \A k \in Attempts : state'[k] = IF k \in S THEN r ELSE state[k]
    BY Zenon DEF saveReceipt
  <1>2. \A k \in Attempts : k \in S => k <= nextAttempt /\ state[k] \notin Terminal
    BY DEF Terminal, Dead
  <1>3. state' \in [Attempts -> Terminal \cup {"absent", "staging"}] /\ parts' \in [Attempts -> SUBSET Parts]
    BY Zenon DEF saveReceipt, Terminal
  <1>4. \A k \in Attempts : k > retiredThrough => (k \in messages <=> state'[k] = "accepted")
    BY <1>1, Zenon DEF Dead
  <1>5. \A k \in Attempts : k > nextAttempt => state'[k] = "absent"
    BY <1>1, Zenon
  <1>6. \A k \in Attempts : state[k] \in Terminal => state'[k] = state[k]
    BY <1>1, <1>2, Zenon
  <1> QED  BY <1>3, <1>4, <1>6 DEF saveReceipt, ServerStep

LEMMA InsertedAttempt ==
  ASSUME IInv, NEW n \in Attempts, n <= nextAttempt, StatusAnswer(n) = "absent",
         NEW r \in {"staging", "aborted"}, insertAttempt(n, r)
  PROVE  ServerStep
  <1> USE Standing DEF IInv, TypeOK, Numbering, Outcomes
  <1>1. n > retiredThrough /\ state[n] = "absent"
    BY DEF StatusAnswer, retired
  <1>2. \A k \in Attempts : state'[k] = IF k = n THEN r ELSE IF k \in overdue THEN "rejected" ELSE state[k]
    BY Zenon DEF insertAttempt
  <1>3. \A k \in overdue : k <= nextAttempt /\ state[k] = "staging"
    BY DEF overdue
  <1>4. state' \in [Attempts -> Terminal \cup {"absent", "staging"}] /\ parts' \in [Attempts -> SUBSET Parts]
    BY Zenon DEF insertAttempt, Terminal, Dead
  <1>5. \A k \in Attempts : k > retiredThrough => (k \in messages <=> state'[k] = "accepted")
    BY <1>1, <1>2, <1>3
  <1>6. \A k \in Attempts : k > nextAttempt => state'[k] = "absent"
    <2> TAKE k \in Attempts
    <2> HAVE k > nextAttempt
    <2>1. k # n
      OBVIOUS
    <2>2. k \notin overdue
      BY Zenon DEF overdue
    <2> QED  BY <1>2, <2>2
  <1>7. \A k \in Attempts : state[k] \in Terminal => state'[k] = state[k]
    BY <1>1, <1>2, <1>3, Zenon DEF Terminal, Dead
  <1> QED  BY <1>4, <1>6, <1>7 DEF insertAttempt, ServerStep

LEMMA FenceAdvanced ==
  ASSUME IInv, NEW ack \in SUBSET Attempts, \A k \in ack : receipt[k] # "none", advanceFence(ack)
  PROVE  ServerStep
  <1> USE Standing DEF IInv, TypeOK, Numbering, Outcomes
  <1>1. PICK t \in retiredThrough..MaxAttempts :
          /\ \A k \in (retiredThrough + 1)..t : foldable(ack, k)
          /\ retiredThrough' = t
          /\ acked' = {k \in ack : k > t}
          /\ state' = [k \in Attempts |-> IF k \in ack /\ k <= t THEN "absent" ELSE state[k]]
          /\ UNCHANGED <<parts, messages>>
    BY Zenon DEF advanceFence
  <1>2. t \in 0..MaxAttempts /\ retiredThrough <= t
    OBVIOUS
  <1>3. \A k \in Attempts : retiredThrough < k /\ k <= t => k \in ack
    <2> TAKE k \in Attempts
    <2> HAVE retiredThrough < k /\ k <= t
    <2>1. k \in (retiredThrough + 1)..t
      OBVIOUS
    <2> QED  BY <2>1, <1>1, Zenon DEF foldable
  <1>4. \A k \in Attempts : k <= t => receipt[k] # "none"
    BY <1>3
  <1>5. t <= nextAttempt
    <2> SUFFICES ASSUME t > nextAttempt PROVE FALSE
      OBVIOUS
    <2>1. t \in Attempts
      BY DEF Attempts
    <2> QED  BY <2>1, <1>4
  <1>6. \A k \in Attempts : state'[k] = IF k \in ack /\ k <= t THEN "absent" ELSE state[k]
    BY <1>1, Zenon
  <1>7. state' \in [Attempts -> Terminal \cup {"absent", "staging"}]
    BY <1>1, Zenon
  <1>8. \A k \in Attempts : k > t => state'[k] = state[k]
    BY <1>6
  <1>9. \A k \in Attempts : k > t => (k \in messages <=> state'[k] = "accepted")
    BY <1>8
  <1>10. \A k \in Attempts : k > nextAttempt => state'[k] = "absent"
    BY <1>6, Zenon
  <1> QED  BY <1>1, <1>2, <1>4, <1>5, <1>8, <1>9, Zenon DEF ServerStep

LEMMA Admitted ==
  ASSUME IInv, NEW n \in Attempts, StatusAnswer(n) = "staging",
         saveReceipt({n}, "accepted"), messages' = messages \cup {n}
  PROVE  ServerStep
  <1> USE Standing DEF IInv, TypeOK, Numbering, Outcomes
  <1>1. n > retiredThrough /\ state[n] = "staging" /\ n <= nextAttempt
    BY DEF StatusAnswer, retired
  <1>2. \A k \in Attempts : state'[k] = IF k = n THEN "accepted" ELSE state[k]
    BY Zenon DEF saveReceipt
  <1>3. state' \in [Attempts -> Terminal \cup {"absent", "staging"}] /\ parts' \in [Attempts -> SUBSET Parts]
    BY Zenon DEF saveReceipt, Terminal
  <1>4. \A k \in Attempts : k > retiredThrough => (k \in messages' <=> state'[k] = "accepted")
    <2> TAKE k \in Attempts
    <2> HAVE k > retiredThrough
    <2>1. CASE k = n
      BY <1>2, Zenon
    <2>2. CASE k # n
      BY <1>2, Zenon
    <2> QED  BY <2>1, <2>2, Zenon
  <1>5. \A k \in Attempts : k > nextAttempt => state'[k] = "absent"
    BY <1>1, <1>2
  <1>6. \A k \in Attempts : state[k] \in Terminal => state'[k] = state[k]
    BY <1>1, <1>2, Zenon DEF Terminal, Dead
  <1>7. \A k \in Attempts : k <= retiredThrough => (k \in messages' <=> k \in messages)
    BY <1>1
  <1> QED  BY <1>3, <1>5, <1>6, <1>7 DEF saveReceipt, ServerStep

(***************************************************************************)
(* Every request the server executes for a sealed attempt, late or not.    *)
(***************************************************************************)
LEMMA ServeIsServerStep ==
  ASSUME IInv, NEW req \in Requests, NEW n \in Attempts, NEW p \in Parts, n <= nextAttempt,
         req = "retire" => receipt[n] # "none",
         Serve(req, n, p)
  PROVE  ServerStep
  <1>a. StatusAnswer(n) = "staging" => state[n] = "staging"
    BY Zenon DEF StatusAnswer
  <1>1. CASE req = "status"
    BY <1>1, IdleServer, Zenon DEF Serve
  <1>2. CASE req = "begin" /\ BeginOlmAttempt(n)
    BY <1>2, IdleServer, InsertedAttempt, Zenon DEF BeginOlmAttempt
  <1>3. CASE req = "put" /\ PutOlmPart(n, p)
    <2>1. CASE StatusAnswer(n) # "staging"
      BY <1>3, <2>1, IdleServer, Zenon DEF PutOlmPart
    <2>2. CASE StatusAnswer(n) = "staging" /\ deadline[n] <= now
      BY <1>a, <1>3, <2>2, SavedReceipt DEF PutOlmPart, Dead
    <2>3. CASE StatusAnswer(n) = "staging" /\ ~(deadline[n] <= now)
      <3>1. /\ parts' = [parts EXCEPT ![n] = @ \cup {p}]
            /\ UNCHANGED <<state, acked, retiredThrough, messages>>
        BY <1>3, <2>3, Zenon DEF PutOlmPart
      <3>2. parts' \in [Attempts -> SUBSET Parts]
        BY <3>1, Zenon DEF IInv, TypeOK
      <3> QED  BY <3>1 DEF IInv, TypeOK, Numbering, Outcomes, ServerStep
    <2> QED  BY <2>1, <2>2, <2>3, Zenon
  <1>4. CASE req = "finalize" /\ finalizeOlmAttempt(n)
    <2>1. CASE StatusAnswer(n) # "staging" \/ FinalizeAnswer(n) = "error"
      BY <1>4, <2>1, IdleServer, Zenon DEF finalizeOlmAttempt
    <2>2. CASE StatusAnswer(n) = "staging" /\ FinalizeAnswer(n) # "error"
      <3>1. /\ saveReceipt({n}, FinalizeAnswer(n))
            /\ messages' = IF FinalizeAnswer(n) = "accepted" THEN messages \cup {n} ELSE messages
        BY <1>4, <2>2, Zenon DEF finalizeOlmAttempt
      <3>2. FinalizeAnswer(n) \in {"rejected", "accepted"}
        BY <2>2, Standing DEF FinalizeAnswer, IInv, TypeOK
      <3>3. CASE FinalizeAnswer(n) = "accepted"
        BY <2>2, <3>1, <3>3, Admitted, Zenon
      <3>4. CASE FinalizeAnswer(n) = "rejected"
        BY <1>a, <2>2, <3>1, <3>4, SavedReceipt DEF Dead
      <3> QED  BY <3>2, <3>3, <3>4, Zenon
    <2> QED  BY <2>1, <2>2, Zenon
  <1>5. CASE req = "abort" /\ AbortOlmAttempt(n)
    BY <1>a, <1>5, InsertedAttempt, SavedReceipt, IdleServer DEF AbortOlmAttempt, Dead
  <1>6. CASE req = "retire" /\ RetireOlmReceipt(n)
    <2>1. CASE RetireAnswer(n) = "error"
      BY <1>6, <2>1, IdleServer, Zenon DEF RetireOlmReceipt
    <2>2. CASE RetireAnswer(n) # "error"
      <3> DEFINE ack == IF retired(n) THEN acked ELSE acked \cup {n}
      <3>1. advanceFence(ack)
        BY <1>6, <2>2, Zenon DEF RetireOlmReceipt
      <3>2. ack \in SUBSET Attempts /\ \A k \in ack : receipt[k] # "none"
        BY <1>6, Zenon DEF IInv, TypeOK, Outcomes
      <3> HIDE DEF ack
      <3> QED  BY <3>1, <3>2, FenceAdvanced, Zenon
    <2> QED  BY <2>1, <2>2, Zenon
  <1> QED  BY <1>1, <1>2, <1>3, <1>4, <1>5, <1>6, Zenon DEF Serve

(***************************************************************************)
(* A terminal answer is the outcome the same transaction leaves behind.    *)
(***************************************************************************)
LEMMA AnswerIsHeld ==
  ASSUME IInv, NEW req \in Requests, NEW n \in Attempts, NEW p \in Parts, n <= nextAttempt,
         req = "retire" => receipt[n] # "none",
         Serve(req, n, p), UNCHANGED <<nextAttempt, receipt>>,
         NEW r \in Terminal, r = Answer(req, n)
  PROVE  Held(n, r)'
  <1>s. ServerStep
    BY ServeIsServerStep, Zenon
  <1>n. nextAttempt' = nextAttempt /\ receipt' = receipt /\ nextAttempt \in Nat /\ retiredThrough \in Nat /\ retiredThrough' \in Nat /\ n \in Nat
    BY <1>s, Standing DEF IInv, TypeOK, ServerStep
  <1>1. ASSUME retiredThrough < n, state'[n] = r, retiredThrough' = retiredThrough
        PROVE  Held(n, r)'
    BY <1>1, <1>n DEF Held
  <1>2. ASSUME StatusAnswer(n) = r
        PROVE  Held(n, r)'
    <2>1. retiredThrough < n /\ state[n] = r
      BY <1>2, <1>n DEF StatusAnswer, retired, Terminal, Dead
    <2>2. n > retiredThrough' => state'[n] = state[n]
      BY <2>1, <1>s, Zenon DEF ServerStep
    <2>3. receipt[n] # "none" => receipt[n] = state[n]
      BY <2>1, Zenon DEF IInv, Outcomes
    <2>4. n <= retiredThrough' => receipt[n] # "none"
      BY <1>s, Zenon DEF ServerStep
    <2> QED  BY <2>1, <2>2, <2>3, <2>4, Zenon DEF Held
  <1>3. CASE req = "status"
    BY <1>2, <1>3, Zenon DEF Answer
  <1>4. CASE req = "begin"
    BY <1>2, <1>4, Zenon DEF Answer, BeginAnswer, Terminal, Dead
  <1>5. CASE req = "put"
    BY <1>5, Zenon DEF Answer, PutAnswer, Terminal, Dead
  <1>6. CASE req = "finalize"
    <2>1. r = FinalizeAnswer(n) /\ finalizeOlmAttempt(n)
      BY <1>6, Zenon DEF Answer, Serve
    <2>2. CASE StatusAnswer(n) \notin {"absent", "staging"}
      BY <2>1, <2>2, <1>2, Zenon DEF FinalizeAnswer
    <2>3. CASE StatusAnswer(n) = "absent"
      BY <2>1, <2>3, Zenon DEF FinalizeAnswer, Terminal, Dead
    <2>4. CASE StatusAnswer(n) = "staging"
      BY <1>n, <1>1, <2>1, <2>4 DEF Terminal, Dead, finalizeOlmAttempt, saveReceipt, StatusAnswer,
         retired
    <2> QED  BY <2>2, <2>3, <2>4, Zenon
  <1>7. CASE req = "abort"
    <2>1. r = AbortAnswer(n) /\ AbortOlmAttempt(n)
      BY <1>7, Zenon DEF Answer, Serve
    <2>2. CASE StatusAnswer(n) \notin {"absent", "staging"}
      BY <2>1, <2>2, <1>2, Zenon DEF AbortAnswer
    <2>3. CASE StatusAnswer(n) \in {"absent", "staging"}
      BY <1>n, <1>1, <2>1, <2>3 DEF AbortOlmAttempt, insertAttempt, saveReceipt, StatusAnswer, retired,
         AbortAnswer
    <2> QED  BY <2>2, <2>3, Zenon
  <1>8. CASE req = "retire"
    BY <1>8, Zenon DEF Answer, RetireAnswer, Terminal, Dead
  <1> QED  BY <1>3, <1>4, <1>5, <1>6, <1>7, <1>8, Zenon DEF Requests

-----------------------------------------------------------------------------
(***************************************************************************)
(* The server's steps preserve what the device relies on.                  *)
(***************************************************************************)
LEMMA OutcomesKept ==
  ASSUME IInv, ServerStep, UNCHANGED device
  PROVE  /\ Numbering' /\ Records' /\ Outcomes'
         /\ \A n, r : r \in Terminal /\ Held(n, r) => Held(n, r)'
  <1> USE Standing DEF IInv
  <1>0. /\ nextAttempt' = nextAttempt /\ logicalOf' = logicalOf /\ receipt' = receipt
        /\ lastAttempt' = lastAttempt /\ logical' = logical
        /\ nextAttempt \in Nat /\ retiredThrough \in Nat /\ retiredThrough' \in Nat
    BY DEF device, TypeOK, ServerStep
  <1>1. Numbering'
    BY <1>0, Zenon DEF Numbering, ServerStep
  <1>2. Records'
    BY <1>0, Zenon DEF Records
  <1>3. \A n \in Attempts : retiredThrough < n /\ receipt[n] # "none" =>
          state[n] = receipt[n] /\ state[n] \in Terminal
    BY Zenon DEF Outcomes, TypeOK
  <1>4. \A n, r : r \in Terminal /\ Held(n, r) => Held(n, r)'
    BY <1>0, <1>3 DEF Held, ServerStep
  <1>5. Outcomes'
    <2>1. \A n \in Attempts : n > retiredThrough' /\ receipt[n] # "none" => state'[n] = receipt[n]
      <3> TAKE n \in Attempts
      <3> HAVE n > retiredThrough' /\ receipt[n] # "none"
      <3>1. retiredThrough < n
        BY <1>0 DEF ServerStep
      <3> QED  BY <1>3, <3>1, Zenon DEF ServerStep
    <2>2. \A n \in Attempts : n <= retiredThrough' => (n \in messages' <=> receipt[n] = "accepted")
      <3> TAKE n \in Attempts
      <3> HAVE n <= retiredThrough'
      <3>1. receipt[n] # "none" /\ (n \in messages' <=> n \in messages)
        BY Zenon DEF ServerStep
      <3>2. n \in messages <=> receipt[n] = "accepted"
        BY <3>1, <1>0 DEF Outcomes
      <3> QED  BY <3>1, <3>2, Zenon
    <2> QED  BY <1>0, <2>1 DEF Outcomes, ServerStep
  <1> QED  BY <1>1, <1>2, <1>4, <1>5, Zenon

LEMMA HandleStep ==
  ASSUME IInv, NEW c \in Consumers, Handle(c)
  PROVE  IInv' /\ ServerStep
  <1> USE Standing
  <1>1. current[c] \in Attempts /\ current[c] <= nextAttempt /\ part[c] \in Parts /\ pc[c] \in Requests
    BY Zenon DEF Handle, IInv, TypeOK, InFlight, Requests
  <1>2. pc[c] = "retire" => receipt[current[c]] # "none"
    BY Zenon DEF IInv, InFlight
  <1>3. /\ Serve(pc[c], current[c], part[c])
        /\ UNCHANGED <<device, pc, current, part, result, skewed, late, staleThrough, clocks>>
        /\ answer' = [answer EXCEPT ![c] = Answer(pc[c], current[c])]
    BY Zenon DEF Handle
  <1>4. ServerStep
    BY <1>1, <1>2, <1>3, ServeIsServerStep, Zenon
  <1>5. /\ Numbering' /\ Records' /\ Outcomes'
        /\ \A n, r : r \in Terminal /\ Held(n, r) => Held(n, r)'
    BY <1>3, <1>4, OutcomesKept, Zenon
  <1>6. Answer(pc[c], current[c]) \in Answers
    BY <1>1 DEF Answer, StatusAnswer, BeginAnswer, PutAnswer, FinalizeAnswer, AbortAnswer, RetireAnswer,
       Requests, Answers, Terminal, Dead, IInv, TypeOK
  <1>7. TypeOK'
    BY <1>3, <1>4, <1>6, Zenon DEF IInv, TypeOK, ServerStep, device, clocks
  <1>8. /\ nextAttempt' = nextAttempt /\ receipt' = receipt /\ pc' = pc /\ current' = current
        /\ result' = result /\ late' = late
    BY <1>3, Zenon DEF device
  <1>9. \A d \in Consumers : answer'[d] \in Terminal => pc'[d] # "idle" /\ Held(current[d], answer[d])'
    <2> SUFFICES ASSUME NEW d \in Consumers, NEW r \in Terminal, answer'[d] = r
                 PROVE  pc[d] # "idle" /\ Held(current[d], r)'
      BY <1>8, Zenon
    <2>1. CASE d = c
      <3>1. r = Answer(pc[c], current[c])
        BY <1>3, <2>1, Zenon DEF IInv, TypeOK
      <3>2. \A req \in Requests, n \in Attempts, p \in Parts :
               /\ n <= nextAttempt /\ (req = "retire" => receipt[n] # "none")
               /\ Serve(req, n, p) /\ r = Answer(req, n)
               => Held(n, r)'
        BY <1>8, AnswerIsHeld, Zenon
      <3> QED  BY <1>1, <1>2, <1>3, <2>1, <3>1, <3>2, Zenon DEF Requests
    <2>2. CASE d # c
      <3>1. answer[d] = r
        BY <1>3, <2>2
      <3>2. pc[d] # "idle" /\ Held(current[d], r)
        BY <3>1, Zenon DEF IInv, InFlight
      <3> QED  BY <3>2, <1>5, <1>8, Zenon
    <2> QED  BY <2>1, <2>2, Zenon
  <1>10. \A d \in Consumers : pc'[d] = "apply" => result'[d] \in Terminal /\ Held(current[d], result[d])'
    BY <1>5, <1>8, Zenon DEF IInv, InFlight
  <1>11. InFlight'
    BY <1>8, <1>9, <1>10, Zenon DEF IInv, InFlight
  <1> QED  BY <1>4, <1>5, <1>7, <1>11, Zenon DEF IInv

LEMMA QuietServerStep ==
  ASSUME IInv, ServerStep, UNCHANGED <<device, consumer, staleThrough, clocks>>, late' \subseteq late
  PROVE  IInv'
  <1> USE Standing
  <1>1. /\ Numbering' /\ Records' /\ Outcomes'
        /\ \A n, r : r \in Terminal /\ Held(n, r) => Held(n, r)'
    BY OutcomesKept, Zenon
  <1>2. /\ nextAttempt' = nextAttempt /\ receipt' = receipt /\ pc' = pc /\ current' = current
        /\ result' = result /\ answer' = answer
    BY Zenon DEF device, consumer
  <1>3. TypeOK'
    BY Zenon DEF IInv, TypeOK, ServerStep, device, consumer, clocks
  <1>4. \A d \in Consumers : answer[d] \in Terminal => pc[d] # "idle" /\ Held(current[d], answer[d])'
    BY <1>1, <1>2, Zenon DEF IInv, InFlight
  <1>5. \A d \in Consumers : pc[d] = "apply" => result[d] \in Terminal /\ Held(current[d], result[d])'
    BY <1>1, <1>2, Zenon DEF IInv, InFlight
  <1>6. InFlight'
    BY <1>2, <1>4, <1>5, Zenon DEF IInv, InFlight
  <1> QED  BY <1>1, <1>3, <1>6, Zenon DEF IInv

LEMMA HandleLateStep ==
  ASSUME IInv, HandleLate
  PROVE  IInv' /\ ServerStep
  <1>1. PICK r \in late : Serve(r[1], r[2], r[3]) /\ late' = late \ {r}
    BY Zenon DEF HandleLate
  <1>2. r[1] \in Requests /\ r[2] \in Attempts /\ r[3] \in Parts
    BY DEF IInv, TypeOK
  <1>3. r[2] <= nextAttempt /\ (r[1] = "retire" => receipt[r[2]] # "none")
    BY Zenon DEF IInv, InFlight
  <1>4. ServerStep
    BY <1>1, <1>2, <1>3, ServeIsServerStep, Zenon
  <1> QED  BY <1>4, QuietServerStep, Zenon DEF HandleLate

LEMMA ExpireStep ==
  ASSUME IInv, ExpireOlmAttempts
  PROVE  IInv' /\ ServerStep
  <1>1. overdue \in SUBSET Attempts /\ \A n \in overdue : state[n] = "staging"
    BY Zenon DEF overdue
  <1>2. saveReceipt(overdue, "rejected") /\ UNCHANGED messages
    BY Zenon DEF ExpireOlmAttempts
  <1>3. ServerStep
    BY <1>1, <1>2, SavedReceipt, Zenon DEF Dead
  <1> QED  BY <1>3, QuietServerStep, Zenon DEF ExpireOlmAttempts

LEMMA StoreReceiptStep ==
  ASSUME IInv, NEW c \in Consumers, StoreReceipt(c)
  PROVE  IInv'
  <1> USE Standing
  <1> DEFINE n == current[c]
             l == logicalOf[current[c]]
             r == result[c]
  <1>1. n \in Attempts /\ n <= nextAttempt /\ r \in Terminal /\ Held(n, r)
    BY Zenon DEF StoreReceipt, IInv, InFlight
  <1>2. l \in Logicals /\ lastAttempt[l] = n /\ receipt[n] = "none" /\ n # 0
    BY <1>1 DEF StoreReceipt, IInv, Numbering, Attempts
  <1>3. /\ \A k \in Attempts : receipt'[k] = IF k = n THEN r ELSE receipt[k]
        /\ \A k \in Logicals : logical'[k] = IF k = l THEN r ELSE logical[k]
        /\ receipt' \in [Attempts -> Terminal \cup {"none"}]
        /\ logical' \in [Logicals -> Terminal \cup {"none", "pending"}]
    BY Zenon DEF StoreReceipt, IInv, TypeOK
  <1>4. retiredThrough < n /\ state[n] = r
    BY <1>1, <1>2 DEF Held, IInv, TypeOK, Outcomes
  <1>5. /\ pc' = [pc EXCEPT ![c] = "retire"] /\ answer' = [answer EXCEPT ![c] = "none"]
        /\ nextAttempt' = nextAttempt /\ logicalOf' = logicalOf /\ lastAttempt' = lastAttempt
        /\ current' = current /\ result' = result /\ late' = late /\ noted' = noted
        /\ deadline' = deadline /\ part' = part /\ skewed' = skewed
        /\ UNCHANGED <<state, parts, acked, retiredThrough, messages, staleThrough, clientNow, now>>
    BY Zenon DEF StoreReceipt, Goto, server, clocks
  <1>6. TypeOK'
    BY <1>3, <1>5, Zenon DEF IInv, TypeOK, Requests, Answers
  <1>7. Numbering'
    <2>1. \A k \in Attempts : k > nextAttempt => receipt'[k] = "none"
      <3> TAKE k \in Attempts
      <3> HAVE k > nextAttempt
      <3>1. k # n
        BY <1>1 DEF IInv, TypeOK
      <3> QED  BY <1>3, <3>1, Zenon DEF IInv, Numbering
    <2> QED  BY <1>5, <2>1, Zenon DEF IInv, Numbering
  <1>8. Records'
    <2>1. \A k \in Logicals : lastAttempt[k] = 0 => logical'[k] = "none"
      BY <1>2, <1>3, Zenon DEF IInv, Records
    <2>2. \A k \in Logicals : lastAttempt[k] # 0 =>
            \/ logical'[k] = "pending" /\ receipt'[lastAttempt[k]] = "none"
            \/ logical'[k] \in Terminal /\ receipt'[lastAttempt[k]] = logical'[k]
      <3> TAKE k \in Logicals
      <3> HAVE lastAttempt[k] # 0
      <3>1. lastAttempt[k] \in Attempts /\ logicalOf[lastAttempt[k]] = k
        BY DEF IInv, TypeOK, Numbering, Attempts
      <3>2. CASE k = l
        BY <1>1, <1>2, <1>3, <3>2, Zenon
      <3>3. CASE k # l
        BY <1>3, <3>1, <3>3, Zenon DEF IInv, Records
      <3> QED  BY <3>2, <3>3, Zenon
    <2>3. \A k \in Attempts : k <= nextAttempt /\ k # lastAttempt[logicalOf[k]] => receipt'[k] \in Dead
      <3> TAKE k \in Attempts
      <3> HAVE k <= nextAttempt /\ k # lastAttempt[logicalOf[k]]
      <3>1. k # n
        BY <1>2, Zenon
      <3>2. receipt[k] \in Dead
        BY Zenon DEF IInv, Records
      <3> QED  BY <1>3, <3>1, <3>2, Zenon
    <2> QED  BY <1>5, <2>1, <2>2, <2>3, Zenon DEF Records
  <1>9. Outcomes'
    <2>1. \A k \in Attempts : k <= retiredThrough => receipt'[k] = receipt[k]
      <3> TAKE k \in Attempts
      <3> HAVE k <= retiredThrough
      <3>1. k # n
        BY <1>1, <1>4 DEF IInv, TypeOK
      <3> QED  BY <1>3, <3>1, Zenon
    <2>2. \A k \in Attempts : receipt[k] # "none" => receipt'[k] # "none"
      BY <1>2, <1>3, Zenon
    <2>3. \A k \in Attempts : k > retiredThrough /\ receipt'[k] # "none" => state[k] = receipt'[k]
      BY <1>3, <1>4, Zenon DEF IInv, Outcomes
    <2> QED  BY <1>5, <2>1, <2>2, <2>3, Zenon DEF IInv, TypeOK, Outcomes
  <1>10. \A k \in Attempts, x \in Terminal : Held(k, x) => Held(k, x)'
    <2> TAKE k \in Attempts, x \in Terminal
    <2> HAVE Held(k, x)
    <2>1. k <= retiredThrough => receipt'[k] = receipt[k]
      BY <1>3, <1>4 DEF IInv, TypeOK
    <2> QED  BY <1>5, <2>1, Zenon DEF Held
  <1>11. \A k \in Attempts : receipt[k] # "none" => receipt'[k] # "none"
    BY <1>2, <1>3, Zenon
  <1>12. /\ pc'[c] = "retire" /\ answer'[c] = "none"
         /\ \A d \in Consumers \ {c} : pc'[d] = pc[d] /\ answer'[d] = answer[d]
    BY <1>5, Zenon DEF IInv, TypeOK
  <1>13. InFlight'
    <2>1. \A d \in Consumers : pc'[d] # "idle" => current[d] \in Attempts /\ current[d] <= nextAttempt
      BY <1>1, <1>12, Zenon DEF IInv, InFlight
    <2>2. \A d \in Consumers : answer'[d] \in Terminal => pc'[d] # "idle" /\ Held(current[d], answer[d])'
      <3> TAKE d \in Consumers
      <3> HAVE answer'[d] \in Terminal
      <3>1. d # c
        BY <1>12, Zenon DEF Terminal, Dead
      <3>2. pc[d] # "idle" /\ answer'[d] = answer[d] /\ answer[d] \in Terminal /\ Held(current[d], answer[d])
        BY <1>12, <3>1, Zenon DEF IInv, InFlight
      <3>3. \A k, x : k = current[d] /\ x = answer[d] => Held(k, x)'
        BY <3>2, <1>10, Zenon DEF Held
      <3> QED  BY <1>5, <1>12, <3>2, <3>3, Zenon
    <2>3. \A d \in Consumers : pc'[d] = "apply" => result[d] \in Terminal /\ Held(current[d], result[d])'
      <3> TAKE d \in Consumers
      <3> HAVE pc'[d] = "apply"
      <3>1. pc[d] = "apply"
        BY <1>12, Zenon
      <3>2. result[d] \in Terminal /\ Held(current[d], result[d])
        BY <3>1, Zenon DEF IInv, InFlight
      <3>3. \A k, x : k = current[d] /\ x = result[d] => Held(k, x)'
        BY <3>2, <1>10, Zenon DEF Held
      <3> QED  BY <1>5, <3>2, <3>3, Zenon
    <2>4. \A d \in Consumers : pc'[d] = "retire" => receipt'[current[d]] # "none"
      <3> TAKE d \in Consumers
      <3> HAVE pc'[d] = "retire"
      <3>1. CASE d = c
        BY <1>1, <1>3, <3>1, Zenon DEF Terminal, Dead
      <3>2. CASE d # c
        BY <1>11, <1>12, <3>2, Zenon DEF IInv, InFlight
      <3> QED  BY <3>1, <3>2, Zenon
    <2>5. \A x \in late : x[1] = "retire" => receipt'[x[2]] # "none"
      BY <1>11, Zenon DEF IInv, InFlight, TypeOK
    <2> QED  BY <1>5, <2>1, <2>2, <2>3, <2>4, <2>5, Zenon DEF IInv, InFlight
  <1> QED  BY <1>6, <1>7, <1>8, <1>9, <1>13, Zenon DEF IInv

LEMMA OnRetireStep ==
  ASSUME IInv, NEW c \in Consumers, OnRetire(c)
  PROVE  IInv'
  <1> USE Standing
  <1>1. /\ Return(c)
        /\ UNCHANGED <<nextAttempt, logicalOf, deadline, receipt, lastAttempt, logical, skewed, late,
                       server, staleThrough, clocks>>
    BY Zenon DEF OnRetire
  <1>2. noted' \subseteq Attempts
    BY Zenon DEF OnRetire, IInv, TypeOK, InFlight
  <1>3. pc'[c] = "idle" /\ answer'[c] = "none" /\ \A d \in Consumers \ {c} :
          /\ pc'[d] = pc[d] /\ answer'[d] = answer[d] /\ current'[d] = current[d] /\ result'[d] = result[d]
    BY <1>1, Zenon DEF Return, Goto, IInv, TypeOK
  <1>4. TypeOK'
    BY <1>1, <1>2 DEF Return, Goto, IInv, TypeOK, Answers, server, clocks
  <1>5. Numbering' /\ Records' /\ Outcomes'
    BY <1>1, Zenon DEF IInv, Numbering, Records, Outcomes, server
  <1>6. \A d \in Consumers : answer'[d] \in Terminal => pc'[d] # "idle" /\ Held(current[d], answer[d])'
    BY <1>1, <1>3 DEF IInv, InFlight, Held, Terminal, Dead, server
  <1>7. \A d \in Consumers : pc'[d] = "apply" => result'[d] \in Terminal /\ Held(current[d], result[d])'
    BY <1>1, <1>3 DEF IInv, InFlight, Held, server
  <1>8. InFlight'
    BY <1>1, <1>3, <1>6, <1>7 DEF IInv, InFlight
  <1> QED  BY <1>4, <1>5, <1>8, Zenon DEF IInv

LEMMA SealStep ==
  ASSUME IInv, NEW c \in Consumers, NEW l \in Logicals, Seal(c, l)
  PROVE  IInv'
  <1> USE Standing
  <1> DEFINE n == nextAttempt + 1
  <1>1. n \in Attempts /\ n \in Nat /\ nextAttempt \in Nat /\ nextAttempt' = n
    BY DEF Seal, IInv, TypeOK, Attempts
  <1>2. /\ \A k \in Attempts : logicalOf'[k] = IF k = n THEN l ELSE logicalOf[k]
        /\ \A x \in Logicals : lastAttempt'[x] = IF x = l THEN n ELSE lastAttempt[x]
        /\ \A x \in Logicals : logical'[x] = IF x = l THEN "pending" ELSE logical[x]
        /\ \A d \in Consumers : current'[d] = IF d = c THEN n ELSE current[d]
        /\ \A d \in Consumers : pc'[d] = IF d = c THEN "status" ELSE pc[d]
        /\ \A d \in Consumers : answer'[d] = IF d = c THEN "none" ELSE answer[d]
    BY Zenon DEF Seal, Goto, IInv, TypeOK
  <1>3. UNCHANGED <<receipt, noted, part, result, skewed, late, server, staleThrough, clocks>>
        /\ UNCHANGED <<state, parts, acked, retiredThrough, messages>>
    BY Zenon DEF Seal, server
  <1>4. TypeOK'
    <2>1. deadline' \in [Attempts -> Nat]
      BY <1>1, OlmAdmissionAssumption DEF Seal, IInv, TypeOK
    <2>2. nextAttempt' \in 0..MaxAttempts /\ logicalOf' \in [Attempts -> Logicals \cup {NoReference}]
      BY <1>1 DEF Seal, IInv, TypeOK, Attempts
    <2>3. lastAttempt' \in [Logicals -> 0..MaxAttempts] /\ logical' \in [Logicals -> Terminal \cup {"none", "pending"}]
      BY <1>1 DEF Seal, IInv, TypeOK
    <2>4. /\ pc' \in [Consumers -> Requests \cup {"idle", "apply"}] /\ current' \in [Consumers -> 0..MaxAttempts]
          /\ answer' \in [Consumers -> Answers]
      BY <1>1 DEF Seal, Goto, IInv, TypeOK, Requests, Answers
    <2> QED  BY <1>3, <2>1, <2>2, <2>3, <2>4, Zenon DEF IInv, TypeOK, clocks
  <1>5. receipt[n] = "none" /\ state[n] = "absent"
    BY <1>1 DEF IInv, Numbering
  <1>5a. \A k \in Attempts : k <= nextAttempt => k <= n
    <2> TAKE k \in Attempts
    <2>1. k \in Nat
      BY Zenon
    <2> QED  BY <1>1
  <1>6. \A k \in Attempts : k <= n => k = n \/ k <= nextAttempt
    <2> TAKE k \in Attempts
    <2>1. k \in Nat
      BY Zenon
    <2> QED  BY <1>1
  <1>7. \A x \in Logicals : x # l => lastAttempt'[x] = lastAttempt[x] /\ lastAttempt[x] # n
    BY <1>1, <1>2 DEF IInv, Numbering
  <1>8. \A k \in Attempts : k <= nextAttempt => logicalOf'[k] = logicalOf[k] /\ k # n
    <2> TAKE k \in Attempts
    <2> HAVE k <= nextAttempt
    <2>1. k # n
      BY <1>1
    <2> QED  BY <1>2, <2>1, Zenon
  <1>9. Numbering'
    <2>1. retiredThrough <= n
      BY <1>1 DEF IInv, Numbering, TypeOK
    <2>2. \A k \in Attempts : k > n => state[k] = "absent" /\ receipt[k] = "none"
      <3> TAKE k \in Attempts
      <3> HAVE k > n
      <3>1. k > nextAttempt
        BY <1>1
      <3> QED  BY <3>1, Zenon DEF IInv, Numbering
    <2>3. \A k \in Attempts : k <= n => logicalOf'[k] \in Logicals /\ k <= lastAttempt'[logicalOf'[k]]
      <3> TAKE k \in Attempts
      <3> HAVE k <= n
      <3>1. CASE k = n
        BY <1>2, <3>1, Zenon
      <3>2. CASE k <= nextAttempt
        BY <1>1, <1>2, <1>8 DEF IInv, Numbering
      <3> QED  BY <1>6, <3>1, <3>2, Zenon
    <2>4. \A x \in Logicals : lastAttempt'[x] <= n
      BY <1>1, <1>2 DEF IInv, Numbering, TypeOK
    <2>5. \A x \in Logicals : lastAttempt'[x] # 0 => logicalOf'[lastAttempt'[x]] = x
      <3> TAKE x \in Logicals
      <3> HAVE lastAttempt'[x] # 0
      <3>1. CASE x = l
        BY <1>1, <1>2, <3>1, Zenon
      <3>2. CASE x # l
        <4>1. lastAttempt'[x] = lastAttempt[x] /\ lastAttempt[x] \in Attempts /\ lastAttempt[x] <= nextAttempt
          BY <1>7, <3>2 DEF IInv, Numbering, TypeOK, Attempts
        <4>2. logicalOf[lastAttempt[x]] = x
          BY <4>1, Zenon DEF IInv, Numbering
        <4> QED  BY <1>8, <4>1, <4>2, Zenon
      <3> QED  BY <3>1, <3>2, Zenon
    <2> QED  BY <1>1, <1>3, <2>1, <2>2, <2>3, <2>4, <2>5, Zenon DEF Numbering
  <1>10. Records'
    <2>1. \A x \in Logicals : lastAttempt'[x] = 0 => logical'[x] = "none"
      BY <1>1, <1>2 DEF IInv, Records
    <2>2. \A x \in Logicals : lastAttempt'[x] # 0 =>
            \/ logical'[x] = "pending" /\ receipt[lastAttempt'[x]] = "none"
            \/ logical'[x] \in Terminal /\ receipt[lastAttempt'[x]] = logical'[x]
      BY <1>2, <1>5, Zenon DEF IInv, Records
    <2>3. \A k \in Attempts : k <= n /\ k # lastAttempt'[logicalOf'[k]] => receipt[k] \in Dead
      <3> TAKE k \in Attempts
      <3> HAVE k <= n /\ k # lastAttempt'[logicalOf'[k]]
      <3>1. k # n
        BY <1>2, Zenon
      <3>2. k <= nextAttempt /\ logicalOf'[k] = logicalOf[k] /\ logicalOf[k] \in Logicals
        BY <1>6, <1>8, <3>1, Zenon DEF IInv, Numbering
      <3>3. CASE logicalOf[k] # l
        BY <1>7, <3>2, <3>3, Zenon DEF IInv, Records
      <3>4. CASE logicalOf[k] = l /\ k # lastAttempt[l]
        BY <3>2, <3>4, Zenon DEF IInv, Records
      <3>5. CASE logicalOf[k] = l /\ k = lastAttempt[l]
        BY <3>5 DEF Attempts, Seal, sealable, IInv, Records, Dead
      <3> QED  BY <3>3, <3>4, <3>5, Zenon
    <2> QED  BY <1>1, <1>3, <2>1, <2>2, <2>3, Zenon DEF Records
  <1>11. Outcomes'
    BY <1>3, Zenon DEF IInv, Outcomes
  <1>12. \A k, x : Held(k, x) => k \in Attempts /\ k <= n /\ (k > retiredThrough => state[k] = x)
                              /\ (k <= retiredThrough => receipt[k] = x)
    <2> TAKE k, x
    <2> HAVE Held(k, x)
    <2>1. k \in Attempts /\ k <= nextAttempt
      BY Zenon DEF Held
    <2>2. k <= n
      BY <1>5a, <2>1, Zenon
    <2> QED  BY <2>2, Zenon DEF Held
  <1>13. InFlight'
    <2>1. \A d \in Consumers : pc'[d] # "idle" => current'[d] \in Attempts /\ current'[d] <= n
      <3> TAKE d \in Consumers
      <3> HAVE pc'[d] # "idle"
      <3>1. CASE d = c
        BY <1>1, <1>2, <3>1
      <3>2. CASE d # c
        BY <1>2, <1>5a, <3>2, Zenon DEF IInv, InFlight
      <3> QED  BY <3>1, <3>2, Zenon
    <2>2. \A d \in Consumers : answer'[d] \in Terminal => pc'[d] # "idle" /\ Held(current[d], answer[d])'
      <3> TAKE d \in Consumers
      <3> HAVE answer'[d] \in Terminal
      <3>1. d # c
        BY <1>2, Zenon DEF Terminal, Dead
      <3>2. pc[d] # "idle" /\ Held(current[d], answer[d])
        BY <1>2, <3>1, Zenon DEF IInv, InFlight
      <3>3. current'[d] = current[d] /\ nextAttempt' = n
        BY <1>1, <1>2, <3>1, Zenon
      <3> QED  BY <1>2, <1>3, <1>12, <3>1, <3>2, <3>3, Zenon DEF Held
    <2>3. \A d \in Consumers : pc'[d] = "apply" => result[d] \in Terminal /\ Held(current[d], result[d])'
      <3> TAKE d \in Consumers
      <3> HAVE pc'[d] = "apply"
      <3>1. d # c
        BY <1>2, Zenon
      <3>2. result[d] \in Terminal /\ Held(current[d], result[d])
        BY <1>2, Zenon DEF IInv, InFlight
      <3>3. current'[d] = current[d] /\ nextAttempt' = n
        BY <1>1, <1>2, Zenon
      <3> QED  BY <1>3, <1>12, <3>1, <3>2, <3>3, Zenon DEF Held
    <2>4. \A d \in Consumers : pc'[d] = "retire" => receipt[current'[d]] # "none"
      BY <1>2, Zenon DEF IInv, InFlight
    <2>5. \A x \in late : x[2] <= n
      <3> TAKE x \in late
      <3>1. x[2] \in Attempts /\ x[2] <= nextAttempt
        BY Zenon DEF IInv, InFlight, TypeOK
      <3> QED  BY <1>5a, <3>1, Zenon
    <2> QED  BY <1>1, <1>3, <2>1, <2>2, <2>3, <2>4, <2>5, Zenon DEF IInv, InFlight
  <1> QED  BY <1>4, <1>9, <1>10, <1>11, <1>13, Zenon DEF IInv


-----------------------------------------------------------------------------
(* The steps of a consumer that touch neither the server's rows nor the store. *)

(***************************************************************************)
(* A step of one consumer that changes neither the store nor the server.   *)
(***************************************************************************)
LEMMA LocalStep ==
  ASSUME IInv, UNCHANGED <<device, server, staleThrough, clocks>>, NEW c \in Consumers,
         pc' \in [Consumers -> Requests \cup {"idle", "apply"}],
         current' \in [Consumers -> 0..MaxAttempts],
         part' \in [Consumers -> Parts],
         result' \in [Consumers -> Terminal \cup {"none"}],
         answer' \in [Consumers -> Answers],
         skewed' \in [Consumers -> SUBSET Attempts],
         \A d \in Consumers \ {c} : /\ pc'[d] = pc[d] /\ current'[d] = current[d]
                                    /\ answer'[d] = answer[d] /\ result'[d] = result[d],
         pc'[c] # "idle" => current'[c] \in Attempts /\ current'[c] <= nextAttempt,
         answer'[c] = "none",
         pc'[c] = "apply" => result'[c] \in Terminal /\ Held(current[c], result[c])',
         pc'[c] = "retire" => receipt[current'[c]] # "none",
         late' \subseteq Requests \X Attempts \X Parts,
         \A r \in late' : r \in late \/ (r[2] <= nextAttempt /\ (r[1] = "retire" => receipt[r[2]] # "none"))
  PROVE  IInv'
  <1> USE Standing
  <1>1. /\ nextAttempt' = nextAttempt /\ receipt' = receipt /\ retiredThrough' = retiredThrough
        /\ state' = state /\ logicalOf' = logicalOf /\ lastAttempt' = lastAttempt
        /\ logical' = logical /\ messages' = messages /\ acked' = acked
    BY Zenon DEF device, server
  <1>2. Numbering' /\ Records' /\ Outcomes'
    BY <1>1 DEF IInv, Numbering, Records, Outcomes
  <1>3. TypeOK'
    BY Zenon DEF IInv, TypeOK, device, server, clocks
  <1>4. \A d \in Consumers : answer'[d] \in Terminal => pc'[d] # "idle" /\ Held(current[d], answer[d])'
    <2> TAKE d \in Consumers
    <2> HAVE answer'[d] \in Terminal
    <2>1. d # c
      BY Zenon DEF Terminal, Dead
    <2>2. answer[d] \in Terminal /\ pc[d] # "idle" /\ Held(current[d], answer[d])
      BY <2>1, Zenon DEF IInv, InFlight
    <2> QED  BY <1>1, <2>1, <2>2, Zenon DEF Held
  <1>5. \A d \in Consumers : pc'[d] = "apply" => result'[d] \in Terminal /\ Held(current[d], result[d])'
    <2> TAKE d \in Consumers
    <2> HAVE pc'[d] = "apply"
    <2>1. CASE d = c
      BY <2>1, Zenon
    <2>2. CASE d # c
      <3>1. result[d] \in Terminal /\ Held(current[d], result[d])
        BY <2>2, Zenon DEF IInv, InFlight
      <3> QED  BY <1>1, <2>2, <3>1, Zenon DEF Held
    <2> QED  BY <2>2, Zenon
  <1>6. \A d \in Consumers : pc'[d] # "idle" => current'[d] \in Attempts /\ current'[d] <= nextAttempt
    BY Zenon DEF IInv, InFlight
  <1>7. \A d \in Consumers : pc'[d] = "retire" => receipt[current'[d]] # "none"
    <2> TAKE d \in Consumers
    <2>1. CASE d = c
      BY <2>1, Zenon
    <2>2. CASE d # c
      <3>1. pc'[d] = pc[d] /\ current'[d] = current[d]
        BY <2>2, Zenon
      <3>2. pc[d] = "retire" => receipt[current[d]] # "none"
        BY Zenon DEF IInv, InFlight
      <3> QED  BY <3>1, <3>2, Zenon
    <2> QED  BY <2>1, <2>2, Zenon
  <1>8. InFlight'
    BY <1>1, <1>4, <1>5, <1>6, <1>7, Zenon DEF IInv, InFlight
  <1> QED  BY <1>2, <1>3, <1>8, Zenon DEF IInv

LEMMA MovesOn ==
  ASSUME IInv, NEW c \in Consumers, NEW w \in Requests, Goto(c, w),
         UNCHANGED <<device, server, staleThrough, clocks, late, current, result, skewed>>,
         part' \in [Consumers -> Parts],
         pc[c] # "idle", w = "retire" => receipt[current[c]] # "none"
  PROVE  IInv'
  <1>1. pc' \in [Consumers -> Requests \cup {"idle", "apply"}] /\ answer' \in [Consumers -> Answers]
    BY Zenon DEF Goto, IInv, TypeOK, Answers
  <1>2. pc'[c] = w /\ answer'[c] = "none" /\ \A d \in Consumers \ {c} : pc'[d] = pc[d] /\ answer'[d] = answer[d]
    BY Zenon DEF Goto, IInv, TypeOK
  <1>3. w # "apply"
    BY Zenon DEF Requests
  <1>4. current[c] \in Attempts /\ current[c] <= nextAttempt
    BY Zenon DEF IInv, InFlight
  <1> QED  BY <1>1, <1>2, <1>3, <1>4, LocalStep, Zenon DEF IInv, TypeOK

LEMMA GoesBack ==
  ASSUME IInv, NEW c \in Consumers, Return(c),
         UNCHANGED <<device, server, staleThrough, clocks>>,
         skewed' \in [Consumers -> SUBSET Attempts],
         late' \subseteq Requests \X Attempts \X Parts,
         \A r \in late' : r \in late \/ (r[2] <= nextAttempt /\ (r[1] = "retire" => receipt[r[2]] # "none"))
  PROVE  IInv'
  <1> USE Standing
  <1>1. pc' \in [Consumers -> Requests \cup {"idle", "apply"}] /\ answer' \in [Consumers -> Answers]
    BY Zenon DEF Return, Goto, IInv, TypeOK, Answers
  <1>2. pc'[c] = "idle" /\ answer'[c] = "none" /\ \A d \in Consumers \ {c} : pc'[d] = pc[d] /\ answer'[d] = answer[d]
    BY Zenon DEF Return, Goto, IInv, TypeOK
  <1>3. current' \in [Consumers -> 0..MaxAttempts] /\ part' \in [Consumers -> Parts]
        /\ result' \in [Consumers -> Terminal \cup {"none"}]
    BY DEF Return, IInv, TypeOK
  <1>4. \A d \in Consumers \ {c} : current'[d] = current[d] /\ result'[d] = result[d]
    BY DEF Return
  <1> QED  BY <1>1, <1>2, <1>3, <1>4, LocalStep, Zenon

LEMMA Concluded ==
  ASSUME IInv, NEW c \in Consumers, Conclude(c), UNCHANGED <<device, late, server, staleThrough, clocks>>
  PROVE  IInv'
  <1>1. pc' \in [Consumers -> Requests \cup {"idle", "apply"}] /\ answer' \in [Consumers -> Answers]
        /\ result' \in [Consumers -> Terminal \cup {"none"}]
    BY Zenon DEF Conclude, Goto, IInv, TypeOK, Answers
  <1>2. /\ pc'[c] = "apply" /\ answer'[c] = "none" /\ result'[c] = answer[c]
        /\ \A d \in Consumers \ {c} : pc'[d] = pc[d] /\ answer'[d] = answer[d] /\ result'[d] = result[d]
    BY Zenon DEF Conclude, Goto, IInv, TypeOK
  <1>3. answer[c] \in Terminal /\ pc[c] # "idle" /\ Held(current[c], answer[c])
    BY Zenon DEF Conclude, IInv, InFlight
  <1>4. current' = current /\ part' = part /\ skewed' = skewed
    BY Zenon DEF Conclude
  <1>5. Held(current[c], result[c])'
    BY <1>2, <1>3, <1>4, Zenon DEF Held, device, server
  <1>6. current[c] \in Attempts /\ current[c] <= nextAttempt
    BY <1>3, Zenon DEF IInv, InFlight
  <1> QED  BY <1>1, <1>2, <1>3, <1>4, <1>5, <1>6, LocalStep, Zenon DEF IInv, TypeOK

LEMMA OnStatusStep ==
  ASSUME IInv, NEW c \in Consumers, OnStatus(c)
  PROVE  IInv'
  <1>0. UNCHANGED <<device, late, server, staleThrough, clocks>> /\ pc[c] # "idle"
    BY Zenon DEF OnStatus
  <1>1. CASE Conclude(c)
    BY <1>0, <1>1, Concluded, Zenon
  <1>2. CASE Return(c) /\ UNCHANGED skewed
    BY <1>0, <1>2, GoesBack, Zenon DEF IInv, TypeOK
  <1>3. CASE /\ UNCHANGED <<current, part, result, skewed>>
             /\ \E gone \in BOOLEAN : Goto(c, IF ~gone /\ (~expired(current[c]) \/ answer[c] # "absent")
                                              THEN "begin" ELSE "abort")
    BY <1>0, <1>3, MovesOn, Zenon DEF Requests, IInv, TypeOK
  <1> QED  BY <1>1, <1>2, <1>3, Zenon DEF OnStatus

LEMMA OnBeginStep ==
  ASSUME IInv, NEW c \in Consumers, OnBegin(c)
  PROVE  IInv'
  <1>0. UNCHANGED <<device, late, server, staleThrough, clocks>> /\ pc[c] # "idle"
    BY Zenon DEF OnBegin
  <1>1. CASE Conclude(c)
    BY <1>0, <1>1, Concluded, Zenon
  <1>2. CASE Return(c) /\ skewed' = [skewed EXCEPT ![c] = @ \cup {current[c]}]
    <2>1. current[c] \in Attempts
      BY <1>0, Zenon DEF IInv, InFlight
    <2>2. skewed' \in [Consumers -> SUBSET Attempts]
      BY <1>2, <2>1, Zenon DEF IInv, TypeOK
    <2>3. late' = late /\ late \subseteq Requests \X Attempts \X Parts
      BY <1>0, Zenon DEF IInv, TypeOK
    <2> QED  BY <1>0, <1>2, <2>2, <2>3, GoesBack, Zenon
  <1>3. CASE (Goto(c, "abort") \/ Goto(c, "put")) /\ UNCHANGED <<current, part, result, skewed>>
    BY <1>0, <1>3, MovesOn, Zenon DEF Requests, IInv, TypeOK
  <1> QED  BY <1>1, <1>2, <1>3, Zenon DEF OnBegin

LEMMA OnPutStep ==
  ASSUME IInv, NEW c \in Consumers, OnPut(c)
  PROVE  IInv'
  <1>0. UNCHANGED <<device, late, server, staleThrough, clocks>> /\ pc[c] # "idle"
    BY Zenon DEF OnPut
  <1>1. CASE Return(c) /\ UNCHANGED skewed
    BY <1>0, <1>1, GoesBack, Zenon DEF IInv, TypeOK
  <1>2. CASE moreParts(c) /\ part' = [part EXCEPT ![c] = @ + 1] /\ Goto(c, "put") /\ UNCHANGED <<current, result, skewed>>
    <2>1. part' \in [Consumers -> Parts]
      BY <1>2, Standing DEF moreParts, Parts, IInv, TypeOK
    <2> QED  BY <1>0, <1>2, <2>1, MovesOn, Zenon DEF Requests
  <1>3. CASE Goto(c, "finalize") /\ UNCHANGED <<current, part, result, skewed>>
    BY <1>0, <1>3, MovesOn, Zenon DEF Requests, IInv, TypeOK
  <1> QED  BY <1>1, <1>2, <1>3, Zenon DEF OnPut

LEMMA OnFinalStep ==
  ASSUME IInv, NEW c \in Consumers, OnFinal(c)
  PROVE  IInv'
  <1>0. UNCHANGED <<device, late, server, staleThrough, clocks>>
    BY Zenon DEF OnFinal
  <1>1. CASE Conclude(c)
    BY <1>0, <1>1, Concluded, Zenon
  <1>2. CASE Return(c) /\ UNCHANGED skewed
    BY <1>0, <1>2, GoesBack, Zenon DEF IInv, TypeOK
  <1> QED  BY <1>1, <1>2, Zenon DEF OnFinal

LEMMA ReceiptKnownStep ==
  ASSUME IInv, NEW c \in Consumers, ReceiptKnown(c)
  PROVE  IInv'
  <1>0. UNCHANGED <<device, skewed, late, server, staleThrough, clocks>> /\ pc[c] = "apply"
    BY Zenon DEF ReceiptKnown
  <1>1. CASE Goto(c, "retire") /\ UNCHANGED <<current, part, result>>
    BY <1>1, MovesOn, Zenon DEF ReceiptKnown, IInv, InFlight, Terminal, Dead, Requests, TypeOK
  <1>2. CASE Return(c)
    BY <1>0, <1>2, GoesBack, Zenon DEF IInv, TypeOK
  <1> QED  BY <1>1, <1>2, Zenon DEF ReceiptKnown

LEMMA ResumeStep ==
  ASSUME IInv, NEW c \in Consumers, NEW n \in Attempts, Resume(c, n)
  PROVE  IInv'
  <1> USE Standing
  <1> DEFINE w == IF receipt[n] = "none" THEN "status" ELSE "retire"
  <1>1. pc' \in [Consumers -> Requests \cup {"idle", "apply"}] /\ answer' \in [Consumers -> Answers]
        /\ current' \in [Consumers -> 0..MaxAttempts]
    BY DEF Resume, Goto, IInv, TypeOK, Answers, Requests
  <1>2. /\ pc'[c] = w /\ answer'[c] = "none" /\ current'[c] = n
        /\ \A d \in Consumers \ {c} : pc'[d] = pc[d] /\ answer'[d] = answer[d] /\ current'[d] = current[d]
    BY Zenon DEF Resume, Goto, IInv, TypeOK
  <1>3. n <= nextAttempt /\ UNCHANGED <<device, part, result, skewed, late, server, staleThrough, clocks>>
    BY Zenon DEF Resume
  <1>4. w # "apply" /\ (w = "retire" => receipt[n] # "none")
    BY Zenon
  <1> HIDE DEF w
  <1> QED  BY <1>1, <1>2, <1>3, <1>4, LocalStep, Zenon DEF IInv, TypeOK

LEMMA AbandonStep ==
  ASSUME IInv, NEW c \in Consumers, Abandon(c), skewed' \in [Consumers -> SUBSET Attempts]
  PROVE  IInv'
  <1> DEFINE r == <<pc[c], current[c], part[c]>>
  <1>1. CASE UNCHANGED late
    BY <1>1, GoesBack, Zenon DEF Abandon, IInv, TypeOK
  <1>2. CASE pc[c] \in Requests /\ late' = late \cup {r}
    <2>1. current[c] \in Attempts /\ current[c] <= nextAttempt /\ (pc[c] = "retire" => receipt[current[c]] # "none")
      BY <1>2, Zenon DEF Abandon, IInv, InFlight
    <2>2. part[c] \in Parts
      BY Zenon DEF IInv, TypeOK
    <2>3. r \in Requests \X Attempts \X Parts /\ r[1] = pc[c] /\ r[2] = current[c]
      BY <1>2, <2>1, <2>2
    <2> HIDE DEF r
    <2>4. late \subseteq Requests \X Attempts \X Parts
      BY Zenon DEF IInv, TypeOK
    <2>5. late' \subseteq Requests \X Attempts \X Parts
      BY <1>2, <2>3, <2>4, Zenon
    <2>6. \A x \in late' : x \in late \/ (x[2] <= nextAttempt /\ (x[1] = "retire" => receipt[x[2]] # "none"))
      BY <1>2, <2>1, <2>3, Zenon
    <2> QED  BY <2>5, <2>6, GoesBack, Zenon DEF Abandon
  <1> QED  BY <1>1, <1>2, Zenon DEF Abandon

-----------------------------------------------------------------------------
(* All steps together. *)

LEMMA QuietStep ==
  ASSUME IInv, UNCHANGED <<device, consumer, server>>, late' \subseteq late,
         staleThrough' \in 0..MaxAttempts, clientNow' \in Nat, now' \in Nat
  PROVE  IInv'
  <1>1. UNCHANGED <<nextAttempt, logicalOf, deadline, receipt, lastAttempt, logical, noted, pc, current,
                    part, result, answer, skewed, state, parts, acked, retiredThrough, messages>>
    BY Zenon DEF device, consumer, server
  <1>2. TypeOK'
    BY <1>1, Zenon DEF IInv, TypeOK
  <1>3. Numbering' /\ Records' /\ Outcomes'
    BY <1>1, Zenon DEF IInv, Numbering, Records, Outcomes
  <1>4. InFlight'
    BY <1>1, Zenon DEF IInv, InFlight, Held
  <1> QED  BY <1>2, <1>3, <1>4, Zenon DEF IInv

LEMMA Initially == Init => IInv
  <1> SUFFICES ASSUME Init PROVE IInv
    BY Zenon
  <1> USE Standing
  <1>1. TypeOK
    BY DEF Init, Answers, TypeOK
  <1>2. \A n \in Attempts : n > 0
    BY DEF Attempts
  <1>3. Numbering
    BY <1>2 DEF Init, Numbering
  <1>4. Records
    BY <1>2 DEF Init, Records
  <1>5. Outcomes
    BY <1>2 DEF Init, Outcomes
  <1>6. InFlight
    BY Zenon DEF Init, InFlight, Terminal, Dead
  <1> QED  BY <1>1, <1>3, <1>4, <1>5, <1>6, Zenon DEF IInv

LEMMA Inductive == IInv /\ [Next]_vars => IInv'
  <1> SUFFICES ASSUME IInv, [Next]_vars PROVE IInv'
    BY Zenon
  <1> USE Standing
  <1>1. ASSUME NEW c \in Consumers, Handle(c) PROVE IInv'
    BY <1>1, HandleStep, Zenon
  <1>2. ASSUME NEW c \in Consumers, Consume(c) PROVE IInv'
    BY <1>2, SealStep, ResumeStep, OnStatusStep, OnBeginStep, OnPutStep, OnFinalStep, StoreReceiptStep,
       ReceiptKnownStep, OnRetireStep, Zenon DEF Consume
  <1>3. ASSUME NEW c \in Consumers, GiveUp(c) \/ Crash(c) PROVE IInv'
    BY <1>3, AbandonStep, Zenon DEF GiveUp, Crash, IInv, TypeOK
  <1>4. CASE HandleLate
    BY <1>4, HandleLateStep, Zenon
  <1>5. CASE ExpireOlmAttempts
    BY <1>5, ExpireStep, Zenon
  <1>6. CASE LoseLate
    BY <1>6, QuietStep, Zenon DEF LoseLate, IInv, TypeOK, clocks
  <1>7. CASE RosterChange \/ TickClient \/ TickServer
    <2>1. late' \subseteq late /\ UNCHANGED <<device, consumer, server>>
      BY <1>7, Zenon DEF RosterChange, TickClient, TickServer
    <2>2. staleThrough' \in 0..MaxAttempts /\ clientNow' \in Nat /\ now' \in Nat
      BY <1>7 DEF RosterChange, TickClient, TickServer, IInv, TypeOK, clocks
    <2> QED  BY <2>1, <2>2, QuietStep, Zenon
  <1>8. CASE UNCHANGED vars
    BY <1>8, QuietStep, Zenon DEF vars, IInv, TypeOK, clocks
  <1> QED  BY <1>1, <1>2, <1>3, <1>4, <1>5, <1>6, <1>7, <1>8, Zenon DEF Next

THEOREM Invariance == Spec => []IInv
  <1> QED  BY Initially, Inductive, PTL DEF Spec

-----------------------------------------------------------------------------
\* Every state has the types of TypeOK.
THEOREM TypeCorrect == Spec => []TypeOK
  <1>1. IInv => TypeOK
    BY Zenon DEF IInv
  <1> QED  BY <1>1, Invariance, PTL

(***************************************************************************)
(* A stored receipt is what the server did with the attempt, for good      *)
(* (ApplyAttemptResult against AbortOlmAttempt, finalizeOlmAttempt and the *)
(* fence of loadAttempt).                                                  *)
(***************************************************************************)
THEOREM ReceiptsAreTruthful == Spec => []ReceiptsTruthful
  <1>1. ASSUME IInv, NEW n \in Attempts
        PROVE  (receipt[n] = "accepted" => n \in messages) /\ (receipt[n] \in Dead => n \notin messages)
    <2>1. CASE n <= retiredThrough
      BY <1>1, <2>1, Zenon DEF IInv, Outcomes, Dead
    <2>2. CASE n > retiredThrough
      BY <1>1, <2>2, Zenon DEF IInv, Outcomes, Dead
    <2> QED  BY <1>1, <2>1, <2>2, Standing DEF IInv, TypeOK
  <1>2. IInv => ReceiptsTruthful
    BY <1>1, Zenon DEF ReceiptsTruthful
  <1> QED  BY <1>2, Invariance, PTL

(***************************************************************************)
(* Of the attempts of one logical message at most one is admitted or may   *)
(* still be, so the guard of prepareAttempt is all that resealing needs.   *)
(***************************************************************************)
THEOREM AtMostOneLiveAttempt == Spec => []OneLiveAttempt
  <1>1. ASSUME IInv, NEW n \in Attempts, n <= nextAttempt, n # lastAttempt[logicalOf[n]]
        PROVE  ~admissible(n)
    <2>1. receipt[n] \in Dead
      BY <1>1, Zenon DEF IInv, Records
    <2>2. CASE n <= retiredThrough
      BY <1>1, <2>1, <2>2, Zenon DEF IInv, Outcomes, Dead, admissible, StatusAnswer, retired
    <2>3. CASE n > retiredThrough
      BY <1>1, <2>1, <2>3, Zenon DEF IInv, Outcomes, Dead, StatusAnswer, admissible
    <2> QED  BY <1>1, <2>2, <2>3, Standing DEF IInv, TypeOK
  <1>2. IInv => OneLiveAttempt
    BY <1>1, Zenon DEF OneLiveAttempt
  <1> QED  BY <1>2, Invariance, PTL

(***************************************************************************)
(* The fence only passes attempts whose receipt the device has stored      *)
(* (RetireOlmReceipt's demand on its callers).                             *)
(***************************************************************************)
THEOREM FenceFollowsReceipts == Spec => []RetiredAfterReceipt
  <1>1. IInv => RetiredAfterReceipt
    BY Zenon DEF IInv, Outcomes, RetiredAfterReceipt
  <1> QED  BY <1>1, Invariance, PTL

(***************************************************************************)
(* Consumers that resolve one attempt side by side bring the same result   *)
(* to ApplyAttemptResult, and never one for a superseded attempt.          *)
(***************************************************************************)
THEOREM ConsumersAgree == Spec => []NoConflict
  <1>1. IInv => NoConflict
    <2> SUFFICES ASSUME IInv, NEW c \in Consumers, pc[c] = "apply"
                 PROVE  /\ receipt[current[c]] \in {"none", result[c]}
                        /\ receipt[current[c]] = "none" => lastAttempt[logicalOf[current[c]]] = current[c]
      BY Zenon DEF NoConflict
    <2>1. current[c] \in Attempts /\ current[c] <= nextAttempt /\ Held(current[c], result[c])
      BY Zenon DEF IInv, InFlight
    <2>2. receipt[current[c]] \in {"none", result[c]}
      BY <2>1 DEF IInv, TypeOK, Outcomes, Held
    <2>3. receipt[current[c]] = "none" => lastAttempt[logicalOf[current[c]]] = current[c]
      BY <2>1, Zenon DEF IInv, Records, Dead
    <2> QED  BY <2>2, <2>3, Zenon
  <1> QED  BY <1>1, Invariance, PTL

(***************************************************************************)
(* No step rewrites a terminal outcome (saveReceipt's callers, the sweep   *)
(* and the fold).                                                          *)
(***************************************************************************)
THEOREM OutcomesAreImmutable == Spec => OutcomeImmutable
  <1> DEFINE A == \A n \in Attempts : state[n] \in Terminal => state'[n] = state[n] \/ n <= retiredThrough'
  <1>1. IInv /\ [Next]_vars => [A]_vars
    <2> SUFFICES ASSUME IInv, Next PROVE A
      BY Zenon
    <2>1. ServerStep => A
      BY Standing DEF ServerStep
    <2>2. UNCHANGED server => A
      BY Zenon DEF server
    <2>3. ASSUME NEW c \in Consumers, Consume(c) \/ GiveUp(c) \/ Crash(c) PROVE UNCHANGED server
      BY <2>3, Zenon DEF Consume, Seal, Resume, OnStatus, OnBegin, OnPut, OnFinal, StoreReceipt,
         ReceiptKnown, OnRetire, GiveUp, Crash, Abandon
    <2>4. LoseLate \/ RosterChange \/ TickClient \/ TickServer => UNCHANGED server
      BY Zenon DEF LoseLate, RosterChange, TickClient, TickServer
    <2> QED  BY <2>1, <2>2, <2>3, <2>4, HandleStep, HandleLateStep, ExpireStep, Zenon DEF Next
  <1> QED  BY <1>1, Invariance, PTL DEF Spec, OutcomeImmutable

-----------------------------------------------------------------------------
(***************************************************************************)
(* The refinement.  Only finalizeOlmAttempt admits a message, and only the *)
(* pending attempt of a logical message that was not admitted before.      *)
(***************************************************************************)
sentLogicals == {logicalOf[n] : n \in messages}

LEMMA SealedMessages == IInv => \A n \in messages : n \in Attempts /\ n <= nextAttempt
  <1> SUFFICES ASSUME IInv, NEW n \in messages PROVE n \in Attempts /\ n <= nextAttempt
    BY Zenon
  <1>1. n \in Attempts
    BY Zenon DEF IInv, TypeOK
  <1>2. CASE n > nextAttempt
    BY Standing DEF IInv, Numbering, TypeOK, Outcomes
  <1> QED  BY <1>2, Standing DEF IInv, TypeOK

LEMMA ServeSends ==
  ASSUME IInv, NEW q, NEW n \in Attempts, NEW p, n <= nextAttempt, Serve(q, n, p),
         UNCHANGED device
  PROVE  [Promise!Next]_<<logical, sentLogicals>>
  <1>1. UNCHANGED messages \/ (q = "finalize" /\ finalizeOlmAttempt(n) /\ messages' # messages)
    BY Zenon DEF Serve, BeginOlmAttempt, PutOlmPart, AbortOlmAttempt, RetireOlmReceipt, advanceFence,
       insertAttempt, server
  <1>2. UNCHANGED <<logical, logicalOf>>
    BY Zenon DEF device
  <1>3. CASE UNCHANGED messages
    BY <1>2, <1>3, Zenon DEF sentLogicals
  <1>4. CASE finalizeOlmAttempt(n) /\ messages' # messages
    <2> DEFINE l == logicalOf[n]
    <2>1. StatusAnswer(n) = "staging" /\ FinalizeAnswer(n) = "accepted" /\ messages' = messages \cup {n}
      BY <1>4, Zenon DEF finalizeOlmAttempt, server
    <2>2. n > retiredThrough /\ state[n] = "staging"
      BY <2>1, Standing DEF StatusAnswer, retired, IInv, TypeOK
    <2>3. receipt[n] = "none"
      BY <2>2, Zenon DEF IInv, Outcomes, TypeOK, Terminal, Dead
    <2>4. l \in Logicals /\ n = lastAttempt[l]
      BY <2>3, Zenon DEF IInv, Numbering, Records, Dead
    <2>5. logical[l] = "pending"
      BY <2>3, <2>4 DEF Attempts, IInv, Records, Terminal, Dead
    <2>6. l \notin sentLogicals
      BY <2>1, Standing DEF FinalizeAnswer, IInv, TypeOK, admitted, sentLogicals
    <2>7. sentLogicals' = sentLogicals \cup {l}
      BY <1>2, <2>1, Zenon DEF sentLogicals
    <2>8. \E x \in Logicals : Promise!Send(x)
      BY <1>2, <2>4, <2>5, <2>6, <2>7, Zenon DEF Promise!Send, sentLogicals
    <2> QED  BY <2>8, Zenon DEF Promise!Next
  <1> QED  BY <1>1, <1>3, <1>4, Zenon

LEMMA SealSubmits ==
  ASSUME IInv, NEW c \in Consumers, NEW l \in Logicals, Seal(c, l)
  PROVE  Promise!Submit(l)
  <1>1. logical[l] = "none" \/ (logical[l] \in Promise!Failed /\ l \notin Controls)
    BY Zenon DEF Seal, sealable, IInv, Records, Promise!Failed, Dead
  <1>2. logical' = [logical EXCEPT ![l] = "pending"]
    BY Zenon DEF Seal
  <1>3. UNCHANGED messages
    BY Zenon DEF Seal, server
  <1>4. \A k \in messages : logicalOf'[k] = logicalOf[k]
    <2> TAKE k \in messages
    <2>1. k \in Attempts /\ k <= nextAttempt
      BY SealedMessages, Zenon
    <2>2. nextAttempt \in Nat /\ k \in Nat
      BY <2>1, Standing DEF IInv, TypeOK
    <2>3. k # nextAttempt + 1
      BY <2>1, <2>2
    <2> QED  BY <2>1, <2>3, Zenon DEF Seal, IInv, TypeOK
  <1>5. UNCHANGED sentLogicals
    BY <1>3, <1>4, Zenon DEF sentLogicals
  <1> QED  BY <1>1, <1>2, <1>5, Zenon DEF Promise!Submit, sentLogicals

LEMMA ReceiptReports ==
  ASSUME IInv, NEW c \in Consumers, StoreReceipt(c)
  PROVE  \E l \in Logicals : Promise!Report(l)
  <1> DEFINE n == current[c]
  <1> DEFINE l == logicalOf[n]
  <1>1. n \in Attempts /\ n <= nextAttempt /\ result[c] \in Terminal /\ Held(n, result[c])
    BY Zenon DEF StoreReceipt, IInv, InFlight
  <1>2. receipt[n] = "none" /\ lastAttempt[l] = n /\ l \in Logicals
    BY <1>1, Zenon DEF StoreReceipt, IInv, Numbering
  <1>3. logical[l] = "pending"
    <2>1. lastAttempt[l] # 0
      BY <1>1, <1>2 DEF Attempts
    <2>2. "none" \notin Terminal
      BY DEF Terminal, Dead
    <2> QED  BY <1>2, <2>1, <2>2, Zenon DEF IInv, Records
  <1>4. n > retiredThrough /\ state[n] = result[c]
    BY <1>1, <1>2 DEF IInv, Outcomes, TypeOK, Held
  <1>5. logical' = [logical EXCEPT ![l] = result[c]] /\ UNCHANGED sentLogicals
    BY Zenon DEF StoreReceipt, server, sentLogicals
  <1>6. CASE result[c] = "accepted"
    BY <1>1, <1>2, <1>3, <1>4, <1>5, <1>6, Zenon DEF IInv, Outcomes, sentLogicals, Promise!Report
  <1>7. CASE result[c] \in Dead
    <2>1. n \notin messages
      BY <1>1, <1>4, <1>7, Zenon DEF IInv, Outcomes, Dead
    <2>2. \A k \in messages : logicalOf[k] # l
      <3> SUFFICES ASSUME NEW k \in messages, logicalOf[k] = l PROVE FALSE
        BY Zenon
      <3>1. k \in Attempts /\ k <= nextAttempt /\ k # n
        BY <2>1, SealedMessages, Zenon
      <3>2. receipt[k] \in Dead
        BY <1>2, <3>1, Zenon DEF IInv, Records
      <3>3. CASE k <= retiredThrough
        BY <3>1, <3>2, <3>3, Zenon DEF IInv, Outcomes, Dead
      <3>4. CASE k > retiredThrough
        BY <3>1, <3>2, <3>4, Zenon DEF IInv, Outcomes, Dead
      <3> QED  BY <3>1, <3>3, <3>4, Standing DEF IInv, TypeOK
    <2>3. l \notin sentLogicals
      BY <2>2, Zenon DEF sentLogicals
    <2> QED
      BY <1>2, <1>3, <1>5, <1>7, <2>3, Zenon DEF Promise!Report, Promise!Failed, Dead, sentLogicals
  <1> QED  BY <1>1, <1>6, <1>7, Zenon DEF Terminal

(***************************************************************************)
(* The protocol implements LogicalSend: sealing submits, an admission      *)
(* sends, storing the receipt reports, and no other step shows.            *)
(***************************************************************************)
THEOREM PromiseKept == Spec => KeepsPromise
  <1>1. Init => Promise!Init
    BY DEF Init, Promise!Init
  <1>2. IInv /\ [Next]_vars => [Promise!Next]_<<logical, sentLogicals>>
    <2> SUFFICES ASSUME IInv, [Next]_vars PROVE [Promise!Next]_<<logical, sentLogicals>>
      BY Zenon
    <2>1. ASSUME UNCHANGED <<logical, logicalOf, messages>>
          PROVE  UNCHANGED <<logical, sentLogicals>>
      BY <2>1, Zenon DEF sentLogicals
    <2>2. ASSUME NEW c \in Consumers, Handle(c) PROVE [Promise!Next]_<<logical, sentLogicals>>
      BY <2>2, ServeSends, Zenon DEF Handle, Requests, IInv, InFlight
    <2>3. CASE HandleLate
      <3>1. PICK r \in late : Serve(r[1], r[2], r[3])
        BY <2>3, Zenon DEF HandleLate
      <3>2. r[2] \in Attempts /\ r[2] <= nextAttempt
        BY Zenon DEF IInv, TypeOK, InFlight
      <3>3. UNCHANGED device
        BY <2>3, Zenon DEF HandleLate
      <3> QED  BY <3>1, <3>2, <3>3, ServeSends, Zenon
    <2>4. ASSUME NEW c \in Consumers, NEW l \in Logicals, Seal(c, l) PROVE Promise!Next
      BY <2>4, SealSubmits, Zenon DEF Promise!Next
    <2>5. ASSUME NEW c \in Consumers, StoreReceipt(c) PROVE Promise!Next
      BY <2>5, ReceiptReports, Zenon DEF Promise!Next
    <2>6. ASSUME NEW c \in Consumers,
                 \/ \E n \in Attempts : Resume(c, n)
                 \/ OnStatus(c) \/ OnBegin(c) \/ OnPut(c) \/ OnFinal(c) \/ ReceiptKnown(c) \/ OnRetire(c)
                 \/ GiveUp(c) \/ Crash(c)
          PROVE  UNCHANGED <<logical, logicalOf, messages>>
      BY <2>6, Zenon DEF Resume, OnStatus, OnBegin, OnPut, OnFinal, ReceiptKnown, OnRetire, GiveUp,
         Crash, Abandon, device, server
    <2>7. LoseLate \/ ExpireOlmAttempts \/ RosterChange \/ TickClient \/ TickServer \/ UNCHANGED vars
          => UNCHANGED <<logical, logicalOf, messages>>
      BY Zenon DEF LoseLate, ExpireOlmAttempts, RosterChange, TickClient, TickServer, vars, device,
         server
    <2> QED  BY <2>1, <2>2, <2>3, <2>4, <2>5, <2>6, <2>7, Zenon DEF Next, Consume
  <1>3. KeepsPromise <=> Promise!Init /\ [][Promise!Next]_<<logical, sentLogicals>>
    BY Zenon DEF KeepsPromise, Promise!Spec, sentLogicals
  <1> QED  BY <1>1, <1>2, <1>3, Invariance, PTL DEF Spec
====
