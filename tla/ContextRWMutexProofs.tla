------------------------ MODULE ContextRWMutexProofs ------------------------
(***************************************************************************)
(* For any finite set of goroutines: the gate excludes, its counters are   *)
(* exact and no wakeup is lost.                                            *)
(***************************************************************************)
EXTENDS ContextRWMutex, FiniteSetTheorems, TLAPS

(***************************************************************************)
(* The inductive invariant.  NoLostWakeup speaks of the threads asleep; it *)
(* is kept because the reason to wait exists from the moment the channel   *)
(* is taken, and because who is asleep has the channel m.changed holds, so *)
(* that the next notifyLocked reaches it.  A context can only end inside   *)
(* LockContext.                                                            *)
(***************************************************************************)
Waiting ==
  /\ asleep \subseteq changed \ cancelled
  /\ changed \subseteq at("lock") \cup at("rlock")
  /\ cancelled \subseteq at("lock")
  /\ \A t \in changed \cap at("lock") : locked \/ readers > 0
  /\ \A t \in changed \cap at("rlock") : locked \/ writers > 0

Inv == TypeOK /\ Exclusion /\ Waiting

-----------------------------------------------------------------------------
(***************************************************************************)
(* Moving one goroutine between two places of the code changes the two     *)
(* head counts by one and no other.                                        *)
(***************************************************************************)
LEMMA Move ==
  ASSUME TypeOK, NEW t \in Threads, NEW a \in States, NEW b \in States,
         a # b, pc[t] = a, goto(t, b)
  PROVE  /\ pc' \in [Threads -> States]
         /\ at(a)' = at(a) \ {t} /\ at(b)' = at(b) \cup {t}
         /\ t \in at(a) /\ t \notin at(b)
         /\ \A c \in States \ {a, b} : at(c)' = at(c)
  BY Zenon DEF TypeOK, goto, at

(***************************************************************************)
(* The head counts are finite, and adding or removing a member counts.     *)
(***************************************************************************)
LEMMA HeadCount ==
  ASSUME NEW c, NEW t \in Threads
  PROVE  /\ Cardinality(at(c)) \in Nat
         /\ Cardinality(at(c)) = 0 <=> at(c) = {}
         /\ t \in at(c) => Cardinality(at(c) \ {t}) = Cardinality(at(c)) - 1
         /\ t \notin at(c) => Cardinality(at(c) \cup {t}) = Cardinality(at(c)) + 1
<1>1. at(c) \subseteq Threads
  BY Zenon DEF at
<1>2. IsFiniteSet(at(c))
  BY <1>1, ThreadsAssumption, FS_Subset, Zenon
<1>3. Cardinality(at(c)) \in Nat
  BY <1>2, FS_CardinalityType, Zenon
<1>4. Cardinality(at(c)) = 0 <=> at(c) = {}
  BY <1>2, FS_EmptySet, Zenon
<1>5. t \in at(c) => Cardinality(at(c) \ {t}) = Cardinality(at(c)) - 1
  BY <1>2, FS_RemoveElement, Zenon
<1>6. t \notin at(c) => Cardinality(at(c) \cup {t}) = Cardinality(at(c)) + 1
  BY <1>2, FS_AddElement, Zenon
<1> QED
  BY <1>3, <1>4, <1>5, <1>6, Zenon

(***************************************************************************)
(* After notifyLocked nobody has the current channel, hence nobody sleeps. *)
(***************************************************************************)
LEMMA Notified ==
  ASSUME Waiting, notifyLocked, cancelled' \subseteq at("lock")'
  PROVE  Waiting' /\ changed' = {} /\ asleep' = {} /\ parking' = parking
  BY Zenon DEF Waiting, notifyLocked

-----------------------------------------------------------------------------
(***************************************************************************)
(* The gate starts with nobody in it.                                      *)
(***************************************************************************)
LEMMA Initially == Init => Inv
<1> SUFFICES ASSUME Init PROVE Inv
  BY Zenon
<1>1. \A c \in States \ {"idle"} : at(c) = {}
  BY Zenon DEF Init, at
<1>2. at("write") = {} /\ at("read") = {} /\ at("lock") = {}
  BY <1>1, Zenon DEF States
<1>3. Cardinality({}) = 0
  BY FS_EmptySet, Zenon
<1>4. TypeOK
  BY Zenon DEF Init, TypeOK, States
<1>5. Exclusion
  BY <1>2, <1>3, Zenon DEF Init, Exclusion
<1> QED
  BY <1>4, <1>5, Zenon DEF Init, Inv, Waiting

(***************************************************************************)
(* LockContext: taking the lock excludes, and waiting has its reason.      *)
(***************************************************************************)
LEMMA LockContextStep ==
  ASSUME Inv, NEW t \in Threads, LockContext(t) PROVE Inv'
<1>1. CASE LockNow(t)
  <2> USE <1>1 DEF LockNow
  <2>1. /\ pc' \in [Threads -> States]
        /\ at("idle")' = at("idle") \ {t} /\ at("write")' = at("write") \cup {t}
        /\ \A c \in States \ {"idle", "write"} : at(c)' = at(c)
    BY Move, Zenon DEF Inv, States
  <2>2. at("read")' = at("read") /\ at("lock")' = at("lock") /\ at("rlock")' = at("rlock")
    BY <2>1, Zenon DEF States
  <2>3. at("read") = {} /\ at("write") = {}
    BY HeadCount, Zenon DEF Inv, Exclusion, freeForWriter
  <2>4. Waiting' /\ changed' = {} /\ asleep' = {} /\ parking' = parking
    BY <2>2, Notified, Zenon DEF Inv, Waiting
  <2>5. TypeOK'
    BY <2>1, <2>4, Zenon DEF Inv, TypeOK
  <2>6. Exclusion'
    BY <2>1, <2>2, <2>3, Zenon DEF Inv, Exclusion
  <2> QED
    BY <2>4, <2>5, <2>6, Zenon DEF Inv
<1>2. CASE LockCancelled(t)
  <2> USE <1>2 DEF LockCancelled, fields
  <2>1. at("lock")' = at("lock")
    BY Zenon DEF at
  <2>2. Waiting' /\ changed' = {} /\ asleep' = {} /\ parking' = parking
    BY <2>1, Notified, Zenon DEF Inv, Waiting
  <2>3. TypeOK' /\ Exclusion'
    BY <2>2, Zenon DEF Inv, TypeOK, Exclusion, at
  <2> QED
    BY <2>2, <2>3, Zenon DEF Inv
<1>3. CASE LockWaits(t)
  <2> USE <1>3 DEF LockWaits
  <2>1. /\ pc' \in [Threads -> States]
        /\ at("idle")' = at("idle") \ {t} /\ at("lock")' = at("lock") \cup {t}
        /\ t \notin at("lock")
        /\ \A c \in States \ {"idle", "lock"} : at(c)' = at(c)
    BY Move, Zenon DEF Inv, States
  <2>2. at("read")' = at("read") /\ at("write")' = at("write") /\ at("rlock")' = at("rlock")
    BY <2>1, Zenon DEF States
  <2>3. Cardinality(at("lock")') = Cardinality(at("lock")) + 1
    BY <2>1, HeadCount, Zenon
  <2>4. TypeOK'
    BY <2>1 DEF Inv, TypeOK, changedLocked
  <2>5. Exclusion'
    BY <2>2, <2>3, Zenon DEF Inv, Exclusion
  <2>6. locked \/ readers > 0
    BY DEF Inv, TypeOK, freeForWriter
  <2>7. Waiting'
    <3>1. writers > 0 => writers' > 0
      BY DEF Inv, TypeOK
    <3>2. t \notin cancelled /\ t \notin at("rlock") /\ changed' = changed \cup {t} /\ asleep' = asleep
      BY <2>1, Zenon DEF Inv, Waiting, changedLocked, at
    <3> QED
      BY <2>1, <2>2, <2>6, <3>1, <3>2, Zenon DEF Inv, Waiting
  <2> QED
    BY <2>1, <2>4, <2>5, <2>7, Zenon DEF Inv
<1> QED
  BY <1>1, <1>2, <1>3, Zenon DEF LockContext

(***************************************************************************)
(* The loop of LockContext: every way out lowers m.writers once and wakes  *)
(* everybody.                                                              *)
(***************************************************************************)
LEMMA LockResumesStep ==
  ASSUME Inv, NEW t \in Threads, LockResumes(t) PROVE Inv'
<1>1. CASE LockGivesUp(t)
  <2> USE <1>1 DEF LockGivesUp, awake
  <2>1. /\ pc' \in [Threads -> States]
        /\ at("lock")' = at("lock") \ {t} /\ t \in at("lock")
        /\ \A c \in States \ {"lock", "idle"} : at(c)' = at(c)
    BY Move, Zenon DEF Inv, States
  <2>2. at("read")' = at("read") /\ at("write")' = at("write") /\ at("rlock")' = at("rlock")
    BY <2>1, Zenon DEF States
  <2>3. /\ Cardinality(at("lock")') = Cardinality(at("lock")) - 1
        /\ Cardinality(at("lock")) \in Nat /\ Cardinality(at("lock")) # 0
    BY <2>1, HeadCount, Zenon
  <2>4. Waiting' /\ changed' = {} /\ asleep' = {} /\ parking' = parking
    BY <2>1, Notified, Zenon DEF Inv, Waiting
  <2>5. TypeOK'
    BY <2>1, <2>3, <2>4 DEF Inv, TypeOK, Exclusion
  <2>6. Exclusion'
    BY <2>2, <2>3, Zenon DEF Inv, Exclusion
  <2> QED
    BY <2>4, <2>5, <2>6, Zenon DEF Inv
<1>2. CASE LockGranted(t)
  <2> USE <1>2 DEF LockGranted, awake
  <2>1. /\ pc' \in [Threads -> States]
        /\ at("lock")' = at("lock") \ {t} /\ t \in at("lock")
        /\ at("write")' = at("write") \cup {t}
        /\ \A c \in States \ {"lock", "write"} : at(c)' = at(c)
    BY Move, Zenon DEF Inv, States
  <2>2. at("read")' = at("read")
    BY <2>1, Zenon DEF States
  <2>3. at("read") = {} /\ at("write") = {}
    BY HeadCount, Zenon DEF Inv, Exclusion, freeForWriter
  <2>4. /\ Cardinality(at("lock")') = Cardinality(at("lock")) - 1
        /\ Cardinality(at("lock")) \in Nat /\ Cardinality(at("lock")) # 0
    BY <2>1, HeadCount, Zenon
  <2>5. Waiting' /\ changed' = {} /\ asleep' = {} /\ parking' = parking
    BY <2>1, Notified, Zenon DEF Inv, Waiting
  <2>6. TypeOK'
    BY <2>1, <2>4, <2>5 DEF Inv, TypeOK, Exclusion
  <2>7. Exclusion'
    BY <2>1, <2>2, <2>3, <2>4, Zenon DEF Inv, Exclusion
  <2> QED
    BY <2>5, <2>6, <2>7, Zenon DEF Inv
<1>3. CASE LockWaitsOn(t)
  <2> USE <1>3 DEF LockWaitsOn, awake, fields
  <2>1. at("lock")' = at("lock") /\ at("rlock")' = at("rlock") /\ t \in at("lock")
    BY Zenon DEF at
  <2>2. TypeOK' /\ Exclusion'
    BY Zenon DEF Inv, TypeOK, Exclusion, changedLocked, at
  <2>3. locked \/ readers > 0
    BY DEF Inv, TypeOK, freeForWriter
  <2>4. Waiting'
    <3>1. t \notin at("rlock") /\ changed' = changed \cup {t} /\ asleep' = asleep
      BY Zenon DEF at, changedLocked
    <3> QED
      BY <2>1, <2>3, <3>1, Zenon DEF Inv, Waiting
  <2> QED
    BY <2>1, <2>2, <2>4, Zenon DEF Inv
<1> QED
  BY <1>1, <1>2, <1>3, Zenon DEF LockResumes

(***************************************************************************)
(* A context ends, or the writer leaves.                                   *)
(***************************************************************************)
LEMMA CancelStep ==
  ASSUME Inv, NEW t \in Threads, Cancel(t) PROVE Inv'
<1> USE DEF Cancel, fields
<1>1. \A c : at(c)' = at(c)
  BY Zenon DEF at
<1>2. TypeOK' /\ Exclusion'
  BY Zenon DEF Inv, TypeOK, Exclusion, at
<1>3. t \in at("lock")
  BY Zenon DEF at
<1>4. Waiting'
  BY <1>1, <1>3, Zenon DEF Inv, Waiting
<1> QED
  BY <1>2, <1>4, Zenon DEF Inv

(***************************************************************************)
(* The select: a thread blocks only on a channel nobody has closed since.  *)
(***************************************************************************)
LEMMA SelectStep ==
  ASSUME Inv, NEW t \in Threads, Select(t) PROVE Inv'
<1> USE DEF Select, fields, sleep
<1>1. \A c : at(c)' = at(c)
  BY Zenon DEF at
<1>2. TypeOK' /\ Exclusion'
  BY Zenon DEF Inv, TypeOK, Exclusion, at
<1>3. Waiting'
  BY <1>1, Zenon DEF Inv, Waiting
<1> QED
  BY <1>2, <1>3, Zenon DEF Inv

(***************************************************************************)
(* Unlock leaves nobody holding and nobody asleep.                         *)
(***************************************************************************)
LEMMA UnlockStep ==
  ASSUME Inv, NEW t \in Threads, Unlock(t) PROVE Inv'
<1> USE DEF Unlock
<1>1. /\ pc' \in [Threads -> States]
      /\ at("write")' = at("write") \ {t} /\ t \in at("write")
      /\ \A c \in States \ {"write", "idle"} : at(c)' = at(c)
  BY Move, Zenon DEF Inv, States
<1>2. at("read")' = at("read") /\ at("lock")' = at("lock")
  BY <1>1, Zenon DEF States
<1>3. at("write")' = {}
  BY <1>1, Zenon DEF Inv, Exclusion
<1>4. Waiting' /\ changed' = {} /\ asleep' = {} /\ parking' = parking
  BY <1>2, Notified, Zenon DEF Inv, Waiting
<1>5. TypeOK'
  BY <1>1, <1>4, Zenon DEF Inv, TypeOK
<1>6. Exclusion'
  BY <1>2, <1>3, Zenon DEF Inv, Exclusion
<1> QED
  BY <1>4, <1>5, <1>6, Zenon DEF Inv

-----------------------------------------------------------------------------
(***************************************************************************)
(* A reader enters, at once or after a wait: no writer holds or wants the  *)
(* lock, and then nobody sleeps.                                           *)
(***************************************************************************)
LEMMA ReadStep ==
  ASSUME Inv, NEW t \in Threads, RLock(t) \/ RLockGranted(t) PROVE Inv'
<1>1. CASE RLock(t)
  <2> USE <1>1 DEF RLock, freeForReader
  <2>1. /\ pc' \in [Threads -> States]
        /\ at("idle")' = at("idle") \ {t} /\ at("read")' = at("read") \cup {t}
        /\ t \in at("idle") /\ t \notin at("read")
        /\ \A c \in States \ {"idle", "read"} : at(c)' = at(c)
    BY Move, Zenon DEF Inv, States
  <2>2. at("write")' = at("write") /\ at("lock")' = at("lock")
    BY <2>1, Zenon DEF States
  <2>3. at("write") = {}
    BY Zenon DEF Inv, Exclusion
  <2>4. Cardinality(at("read")') = Cardinality(at("read")) + 1
    BY <2>1, HeadCount, Zenon
  <2>5. TypeOK'
    BY <2>1 DEF Inv, TypeOK, waits
  <2>6. Exclusion'
    BY <2>2, <2>3, <2>4, Zenon DEF Inv, Exclusion
  <2>7. changed = {} /\ asleep = {} /\ cancelled = {}
    <3>1. at("lock") = {}
      BY HeadCount, Zenon DEF Inv, Exclusion
    <3> QED
      BY <3>1 DEF Inv, TypeOK, Waiting
  <2>8. Waiting'
    BY <2>7, Zenon DEF Waiting, waits
  <2> QED
    BY <2>2, <2>5, <2>6, <2>8, Zenon DEF Inv
<1>2. CASE RLockGranted(t)
  <2> USE <1>2 DEF RLockGranted, awake, freeForReader
  <2>1. /\ pc' \in [Threads -> States]
        /\ at("rlock")' = at("rlock") \ {t} /\ at("read")' = at("read") \cup {t}
        /\ t \in at("rlock") /\ t \notin at("read")
        /\ \A c \in States \ {"rlock", "read"} : at(c)' = at(c)
    BY Move, Zenon DEF Inv, States
  <2>2. at("write")' = at("write") /\ at("lock")' = at("lock")
    BY <2>1, Zenon DEF States
  <2>3. at("write") = {}
    BY Zenon DEF Inv, Exclusion
  <2>4. Cardinality(at("read")') = Cardinality(at("read")) + 1
    BY <2>1, HeadCount, Zenon
  <2>5. TypeOK'
    BY <2>1 DEF Inv, TypeOK, waits
  <2>6. Exclusion'
    BY <2>2, <2>3, <2>4, Zenon DEF Inv, Exclusion
  <2>7. changed = {} /\ asleep = {} /\ cancelled = {}
    <3>1. at("lock") = {}
      BY HeadCount, Zenon DEF Inv, Exclusion
    <3> QED
      BY <3>1 DEF Inv, TypeOK, Waiting
  <2>8. Waiting'
    BY <2>7, Zenon DEF Waiting, waits
  <2> QED
    BY <2>2, <2>5, <2>6, <2>8, Zenon DEF Inv
<1> QED
  BY <1>1, <1>2, Zenon

(***************************************************************************)
(* A reader that must wait goes to sleep while a writer holds or wants the *)
(* lock.                                                                   *)
(***************************************************************************)
LEMMA ReadWaitsStep ==
  ASSUME Inv, NEW t \in Threads, RLockWaits(t) \/ RLockWaitsOn(t) PROVE Inv'
<1>1. CASE RLockWaits(t)
  <2> USE <1>1 DEF RLockWaits, fields
  <2>1. /\ pc' \in [Threads -> States]
        /\ at("rlock")' = at("rlock") \cup {t}
        /\ \A c \in States \ {"idle", "rlock"} : at(c)' = at(c)
    BY Move, Zenon DEF Inv, States
  <2>2. at("read")' = at("read") /\ at("write")' = at("write") /\ at("lock")' = at("lock")
    BY <2>1, Zenon DEF States
  <2>3. t \notin at("lock")
    BY Zenon DEF at
  <2>4. TypeOK' /\ Exclusion'
    BY <2>1, <2>2, Zenon DEF Inv, TypeOK, Exclusion, changedLocked
  <2>5. locked \/ writers > 0
    BY DEF Inv, TypeOK, freeForReader
  <2>6. Waiting'
    BY <2>1, <2>2, <2>3, <2>5, Zenon DEF Inv, Waiting, changedLocked
  <2> QED
    BY <2>2, <2>4, <2>6, Zenon DEF Inv
<1>2. CASE RLockWaitsOn(t)
  <2> USE <1>2 DEF RLockWaitsOn, awake, fields
  <2>1. at("lock")' = at("lock") /\ at("rlock")' = at("rlock")
    BY Zenon DEF at
  <2>2. t \in at("rlock") /\ t \notin at("lock")
    BY Zenon DEF at
  <2>3. TypeOK' /\ Exclusion'
    BY Zenon DEF Inv, TypeOK, Exclusion, changedLocked, at
  <2>4. locked \/ writers > 0
    BY DEF Inv, TypeOK, freeForReader
  <2>5. Waiting'
    BY <2>1, <2>2, <2>4, Zenon DEF Inv, Waiting, changedLocked
  <2> QED
    BY <2>1, <2>3, <2>5, Zenon DEF Inv
<1> QED
  BY <1>1, <1>2, Zenon

(***************************************************************************)
(* RUnlock: the last reader wakes everybody, and before the last a sleeping*)
(* writer still has readers to wait for.                                   *)
(***************************************************************************)
LEMMA RUnlockStep ==
  ASSUME Inv, NEW t \in Threads, RUnlock(t) PROVE Inv'
<1> USE DEF RUnlock
<1>1. /\ pc' \in [Threads -> States]
      /\ at("read")' = at("read") \ {t} /\ t \in at("read")
      /\ \A c \in States \ {"read", "idle"} : at(c)' = at(c)
  BY Move, Zenon DEF Inv, States
<1>2. at("write")' = at("write") /\ at("lock")' = at("lock") /\ at("rlock")' = at("rlock")
  BY <1>1, Zenon DEF States
<1>3. at("write") = {}
  BY <1>1, Zenon DEF Inv, Exclusion
<1>4. /\ Cardinality(at("read")') = Cardinality(at("read")) - 1
      /\ Cardinality(at("read")) \in Nat /\ Cardinality(at("read")) # 0
  BY <1>1, HeadCount, Zenon
<1>5. TypeOK'
  BY <1>1, <1>4 DEF Inv, TypeOK, Exclusion, notifyLocked, waits
<1>6. Exclusion'
  BY <1>2, <1>3, <1>4, Zenon DEF Inv, Exclusion
<1>7. CASE lastReader /\ notifyLocked
  BY <1>2, <1>5, <1>6, <1>7, Notified, Zenon DEF Inv, Waiting
<1>8. CASE ~lastReader /\ UNCHANGED waits
  <2>1. readers' > 0
    BY <1>4, <1>8 DEF Inv, Exclusion, lastReader
  <2>2. Waiting'
    BY <1>2, <1>8, <2>1, Zenon DEF Inv, Waiting, waits
  <2> QED
    BY <1>2, <1>5, <1>6, <2>2, Zenon DEF Inv
<1> QED
  BY <1>7, <1>8, Zenon

-----------------------------------------------------------------------------
(***************************************************************************)
(* Every step of the gate preserves the invariant.                         *)
(***************************************************************************)
LEMMA Inductive == Inv /\ [Next]_vars => Inv'
<1> SUFFICES ASSUME Inv, [Next]_vars PROVE Inv'
  BY Zenon
<1>1. CASE UNCHANGED vars
  BY <1>1, Zenon DEF vars, fields, waits, Inv, TypeOK, Exclusion, Waiting, at
<1>2. CASE Next
  BY <1>2, LockContextStep, SelectStep, LockResumesStep, CancelStep, UnlockStep, ReadStep, ReadWaitsStep,
     RUnlockStep, Zenon DEF Next, RLockResumes
<1> QED
  BY <1>1, <1>2, Zenon

(***************************************************************************)
(* The invariant holds in every reachable state.                           *)
(***************************************************************************)
THEOREM Invariance == Spec => []Inv
  BY Initially, Inductive, PTL DEF Spec

(***************************************************************************)
(* The fields of the gate keep their types; neither counter drops below 0. *)
(***************************************************************************)
THEOREM TypeCorrect == Spec => []TypeOK
<1>1. Inv => TypeOK
  BY Zenon DEF Inv
<1> QED
  BY <1>1, Invariance, PTL

(***************************************************************************)
(* A goroutine between LockContext and Unlock is alone in the gate, and    *)
(* readers and writers count the holders and the waiting writers exactly.  *)
(***************************************************************************)
THEOREM ExclusionHolds == Spec => []Exclusion
<1>1. Inv => Exclusion
  BY Zenon DEF Inv
<1> QED
  BY <1>1, Invariance, PTL

(***************************************************************************)
(* Nobody sleeps without a holder or a waiting writer whose departure      *)
(* closes the channel it sleeps on, whatever happened between leaving m.mu *)
(* and the select.                                                         *)
(***************************************************************************)
THEOREM NoLostWakeupHolds == Spec => []NoLostWakeup
<1>1. Inv => NoLostWakeup
  BY Zenon DEF Inv, Waiting, NoLostWakeup
<1> QED
  BY <1>1, Invariance, PTL

(***************************************************************************)
(* While a writer waits no reader is let in.                               *)
(***************************************************************************)
THEOREM WritersFirstHolds == Spec => WritersFirst
<1> DEFINE Kept == at("lock") # {} /\ at("lock")' # {} => at("read")' \subseteq at("read")
<1>1. ASSUME Inv, [Next]_vars PROVE [Kept]_vars
  <2>1. CASE UNCHANGED vars
    BY <2>1, Zenon
  <2>2. CASE Next
    <3>1. PICK t \in Threads : \/ LockContext(t) \/ Select(t) \/ Cancel(t) \/ LockResumes(t) \/ Unlock(t)
                              \/ RLock(t) \/ RLockWaits(t) \/ RLockResumes(t) \/ RUnlock(t)
      BY <2>2, Zenon DEF Next
    <3>2. CASE RLock(t) \/ RLockGranted(t)
      <4>1. writers = 0
        BY <3>2, Zenon DEF RLock, RLockGranted, freeForReader
      <4> QED
        BY <1>1, <4>1, HeadCount, Zenon DEF Inv, Exclusion
    <3>3. CASE ~(RLock(t) \/ RLockGranted(t))
      <4>1. \A u \in Threads : pc'[u] = "read" => pc[u] = "read"
        BY <1>1, <3>1, <3>3, Zenon DEF Inv, TypeOK, LockContext, LockNow, LockCancelled, LockWaits,
           Select, Cancel, LockResumes, LockGivesUp, LockGranted, LockWaitsOn, Unlock, RLockWaits, RLockResumes,
           RLockWaitsOn, RUnlock, goto
      <4> QED
        BY <4>1, Zenon DEF at
    <3> QED
      BY <3>2, <3>3, Zenon
  <2> QED
    BY <1>1, <2>1, <2>2, Zenon
<1> QED
  BY <1>1, Invariance, PTL DEF Spec, WritersFirst
=============================================================================
