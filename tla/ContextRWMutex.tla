--------------------------- MODULE ContextRWMutex ---------------------------
(***************************************************************************)
(* The gate in front of the voice router's tables                          *)
(* (internal/webrtc/context_rwmutex.go): a readers/writer lock that        *)
(* prefers writers and whose writers can give up waiting.                  *)
(*                                                                         *)
(* All fields are read and written under m.mu, so each critical section is *)
(* one action.  A thread that cannot proceed takes the current channel     *)
(* m.changed and leaves the section; only then, in a step of its own, does *)
(* it block on the channel it took, unless that one is closed by now.      *)
(* notifyLocked closes the current channel and forgets it: who is blocked  *)
(* on it wakes up and tries again in another section.  m.changed is        *)
(* therefore the set of threads that took it and have not seen it closed.  *)
(***************************************************************************)
EXTENDS Integers, FiniteSets

CONSTANT Threads   \* the goroutines that use the gate

ASSUME ThreadsAssumption == IsFiniteSet(Threads)

VARIABLES
  readers, writers, locked,   \* the fields
  changed,    \* threads whose channel is the one m.changed holds
  parking,    \* threads that left the section and are about to block
  asleep,     \* threads that are blocked
  cancelled,  \* threads in LockContext whose context is done
  pc          \* "idle", waiting in "lock" or "rlock", or holding: "write", "read"

fields == <<readers, writers, locked>>
waits == <<changed, parking, asleep>>
vars == <<fields, waits, cancelled, pc>>

States == {"idle", "lock", "rlock", "write", "read"}
at(st) == {t \in Threads : pc[t] = st}

TypeOK ==
  /\ readers \in Nat /\ writers \in Nat /\ locked \in BOOLEAN
  /\ changed \subseteq Threads /\ parking \subseteq Threads /\ asleep \subseteq Threads
  /\ cancelled \subseteq Threads
  /\ pc \in [Threads -> States]

Init ==
  /\ readers = 0 /\ writers = 0 /\ locked = FALSE
  /\ changed = {} /\ parking = {} /\ asleep = {} /\ cancelled = {}
  /\ pc = [t \in Threads |-> "idle"]

-----------------------------------------------------------------------------
\* The channel is closed and forgotten.
notifyLocked ==
  /\ asleep' = asleep \ changed /\ changed' = {}
  /\ UNCHANGED parking

\* changedLocked, and m.mu.Unlock.
changedLocked(t) ==
  /\ changed' = changed \cup {t} /\ parking' = parking \cup {t}
  /\ UNCHANGED asleep

goto(t, st) == pc' = [pc EXCEPT ![t] = st]

\* Block on the channel taken before, if it is still open and no context has
\* ended; in the variant the channel is read from m.changed only now.
sleepOnCurrent(t) ==
  /\ changed' = changed \cup {t}
  /\ asleep' = IF t \in cancelled THEN asleep ELSE asleep \cup {t}
sleep(t) ==
  /\ asleep' = IF t \in changed \ cancelled THEN asleep \cup {t} ELSE asleep
  /\ UNCHANGED changed

freeOfWriters == ~locked   \* variant: the rest of either test forgotten
freeForWriter == ~locked /\ readers = 0
freeForReader == ~locked /\ writers = 0

(***************************************************************************)
(* LockContext: enter, and try once.  A writer that does not wait raises   *)
(* and lowers m.writers in one section; the deferred notifyLocked runs     *)
(* whenever the function returns, with the lock or with the error.         *)
(***************************************************************************)
LockNow(t) ==
  /\ pc[t] = "idle" /\ freeForWriter
  /\ locked' = TRUE /\ goto(t, "write") /\ notifyLocked
  /\ UNCHANGED <<readers, writers, cancelled>>

LockCancelled(t) ==
  /\ pc[t] = "idle"
  /\ notifyLocked
  /\ UNCHANGED <<fields, cancelled, pc>>

LockWaits(t) ==
  /\ pc[t] = "idle" /\ ~freeForWriter
  /\ writers' = writers + 1 /\ goto(t, "lock") /\ changedLocked(t)
  /\ UNCHANGED <<readers, locked, cancelled>>

\* select, and the receive of RLock.
Select(t) ==
  /\ t \in parking
  /\ parking' = parking \ {t} /\ sleep(t)
  /\ UNCHANGED <<fields, cancelled, pc>>

\* The context of a waiting writer ends; select returns.
Cancel(t) ==
  /\ pc[t] = "lock" /\ t \notin cancelled
  /\ cancelled' = cancelled \cup {t}
  /\ asleep' = asleep \ {t}
  /\ UNCHANGED <<fields, changed, parking, pc>>

\* The loop again, after the channel was closed or the context ended.
awake(t, st) == pc[t] = st /\ t \notin parking \cup asleep

LockGivesUp(t) ==
  /\ awake(t, "lock") /\ t \in cancelled
  /\ writers' = writers - 1 /\ goto(t, "idle") /\ notifyLocked
  /\ cancelled' = cancelled \ {t}
  /\ UNCHANGED <<readers, locked>>

LockGranted(t) ==
  /\ awake(t, "lock") /\ t \notin cancelled /\ freeForWriter
  /\ locked' = TRUE /\ writers' = writers - 1 /\ goto(t, "write") /\ notifyLocked
  /\ UNCHANGED <<readers, cancelled>>

LockWaitsOn(t) ==
  /\ awake(t, "lock") /\ t \notin cancelled /\ ~freeForWriter
  /\ changedLocked(t)
  /\ UNCHANGED <<fields, cancelled, pc>>

LockContext(t) == LockNow(t) \/ LockCancelled(t) \/ LockWaits(t)
LockResumes(t) == LockGivesUp(t) \/ LockGranted(t) \/ LockWaitsOn(t)

Unlock(t) ==
  /\ pc[t] = "write"
  /\ locked' = FALSE /\ goto(t, "idle") /\ notifyLocked
  /\ UNCHANGED <<readers, writers, cancelled>>

-----------------------------------------------------------------------------
\* RLock and, when it succeeds, TryRLock.
RLock(t) ==
  /\ pc[t] = "idle" /\ freeForReader
  /\ readers' = readers + 1 /\ goto(t, "read")
  /\ UNCHANGED <<writers, locked, waits, cancelled>>

RLockWaits(t) ==
  /\ pc[t] = "idle" /\ ~freeForReader
  /\ goto(t, "rlock") /\ changedLocked(t)
  /\ UNCHANGED <<fields, cancelled>>

RLockGranted(t) ==
  /\ awake(t, "rlock") /\ freeForReader
  /\ readers' = readers + 1 /\ goto(t, "read")
  /\ UNCHANGED <<writers, locked, waits, cancelled>>

RLockWaitsOn(t) ==
  /\ awake(t, "rlock") /\ ~freeForReader
  /\ changedLocked(t)
  /\ UNCHANGED <<fields, cancelled, pc>>

RLockResumes(t) == RLockGranted(t) \/ RLockWaitsOn(t)

noReader   == readers = 0   \* variant: tested before the decrement
lastReader == readers = 1
RUnlock(t) ==
  /\ pc[t] = "read"
  /\ readers' = readers - 1 /\ goto(t, "idle")
  /\ \/ lastReader /\ notifyLocked
     \/ ~lastReader /\ UNCHANGED waits
  /\ UNCHANGED <<writers, locked, cancelled>>

-----------------------------------------------------------------------------
Next ==
  \E t \in Threads :
    \/ LockContext(t) \/ Select(t) \/ Cancel(t) \/ LockResumes(t) \/ Unlock(t)
    \/ RLock(t) \/ RLockWaits(t) \/ RLockResumes(t) \/ RUnlock(t)

Spec == Init /\ [][Next]_vars

(***************************************************************************)
(* A goroutine that can run does, and a holder gives the lock back.        *)
(* sync.Mutex hands m.mu on to a goroutine that waits for long, but which  *)
(* of two awake writers comes first is open.                               *)
(***************************************************************************)
FairSpec ==
  /\ Spec
  /\ \A t \in Threads : /\ WF_vars(Select(t)) /\ WF_vars(LockResumes(t)) /\ WF_vars(RLockResumes(t))
                        /\ WF_vars(Unlock(t)) /\ WF_vars(RUnlock(t))

-----------------------------------------------------------------------------
(***************************************************************************)
(* A writer is alone, and the fields count what they say: holders and      *)
(* waiting writers (m.writers survives every way out of LockContext).      *)
(***************************************************************************)
Exclusion ==
  /\ \A t \in at("write") : at("write") = {t} /\ at("read") = {}
  /\ locked <=> at("write") # {}
  /\ readers = Cardinality(at("read"))
  /\ writers = Cardinality(at("lock"))

(***************************************************************************)
(* No wakeup is lost: who sleeps has a reason to, and whoever takes the    *)
(* reason away closes the channel, before or after the sleeper has blocked *)
(* on it (m.mu is released before the select).  A writer sleeps only while *)
(* its context lives and somebody holds the lock, a reader only while a    *)
(* writer holds or wants it.                                               *)
(***************************************************************************)
NoLostWakeup ==
  /\ \A t \in asleep \cap at("lock") : t \notin cancelled /\ (locked \/ readers > 0)
  /\ \A t \in asleep \cap at("rlock") : locked \/ writers > 0
  /\ asleep \subseteq at("lock") \cup at("rlock")

(***************************************************************************)
(* Writers are preferred: while one waits, readers only leave              *)
(* (RLock and TryRLock test m.writers).                                    *)
(***************************************************************************)
WritersFirst ==
  [][at("lock") # {} /\ at("lock")' # {} => at("read")' \subseteq at("read")]_vars

(***************************************************************************)
(* Readers alone never starve a writer: one that waits for ever is         *)
(* overtaken by other writers again and again, since holders leave, the    *)
(* last one wakes it and no reader is let in before it.                    *)
(***************************************************************************)
OnlyWritersStarveWriters ==
  \A t \in Threads :
    <>[](pc[t] = "lock") => ([]<>(at("write") = {}) /\ []<>(at("write") # {}))
=============================================================================
