------------------------- MODULE PrivateCallsProofs -------------------------
(***************************************************************************)
(* The invariants of private calls, for any numbers of accounts, sessions, *)
(* groups and calls.  First what one change does to the calls in memory:   *)
(* the operators of a call, publishing, saving, and the requests and       *)
(* cleanups built from them, each shown to preserve the invariant Core.    *)
(* Then the start of a call and the remaining steps, the theorems about    *)
(* the calls in memory, and those about the history.                       *)
(***************************************************************************)
EXTENDS PrivateCalls, TLAPS
PStates == Active \cup {"out", "declined", "missed", "left"}

\* The types: of the calls' identities, of the memory that a publish writes,
\* of the timers, of the history and of the world around.
IdTyped ==
  /\ lastCall \in 0..MaxCalls
  /\ caller \in [Calls -> Accounts \cup {None}]
  /\ group \in [Calls -> Groups \cup {NoGroup}]
MemTyped ==
  /\ calls \subseteq Calls /\ over \subseteq Calls /\ retiring \subseteq Calls
  /\ pstate \in [Calls -> [Accounts -> PStates]]
  /\ bound \in [Calls -> [Accounts -> Sessions \cup {None}]]
  /\ revision \in [Calls -> Nat]
  /\ byClient \in [Sessions -> Calls \cup {None}]
  /\ phone \in [Calls -> SUBSET Accounts]
TimerTyped ==
  /\ rungOut \subseteq Calls /\ expiring \subseteq Calls /\ dirty \subseteq Calls
  /\ retries \in [Calls -> Nat]
HistTyped ==
  /\ storedRev \in [Calls -> Nat] /\ storedOver \subseteq Calls
  /\ stored \in [Calls -> [Accounts -> PStates]]
EnvTyped ==
  /\ online \subseteq Sessions /\ closing \subseteq Sessions
  /\ members \in [Groups -> SUBSET Accounts]
  /\ leaving \subseteq Groups \X Accounts
Typed == IdTyped /\ MemTyped /\ TimerTyped /\ HistTyped /\ EnvTyped

\* A call that was never started is nowhere.
Blank ==
  \A i \in Calls : i > lastCall =>
    /\ i \notin calls /\ i \notin over /\ phone[i] = {} /\ i \notin storedOver /\ storedRev[i] = 0 /\ revision[i] = 0
    /\ \A a \in Accounts : pstate[i][a] = "out"

\* An account is bound to sessions of its own.
Owned ==
  \A i \in Calls, a \in Accounts : bound[i][a] # None => Owner[bound[i][a]] = a

\* Only calls that have ended are to be retired.
RetiringOver == retiring \subseteq over

\* The inductive invariant of the calls in memory.
Core ==
  /\ Typed /\ Blank /\ Owned /\ RetiringOver
  /\ BindingExact /\ LiveCallsViable /\ PhonesRing

\* What is shown of a step other than the start of a call: who takes part in a
\* live call after it did so before, and bindings change to sessions online.
Fades ==
  \A i \in calls', a \in Accounts :
    /\ i \notin over' /\ pstate'[i][a] \in Active => i \in calls \ over /\ pstate[i][a] \in Active
    /\ bound'[i][a] = bound[i][a] \/ bound'[i][a] \in online

-----------------------------------------------------------------------------
(* The operators.                                                          *)

\* finishIfEmpty keeps the types, lets nobody begin to take part, and leaves
\* nobody ringing in a call that is not viable.
LEMMA FinishFacts ==
  ASSUME NEW c, NEW P \in [Accounts -> PStates]
  PROVE  LET F == finishIfEmpty(c, P) IN
         /\ F \in [Accounts -> PStates]
         /\ \A a \in Accounts : F[a] \in Active => P[a] = F[a]
         /\ \A a \in Accounts : P[a] = "accepted" => F[a] = "accepted"
         /\ ~viable(c, F) => having(F, "ringing") = {}
<1> DEFINE M == [a \in Accounts |-> IF P[a] = "ringing" THEN "missed" ELSE P[a]]
           F == finishIfEmpty(c, P)
<1>1. M \in [Accounts -> PStates] /\ having(M, "ringing") = {}
  BY Zenon DEF PStates, having
<1>2. \A a \in Accounts : (M[a] \in Active => P[a] = M[a]) /\ (P[a] = "accepted" => M[a] = "accepted")
  BY Zenon DEF Active
<1>3. CASE viable(c, P)
  BY <1>3, Zenon DEF finishIfEmpty
<1>4. CASE ~viable(c, P)
  BY <1>1, <1>2, Zenon DEF finishIfEmpty
<1> QED
  BY <1>3, <1>4, Zenon

\* What a participant's own change and the ring timeout make of a call.
LEMMA ChangedFacts ==
  ASSUME NEW c, NEW P \in [Accounts -> PStates], NEW a \in Accounts, NEW st \in PStates
  PROVE  LET F == changed(c, P, a, st) IN
         /\ F \in [Accounts -> PStates]
         /\ \A b \in Accounts : F[b] \in Active => F[b] = IF b = a THEN st ELSE P[b]
         /\ ~viable(c, F) => having(F, "ringing") = {}
<1> DEFINE Q == [P EXCEPT ![a] = st]
<1>1. Q \in [Accounts -> PStates] /\ \A b \in Accounts : Q[b] = IF b = a THEN st ELSE P[b]
  BY Zenon
<1> HIDE DEF Q
<1>2. LET F == finishIfEmpty(c, Q) IN
      /\ F \in [Accounts -> PStates]
      /\ \A b \in Accounts : F[b] \in Active => Q[b] = F[b]
      /\ ~viable(c, F) => having(F, "ringing") = {}
  BY <1>1, FinishFacts
<1>3. changed(c, P, a, st) = finishIfEmpty(c, Q)
  BY Zenon DEF changed, Q
<1> QED
  BY <1>1, <1>2, <1>3, Zenon

LEMMA ExpiredFacts ==
  ASSUME NEW c, NEW P \in [Accounts -> PStates]
  PROVE  LET F == expired(c, P) IN
         /\ F \in [Accounts -> PStates]
         /\ \A b \in Accounts : F[b] \in Active => F[b] = P[b]
         /\ ~viable(c, F) => having(F, "ringing") = {}
<1> DEFINE Q == [b \in Accounts |-> IF P[b] = "ringing" THEN "missed" ELSE P[b]]
<1>1. Q \in [Accounts -> PStates] /\ \A b \in Accounts : Q[b] \in Active => Q[b] = P[b]
  BY Zenon DEF PStates, Active
<1> HIDE DEF Q
<1>2. LET F == finishIfEmpty(c, Q) IN
      /\ F \in [Accounts -> PStates]
      /\ \A b \in Accounts : F[b] \in Active => Q[b] = F[b]
      /\ ~viable(c, F) => having(F, "ringing") = {}
  BY <1>1, FinishFacts
<1>3. expired(c, P) = finishIfEmpty(c, Q)
  BY Zenon DEF expired, Q
<1> QED
  BY <1>1, <1>2, <1>3, Zenon

\* A viable call has somebody to talk to.
LEMMA ViableFacts ==
  ASSUME NEW c, NEW P, viable(c, P)
  PROVE  \E a, b \in Accounts : /\ a # b /\ P[a] = "accepted"
                                /\ P[b] = "accepted" \/ (a = c /\ P[b] = "ringing")
<1>1. CASE \E a, b \in having(P, "accepted") : a # b
  BY <1>1, Zenon DEF having
<1>2. CASE c \in having(P, "accepted") /\ having(P, "ringing") # {}
  BY <1>2, Zenon DEF having
<1> QED
  BY <1>1, <1>2, Zenon DEF viable

-----------------------------------------------------------------------------
(* Publishing.                                                             *)

\* What every caller of publishPrivateCallLocked passes to it.  The calls have
\* not ended, or are new.
Fresh(S, E) ==
  /\ S \subseteq Calls /\ E \subseteq S /\ S \cap over = {}
  /\ \A i \in S : i \in calls \/ i > lastCall

Shaped(S, NP, NB) ==
  \A i \in S : NP[i] \in [Accounts -> PStates] /\ NB[i] \in [Accounts -> Sessions \cup {None}]

\* Accounts are bound to sessions of theirs, and nobody is taken from the
\* session they are bound to.
Rightful(S, NB) ==
  \A i \in S, a \in Accounts :
    /\ NB[i][a] # None => Owner[NB[i][a]] = a
    /\ i \in calls /\ bound[i][a] # None => NB[i][a] = bound[i][a]

\* A session takes part in at most one of the calls, the one it is in.
Single(S, NP, NB, E) ==
  \A s \in Sessions, i \in S : takesPart(NP, NB, E, i, s) =>
    /\ byClient[s] \in {None, i}
    /\ \A j \in S : takesPart(NP, NB, E, j, s) => i = j

Sound(S, NP, NB, E) == Fresh(S, E) /\ Shaped(S, NP, NB) /\ Rightful(S, NB) /\ Single(S, NP, NB, E)

Publishes(S, NP, NB, E) == Sound(S, NP, NB, E) /\ publishPrivateCall(S, NP, NB, E)

\* The sets of calls after a publish.
LEMMA PublishedSets ==
  ASSUME NEW S, NEW NP, NEW NB, NEW E, Publishes(S, NP, NB, E)
  PROVE  /\ calls' = calls \cup S /\ over' = over \cup E /\ retiring' = retiring \cup E
         /\ S \subseteq Calls /\ E \subseteq S /\ S \cap over = {}
         /\ \A i \in S : i \in calls \/ i > lastCall
  BY Zenon DEF Publishes, Sound, Fresh, publishPrivateCall

\* A published call, and one that is not.
LEMMA PublishedIn ==
  ASSUME NEW S, NEW NP, NEW NB, NEW E, Publishes(S, NP, NB, E), NEW i \in S
  PROVE  /\ pstate'[i] = NP[i] /\ bound'[i] = NB[i] /\ revision'[i] = revision[i] + 1
         /\ phone'[i] = push(i, NP[i], i \in E)
<1>1. publishPrivateCall(S, NP, NB, E) /\ i \in Calls
  BY PublishedSets DEF Publishes
<1> QED
  BY <1>1, Zenon DEF publishPrivateCall

LEMMA PublishedOut ==
  ASSUME NEW S, NEW NP, NEW NB, NEW E, Publishes(S, NP, NB, E), NEW i \in Calls, i \notin S
  PROVE  /\ pstate'[i] = pstate[i] /\ bound'[i] = bound[i]
         /\ revision'[i] = revision[i] /\ phone'[i] = phone[i]
  BY Zenon DEF Publishes, publishPrivateCall

\* A publish keeps the types.
LEMMA PublishTyped ==
  ASSUME MemTyped, NEW S, NEW NP, NEW NB, NEW E, Publishes(S, NP, NB, E)
  PROVE  MemTyped'
<1>1. S \subseteq Calls /\ E \subseteq S
  BY PublishedSets, Zenon
<1>2. calls' \subseteq Calls /\ over' \subseteq Calls /\ retiring' \subseteq Calls
  BY PublishedSets DEF MemTyped
<1>3. publishPrivateCall(S, NP, NB, E) /\ Shaped(S, NP, NB)
  BY Zenon DEF Publishes, Sound
<1>4. pstate' \in [Calls -> [Accounts -> PStates]] /\ bound' \in [Calls -> [Accounts -> Sessions \cup {None}]]
  BY <1>3, Zenon DEF publishPrivateCall, MemTyped, Shaped
<1>5. revision' \in [Calls -> Nat]
  BY <1>3 DEF publishPrivateCall, MemTyped
<1>6. ASSUME NEW s \in Sessions PROVE bind(S, NP, NB, E, s) \in Calls \cup {None}
  <2> DEFINE T(i) == takesPart(NP, NB, E, i, s)
  <2>1. (\E i \in S : T(i)) => (CHOOSE i \in S : T(i)) \in S
    BY Zenon
  <2>2. byClient[s] \in Calls \cup {None}
    BY Zenon DEF MemTyped
  <2> QED
    BY <1>1, <2>2, Zenon DEF bind
<1>7. byClient' \in [Sessions -> Calls \cup {None}]
  BY <1>3, <1>6, Zenon DEF publishPrivateCall
<1>8. phone' \in [Calls -> SUBSET Accounts]
  BY <1>3, Zenon DEF push, publishPrivateCall, MemTyped
<1> QED
  BY <1>2, <1>4, <1>5, <1>7, <1>8, Zenon DEF MemTyped

\* After a publish privateCallByClient is exact again.
LEMMA PublishBinding ==
  ASSUME MemTyped, BindingExact, NEW S, NEW NP, NEW NB, NEW E, Publishes(S, NP, NB, E)
  PROVE  BindingExact'
<1> SUFFICES ASSUME NEW s \in Sessions, NEW i \in Calls
             PROVE  byClient'[s] = i <=> live(i)' /\ bound'[i][Owner[s]] = s /\ pstate'[i][Owner[s]] \in Active
  BY Zenon DEF BindingExact
<1> DEFINE T(j) == takesPart(NP, NB, E, j, s)
           c == byClient[s]
<1>1. /\ calls' = calls \cup S /\ over' = over \cup E
      /\ E \subseteq S /\ S \cap over = {} /\ S \subseteq Calls
  BY PublishedSets
<1>2. Owner[s] \in Accounts /\ s # None
  BY PrivateCallsAssumption, Zenon
<1>3. byClient'[s] = bind(S, NP, NB, E, s)
  BY Zenon DEF Publishes, publishPrivateCall
<1>4. \A j \in Calls : c = j <=> live(j) /\ bound[j][Owner[s]] = s /\ pstate[j][Owner[s]] \in Active
  BY Zenon DEF BindingExact
<1>5. i \in S => (live(i)' /\ bound'[i][Owner[s]] = s /\ pstate'[i][Owner[s]] \in Active <=> T(i))
  <2> HAVE i \in S
  <2>1. pstate'[i] = NP[i] /\ bound'[i] = NB[i]
    BY PublishedIn
  <2>2. live(i)' <=> i \notin E
    BY <1>1, Zenon DEF live
  <2> QED
    BY <2>1, <2>2, Zenon DEF takesPart
<1>6. i \notin S => (live(i)' /\ bound'[i][Owner[s]] = s /\ pstate'[i][Owner[s]] \in Active <=> c = i)
  <2> HAVE i \notin S
  <2>1. pstate'[i] = pstate[i] /\ bound'[i] = bound[i]
    BY PublishedOut, Zenon
  <2>2. live(i)' <=> live(i)
    BY <1>1, Zenon DEF live
  <2> QED
    BY <1>4, <2>1, <2>2, Zenon
<1>7. c \in Calls \cup {None} /\ None \notin Calls
  BY PrivateCallsAssumption, Zenon DEF MemTyped, Calls
<1>8. c \in S => NB[c][Owner[s]] = s
  <2> HAVE c \in S
  <2>1. c \in calls /\ bound[c][Owner[s]] = s
    BY <1>1, <1>4, Zenon DEF live
  <2> QED
    BY <1>2, <2>1, Zenon DEF Publishes, Sound, Rightful
<1>9. \A j \in S : T(j) => c \in {None, j} /\ \A k \in S : T(k) => j = k
  BY Zenon DEF Publishes, Sound, Single
<1>10. ASSUME NEW j \in S, T(j) PROVE bind(S, NP, NB, E, s) = j /\ c \in {None, j}
  BY <1>9, <1>10, Zenon DEF bind
<1>11. ASSUME \A j \in S : ~T(j) PROVE bind(S, NP, NB, E, s) = IF c \in S THEN None ELSE c
  BY <1>8, <1>11, Zenon DEF bind
<1> HIDE DEF T, c
<1>12. CASE \E j \in S : T(j)
  <2>1. PICK j \in S : T(j)
    BY <1>12, Zenon
  <2>2. byClient'[s] = j /\ c \in {None, j}
    BY <1>3, <1>10, <2>1, Zenon
  <2>3. T(i) /\ i \in S => i = j
    BY <1>9, <2>1, Zenon
  <2> QED
    BY <1>5, <1>6, <1>7, <2>1, <2>2, <2>3, Zenon
<1>13. CASE \A j \in S : ~T(j)
  BY <1>3, <1>5, <1>6, <1>7, <1>11, <1>13, Zenon
<1> QED
  BY <1>12, <1>13, Zenon

\* After a publish the phones ring exactly where the calls do.
LEMMA PublishPhones ==
  ASSUME MemTyped, Blank, PhonesRing, NEW S, NEW NP, NEW NB, NEW E, Publishes(S, NP, NB, E)
  PROVE  PhonesRing'
<1> SUFFICES ASSUME NEW i \in calls'
             PROVE  phone'[i] = {a \in Accounts : i \notin over' /\ pstate'[i][a] = "ringing"}
  BY Zenon DEF PhonesRing
<1>1. /\ calls' = calls \cup S /\ over' = over \cup E /\ S \subseteq Calls
      /\ E \subseteq S /\ S \cap over = {} /\ \A j \in S : j \in calls \/ j > lastCall
  BY PublishedSets
<1>2. CASE i \in S
  BY <1>1, <1>2, PublishedIn DEF PhonesRing, rings, Blank, push
<1>3. CASE i \notin S
  BY <1>1, <1>3, PublishedOut DEF MemTyped, PhonesRing
<1> QED
  BY <1>2, <1>3, Zenon

\* The published calls that go on are viable, and nobody rings in those that
\* have ended; the others keep their callers.
Viably(S, NP, E) ==
  /\ \A i \in S : IF i \in E THEN having(NP[i], "ringing") = {} ELSE viable(caller'[i], NP[i])
  /\ \A i \in calls : caller'[i] = caller[i]

\* Then every live call is viable after the publish.
LEMMA PublishViable ==
  ASSUME MemTyped, LiveCallsViable, NEW S, NEW NP, NEW NB, NEW E, Publishes(S, NP, NB, E), Viably(S, NP, E)
  PROVE  LiveCallsViable'
<1> DEFINE Goes(c, P) == \E a, b \in Accounts :
             a # b /\ P[a] = "accepted" /\ (P[b] = "accepted" \/ (a = c /\ P[b] = "ringing"))
<1> SUFFICES ASSUME NEW i \in calls'
             PROVE  /\ i \notin over' => Goes(caller'[i], pstate'[i])
                    /\ i \in over' => having(pstate'[i], "ringing") = {}
  BY Zenon DEF LiveCallsViable
<1>1. /\ calls' = calls \cup S /\ over' = over \cup E /\ S \subseteq Calls
      /\ E \subseteq S /\ S \cap over = {}
  BY PublishedSets
<1>2. CASE i \in S
  BY <1>1, <1>2, PublishedIn, ViableFacts DEF Viably
<1>3. CASE i \notin S
  <2>1. i \in calls /\ (i \in over' <=> i \in over)
    BY <1>1, <1>3, Zenon
  <2>2. pstate'[i] = pstate[i]
    BY <1>3, <2>1, PublishedOut, Zenon DEF MemTyped
  <2>3. caller'[i] = caller[i]
    BY <2>1, Zenon DEF Viably
  <2>4. /\ i \notin over => Goes(caller[i], pstate[i])
        /\ i \in over => having(pstate[i], "ringing") = {}
    BY <2>1, Zenon DEF LiveCallsViable
  <2> HIDE DEF Goes
  <2> QED
    BY <2>1, <2>2, <2>3, <2>4, Zenon
<1> QED
  BY <1>2, <1>3, Zenon

\* After a publish the bindings are owned.
LEMMA PublishOwned ==
  ASSUME Owned, NEW S, NEW NP, NEW NB, NEW E, Publishes(S, NP, NB, E)
  PROVE  Owned'
<1> SUFFICES ASSUME NEW i \in Calls, NEW a \in Accounts
             PROVE  bound'[i][a] # None => Owner[bound'[i][a]] = a
  BY Zenon DEF Owned
<1>1. CASE i \in S
  BY <1>1, PublishedIn DEF Publishes, Sound, Rightful
<1>2. CASE i \notin S
  BY <1>2, PublishedOut DEF Owned
<1> QED
  BY <1>1, <1>2, Zenon

-----------------------------------------------------------------------------
(* Saving, and the invariant of the memory.                                *)

\* The calls are numbers.
LEMMA CallsNat == Calls \subseteq Nat /\ None \notin Calls
  BY PrivateCallsAssumption DEF Calls

LEMMA LastCallNat ==
  ASSUME IdTyped PROVE lastCall \in Nat
  BY DEF IdTyped

\* The calls in memory have been started.
LEMMA CallsStarted ==
  ASSUME IdTyped, MemTyped, Blank, NEW i \in calls
  PROVE  i \in Nat /\ lastCall \in Nat /\ i <= lastCall
<1>1. i \in Calls /\ i \in Nat /\ lastCall \in Nat
  BY CallsNat, LastCallNat, Zenon DEF MemTyped
<1>2. ~(i > lastCall)
  BY <1>1, Zenon DEF Blank
<1> QED
  BY <1>1, <1>2

\* The history after a save: of a call that is not saved, or not newer than
\* its row, and of one that is.
LEMMA SavedOut ==
  ASSUME NEW T, NEW NP, NEW rev, NEW E, save(T, NP, rev, E), NEW i \in Calls, i \notin T \/ ~(storedRev[i] < rev[i])
  PROVE  /\ storedRev'[i] = storedRev[i] /\ stored'[i] = stored[i]
         /\ i \in storedOver' <=> i \in storedOver
  BY Zenon DEF save, newer

LEMMA SavedIn ==
  ASSUME NEW T, NEW NP, NEW rev, NEW E, save(T, NP, rev, E), NEW i \in Calls, i \in T, storedRev[i] < rev[i]
  PROVE  /\ storedRev'[i] = rev[i] /\ stored'[i] = NP[i]
         /\ i \in storedOver' <=> i \in E
  BY Zenon DEF save, newer

LEMMA SaveTyped ==
  ASSUME HistTyped, NEW T \in SUBSET Calls, NEW NP, NEW rev \in [Calls -> Nat], NEW E, save(T, NP, rev, E),
         \A i \in T : NP[i] \in [Accounts -> PStates]
  PROVE  HistTyped'
<1>1. storedRev' \in [Calls -> Nat]
  BY Zenon DEF HistTyped, save, newer
<1>2. stored' \in [Calls -> [Accounts -> PStates]]
  BY Zenon DEF HistTyped, save, newer
<1>3. storedOver' \subseteq Calls
  BY Zenon DEF HistTyped, save, newer
<1> QED
  BY <1>1, <1>2, <1>3, Zenon DEF HistTyped

\* A call that was never started is not in the history.
Unsaved == \A i \in Calls : i > lastCall => storedRev[i] = 0 /\ i \notin storedOver

\* A save of calls that have been started keeps it so.
LEMMA SaveUnsaved ==
  ASSUME Blank, NEW T, NEW NP, NEW rev, NEW E, save(T, NP, rev, E),
         \A i \in Calls : i > lastCall' => i > lastCall /\ i \notin T
  PROVE  Unsaved'
<1> SUFFICES ASSUME NEW i \in Calls, i > lastCall'
             PROVE  storedRev'[i] = 0 /\ i \notin storedOver'
  BY Zenon DEF Unsaved
<1>1. i > lastCall /\ i \notin T
  BY Zenon
<1>2. storedRev'[i] = storedRev[i] /\ (i \in storedOver' <=> i \in storedOver)
  BY SavedOut, Zenon
<1>3. storedRev[i] = 0 /\ i \notin storedOver
  BY Zenon DEF Blank
<1> QED
  BY <1>2, <1>3, Zenon

\* The published calls have been started by the end of the step.
Numbered(S) == lastCall' >= lastCall /\ \A i \in S : i <= lastCall'

\* A publish preserves the invariant of the memory.
LEMMA PublishStep ==
  ASSUME Core, Typed', NEW S, NEW NP, NEW NB, NEW E, Publishes(S, NP, NB, E),
         Viably(S, NP, E), Numbered(S), Unsaved'
  PROVE  Core'
<1>1. Typed /\ Blank /\ Owned /\ RetiringOver /\ BindingExact /\ LiveCallsViable /\ PhonesRing
  BY Zenon DEF Core
<1>2. MemTyped /\ IdTyped /\ IdTyped'
  BY <1>1, Zenon DEF Typed
<1>3. BindingExact'
  BY <1>1, <1>2, PublishBinding, Zenon
<1>4. PhonesRing'
  BY <1>1, <1>2, PublishPhones, Zenon
<1>5. LiveCallsViable'
  BY <1>1, <1>2, PublishViable, Zenon
<1>6. Owned'
  BY <1>1, PublishOwned, Zenon
<1>7. RetiringOver'
  BY <1>1, PublishedSets, Zenon DEF RetiringOver
<1>8. Blank'
  BY <1>1, <1>2, LastCallNat, CallsNat, PrivateCallsAssumption, PublishedSets, PublishedOut DEF Blank,
     IdTyped, Numbered, Unsaved
<1> QED
  BY <1>3, <1>4, <1>5, <1>6, <1>7, <1>8, Zenon DEF Core

\* The calls are left as they are, or calls that have ended are taken out of
\* memory.
Quiet ==
  /\ UNCHANGED <<pstate, bound, over, revision, byClient, phone>>
  /\ retiring' \subseteq retiring
  /\ calls' \subseteq calls /\ calls \ calls' \subseteq over
  /\ \A i \in calls : caller'[i] = caller[i]
  /\ lastCall' >= lastCall

\* Such a step preserves the invariant, too.
LEMMA QuietStep ==
  ASSUME Core, Typed', Quiet, Unsaved'
  PROVE  Core' /\ Fades
<1>1. Typed /\ Blank /\ Owned /\ RetiringOver /\ BindingExact /\ LiveCallsViable /\ PhonesRing
  BY Zenon DEF Core
<1>2. pstate' = pstate /\ bound' = bound /\ over' = over /\ revision' = revision /\ byClient' = byClient /\ phone' = phone
  BY Zenon DEF Quiet
<1>3. calls' \subseteq calls /\ calls \ calls' \subseteq over /\ \A i \in calls : caller'[i] = caller[i]
  BY Zenon DEF Quiet
<1>4. Owned'
  BY <1>1, <1>2, Zenon DEF Owned
<1>5. RetiringOver'
  BY <1>1, Zenon DEF RetiringOver, Quiet
<1>6. BindingExact'
  BY <1>1, <1>2, <1>3, Zenon DEF live, BindingExact
<1>7. PhonesRing'
  BY <1>1, <1>2, <1>3 DEF PhonesRing
<1>8. LiveCallsViable'
  BY <1>1, <1>2, <1>3 DEF LiveCallsViable
<1>9. Blank'
  <2>1. lastCall \in Nat /\ lastCall' \in Nat /\ lastCall' >= lastCall
    BY <1>1 DEF Typed, IdTyped, Quiet
  <2>2. \A i \in Calls : i > lastCall' => i > lastCall
    BY <2>1, CallsNat
  <2> QED
    BY <1>1, <1>2, <1>3, <2>2, Zenon DEF Blank, Unsaved
<1>10. Fades
  BY <1>2, <1>3, Zenon DEF Fades
<1> QED
  BY <1>4, <1>5, <1>6, <1>7, <1>8, <1>9, <1>10, Zenon DEF Core

-----------------------------------------------------------------------------
(* Cleanups and requests.                                                  *)

\* The participants NP of the calls S after a change in which nobody begins to
\* take part.
Faded(S, NP) ==
  \A i \in S :
    /\ NP[i] \in [Accounts -> PStates]
    /\ \A a \in Accounts : NP[i][a] \in Active => pstate[i][a] \in Active
    /\ ~viable(caller[i], NP[i]) => having(NP[i], "ringing") = {}

\* The revisions after a change.
LEMMA NextRevisionType ==
  ASSUME MemTyped, NEW S
  PROVE  /\ nextRevision(S) \in [Calls -> Nat]
         /\ \A i \in Calls : nextRevision(S)[i] = IF i \in S THEN revision[i] + 1 ELSE revision[i]
  BY DEF nextRevision, MemTyped

\* saveCallCleanup saves some of the calls it is given; those it could not
\* save are dirty and retried.
LEMMA CleanupSaved ==
  ASSUME TimerTyped, NEW S \in SUBSET Calls, NEW NP, NEW rev, NEW E, saveCallCleanup(S, NP, rev, E)
  PROVE  /\ \E T \in SUBSET S : /\ save(T, NP, rev, E)
                                /\ seen(T, rev)
                                /\ \A i \in S : i \notin T => i \in dirty'
         /\ dirty' \subseteq Calls /\ \A i \in Calls \ S : i \in dirty' <=> i \in dirty
         /\ retries' \in [Calls -> Nat]
<1>1. PICK ok \in SUBSET S :
        /\ \E landed \in IF "landed" \in Failures THEN SUBSET (S \ ok) ELSE {{}} :
             save(ok \cup landed, NP, rev, E) /\ seen(ok \cup landed, rev)
        /\ dirty' = (dirty \ ok) \cup (S \ ok)
        /\ retries' = [i \in Calls |-> IF i \in (S \ ok) \ dirty THEN retries[i] + 1 ELSE retries[i]]
  BY Zenon DEF saveCallCleanup
<1>2. PICK landed \in SUBSET (S \ ok) : /\ save(ok \cup landed, NP, rev, E)
                                        /\ seen(ok \cup landed, rev)
  BY <1>1, Zenon
<1>3. ok \cup landed \in SUBSET S
  BY Zenon
<1>4. \A i \in S : i \notin ok \cup landed => i \in dirty'
  BY <1>1, Zenon
<1>5. dirty' \subseteq Calls /\ \A i \in Calls \ S : i \in dirty' <=> i \in dirty
  BY <1>1, Zenon DEF TimerTyped
<1>6. retries' \in [Calls -> Nat]
  BY <1>1 DEF TimerTyped
<1> QED
  BY <1>2, <1>3, <1>4, <1>5, <1>6, Zenon

\* A cleanup publishes soundly.
LEMMA CleanUpSound ==
  ASSUME MemTyped, Owned, BindingExact, NEW S \in SUBSET (calls \ over), NEW NP, Faded(S, NP)
  PROVE  Sound(S, NP, bound, emptied(S, NP))
<1> DEFINE E == emptied(S, NP)
<1>1. S \subseteq Calls /\ E \subseteq S /\ S \cap over = {} /\ S \subseteq calls
  BY Zenon DEF MemTyped, emptied
<1>2. Fresh(S, E)
  BY <1>1, Zenon DEF Fresh
<1>3. Shaped(S, NP, bound)
  BY Zenon DEF Faded, MemTyped, Shaped
<1>4. Rightful(S, bound)
  BY <1>1, Zenon DEF Owned, Rightful
<1>5. ASSUME NEW s \in Sessions, NEW i \in S, takesPart(NP, bound, E, i, s) PROVE byClient[s] = i
  BY <1>1, <1>5, PrivateCallsAssumption DEF takesPart, Faded, live, BindingExact
<1> HIDE DEF E
<1>6. Single(S, NP, bound, E)
  BY <1>5, Zenon DEF Single
<1> QED
  BY <1>2, <1>3, <1>4, <1>6, Zenon DEF Sound, E

\* A publish of faded participants that binds to sessions online fades.
LEMMA PublishFades ==
  ASSUME MemTyped, NEW S \in SUBSET (calls \ over), NEW NP, NEW NB, NEW E,
         Publishes(S, NP, NB, E), Faded(S, NP),
         \A i \in S, a \in Accounts : NB[i][a] = bound[i][a] \/ NB[i][a] \in online
  PROVE  Fades
<1> SUFFICES ASSUME NEW i \in calls', NEW a \in Accounts
             PROVE  /\ i \notin over' /\ pstate'[i][a] \in Active => i \in calls \ over /\ pstate[i][a] \in Active
                    /\ bound'[i][a] = bound[i][a] \/ bound'[i][a] \in online
  BY Zenon DEF Fades
<1>1. calls' = calls \cup S /\ over' = over \cup E /\ S \subseteq calls
  BY PublishedSets, Zenon
<1>2. i \in calls /\ (i \notin over' => i \notin over)
  BY <1>1, Zenon
<1>3. CASE i \in S
  BY <1>3, PublishedIn DEF Faded
<1>4. CASE i \notin S
  BY <1>2, <1>4, PublishedOut, Zenon DEF MemTyped
<1> QED
  BY <1>3, <1>4, Zenon

\* A cleanup preserves the invariant.
LEMMA CleanUpStep ==
  ASSUME Core, NEW S \in SUBSET (calls \ over), NEW NP, Faded(S, NP), cleanUp(S, NP),
         UNCHANGED call, UNCHANGED rungOut, expiring' \subseteq Calls, EnvTyped'
  PROVE  Core' /\ Fades
<1> DEFINE E == emptied(S, NP)
<1>1. Typed /\ Blank /\ Owned /\ BindingExact
  BY Zenon DEF Core
<1>2. IdTyped /\ MemTyped /\ TimerTyped /\ HistTyped
  BY <1>1, Zenon DEF Typed
<1>3. S \in SUBSET Calls /\ S \in SUBSET calls
  BY <1>2, Zenon DEF MemTyped
<1>4. Sound(S, NP, bound, E)
  BY <1>1, <1>2, CleanUpSound, Zenon
<1>5. Publishes(S, NP, bound, E)
  BY <1>4, Zenon DEF Publishes, cleanUp
<1>6. saveCallCleanup(S, NP, nextRevision(S), E)
  BY Zenon DEF cleanUp
<1> HIDE DEF E
<1>7. PICK T \in SUBSET S : save(T, NP, nextRevision(S), E)
  BY <1>2, <1>3, <1>6, CleanupSaved
<1>8. dirty' \subseteq Calls /\ retries' \in [Calls -> Nat]
  BY <1>2, <1>3, <1>6, CleanupSaved, Zenon
<1>9. HistTyped'
  BY <1>2, <1>3, <1>7, NextRevisionType, SaveTyped DEF Faded
<1>10. lastCall' = lastCall /\ caller' = caller /\ group' = group
  BY Zenon DEF call
<1>11. Typed'
  BY <1>2, <1>5, <1>8, <1>9, <1>10, PublishTyped, Zenon DEF IdTyped, TimerTyped, Typed
<1>12. \A i \in S : i \in Nat /\ lastCall \in Nat /\ i <= lastCall
  BY <1>1, <1>2, CallsStarted, Zenon
<1>13. Numbered(S)
  BY <1>2, <1>10, <1>12, LastCallNat DEF Numbered
<1>14. \A i \in Calls : i > lastCall' => i > lastCall /\ i \notin T
  BY <1>10, <1>12
<1>15. Unsaved'
  BY <1>1, <1>7, <1>14, SaveUnsaved, Zenon
<1>16. Viably(S, NP, E)
  BY <1>10, Zenon DEF Viably, E, emptied, Faded
<1>17. Core'
  BY <1>5, <1>11, <1>13, <1>15, <1>16, PublishStep, Zenon
<1>18. Fades
  BY <1>2, <1>5, PublishFades, Zenon
<1> QED
  BY <1>17, <1>18, Zenon

\* What a request may publish of one call: participants that fade, and a
\* binding of accounts that had none to free sessions of theirs.
Rebound(i, B) ==
  \A a \in Accounts : \/ B[a] = bound[i][a]
                      \/ /\ bound[i][a] = None /\ B[a] \in online
                         /\ Owner[B[a]] = a /\ byClient[B[a]] \in {None, i}
Proper(i, P, B) ==
  /\ i \in calls \ over
  /\ Faded({i}, [pstate EXCEPT ![i] = P])
  /\ B \in [Accounts -> Sessions \cup {None}]
  /\ Rebound(i, B)

\* The new participants and bindings of one call.
LEMMA NewCall ==
  ASSUME MemTyped, NEW i \in Calls, NEW P, NEW B
  PROVE  [pstate EXCEPT ![i] = P][i] = P /\ [bound EXCEPT ![i] = B][i] = B
  BY Zenon DEF MemTyped

LEMMA CommitSound ==
  ASSUME MemTyped, Owned, BindingExact, NEW i, NEW P, NEW B, Proper(i, P, B)
  PROVE  LET NP == [pstate EXCEPT ![i] = P] IN
         Sound({i}, NP, [bound EXCEPT ![i] = B], emptied({i}, NP))
<1> DEFINE NP == [pstate EXCEPT ![i] = P]
           NB == [bound EXCEPT ![i] = B]
           E  == emptied({i}, NP)
<1>1. i \in calls /\ i \in Calls /\ i \notin over
  BY Zenon DEF Proper, MemTyped
<1>2. NP[i] = P /\ NB[i] = B
  BY <1>1, NewCall, Zenon
<1>3. Faded({i}, NP) /\ Rebound(i, B) /\ B \in [Accounts -> Sessions \cup {None}]
  BY Zenon DEF Proper
<1>4. E \subseteq {i}
  BY Zenon DEF emptied
<1> HIDE DEF NP, NB, E
<1>5. P \in [Accounts -> PStates] /\ \A a \in Accounts : P[a] \in Active => pstate[i][a] \in Active
  BY <1>2, <1>3, Zenon DEF Faded
<1>6. Fresh({i}, E)
  BY <1>1, <1>4, Zenon DEF Fresh
<1>7. Shaped({i}, NP, NB)
  BY <1>2, <1>3, <1>5, Zenon DEF Shaped
<1>8. Rightful({i}, NB)
  <2>1. \A a \in Accounts : B[a] # None => Owner[B[a]] = a
    BY <1>1, <1>3 DEF Owned, Rebound
  <2>2. \A a \in Accounts : bound[i][a] # None => B[a] = bound[i][a]
    BY <1>3, Zenon DEF Rebound
  <2> QED
    BY <1>2, <2>1, <2>2, Zenon DEF Rightful
<1>9. ASSUME NEW s \in Sessions, takesPart(NP, NB, E, i, s) PROVE byClient[s] \in {None, i}
  <2>1. Owner[s] \in Accounts
    BY PrivateCallsAssumption, Zenon
  <2>2. B[Owner[s]] = s /\ P[Owner[s]] \in Active
    BY <1>2, <1>9, Zenon DEF takesPart
  <2>3. CASE bound[i][Owner[s]] = s
    BY <1>1, <1>5, <2>1, <2>2, <2>3, Zenon DEF BindingExact, live
  <2>4. CASE bound[i][Owner[s]] # s
    BY <1>3, <2>1, <2>2, <2>4, Zenon DEF Rebound
  <2> QED
    BY <2>3, <2>4, Zenon
<1>10. Single({i}, NP, NB, E)
  BY <1>9, Zenon DEF Single
<1> QED
  BY <1>6, <1>7, <1>8, <1>10, Zenon DEF Sound, NP, NB, E

\* A request preserves the invariant.
LEMMA CommitStep ==
  ASSUME Core, NEW i, NEW P, NEW B, Proper(i, P, B), commit(i, P, B)
  PROVE  Core' /\ Fades
<1> DEFINE NP == [pstate EXCEPT ![i] = P]
           NB == [bound EXCEPT ![i] = B]
           E  == emptied({i}, NP)
<1>1. Typed /\ Blank /\ Owned /\ BindingExact
  BY Zenon DEF Core
<1>2. IdTyped /\ MemTyped /\ TimerTyped /\ HistTyped /\ EnvTyped
  BY <1>1, Zenon DEF Typed
<1>3. i \in calls /\ i \in Calls /\ i \notin over
  BY <1>2, Zenon DEF Proper, MemTyped
<1>4. NP[i] = P /\ NB[i] = B
  BY <1>2, <1>3, NewCall, Zenon
<1>5. Sound({i}, NP, NB, E)
  BY <1>1, <1>2, CommitSound, Zenon
<1>6. Faded({i}, NP) /\ Rebound(i, B)
  BY Zenon DEF Proper
<1>7. /\ save({i}, NP, nextRevision({i}), E)
      /\ UNCHANGED <<call, rungOut, expiring, dirty, retries, sessions, members, leaving, boots>>
      /\ publishPrivateCall({i}, NP, NB, E) \/ UNCHANGED <<memory, timers>>
  BY Zenon DEF commit, timers
<1> HIDE DEF NP, NB, E
<1>8. {i} \in SUBSET Calls /\ {i} \in SUBSET (calls \ over)
  BY <1>3, Zenon
<1>9. HistTyped'
  BY <1>2, <1>6, <1>7, <1>8, NextRevisionType, SaveTyped, Zenon DEF Faded
<1>10. UNCHANGED <<lastCall, caller, group, rungOut, expiring, dirty, retries, online, closing, members, leaving>>
  BY <1>7, Zenon DEF call, sessions
<1>11. IdTyped' /\ TimerTyped' /\ EnvTyped'
  BY <1>2, <1>10, Zenon DEF IdTyped, TimerTyped, EnvTyped
<1>12. i \in Nat /\ lastCall \in Nat /\ i <= lastCall /\ lastCall' = lastCall
  BY <1>1, <1>2, <1>3, <1>10, CallsStarted, Zenon
<1>13. Unsaved'
  BY <1>1, <1>7, <1>12, SaveUnsaved
<1>14. CASE publishPrivateCall({i}, NP, NB, E)
  <2>1. Publishes({i}, NP, NB, E)
    BY <1>5, <1>14, Zenon DEF Publishes
  <2>2. MemTyped'
    BY <1>2, <2>1, PublishTyped, Zenon
  <2>3. Typed'
    BY <1>9, <1>11, <2>2, Zenon DEF Typed
  <2>4. Viably({i}, NP, E)
    BY <1>6, <1>10, Zenon DEF Viably, E, emptied, Faded
  <2>5. Numbered({i})
    BY <1>12 DEF Numbered
  <2>6. Core'
    BY <1>13, <2>1, <2>3, <2>4, <2>5, PublishStep, Zenon
  <2>7. \A j \in {i}, a \in Accounts : NB[j][a] = bound[j][a] \/ NB[j][a] \in online
    BY <1>4, <1>6, Zenon DEF Rebound
  <2>8. Fades
    BY <1>2, <1>6, <1>8, <2>1, <2>7, PublishFades, Zenon
  <2> QED
    BY <2>6, <2>8, Zenon
<1>15. CASE UNCHANGED <<memory, timers>>
  <2>1. UNCHANGED <<calls, pstate, bound, over, revision, byClient, phone, retiring>>
    BY <1>15, Zenon DEF memory, timers
  <2>2. MemTyped'
    BY <1>2, <2>1, Zenon DEF MemTyped
  <2>3. Typed'
    BY <1>9, <1>11, <2>2, Zenon DEF Typed
  <2>4. Quiet
    BY <1>10, <1>12, <2>1 DEF Quiet
  <2> QED
    BY <1>13, <2>3, <2>4, QuietStep, Zenon
<1> QED
  BY <1>7, <1>14, <1>15, Zenon

\* A participant's own change that is not a new part in the call fades.
LEMMA ChangedFaded ==
  ASSUME MemTyped, NEW i \in Calls, NEW a \in Accounts, NEW st \in PStates,
         st \in Active => pstate[i][a] \in Active
  PROVE  Faded({i}, [pstate EXCEPT ![i] = changed(caller[i], pstate[i], a, st)])
<1> DEFINE P == changed(caller[i], pstate[i], a, st)
<1>1. pstate[i] \in [Accounts -> PStates]
  BY Zenon DEF MemTyped
<1>2. /\ P \in [Accounts -> PStates]
      /\ \A b \in Accounts : P[b] \in Active => P[b] = IF b = a THEN st ELSE pstate[i][b]
      /\ ~viable(caller[i], P) => having(P, "ringing") = {}
  BY <1>1, ChangedFacts, Zenon
<1> HIDE DEF P
<1>3. [pstate EXCEPT ![i] = P][i] = P
  BY Zenon DEF MemTyped
<1>4. Faded({i}, [pstate EXCEPT ![i] = P])
  BY <1>2, <1>3, Zenon DEF Faded
<1> QED
  BY <1>4, Zenon DEF P

\* Accepting binds an unbound account to the free session that accepts.
LEMMA AcceptProper ==
  ASSUME Core, NEW i \in Calls, NEW s \in Sessions, Accept(i, s)
  PROVE  \E P, B : Proper(i, P, B) /\ commit(i, P, B)
<1> DEFINE a == Owner[s]
           B == [bound[i] EXCEPT ![a] = s]
           P == changed(caller[i], pstate[i], a, "accepted")
<1>1. MemTyped /\ a \in Accounts
  BY PrivateCallsAssumption, Zenon DEF Core, Typed
<1>2. /\ s \in online /\ i \in calls \ over /\ bound[i][a] \in {s, None} /\ byClient[s] \in {None, i}
      /\ pstate[i][a] = "ringing" /\ commit(i, P, B)
  BY Zenon DEF Accept, mayAct, answerable, free, live
<1>3. bound[i] \in [Accounts -> Sessions \cup {None}] /\ B \in [Accounts -> Sessions \cup {None}]
  BY <1>1, Zenon DEF MemTyped
<1>4. Faded({i}, [pstate EXCEPT ![i] = P])
  BY <1>1, <1>2, ChangedFaded, Zenon DEF PStates, Active
<1> HIDE DEF P
<1>5. Rebound(i, B)
  BY <1>2, <1>3, Zenon DEF Rebound
<1> HIDE DEF B
<1>6. Proper(i, P, B)
  BY <1>2, <1>3, <1>4, <1>5, Zenon DEF Proper
<1> QED
  BY <1>2, <1>6, Zenon

\* The other requests bind nobody.
LEMMA DeclineLeaveProper ==
  ASSUME Core, NEW i \in Calls, NEW s \in Sessions, Decline(i, s) \/ Leave(i, s) \/ Cancel(i, s)
  PROVE  \E P, B : Proper(i, P, B) /\ commit(i, P, B)
<1> DEFINE a == Owner[s]
<1>1. MemTyped /\ a \in Accounts
  BY PrivateCallsAssumption, Zenon DEF Core, Typed
<1>2. PICK st \in {"declined", "left"} : commit(i, changed(caller[i], pstate[i], a, st), bound[i])
  BY Zenon DEF Decline, Leave, Cancel
<1>3. i \in calls \ over
  BY Zenon DEF Decline, Leave, Cancel, mayAct, live
<1> DEFINE P == changed(caller[i], pstate[i], a, st)
<1>4. Faded({i}, [pstate EXCEPT ![i] = P])
  BY <1>1, ChangedFaded, Zenon DEF PStates, Active
<1>5. bound[i] \in [Accounts -> Sessions \cup {None}]
  BY <1>1, Zenon DEF MemTyped
<1> HIDE DEF P
<1>6. Proper(i, P, bound[i])
  BY <1>3, <1>4, <1>5, Zenon DEF Proper, Rebound
<1>7. commit(i, P, bound[i])
  BY <1>2, Zenon DEF P
<1> QED
  BY <1>6, <1>7, Zenon

LEMMA RequestStep ==
  ASSUME Core, NEW i \in Calls, NEW s \in Sessions,
         Accept(i, s) \/ Decline(i, s) \/ Leave(i, s) \/ Cancel(i, s)
  PROVE  Core' /\ Fades
<1>1. PICK P, B : Proper(i, P, B) /\ commit(i, P, B)
  BY AcceptProper, DeclineLeaveProper, Zenon
<1> QED
  BY <1>1, CommitStep, Zenon

\* The ring timeout fades.
LEMMA ExpiredFaded ==
  ASSUME MemTyped, NEW i \in Calls
  PROVE  Faded({i}, [pstate EXCEPT ![i] = expired(caller[i], pstate[i])])
<1> DEFINE P == expired(caller[i], pstate[i])
<1>1. pstate[i] \in [Accounts -> PStates]
  BY Zenon DEF MemTyped
<1>2. /\ P \in [Accounts -> PStates]
      /\ \A b \in Accounts : P[b] \in Active => P[b] = pstate[i][b]
      /\ ~viable(caller[i], P) => having(P, "ringing") = {}
  BY <1>1, ExpiredFacts, Zenon
<1> HIDE DEF P
<1>3. [pstate EXCEPT ![i] = P][i] = P
  BY Zenon DEF MemTyped
<1>4. Faded({i}, [pstate EXCEPT ![i] = P])
  BY <1>2, <1>3, Zenon DEF Faded
<1> QED
  BY <1>4, Zenon DEF P

\* A step that leaves the history and the call ids alone.
LEMMA StillUnsaved ==
  ASSUME Blank, UNCHANGED <<lastCall, storedRev, storedOver>>
  PROVE  Unsaved'
  BY Zenon DEF Blank, Unsaved

LEMMA ExpireStep ==
  ASSUME Core, NEW i \in Calls, expirePrivateCall(i)
  PROVE  Core' /\ Fades
<1> DEFINE NP == [pstate EXCEPT ![i] = expired(caller[i], pstate[i])]
<1>1. Typed /\ Blank
  BY Zenon DEF Core
<1>2. IdTyped /\ MemTyped /\ TimerTyped /\ HistTyped /\ EnvTyped
  BY <1>1, Zenon DEF Typed
<1>3. /\ UNCHANGED <<call, rungOut, sessions, members, leaving, boots>> /\ expiring' = expiring \ {i}
      /\ \/ live(i) /\ cleanUp({i}, NP)
         \/ UNCHANGED <<memory, retiring, dirty, retries, history>>
  BY Zenon DEF expirePrivateCall
<1>4. Faded({i}, NP)
  BY <1>2, ExpiredFaded, Zenon
<1> HIDE DEF NP
<1>5. UNCHANGED <<lastCall, caller, group, rungOut, online, closing, members, leaving>>
  BY <1>3, Zenon DEF call, sessions
<1>6. EnvTyped' /\ IdTyped' /\ expiring' \subseteq Calls
  BY <1>2, <1>3, <1>5, Zenon DEF IdTyped, TimerTyped, EnvTyped
<1>7. CASE live(i) /\ cleanUp({i}, NP)
  BY <1>3, <1>4, <1>6, <1>7, CleanUpStep, Zenon DEF live
<1>8. CASE UNCHANGED <<memory, retiring, dirty, retries, history>>
  <2>1. /\ UNCHANGED <<calls, pstate, bound, over, revision, byClient, phone, retiring, dirty, retries>>
        /\ UNCHANGED <<storedRev, stored, storedOver>>
    BY <1>8, Zenon DEF memory, history
  <2>2. MemTyped' /\ HistTyped'
    BY <1>2, <2>1, Zenon DEF MemTyped, HistTyped
  <2>3. TimerTyped'
    BY <1>2, <1>5, <1>6, <2>1, Zenon DEF TimerTyped
  <2>4. Typed'
    BY <1>6, <2>2, <2>3, Zenon DEF Typed
  <2>5. Quiet
    BY <1>2, <1>5, <2>1, LastCallNat DEF Quiet
  <2>6. Unsaved'
    BY <1>1, <1>5, <2>1, StillUnsaved, Zenon
  <2> QED
    BY <2>4, <2>5, <2>6, QuietStep, Zenon
<1> QED
  BY <1>3, <1>7, <1>8, Zenon

\* Departures fade.
LEMMA DeparturesFaded ==
  ASSUME MemTyped, NEW S \in SUBSET Calls, NEW a \in Accounts
  PROVE  /\ Faded(S, departures(S, a))
         /\ \A i \in S : departures(S, a)[i][a] \notin Active
<1> SUFFICES ASSUME NEW i \in S
             PROVE  LET P == departures(S, a)[i] IN
                    /\ P \in [Accounts -> PStates]
                    /\ \A b \in Accounts : P[b] \in Active => pstate[i][b] \in Active
                    /\ ~viable(caller[i], P) => having(P, "ringing") = {}
                    /\ P[a] \notin Active
  BY Zenon DEF Faded
<1>1. pstate[i] \in [Accounts -> PStates] /\ i \in Calls
  BY Zenon DEF MemTyped
<1> DEFINE st == departed(pstate[i], a)
           P == changed(caller[i], pstate[i], a, st)
<1>2. st \in {"declined", "left"}
  BY Zenon DEF departed
<1>3. st \in PStates /\ st \notin Active
  BY <1>2, Zenon DEF PStates, Active
<1>4. departures(S, a)[i] = P
  BY Zenon DEF departures
<1> HIDE DEF st
<1>5. /\ P \in [Accounts -> PStates]
      /\ \A b \in Accounts : P[b] \in Active => P[b] = IF b = a THEN st ELSE pstate[i][b]
      /\ ~viable(caller[i], P) => having(P, "ringing") = {}
  BY <1>1, <1>3, ChangedFacts, Zenon
<1> HIDE DEF P
<1> QED
  BY <1>3, <1>4, <1>5, Zenon

LEMMA DisconnectStep ==
  ASSUME Core, NEW s \in Sessions, disconnectPrivateCall(s)
  PROVE  Core' /\ Fades
<1> DEFINE S == abandons(s)
           NP == departures(S, Owner[s])
<1>1. MemTyped /\ TimerTyped /\ EnvTyped /\ Owner[s] \in Accounts
  BY PrivateCallsAssumption, Zenon DEF Core, Typed
<1>2. S \in SUBSET (calls \ over) /\ S \in SUBSET Calls
  BY <1>1, Zenon DEF abandons, MemTyped
<1>3. Faded(S, NP)
  BY <1>1, <1>2, DeparturesFaded, Zenon
<1>4. cleanUp(S, NP) /\ UNCHANGED <<call, rungOut, expiring, online, members, leaving>> /\ closing' = closing \ {s}
  BY Zenon DEF disconnectPrivateCall
<1> HIDE DEF S, NP
<1>5. EnvTyped' /\ expiring' \subseteq Calls
  BY <1>1, <1>4, Zenon DEF TimerTyped, EnvTyped
<1> QED
  BY <1>2, <1>3, <1>4, <1>5, CleanUpStep, Zenon

LEMMA RemoveStep ==
  ASSUME Core, NEW g \in Groups, NEW a \in Accounts, removeConversationCaller(g, a)
  PROVE  Core' /\ Fades
<1> DEFINE S == groupCalls(g, a)
           NP == departures(S, a)
<1>1. MemTyped /\ TimerTyped /\ EnvTyped
  BY Zenon DEF Core, Typed
<1>2. S \in SUBSET (calls \ over) /\ S \in SUBSET Calls
  BY <1>1, Zenon DEF groupCalls, MemTyped
<1>3. Faded(S, NP)
  BY <1>1, <1>2, DeparturesFaded, Zenon
<1>4. cleanUp(S, NP) /\ UNCHANGED <<call, rungOut, expiring, sessions, members>> /\ leaving' = leaving \ {<<g, a>>}
  BY Zenon DEF removeConversationCaller
<1> HIDE DEF S, NP
<1>5. EnvTyped' /\ expiring' \subseteq Calls
  BY <1>1, <1>4, Zenon DEF TimerTyped, EnvTyped, sessions
<1> QED
  BY <1>2, <1>3, <1>4, <1>5, CleanUpStep, Zenon

-----------------------------------------------------------------------------
(* The start of a call.                                                    *)

\* What an invitation is: some of the targets other than the caller, each
\* with a free session of theirs or none.
Invited(c, targets, R) ==
  /\ DOMAIN R \subseteq targets \ {c} /\ DOMAIN R # {}
  /\ \A a \in DOMAIN R : R[a] \in Sessions \cup {None}
  /\ \A a \in DOMAIN R : R[a] # None => R[a] \in online /\ Owner[R[a]] = a /\ byClient[R[a]] = None

LEMMA InvitationFacts ==
  ASSUME NEW c, NEW targets \in SUBSET Accounts, NEW R \in invitations(c, targets), callable(R)
  PROVE  Invited(c, targets, R)
<1>1. PICK T \in (SUBSET (targets \ {c})) \ {{}} : R \in [T -> Sessions \cup {None}]
  BY Zenon DEF invitations
<1>2. DOMAIN R = T /\ \A a \in DOMAIN R : R[a] \in Sessions \cup {None}
  BY <1>1, Zenon
<1>3. \A a \in DOMAIN R : R[a] # None => R[a] \in online /\ Owner[R[a]] = a /\ byClient[R[a]] = None
  BY Zenon DEF callable, available
<1> QED
  BY <1>1, <1>3, Zenon DEF Invited

\* The participants of the new call and the sessions they are bound to.
FirstStates(c, R) ==
  [a \in Accounts |-> IF a = c THEN "accepted" ELSE IF a \in DOMAIN R THEN "ringing" ELSE "out"]
FirstBound(c, s, R) ==
  [a \in Accounts |-> IF a = c THEN s ELSE IF a \in DOMAIN R THEN R[a] ELSE None]

First(s, targets, P, B) ==
  /\ P \in [Accounts -> PStates] /\ B \in [Accounts -> Sessions \cup {None}]
  /\ viable(Owner[s], P)
  /\ \A a \in Accounts : P[a] \in Active => a \in targets \cup {Owner[s]}
  /\ \A a \in Accounts : B[a] # None => B[a] \in online /\ Owner[B[a]] = a /\ byClient[B[a]] = None

LEMMA FirstFacts ==
  ASSUME NEW s \in Sessions, s \in online, byClient[s] = None,
         NEW targets \in SUBSET Accounts, NEW R, Invited(Owner[s], targets, R)
  PROVE  First(s, targets, FirstStates(Owner[s], R), FirstBound(Owner[s], s, R))
<1> DEFINE c == Owner[s]
           P == FirstStates(c, R)
           B == FirstBound(c, s, R)
<1>1. c \in Accounts
  BY PrivateCallsAssumption, Zenon
<1>2. P \in [Accounts -> PStates]
  BY Zenon DEF FirstStates, PStates, Active
<1>3. B \in [Accounts -> Sessions \cup {None}]
  BY Zenon DEF FirstBound, Invited
<1>4. viable(c, P)
  BY <1>1, Zenon DEF Invited, having, FirstStates, viable
<1>5. \A a \in Accounts : P[a] \in Active => a \in targets \cup {c}
  BY Zenon DEF FirstStates, Invited, Active
<1>6. \A a \in Accounts : B[a] # None => B[a] \in online /\ Owner[B[a]] = a /\ byClient[B[a]] = None
  BY Zenon DEF FirstBound, Invited
<1> QED
  BY <1>2, <1>3, <1>4, <1>5, <1>6, Zenon DEF First

\* What the start makes of the calls: the new one, if it is published, is
\* among T and bound to sessions online; the others stay as they are.
Begins(i, g, T) ==
  /\ \A j \in calls' : j # i =>
       /\ j \in calls /\ pstate'[j] = pstate[j] /\ bound'[j] = bound[j]
       /\ (j \in over' <=> j \in over) /\ group'[j] = group[j]
  /\ i \in calls' =>
       /\ group'[i] = g
       /\ \A a \in Accounts : pstate'[i][a] \in Active => a \in T
       /\ \A a \in Accounts : bound'[i][a] # None => bound'[i][a] \in online

\* It is saved first, and published unless the save reports an error.
FirstSaved(i) ==
  \E NP, NB : /\ Sound({i}, NP, NB, {})
              /\ save({i}, NP, nextRevision({i}), {})
              /\ \/ publishPrivateCall({i}, NP, NB, {}) /\ seen({i}, nextRevision({i}))
                 \/ UNCHANGED memory /\ notSeen({i}, nextRevision({i}))

LEMMA FirstSound ==
  ASSUME MemTyped, Blank, NEW i \in Calls, i > lastCall,
         NEW P \in [Accounts -> PStates], NEW B \in [Accounts -> Sessions \cup {None}],
         \A a \in Accounts : B[a] # None => Owner[B[a]] = a /\ byClient[B[a]] = None
  PROVE  Sound({i}, [pstate EXCEPT ![i] = P], [bound EXCEPT ![i] = B], {})
<1> DEFINE NP == [pstate EXCEPT ![i] = P]
           NB == [bound EXCEPT ![i] = B]
<1>1. NP[i] = P /\ NB[i] = B
  BY NewCall, Zenon
<1>2. i \notin calls /\ i \notin over
  BY Zenon DEF Blank
<1> HIDE DEF NP, NB
<1>3. Fresh({i}, {})
  BY <1>2, Zenon DEF Fresh
<1>4. Shaped({i}, NP, NB)
  BY <1>1, Zenon DEF Shaped
<1>5. Rightful({i}, NB)
  BY <1>1, <1>2, Zenon DEF Rightful
<1>6. ASSUME NEW t \in Sessions, takesPart(NP, NB, {}, i, t) PROVE byClient[t] = None
  BY <1>1, <1>6, PrivateCallsAssumption DEF takesPart
<1>7. Single({i}, NP, NB, {})
  BY <1>6, Zenon DEF Single
<1> QED
  BY <1>3, <1>4, <1>5, <1>7, Zenon DEF Sound, NP, NB

LEMMA StartStep ==
  ASSUME Core, NEW s \in Sessions, NEW g \in Groups \cup {NoGroup}, NEW targets \in SUBSET Accounts,
         startPrivateCall(s, g, targets)
  PROVE  /\ Core' /\ UNCHANGED <<dirty, online, closing, members, leaving>>
         /\ Begins(lastCall + 1, g, targets \cup {Owner[s]}) /\ FirstSaved(lastCall + 1)
<1> DEFINE i == lastCall + 1
           c == Owner[s]
<1>1. Typed /\ Blank
  BY Zenon DEF Core
<1>2. IdTyped /\ MemTyped /\ TimerTyped /\ HistTyped /\ EnvTyped
  BY <1>1, Zenon DEF Typed
<1>3. PICK R \in invitations(c, targets) :
        /\ callable(R)
        /\ save({i}, [pstate EXCEPT ![i] = FirstStates(c, R)], nextRevision({i}), {})
        /\ \/ /\ publishPrivateCall({i}, [pstate EXCEPT ![i] = FirstStates(c, R)],
                                    [bound EXCEPT ![i] = FirstBound(c, s, R)], {})
              /\ expiring' = expiring \cup {i} /\ seen({i}, nextRevision({i}))
           \/ UNCHANGED <<memory, expiring, retiring>> /\ notSeen({i}, nextRevision({i}))
  BY Zenon DEF startPrivateCall, FirstStates, FirstBound
<1>4. /\ s \in online /\ byClient[s] = None /\ lastCall < MaxCalls
      /\ lastCall' = i /\ caller' = [caller EXCEPT ![i] = c] /\ group' = [group EXCEPT ![i] = g]
      /\ UNCHANGED <<rungOut, dirty, retries, sessions, members, leaving, boots>>
  BY Zenon DEF startPrivateCall
<1>5. /\ i \in Calls /\ i \in Nat /\ lastCall \in Nat /\ i > lastCall /\ i \in 0..MaxCalls
  BY <1>2, <1>4, LastCallNat, PrivateCallsAssumption DEF Calls
<1>6. c \in Accounts
  BY PrivateCallsAssumption, Zenon
<1>7. Invited(c, targets, R)
  BY <1>3, InvitationFacts, Zenon
<1> DEFINE P == FirstStates(c, R)
           B == FirstBound(c, s, R)
           NP == [pstate EXCEPT ![i] = P]
           NB == [bound EXCEPT ![i] = B]
<1>8. First(s, targets, P, B)
  BY <1>4, <1>7, FirstFacts, Zenon
<1> HIDE DEF P, B
<1>9. NP[i] = P
  BY <1>2, <1>5, NewCall, Zenon
<1>10. Sound({i}, NP, NB, {})
  BY <1>1, <1>2, <1>5, <1>8, FirstSound, Zenon DEF First
<1>11. /\ save({i}, NP, nextRevision({i}), {})
       /\ \/ /\ publishPrivateCall({i}, NP, NB, {}) /\ expiring' = expiring \cup {i}
             /\ seen({i}, nextRevision({i}))
          \/ UNCHANGED <<memory, expiring, retiring>> /\ notSeen({i}, nextRevision({i}))
  BY <1>3, Zenon DEF P, B
<1>12. i \notin calls /\ i \notin over
  BY <1>1, <1>5, Zenon DEF Blank
<1>13. /\ caller'[i] = c /\ group'[i] = g
       /\ \A j \in calls : j \in Calls /\ j # i /\ caller'[j] = caller[j] /\ group'[j] = group[j]
  BY <1>2, <1>4, <1>5, <1>12, Zenon DEF IdTyped, MemTyped
<1>14. NB[i] = B
  BY <1>2, <1>5, NewCall, Zenon
<1>15. IdTyped'
  BY <1>2, <1>4, <1>5, <1>6, Zenon DEF IdTyped
<1> HIDE DEF i, c, NP, NB
<1>16. {i} \in SUBSET Calls /\ {i} \in SUBSET {i} /\ \A j \in {i} : NP[j] \in [Accounts -> PStates]
  BY <1>5, <1>8, <1>9, Zenon DEF First
<1>17. HistTyped'
  BY <1>2, <1>11, <1>16, NextRevisionType, SaveTyped, ZenonT(30)
<1>18. UNCHANGED <<rungOut, dirty, retries, online, closing, members, leaving>>
  BY <1>4, Zenon DEF sessions
<1>19. EnvTyped'
  BY <1>2, <1>18, Zenon DEF EnvTyped
<1>20. Unsaved'
  BY <1>1, <1>4, <1>5, <1>11, CallsNat, SaveUnsaved
<1>21. FirstSaved(i)
  BY <1>10, <1>11, Zenon DEF FirstSaved
<1>22. CASE publishPrivateCall({i}, NP, NB, {}) /\ expiring' = expiring \cup {i}
  <2>1. Publishes({i}, NP, NB, {})
    BY <1>10, <1>22, Zenon DEF Publishes
  <2>2. MemTyped'
    BY <1>2, <2>1, PublishTyped, Zenon
  <2>3. TimerTyped'
    BY <1>2, <1>5, <1>18, <1>22, Zenon DEF TimerTyped
  <2>4. Typed'
    BY <1>15, <1>17, <1>19, <2>2, <2>3, Zenon DEF Typed
  <2>5. Viably({i}, NP, {})
    BY <1>8, <1>9, <1>13, Zenon DEF Viably, First, c
  <2>6. Numbered({i})
    BY <1>4, <1>5 DEF Numbered
  <2>7. Core'
    BY <1>20, <2>1, <2>4, <2>5, <2>6, PublishStep, Zenon
  <2>8. calls' = calls \cup {i} /\ over' = over
    BY <2>1, Zenon DEF Publishes, publishPrivateCall, Sound
  <2>9. pstate'[i] = P /\ bound'[i] = B
    BY <1>5, <1>9, <1>14, <2>1, Zenon DEF Publishes, publishPrivateCall
  <2>10. \A j \in calls : pstate'[j] = pstate[j] /\ bound'[j] = bound[j]
    BY <1>2, <1>13, <2>1, Zenon DEF Publishes, publishPrivateCall, MemTyped
  <2>11. Begins(i, g, targets \cup {c})
    BY <1>8, <1>13, <2>8, <2>9, <2>10, Zenon DEF Begins, First, c
  <2> QED
    BY <1>18, <1>21, <2>7, <2>11, Zenon DEF i, c
<1>23. CASE UNCHANGED <<memory, expiring, retiring>>
  <2>1. UNCHANGED <<calls, pstate, bound, over, revision, byClient, phone, retiring, expiring>>
    BY <1>23, Zenon DEF memory
  <2>2. MemTyped' /\ TimerTyped'
    BY <1>2, <1>18, <2>1, Zenon DEF MemTyped, TimerTyped
  <2>3. Typed'
    BY <1>15, <1>17, <1>19, <2>2, Zenon DEF Typed
  <2>4. Quiet
    BY <1>4, <1>5, <1>13, <2>1 DEF Quiet
  <2>5. Core'
    BY <1>20, <2>3, <2>4, QuietStep, Zenon
  <2>6. Begins(i, g, targets \cup {c})
    BY <1>13, <2>1, Zenon DEF Begins
  <2> QED
    BY <1>18, <1>21, <2>5, <2>6, Zenon DEF i, c
<1> QED
  BY <1>11, <1>22, <1>23, Zenon

-----------------------------------------------------------------------------
(* The other steps.                                                        *)

\* The rows the history request saves: some that memory is ahead of, or that
\* belong to no call in memory.
HistoryRev == [i \in Calls |-> IF abandoned(i) THEN storedRev[i] + 1 ELSE revision[i]]
HistoryOver == over \cup {i \in Calls : abandoned(i)}
HistoryStates == [i \in Calls |-> recovered(i)]
Candidates == {i \in Calls : storedRev[i] > 0 /\ (abandoned(i) \/ i \in calls)}

LEMMA HistoryRows ==
  ASSUME NEW a \in Accounts, History(a)
  PROVE  \E T \in SUBSET Candidates : save(T, HistoryStates, HistoryRev, HistoryOver) /\ seen(T, HistoryRev)
<1> DEFINE mine == {i \in Calls : storedRev[i] > 0 /\ stored[i][a] # "out"}
           T(f) == {i \in mine : i >= f /\ (abandoned(i) \/ i \in calls)}
<1>1. PICK f \in (IF Failures = {} THEN {1} ELSE Calls) :
        save(T(f), HistoryStates, HistoryRev, HistoryOver) /\ seen(T(f), HistoryRev)
  BY Zenon DEF History, HistoryStates, HistoryRev, HistoryOver
<1>2. T(f) \in SUBSET Candidates
  BY Zenon DEF Candidates
<1> QED
  BY <1>1, <1>2, Zenon

LEMMA HistoryTypes ==
  ASSUME MemTyped, HistTyped
  PROVE  HistoryRev \in [Calls -> Nat] /\ HistoryStates \in [Calls -> [Accounts -> PStates]]
<1>1. HistoryRev \in [Calls -> Nat]
  BY DEF HistoryRev, MemTyped, HistTyped
<1>2. ASSUME NEW i \in Calls PROVE recovered(i) \in [Accounts -> PStates]
  BY DEF MemTyped, HistTyped, recovered, PStates
<1> QED
  BY <1>1, <1>2, Zenon DEF HistoryStates

LEMMA HistoryStep ==
  ASSUME Core, NEW a \in Accounts, History(a)
  PROVE  Core' /\ Fades
<1>1. Typed /\ Blank
  BY Zenon DEF Core
<1>2. IdTyped /\ MemTyped /\ TimerTyped /\ HistTyped /\ EnvTyped
  BY <1>1, Zenon DEF Typed
<1>3. PICK T \in SUBSET Candidates : save(T, HistoryStates, HistoryRev, HistoryOver)
  BY HistoryRows, Zenon
<1>4. UNCHANGED <<call, memory, timers, sessions, members, leaving, boots>>
  BY Zenon DEF History
<1>5. T \in SUBSET Calls
  BY Zenon DEF Candidates
<1>6. HistTyped'
  BY <1>2, <1>3, <1>5, HistoryTypes, SaveTyped, Zenon
<1>7. /\ UNCHANGED <<lastCall, caller, group, calls, pstate, bound, over, revision, byClient, phone>>
      /\ UNCHANGED <<rungOut, expiring, retiring, dirty, retries, online, closing, members, leaving>>
  BY <1>4, Zenon DEF call, memory, timers, sessions
<1>8. IdTyped' /\ MemTyped' /\ TimerTyped' /\ EnvTyped'
  BY <1>2, <1>7, Zenon DEF IdTyped, MemTyped, TimerTyped, EnvTyped
<1>9. Typed'
  BY <1>6, <1>8, Zenon DEF Typed
<1>10. \A i \in Calls : i > lastCall' => i > lastCall /\ i \notin T
  BY <1>1, <1>7 DEF Blank, Candidates
<1>11. Unsaved'
  BY <1>1, <1>3, <1>10, SaveUnsaved, Zenon
<1>12. Quiet
  BY <1>2, <1>7, LastCallNat DEF Quiet
<1> QED
  BY <1>9, <1>11, <1>12, QuietStep, Zenon

LEMMA RetryStep ==
  ASSUME Core, NEW i \in Calls, RetrySave(i)
  PROVE  Core' /\ Fades
<1>1. Typed /\ Blank
  BY Zenon DEF Core
<1>2. IdTyped /\ MemTyped /\ TimerTyped /\ HistTyped /\ EnvTyped
  BY <1>1, Zenon DEF Typed
<1>3. UNCHANGED history \/ (i \in calls /\ save({i}, pstate, revision, over))
  BY Zenon DEF RetrySave
<1>4. UNCHANGED <<call, memory, rungOut, expiring, retiring, sessions, members, leaving, boots>>
  BY Zenon DEF RetrySave
<1>5. /\ UNCHANGED <<lastCall, caller, group, calls, pstate, bound, over, revision, byClient, phone>>
      /\ UNCHANGED <<rungOut, expiring, retiring, online, closing, members, leaving>>
  BY <1>4, Zenon DEF call, memory, sessions
<1>6. TimerTyped'
  BY <1>2 DEF RetrySave, settled, TimerTyped
<1>7. HistTyped' /\ Unsaved'
  <2>1. CASE UNCHANGED history
    BY <1>1, <1>2, <1>5, <2>1, StillUnsaved, Zenon DEF history, HistTyped
  <2>2. CASE i \in calls /\ save({i}, pstate, revision, over)
    <3>1. {i} \in SUBSET Calls /\ revision \in [Calls -> Nat] /\ \A j \in {i} : pstate[j] \in [Accounts -> PStates]
      BY <1>2, Zenon DEF MemTyped
    <3>2. \A j \in Calls : j > lastCall' => j > lastCall /\ j \notin {i}
      BY <1>1, <1>5, <2>2, Zenon DEF Blank
    <3>3. HistTyped'
      BY <1>2, <2>2, <3>1, SaveTyped, Zenon
    <3>4. Unsaved'
      BY <1>1, <2>2, <3>2, SaveUnsaved, Zenon
    <3> QED
      BY <3>3, <3>4, Zenon
  <2> QED
    BY <1>3, <2>1, <2>2, Zenon
<1>8. IdTyped' /\ MemTyped' /\ EnvTyped'
  BY <1>2, <1>5, Zenon DEF IdTyped, MemTyped, EnvTyped
<1>9. Typed'
  BY <1>6, <1>7, <1>8, Zenon DEF Typed
<1>10. Quiet
  BY <1>2, <1>5, LastCallNat DEF Quiet
<1> QED
  BY <1>7, <1>9, <1>10, QuietStep, Zenon

\* Sessions, memberships and timers that leave the calls alone, and the
\* retirement of a call that has ended.
Minor ==
  \/ \E s \in Sessions : Connect(s) \/ Unregister(s)
  \/ \E i \in Calls : RingUntilPasses(i) \/ retirePrivateCall(i)
  \/ \E g \in Groups, a \in Accounts : JoinGroup(g, a) \/ LeaveGroup(g, a)
  \/ UNCHANGED vars

LEMMA MinorFacts ==
  ASSUME Minor
  PROVE  /\ UNCHANGED <<lastCall, caller, group, pstate, bound, over, revision, byClient, phone>>
         /\ UNCHANGED <<expiring, dirty, retries, storedRev, stored, storedOver, unseen>>
         /\ retiring' \subseteq retiring /\ calls' \subseteq calls /\ calls \ calls' \subseteq retiring
<1> USE DEF call, memory, timers, history
<1>1. ASSUME NEW s \in Sessions, Connect(s) \/ Unregister(s)
      PROVE  UNCHANGED <<call, memory, timers, history>>
  BY <1>1, Zenon DEF Connect, Unregister
<1>2. ASSUME NEW i \in Calls, RingUntilPasses(i) \/ retirePrivateCall(i)
      PROVE  /\ UNCHANGED <<call, pstate, bound, over, revision, byClient, phone, expiring, dirty, retries, history>>
             /\ retiring' \subseteq retiring /\ calls' \subseteq calls /\ calls \ calls' \subseteq retiring
  BY <1>2, Zenon DEF RingUntilPasses, retirePrivateCall
<1>3. ASSUME NEW g \in Groups, NEW a \in Accounts, JoinGroup(g, a) \/ LeaveGroup(g, a)
      PROVE  UNCHANGED <<call, memory, timers, history>>
  BY <1>3, Zenon DEF JoinGroup, LeaveGroup
<1>4. ASSUME UNCHANGED vars PROVE UNCHANGED <<call, memory, timers, history>>
  BY <1>4, Zenon DEF vars
<1> QED
  BY <1>1, <1>2, <1>3, <1>4, Zenon DEF Minor

LEMMA MinorTypes ==
  ASSUME TimerTyped, EnvTyped, Minor
  PROVE  rungOut' \subseteq Calls /\ EnvTyped'
<1> USE DEF TimerTyped, EnvTyped
<1>1. ASSUME NEW s \in Sessions, Connect(s) \/ Unregister(s) PROVE rungOut' \subseteq Calls /\ EnvTyped'
  BY <1>1, Zenon DEF Connect, Unregister, timers
<1>2. ASSUME NEW i \in Calls, RingUntilPasses(i) \/ retirePrivateCall(i) PROVE rungOut' \subseteq Calls /\ EnvTyped'
  BY <1>2, Zenon DEF RingUntilPasses, retirePrivateCall, sessions
<1>3. ASSUME NEW g \in Groups, NEW a \in Accounts, JoinGroup(g, a) \/ LeaveGroup(g, a)
      PROVE  rungOut' \subseteq Calls /\ EnvTyped'
  BY <1>3 DEF JoinGroup, LeaveGroup, timers, sessions
<1>4. ASSUME UNCHANGED vars PROVE rungOut' \subseteq Calls /\ EnvTyped'
  BY <1>4, Zenon DEF vars, timers, sessions
<1> QED
  BY <1>1, <1>2, <1>3, <1>4, Zenon DEF Minor

LEMMA MinorStep ==
  ASSUME Core, Minor
  PROVE  Core' /\ Fades
<1>1. Typed /\ Blank /\ RetiringOver
  BY Zenon DEF Core
<1>2. IdTyped /\ MemTyped /\ TimerTyped /\ HistTyped /\ EnvTyped
  BY <1>1, Zenon DEF Typed
<1>3. /\ UNCHANGED <<lastCall, caller, group, pstate, bound, over, revision, byClient, phone>>
      /\ UNCHANGED <<expiring, dirty, retries, storedRev, stored, storedOver, unseen>>
      /\ retiring' \subseteq retiring /\ calls' \subseteq calls /\ calls \ calls' \subseteq retiring
  BY MinorFacts, Zenon
<1>4. EnvTyped' /\ rungOut' \subseteq Calls
  BY <1>2, MinorTypes, Zenon
<1>5. IdTyped' /\ HistTyped'
  BY <1>2, <1>3, Zenon DEF IdTyped, HistTyped
<1>6. MemTyped'
  BY <1>2, <1>3, Zenon DEF MemTyped
<1>7. TimerTyped'
  BY <1>2, <1>3, <1>4, Zenon DEF TimerTyped
<1>8. Typed'
  BY <1>4, <1>5, <1>6, <1>7, Zenon DEF Typed
<1>9. Quiet
  BY <1>1, <1>2, <1>3, LastCallNat DEF Quiet, RetiringOver
<1>10. Unsaved'
  BY <1>1, <1>3, StillUnsaved, Zenon
<1> QED
  BY <1>8, <1>9, <1>10, QuietStep, Zenon

LEMMA RestartStep ==
  ASSUME Core, Restart
  PROVE  Core' /\ Fades
<1>1. Typed /\ Blank /\ Owned
  BY Zenon DEF Core
<1>2. /\ UNCHANGED <<lastCall, caller, group, pstate, bound, over, revision, phone, rungOut>>
      /\ UNCHANGED <<storedRev, stored, storedOver, members>>
      /\ calls' = {} /\ byClient' = [s \in Sessions |-> None]
      /\ expiring' = {} /\ retiring' = {} /\ dirty' = {} /\ retries' = [i \in Calls |-> 0]
      /\ online' = {} /\ closing' = {} /\ leaving' = {}
  BY Zenon DEF Restart, call, history
<1>3. Typed'
  BY <1>1, <1>2, Zenon DEF Typed, IdTyped, HistTyped, MemTyped, TimerTyped, EnvTyped
<1>4. Blank' /\ Owned' /\ RetiringOver'
  BY <1>1, <1>2, Zenon DEF Blank, Owned, RetiringOver
<1>5. BindingExact' /\ LiveCallsViable' /\ PhonesRing'
  BY <1>2, CallsNat, Zenon DEF BindingExact, LiveCallsViable, PhonesRing, live
<1>6. Fades
  BY <1>2, Zenon DEF Fades
<1> QED
  BY <1>3, <1>4, <1>5, <1>6, Zenon DEF Core

-----------------------------------------------------------------------------
(* The calls in memory.                                                    *)

Started == \E s \in Sessions : StartDirect(s) \/ StartGroup(s)

\* Whom a new call may reach: one account, or the members of the caller's group.
LEMMA StartTargets ==
  ASSUME EnvTyped, Started
  PROVE  \E s \in Sessions, g \in Groups \cup {NoGroup}, targets \in SUBSET Accounts :
           /\ startPrivateCall(s, g, targets)
           /\ g # NoGroup => Owner[s] \in members[g] /\ targets = members[g]
<1>1. PICK s \in Sessions : StartDirect(s) \/ StartGroup(s)
  BY Zenon DEF Started
<1>2. CASE StartDirect(s)
  BY <1>2, Zenon DEF StartDirect
<1>3. CASE StartGroup(s)
  BY <1>3, Zenon DEF StartGroup, EnvTyped
<1> QED
  BY <1>1, <1>2, <1>3, Zenon

\* So the start of a call is as follows.
LEMMA StartedStep ==
  ASSUME Core, Started
  PROVE  /\ Core' /\ UNCHANGED <<dirty, online, closing, members, leaving>>
         /\ FirstSaved(lastCall + 1)
         /\ \E g \in Groups \cup {NoGroup}, T \in SUBSET Accounts :
              /\ Begins(lastCall + 1, g, T)
              /\ g # NoGroup => T = members[g]
<1>1. EnvTyped
  BY Zenon DEF Core, Typed
<1>2. PICK s \in Sessions, g \in Groups \cup {NoGroup}, targets \in SUBSET Accounts :
        /\ startPrivateCall(s, g, targets)
        /\ g # NoGroup => Owner[s] \in members[g] /\ targets = members[g]
  BY <1>1, StartTargets, Zenon
<1>3. /\ Core' /\ UNCHANGED <<dirty, online, closing, members, leaving>>
      /\ Begins(lastCall + 1, g, targets \cup {Owner[s]}) /\ FirstSaved(lastCall + 1)
  BY <1>2, StartStep, Zenon
<1>4. targets \cup {Owner[s]} \in SUBSET Accounts /\ (g # NoGroup => targets \cup {Owner[s]} = members[g])
  BY <1>2, PrivateCallsAssumption, Zenon
<1> QED
  BY <1>3, <1>4, Zenon

\* The requests about a call, and what becomes of a call without one.
Request == \E s \in Sessions, i \in Calls : Accept(i, s) \/ Decline(i, s) \/ Leave(i, s) \/ Cancel(i, s)

\* The steps.
LEMMA NextCases ==
  ASSUME [Next]_vars
  PROVE  \/ Started \/ Request \/ Minor \/ Restart
         \/ \E s \in Sessions : disconnectPrivateCall(s)
         \/ \E a \in Accounts : History(a)
         \/ \E i \in Calls : expirePrivateCall(i) \/ RetrySave(i)
         \/ \E g \in Groups, a \in Accounts : removeConversationCaller(g, a)
  BY Zenon DEF Next, Started, Request, Minor

\* Every step preserves the invariant, and in every step but the start of a
\* call nobody begins to take part.
LEMMA CoreStep ==
  ASSUME Core, [Next]_vars
  PROVE  Core' /\ (Started \/ Fades)
<1>1. CASE Started
  BY <1>1, StartedStep, Zenon
<1>2. CASE Request
  BY <1>2, RequestStep, Zenon DEF Request
<1>3. ASSUME NEW s \in Sessions, disconnectPrivateCall(s) PROVE Core' /\ Fades
  BY <1>3, DisconnectStep, Zenon
<1>4. ASSUME NEW a \in Accounts, History(a) PROVE Core' /\ Fades
  BY <1>4, HistoryStep, Zenon
<1>5. ASSUME NEW i \in Calls, expirePrivateCall(i) \/ RetrySave(i) PROVE Core' /\ Fades
  BY <1>5, ExpireStep, RetryStep, Zenon
<1>6. ASSUME NEW g \in Groups, NEW a \in Accounts, removeConversationCaller(g, a) PROVE Core' /\ Fades
  BY <1>6, RemoveStep, Zenon
<1>7. CASE Restart
  BY <1>7, RestartStep, Zenon
<1>8. CASE Minor
  BY <1>8, MinorStep, Zenon
<1> QED
  BY <1>1, <1>2, <1>3, <1>4, <1>5, <1>6, <1>7, <1>8, NextCases, Zenon

LEMMA CoreInit == Init => Core
<1> SUFFICES ASSUME Init PROVE Core
  BY Zenon
<1>1. "out" \in PStates /\ 0 \in 0..MaxCalls
  BY PrivateCallsAssumption DEF PStates
<1>2. IdTyped /\ TimerTyped
  BY <1>1, Zenon DEF Init, IdTyped, TimerTyped
<1>3. MemTyped
  BY <1>1, Zenon DEF Init, MemTyped
<1>4. HistTyped /\ EnvTyped
  BY <1>1, Zenon DEF Init, HistTyped, EnvTyped
<1>5. Blank
  BY Zenon DEF Init, Blank
<1>6. Owned /\ RetiringOver
  BY Zenon DEF Init, Owned, RetiringOver
<1>7. BindingExact /\ LiveCallsViable /\ PhonesRing
  BY CallsNat, Zenon DEF Init, BindingExact, LiveCallsViable, PhonesRing, live
<1> QED
  BY <1>2, <1>3, <1>4, <1>5, <1>6, <1>7, Zenon DEF Core, Typed

LEMMA CoreInvariant == Spec => []Core
  BY CoreInit, CoreStep, PTL DEF Spec

\* privateCallByClient is exactly "takes part in a live call", whatever
\* requests, disconnects, removals, timers and restarts interleave and however
\* saves fail: a session is in at most one call, and cleanup finds it.
THEOREM BindingExactHolds == Spec => []BindingExact
<1>1. Core => BindingExact
  BY Zenon DEF Core
<1> QED
  BY <1>1, CoreInvariant, PTL

\* A live call has somebody to talk to, and nobody rings in an ended one.
THEOREM LiveCallsViableHolds == Spec => []LiveCallsViable
<1>1. Core => LiveCallsViable
  BY Zenon DEF Core
<1> QED
  BY <1>1, CoreInvariant, PTL

\* Phones show exactly the ringing calls, although pushCallChangesLocked sees
\* only the difference of two states.
THEOREM PhonesRingHolds == Spec => []PhonesRing
<1>1. Core => PhonesRing
  BY Zenon DEF Core
<1> QED
  BY <1>1, CoreInvariant, PTL

\* A cleanup of departures: what it publishes of the calls S.
LEMMA DeparturesPublished ==
  ASSUME Core, NEW S \in SUBSET (calls \ over), NEW a \in Accounts, cleanUp(S, departures(S, a))
  PROVE  /\ \A i \in S : pstate'[i][a] \notin Active
         /\ bound' = bound
<1> DEFINE NP == departures(S, a)
           E == emptied(S, NP)
<1>1. MemTyped /\ Owned /\ BindingExact
  BY Zenon DEF Core, Typed
<1>2. S \in SUBSET Calls
  BY <1>1, Zenon DEF MemTyped
<1>3. Faded(S, NP) /\ \A i \in S : NP[i][a] \notin Active
  BY <1>1, <1>2, DeparturesFaded, Zenon
<1>4. Publishes(S, NP, bound, E)
  BY <1>1, <1>3, CleanUpSound, Zenon DEF cleanUp, Publishes
<1> HIDE DEF NP, E
<1>5. \A i \in S : pstate'[i] = NP[i]
  BY <1>4, Zenon DEF Publishes, publishPrivateCall, Sound, Fresh
<1>6. bound' = bound
  BY <1>1, <1>4, Zenon DEF Publishes, publishPrivateCall, MemTyped
<1> QED
  BY <1>3, <1>5, <1>6, Zenon

\* The requests leave sessions and groups alone.
LEMMA RequestFrame ==
  ASSUME Request
  PROVE  UNCHANGED <<call, sessions, members, leaving, boots>>
<1>1. ASSUME NEW j, NEW P, NEW B, commit(j, P, B) PROVE UNCHANGED <<call, sessions, members, leaving, boots>>
  BY <1>1, Zenon DEF commit
<1> QED
  BY <1>1, Zenon DEF Request, Accept, Decline, Leave, Cancel

\* Every step keeps live calls free of ghosts.
LEMMA GhostStep ==
  ASSUME Core, NoGhosts, [Next]_vars
  PROVE  NoGhosts'
<1> SUFFICES ASSUME NEW i \in calls', NEW a \in Accounts,
                    i \notin over', pstate'[i][a] \in Active, bound'[i][a] # None
             PROVE  bound'[i][a] \in online' \cup closing'
  BY Zenon DEF NoGhosts
<1>1. MemTyped /\ Owned /\ BindingExact /\ (Started \/ Fades)
  BY CoreStep, Zenon DEF Core, Typed
<1>2. CASE Started
  BY <1>2, StartedStep, Zenon DEF Begins, NoGhosts
<1>3. ASSUME ~Started
      PROVE  /\ i \in calls /\ i \notin over /\ pstate[i][a] \in Active
             /\ bound'[i][a] \in online \/ (bound'[i][a] = bound[i][a] /\ bound[i][a] \in online \cup closing)
  BY <1>1, <1>3, Zenon DEF Fades, NoGhosts
<1>4. ASSUME NEW s \in Sessions, disconnectPrivateCall(s), ~Started PROVE bound'[i][a] \in online' \cup closing'
  <2> DEFINE S == abandons(s)
  <2>1. cleanUp(S, departures(S, Owner[s])) /\ closing' = closing \ {s} /\ UNCHANGED online
    BY <1>4, Zenon DEF disconnectPrivateCall
  <2>2. S \in SUBSET (calls \ over) /\ Owner[s] \in Accounts
    BY PrivateCallsAssumption, Zenon DEF abandons
  <2>3. bound' = bound /\ \A j \in S : pstate'[j][Owner[s]] \notin Active
    BY <2>1, <2>2, DeparturesPublished, Zenon
  <2>4. ASSUME bound'[i][a] = s PROVE FALSE
    BY <1>1, <1>3, <1>4, <2>3, <2>4, PrivateCallsAssumption DEF MemTyped, Owned, BindingExact, live,
       abandons
  <2> QED
    BY <1>3, <1>4, <2>1, <2>4, Zenon
<1>5. ASSUME ~Started, online \cup closing \subseteq online' \cup closing'
      PROVE  bound'[i][a] \in online' \cup closing'
  BY <1>3, <1>5, Zenon
<1>6. ASSUME UNCHANGED sessions PROVE online \cup closing \subseteq online' \cup closing'
  BY <1>6, Zenon DEF sessions
<1>7. CASE Request
  BY <1>2, <1>5, <1>6, <1>7, RequestFrame, Zenon
<1>8. CASE Minor
  <2>1. ASSUME NEW s \in Sessions, Connect(s) \/ Unregister(s)
        PROVE  online \cup closing \subseteq online' \cup closing'
    BY <2>1, Zenon DEF Connect, Unregister
  <2>2. ASSUME \/ \E j \in Calls : RingUntilPasses(j) \/ retirePrivateCall(j)
               \/ \E g \in Groups, x \in Accounts : JoinGroup(g, x) \/ LeaveGroup(g, x)
               \/ UNCHANGED vars
        PROVE  UNCHANGED sessions
    BY <2>2, Zenon DEF RingUntilPasses, retirePrivateCall, JoinGroup, LeaveGroup, vars
  <2>3. online \cup closing \subseteq online' \cup closing'
    BY <1>6, <1>8, <2>1, <2>2, Zenon DEF Minor
  <2> QED
    BY <1>2, <1>5, <2>3, Zenon
<1>9. ASSUME \/ \E x \in Accounts : History(x)
             \/ \E j \in Calls : expirePrivateCall(j) \/ RetrySave(j)
             \/ \E g \in Groups, x \in Accounts : removeConversationCaller(g, x)
      PROVE  UNCHANGED sessions
  BY <1>9, Zenon DEF History, expirePrivateCall, RetrySave, removeConversationCaller
<1>10. CASE Restart
  BY <1>10, Zenon DEF Restart
<1> QED
  BY <1>2, <1>4, <1>5, <1>6, <1>7, <1>8, <1>9, <1>10, NextCases, Zenon

\* No session that is gone stays in a live call: startPrivateCall, Accept and
\* onDisconnect in any order leave no participant that nothing will remove.
THEOREM NoGhostsHolds == Spec => []NoGhosts
<1>1. Init => NoGhosts
  BY Zenon DEF Init, NoGhosts
<1> QED
  BY <1>1, CoreInvariant, GhostStep, PTL DEF Spec

\* Every step keeps who takes part in a group call a member or about to leave.
LEMMA MemberStep ==
  ASSUME Core, GroupCallsAreMembers, [Next]_vars
  PROVE  GroupCallsAreMembers'
<1> SUFFICES ASSUME NEW i \in calls', NEW a \in Accounts,
                    i \notin over', group'[i] # NoGroup, pstate'[i][a] \in Active
             PROVE  a \in members'[group'[i]] \/ <<group'[i], a>> \in leaving'
  BY Zenon DEF GroupCallsAreMembers
<1>1. IdTyped /\ MemTyped /\ EnvTyped /\ MemTyped' /\ (Started \/ Fades)
  BY CoreStep, Zenon DEF Core, Typed
<1>2. CASE Started
  BY <1>2, StartedStep, Zenon DEF Begins, GroupCallsAreMembers
<1>3. ASSUME ~Started, group' = group
      PROVE  /\ i \in calls /\ i \notin over /\ pstate[i][a] \in Active
             /\ a \in members[group[i]] \/ <<group[i], a>> \in leaving
  BY <1>1, <1>3, Zenon DEF Fades, GroupCallsAreMembers
<1>4. i \in Calls /\ group \in [Calls -> Groups \cup {NoGroup}] /\ members \in [Groups -> SUBSET Accounts]
  BY <1>1, Zenon DEF IdTyped, EnvTyped, MemTyped
<1>5. ASSUME NEW g \in Groups, NEW x \in Accounts, JoinGroup(g, x) \/ LeaveGroup(g, x), ~Started
      PROVE  a \in members'[group'[i]] \/ <<group'[i], a>> \in leaving'
  BY <1>3, <1>4, <1>5, Zenon DEF JoinGroup, LeaveGroup, call
<1>6. ASSUME NEW g \in Groups, NEW x \in Accounts, removeConversationCaller(g, x), ~Started
      PROVE  a \in members'[group'[i]] \/ <<group'[i], a>> \in leaving'
  <2> DEFINE S == groupCalls(g, x)
  <2>1. cleanUp(S, departures(S, x)) /\ leaving' = leaving \ {<<g, x>>} /\ UNCHANGED <<group, members>>
    BY <1>6, Zenon DEF removeConversationCaller, call
  <2>2. S \in SUBSET (calls \ over)
    BY Zenon DEF groupCalls
  <2>3. \A j \in S : pstate'[j][x] \notin Active
    BY <2>1, <2>2, DeparturesPublished, Zenon
  <2>4. /\ i \in calls /\ i \notin over /\ pstate[i][a] \in Active
        /\ a \in members[group[i]] \/ <<group[i], a>> \in leaving
    BY <1>3, <1>6, <2>1, Zenon
  <2>5. ~(group[i] = g /\ a = x)
    BY <2>3, <2>4, Zenon DEF groupCalls
  <2>6. <<group[i], a>> = <<g, x>> => group[i] = g /\ a = x
    BY Zenon
  <2> QED
    BY <2>1, <2>4, <2>5, Zenon
<1>7. ASSUME ~Started, UNCHANGED <<group, members, leaving>>
      PROVE  a \in members'[group'[i]] \/ <<group'[i], a>> \in leaving'
  BY <1>3, <1>7, Zenon
<1>8. CASE Request
  BY <1>2, <1>7, <1>8, RequestFrame, Zenon DEF call
<1>9. CASE Minor
  BY <1>2, <1>5, <1>7, <1>9, Zenon DEF Connect, Unregister, RingUntilPasses, retirePrivateCall, call,
     vars, Minor
<1>10. ASSUME \/ \E s \in Sessions : disconnectPrivateCall(s)
              \/ \E x \in Accounts : History(x)
              \/ \E j \in Calls : expirePrivateCall(j) \/ RetrySave(j)
       PROVE  UNCHANGED <<group, members, leaving>>
  BY <1>10, Zenon DEF disconnectPrivateCall, History, expirePrivateCall, RetrySave, call
<1>11. CASE Restart
  BY <1>11, Zenon DEF Restart
<1> QED
  BY <1>2, <1>6, <1>7, <1>8, <1>9, <1>10, <1>11, NextCases, Zenon

\* Membership revokes the call: a group's live calls hold its members, and
\* those whose removal is still to be applied to the calls.
THEOREM GroupCallsAreMembersHolds == Spec => []GroupCallsAreMembers
<1>1. Init => GroupCallsAreMembers
  BY Zenon DEF Init, GroupCallsAreMembers
<1> QED
  BY <1>1, CoreInvariant, MemberStep, PTL DEF Spec

-----------------------------------------------------------------------------
(* The history.  A save that reports an error and is committed all the     *)
(* same puts a state into the history that memory never had; such rows are *)
(* unseen, until memory writes a later state over them.                    *)

\* The row of a call that is not dirty is not behind memory.
Level(i) == i \notin dirty => storedRev[i] >= revision[i]

\* A row that is not unseen is never ahead of memory, agrees with it when
\* level, and shows an ended call only when level.
Faithful(i) ==
  i \notin unseen =>
    /\ storedRev[i] <= revision[i]
    /\ i \in storedOver => storedRev[i] = revision[i]
    /\ storedRev[i] = revision[i] => stored[i] = pstate[i] /\ (i \in storedOver <=> i \in over)

Hist == \A i \in calls : Level(i) /\ Faithful(i)

\* The step changes no row that shows an ended call, but an unseen one of a
\* call in memory.
KeepsEnded ==
  \A i \in storedOver : (i \in calls /\ i \in unseen) \/ (i \in storedOver' /\ stored'[i] = stored[i])

\* The calls S \ T could not be saved and are dirty, and no other call is
\* taken off the dirty ones.
Owing(S, T) ==
  /\ \A i \in S \ T : i \in dirty' /\ i \in calls
  /\ \A i \in calls \ S : i \in dirty => i \in dirty'

\* The unseen rows after a save: those before it, but the ones written.
LEMMA SeenRows ==
  ASSUME NEW T, NEW rev, seen(T, rev), NEW i
  PROVE  i \in unseen' <=> i \in unseen /\ ~(i \in T /\ storedRev[i] < rev[i])
  BY Zenon DEF seen, newer

\* No call that goes on has a row that says otherwise, but an unseen one.
LEMMA LiveRow ==
  ASSUME Hist, NEW i \in calls, i \notin over, i \in storedOver
  PROVE  i \in unseen
  BY Zenon DEF Hist, Faithful

\* A call of which nothing is known about the row but that it did not change.
LEMMA SameRow ==
  ASSUME NEW i, Level(i), Faithful(i),
         storedRev'[i] = storedRev[i] /\ stored'[i] = stored[i], i \in storedOver' <=> i \in storedOver,
         revision'[i] = revision[i] /\ pstate'[i] = pstate[i], i \in over' <=> i \in over,
         i \in dirty => i \in dirty', i \in unseen => i \in unseen'
  PROVE  Level(i)' /\ Faithful(i)'
<1>1. Level(i)'
  BY Zenon DEF Level
<1>2. Faithful(i)'
  BY Zenon DEF Faithful
<1> QED
  BY <1>1, <1>2, Zenon

\* A row that was written from memory.
LEMMA WrittenRow ==
  ASSUME NEW i, revision'[i] \in Nat, storedRev'[i] = revision'[i], stored'[i] = pstate'[i],
         i \in storedOver' <=> i \in over'
  PROVE  Level(i)' /\ Faithful(i)'
<1>1. revision'[i] <= revision'[i] /\ revision'[i] >= revision'[i]
  OBVIOUS
<1>2. Level(i)'
  BY <1>1, Zenon DEF Level
<1>3. Faithful(i)'
  BY <1>1, Zenon DEF Faithful
<1> QED
  BY <1>2, <1>3, Zenon

\* What is published after T of the calls S were saved.
LEMMA HistPublish ==
  ASSUME MemTyped, HistTyped, IdTyped, Blank, Hist, NEW S, NEW NP, NEW NB, NEW E, NEW T \in SUBSET S,
         Publishes(S, NP, NB, E), save(T, NP, nextRevision(S), E), seen(T, nextRevision(S)), Owing(S, T)
  PROVE  Hist' /\ KeepsEnded
<1>1. /\ calls' = calls \cup S /\ over' = over \cup E
      /\ S \subseteq Calls /\ E \subseteq S /\ S \cap over = {}
      /\ \A i \in S : i \in calls \/ i > lastCall
  BY Zenon DEF Publishes, Sound, Fresh, publishPrivateCall
<1>2. /\ storedRev \in [Calls -> Nat] /\ revision \in [Calls -> Nat] /\ calls \subseteq Calls
      /\ storedOver \subseteq Calls
  BY Zenon DEF MemTyped, HistTyped
<1>3. ASSUME NEW i \in S
      PROVE  /\ i \notin unseen => storedRev[i] <= revision[i]
             /\ i \in storedOver => i \in calls /\ i \in unseen
  <2>1. CASE i \in calls
    BY <1>1, <2>1, LiveRow, Zenon DEF Hist, Faithful
  <2>2. CASE i > lastCall
    <3>1. storedRev[i] = 0 /\ revision[i] = 0 /\ i \notin storedOver
      BY <1>1, <2>2, Zenon DEF Blank
    <3> QED  BY <3>1
  <2> QED  BY <1>1, <2>1, <2>2, Zenon
<1>4. ASSUME NEW i \in S
      PROVE  /\ i \in Calls /\ nextRevision(S)[i] = revision[i] + 1 /\ revision'[i] = revision[i] + 1
             /\ storedRev[i] \in Nat /\ revision[i] \in Nat
  BY <1>1, <1>2, NextRevisionType, PublishedIn, Zenon
<1>5. KeepsEnded
  <2> SUFFICES ASSUME NEW i \in storedOver, i \notin S PROVE i \in storedOver' /\ stored'[i] = stored[i]
    BY <1>3, Zenon DEF KeepsEnded
  <2> QED
    BY <1>2, SavedOut, Zenon
<1>6. Hist'
  <2> SUFFICES ASSUME NEW i \in calls' PROVE Level(i)' /\ Faithful(i)'
    BY Zenon DEF Hist
  <2>1. CASE i \in T /\ storedRev[i] < nextRevision(S)[i]
    <3>0. i \in S
      BY <2>1, Zenon
    <3>1. revision'[i] = revision[i] + 1 /\ pstate'[i] = NP[i]
      BY <1>1, <3>0, Zenon DEF Publishes, publishPrivateCall
    <3>2. storedRev'[i] = nextRevision(S)[i] /\ stored'[i] = NP[i] /\ (i \in storedOver' <=> i \in E)
      BY <1>4, <2>1, <3>0, SavedIn, Zenon
    <3>3. i \in over' <=> i \in E
      BY <1>1, <3>0, Zenon
    <3>4. revision[i] + 1 \in Nat /\ nextRevision(S)[i] = revision[i] + 1
      BY <1>4, <3>0
    <3> QED
      BY <3>1, <3>2, <3>3, <3>4, WrittenRow, Zenon
  <2>2. CASE i \in T /\ ~(storedRev[i] < nextRevision(S)[i])
    <3>1. /\ i \in S /\ i \in Calls /\ ~(storedRev[i] < revision[i] + 1)
          /\ storedRev[i] \in Nat /\ revision[i] \in Nat /\ revision'[i] = revision[i] + 1
      BY <1>4, <2>2, Zenon
    <3>2. storedRev[i] >= revision'[i] /\ ~(storedRev[i] <= revision[i])
      BY <3>1
    <3>3. storedRev'[i] = storedRev[i]
      BY <2>2, <3>1, SavedOut, Zenon
    <3>4. i \in unseen'
      BY <1>3, <2>2, <3>1, <3>2, SeenRows, Zenon
    <3> QED
      BY <3>2, <3>3, <3>4, Zenon DEF Level, Faithful
  <2>3. CASE i \in S \ T
    <3>1. /\ i \in Calls /\ revision'[i] = revision[i] + 1 /\ storedRev'[i] = storedRev[i]
          /\ i \in storedOver' <=> i \in storedOver
          /\ i \in dirty' /\ (i \in unseen' <=> i \in unseen)
      BY <1>4, <2>3, SavedOut, SeenRows, Zenon DEF Owing
    <3>2. i \notin unseen => storedRev[i] <= revision[i] /\ i \notin storedOver
      BY <1>3, <2>3, Zenon
    <3>3. storedRev[i] <= revision[i] => storedRev'[i] <= revision'[i] /\ storedRev'[i] # revision'[i]
      BY <1>4, <2>3, <3>1
    <3> QED
      BY <3>1, <3>2, <3>3, Zenon DEF Level, Faithful
  <2>4. CASE i \notin S
    <3>1. /\ i \in calls /\ i \in Calls /\ i \notin T /\ (i \in over' <=> i \in over)
          /\ i \in dirty => i \in dirty'
      BY <1>1, <1>2, <2>4, Zenon DEF Owing
    <3>2. revision'[i] = revision[i] /\ pstate'[i] = pstate[i]
      BY <2>4, <3>1, PublishedOut, Zenon
    <3>3. /\ storedRev'[i] = storedRev[i] /\ stored'[i] = stored[i]
          /\ i \in storedOver' <=> i \in storedOver
          /\ i \in unseen => i \in unseen'
      BY <3>1, SavedOut, SeenRows, Zenon
    <3>4. Level(i) /\ Faithful(i)
      BY <3>1, Zenon DEF Hist
    <3> QED
      BY <3>1, <3>2, <3>3, <3>4, SameRow, Zenon
  <2> QED
    BY <2>1, <2>2, <2>3, <2>4, Zenon
<1> QED
  BY <1>5, <1>6, Zenon

\* The rows T that are saved from memory are given memory's state, the others
\* belong to no call in memory and are open.
Catching(T, NP, rev, E) ==
  /\ \A i \in T \cap calls : rev[i] = revision[i] /\ NP[i] = pstate[i] /\ (i \in E <=> i \in over)
  /\ \A i \in T \ calls : i \notin storedOver
  /\ \A i \in calls \ T : i \in dirty => i \in dirty'

\* Rows that catch up with memory, while memory is unchanged.
LEMMA HistCatchUp ==
  ASSUME MemTyped, HistTyped, Hist, UNCHANGED <<calls, pstate, over, revision>>,
         NEW T \in SUBSET Calls, NEW NP, NEW rev \in [Calls -> Nat], NEW E, save(T, NP, rev, E),
         seen(T, rev), Catching(T, NP, rev, E)
  PROVE  Hist' /\ KeepsEnded
<1>1. storedRev \in [Calls -> Nat] /\ revision \in [Calls -> Nat] /\ calls \subseteq Calls /\ storedOver \subseteq Calls
  BY Zenon DEF MemTyped, HistTyped
<1>2. ASSUME NEW i \in Calls, i \notin T \/ ~(storedRev[i] < rev[i])
      PROVE  /\ storedRev'[i] = storedRev[i] /\ stored'[i] = stored[i]
             /\ i \in storedOver' <=> i \in storedOver
             /\ i \in unseen => i \in unseen'
  BY <1>2, SavedOut, SeenRows, Zenon
<1>3. ASSUME NEW i \in calls
      PROVE  /\ i \in Calls /\ Level(i) /\ Faithful(i) /\ revision[i] \in Nat /\ storedRev[i] \in Nat
             /\ i \in T => rev[i] = revision[i] /\ NP[i] = pstate[i] /\ (i \in E <=> i \in over)
             /\ i \notin T => (i \in dirty => i \in dirty')
  BY <1>1, <1>3, Zenon DEF Hist, Catching
<1>4. KeepsEnded
  <2> SUFFICES ASSUME NEW i \in storedOver, i \notin calls \/ i \notin unseen
               PROVE  i \in storedOver' /\ stored'[i] = stored[i]
    BY Zenon DEF KeepsEnded
  <2>1. CASE i \notin calls
    BY <1>1, <1>2, <2>1, Zenon DEF Catching
  <2>2. CASE i \in calls /\ i \notin unseen
    <3>1. storedRev[i] = revision[i]
      BY <1>3, <2>2, Zenon DEF Faithful
    <3>2. i \in T => ~(storedRev[i] < rev[i])
      BY <1>3, <2>2, <3>1
    <3> QED
      BY <1>2, <1>3, <2>2, <3>2, Zenon
  <2> QED  BY <2>1, <2>2, Zenon
<1>5. Hist'
  <2> SUFFICES ASSUME NEW i \in calls PROVE Level(i)' /\ Faithful(i)'
    BY Zenon DEF Hist
  <2>1. CASE i \in T /\ storedRev[i] < rev[i]
    <3>1. storedRev'[i] = rev[i] /\ stored'[i] = NP[i] /\ (i \in storedOver' <=> i \in E)
      BY <1>3, <2>1, SavedIn, Zenon
    <3> QED
      BY <1>3, <2>1, <3>1, WrittenRow, Zenon
  <2>2. CASE i \in T /\ ~(storedRev[i] < rev[i])
    <3>1. storedRev[i] >= revision[i]
      BY <1>3, <2>2
    <3>2. Level(i)'
      BY <1>2, <1>3, <2>2, <3>1, Zenon DEF Level
    <3>3. Faithful(i)'
      BY <1>2, <1>3, <2>2, Zenon DEF Faithful
    <3> QED  BY <3>2, <3>3, Zenon
  <2>3. CASE i \notin T
    BY <1>2, <1>3, <2>3, SameRow, Zenon
  <2> QED
    BY <2>1, <2>2, <2>3, Zenon
<1> QED
  BY <1>4, <1>5, Zenon

\* A row that was written for a request which is answered with an error, while
\* memory is unchanged.
LEMMA HistLanded ==
  ASSUME MemTyped, HistTyped, Hist, UNCHANGED <<calls, pstate, over, revision, dirty>>,
         NEW i \in Calls, i \notin over, i \in calls \/ i \notin storedOver,
         NEW NP, NEW rev \in [Calls -> Nat], NEW E, save({i}, NP, rev, E), notSeen({i}, rev)
  PROVE  Hist' /\ KeepsEnded
<1>1. storedRev \in [Calls -> Nat] /\ revision \in [Calls -> Nat] /\ calls \subseteq Calls /\ storedOver \subseteq Calls
  BY Zenon DEF MemTyped, HistTyped
<1>2. ASSUME NEW j \in Calls, j # i \/ ~(storedRev[j] < rev[j])
      PROVE  /\ storedRev'[j] = storedRev[j] /\ stored'[j] = stored[j]
             /\ j \in storedOver' <=> j \in storedOver
  <2>1. j \notin {i} \/ ~(storedRev[j] < rev[j])
    BY <1>2, Zenon
  <2> QED
    BY <2>1, SavedOut, Zenon
<1>3. ASSUME NEW j \in unseen PROVE j \in unseen'
  BY <1>3, Zenon DEF notSeen
<1>4. KeepsEnded
  <2> SUFFICES ASSUME NEW j \in storedOver, j \notin calls \/ j \notin unseen
               PROVE  j \in storedOver' /\ stored'[j] = stored[j]
    BY Zenon DEF KeepsEnded
  <2>1. j # i
    BY LiveRow, Zenon
  <2> QED
    BY <1>1, <1>2, <2>1, Zenon
<1>5. Hist'
  <2> SUFFICES ASSUME NEW j \in calls PROVE Level(j)' /\ Faithful(j)'
    BY Zenon DEF Hist
  <2>0. j \in Calls /\ Level(j) /\ Faithful(j)
    BY <1>1, Zenon DEF Hist
  <2>1. CASE j # i \/ ~(storedRev[j] < rev[j])
    BY <1>2, <1>3, <2>0, <2>1, SameRow, Zenon
  <2>2. CASE j = i /\ storedRev[j] < rev[j]
    <3>1. storedRev'[j] = rev[j]
      BY <2>0, <2>2, SavedIn, Zenon
    <3>2. j \in unseen'
      BY <2>2, Zenon DEF notSeen, newer
    <3>3. storedRev[j] >= revision[j] => rev[j] >= revision[j]
      BY <1>1, <2>0, <2>2
    <3> QED
      BY <2>0, <3>1, <3>2, <3>3, Zenon DEF Level, Faithful
  <2> QED
    BY <2>1, <2>2, Zenon
<1> QED
  BY <1>4, <1>5, Zenon

\* Steps that touch neither rows nor the state of the calls in memory.
LEMMA HistQuiet ==
  ASSUME Hist, UNCHANGED <<storedRev, stored, storedOver, unseen>>, calls' \subseteq calls,
         UNCHANGED <<pstate, over, revision>>, \A i \in calls' : i \in dirty => i \in dirty'
  PROVE  Hist' /\ KeepsEnded
<1>1. Hist'
  <2> SUFFICES ASSUME NEW i \in calls' PROVE Level(i)' /\ Faithful(i)'
    BY Zenon DEF Hist
  <2>1. Level(i) /\ Faithful(i)
    BY Zenon DEF Hist
  <2> QED
    BY <2>1, SameRow, Zenon
<1>2. KeepsEnded
  BY Zenon DEF KeepsEnded
<1> QED
  BY <1>1, <1>2, Zenon

LEMMA HistCommit ==
  ASSUME Core, Hist, NEW i, NEW P, NEW B, Proper(i, P, B), commit(i, P, B)
  PROVE  Hist' /\ KeepsEnded
<1> DEFINE NP == [pstate EXCEPT ![i] = P]
           NB == [bound EXCEPT ![i] = B]
           E  == emptied({i}, NP)
<1>1. IdTyped /\ MemTyped /\ HistTyped /\ Blank /\ Owned /\ BindingExact
  BY Zenon DEF Core, Typed
<1>2. Sound({i}, NP, NB, E)
  BY <1>1, CommitSound, Zenon
<1>3. /\ save({i}, NP, nextRevision({i}), E)
      /\ \/ publishPrivateCall({i}, NP, NB, E) /\ UNCHANGED dirty /\ seen({i}, nextRevision({i}))
         \/ UNCHANGED <<calls, pstate, over, revision, dirty>> /\ notSeen({i}, nextRevision({i}))
  BY Zenon DEF commit, memory, timers
<1> HIDE DEF NP, NB, E
<1>4. CASE publishPrivateCall({i}, NP, NB, E) /\ UNCHANGED dirty /\ seen({i}, nextRevision({i}))
  <2>1. Publishes({i}, NP, NB, E)
    BY <1>2, <1>4, Zenon DEF Publishes
  <2>2. Owing({i}, {i}) /\ {i} \in SUBSET {i}
    BY <1>4, Zenon DEF Owing
  <2> QED
    BY <1>1, <1>3, <1>4, <2>1, <2>2, HistPublish, Zenon
<1>5. CASE UNCHANGED <<calls, pstate, over, revision, dirty>> /\ notSeen({i}, nextRevision({i}))
  <2>1. i \in calls /\ i \in Calls /\ i \notin over
    BY <1>1, Zenon DEF Proper, MemTyped
  <2>2. nextRevision({i}) \in [Calls -> Nat]
    BY <1>1, NextRevisionType, Zenon
  <2> QED
    BY <1>1, <1>3, <1>5, <2>1, <2>2, HistLanded, Zenon
<1> QED
  BY <1>3, <1>4, <1>5, Zenon

LEMMA HistCleanUp ==
  ASSUME Core, Hist, NEW S \in SUBSET (calls \ over), NEW NP, Faded(S, NP), cleanUp(S, NP)
  PROVE  Hist' /\ KeepsEnded
<1> DEFINE E == emptied(S, NP)
<1>1. IdTyped /\ MemTyped /\ TimerTyped /\ HistTyped /\ Blank /\ Owned /\ BindingExact
  BY Zenon DEF Core, Typed
<1>2. S \in SUBSET Calls /\ S \subseteq calls /\ calls \subseteq Calls
  BY <1>1, Zenon DEF MemTyped
<1>3. Publishes(S, NP, bound, E)
  BY <1>1, CleanUpSound, Zenon DEF cleanUp, Publishes
<1>4. saveCallCleanup(S, NP, nextRevision(S), E)
  BY Zenon DEF cleanUp
<1> HIDE DEF E
<1>5. PICK T \in SUBSET S : /\ save(T, NP, nextRevision(S), E) /\ seen(T, nextRevision(S))
                            /\ \A i \in S : i \notin T => i \in dirty'
  BY <1>1, <1>2, <1>4, CleanupSaved
<1>6. \A i \in Calls \ S : i \in dirty' <=> i \in dirty
  BY <1>1, <1>2, <1>4, CleanupSaved, Zenon
<1>7. Owing(S, T)
  BY <1>2, <1>5, <1>6, Zenon DEF Owing
<1> QED
  BY <1>1, <1>3, <1>5, <1>7, HistPublish, Zenon

LEMMA HistRetry ==
  ASSUME Core, Hist, NEW i \in Calls, RetrySave(i)
  PROVE  Hist' /\ KeepsEnded
<1>1. MemTyped /\ HistTyped
  BY Zenon DEF Core, Typed
<1>2. UNCHANGED <<calls, pstate, over, revision>>
  BY Zenon DEF RetrySave, memory
<1>3. CASE i \notin calls /\ dirty' = settled(i) /\ UNCHANGED history
  BY <1>2, <1>3, HistQuiet, Zenon DEF settled, history
<1>4. CASE /\ i \in calls /\ dirty' \in {settled(i), dirty \cup {i}}
           /\ save({i}, pstate, revision, over) /\ seen({i}, revision)
  <2>1. Catching({i}, pstate, revision, over)
    BY <1>4, Zenon DEF Catching, settled
  <2>2. revision \in [Calls -> Nat] /\ {i} \in SUBSET Calls
    BY <1>1, Zenon DEF MemTyped
  <2> QED
    BY <1>1, <1>2, <1>4, <2>1, <2>2, HistCatchUp, Zenon
<1>5. CASE dirty' = dirty \cup {i} /\ UNCHANGED history
  BY <1>2, <1>5, HistQuiet, Zenon DEF history
<1> QED
  BY <1>3, <1>4, <1>5, Zenon DEF RetrySave

LEMMA HistHistory ==
  ASSUME Core, Hist, NEW a \in Accounts, History(a)
  PROVE  Hist' /\ KeepsEnded
<1>1. MemTyped /\ HistTyped
  BY Zenon DEF Core, Typed
<1>2. PICK T \in SUBSET Candidates : save(T, HistoryStates, HistoryRev, HistoryOver) /\ seen(T, HistoryRev)
  BY HistoryRows, Zenon
<1>3. UNCHANGED <<calls, pstate, over, revision, dirty>>
  BY Zenon DEF History, memory, timers
<1>4. HistoryRev \in [Calls -> Nat]
  BY <1>1, HistoryTypes, Zenon
<1>5. T \in SUBSET Calls
  BY Zenon DEF Candidates
<1>6. Catching(T, HistoryStates, HistoryRev, HistoryOver)
  BY <1>3, Zenon DEF HistoryRev, HistoryStates, HistoryOver, abandoned, recovered, Candidates, Catching
<1> QED
  BY <1>1, <1>2, <1>3, <1>4, <1>5, <1>6, HistCatchUp, Zenon

\* Every step preserves the invariant of the history and changes no row that
\* shows an ended call.
LEMMA HistStep ==
  ASSUME Core, Hist, [Next]_vars
  PROVE  Hist' /\ KeepsEnded
<1>1. IdTyped /\ MemTyped /\ HistTyped /\ Blank
  BY Zenon DEF Core, Typed
<1>2. CASE Started
  <2> DEFINE i == lastCall + 1
  <2>1. UNCHANGED dirty /\ FirstSaved(i)
    BY <1>2, StartedStep, Zenon
  <2> HIDE DEF i
  <2>2. PICK NP, NB :
          /\ Sound({i}, NP, NB, {}) /\ save({i}, NP, nextRevision({i}), {})
          /\ \/ publishPrivateCall({i}, NP, NB, {}) /\ seen({i}, nextRevision({i}))
             \/ UNCHANGED memory /\ notSeen({i}, nextRevision({i}))
    BY <2>1, Zenon DEF FirstSaved
  <2>3. CASE publishPrivateCall({i}, NP, NB, {}) /\ seen({i}, nextRevision({i}))
    <3>1. Publishes({i}, NP, NB, {})
      BY <2>2, <2>3, Zenon DEF Publishes
    <3>2. Owing({i}, {i}) /\ {i} \in SUBSET {i}
      BY <2>1, Zenon DEF Owing
    <3> QED
      BY <1>1, <2>2, <2>3, <3>1, <3>2, HistPublish, Zenon
  <2>4. CASE UNCHANGED memory /\ notSeen({i}, nextRevision({i}))
    <3>1. i \in Calls /\ i > lastCall
      <4>1. i \in Calls
        BY <2>2, Zenon DEF Sound, Fresh
      <4>2. lastCall \in Nat
        BY <1>1, LastCallNat, Zenon
      <4> QED  BY <4>1, <4>2 DEF i
    <3>2. i \notin over /\ i \notin storedOver
      BY <1>1, <3>1, Zenon DEF Blank
    <3>3. nextRevision({i}) \in [Calls -> Nat]
      BY <1>1, NextRevisionType, Zenon
    <3>4. UNCHANGED <<calls, pstate, over, revision, dirty>>
      BY <2>1, <2>4, Zenon DEF memory
    <3> QED
      BY <1>1, <2>2, <2>4, <3>1, <3>2, <3>3, <3>4, HistLanded, Zenon
  <2> QED
    BY <2>2, <2>3, <2>4, Zenon
<1>3. CASE Request
  BY <1>3, AcceptProper, DeclineLeaveProper, HistCommit, Zenon DEF Request
<1>4. ASSUME NEW s \in Sessions, disconnectPrivateCall(s) PROVE Hist' /\ KeepsEnded
  <2> DEFINE S == abandons(s)
             NP == departures(S, Owner[s])
  <2>1. Owner[s] \in Accounts
    BY PrivateCallsAssumption, Zenon
  <2>2. S \in SUBSET (calls \ over) /\ S \in SUBSET Calls
    BY <1>1, Zenon DEF abandons, MemTyped
  <2>3. Faded(S, NP)
    BY <1>1, <2>1, <2>2, DeparturesFaded, Zenon
  <2>4. cleanUp(S, NP)
    BY <1>4, Zenon DEF disconnectPrivateCall
  <2> HIDE DEF S, NP
  <2> QED
    BY <2>2, <2>3, <2>4, HistCleanUp, Zenon
<1>5. ASSUME NEW g \in Groups, NEW a \in Accounts, removeConversationCaller(g, a) PROVE Hist' /\ KeepsEnded
  <2> DEFINE S == groupCalls(g, a)
             NP == departures(S, a)
  <2>1. S \in SUBSET (calls \ over) /\ S \in SUBSET Calls
    BY <1>1, Zenon DEF groupCalls, MemTyped
  <2>2. Faded(S, NP)
    BY <1>1, <2>1, DeparturesFaded, Zenon
  <2>3. cleanUp(S, NP)
    BY <1>5, Zenon DEF removeConversationCaller
  <2> HIDE DEF S, NP
  <2> QED
    BY <2>1, <2>2, <2>3, HistCleanUp, Zenon
<1>6. ASSUME NEW i \in Calls, expirePrivateCall(i) PROVE Hist' /\ KeepsEnded
  <2> DEFINE NP == [pstate EXCEPT ![i] = expired(caller[i], pstate[i])]
  <2>1. Faded({i}, NP)
    BY <1>1, ExpiredFaded, Zenon
  <2>2. (live(i) /\ cleanUp({i}, NP)) \/ UNCHANGED <<memory, dirty, history>>
    BY <1>6, Zenon DEF expirePrivateCall
  <2> HIDE DEF NP
  <2>3. CASE live(i) /\ cleanUp({i}, NP)
    BY <2>1, <2>3, HistCleanUp, Zenon DEF live
  <2>4. CASE UNCHANGED <<memory, dirty, history>>
    BY <2>4, HistQuiet, Zenon DEF memory, history
  <2> QED
    BY <2>2, <2>3, <2>4, Zenon
<1>7. ASSUME NEW i \in Calls, RetrySave(i) PROVE Hist' /\ KeepsEnded
  BY <1>7, HistRetry, Zenon
<1>8. ASSUME NEW a \in Accounts, History(a) PROVE Hist' /\ KeepsEnded
  BY <1>8, HistHistory, Zenon
<1>9. CASE Minor
  BY <1>9, MinorFacts, HistQuiet, Zenon
<1>10. CASE Restart
  BY <1>10, HistQuiet, Zenon DEF Restart, history
<1> QED
  BY <1>2, <1>3, <1>4, <1>5, <1>6, <1>7, <1>8, <1>9, <1>10, NextCases, Zenon

LEMMA HistInvariant == Spec => []Hist
<1>1. Init => Hist
  BY Zenon DEF Init, Hist
<1>2. Core /\ Hist /\ [Next]_vars => Hist'
  BY HistStep, Zenon
<1> QED
  BY <1>1, <1>2, CoreInvariant, PTL DEF Spec

\* A call the history shows as ended stays as it is shown, across restarts too
\* and whatever the errors of saves mean: the revision guard of SavePrivateCall
\* and the recovery of rows without a call never rewrite it.  The exception is a
\* row nobody saw, while its call goes on in memory.
THEOREM HistoryFinalHolds == Spec => HistoryFinal
<1>1. Core /\ Hist /\ [Next]_vars => [KeepsEnded]_vars
  BY HistStep, Zenon
<1>2. [KeepsEnded]_vars => [\A i \in storedOver : (i \in calls /\ i \in unseen) \/
                                (i \in storedOver' /\ stored'[i] = stored[i])]_vars
  BY Zenon DEF KeepsEnded
<1> QED
  BY <1>1, <1>2, CoreInvariant, HistInvariant, PTL DEF Spec, HistoryFinal

\* Calls leave memory in retirePrivateCall and in a restart only, and the
\* boots count the restarts.
LEMMA Leaving ==
  ASSUME Core, [Next]_vars, ~Restart
  PROVE  boots' = boots /\ \A i \in calls : i \in calls' \/ retirePrivateCall(i)
<1>1. ASSUME NEW S, NEW NP, NEW NB, NEW E, publishPrivateCall(S, NP, NB, E) PROVE calls \subseteq calls'
  BY <1>1, Zenon DEF publishPrivateCall
<1>2. CASE Started
  <2>1. PICK s, g, targets : startPrivateCall(s, g, targets)
    BY <1>2, Zenon DEF Started, StartDirect, StartGroup
  <2>2. boots' = boots /\ ((\E S, NP, NB, E : publishPrivateCall(S, NP, NB, E)) \/ UNCHANGED memory)
    BY <2>1, Zenon DEF startPrivateCall
  <2> QED
    BY <1>1, <2>2, Zenon DEF memory
<1>3. CASE Request
  <2>1. PICK j, P, B : commit(j, P, B)
    BY <1>3, Zenon DEF Request, Accept, Decline, Leave, Cancel
  <2>2. boots' = boots /\ ((\E S, NP, NB, E : publishPrivateCall(S, NP, NB, E)) \/ UNCHANGED memory)
    BY <2>1, Zenon DEF commit
  <2> QED
    BY <1>1, <2>2, Zenon DEF memory
<1>4. ASSUME NEW S, NEW NP, cleanUp(S, NP) PROVE calls \subseteq calls'
  BY <1>1, <1>4, Zenon DEF cleanUp
<1>5. ASSUME NEW s \in Sessions, disconnectPrivateCall(s) PROVE boots' = boots /\ calls \subseteq calls'
  BY <1>4, <1>5, Zenon DEF disconnectPrivateCall
<1>6. ASSUME NEW g \in Groups, NEW a \in Accounts, removeConversationCaller(g, a)
      PROVE  boots' = boots /\ calls \subseteq calls'
  BY <1>4, <1>6, Zenon DEF removeConversationCaller
<1>7. ASSUME NEW j \in Calls, expirePrivateCall(j) PROVE boots' = boots /\ calls \subseteq calls'
  BY <1>4, <1>7, Zenon DEF expirePrivateCall, memory
<1>8. ASSUME \/ \E a \in Accounts : History(a)
             \/ \E j \in Calls : RetrySave(j) \/ RingUntilPasses(j)
             \/ \E s \in Sessions : Connect(s) \/ Unregister(s)
             \/ \E g \in Groups, a \in Accounts : JoinGroup(g, a) \/ LeaveGroup(g, a)
             \/ UNCHANGED vars
      PROVE  boots' = boots /\ calls' = calls
  BY <1>8, Zenon DEF History, RetrySave, RingUntilPasses, Connect, Unregister, JoinGroup, LeaveGroup,
     vars, memory
<1>9. ASSUME NEW j \in Calls, retirePrivateCall(j)
      PROVE  boots' = boots /\ \A i \in calls : i \in calls' \/ retirePrivateCall(i)
  BY <1>9, Zenon DEF retirePrivateCall
<1>10. CASE Minor
  BY <1>8, <1>9, <1>10, Zenon DEF Minor
<1>11. ASSUME boots' = boots, calls \subseteq calls'
       PROVE  boots' = boots /\ \A i \in calls : i \in calls' \/ retirePrivateCall(i)
  BY <1>11, Zenon
<1> QED
  BY <1>2, <1>3, <1>5, <1>6, <1>7, <1>8, <1>10, NextCases, Zenon

\* A call leaves memory, a restart aside, only when its row is not behind it, and
\* the row holds its last state unless nobody saw that row: retirePrivateCall
\* waits for the retries of a dirty call, and a save that lands with an error is
\* the only one that takes a row ahead of memory.
THEOREM RetiredIsStoredHolds == Spec => RetiredIsStored
<1> DEFINE A == \A i \in calls \ calls' : boots' = boots =>
                  /\ storedRev[i] >= revision[i]
                  /\ i \in unseen \/ (i \in storedOver /\ storedRev[i] = revision[i] /\ stored[i] = pstate[i])
<1>0. ASSUME Core, Hist, boots \in Nat, [Next]_vars PROVE A
  <2>1. Restart => boots' # boots
    BY <1>0 DEF Restart
  <2> SUFFICES ASSUME NEW i \in calls, i \notin calls', boots' = boots
               PROVE  /\ storedRev[i] >= revision[i]
                      /\ i \in unseen \/ (i \in storedOver /\ storedRev[i] = revision[i] /\ stored[i] = pstate[i])
    BY Zenon
  <2>2. retirePrivateCall(i)
    BY <1>0, <2>1, Leaving, Zenon
  <2>3. i \notin dirty /\ i \in over
    BY <1>0, <2>2, Zenon DEF retirePrivateCall, retirable, Core, RetiringOver
  <2>4. storedRev[i] >= revision[i] /\ Faithful(i)
    BY <1>0, <2>3, Zenon DEF Hist, Level
  <2>5. storedRev[i] \in Nat /\ revision[i] \in Nat
    BY <1>0, Zenon DEF Core, Typed, MemTyped, HistTyped
  <2>6. storedRev[i] <= revision[i] => storedRev[i] = revision[i]
    BY <2>4, <2>5
  <2> QED
    BY <2>3, <2>4, <2>6, Zenon DEF Faithful
<1>1. Core /\ Hist /\ boots \in Nat /\ [Next]_vars => [A]_vars
  BY <1>0, Zenon
<1>2. Init => boots \in Nat
  BY DEF Init
<1>3. Core /\ boots \in Nat /\ [Next]_vars => (boots \in Nat)'
  BY Leaving DEF Restart
<1> HIDE DEF A
<1>4. Spec => [][A]_vars
  BY <1>1, <1>2, <1>3, CoreInvariant, HistInvariant, PTL DEF Spec
<1> QED
  BY <1>4, Zenon DEF A, RetiredIsStored
====
