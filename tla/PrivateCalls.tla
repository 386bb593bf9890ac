---------------------------- MODULE PrivateCalls ----------------------------
(***************************************************************************)
(* Private calls: internal/server/private_calls.go, the call state of      *)
(* internal/netproto/call.go and the history table of                      *)
(* internal/store/call.go.                                                 *)
(*                                                                         *)
(* An account has several sessions.  A callee that can be reached in one   *)
(* way only is bound to that session when the call starts; otherwise it    *)
(* rings unbound and the session that answers binds.  privateCallByClient  *)
(* remembers the live call of a session.  A call ends when nobody is left  *)
(* to talk to, stays in memory for a while, and is then only in the        *)
(* history.                                                                *)
(*                                                                         *)
(* Every handler and timer runs under privateCallsMu, so each is one       *)
(* action; what interleaves are requests, disconnects (unregistering and   *)
(* call cleanup are two steps), group removals (the same), the ring        *)
(* timeout, failing saves with their retries, retirement and restarts.     *)
(* A request that is refused changes nothing and has no action.            *)
(***************************************************************************)
EXTENDS Integers, FiniteSets

CONSTANTS Accounts, Sessions, Owner,
          Groups, NoGroup,
          None,          \* no session, no call
          MaxCalls,      \* bound on the calls ever started
          Capacity,      \* calls in memory (1024)
          MaxRestarts,   \* bound on restarts
          Failures       \* how a save may report an error: "lost", or "landed" (committed all the same)

ASSUME PrivateCallsAssumption ==
  /\ Owner \in [Sessions -> Accounts]
  /\ NoGroup \notin Groups
  /\ None \notin Sessions /\ None \notin 1..MaxCalls
  /\ MaxCalls \in Nat /\ Capacity \in Nat /\ MaxRestarts \in Nat
  /\ Failures \subseteq {"lost", "landed"}

Calls  == 1..MaxCalls
Active == {"ringing", "accepted"}   \* the others: "out" (no participant), "declined", "missed", "left"

VARIABLES
  lastCall,     \* call ids handed out
  caller, group,
  calls,        \* keys of privateCalls
  pstate,       \* CallParticipant.State
  bound,        \* CallParticipant.ClientID
  over,         \* calls with EndedAt # 0
  revision,
  byClient,     \* privateCallByClient
  rungOut,      \* calls whose RingUntil has passed
  expiring,     \* pending timers of expirePrivateCall
  retiring,     \* pending timers of retirePrivateCall
  dirty,        \* privateCallDirty
  retries,      \* pending timers that save again
  phone,        \* accounts whose phones show the ringing notification
  storedRev, stored, storedOver,   \* private_call_history
  unseen,       \* observer: rows written for a request that was answered with an error
  online, closing, gone,           \* sessions: registered, unregistered, cleaned up
  members,      \* the groups' members
  leaving,      \* removed members whose calls are still to be left
  boots

call     == <<lastCall, caller, group>>
memory   == <<calls, pstate, bound, over, revision, byClient, phone>>
timers   == <<rungOut, expiring, retiring, dirty, retries>>
history  == <<storedRev, stored, storedOver, unseen>>
sessions == <<online, closing, gone>>
vars == <<call, memory, timers, history, sessions, members, leaving, boots>>

Init ==
  /\ lastCall = 0
  /\ caller = [i \in Calls |-> None] /\ group = [i \in Calls |-> NoGroup]
  /\ calls = {} /\ over = {}
  /\ pstate = [i \in Calls |-> [a \in Accounts |-> "out"]]
  /\ bound = [i \in Calls |-> [a \in Accounts |-> None]]
  /\ revision = [i \in Calls |-> 0]
  /\ byClient = [s \in Sessions |-> None]
  /\ rungOut = {} /\ expiring = {} /\ retiring = {} /\ dirty = {}
  /\ retries = [i \in Calls |-> 0]
  /\ phone = [i \in Calls |-> {}]
  /\ storedRev = [i \in Calls |-> 0] /\ storedOver = {} /\ unseen = {}
  /\ stored = [i \in Calls |-> [a \in Accounts |-> "out"]]
  /\ online = {} /\ closing = {} /\ gone = {}
  /\ members = [g \in Groups |-> Accounts]
  /\ leaving = {}
  /\ boots = 0

-----------------------------------------------------------------------------
(***************************************************************************)
(* The call state.  P is the participants' states of one call, c its       *)
(* caller.                                                                 *)
(***************************************************************************)
having(P, st) == {a \in Accounts : P[a] = st}

\* The test of finishIfEmpty.
viableAlone(c, P) == having(P, "accepted") # {}
viable(c, P) ==
  \/ \E a, b \in having(P, "accepted") : a # b
  \/ c \in having(P, "accepted") /\ having(P, "ringing") # {}

finishKeepsRinging(c, P) == P
finishIfEmpty(c, P) ==
  IF viable(c, P) THEN P ELSE [a \in Accounts |-> IF P[a] = "ringing" THEN "missed" ELSE P[a]]

\* Change, as far as it depends on the participant: what an action makes of
\* the actor's state, or nothing.
changed(c, P, a, st) == finishIfEmpty(c, [P EXCEPT ![a] = st])
expiredRinging(c, P) == finishIfEmpty(c, P)
expired(c, P) == finishIfEmpty(c, [a \in Accounts |-> IF P[a] = "ringing" THEN "missed" ELSE P[a]])

live(i) == i \in calls /\ i \notin over

\* Disconnect and group removal: "decline" while ringing, else "leave".
departed(P, a) == IF P[a] = "ringing" THEN "declined" ELSE "left"

-----------------------------------------------------------------------------
(***************************************************************************)
(* publishPrivateCallLocked for the calls S at once, with the participants *)
(* NP, the bindings NB and E the calls that have ended.  Group removal     *)
(* publishes several calls under one lock; every other caller one.         *)
(***************************************************************************)
takesPart(NP, NB, E, i, s) == i \notin E /\ NB[i][Owner[s]] = s /\ NP[i][Owner[s]] \in Active

bindForever(S, NP, NB, E, s) ==
  IF \E i \in S : takesPart(NP, NB, E, i, s)
  THEN CHOOSE i \in S : takesPart(NP, NB, E, i, s) ELSE byClient[s]
bind(S, NP, NB, E, s) ==
  IF \E i \in S : takesPart(NP, NB, E, i, s) THEN CHOOSE i \in S : takesPart(NP, NB, E, i, s)
  ELSE IF byClient[s] \in S /\ NB[byClient[s]][Owner[s]] = s THEN None ELSE byClient[s]

\* pushCallChangesLocked: notify the accounts that begin to ring, clear the
\* notification of those that stop.
rings(P, ended, a) == ~ended /\ P[a] = "ringing"
pushRingsOnly(i, P, ended) ==
  phone[i] \cup {a \in Accounts : rings(P, ended, a) /\ ~rings(pstate[i], i \in over, a)}
push(i, P, ended) ==
  {a \in Accounts :
     \/ rings(P, ended, a) /\ ~rings(pstate[i], i \in over, a)
     \/ a \in phone[i] /\ (rings(pstate[i], i \in over, a) => rings(P, ended, a))}

publishPrivateCall(S, NP, NB, E) ==
  /\ calls' = calls \cup S
  /\ pstate' = [i \in Calls |-> IF i \in S THEN NP[i] ELSE pstate[i]]
  /\ bound' = [i \in Calls |-> IF i \in S THEN NB[i] ELSE bound[i]]
  /\ over' = over \cup E
  /\ revision' = [i \in Calls |-> IF i \in S THEN revision[i] + 1 ELSE revision[i]]
  /\ byClient' = [s \in Sessions |-> bind(S, NP, NB, E, s)]
  /\ phone' = [i \in Calls |-> IF i \in S THEN push(i, NP[i], i \in E) ELSE phone[i]]
  /\ retiring' = retiring \cup E

\* SavePrivateCall: the row of call i, i in T, gives way to a higher revision.
newer(T, rev) == {i \in T : storedRev[i] < rev[i]}
save(T, NP, rev, E) ==
  /\ storedRev' = [i \in Calls |-> IF i \in newer(T, rev) THEN rev[i] ELSE storedRev[i]]
  /\ stored' = [i \in Calls |-> IF i \in newer(T, rev) THEN NP[i] ELSE stored[i]]
  /\ storedOver' = (storedOver \ newer(T, rev)) \cup (newer(T, rev) \cap E)

\* The rows written hold what memory holds, or what memory never held.
seen(T, rev) == unseen' = unseen \ newer(T, rev)
notSeen(T, rev) == unseen' = unseen \cup newer(T, rev)

\* saveCallCleanup for the calls S: those in ok are saved; of the others some
\* may have been committed all the same.
saveCallCleanup(S, NP, rev, E) ==
  \E ok \in IF Failures = {} THEN {S} ELSE SUBSET S :
    /\ \E landed \in IF "landed" \in Failures THEN SUBSET (S \ ok) ELSE {{}} :
         save(ok \cup landed, NP, rev, E) /\ seen(ok \cup landed, rev)
    /\ dirty' = (dirty \ ok) \cup (S \ ok)
    /\ retries' = [i \in Calls |-> IF i \in (S \ ok) \ dirty THEN retries[i] + 1 ELSE retries[i]]

\* Change applied to the calls S.
nextRevision(S) == [i \in Calls |-> IF i \in S THEN revision[i] + 1 ELSE revision[i]]
emptied(S, NP) == {i \in S : ~viable(caller[i], NP[i])}

\* A request: saved first, then published; or the save reports an error and
\* the call stays as it is, whether or not the row was written.
commit(i, P, B) ==
  LET NP == [pstate EXCEPT ![i] = P]  E == emptied({i}, NP) IN
  \/ /\ save({i}, NP, nextRevision({i}), E) /\ seen({i}, nextRevision({i}))
     /\ publishPrivateCall({i}, NP, [bound EXCEPT ![i] = B], E)
     /\ UNCHANGED <<call, rungOut, expiring, dirty, retries, sessions, members, leaving, boots>>
  \/ /\ "landed" \in Failures
     /\ save({i}, NP, nextRevision({i}), E) /\ notSeen({i}, nextRevision({i}))
     /\ UNCHANGED <<call, memory, timers, sessions, members, leaving, boots>>

\* A cleanup: published whether or not it could be saved.
cleanUp(S, NP) ==
  /\ saveCallCleanup(S, NP, nextRevision(S), emptied(S, NP))
  /\ publishPrivateCall(S, NP, bound, emptied(S, NP))

-----------------------------------------------------------------------------
(***************************************************************************)
(* Requests.                                                               *)
(***************************************************************************)
\* callTargets: a session that can be rung.  Visibility, rules and keys are
\* the environment's choice.
availableBusy(s, a) == s \in online /\ Owner[s] = a
available(s, a) == s \in online /\ Owner[s] = a /\ byClient[s] = None

\* build: the sessions the accounts are rung on.  An account that cannot be
\* reached is left out; one that can be reached in several ways, or by push,
\* rings unbound (None).
invitations(c, targets) ==
  UNION {[T -> Sessions \cup {None}] : T \in (SUBSET (targets \ {c})) \ {{}}}
callable(R) == \A a \in DOMAIN R : R[a] # None => available(R[a], a)

startPrivateCall(s, g, targets) ==
  LET i == lastCall + 1
      c == Owner[s] IN
  /\ s \in online /\ byClient[s] = None
  /\ Cardinality(calls) < Capacity /\ lastCall < MaxCalls
  /\ \E R \in invitations(c, targets) :
       LET NP == [pstate EXCEPT ![i] = [a \in Accounts |-> IF a = c THEN "accepted"
                                          ELSE IF a \in DOMAIN R THEN "ringing" ELSE "out"]]
           NB == [bound EXCEPT ![i] = [a \in Accounts |-> IF a = c THEN s
                                          ELSE IF a \in DOMAIN R THEN R[a] ELSE None]]
       IN
       /\ callable(R)
       /\ save({i}, NP, nextRevision({i}), {})
       /\ \/ /\ seen({i}, nextRevision({i}))
             /\ publishPrivateCall({i}, NP, NB, {}) /\ expiring' = expiring \cup {i}
          \/ /\ "landed" \in Failures /\ notSeen({i}, nextRevision({i}))
             /\ UNCHANGED <<memory, expiring, retiring>>
  /\ lastCall' = i
  /\ caller' = [caller EXCEPT ![i] = c] /\ group' = [group EXCEPT ![i] = g]
  /\ UNCHANGED <<rungOut, dirty, retries, sessions, members, leaving, boots>>

StartDirect(s) == \E t \in Accounts \ {Owner[s]} : startPrivateCall(s, NoGroup, {t})
StartGroup(s)  == \E g \in Groups : Owner[s] \in members[g] /\ startPrivateCall(s, g, members[g])

\* The session takes part in the call, or its account rings unbound.
answerable(i, s) == bound[i][Owner[s]] = None /\ pstate[i][Owner[s]] = "ringing"
mayAct(i, s) == s \in online /\ live(i) /\ (bound[i][Owner[s]] = s \/ answerable(i, s))

freeForAny(i, s) == TRUE
free(i, s) == byClient[s] \in {None, i}

Accept(i, s) ==
  /\ mayAct(i, s) /\ free(i, s)
  /\ pstate[i][Owner[s]] = "ringing" /\ i \notin rungOut
  /\ commit(i, changed(caller[i], pstate[i], Owner[s], "accepted"), [bound[i] EXCEPT ![Owner[s]] = s])

Decline(i, s) ==
  /\ mayAct(i, s) /\ pstate[i][Owner[s]] = "ringing"
  /\ commit(i, changed(caller[i], pstate[i], Owner[s], "declined"), bound[i])

Leave(i, s) ==
  /\ mayAct(i, s) /\ pstate[i][Owner[s]] = "accepted"
  /\ commit(i, changed(caller[i], pstate[i], Owner[s], "left"), bound[i])

\* Only before anybody has answered.
Cancel(i, s) ==
  /\ mayAct(i, s) /\ Owner[s] = caller[i]
  /\ having(pstate[i], "accepted") = {caller[i]}
  /\ commit(i, changed(caller[i], pstate[i], Owner[s], "left"), bound[i])

\* history: rows of calls that are not in memory are closed, rows behind
\* memory catch up.  A save that fails ends the request after the newer rows.
abandonedOrOver(i) == i \notin calls
abandoned(i) == i \notin calls /\ i \notin storedOver
recovered(i) ==
  IF i \in calls THEN pstate[i]
  ELSE [a \in Accounts |-> CASE stored[i][a] = "ringing" -> "missed"
                             [] stored[i][a] = "accepted" -> "left"
                             [] OTHER -> stored[i][a]]
History(a) ==
  LET mine == {i \in Calls : storedRev[i] > 0 /\ stored[i][a] # "out"}
      rev  == [i \in Calls |-> IF abandoned(i) THEN storedRev[i] + 1 ELSE revision[i]] IN
  /\ \E first \in IF Failures = {} THEN {1} ELSE Calls :
       LET T == {i \in mine : i >= first /\ (abandoned(i) \/ i \in calls)} IN
       /\ save(T, [i \in Calls |-> recovered(i)], rev, over \cup {i \in Calls : abandoned(i)})
       /\ seen(T, rev)
  /\ UNCHANGED <<call, memory, timers, sessions, members, leaving, boots>>

-----------------------------------------------------------------------------
(***************************************************************************)
(* Timers.                                                                 *)
(***************************************************************************)
\* RingUntil passes; the timer follows, a little later.
RingUntilPasses(i) ==
  /\ i \in expiring \ rungOut
  /\ rungOut' = rungOut \cup {i}
  /\ UNCHANGED <<call, memory, expiring, retiring, dirty, retries, history, sessions, members, leaving, boots>>

expirePrivateCall(i) ==
  /\ i \in expiring \cap rungOut
  /\ expiring' = expiring \ {i}
  /\ \/ /\ live(i) /\ having(pstate[i], "ringing") # {}
        /\ cleanUp({i}, [pstate EXCEPT ![i] = expired(caller[i], pstate[i])])
     \/ /\ ~(live(i) /\ having(pstate[i], "ringing") # {})
        /\ UNCHANGED <<memory, retiring, dirty, retries, history>>
  /\ UNCHANGED <<call, rungOut, sessions, members, leaving, boots>>

\* The callback of saveCallCleanup.
stillDirty(i) == dirty
settled(i) == dirty \ {i}

RetrySave(i) ==
  /\ retries[i] > 0
  /\ \/ /\ i \notin calls
        /\ dirty' = settled(i)
        /\ retries' = [retries EXCEPT ![i] = @ - 1]
        /\ UNCHANGED history
     \/ /\ i \in calls
        /\ dirty' = settled(i)
        /\ retries' = [retries EXCEPT ![i] = @ - 1]
        /\ save({i}, pstate, revision, over) /\ seen({i}, revision)
     \/ /\ i \in calls          \* fails again and is armed again
        /\ dirty' = dirty \cup {i}
        /\ UNCHANGED retries
        /\ \/ UNCHANGED history
           \/ "landed" \in Failures /\ save({i}, pstate, revision, over) /\ seen({i}, revision)
  /\ UNCHANGED <<call, memory, rungOut, expiring, retiring, sessions, members, leaving, boots>>

retireDirty(i) == TRUE
retirable(i) == i \notin dirty

retirePrivateCall(i) ==
  /\ i \in retiring /\ retirable(i)
  /\ calls' = calls \ {i}
  /\ retiring' = retiring \ {i}
  /\ UNCHANGED <<call, pstate, bound, over, revision, byClient, phone, rungOut, expiring, dirty,
                 retries, history, sessions, members, leaving, boots>>

-----------------------------------------------------------------------------
(***************************************************************************)
(* Sessions, groups and restarts.                                          *)
(***************************************************************************)
Connect(s) ==
  /\ s \notin online \cup closing \cup gone
  /\ online' = online \cup {s}
  /\ UNCHANGED <<call, memory, timers, history, closing, gone, members, leaving, boots>>

\* onDisconnect: the session is revoked and unregistered before its call is
\* looked at.
Unregister(s) ==
  /\ s \in online
  /\ online' = online \ {s} /\ closing' = closing \cup {s}
  /\ UNCHANGED <<call, memory, timers, history, gone, members, leaving, boots>>

\* The call of a session that is being cleaned up.
abandonsAnswered(s) == {i \in calls : i = byClient[s] /\ i \notin over /\ pstate[i][Owner[s]] = "accepted"}
abandons(s) ==
  {i \in calls : i = byClient[s] /\ i \notin over
                 /\ bound[i][Owner[s]] = s /\ pstate[i][Owner[s]] \in Active}
departures(S, a) ==
  [i \in Calls |-> IF i \in S THEN changed(caller[i], pstate[i], a, departed(pstate[i], a)) ELSE pstate[i]]

disconnectPrivateCall(s) ==
  /\ s \in closing
  /\ closing' = closing \ {s} /\ gone' = gone \cup {s}
  /\ cleanUp(abandons(s), departures(abandons(s), Owner[s]))
  /\ UNCHANGED <<call, rungOut, expiring, online, members, leaving, boots>>

JoinGroup(g, a) ==
  /\ a \notin members[g]
  /\ members' = [members EXCEPT ![g] = @ \cup {a}]
  /\ UNCHANGED <<call, memory, timers, history, sessions, leaving, boots>>

\* ChangeConversation commits, then the calls are left.
LeaveGroup(g, a) ==
  /\ a \in members[g]
  /\ members' = [members EXCEPT ![g] = @ \ {a}]
  /\ leaving' = leaving \cup {<<g, a>>}
  /\ UNCHANGED <<call, memory, timers, history, sessions, boots>>

groupCallsAnswered(g, a) == {i \in calls : i \notin over /\ group[i] = g /\ pstate[i][a] = "accepted"}
groupCalls(g, a) == {i \in calls : i \notin over /\ group[i] = g /\ pstate[i][a] \in Active}

removeConversationCaller(g, a) ==
  /\ <<g, a>> \in leaving
  /\ leaving' = leaving \ {<<g, a>>}
  /\ cleanUp(groupCalls(g, a), departures(groupCalls(g, a), a))
  /\ UNCHANGED <<call, rungOut, expiring, sessions, members, boots>>

\* The process ends: only the history and the groups survive.
Restart ==
  /\ boots < MaxRestarts
  /\ boots' = boots + 1
  /\ calls' = {}
  /\ byClient' = [s \in Sessions |-> None]
  /\ expiring' = {} /\ retiring' = {} /\ dirty' = {}
  /\ retries' = [i \in Calls |-> 0]
  /\ online' = {} /\ closing' = {} /\ gone' = {}
  /\ leaving' = {}
  /\ UNCHANGED <<call, pstate, bound, over, revision, phone, rungOut, history, members>>

Next ==
  \/ \E s \in Sessions : \/ Connect(s) \/ Unregister(s) \/ disconnectPrivateCall(s)
                         \/ StartDirect(s) \/ StartGroup(s)
                         \/ \E i \in Calls : Accept(i, s) \/ Decline(i, s) \/ Leave(i, s) \/ Cancel(i, s)
  \/ \E a \in Accounts : History(a)
  \/ \E i \in Calls : RingUntilPasses(i) \/ expirePrivateCall(i) \/ RetrySave(i) \/ retirePrivateCall(i)
  \/ \E g \in Groups, a \in Accounts : JoinGroup(g, a) \/ LeaveGroup(g, a) \/ removeConversationCaller(g, a)
  \/ Restart

Spec == Init /\ [][Next]_vars

\* Timers fire, a removed session is cleaned up, and the database does not
\* stay away for ever.
SavedRetry(i) == RetrySave(i) /\ i \notin dirty'
FairSpec ==
  /\ Spec
  /\ \A i \in Calls : /\ WF_vars(RingUntilPasses(i)) /\ WF_vars(expirePrivateCall(i))
                      /\ WF_vars(SavedRetry(i)) /\ WF_vars(retirePrivateCall(i))
  /\ \A s \in Sessions : WF_vars(disconnectPrivateCall(s))

-----------------------------------------------------------------------------
(***************************************************************************)
(* privateCallByClient is exactly the relation "takes part in a live       *)
(* call", so a session is in at most one call and cleanup finds it (the    *)
(* comment in handlePrivateCall on binding a session twice).               *)
(***************************************************************************)
BindingExact ==
  \A s \in Sessions, i \in Calls :
    byClient[s] = i <=> live(i) /\ bound[i][Owner[s]] = s /\ pstate[i][Owner[s]] \in Active

(***************************************************************************)
(* A live call has somebody to talk to: two who accepted, or the caller    *)
(* and somebody ringing.  Nobody rings in a call that has ended            *)
(* (finishIfEmpty after every change).                                     *)
(***************************************************************************)
LiveCallsViable ==
  \A i \in calls :
    /\ i \notin over => \E a, b \in Accounts :
                           /\ a # b /\ pstate[i][a] = "accepted"
                           /\ pstate[i][b] = "accepted" \/ (a = caller[i] /\ pstate[i][b] = "ringing")
    /\ i \in over => having(pstate[i], "ringing") = {}

(***************************************************************************)
(* A session bound to a live call is registered, or its cleanup is still   *)
(* to come: no participant is left that nothing will ever remove           *)
(* (startPrivateCall against onDisconnect).                                *)
(***************************************************************************)
NoGhosts ==
  \A i \in calls, a \in Accounts :
    i \notin over /\ pstate[i][a] \in Active /\ bound[i][a] # None => bound[i][a] \in online \cup closing

(***************************************************************************)
(* Membership revokes the call: who takes part in a live group call is a   *)
(* member of the group, or is about to be taken out                        *)
(* (StartPrivateGroupCall against removeConversationCaller).               *)
(***************************************************************************)
GroupCallsAreMembers ==
  \A i \in calls, a \in Accounts :
    i \notin over /\ group[i] # NoGroup /\ pstate[i][a] \in Active =>
      a \in members[group[i]] \/ <<group[i], a>> \in leaving

(***************************************************************************)
(* Phones show the notification of exactly the calls that ring             *)
(* (pushCallChangesLocked sees only the difference of two states).         *)
(***************************************************************************)
PhonesRing ==
  \A i \in calls : phone[i] = {a \in Accounts : i \notin over /\ pstate[i][a] = "ringing"}

(***************************************************************************)
(* A call leaves memory, a restart aside, only when its row is not behind  *)
(* it, and the row holds its last state unless it is one nobody saw: that  *)
(* of a request which was answered with an error although it was committed *)
(* (privateCallDirty against retirePrivateCall, and the save of            *)
(* handlePrivateCall, whose revision the next change uses again).          *)
(***************************************************************************)
RetiredIsStored ==
  [][\A i \in calls \ calls' : boots' = boots =>
       /\ storedRev[i] >= revision[i]
       /\ i \in unseen \/ (i \in storedOver /\ storedRev[i] = revision[i] /\ stored[i] = pstate[i])]_vars

(***************************************************************************)
(* A call the history shows as ended stays as it is shown (the revision    *)
(* guard of SavePrivateCall, history's recovery), also when the row is one *)
(* nobody saw once its call has left memory.                               *)
(***************************************************************************)
HistoryFinal ==
  [][\A i \in storedOver : (i \in calls /\ i \in unseen) \/
       (i \in storedOver' /\ stored'[i] = stored[i])]_vars

(***************************************************************************)
(* Nobody rings for ever, and a call that has ended leaves memory.         *)
(***************************************************************************)
RingingStops ==
  \A i \in Calls, a \in Accounts : (live(i) /\ pstate[i][a] = "ringing") ~> ~(live(i) /\ pstate[i][a] = "ringing")
EndedCallsRetire ==
  \A i \in Calls : (i \in calls /\ i \in over) ~> i \notin calls
=============================================================================
