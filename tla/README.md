# Formal verification of noxa

TLA+ specifications of the concurrent and distributed parts of noxa, a voice,
video and chat server (Go, `internal/`, `cmd/`) with a desktop client
(`client/`) and a mobile web client (`mobile/`). TLC model-checks each module on
a small instance. TLAPS proves the main safety properties of six components for
every value of the constants.

Each definition is written from the source it names, and `PROJECT.json` lists
those lines (`map`). Control is kept: guards, early returns, error paths and
their order. Data is reduced to what a property can tell apart.

## 1. The system and its parts

```
 desktop / mobile client                      server
 -----------------------                      ----------------------------------
 views -> outbox -> ratchet consumer --TLS--> session handlers -> store (SQL)
            |           |                       |    |     |
            |      durable store                |    |     +-> event bus -> query, gRPC
            |                                   |    +-> state manager (presence)
 media: key window, replay window               +-> private calls, channels, roles
            |                                   |
            +---------- WebRTC ---------------> forwarding engine (media gate,
                                                reorder queues, router)
```

| Part | Code | Here |
|---|---|---|
| Event bus | `internal/eventbus` | `EventBus`, proved |
| Presence: sessions, channels, speaking, subscriptions | `internal/state/manager.go` | `StateManager`, proved |
| Sending encrypted messages | `mobile/src/core/ratchet-consumer.js`, `ratchet-store.js` (desktop: `client/ratchet_consumer.go`, `internal/e2ee/durable`), `internal/store/olm_admission.go` | `OlmAdmission`, `LogicalSend`, proved |
| Private calls | `internal/server/private_calls.go`, `internal/netproto/call.go`, `internal/store/call.go` | `PrivateCalls`, proved |
| Media gate | `internal/webrtc/context_rwmutex.go` | `ContextRWMutex`, proved |
| Video reorder queue | `internal/webrtc/video_reorder.go` | `VideoReorder` |
| Media keys: receiving, and the replay windows | `client/frontend/src/media-keys.js`, `media-session.js`, `media-replay.js` | `MediaReceive`, `MediaReplay` |
| Media keys: sending, and the worker's key rings | `client/frontend/src/media-keys.js`, `media-e2ee.js`, `media-e2ee-core.js` | `MediaKeys`, `MediaRing`, proved |
| Policy authority, roles, process lease | `internal/authorization`, `internal/store/role_*` | planned |
| Media seats, raised hands | `internal/server/media_seats.go`, `internal/state/voice_queue.go` | planned |
| Channel lifecycle | `internal/channels` | planned |
| Receiving encrypted messages, account reset, key directory | `internal/store/olm_*.go`, `client/ratchet_*.go` | planned |
| Chat outbox, connection epochs | `client/chat_outbox.go`, `mobile/src/core/outbox.js`, `client/conn.go` | planned |
| Chat keys | `internal/server/chatkeys.go` | planned |
| File transfer | `internal/filetransfer` | planned |
| Router, pacing, congestion control | `internal/webrtc`, `internal/mediacc` | not modelled |
| Query, gRPC, integrations, push, recorder, broadcast, authentication | `internal/*` | not modelled |
| Configuration, logging, certificates, tools, user interface, generated code | | not modelled |

`PROJECT.json` has the complete inventory with a reason for every part left out
(`components`), and the places where the code is exposed to orders of events,
failures and limits that tests hardly reach (`hazards`).

How the parts meet. The private calls use the sessions that the state manager
knows, in two steps (a session is unregistered, then its calls are cleaned up);
`PrivateCalls` keeps the two steps apart. The event bus is fed by handlers that
have already changed their own state, so its only promise to them is that
publishing neither blocks nor reorders. `OlmAdmission` composes the device's
durable store, its consumers and the server's attempt table in one
specification, since its properties relate all three. `MediaKeys` composes the
page's key engine with the worker that owns the key rings (`MediaRing`), since
what the engine promises is about what the worker encrypts with, and the two
talk only through a queue. `MediaReceive` composes the session, the receiving
half of the engine, the same rings and the replay windows (`MediaReplay`): a
frame is refused or passed on by a window whose life is that of a key.

## 2. Modules and their code

### EventBus
State: the registry (`closed`, `registered`, `seq`), each subscription (channel,
drop counters, evict-once latch, close reason) and each publisher's place in
`Publish`. `Publish` is several actions: it takes the publish lock, numbers the
event, sends to one subscriber at a time under the registry's read lock, and
then evicts the subscribers it found too slow. `Subscribe`, `Unsubscribe` and
`Close` happen when no reader holds the registry; a consumer receives at any
moment, so a buffer may drain between two sends of one event.

### StateManager
State: the sessions with channel, channel epoch, mutes and speaking flag; the
channel table with counters and limits; and the redundant indexes: membership
sets, speaking records and two subscription maps. The manager has one lock, so
each method is one action. What interleaves is a caller that checked something
earlier: a speaking report passes the router's talk gate (`TalkGate`; in a music
channel every packet passes, a muted session's too) and reaches `SetSpeaking`
later (`StartSpeaking`, `RefuseSpeaking`).

### OlmAdmission and LogicalSend
A message is sealed into a numbered attempt and committed to the durable store
before anything is sent. Consumers (windows of one device) then drive the
attempt: status, begin, one put per part, finalize, or abort. The server keeps
the outcome until the device has stored it and retires it; a fence
(`retiredThrough`) replaces the rows of retired attempts. Only an attempt that
ended without admission may be sealed again. The device side is written from the
mobile client; the desktop client's Go code has the same control.

Each request is one server transaction and each store change one local
transaction. Between them a consumer may fail, crash or be overtaken; a request
whose caller has gone may be executed later (`HandleLate`), answers may be lost,
the roster may change and the two clocks drift apart. A request refused for
quota, rate or authority changes nothing and is covered by `GiveUp`.

`LogicalSend` is the promise to the user: a message leaves at most once, one
shown as failed has not been sent, one shown as accepted has. `OlmAdmission`
refines it with `view <- logical` (the durable record) and `sent` the logicals
of the admitted attempts.

### PrivateCalls
State: calls in memory with each participant's state and bound session, the map
from session to live call, phones showing a notification, the history table with
revisions, unsaved calls, and sessions and memberships between removal and
clean-up. Handlers and timers run under one mutex, so each is one action. A save
may fail, or fail after it was committed (`Failures`). A clean-up is published all
the same and its save retried; a request is refused, and when its save was
committed the row holds a state nobody saw, which `unseen` records. A restart
forgets memory, and reading the history ends calls it finds open.

### ContextRWMutex
The media gate is a reader-writer lock whose writer may give up when its context
ends. Goroutines are at a place in the code. One that cannot go on takes the
current channel and leaves `m.mu` (`changedLocked`), and blocks on that channel in
a step of its own (`Select`), unless it has been closed meanwhile. A broadcast
closes the current channel and forgets it. Cancellation may arrive at any time
and races with the wakeup.

### VideoReorder
The queue and the read loop around it, on a wire sequence space of 16 that rolls
over inside the run. Packets are lost, repeated and reordered; measurements
shorten the wait; a change of the measurement's scope, a silent track and the
end of the track are actions.

### MediaRing and MediaKeys
A voice session encrypts its media under numbered epochs. Every change of its
recipients leads to a new epoch (a rekey); a departure must also end the use of
the epochs the departed device holds, within a fixed time.

`MediaRing` has the worker's operations on one key ring: installing a key under
its slot number, evicting the oldest epoch of a full ring, activating an epoch,
retiring one or all up to a given one.

`MediaKeys` is the engine on the page and the worker behind a queue. State: the
roster and two views of the recipients taken from it (`#recipients`,
`#recipientKey`); the timers and flags of `#schedule` and `#run`; the rekey under
way (`pc`, `rk`); pending removals, the pause flag and the activations that began;
the epochs and their controls; the worker's queue, its answer and one ring per
slot. What runs between two awaits of `#rekey` is one action: `Begin` (snapshot,
ratchet or fresh epoch, request to install), `Installed` (controls go out, the
rekey waits), `WaitOver` or `Preempted`, `Decide`, `NextSlot` for each further
slot, `Activated`. A continuation due in the same turn of the event loop runs
before any other task; the worker runs at any time. `setRoster`, renewals and the
deadline of a removal interleave with all of that, a request may be refused
(`Refused`), and one may time out on the page and be executed by the worker later
(`TimedOut`). History variables record who can decrypt an epoch (`knows`) and
whose departure the engine noted (`noted`). Time is left out: an armed timer may
fire at any moment.

### MediaReceive and MediaReplay
`MediaReplay` has the window that refuses a repeated frame per source, as
operators on a window: what it refuses, how a frame moves it, what it keeps.

`MediaReceive` follows one publisher. `sent` holds the publisher's controls, with
the epoch and key slot numbers that `#rekey` gives them; each may arrive at any
time and any number of times. State: the publisher's place in the roster, the
session's channel (`scope`), the controls kept before the engine runs (`inbox`)
or before the roster names the publisher (`held`), the engine (`page`: the
monotonic line of epochs, the publisher's entry, installations under way, the
queue to the worker), grace timers, and per slot the worker's ring. `receive` and
`apply` run up to the first await; `Installs`, `Derives` and `Preinstalls` are
what follows an answer, and look again whether the publisher's entry is the one
they began with. A departure or a change of channel drops the entry and posts a
forget for every slot, in the same queue as the keys still being installed.
`Decoded` is a frame that decrypts under a live epoch of one slot; `heard` counts
how often it was passed on.

## 3. Runs

`tlc -config X.cfg M` in this directory reproduces a run.

| Run | Shows |
|---|---|
| `event_bus` | Subscribers see increasing numbers; a gap is exactly the counted drops; nothing is sent on a closed channel; a slow subscriber is never forgotten; every publish ends. |
| `presence` | Membership sets, counters, subscription and speaking indexes agree; every move advances the epoch; no move exceeds a capacity, even one lowered meanwhile. |
| `deleted_speaker` | Expected violation, see section 6. |
| `olm_admission` | Two consumers of one store, a message and an edit that refers to it: receipts tell the truth, never two live attempts of one message, the fence follows the receipts, consumers never bring conflicting results. |
| `olm_settles` | One consumer, two parts, late requests: refinement of `LogicalSend`, and every attempt is retired at last. |
| `private_calls` | Two calls, a callee with two devices, failing saves: bindings exact, live calls viable, no ghosts, notifications exact. |
| `group_calls` | Who takes part in a group call is a member or is about to be removed. |
| `call_endings` | With a restart and unsure saves: no call leaves memory ahead of its row, an ended history entry is final, nobody rings for ever and ended calls leave memory. |
| `media_gate` | Exclusion with exact counters, no lost wakeup between taking a channel and blocking on it, and readers alone cannot starve a writer. |
| `video_reorder` | Output in the sender's order across the rollover, nothing held without a reason, both limits hold, gaps wait their time. |
| `media_receive` | No frame is passed on twice, across the rollover and across departures, returns and repeated controls; a full window recovers; at rest the rings hold what the engine says, and nothing of a publisher or channel that was left but what a dropped request was about (section 6). |
| `media_keys` | Past its deadline a noted departure leaves no slot encrypting under an epoch the device holds; a pending removal is never forgotten; an engine at rest has served its recipients; one that rests with an idle worker is heard by no absent device (with the exception in section 6); a silenced sender recovers. |

Each property of a passing run has a mutant in `PROJECT.json`: a plausible bug in
a mapped definition that makes TLC find the property violated.

### Bounds
- `event_bus`: two publishers suffice for a race on numbering; buffers of one and
  eviction after two drops make drops, recovery and eviction happen within four
  events. One subscriber filters, one does not.
- `presence`: two sessions compete for a channel of capacity one; two channels
  allow moves; the epoch bound stops a session after two transitions.
  `deleted_speaker` uses one session and a larger epoch.
- `olm_admission`: two attempts are one reseal, or a message and its edit. A time
  bound of one covers a deadline passed on either clock or both. Late requests
  are left to `olm_settles`, which has one consumer: two consumers with late
  requests exceed a run of minutes. The theorems cover both together.
- `private_calls`, `group_calls`, `call_endings`: two calls compete for a
  session, three members give a group call that survives one departure, and one
  call with one restart and unsure saves is what the liveness run affords. The
  theorems cover all of it together.
- `media_gate`: four goroutines give two writers and two readers at once. The
  theorems cover any finite number.
- `video_reorder`, and the timestamps of `media_receive`: spaces of 16 keep the
  proportions of the wire widths to the windows; the numbers sent cross the
  rollover.
- `media_receive`: `Loads` lists what one behaviour may contain, so that the cases
  add up instead of multiplying: two controls with two moves (a departure and a
  return, by either side); two with one move and one timed-out request; three
  controls with one timed-out request, without frames; and one control with
  twenty-eight frames. Rings and key slots have their real sizes, 4 and 16. Five
  open requests for two slots are few enough for requests to be dropped. With
  three controls a ring never has to give up the installed epoch for want of room;
  `crowded` in `RingsExact` names that case for longer behaviours.
- `media_keys`: two devices, so that one leaves while the other stays or joins;
  two slots, so that an activation can stop half-way; two changes, so that a
  removal meets a rekey that a join or another removal started; one timed-out
  request. Rings of three live epochs overflow within the run. The theorems cover
  any number of each.

Deadlock is checked where the system never rests (`media_gate`). The other runs
end when a bound is reached (events, attempts, calls, epochs, roster changes, the
end of a track), so their stopping means nothing.

### Fairness
- `event_bus`: a publisher inside `Publish` runs on. Its sends do not block and
  the registry lock is held for finite sections only. Consumers get none.
- `olm_settles`: clocks advance, requests are executed, answers are acted on,
  drain comes round again (strong fairness, since a busy consumer disables it)
  and faults stop at last. Drain runs on every connection and every doorbell and
  takes unresolved attempts oldest window first.
- `call_endings`: timers fire, a removed session is cleaned up by the goroutine
  that unregistered it, and a retried save succeeds at last: the retry timer is
  re-armed for as long as a save fails.
- `media_gate`: a goroutine that left `m.mu` reaches its select, woken goroutines
  run and holders unlock. Nothing is assumed on
  which of two awake writers goes first, and writers may starve each other: the
  property says only that readers cannot starve them.
- `media_keys`: an engine that can go on does, its timers fire and the worker works
  through its queue. Roster changes and timeouts get none and are bounded, so
  `Recovers` says what happens once they stop: a run that failed is retried while
  a removal is pending (`#run` re-arms its timer).

## 4. Theorems

`tlapm M.tla` checks a proof module. The only assumptions are the named ASSUMEs
of the specifications (types and positivity of constants, finiteness of the sets
that are counted), which TLC also evaluates in the runs.

**EventBusProofs.** `RInv` (types; at most one publisher inside `Publish`; a
subscription is open exactly while it is registered; a loop covers registered
subscriptions only) gives `NoSendOnClosed` and `ClosedIsFinal`. For
`SequenceOrder` it is strengthened to `OInv`: all numbers in a log are at most
`seq`, and those of subscribers still to be served are below it. Without the
second half a delivery could not be shown to append a larger number. Receiving
moves the head of the channel to the end of what was read and leaves the log as
it was (`ConcatMoveHead`).

`SlowIsEvicted` goes through the evict-once latch (`Latched`): a registered
subscriber at the limit has its latch set, and a set latch means that some
publisher carries the subscriber in its eviction list. `GapsAreDrops` needs
`Counted`: for a registered subscriber of every type, the last number in its log
and the drops since reach up to `seq`, or to the number before it while the event
is on its way to that subscriber. The counts then agree at every delivery.

**StateManagerProofs.** `PresenceInv` is the conjunction of the properties and
`TypeOK`. They support one another: removing a session from the one set it is
recorded in clears every set only if membership is exact, and the guarded
decrement is exact for the same reason (`WithoutPointwise`, `CountPointwise`).
Proved: `MembershipExact` (sets and counters), `SubscriptionsMirror`,
`SpeakersAreUnmuted` and the action properties `EpochAdvances` and
`CapacityRespected`.

**OlmAdmissionProofs.** The inductive invariant `IInv` has four parts besides
types: `Numbering` (nothing is known of attempts not sealed yet; the record of a
message points at its last attempt), `Records` (that record repeats the last
attempt's receipt, and every earlier attempt has a receipt without admission),
`Outcomes` (receipt, row and admission agree, on both sides of the fence) and
`InFlight` (an answer or result on its way is `Held`: it is the row's outcome, or
the stored receipt once the row is gone). `InFlight` is what makes late answers
harmless. `ServerStep` bounds what any request may do to the rows, so each
consumer action is proved once against it. Proved: `ReceiptsTruthful`,
`OneLiveAttempt`, `RetiredAfterReceipt`, `NoConflict`, `OutcomeImmutable`, and
the refinement `PromiseKept` (`Spec => KeepsPromise`) for any number of
consumers, messages, attempts, parts and late requests.

**PrivateCallsProofs.** For any numbers of accounts, sessions,
groups and calls, any restarts, and saves that fail in either way. The inductive
invariant `Core` is `BindingExact`, `LiveCallsViable` and `PhonesRing` with the
types and three small facts: a call not started yet is nowhere (`Blank`), an
account is bound to sessions of its own (`Owned`), only ended calls are to be
retired. The three properties need one another: a publish rewrites the session
map and the phones from the difference of two states, which is exact only if they
were exact before. The lemmas show what a publish makes of any states that are
`Sound`, that requests, cleanups and the start of a call publish such states, and
that nobody begins to take part in any step but the start of a call (`Fades`),
from which `NoGhosts` and `GroupCallsAreMembers` follow.

For the history, `Hist` relates a row to the call in memory: not behind it unless
the call is dirty (`Level`), and, unless the row is one nobody saw, never ahead of
it, equal when level and ended only when level (`Faithful`). A row nobody saw is
the state of a request whose save was committed and reported as failed
(`private_calls.go:168-171`). It is ahead of memory by the revision that the next
change uses again, so the revision guard keeps it when that change is the call's
end. `HistoryFinal` and `RetiredIsStored` say how far this goes: such a row may
give way while its call is in memory and may be what remains of it, and every
other row is final once it says the call ended and holds the call's last state.

**ContextRWMutexProofs.** `Inv` is `TypeOK`, `Exclusion` and `Waiting`:
`NoLostWakeup` is not inductive by itself, as a goroutine may block long after it
decided to. `Waiting` says that whoever has the current channel has a reason to
wait, blocked or not yet, and that whoever is blocked has the current channel; a
goroutine whose channel was closed before its select does not block. The counters
are cardinalities of the sets of goroutines at a place; `Move` and `HeadCount`
say how one goroutine's step changes them. Proved: `Exclusion`, `NoLostWakeup`
and `WritersFirst` for any finite set of goroutines.

**MediaQueueProofs, MediaKeysProofs.** For any number of devices, slots, changes,
renewals and timed-out requests. `SInv` gives `RemovalsAreServed` and
`RecipientsAreCurrent`: besides them it says that a run about to end with a
removal pending goes round again, and that the recipients of the epoch that is
active or on its way are the present ones unless another run is bound to come
(`Covered`).

`RemovalBound` needs more, because what the worker encrypts with is decided by
requests queued earlier. `QInv` describes the queue: the one request that is
awaited is the last activation in it (`Awaited`); the key of an epoch comes before
its activation (`KeyFirst`); slots are activated one by one, and an activated slot
encrypts under the rekey's epoch or not at all (`SlotBySlot`). `BInv` adds the
books of the page. An epoch is hot when a slot encrypts under it or is asked to,
and dead when no slot holds it once the queue has been worked through.
`Accounted`: a hot epoch is the active one, or its activation has begun, or it is
dead. `DueIsDone`: once a removal is due, the active epoch is dead and no
activation older than the removal is on the books. `Pending`: a departed device
that can decrypt one of these epochs has a pending removal newer than the epoch.
`Chains`: who can decrypt an epoch is in the chain it was derived along, and who
left is no recipient. The bound follows by cases on `Accounted`. That a deadline
can order its retirements one by one needs the begun activations to be finitely
many (`FiniteStep`).

`QuietIsSafe` is about every departed device, noted or not, so it needs to know
who holds the active epoch. `Known`: the recipients are on the roster, unless it
is empty and reads as the key last compared; who can decrypt the epoch of a rekey
is a recipient or noted; and an engine that rests after a run that succeeded has
an active epoch known to recipients and noted devices only (`AtRest`). With
`BInv` and `SInv` a heard device outside the roster is then the exception of
section 6.

Model-checked only:
- liveness (`PublishTerminates`, `EventuallyRetired`, `RingingStops`,
  `EndedCallsRetire`, `OnlyWritersStarveWriters`, `Recovers`), since proofs under fairness
  are out of the prover's reach;
- `VideoReorder`, `MediaReceive` and `MediaReplay`: their properties rest on
  serial-number arithmetic, on sorting and on minima and sums over sets, which
  lead to inductions over data that the provers cannot do.

## 5. What is left out

- Cryptography, SQL isolation and network framing. A transaction is one step.
- Quotas, rates and permissions in front of the modelled operations: they refuse
  a request without changing the state modelled here.
- Account resets: `OlmAdmission` stays within one account epoch.
- Session fields no other operation reads (nickname, icons, status).
- Raised hands, and methods only tests call (`JoinChannel`).
- The login limiter (`internal/auth/limiter.go`): counters under one mutex with an
  injected clock, which its unit tests drive step by step.
- In `MediaKeys`: the awaits between the slots of one installation
  (`media-keys.js:447-453`; no slot encrypts under a key that is installed and not
  active, and the code asks between them only whether its session still lives),
  key material, the repeated sending of a failed control (a device
  that was sent one counts as holding the key), the membership digest, status, and
  the end of the session, which forgets every ring, and the limit of 256 open
  worker requests (`media-e2ee.js:77`), which only `MediaReceive` has.
- In `MediaReceive`: other publishers (they meet only in limits), frames that do
  not decrypt or are older than the life of an epoch, the binding of endpoints,
  and the limits of 4096 retirement marks and of key rings in the worker.
- Wall clocks: the ring timeout of a call compares with the wall clock
  (`private_calls.go:384`), and the clock of `PrivateCalls` is monotonic. A clock
  that is set back makes the only timer of the call find nothing to do.
- The mobile outbox (`mobile/src/core/outbox.js`): its entries are shared by tabs
  through IndexedDB, and its expiry write is not a compare-and-swap (lines 61-66).
  It is next in the plan.
- The read loop's choice of when to ask for a round trip in `VideoReorder`: a
  fresh measurement may arrive at any time, which covers it.
- Congestion control (floating-point estimation), codecs and file I/O.
- User interfaces, tools, generated and vendored code.

## 6. Where code and comments part

The comment of `RemoveChannels` (`internal/state/manager.go:230`) says that it
removes all speaking state of the deleted channels. `deleted_speaker` shows a
session that stays marked as speaking. Its speaking report passed the talk gate
in one channel and was recorded after the session had left, with channel 0.
Joining the next channel does not clear such a record, and deleting that channel
clears only records that name it. The server's deletion hooks silence the members
they know of beforehand, which hides this in most orders. The weaker fact that
does hold is the last conjunct of `SpeakersAreUnmuted`: a record names the
session's own channel or channel 0.

Four smaller points about the media keys:

- `media-keys.js:80-82` says that every removal is bounded in time. One departure is
  not noted. `setRoster` compares the recipients with `#recipientKey` (line 305),
  which `#rekey` does not update when it takes its own snapshot (line 428), and
  `MediaSession.#startEngine` sets the roster before it starts the engine
  (`media-session.js:122-123`). If the first update after the start empties the
  channel, the empty list equals the initial one, no removal is noted, and the
  epoch stays in use until the next rekey that succeeds. One that fails is not
  repeated, as no removal is pending, so the departed device may go on hearing a
  channel that has members again. The exception in `QuietIsSafe` is this case and
  no other: an epoch is heard by no device whose departure was noted, and by none
  at all after a successful run for a roster that is not empty.
- A rekey that fails while no removal is pending is not tried again (line 347), so
  a device that joined waits for the next change or renewal. `failedRun` in
  `RecipientsAreCurrent` is this case.
- `media-session.js:128-129` says that every key of the old scope is forgotten
  before the new epochs start. A request is rejected while 256 are open
  (`media-e2ee.js:77`), `stop` posts the forgets of all publishers in one turn, four
  for each, and ignores errors (`media-keys.js:274-280`). With more than 62
  publishers, or fewer while other requests are open, some forgets are dropped and
  nothing repeats them. `page.shed` in `RingsExact` is this case: the epochs such a
  request was about may stay, and only those, until the next clean-up about them
  gets through; without it TLC finds the property violated.
- `media-keys.js:33-35` says that a repeated control can never restore a retired
  epoch. For the pre-derived successor this rests on the worker's retirement
  mark, since the successor is not counted as accepted before its own control
  arrives. The worker keeps 4096 marks; the model keeps all of them, and the
  mutant that loses them (`forgetAll`) lets a frame be passed on twice.

## 7. Plan

In this order, each with its runs, and proofs where noted:

1. **Authority** (`internal/authorization/authority.go`): the two gates, the
   published evaluator, commits whose outcome is unknown, reconciliation that
   fails half-way, and reload. Central claim: nothing runs under grants older
   than the last acknowledged policy, and every grant that was withdrawn is
   revoked before the next evaluator is published. To be proved; the role process
   lease joins it.
2. **ChatOutbox** on top of `LogicalSend`: held, queued, sending and uncertain
   entries, undo, retry, expiry, tabs that flush side by side, and interruption,
   with connection epochs.
3. **Deliveries**: pages, the durable receive, acknowledgement, and account reset;
   composed with `OlmAdmission` into end-to-end delivery.
4. **ChannelLifecycle** with `StateManager`: subtree deletion, cleanup timers,
   unsure deletions; raised hands; media seats.
5. **ScopeKeys** and **FileTransfer**: one operation on two stores, one of which
   fails.
6. **Proofs**: `MediaReceive` (`RingsExact`), `VideoReorder` (`InOrder`) and the
   authority.
