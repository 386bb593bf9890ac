---------------------------- MODULE MediaReceive ----------------------------
(***************************************************************************)
(* The receiving half of the encrypted media of one publisher: the         *)
(* controls that bring its keys (MediaKeyEngine.receive and the startup    *)
(* inbox, client/frontend/src/media-keys.js), the session that moves from  *)
(* channel to channel (media-session.js), the requests to the worker       *)
(* (media-e2ee.js), and in the worker the key ring of each slot and the    *)
(* replay window of each epoch (media-e2ee-core.js).                       *)
(*                                                                         *)
(* Controls arrive in any order, late and more than once: the sender sends *)
(* a control again when it does not know whether it arrived.  Time is left *)
(* out: what expires may expire at any moment.  The frames of one slot are *)
(* followed; a frame that is lost, unauthenticated or older than the       *)
(* longest life of an epoch changes nothing.                               *)
(***************************************************************************)
EXTENDS Integers, Sequences, SequencesExt, MediaRing, MediaReplay

CONSTANTS NSlots,       \* media slots (SLOTS)
          MAX_PENDING,  \* controls held for a publisher the roster lacks
          MaxRequests,  \* requests to the worker without an answer
          Loads         \* what may happen in one behaviour: numbers of controls, of
                        \* moves and of requests that time out, the frames of an epoch

ASSUME ReceiveConstants ==
  /\ {NSlots, MaxRequests} \subseteq Nat \ {0}
  \* Keys expire well before half the timestamp range (media-replay.js:25).
  /\ \A l \in Loads : \A f, g \in l.frames : f.time - g.time < Half

VARIABLES
  load, sent,          \* the member of Loads, the controls the publisher sends
  here, scope,         \* publisher in the roster; "starting", "joined" or "elsewhere"
  inbox, held,         \* controls kept by MediaKeyStartupInbox and in #pending
  page,                \* the engine: see emptyPage
  timers,              \* grace timers of superseded epochs
  ring, windows, heard,\* the worker's rings and windows; how often a frame was passed on
  moves, faults

senderVars == <<load, sent>>
sessionVars == <<here, scope, inbox, held, moves>>
workerVars == <<ring, windows, heard>>
vars == <<senderVars, sessionVars, page, timers, workerVars, faults>>

Slots == 1..NSlots
noPublisher == [id |-> 0, announced |-> 0, installed |-> 0, next |-> 0]

(* accepted: acceptedEpochs; pub: the publisher's entry of #publishers,    *)
(* made: how many there were; tasks: installations under way; wq: the      *)
(* worker's queue; shed, which only observes: the epochs a request to      *)
(* clean up was about that found no room, unless a later one covered them. *)
emptyPage == [accepted |-> 0, pub |-> noPublisher, made |-> 0, tasks |-> {}, wq |-> << >>, shed |-> {}]

(* The epochs of the publisher's controls: a ratchet step, or a fresh      *)
(* epoch that skips the successor's number and key slot.  It is "afresh"   *)
(* after an epoch that never activated, whose key slot is given back.      *)
Kinds == {"ratchet", "fresh", "afresh"}

controls(kinds) ==
  LET step(i) == IF kinds[i] = "ratchet" THEN 1 ELSE 2
      c[i \in DOMAIN kinds] ==
        IF i = 1 THEN [epoch |-> 2, kid |-> 1]
        ELSE [epoch |-> c[i-1].epoch + step(i),
              kid   |-> (c[i-1].kid + step(i) - (IF kinds[i] = "afresh" THEN step(i-1) ELSE 0)) % KEYRING]
  IN  c

Init ==
  /\ load \in Loads /\ \E kinds \in [1..load.controls -> Kinds] : sent = Range(controls(kinds))
  /\ here \in BOOLEAN /\ scope = "starting" /\ inbox = {} /\ held = << >>
  /\ page = emptyPage /\ timers = {}
  /\ ring = [s \in Slots |-> EmptyRing] /\ windows = << >> /\ heard = << >>
  /\ moves = 0 /\ faults = 0

-----------------------------------------------------------------------------
(* Requests.  A request that nobody waits for is dropped without a trace   *)
(* when too many are open; a key that finds no room fails.                 *)

open(q) == Cardinality({i \in DOMAIN q : q[i].open})
request(op, s, e, k, t) == [op |-> op, slot |-> s, epoch |-> e, kid |-> k, task |-> t, open |-> TRUE]

(* The epochs a request to clean up is about, out of all there can be now. *)
about(p, op, e) ==
  CASE op = "retireOne" -> {e}
    [] op = "retire"    -> 1..e
    [] op = "forget"    -> 1..(p.accepted + 1)

post(p, op, e) ==
  LET room == MaxRequests - open(p.wq)
      n    == IF room < NSlots THEN room ELSE NSlots
  IN  [p EXCEPT !.wq = @ \o [s \in 1..n |-> request(op, s, e, 0, << >>)],
                !.shed = IF n < NSlots THEN @ \cup about(p, op, e) ELSE @ \ about(p, op, e)]

setKey(p, t) ==
  IF open(p.wq) >= MaxRequests THEN [p EXCEPT !.tasks = @ \cup {[t EXCEPT !.reply = "error"]}]
  ELSE [p EXCEPT !.tasks = @ \cup {t}, !.wq = Append(@, request("key", t.slot, t.epoch, t.kid, <<t.kind, t.epoch>>))]

task(kind, e, k, id) == [kind |-> kind, epoch |-> e, kid |-> k, id |-> id, slot |-> 1, reply |-> "none"]

-----------------------------------------------------------------------------
(* Controls. *)

stale(p, c) == c.epoch <= p.accepted

(* #apply, up to its first await: the line of epochs moves on, a successor *)
(* that the control does not continue is retired, and the installation of  *)
(* the first slot is requested.                                            *)
apply(p, c) ==
  IF stale(p, c) THEN p
  ELSE LET old  == IF p.pub.id # 0 THEN p.pub ELSE [noPublisher EXCEPT !.id = p.made + 1]
           q    == [p EXCEPT !.accepted = c.epoch, !.made = IF p.pub.id # 0 THEN @ ELSE @ + 1,
                             !.pub = [old EXCEPT !.announced = c.epoch, !.next = 0]]
           r    == IF old.next \in {0, c.epoch} THEN q ELSE post(q, "retireOne", old.next)
       IN  setKey(r, task("install", c.epoch, c.kid, old.id))

(* The held controls that have not expired: the older ones expire first. *)
unexpired == {SubSeq(held, k, Len(held)) : k \in 1..(Len(held) + 1)}

(* receive, while the engine runs in the publisher's channel. *)
receive(c) ==
  \/ here /\ page' = apply(page, c) /\ UNCHANGED held
  \/ /\ ~here /\ UNCHANGED page
     /\ \E rest \in unexpired : held' = IF Len(rest) < MAX_PENDING THEN Append(rest, c) ELSE rest

Receive ==
  /\ scope = "joined"
  /\ \E c \in sent : receive(c)
  /\ UNCHANGED <<senderVars, here, scope, inbox, moves, timers, workerVars, faults>>

(* MediaKeyStartupInbox: only the newest control is kept. *)
ReceiveEarly ==
  /\ scope = "starting"
  /\ \E c \in sent : /\ \A d \in inbox : d.epoch < c.epoch
                     /\ inbox' = {c}
  /\ UNCHANGED <<senderVars, here, scope, held, moves, page, timers, workerVars, faults>>

-----------------------------------------------------------------------------
(* The session and the roster. *)

(* #startEngine, with the controls of the inbox that have not expired. *)
Start ==
  /\ scope = "starting" /\ scope' = "joined"
  /\ inbox' = {}
  /\ \/ \E c \in inbox : receive(c)
     \/ UNCHANGED <<page, held>>
  /\ UNCHANGED <<senderVars, here, moves, timers, workerVars, faults>>

(* The publisher's entry goes, and with it the keys of every slot. *)
dropped(p) == IF p.pub.id = 0 THEN p ELSE post([p EXCEPT !.pub = noPublisher], "forget", 0)

move == moves < load.moves /\ moves' = moves + 1

(* rescope: to another channel, where the publisher's controls are not     *)
(* for this session, and back.                                             *)
Rescope ==
  /\ scope # "starting" /\ move
  /\ scope' = IF scope = "joined" THEN "elsewhere" ELSE "joined"
  /\ page' = dropped(page) /\ held' = << >>
  /\ UNCHANGED <<senderVars, here, inbox, timers, workerVars, faults>>

(* setRoster: the publisher enters or leaves the roster of its channel. *)
setRoster ==
  /\ move /\ here' = ~here
  /\ IF scope # "joined" THEN UNCHANGED <<page, held>>
     ELSE \E rest \in unexpired :
            IF here THEN page' = dropped(page) /\ held' = rest
            ELSE page' = FoldLeft(apply, page, rest) /\ held' = << >>
  /\ UNCHANGED <<senderVars, scope, inbox, timers, workerVars, faults>>

-----------------------------------------------------------------------------
(* Installations. *)

always(t)  == TRUE   \* variant: the publisher's entry is not looked at again
current(t) == page.pub.id = t.id

(* The grace of a superseded epoch. *)
supersedes(e) == {x \in {e, page.pub.installed} : x # 0 /\ x < larger(e, page.pub.installed)}

installedAll(p, t) ==
  LET q == [p EXCEPT !.pub.installed = larger(@, t.epoch)]
  IN  IF p.pub.announced = t.epoch THEN [q EXCEPT !.tasks = @ \cup {[t EXCEPT !.kind = "derive"]}] ELSE q

(* The answer to the request of a slot. *)
Installs(t) ==
  LET p == [page EXCEPT !.tasks = @ \ {t}]
  IN  /\ t.kind = "install" /\ t.reply # "none"
      /\ page' = CASE t.reply = "error" -> post(p, "retireOne", t.epoch)
                   [] t.reply = "ok" /\ ~current(t) -> post(p, "retire", t.epoch)
                   [] t.reply = "ok" /\ current(t) /\ t.slot < NSlots -> setKey(p, [t EXCEPT !.slot = @ + 1, !.reply = "none"])
                   [] t.reply = "ok" /\ current(t) /\ t.slot = NSlots -> installedAll(p, t)
      /\ timers' = IF t.reply = "ok" /\ current(t) /\ t.slot = NSlots THEN timers \cup supersedes(t.epoch) ELSE timers

(* #preinstallSuccessor, once the keys are derived; without the ratchet    *)
(* feature, or when they cannot be derived, there is no successor.         *)
Derives(t) ==
  LET p == [page EXCEPT !.tasks = @ \ {t}]
  IN  /\ t.kind = "derive"
      /\ \/ page' = p
         \/ /\ current(t) /\ page.pub.announced = t.epoch /\ page.pub.next = 0 /\ t.epoch + 1 > page.accepted
            /\ page' = setKey([p EXCEPT !.pub.next = t.epoch + 1],
                              task("successor", t.epoch + 1, (t.kid + 1) % KEYRING, t.id))
      /\ UNCHANGED timers

Preinstalls(t) ==
  LET p == [page EXCEPT !.tasks = @ \ {t}]
  IN  /\ t.kind = "successor" /\ t.reply # "none"
      /\ page' = IF t.reply = "ok" /\ t.slot < NSlots /\ current(t) /\ page.pub.next = t.epoch
                 THEN setKey(p, [t EXCEPT !.slot = @ + 1, !.reply = "none"]) ELSE p
      /\ UNCHANGED timers

Continue ==
  /\ \E t \in page.tasks : Installs(t) \/ Derives(t) \/ Preinstalls(t)
  /\ UNCHANGED <<senderVars, sessionVars, workerVars, faults>>

GraceOver ==
  \E e \in timers : /\ timers' = timers \ {e}
                    /\ page' = post(page, "retire", e)
                    /\ UNCHANGED <<senderVars, sessionVars, workerVars, faults>>

(* The page gives up on a request, which stays in the worker's queue. *)
TimedOut ==
  /\ faults < load.faults /\ faults' = faults + 1
  /\ \E i \in DOMAIN page.wq, t \in page.tasks :
       /\ page.wq[i].open /\ page.wq[i].task = <<t.kind, t.epoch>>
       /\ page' = [page EXCEPT !.wq[i].open = FALSE, !.tasks = (@ \ {t}) \cup {[t EXCEPT !.reply = "error"]}]
  /\ UNCHANGED <<senderVars, sessionVars, timers, workerVars>>

-----------------------------------------------------------------------------
(* The worker. *)

applied(r, m) ==
  CASE m.op = "key"       -> key(r, m.epoch, m.kid)
    [] m.op = "retireOne" -> retireOne(r, m.epoch)
    [] m.op = "retire"    -> retire(r, m.epoch)
    [] m.op = "forget"    -> forget(r)

answer(r, m) == IF m.op = "key" /\ keyRefused(r, m.epoch, m.kid) THEN "error" ELSE "ok"

(* The replay window of an epoch goes with its key. *)
Work ==
  LET m == Head(page.wq)
  IN  /\ page.wq # << >>
      /\ ring' = [ring EXCEPT ![m.slot] = applied(@, m)]
      /\ windows' = [e \in DOMAIN windows \cap Live(ring'[1]) |-> windows[e]]
      /\ page' = [page EXCEPT !.wq = Tail(@),
                    !.tasks = {IF m.open /\ m.task = <<t.kind, t.epoch>> THEN [t EXCEPT !.reply = answer(ring[m.slot], m)] ELSE t : t \in @}]
      /\ UNCHANGED <<senderVars, sessionVars, timers, heard, faults>>

iv(f) == [source |-> f.source, time |-> wire(f.time), counter |-> f.counter]
window(e) == IF e \in DOMAIN windows THEN windows[e] ELSE NewWindow

(* A frame of an epoch that is live and decrypts. *)
Decoded(e, f) ==
  LET w == window(e)
      n == IF <<e, f>> \in DOMAIN heard THEN 2 ELSE 1
  IN  /\ e \in Live(ring[1])
      /\ windows' = (e :> check(w, iv(f))) @@ windows
      /\ heard' = IF accept(w, iv(f)) THEN (<<e, f>> :> n) @@ heard ELSE heard
      /\ UNCHANGED <<senderVars, sessionVars, page, timers, ring, faults>>

-----------------------------------------------------------------------------
Next ==
  \/ Receive \/ ReceiveEarly \/ Start \/ Rescope \/ setRoster
  \/ Continue \/ GraceOver \/ TimedOut \/ Work
  \/ \E c \in sent, f \in load.frames : Decoded(c.epoch, f)

Spec == Init /\ [][Next]_vars

-----------------------------------------------------------------------------
(* No frame is passed on twice (media-e2ee-core.js:11-13, media-keys.js:   *)
(* 31-36): while its IV is within the window it is remembered, once it is  *)
(* forgotten it is too old, and a window that went with its key does not   *)
(* come back empty when the publisher or this session leaves and returns,  *)
(* or a control is delivered again.                                        *)
AcceptedOnce == \A f \in DOMAIN heard : heard[f] = 1

(* A full window is no dead end: a frame whose clock is ahead by more than *)
(* the window is passed on, since it empties the window of its source      *)
(* before the room in it is counted (media-replay.js:30-36).               *)
FullClears ==
  \A e \in DOMAIN windows, f \in load.frames :
    known(windows[e], iv(f)) /\ ahead(windows[e], iv(f)) > TimestampWindow => accept(windows[e], iv(f))

withdrawn(e) == \E c, d \in sent : c.epoch = e /\ d.epoch > e /\ d.kid = c.kid

(* So many newer epochs that a full ring may have given this one up. *)
crowded(e) == Cardinality({c \in sent : c.epoch > e}) >= MAX_LIVE_EPOCHS - 1

(* Once everything has run its course, each slot holds the publisher's     *)
(* newest installed epoch and perhaps its successor, and nothing at all of *)
(* a publisher that left or of the channel this session left               *)
(* (media-keys.js:296, 732-735, 763; media-session.js:128).  A forget or   *)
(* retire that finds too many requests open is dropped (media-e2ee.js:77): *)
(* it leaves no more than the epochs it was about, and those only until    *)
(* the next one about them finds room.                                     *)
RingsExact ==
  page.tasks = {} /\ timers = {} /\ page.wq = << >>
    => \A s \in Slots :
         LET e    == page.pub.installed
             live == Live(ring[s]) \ {page.pub.next}
         IN  live \subseteq {e} \cup page.shed /\ (e \in live \cup {0} \/ withdrawn(e) \/ crowded(e))
=============================================================================
