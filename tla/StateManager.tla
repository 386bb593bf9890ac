---------------------------- MODULE StateManager ----------------------------
(***************************************************************************)
(* The server's live presence state, internal/state/manager.go: which      *)
(* sessions are connected, which channel each one stands in, who speaks,   *)
(* and who subscribed to which channel.                                    *)
(*                                                                         *)
(* Every method of state.Manager runs under one lock, so each is one       *)
(* action.  The state is redundant on purpose: membership, ClientCount and *)
(* Client.ChannelID say the same thing three times, speaking and           *)
(* IsSpeaking twice, subs and subsByChannel are one relation indexed both  *)
(* ways.  What can go wrong is that some sequence of calls makes two of    *)
(* them disagree.                                                          *)
(*                                                                         *)
(* The one step that is not a method is the router's talk gate: the voice  *)
(* path checks that the session may talk, and reports the speaking         *)
(* transition only later, so SetSpeaking(TRUE) can land in a state the     *)
(* check did not see.                                                      *)
(*                                                                         *)
(* Calls the methods refuse (unknown client, text channel, full channel)   *)
(* leave the state alone and are the stuttering steps.                     *)
(***************************************************************************)
EXTENDS Integers, FiniteSets

CONSTANTS Clients,       \* session ids; a fresh random one per connection
          Channels,      \* channel ids, positive; zero is the lobby
          TextChannels,  \* TextOnly channels and the home channel: no members
          MusicChannels, \* channels with the music audio profile
          Capacities,    \* the MaxClients values in use; zero is unlimited
          MaxEpoch       \* bound on ChannelEpoch

Lobby == 0
NotSpeaking == -1

ASSUME StateManagerAssumption ==
  /\ IsFiniteSet(Clients)
  /\ Channels \subseteq Nat \ {Lobby}
  /\ TextChannels \subseteq Channels /\ MusicChannels \subseteq Channels
  /\ Capacities \subseteq Nat
  /\ MaxEpoch \in Nat

VARIABLES clients,        \* connected sessions
          channels,       \* channels of the tree
          maxClients,     \* Channel.MaxClients
          clientCount,    \* Channel.ClientCount
          membership,     \* channel -> sessions; an absent key is {}
          channelOf,      \* Client.ChannelID
          epoch,          \* Client.ChannelEpoch
          isSpeaking,     \* sessions with Client.IsSpeaking
          speaking,       \* channel of the session's SpeakingState record
          serverMuted,    \* sessions with Client.ServerMuted
          selfMuted,      \* sessions with Client.SelfMuted
          subs,           \* session -> channels it subscribed to
          subsByChannel,  \* channel -> sessions subscribed to it
          mayTalk         \* sessions whose packet has passed the talk gate

presence == <<clients, channelOf, epoch>>
tree     == <<channels, maxClients>>
members  == <<membership, clientCount>>
speech   == <<isSpeaking, speaking>>
mutes    == <<serverMuted, selfMuted>>
indexes  == <<subs, subsByChannel>>
vars == <<presence, tree, members, speech, mutes, indexes, mayTalk>>

TypeOK ==
  /\ clients \subseteq Clients
  /\ channels \subseteq Channels
  /\ maxClients \in [Channels -> Nat]
  /\ clientCount \in [Channels -> Nat]
  /\ membership \in [Channels -> SUBSET Clients]
  /\ channelOf \in [Clients -> Channels \cup {Lobby}]
  /\ epoch \in [Clients -> Nat]
  /\ isSpeaking \subseteq Clients
  /\ speaking \in [Clients -> Channels \cup {Lobby, NotSpeaking}]
  /\ serverMuted \subseteq Clients
  /\ selfMuted \subseteq Clients
  /\ subs \in [Clients -> SUBSET Channels]
  /\ subsByChannel \in [Channels -> SUBSET Clients]
  /\ mayTalk \subseteq Clients

Init ==
  /\ clients = {} /\ channels = {}
  /\ maxClients = [ch \in Channels |-> 0]
  /\ clientCount = [ch \in Channels |-> 0]
  /\ membership = [ch \in Channels |-> {}]
  /\ channelOf = [c \in Clients |-> Lobby]
  /\ epoch = [c \in Clients |-> 0]
  /\ isSpeaking = {} /\ speaking = [c \in Clients |-> NotSpeaking]
  /\ serverMuted = {} /\ selfMuted = {}
  /\ subs = [c \in Clients |-> {}]
  /\ subsByChannel = [ch \in Channels |-> {}]
  /\ mayTalk = {}

\* ch.ClientCount > 0 then ch.ClientCount--.
oneLess(n) == IF n > 0 THEN n - 1 ELSE n

(***************************************************************************)
(* Leaving the previous channel, shared by RemoveClient, LeaveChannel and  *)
(* moveClient: the set entry goes, and the counter only when the channel   *)
(* had a membership set and still exists.                                  *)
(***************************************************************************)
membershipWithout(c) ==
  IF channelOf[c] = Lobby THEN membership
  ELSE [membership EXCEPT ![channelOf[c]] = @ \ {c}]

countStaying(c) == clientCount   \* variant: only the set entry goes
countWithout(c) ==
  IF channelOf[c] = Lobby THEN clientCount
  ELSE IF membership[channelOf[c]] = {} \/ channelOf[c] \notin channels
       THEN clientCount
       ELSE [clientCount EXCEPT ![channelOf[c]] = oneLess(@)]

\* stopSpeakingLocked; LastSpokeAt is a timestamp and left out.
StopSpeaking(c) ==
  /\ isSpeaking' = isSpeaking \ {c}
  /\ speaking' = [speaking EXCEPT ![c] = NotSpeaking]

\* if _, ok := m.speaking[clientID]; ok { m.stopSpeakingLocked(c) }
StopIfRecorded(c) ==
  /\ isSpeaking' = IF speaking[c] = NotSpeaking THEN isSpeaking ELSE isSpeaking \ {c}
  /\ speaking' = [speaking EXCEPT ![c] = NotSpeaking]

(***************************************************************************)
(* Sessions.                                                               *)
(***************************************************************************)
\* publishAuthenticatedSession: a new session enters the lobby.
AddClient(c) ==
  /\ c \notin clients
  /\ clients' = clients \cup {c}
  /\ channelOf' = [channelOf EXCEPT ![c] = Lobby]
  /\ epoch' = [epoch EXCEPT ![c] = 0]
  /\ UNCHANGED <<tree, members, speech, mutes, indexes, mayTalk>>

dropSubsForgetsIndex(c) == subsByChannel
dropSubs(c) ==
  [ch \in Channels |->
     IF ch \in subs[c] THEN subsByChannel[ch] \ {c} ELSE subsByChannel[ch]]

\* The session's record goes with everything that names it.  The id is never
\* used again, so a speaking report still under way for it changes nothing.
RemoveClient(c) ==
  /\ c \in clients
  /\ membership' = membershipWithout(c)
  /\ clientCount' = countWithout(c)
  /\ StopSpeaking(c)
  /\ subsByChannel' = dropSubs(c)
  /\ subs' = [subs EXCEPT ![c] = {}]
  /\ clients' = clients \ {c}
  /\ channelOf' = [channelOf EXCEPT ![c] = Lobby]
  /\ epoch' = [epoch EXCEPT ![c] = 0]
  /\ serverMuted' = serverMuted \ {c}
  /\ selfMuted' = selfMuted \ {c}
  /\ mayTalk' = mayTalk \ {c}
  /\ UNCHANGED tree

(***************************************************************************)
(* The channel tree.  A channel id is added only while it is absent: its   *)
(* callers insert a fresh row, or fall back to AddChannel after            *)
(* UpdateChannel found nothing to patch.                                   *)
(***************************************************************************)
AddChannel(ch, max) ==
  /\ ch \notin channels
  /\ channels' = channels \cup {ch}
  /\ maxClients' = [maxClients EXCEPT ![ch] = max]
  /\ clientCount' = [clientCount EXCEPT ![ch] = 0]
  /\ UNCHANGED <<presence, membership, speech, mutes, indexes, mayTalk>>

\* A field patch; MaxClients is the only field another method reads.
UpdateChannel(ch, max) ==
  /\ ch \in channels
  /\ maxClients' = [maxClients EXCEPT ![ch] = max]
  /\ UNCHANGED <<presence, channels, members, speech, mutes, indexes, mayTalk>>

membersOf(S) == UNION {membership[ch] : ch \in S}
recordedIn(S) == {c \in Clients : speaking[c] \in S}

\* A subtree goes in one critical section.
RemoveChannels(S) ==
  /\ S # {} /\ S \subseteq channels
  /\ \A c \in membersOf(S) : epoch[c] < MaxEpoch
  /\ channels' = channels \ S
  /\ channelOf' = [c \in Clients |-> IF c \in membersOf(S) \cap clients
                                     THEN Lobby ELSE channelOf[c]]
  /\ epoch' = [c \in Clients |-> IF c \in membersOf(S) \cap clients
                                 THEN epoch[c] + 1 ELSE epoch[c]]
  /\ membership' = [ch \in Channels |-> IF ch \in S THEN {} ELSE membership[ch]]
  /\ isSpeaking' = isSpeaking \ recordedIn(S)
  /\ speaking' = [c \in Clients |-> IF c \in recordedIn(S)
                                    THEN NotSpeaking ELSE speaking[c]]
  /\ subs' = [c \in Clients |->
                {ch \in subs[c] : ~(ch \in S /\ c \in subsByChannel[ch])}]
  /\ subsByChannel' = [ch \in Channels |-> IF ch \in S THEN {} ELSE subsByChannel[ch]]
  /\ UNCHANGED <<clients, maxClients, clientCount, mutes, mayTalk>>

(***************************************************************************)
(* Membership.                                                             *)
(***************************************************************************)
TransitionKeepsEpoch(c, ch) ==
  /\ epoch[c] < MaxEpoch
  /\ channelOf' = [channelOf EXCEPT ![c] = ch]
  /\ epoch' = epoch

Transition(c, ch) ==
  /\ epoch[c] < MaxEpoch
  /\ channelOf' = [channelOf EXCEPT ![c] = ch]
  /\ epoch' = [epoch EXCEPT ![c] = @ + 1]

LeaveChannel(c) ==
  /\ c \in clients /\ channelOf[c] # Lobby
  /\ membership' = membershipWithout(c)
  /\ clientCount' = countWithout(c)
  /\ StopIfRecorded(c)
  /\ Transition(c, Lobby)
  /\ UNCHANGED <<clients, tree, mutes, indexes, mayTalk>>

roomInOffByOne(ch) == maxClients[ch] > 0 => Cardinality(membership[ch]) <= maxClients[ch]
roomIn(ch) == maxClients[ch] > 0 => Cardinality(membership[ch]) < maxClients[ch]

\* The part of moveClient both cases share.
Enter(c, ch) ==
  /\ c \in clients /\ ch \in channels \ TextChannels
  /\ channelOf[c] # ch /\ roomIn(ch)
  /\ membership' = [membershipWithout(c) EXCEPT ![ch] = @ \cup {c}]
  /\ clientCount' = [countWithout(c) EXCEPT ![ch] = @ + 1]
  /\ Transition(c, ch)
  /\ UNCHANGED <<clients, tree, mutes, indexes, mayTalk>>

\* From the lobby nothing touches the speaking state.
MoveFromLobby(c, ch) ==
  /\ channelOf[c] = Lobby
  /\ Enter(c, ch)
  /\ UNCHANGED speech

MoveFromChannel(c, ch) ==
  /\ channelOf[c] # Lobby
  /\ Enter(c, ch)
  /\ StopIfRecorded(c)

(***************************************************************************)
(* Subscriptions.                                                          *)
(***************************************************************************)
Subscribe(c, S) ==
  /\ c \in clients
  /\ subs' = [subs EXCEPT ![c] = @ \cup (S \cap channels)]
  /\ subsByChannel' = [ch \in Channels |-> IF ch \in S \cap channels
                         THEN subsByChannel[ch] \cup {c} ELSE subsByChannel[ch]]
  /\ UNCHANGED <<presence, tree, members, speech, mutes, mayTalk>>

Unsubscribe(c, S) ==
  /\ subs[c] # {}
  /\ subs' = [subs EXCEPT ![c] = @ \ S]
  /\ subsByChannel' = [ch \in Channels |-> IF ch \in S
                         THEN subsByChannel[ch] \ {c} ELSE subsByChannel[ch]]
  /\ UNCHANGED <<presence, tree, members, speech, mutes, mayTalk>>

(***************************************************************************)
(* Speaking and muting.                                                    *)
(***************************************************************************)
\* canTalk.
canTalk(c) == channelOf[c] # Lobby /\ c \notin serverMuted

\* The router's audio loop: the packet passed; in a music channel every one does.
TalkGate(c) ==
  /\ c \in clients
  /\ canTalk(c) \/ channelOf[c] \in MusicChannels
  /\ mayTalk' = mayTalk \cup {c}
  /\ UNCHANGED <<presence, tree, members, speech, mutes, indexes>>

\* SetSpeaking(c, true), the mute flags read now, the channel the one c is in now.
StartSpeaking(c) ==
  /\ c \in mayTalk /\ c \in clients /\ c \notin serverMuted \cup selfMuted
  /\ isSpeaking' = isSpeaking \cup {c}
  /\ speaking' = [speaking EXCEPT ![c] = channelOf[c]]
  /\ mayTalk' = mayTalk \ {c}
  /\ UNCHANGED <<presence, tree, members, mutes, indexes>>

RefuseSpeaking(c) ==
  /\ c \in mayTalk /\ c \in clients /\ c \in serverMuted \cup selfMuted
  /\ StopSpeaking(c)
  /\ mayTalk' = mayTalk \ {c}
  /\ UNCHANGED <<presence, tree, members, mutes, indexes>>

\* SetSpeaking(c, false): the end of speech, or a revoked Speak permission.
EndSpeaking(c) ==
  /\ c \in clients
  /\ StopSpeaking(c)
  /\ UNCHANGED <<presence, tree, members, mutes, indexes, mayTalk>>

ServerMuteKeepsSpeech(c) ==
  /\ c \in clients
  /\ serverMuted' = serverMuted \cup {c}
  /\ UNCHANGED <<presence, tree, members, speech, selfMuted, indexes, mayTalk>>

\* SetServerVoiceState; ServerDeafened and VoiceRevision touch nothing else.
ServerMute(c) ==
  /\ c \in clients
  /\ serverMuted' = serverMuted \cup {c}
  /\ StopSpeaking(c)
  /\ UNCHANGED <<presence, tree, members, selfMuted, indexes, mayTalk>>

ServerUnmute(c) ==
  /\ c \in serverMuted
  /\ serverMuted' = serverMuted \ {c}
  /\ UNCHANGED <<presence, tree, members, speech, selfMuted, indexes, mayTalk>>

\* SetAudioState; a deafened session is a muted one.
SelfMute(c) ==
  /\ c \in clients
  /\ selfMuted' = selfMuted \cup {c}
  /\ StopSpeaking(c)
  /\ UNCHANGED <<presence, tree, members, serverMuted, indexes, mayTalk>>

SelfUnmute(c) ==
  /\ c \in selfMuted
  /\ selfMuted' = selfMuted \ {c}
  /\ UNCHANGED <<presence, tree, members, speech, serverMuted, indexes, mayTalk>>

Next ==
  \/ \E c \in Clients :
       \/ AddClient(c) \/ RemoveClient(c) \/ LeaveChannel(c)
       \/ TalkGate(c) \/ StartSpeaking(c) \/ RefuseSpeaking(c) \/ EndSpeaking(c)
       \/ ServerMute(c) \/ ServerUnmute(c) \/ SelfMute(c) \/ SelfUnmute(c)
       \/ \E ch \in Channels : MoveFromLobby(c, ch) \/ MoveFromChannel(c, ch)
       \/ \E S \in SUBSET Channels : Subscribe(c, S) \/ Unsubscribe(c, S)
  \/ \E ch \in Channels, max \in Capacities : AddChannel(ch, max) \/ UpdateChannel(ch, max)
  \/ \E S \in SUBSET Channels : RemoveChannels(S)

Spec == Init /\ [][Next]_vars

(***************************************************************************)
(* Properties.                                                             *)
(***************************************************************************)
\* membership is exactly the sessions' ChannelID, read the other way round;
\* only channels that exist, and never a text channel, have members.
StandingExact ==
  \A ch \in Channels :
    /\ membership[ch] = {c \in clients : channelOf[c] = ch}
    /\ membership[ch] # {} => ch \in channels \ TextChannels

\* The counter kept by increments and guarded decrements equals the size of
\* the membership set.
CountExact ==
  \A ch \in channels : clientCount[ch] = Cardinality(membership[ch])

\* Where a session stands is kept three times, as Client.ChannelID, as the
\* membership sets and as ClientCount, and the three agree after any sequence
\* of moves, disconnects and deletions.  Every call that reads one of them
\* (ChannelMembers, the role reconciler, the cleanup watcher's emptiness test)
\* depends on it.
MembershipExact == StandingExact /\ CountExact

\* The two subscription indexes are one relation, over live sessions and
\* existing channels only: nothing is fanned out to a dead session.
SubscriptionsMirror ==
  \A c \in Clients, ch \in Channels :
    /\ ch \in subs[c] <=> c \in subsByChannel[ch]
    /\ ch \in subs[c] => c \in clients /\ ch \in channels

\* A session is marked speaking exactly when it has a speaking record, a
\* muted session never is, even when the mute falls between the talk gate and
\* SetSpeaking, and the record names the session's own channel or the lobby.
SpeakersAreUnmuted ==
  \A c \in Clients :
    /\ c \in isSpeaking <=> speaking[c] # NotSpeaking
    /\ c \in isSpeaking => c \in clients \ (serverMuted \cup selfMuted)
    /\ speaking[c] \in {NotSpeaking, Lobby, channelOf[c]}

\* A session that is in the channel it was in before, with the epoch it had
\* before, never left it: every membership transition, a deletion included,
\* advances ChannelEpoch.
EpochAdvances ==
  [][\A c \in clients \cap clients' :
       /\ epoch'[c] >= epoch[c]
       /\ channelOf'[c] # channelOf[c] => epoch'[c] > epoch[c]]_vars

\* Whatever MaxClients was lowered to meanwhile, no move takes a channel above it.
CapacityRespected ==
  [][\A ch \in channels :
       membership'[ch] \subseteq membership[ch]
       \/ maxClients[ch] = 0
       \/ Cardinality(membership'[ch]) <= maxClients[ch]]_vars

\* "RemoveChannels atomically removes a set of channels and all of their
\* membership, speaking, and subscription state": nobody who stood in a deleted
\* channel is still marked speaking.
DeletionSilences ==
  [][\A c \in clients :
       channelOf[c] \in channels \ channels' => c \notin isSpeaking']_vars
=============================================================================
