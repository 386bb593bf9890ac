------------------------- MODULE StateManagerProofs -------------------------
(***************************************************************************)
(* The presence invariants hold for any number of sessions and channels.   *)
(* One lemma per invariant shows that every method of the manager keeps    *)
(* it; membership comes first, because the counter and the speaking        *)
(* records lean on it.                                                     *)
(***************************************************************************)
EXTENDS StateManager, FiniteSetTheorems, TLAPS

LEMMA LobbyIsNoChannel == Lobby \notin Channels /\ NotSpeaking \notin Channels /\ Lobby # NotSpeaking
  BY StateManagerAssumption DEF Lobby, NotSpeaking

\* What the guarded removals amount to when the membership is exact: the
\* session disappears from every set.
LEMMA WithoutPointwise ==
  ASSUME TypeOK, StandingExact, NEW c \in clients
  PROVE  /\ membershipWithout(c) \in [Channels -> SUBSET Clients]
         /\ \A ch \in Channels : membershipWithout(c)[ch] = membership[ch] \ {c}
<1>1. CASE channelOf[c] = Lobby
  BY <1>1, LobbyIsNoChannel DEF TypeOK, StandingExact, membershipWithout
<1>2. CASE channelOf[c] # Lobby
  BY <1>2, Zenon DEF TypeOK, StandingExact, membershipWithout
<1> QED
  BY <1>1, <1>2, Zenon

LEMMA CountType ==
  ASSUME TypeOK, NEW c \in Clients
  PROVE  countWithout(c) \in [Channels -> Nat]
<1>1. \A n \in Nat : oneLess(n) \in Nat
  BY DEF oneLess
<1>2. CASE channelOf[c] = Lobby
  BY <1>2, Zenon DEF TypeOK, countWithout
<1>3. CASE channelOf[c] # Lobby
  BY <1>1, <1>3, Zenon DEF TypeOK, countWithout
<1> QED
  BY <1>2, <1>3, Zenon

\* Type correctness: the counters in particular never go below zero.
LEMMA TypeStep ==
  ASSUME TypeOK, StandingExact, [Next]_vars
  PROVE  TypeOK'
<1> USE StateManagerAssumption
<1>1. ASSUME NEW c \in Clients, AddClient(c) PROVE TypeOK'
  BY <1>1, Zenon DEF AddClient, TypeOK, tree, members, speech, mutes, indexes
<1>2. ASSUME NEW c \in Clients, RemoveClient(c) PROVE TypeOK'
  <2>1. membership' \in [Channels -> SUBSET Clients]
    BY <1>2, WithoutPointwise, Zenon DEF RemoveClient
  <2>2. clientCount' \in [Channels -> Nat]
    BY <1>2, CountType, Zenon DEF RemoveClient
  <2>3. dropSubs(c) \in [Channels -> SUBSET Clients]
    BY Zenon DEF dropSubs, TypeOK
  <2> QED
    BY <1>2, <2>1, <2>2, <2>3, Zenon DEF RemoveClient, StopSpeaking, TypeOK, tree
<1>3. ASSUME NEW c \in Clients, LeaveChannel(c) PROVE TypeOK'
  <2>1. membership' \in [Channels -> SUBSET Clients]
    BY <1>3, WithoutPointwise, Zenon DEF LeaveChannel
  <2>2. clientCount' \in [Channels -> Nat]
    BY <1>3, CountType, Zenon DEF LeaveChannel
  <2> QED
    BY <1>3, <2>1, <2>2 DEF LeaveChannel, StopIfRecorded, Transition, TypeOK, tree, mutes, indexes
<1>4. ASSUME NEW c \in Clients, NEW ch \in Channels, Enter(c, ch)
      PROVE /\ membership' \in [Channels -> SUBSET Clients]
            /\ clientCount' \in [Channels -> Nat]
            /\ channelOf' \in [Clients -> Channels \cup {Lobby}]
            /\ epoch' \in [Clients -> Nat]
            /\ UNCHANGED <<clients, tree, mutes, indexes, mayTalk>>
  <2>1. membership' \in [Channels -> SUBSET Clients]
    BY <1>4, WithoutPointwise DEF Enter
  <2>2. clientCount' \in [Channels -> Nat]
    BY <1>4, CountType DEF Enter
  <2> QED
    BY <1>4, <2>1, <2>2 DEF Enter, Transition, TypeOK
<1>5. ASSUME NEW c \in Clients, NEW ch \in Channels, MoveFromLobby(c, ch) PROVE TypeOK'
  <2>1. Enter(c, ch) /\ UNCHANGED speech
    BY <1>5, Zenon DEF MoveFromLobby
  <2> QED
    BY <2>1, <1>4, Zenon DEF TypeOK, speech, tree, mutes, indexes
<1>6. ASSUME NEW c \in Clients, NEW ch \in Channels, MoveFromChannel(c, ch) PROVE TypeOK'
  <2>1. Enter(c, ch) /\ StopIfRecorded(c)
    BY <1>6, Zenon DEF MoveFromChannel
  <2> QED
    BY <2>1, <1>4, Zenon DEF TypeOK, StopIfRecorded, tree, mutes, indexes
<1>7. ASSUME NEW c \in Clients, TalkGate(c) PROVE TypeOK'
  BY <1>7, Zenon DEF TalkGate, TypeOK, presence, tree, members, speech, mutes, indexes
<1>8. ASSUME NEW c \in Clients, StartSpeaking(c) PROVE TypeOK'
  BY <1>8, Zenon DEF StartSpeaking, TypeOK, presence, tree, members, mutes, indexes
<1>9. ASSUME NEW c \in Clients, RefuseSpeaking(c) \/ EndSpeaking(c) PROVE TypeOK'
  BY <1>9, Zenon DEF RefuseSpeaking, EndSpeaking, StopSpeaking, TypeOK, presence, tree, members, mutes,
     indexes
<1>10. ASSUME NEW c \in Clients, ServerMute(c) \/ SelfMute(c) PROVE TypeOK'
  BY <1>10, Zenon DEF ServerMute, SelfMute, StopSpeaking, TypeOK, presence, tree, members, indexes
<1>11. ASSUME NEW c \in Clients, ServerUnmute(c) \/ SelfUnmute(c) PROVE TypeOK'
  BY <1>11, Zenon DEF ServerUnmute, SelfUnmute, TypeOK, presence, tree, members, speech, indexes
<1>12. ASSUME NEW c \in Clients, NEW S \in SUBSET Channels, Subscribe(c, S) PROVE TypeOK'
  BY <1>12, Zenon DEF Subscribe, TypeOK, presence, tree, members, speech, mutes
<1>13. ASSUME NEW c \in Clients, NEW S \in SUBSET Channels, Unsubscribe(c, S) PROVE TypeOK'
  BY <1>13, Zenon DEF Unsubscribe, TypeOK, presence, tree, members, speech, mutes
<1>14. ASSUME NEW ch \in Channels, NEW max \in Capacities, AddChannel(ch, max) PROVE TypeOK'
  BY <1>14, Zenon DEF AddChannel, TypeOK, presence, speech, mutes, indexes
<1>15. ASSUME NEW ch \in Channels, NEW max \in Capacities, UpdateChannel(ch, max) PROVE TypeOK'
  BY <1>15, Zenon DEF UpdateChannel, TypeOK, presence, members, speech, mutes, indexes
<1>16. ASSUME NEW S \in SUBSET Channels, RemoveChannels(S) PROVE TypeOK'
  BY <1>16 DEF RemoveChannels, TypeOK, mutes
<1>17. CASE UNCHANGED vars
  BY <1>17, Zenon DEF TypeOK, vars, presence, tree, members, speech, mutes, indexes
<1> QED
  BY <1>1, <1>2, <1>3, <1>5, <1>6, <1>7, <1>8, <1>9, <1>10, <1>11, <1>12, <1>13, <1>14, <1>15, <1>16,
     <1>17, Zenon DEF Next

(***************************************************************************)
(* Membership.                                                             *)
(***************************************************************************)
\* The calls about speech, muting, subscriptions and channel settings.
LEMMA Standing ==
  ASSUME NEW c \in Clients, NEW S \in SUBSET Channels,
         \/ TalkGate(c) \/ StartSpeaking(c) \/ RefuseSpeaking(c) \/ EndSpeaking(c)
         \/ ServerMute(c) \/ ServerUnmute(c) \/ SelfMute(c) \/ SelfUnmute(c)
         \/ Subscribe(c, S) \/ Unsubscribe(c, S)
  PROVE  UNCHANGED <<presence, tree, members>>
  BY Zenon DEF TalkGate, StartSpeaking, RefuseSpeaking, EndSpeaking, ServerMute, ServerUnmute, SelfMute,
     SelfUnmute, Subscribe, Unsubscribe

LEMMA MembershipStep ==
  ASSUME TypeOK, StandingExact, [Next]_vars
  PROVE  StandingExact'
<1> USE LobbyIsNoChannel
<1>1. ASSUME NEW c \in Clients, AddClient(c) PROVE StandingExact'
  BY <1>1 DEF AddClient, TypeOK, StandingExact, tree, members
<1>2. ASSUME NEW c \in Clients, RemoveClient(c) PROVE StandingExact'
  <2>1. \A ch \in Channels : membership'[ch] = membership[ch] \ {c}
    BY <1>2, WithoutPointwise, Zenon DEF RemoveClient
  <2> QED
    BY <1>2, <2>1 DEF RemoveClient, TypeOK, StandingExact, tree
<1>3. ASSUME NEW c \in Clients, LeaveChannel(c) PROVE StandingExact'
  <2>1. \A ch \in Channels : membership'[ch] = membership[ch] \ {c}
    BY <1>3, WithoutPointwise, Zenon DEF LeaveChannel
  <2> QED
    BY <1>3, <2>1, Zenon DEF LeaveChannel, Transition, TypeOK, StandingExact, tree
<1>4. ASSUME NEW c \in Clients, NEW ch \in Channels, Enter(c, ch) PROVE StandingExact'
  <2>1. \A x \in Channels : membership'[x] =
          IF x = ch THEN (membership[x] \ {c}) \cup {c} ELSE membership[x] \ {c}
    BY <1>4, WithoutPointwise, Zenon DEF Enter
  <2>2. channelOf' = [channelOf EXCEPT ![c] = ch] /\ c \in clients
    BY <1>4, Zenon DEF Enter, Transition
  <2>3. ch \in channels \ TextChannels /\ UNCHANGED <<clients, channels>>
    BY <1>4, Zenon DEF Enter, tree
  <2>4. \A d \in clients : channelOf'[d] = IF d = c THEN ch ELSE channelOf[d]
    BY <2>2, Zenon DEF TypeOK
  <2>5. ASSUME NEW x \in Channels
        PROVE  membership'[x] = {d \in clients' : channelOf'[d] = x}
    <3>1. \A d : d \in membership[x] <=> d \in clients /\ channelOf[d] = x
      BY DEF StandingExact
    <3>2. ASSUME NEW d PROVE d \in membership'[x] <=> d \in clients /\ channelOf'[d] = x
      <4>1. CASE d = c
        BY <2>1, <2>2, <2>4, <4>1, Zenon
      <4>2. CASE d # c
        <5>1. d \in membership'[x] <=> d \in membership[x]
          BY <2>1, <4>2, Zenon
        <5> QED
          BY <2>4, <3>1, <4>2, <5>1, Zenon
      <4> QED
        BY <4>1, <4>2, Zenon
    <3> QED
      BY <2>3, <3>2, Zenon
  <2>6. ASSUME NEW x \in Channels, membership'[x] # {}
        PROVE  x \in channels' \ TextChannels
    <3>1. CASE x = ch
      BY <2>3, <3>1, Zenon
    <3>2. CASE x # ch
      BY <2>1, <2>3, <2>6, <3>2, Zenon DEF StandingExact
    <3> QED
      BY <3>1, <3>2, Zenon
  <2> QED
    BY <2>5, <2>6, Zenon DEF StandingExact
<1>5. ASSUME NEW c \in Clients, NEW ch \in Channels,
             MoveFromLobby(c, ch) \/ MoveFromChannel(c, ch)
      PROVE  StandingExact'
  BY <1>4, <1>5, Zenon DEF MoveFromLobby, MoveFromChannel
<1>6. CASE UNCHANGED <<presence, tree, members>>
  BY <1>6, Zenon DEF StandingExact, presence, tree, members
<1>7. ASSUME NEW ch \in Channels, NEW max \in Capacities,
             AddChannel(ch, max) \/ UpdateChannel(ch, max)
      PROVE  StandingExact'
  BY <1>7 DEF AddChannel, UpdateChannel, TypeOK, StandingExact, presence, members
<1>8. ASSUME NEW S \in SUBSET Channels, RemoveChannels(S) PROVE StandingExact'
  <2>1. \A c \in clients : c \in membersOf(S) <=> channelOf[c] \in S
    BY DEF membersOf, StandingExact
  <2>2. \A c \in clients : channelOf'[c] = IF channelOf[c] \in S THEN Lobby ELSE channelOf[c]
    BY <1>8, <2>1, Zenon DEF RemoveChannels, TypeOK
  <2>3. \A ch \in Channels : membership'[ch] = IF ch \in S THEN {} ELSE membership[ch]
    BY <1>8, Zenon DEF RemoveChannels
  <2>4. clients' = clients /\ channels' = channels \ S
    BY <1>8, Zenon DEF RemoveChannels
  <2> QED
    BY <2>2, <2>3, <2>4 DEF TypeOK, StandingExact
<1>9. CASE UNCHANGED vars
  BY <1>9, <1>6, Zenon DEF vars
<1> QED
  BY <1>1, <1>2, <1>3, <1>5, <1>6, <1>7, <1>8, <1>9, Standing, Zenon DEF Next

(***************************************************************************)
(* The counter.                                                            *)
(***************************************************************************)
LEMMA MembersFinite ==
  ASSUME TypeOK, NEW ch \in Channels
  PROVE  IsFiniteSet(membership[ch]) /\ Cardinality(membership[ch]) \in Nat
  BY StateManagerAssumption, FS_Subset, FS_CardinalityType DEF TypeOK

\* The guarded decrement takes one exactly where the session was.
LEMMA CountPointwise ==
  ASSUME TypeOK, StandingExact, CountExact, NEW c \in clients
  PROVE  \A ch \in channels : countWithout(c)[ch] = Cardinality(membership[ch] \ {c})
<1> SUFFICES ASSUME NEW ch \in channels
             PROVE  countWithout(c)[ch] = Cardinality(membership[ch] \ {c})
  BY Zenon
<1>0. ch \in Channels /\ c \in Clients /\ clientCount[ch] = Cardinality(membership[ch])
  BY Zenon DEF TypeOK, CountExact
<1>1. CASE channelOf[c] # ch
  <2>1. c \notin membership[ch]
    BY <1>0, <1>1, Zenon DEF StandingExact
  <2>2. membership[ch] \ {c} = membership[ch]
    BY <2>1, Zenon
  <2>3. countWithout(c)[ch] = clientCount[ch]
    BY <1>0, <1>1, Zenon DEF countWithout, TypeOK
  <2> QED
    BY <1>0, <2>2, <2>3, Zenon
<1>2. CASE channelOf[c] = ch
  <2>1. c \in membership[ch]
    BY <1>0, <1>2, Zenon DEF StandingExact
  <2>2. Cardinality(membership[ch] \ {c}) = Cardinality(membership[ch]) - 1
    BY <1>0, <2>1, MembersFinite, FS_RemoveElement, Zenon
  <2>3. Cardinality(membership[ch]) > 0
    BY <1>0, <2>1, MembersFinite, FS_EmptySet
  <2>4. countWithout(c)[ch] = oneLess(clientCount[ch])
    BY <1>0, <1>2, <2>1, LobbyIsNoChannel, Zenon DEF countWithout, TypeOK
  <2> QED
    BY <1>0, <2>2, <2>3, <2>4, Zenon DEF oneLess
<1> QED
  BY <1>1, <1>2, Zenon

LEMMA CountStep ==
  ASSUME TypeOK, TypeOK', StandingExact, CountExact, [Next]_vars
  PROVE  CountExact'
<1>1. ASSUME NEW c \in Clients, AddClient(c) PROVE CountExact'
  BY <1>1, Zenon DEF AddClient, CountExact, tree, members
<1>2. ASSUME NEW c \in Clients, RemoveClient(c) PROVE CountExact'
  <2>1. \A ch \in Channels : membership'[ch] = membership[ch] \ {c}
    BY <1>2, WithoutPointwise, Zenon DEF RemoveClient
  <2>2. \A ch \in channels : clientCount'[ch] = Cardinality(membership[ch] \ {c})
    BY <1>2, CountPointwise, Zenon DEF RemoveClient
  <2>3. channels' = channels /\ channels \subseteq Channels
    BY <1>2, Zenon DEF RemoveClient, tree, TypeOK
  <2> QED
    BY <2>1, <2>2, <2>3, Zenon DEF CountExact
<1>3. ASSUME NEW c \in Clients, LeaveChannel(c) PROVE CountExact'
  <2>1. \A ch \in Channels : membership'[ch] = membership[ch] \ {c}
    BY <1>3, WithoutPointwise, Zenon DEF LeaveChannel
  <2>2. \A ch \in channels : clientCount'[ch] = Cardinality(membership[ch] \ {c})
    BY <1>3, CountPointwise, Zenon DEF LeaveChannel
  <2>3. channels' = channels /\ channels \subseteq Channels
    BY <1>3, Zenon DEF LeaveChannel, tree, TypeOK
  <2> QED
    BY <2>1, <2>2, <2>3, Zenon DEF CountExact
<1>4. ASSUME NEW c \in Clients, NEW ch \in Channels, Enter(c, ch) PROVE CountExact'
  <2>1. membership' = [membershipWithout(c) EXCEPT ![ch] = @ \cup {c}]
    BY <1>4, Zenon DEF Enter
  <2>2. clientCount' = [countWithout(c) EXCEPT ![ch] = @ + 1]
    BY <1>4, Zenon DEF Enter
  <2>3. channels' = channels /\ channels \subseteq Channels /\ c \in clients /\ ch \in channels
    BY <1>4, Zenon DEF Enter, tree, TypeOK
  <2>4. \A x \in Channels : membershipWithout(c)[x] = membership[x] \ {c}
    BY <2>3, WithoutPointwise, Zenon
  <2>5. \A x \in channels : countWithout(c)[x] = Cardinality(membership[x] \ {c})
    BY <2>3, CountPointwise, Zenon
  <2>6. ASSUME NEW x \in channels, x # ch
        PROVE  clientCount'[x] = Cardinality(membership'[x])
    <3>1. membership'[x] = membership[x] \ {c}
      BY <2>1, <2>3, <2>4, <2>6, WithoutPointwise, Zenon
    <3>2. clientCount'[x] = Cardinality(membership[x] \ {c})
      BY <2>2, <2>3, <2>5, <2>6, CountType, Zenon
    <3> QED
      BY <3>1, <3>2, Zenon
  <2>7. clientCount'[ch] = Cardinality(membership'[ch])
    <3>1. membership'[ch] = (membership[ch] \ {c}) \cup {c}
      BY <2>1, <2>3, <2>4, WithoutPointwise, Zenon
    <3>2. clientCount'[ch] = Cardinality(membership[ch] \ {c}) + 1
      BY <2>2, <2>3, <2>5, CountType, Zenon
    <3>3. IsFiniteSet(membership[ch] \ {c})
      BY MembersFinite, FS_Subset, Zenon
    <3>4. Cardinality((membership[ch] \ {c}) \cup {c}) = Cardinality(membership[ch] \ {c}) + 1
      BY <3>3, FS_AddElement, Zenon
    <3> QED
      BY <3>1, <3>2, <3>4, Zenon
  <2> QED
    BY <2>3, <2>6, <2>7, Zenon DEF CountExact
<1>5. ASSUME NEW c \in Clients, NEW ch \in Channels,
             MoveFromLobby(c, ch) \/ MoveFromChannel(c, ch)
      PROVE  CountExact'
  BY <1>4, <1>5, Zenon DEF MoveFromLobby, MoveFromChannel
<1>6. CASE UNCHANGED <<presence, tree, members>>
  BY <1>6, Zenon DEF CountExact, presence, tree, members
<1>7. ASSUME NEW ch \in Channels, NEW max \in Capacities, AddChannel(ch, max)
      PROVE  CountExact'
  <2>1. membership[ch] = {}
    BY <1>7, Zenon DEF AddChannel, StandingExact
  <2>2. Cardinality(membership'[ch]) = 0 /\ clientCount'[ch] = 0
    BY <1>7, <2>1, FS_EmptySet, Zenon DEF AddChannel, TypeOK
  <2>3. \A x \in channels : x # ch => clientCount'[x] = Cardinality(membership'[x])
    BY <1>7, Zenon DEF AddChannel, TypeOK, CountExact
  <2> QED
    BY <1>7, <2>2, <2>3, Zenon DEF AddChannel, CountExact
<1>8. ASSUME NEW ch \in Channels, NEW max \in Capacities, UpdateChannel(ch, max)
      PROVE  CountExact'
  BY <1>8, Zenon DEF UpdateChannel, CountExact, members
<1>9. ASSUME NEW S \in SUBSET Channels, RemoveChannels(S) PROVE CountExact'
  <2>1. \A x \in channels' : x \in channels /\ x \in Channels /\ membership'[x] = membership[x]
    BY <1>9, Zenon DEF RemoveChannels, TypeOK
  <2> QED
    BY <1>9, <2>1, Zenon DEF RemoveChannels, CountExact
<1>10. CASE UNCHANGED vars
  BY <1>10, <1>6, Zenon DEF vars
<1> QED
  BY <1>1, <1>2, <1>3, <1>5, <1>6, <1>7, <1>8, <1>9, <1>10, Standing, Zenon DEF Next

(***************************************************************************)
(* Subscriptions.                                                          *)
(***************************************************************************)
LEMMA SubscriptionsStep ==
  ASSUME TypeOK, SubscriptionsMirror, [Next]_vars
  PROVE  SubscriptionsMirror'
<1>1. CASE /\ UNCHANGED indexes
           /\ clients \subseteq clients' /\ channels \subseteq channels'
  BY <1>1, Zenon DEF SubscriptionsMirror, indexes
<1>2. ASSUME NEW c \in Clients, RemoveClient(c) PROVE SubscriptionsMirror'
  <2>1. subs' = [subs EXCEPT ![c] = {}] /\ clients' = clients \ {c} /\ channels' = channels
    BY <1>2, Zenon DEF RemoveClient, tree
  <2>2. \A ch \in Channels : subsByChannel'[ch] =
          IF ch \in subs[c] THEN subsByChannel[ch] \ {c} ELSE subsByChannel[ch]
    BY <1>2, Zenon DEF RemoveClient, dropSubs
  <2>3. ASSUME NEW d \in Clients, NEW ch \in Channels
        PROVE  /\ ch \in subs'[d] <=> d \in subsByChannel'[ch]
               /\ ch \in subs'[d] => d \in clients' /\ ch \in channels'
    <3>1. /\ ch \in subs[d] <=> d \in subsByChannel[ch]
          /\ ch \in subs[d] => d \in clients /\ ch \in channels
      BY Zenon DEF SubscriptionsMirror
    <3>2. subs'[d] = IF d = c THEN {} ELSE subs[d]
      BY <2>1, Zenon DEF TypeOK
    <3>3. CASE d = c
      BY <2>2, <3>1, <3>2, <3>3, Zenon
    <3>4. CASE d # c
      BY <2>1, <2>2, <3>1, <3>2, <3>4, Zenon
    <3> QED
      BY <3>3, <3>4, Zenon
  <2> QED
    BY <2>3, Zenon DEF SubscriptionsMirror
<1>3. ASSUME NEW c \in Clients, NEW S \in SUBSET Channels, Subscribe(c, S)
      PROVE  SubscriptionsMirror'
  BY <1>3, Zenon DEF Subscribe, SubscriptionsMirror, TypeOK, presence, tree
<1>4. ASSUME NEW c \in Clients, NEW S \in SUBSET Channels, Unsubscribe(c, S)
      PROVE  SubscriptionsMirror'
  BY <1>4, Zenon DEF Unsubscribe, SubscriptionsMirror, TypeOK, presence, tree
<1>5. ASSUME NEW S \in SUBSET Channels, RemoveChannels(S) PROVE SubscriptionsMirror'
  <2>1. clients' = clients /\ channels' = channels \ S
    BY <1>5, Zenon DEF RemoveChannels
  <2>2. \A ch \in Channels : subsByChannel'[ch] = IF ch \in S THEN {} ELSE subsByChannel[ch]
    BY <1>5, Zenon DEF RemoveChannels
  <2>3. \A c \in Clients, ch \in Channels :
          ch \in subs'[c] <=> ch \in subs[c] /\ ~(ch \in S /\ c \in subsByChannel[ch])
    BY <1>5, Zenon DEF RemoveChannels
  <2> QED
    BY <2>1, <2>2, <2>3, Zenon DEF SubscriptionsMirror
<1>6. ASSUME NEW c \in Clients,
             \/ AddClient(c) \/ LeaveChannel(c)
             \/ TalkGate(c) \/ StartSpeaking(c) \/ RefuseSpeaking(c) \/ EndSpeaking(c)
             \/ ServerMute(c) \/ ServerUnmute(c) \/ SelfMute(c) \/ SelfUnmute(c)
      PROVE  SubscriptionsMirror'
  <2>1. UNCHANGED indexes /\ clients \subseteq clients' /\ channels \subseteq channels'
    BY <1>6, Zenon DEF AddClient, LeaveChannel, TalkGate, StartSpeaking, RefuseSpeaking, EndSpeaking,
       ServerMute, ServerUnmute, SelfMute, SelfUnmute, presence, tree
  <2> QED
    BY <1>1, <2>1, Zenon
<1>7. ASSUME NEW c \in Clients, NEW ch \in Channels,
             MoveFromLobby(c, ch) \/ MoveFromChannel(c, ch)
      PROVE  SubscriptionsMirror'
  BY <1>1, <1>7, Zenon DEF MoveFromLobby, MoveFromChannel, Enter, tree
<1>8. ASSUME NEW ch \in Channels, NEW max \in Capacities,
             AddChannel(ch, max) \/ UpdateChannel(ch, max)
      PROVE  SubscriptionsMirror'
  BY <1>1, <1>8, Zenon DEF AddChannel, UpdateChannel, presence
<1>9. CASE UNCHANGED vars
  BY <1>1, <1>9, Zenon DEF vars, presence, tree
<1> QED
  BY <1>2, <1>3, <1>4, <1>5, <1>6, <1>7, <1>8, <1>9, Zenon DEF Next

(***************************************************************************)
(* Speech.                                                                 *)
(***************************************************************************)
LEMMA SpeechStep ==
  ASSUME TypeOK, StandingExact, SpeakersAreUnmuted, [Next]_vars
  PROVE  SpeakersAreUnmuted'
<1> USE LobbyIsNoChannel
<1>1. ASSUME NEW c \in Clients, AddClient(c) PROVE SpeakersAreUnmuted'
  BY <1>1, Zenon DEF AddClient, TypeOK, SpeakersAreUnmuted, speech, mutes
<1>2. ASSUME NEW c \in Clients, RemoveClient(c) PROVE SpeakersAreUnmuted'
  BY <1>2, Zenon DEF RemoveClient, StopSpeaking, TypeOK, SpeakersAreUnmuted
<1>3. ASSUME NEW c \in Clients, LeaveChannel(c) PROVE SpeakersAreUnmuted'
  BY <1>3, Zenon DEF LeaveChannel, StopIfRecorded, Transition, TypeOK, SpeakersAreUnmuted, mutes
<1>4. ASSUME NEW c \in Clients, NEW ch \in Channels, MoveFromLobby(c, ch)
      PROVE  SpeakersAreUnmuted'
  BY <1>4, Zenon DEF MoveFromLobby, Enter, Transition, TypeOK, SpeakersAreUnmuted, speech, mutes
<1>5. ASSUME NEW c \in Clients, NEW ch \in Channels, MoveFromChannel(c, ch)
      PROVE  SpeakersAreUnmuted'
  BY <1>5, Zenon DEF MoveFromChannel, Enter, Transition, StopIfRecorded, TypeOK, SpeakersAreUnmuted,
     mutes
<1>6. ASSUME NEW c \in Clients, TalkGate(c) PROVE SpeakersAreUnmuted'
  BY <1>6, Zenon DEF TalkGate, SpeakersAreUnmuted, presence, speech, mutes
<1>7. ASSUME NEW c \in Clients, StartSpeaking(c) PROVE SpeakersAreUnmuted'
  BY <1>7, Zenon DEF StartSpeaking, TypeOK, SpeakersAreUnmuted, presence, mutes
<1>8. ASSUME NEW c \in Clients, RefuseSpeaking(c) \/ EndSpeaking(c) PROVE SpeakersAreUnmuted'
  BY <1>8 DEF RefuseSpeaking, EndSpeaking, StopSpeaking, TypeOK, SpeakersAreUnmuted, presence, mutes
<1>9. ASSUME NEW c \in Clients, ServerMute(c) \/ SelfMute(c) PROVE SpeakersAreUnmuted'
  BY <1>9 DEF ServerMute, SelfMute, StopSpeaking, TypeOK, SpeakersAreUnmuted, presence
<1>10. ASSUME NEW c \in Clients, ServerUnmute(c) \/ SelfUnmute(c) PROVE SpeakersAreUnmuted'
  BY <1>10, Zenon DEF ServerUnmute, SelfUnmute, SpeakersAreUnmuted, presence, speech
<1>11. ASSUME NEW c \in Clients, NEW S \in SUBSET Channels, Subscribe(c, S) \/ Unsubscribe(c, S)
      PROVE  SpeakersAreUnmuted'
  BY <1>11, Zenon DEF Subscribe, Unsubscribe, SpeakersAreUnmuted, presence, speech, mutes
<1>12. ASSUME NEW ch \in Channels, NEW max \in Capacities,
              AddChannel(ch, max) \/ UpdateChannel(ch, max)
      PROVE  SpeakersAreUnmuted'
  BY <1>12, Zenon DEF AddChannel, UpdateChannel, SpeakersAreUnmuted, presence, speech, mutes
<1>13. ASSUME NEW S \in SUBSET Channels, RemoveChannels(S) PROVE SpeakersAreUnmuted'
  <2>1. \A c \in clients : c \in membersOf(S) <=> channelOf[c] \in S
    BY DEF membersOf, StandingExact
  <2>2. \A c \in Clients : channelOf'[c] =
          IF c \in clients /\ channelOf[c] \in S THEN Lobby ELSE channelOf[c]
    BY <1>13, <2>1, Zenon DEF RemoveChannels
  <2>3. \A c \in Clients : speaking'[c] = IF speaking[c] \in S THEN NotSpeaking ELSE speaking[c]
    BY <1>13, Zenon DEF RemoveChannels, recordedIn
  <2>4. \A c \in Clients : c \in isSpeaking' <=> c \in isSpeaking /\ speaking[c] \notin S
    BY <1>13, Zenon DEF RemoveChannels, recordedIn
  <2>5. UNCHANGED <<clients, serverMuted, selfMuted>>
    BY <1>13, Zenon DEF RemoveChannels, mutes
  <2> QED
    BY <2>2, <2>3, <2>4, <2>5, Zenon DEF SpeakersAreUnmuted
<1>14. CASE UNCHANGED vars
  BY <1>14, Zenon DEF SpeakersAreUnmuted, vars, presence, speech, mutes
<1> QED
  BY <1>1, <1>2, <1>3, <1>4, <1>5, <1>6, <1>7, <1>8, <1>9, <1>10, <1>11, <1>12, <1>13, <1>14, Zenon DEF
     Next

(***************************************************************************)
(* The theorems.                                                           *)
(***************************************************************************)
PresenceInv ==
  /\ TypeOK /\ StandingExact /\ CountExact
  /\ SubscriptionsMirror /\ SpeakersAreUnmuted

LEMMA PresenceInit == ASSUME Init PROVE PresenceInv
<1>1. TypeOK
  BY LobbyIsNoChannel, Zenon DEF Init, TypeOK
<1>2. StandingExact /\ CountExact
  BY Zenon DEF Init, StandingExact, CountExact
<1>3. SubscriptionsMirror /\ SpeakersAreUnmuted
  BY Zenon DEF Init, SubscriptionsMirror, SpeakersAreUnmuted
<1> QED
  BY <1>1, <1>2, <1>3, Zenon DEF PresenceInv

LEMMA PresenceStep == ASSUME PresenceInv, [Next]_vars PROVE PresenceInv'
<1>1. TypeOK'
  BY TypeStep, Zenon DEF PresenceInv
<1> QED
  BY <1>1, MembershipStep, CountStep, SubscriptionsStep, SpeechStep, Zenon DEF PresenceInv

LEMMA PresenceInvariant == Spec => []PresenceInv
  BY PresenceInit, PresenceStep, PTL DEF Spec

\* Client.ChannelID, the membership sets and ClientCount of the state manager
\* never disagree, whatever the number of sessions and channels and the order of
\* the calls.
THEOREM MembershipExactHolds == Spec => []MembershipExact
<1>1. PresenceInv => MembershipExact
  BY Zenon DEF PresenceInv, MembershipExact
<1> QED
  BY <1>1, PresenceInvariant, PTL

\* subs and subsByChannel stay one relation over live sessions and channels.
THEOREM SubscriptionsMirrorHolds == Spec => []SubscriptionsMirror
<1>1. PresenceInv => SubscriptionsMirror
  BY Zenon DEF PresenceInv
<1> QED
  BY <1>1, PresenceInvariant, PTL

\* No muted session is ever marked speaking, and the flag and the record agree.
THEOREM SpeakersAreUnmutedHolds == Spec => []SpeakersAreUnmuted
<1>1. PresenceInv => SpeakersAreUnmuted
  BY Zenon DEF PresenceInv
<1> QED
  BY <1>1, PresenceInvariant, PTL

LEMMA EpochStep ==
  ASSUME TypeOK, StandingExact, [Next]_vars
  PROVE  \A c \in clients \cap clients' :
           /\ epoch'[c] >= epoch[c]
           /\ channelOf'[c] # channelOf[c] => epoch'[c] > epoch[c]
<1> USE DEF TypeOK
<1>1. ASSUME NEW c \in Clients, AddClient(c) \/ RemoveClient(c)
      PROVE  \A d \in clients \cap clients' : epoch'[d] = epoch[d] /\ channelOf'[d] = channelOf[d]
  BY <1>1, Zenon DEF AddClient, RemoveClient
<1>2. ASSUME NEW c \in Clients, NEW ch \in Channels \cup {Lobby}, Transition(c, ch)
      PROVE  \A d \in Clients :
               /\ epoch'[d] = IF d = c THEN epoch[d] + 1 ELSE epoch[d]
               /\ d # c => channelOf'[d] = channelOf[d]
  BY <1>2, Zenon DEF Transition
<1>3. ASSUME NEW c \in Clients, NEW ch \in Channels,
             LeaveChannel(c) \/ MoveFromLobby(c, ch) \/ MoveFromChannel(c, ch)
      PROVE  \E x \in Channels \cup {Lobby} : Transition(c, x)
  BY <1>3, Zenon DEF LeaveChannel, MoveFromLobby, MoveFromChannel, Enter
<1>4. ASSUME NEW S \in SUBSET Channels, RemoveChannels(S)
      PROVE  \A d \in Clients :
               \/ epoch'[d] = epoch[d] + 1
               \/ epoch'[d] = epoch[d] /\ channelOf'[d] = channelOf[d]
  BY <1>4, Zenon DEF RemoveChannels
<1>5. \A d \in Clients : epoch[d] \in Nat
  BY Zenon
<1>6. CASE \E c \in Clients : AddClient(c) \/ RemoveClient(c)
  BY <1>1, <1>5, <1>6
<1>7. CASE \E c \in Clients, x \in Channels \cup {Lobby} : Transition(c, x)
  <2>1. PICK c \in Clients, x \in Channels \cup {Lobby} : Transition(c, x)
    BY <1>7, Zenon
  <2>2. \A d \in Clients :
          /\ epoch'[d] = IF d = c THEN epoch[d] + 1 ELSE epoch[d]
          /\ d # c => channelOf'[d] = channelOf[d]
    BY <1>2, <2>1, Zenon
  <2> QED
    BY <1>5, <2>2
<1>8. CASE \E S \in SUBSET Channels : RemoveChannels(S)
  <2>1. \A d \in Clients :
          \/ epoch'[d] = epoch[d] + 1
          \/ epoch'[d] = epoch[d] /\ channelOf'[d] = channelOf[d]
    BY <1>4, <1>8, Zenon
  <2> QED
    BY <1>5, <2>1
<1>9. CASE UNCHANGED presence
  BY <1>5, <1>9 DEF presence
<1>10. ASSUME NEW c \in Clients, LeaveChannel(c)
       PROVE  Transition(c, Lobby)
  BY <1>10, Zenon DEF LeaveChannel
<1>11. ASSUME NEW ch \in Channels, NEW max \in Capacities,
              AddChannel(ch, max) \/ UpdateChannel(ch, max)
       PROVE  UNCHANGED presence
  BY <1>11, Zenon DEF AddChannel, UpdateChannel
<1>12. CASE UNCHANGED vars
  BY <1>9, <1>12, Zenon DEF vars
<1> QED
  BY <1>3, <1>6, <1>7, <1>8, <1>9, <1>10, <1>11, <1>12, Standing, Zenon DEF Next

\* Comparing ChannelID and ChannelEpoch is enough to know a session never left.
THEOREM EpochAdvancesHolds == Spec => EpochAdvances
<1>1. PresenceInv /\ [Next]_vars =>
        [\A c \in clients \cap clients' :
           /\ epoch'[c] >= epoch[c]
           /\ channelOf'[c] # channelOf[c] => epoch'[c] > epoch[c]]_vars
  BY EpochStep, Zenon DEF PresenceInv
<1> QED
  BY <1>1, PresenceInvariant, PTL DEF Spec, EpochAdvances

\* Only a move adds to a channel, and it finds room before it does.
LEMMA CapacityStep ==
  ASSUME TypeOK, StandingExact, [Next]_vars, NEW ch \in channels
  PROVE  \/ membership'[ch] \subseteq membership[ch]
         \/ maxClients[ch] = 0
         \/ Cardinality(membership'[ch]) <= maxClients[ch]
<1> ch \in Channels
  BY Zenon DEF TypeOK
<1>1. ASSUME NEW c \in Clients, RemoveClient(c) \/ LeaveChannel(c)
      PROVE  membership'[ch] \subseteq membership[ch]
  BY <1>1, WithoutPointwise, Zenon DEF RemoveClient, LeaveChannel
<1>2. ASSUME NEW c \in Clients, NEW x \in Channels, Enter(c, x)
      PROVE  \/ membership'[ch] \subseteq membership[ch]
             \/ maxClients[ch] = 0
             \/ Cardinality(membership'[ch]) <= maxClients[ch]
  <2>1. membership'[ch] = IF ch = x THEN (membership[ch] \ {c}) \cup {c} ELSE membership[ch] \ {c}
    BY <1>2, WithoutPointwise, Zenon DEF Enter
  <2>2. CASE ch = x /\ maxClients[ch] # 0
    <3>1. Cardinality(membership[ch]) < maxClients[ch] /\ maxClients[ch] \in Nat
      BY <1>2, <2>2 DEF Enter, roomIn, TypeOK
    <3>2. membership'[ch] = membership[ch] \cup {c} /\ c \notin membership[ch]
      BY <1>2, <2>1, <2>2 DEF Enter, StandingExact
    <3>3. IsFiniteSet(membership[ch])
      BY MembersFinite, Zenon
    <3>4. /\ Cardinality(membership'[ch]) = Cardinality(membership[ch]) + 1
          /\ Cardinality(membership[ch]) \in Nat
      BY <3>2, <3>3, FS_AddElement, FS_CardinalityType, Zenon
    <3> QED
      BY <3>1, <3>4
  <2> QED
    BY <2>1, <2>2, Zenon
<1>3. ASSUME NEW S \in SUBSET Channels, RemoveChannels(S)
      PROVE  membership'[ch] \subseteq membership[ch]
  BY <1>3, Zenon DEF RemoveChannels
<1>4. ASSUME NEW c \in Clients, AddClient(c)
      PROVE  membership' = membership
  BY <1>4, Zenon DEF AddClient, members
<1>5. ASSUME NEW x \in Channels, NEW max \in Capacities, AddChannel(x, max) \/ UpdateChannel(x, max)
      PROVE  membership' = membership
  BY <1>5, Zenon DEF AddChannel, UpdateChannel, members
<1>6. CASE UNCHANGED members \/ UNCHANGED vars
  BY <1>6, Zenon DEF vars, members
<1> QED
  BY <1>1, <1>2, <1>3, <1>4, <1>5, <1>6, Standing, Zenon DEF Next, MoveFromLobby, MoveFromChannel

\* A limit lowered below the number of members stands: nobody enters the channel
\* until it has room again.
THEOREM CapacityRespectedHolds == Spec => CapacityRespected
<1>1. PresenceInv /\ [Next]_vars =>
        [\A ch \in channels :
           membership'[ch] \subseteq membership[ch]
           \/ maxClients[ch] = 0
           \/ Cardinality(membership'[ch]) <= maxClients[ch]]_vars
  BY CapacityStep, Zenon DEF PresenceInv
<1> QED
  BY <1>1, PresenceInvariant, PTL DEF Spec, CapacityRespected
=============================================================================
