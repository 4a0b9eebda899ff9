------------------------ MODULE ServerClientsProofs ------------------------
(***************************************************************************)
(* The admission invariants hold for every number of connections, of       *)
(* players per client and of slots.                                        *)
(*                                                                         *)
(* The inductive invariant CountInv joins three facts that need each       *)
(* other: the counter covers everyone (so that it cannot wrap), it stays   *)
(* below max_players (so that the server cannot be overfull), and every    *)
(* ready client has a player (so that a map change, which turns each ready *)
(* client into one loading client, cannot need more units than there are). *)
(*                                                                         *)
(* That a connection is in one map only is an invariant of its own, from   *)
(* which follow the order of admission, the agreement with the game and    *)
(* the limit of players per client.                                        *)
(***************************************************************************)
EXTENDS ServerClients, FiniteSetTheorems, SequenceTheorems, TLAPS

USE ConAssumption, LocalIdAssumption, MaxPlayersAssumption, MaxPerClientAssumption

----------------------------------------------------------------------------
(***************************************************************************)
(* What the operators on the queue and on the players return.              *)
(***************************************************************************)

\* A queued client has a place in the queue, and it is the one Place returns.
LEMMA PlaceInQueue ==
    ASSUME NEW c \in InQueue
    PROVE  /\ Place(c) \in DOMAIN network_queued_clients
           /\ network_queued_clients[Place(c)] = c
BY DEF InQueue, Place

\* Dropping one place leaves a queue of connections, one shorter.
LEMMA QueueWithoutType ==
    ASSUME network_queued_clients \in Seq(Con),
           NEW i \in DOMAIN network_queued_clients
    PROVE  /\ QueueWithout(i) \in Seq(Con)
           /\ Len(QueueWithout(i)) = Len(network_queued_clients) - 1
<1> DEFINE n == Len(network_queued_clients) - 1
<1>1. /\ n \in Nat
      /\ DOMAIN network_queued_clients = 1..(n + 1)
      /\ \A j \in 1..(n + 1) : network_queued_clients[j] \in Con
  BY LenProperties, ElementOfSeq
<1>2. QueueWithout(i) \in [1..n -> Con]
  BY <1>1 DEF QueueWithout
<1>3. QueueWithout(i) \in Seq(Con)
  BY <1>1, <1>2, IsASeq
<1>4. Len(QueueWithout(i)) = n
  BY <1>1 DEF QueueWithout
<1> QED
  BY <1>3, <1>4

\* The positions sent when a place is dropped are natural numbers.
LEMMA ToldWithoutType ==
    ASSUME network_queued_clients \in Seq(Con),
           told \in [Con -> Nat],
           NEW i \in DOMAIN network_queued_clients
    PROVE  ToldWithout(i) \in [Con -> Nat]
<1> SUFFICES ASSUME NEW c \in Con, c \in InQueue, Place(c) > i
             PROVE  Place(c) - i - 1 \in Nat
  BY DEF ToldWithout
<1>1. i \in Nat /\ Place(c) \in Nat
  BY PlaceInQueue, LenProperties
<1> QED
  BY <1>1

\* Every set the invariants count is finite, and so is the players of a client.
LEMMA FiniteSets ==
    ASSUME TypeOK
    PROVE  /\ IsFiniteSet(network_clients)
           /\ IsFiniteSet(clients)
           /\ IsFiniteSet(players)
           /\ \A c : IsFiniteSet(PlayersOf(c))
           /\ Cardinality(network_clients) \in Nat
           /\ Cardinality(clients) \in Nat
           /\ Cardinality(players) \in Nat
           /\ \A c : Cardinality(PlayersOf(c)) \in Nat
<1>1. IsFiniteSet(network_clients) /\ IsFiniteSet(clients)
  BY FS_Subset DEF TypeOK
<1>2. IsFiniteSet(players)
  BY FS_Product, FS_Subset DEF TypeOK, Player
<1>3. \A c : PlayersOf(c) \in SUBSET players
  BY DEF PlayersOf
<1>4. \A c : IsFiniteSet(PlayersOf(c))
  BY <1>2, <1>3, FS_Subset
<1> QED
  BY <1>1, <1>2, <1>4, FS_CardinalityType

\* Admitting or queueing one client keeps the types.
LEMMA TryClientConnectType ==
    ASSUME TypeOK,
           NEW c \in Con,
           NEW queue \in Seq(Con),
           NEW sent \in [Con -> Nat],
           TryClientConnect(c, queue, sent)
    PROVE  /\ network_queued_clients' \in Seq(Con)
           /\ network_clients' \in SUBSET Con
           /\ player_count_of_all_clients' \in Int
           /\ told' \in [Con -> Nat]
<1>1. CASE CanAnotherPlayerConnect
  BY <1>1 DEF TryClientConnect, TypeOK
<1>2. CASE ~CanAnotherPlayerConnect
  <2>1. Append(queue, c) \in Seq(Con)
    BY AppendProperties
  <2>2. Len(queue) + 1 \in Nat
    BY LenProperties
  <2> QED
    BY <1>2, <2>1, <2>2 DEF TryClientConnect, TypeOK
<1> QED
  BY <1>1, <1>2

----------------------------------------------------------------------------
(***************************************************************************)
(* Type correctness.                                                       *)
(***************************************************************************)

\* The variables keep their types: in particular the queue stays a sequence
\* of connections when one is dropped from its middle.
THEOREM TypeCorrect == Spec => []TypeOK
<1>1. Init => TypeOK
  BY EmptySeq DEF Init, TypeOK
<1>2. TypeOK /\ [Next]_vars => TypeOK'
  <2> SUFFICES ASSUME TypeOK, [Next]_vars
               PROVE  TypeOK'
    OBVIOUS
  <2> USE DEF TypeOK
  <2>1. ASSUME NEW c \in Con, Connected(c)
        PROVE  TypeOK'
    <3>1. CASE passworded
      BY <2>1, <3>1 DEF Connected
    <3>2. CASE ~passworded
      BY <2>1, <3>2, TryClientConnectType DEF Connected
    <3> QED
      BY <3>1, <3>2
  <2>2. ASSUME NEW c \in Con, PasswordResponse(c)
        PROVE  TypeOK'
    BY <2>2, TryClientConnectType DEF PasswordResponse
  <2>3. ASSUME NEW c \in Con, Disconnected(c)
        PROVE  TypeOK'
    <3>1. CASE c \in InQueue /\ network_queued_clients' = QueueWithout(Place(c))
                             /\ told' = ToldWithout(Place(c))
                             /\ UNCHANGED <<passworded, password_clients, network_clients,
                                            clients, players, game_players,
                                            player_count_of_all_clients,
                                            slots_to_hand_out>>
      BY <3>1, PlaceInQueue, QueueWithoutType, ToldWithoutType
    <3>2. CASE c \in password_clients \/ c \in network_clients \/ c \in clients
      BY <2>3, <3>1, <3>2, FiniteSets DEF Disconnected
    <3> QED
      BY <2>3, <3>1, <3>2 DEF Disconnected
  <2>4. CASE PromoteQueued
    <3>1. CASE network_queued_clients = <<>>
      BY <2>4, <3>1 DEF PromoteQueued
    <3>2. CASE network_queued_clients /= <<>>
      <4>1. 1 \in DOMAIN network_queued_clients /\ Head(network_queued_clients) \in Con
        BY <3>2, HeadTailProperties, LenProperties, EmptySeq
      <4>2. /\ QueueWithout(1) \in Seq(Con)
            /\ ToldWithout(1) \in [Con -> Nat]
            /\ TryClientConnect(Head(network_queued_clients), QueueWithout(1), ToldWithout(1))
        BY <2>4, <3>2, <4>1, QueueWithoutType, ToldWithoutType DEF PromoteQueued
      <4> QED
        BY <2>4, <4>1, <4>2, TryClientConnectType DEF PromoteQueued
    <3> QED
      BY <3>1, <3>2
  <2>5. ASSUME NEW c \in Con, NEW id \in LocalId, NEW others \in SUBSET LocalId,
               Ready(c, id, others)
        PROVE  TypeOK'
    <3>1. PICK joined \in SUBSET others :
            /\ players' = players \cup ({c} \X ({id} \cup joined))
            /\ game_players' = game_players \cup ({c} \X ({id} \cup joined))
            /\ player_count_of_all_clients' =
                 player_count_of_all_clients + Cardinality(joined)
      BY <2>5 DEF Ready
    <3>2. Cardinality(joined) \in Nat
      BY FS_Subset, FS_CardinalityType
    <3> QED
      BY <2>5, <3>1, <3>2 DEF Ready, Player
  <2>6. ASSUME NEW c \in Con, NEW id \in LocalId, AddLocalPlayer(c, id)
        PROVE  TypeOK'
    BY <2>6 DEF AddLocalPlayer, Player
  <2>7. ASSUME NEW c \in Con, NEW id \in LocalId, RemLocalPlayer(c, id)
        PROVE  TypeOK'
    BY <2>7 DEF RemLocalPlayer
  <2>8. CASE Load
    BY <2>8 DEF Load
  <2>9. CASE SetPassword
    BY <2>9 DEF SetPassword
  <2>10. CASE UNCHANGED vars
    BY <2>10 DEF vars
  <2> QED
    BY <2>1, <2>2, <2>3, <2>4, <2>5, <2>6, <2>7, <2>8, <2>9, <2>10 DEF Next
<1> QED
  BY <1>1, <1>2, PTL DEF Spec

----------------------------------------------------------------------------
(***************************************************************************)
(* Everyone is counted, and nobody beyond max_players.                     *)
(***************************************************************************)

CountInv ==
    /\ TypeOK
    /\ EveryoneIsCounted
    /\ ReadyClientsHavePlayers
    /\ player_count_of_all_clients <= MaxPlayers

\* A ready client has at least one player, so there are no more ready clients
\* than players.
LEMMA NoMoreClientsThanPlayers ==
    ASSUME TypeOK, ReadyClientsHavePlayers
    PROVE  Cardinality(clients) <= Cardinality(players)
<1> DEFINE owner == [p \in players |-> p[1]]
<1>1. owner \in Surjection(players, clients)
  BY DEF ReadyClientsHavePlayers, Surjection
<1> QED
  BY <1>1, FiniteSets, FS_Surjection

\* Admission needs a free unit of the counter, and takes one.
LEMMA TryClientConnectCounts ==
    ASSUME CountInv,
           NEW c \in Con,
           NEW queue, NEW sent,
           TryClientConnect(c, queue, sent),
           players' = players, clients' = clients
    PROVE  /\ EveryoneIsCounted'
           /\ ReadyClientsHavePlayers'
           /\ (player_count_of_all_clients <= MaxPlayers)'
<1>1. ReadyClientsHavePlayers'
  BY DEF CountInv, ReadyClientsHavePlayers
<1>2. CASE CanAnotherPlayerConnect
  <2>1. /\ network_clients' = network_clients \cup {c}
        /\ player_count_of_all_clients' = player_count_of_all_clients + 1
    BY <1>2 DEF TryClientConnect
  <2>2. Cardinality(network_clients') <= Cardinality(network_clients) + 1
    <3>1. IsFiniteSet(network_clients) /\ Cardinality(network_clients) \in Nat
      BY FiniteSets DEF CountInv
    <3>2. Cardinality(network_clients \cup {c}) =
            IF c \in network_clients THEN Cardinality(network_clients)
                                     ELSE Cardinality(network_clients) + 1
      BY <3>1, FS_AddElement
    <3> QED
      BY <2>1, <3>1, <3>2
  <2>3. Cardinality(network_clients') \in Nat
    BY <2>1, FiniteSets, FS_AddElement, FS_CardinalityType DEF CountInv
  <2> QED
    BY <1>1, <1>2, <2>1, <2>2, <2>3, FiniteSets
    DEF CountInv, TypeOK, EveryoneIsCounted, CanAnotherPlayerConnect
<1>3. CASE ~CanAnotherPlayerConnect
  BY <1>1, <1>3 DEF CountInv, EveryoneIsCounted, TryClientConnect
<1> QED
  BY <1>2, <1>3

\* The number of units a ready client holds is the number of its players.
LEMMA RemovingAClientsPlayers ==
    ASSUME TypeOK, NEW c
    PROVE  Cardinality(players \ PlayersOf(c)) =
             Cardinality(players) - Cardinality(PlayersOf(c))
<1>1. players \cap PlayersOf(c) = PlayersOf(c)
  BY DEF PlayersOf
<1> QED
  BY <1>1, FiniteSets, FS_Difference

\* The counter covers everyone, stays below max_players, and every ready client
\* has a player, in every reachable state.
THEOREM CountInvariant == Spec => []CountInv
<1>1. Init => CountInv
  <2> SUFFICES ASSUME Init
               PROVE  CountInv
    OBVIOUS
  <2>1. TypeOK
    BY EmptySeq DEF Init, TypeOK
  <2> QED
    BY <2>1, FS_EmptySet DEF Init, CountInv, EveryoneIsCounted, ReadyClientsHavePlayers
<1>2. CountInv /\ TypeOK' /\ [Next]_vars => CountInv'
  <2> SUFFICES ASSUME CountInv, TypeOK', [Next]_vars
               PROVE  /\ EveryoneIsCounted'
                      /\ ReadyClientsHavePlayers'
                      /\ (player_count_of_all_clients <= MaxPlayers)'
    BY DEF CountInv
  <2> DEFINE Goal == /\ EveryoneIsCounted'
                     /\ ReadyClientsHavePlayers'
                     /\ (player_count_of_all_clients <= MaxPlayers)'
  <2>a. TypeOK /\ EveryoneIsCounted /\ ReadyClientsHavePlayers
        /\ player_count_of_all_clients <= MaxPlayers
    BY DEF CountInv
  <2>b. ASSUME UNCHANGED <<network_clients, clients, players, player_count_of_all_clients>>
        PROVE  Goal
    BY <2>a, <2>b DEF EveryoneIsCounted, ReadyClientsHavePlayers
  <2>1. ASSUME NEW c \in Con, Connected(c)
        PROVE  Goal
    BY <2>1, <2>b, TryClientConnectCounts DEF Connected, CountInv, TypeOK
  <2>2. ASSUME NEW c \in Con, PasswordResponse(c)
        PROVE  Goal
    BY <2>2, TryClientConnectCounts DEF PasswordResponse, CountInv, TypeOK
  <2>3. ASSUME NEW c \in Con, Disconnected(c)
        PROVE  Goal
    <3>1. CASE UNCHANGED <<network_clients, clients, players, player_count_of_all_clients>>
      BY <3>1, <2>b
    <3>2. CASE /\ c \in network_clients
               /\ network_clients' = network_clients \ {c}
               /\ player_count_of_all_clients' = player_count_of_all_clients - 1
               /\ UNCHANGED <<clients, players>>
      <4>1. Cardinality(network_clients') = Cardinality(network_clients) - 1
        BY <3>2, <2>a, FiniteSets, FS_RemoveElement
      <4> QED
        BY <3>2, <4>1, <2>a, FiniteSets
        DEF EveryoneIsCounted, ReadyClientsHavePlayers, TypeOK
    <3>3. CASE /\ c \in clients
               /\ clients' = clients \ {c}
               /\ players' = players \ PlayersOf(c)
               /\ player_count_of_all_clients' =
                     player_count_of_all_clients - Cardinality(PlayersOf(c))
               /\ UNCHANGED network_clients
      <4>1. ReadyClientsHavePlayers'
        BY <3>3, <2>a DEF ReadyClientsHavePlayers, PlayersOf
      <4> QED
        <5>1. Cardinality(players') = Cardinality(players) - Cardinality(PlayersOf(c))
          BY <3>3, <2>a, RemovingAClientsPlayers
        <5>2. /\ Cardinality(players) \in Nat
              /\ Cardinality(PlayersOf(c)) \in Nat
              /\ Cardinality(network_clients) \in Nat
          BY <2>a, FiniteSets
        <5> QED
          BY <3>3, <4>1, <5>1, <5>2, <2>a DEF EveryoneIsCounted, TypeOK
    <3> QED
      BY <2>3, <3>1, <3>2, <3>3 DEF Disconnected
  <2>4. CASE PromoteQueued
    <3>1. CASE network_queued_clients = <<>>
      BY <2>4, <3>1, <2>b DEF PromoteQueued
    <3>2. CASE network_queued_clients /= <<>>
      <4>1. Head(network_queued_clients) \in Con
        BY <3>2, <2>a, HeadTailProperties DEF TypeOK
      <4>2. TryClientConnect(Head(network_queued_clients), QueueWithout(1), ToldWithout(1))
        BY <2>4, <3>2 DEF PromoteQueued
      <4> QED
        BY <2>4, <4>1, <4>2, <2>a, TryClientConnectCounts DEF PromoteQueued, TypeOK
    <3> QED
      BY <3>1, <3>2
  <2>5. ASSUME NEW c \in Con, NEW id \in LocalId, NEW others \in SUBSET LocalId,
               Ready(c, id, others)
        PROVE  Goal
    <3> DEFINE free  == MaxPlayers - player_count_of_all_clients
                          - Cardinality(network_clients')
    <3>1. PICK joined \in SUBSET others :
            /\ joined /= {} => Cardinality(joined) <= free
            /\ players' = players \cup ({c} \X ({id} \cup joined))
            /\ player_count_of_all_clients' =
                 player_count_of_all_clients + Cardinality(joined)
      BY <2>5 DEF Ready
    <3> DEFINE added == {c} \X ({id} \cup joined)
    <3>2. /\ c \in network_clients
          /\ id \notin joined
          /\ network_clients' = network_clients \ {c}
          /\ clients' = clients \cup {c}
      BY <2>5 DEF Ready
    <3>3. Cardinality(network_clients') = Cardinality(network_clients) - 1
      BY <3>2, <2>a, FiniteSets, FS_RemoveElement
    <3>4. IsFiniteSet(joined) /\ Cardinality(joined) \in Nat
      BY FS_Subset, FS_CardinalityType
    <3>5. IsFiniteSet({id} \cup joined) /\ Cardinality({id} \cup joined) = Cardinality(joined) + 1
      <4>1. {id} \cup joined = joined \cup {id}
        OBVIOUS
      <4> QED
        BY <4>1, <3>2, <3>4, FS_AddElement
    <3>6. IsFiniteSet(added) /\ Cardinality(added) = Cardinality(joined) + 1
      <4>1. IsFiniteSet({c}) /\ Cardinality({c}) = 1
        BY FS_Singleton
      <4>2. /\ IsFiniteSet(added)
            /\ Cardinality(added) = Cardinality({c}) * Cardinality({id} \cup joined)
        BY <4>1, <3>5, FS_Product
      <4> QED
        BY <4>1, <4>2, <3>4, <3>5
    <3>7. Cardinality(players') <= Cardinality(players) + Cardinality(joined) + 1
      <4>1. Cardinality(players \cup added) =
              Cardinality(players) + Cardinality(added) - Cardinality(players \cap added)
        BY <3>6, <2>a, FiniteSets, FS_Union
      <4>2. Cardinality(players \cap added) \in Nat
        BY <2>a, FiniteSets, FS_Intersection, FS_CardinalityType
      <4> QED
        BY <4>1, <4>2, <3>1, <3>4, <3>6, <2>a, FiniteSets
    <3>8. Cardinality(players') \in Nat
      BY FS_Product, FS_Subset, FS_CardinalityType DEF TypeOK, Player
    <3>9. EveryoneIsCounted'
      BY <3>1, <3>3, <3>4, <3>7, <3>8, <2>a, FiniteSets DEF EveryoneIsCounted, TypeOK
    <3>10. ReadyClientsHavePlayers'
      <4>1. \A p \in added : p[1] = c
        OBVIOUS
      <4>2. <<c, id>> \in added /\ <<c, id>>[1] = c
        OBVIOUS
      <4>3. players' = players \cup added
        BY <3>1
      <4> HIDE DEF added
      <4> QED
        BY <4>1, <4>2, <4>3, <3>2, <2>a DEF ReadyClientsHavePlayers
    <3>11. (player_count_of_all_clients <= MaxPlayers)'
      <4>1. CASE joined = {}
        BY <4>1, <3>1, <2>a, FS_EmptySet DEF TypeOK
      <4>2. CASE joined /= {}
        <5>1. Cardinality(network_clients') \in Nat
          BY <3>2, <2>a, FiniteSets, FS_RemoveElement, FS_CardinalityType
        <5>2. Cardinality(joined) <= MaxPlayers - player_count_of_all_clients
                                       - Cardinality(network_clients')
          BY <4>2, <3>1
        <5> QED
          BY <5>1, <5>2, <3>1, <3>4, <2>a DEF TypeOK
      <4> QED
        BY <4>1, <4>2
    <3> QED
      BY <3>9, <3>10, <3>11
  <2>6. ASSUME NEW c \in Con, NEW id \in LocalId, AddLocalPlayer(c, id)
        PROVE  Goal
    <3>1. /\ players' = players \cup {<<c, id>>}
          /\ player_count_of_all_clients' = player_count_of_all_clients + 1
          /\ UNCHANGED <<network_clients, clients>>
          /\ c \in clients
          /\ player_count_of_all_clients + Cardinality(network_clients) < MaxPlayers
      BY <2>6 DEF AddLocalPlayer, CanAnotherPlayerConnect
    <3>2. Cardinality(players') <= Cardinality(players) + 1 /\ Cardinality(players') \in Nat
      <4>1. IsFiniteSet(players) /\ Cardinality(players) \in Nat
        BY <2>a, FiniteSets
      <4>2. Cardinality(players \cup {<<c, id>>}) =
              IF <<c, id>> \in players THEN Cardinality(players) ELSE Cardinality(players) + 1
        BY <4>1, FS_AddElement
      <4> QED
        BY <3>1, <4>1, <4>2
    <3>3. ReadyClientsHavePlayers'
      BY <3>1, <2>a DEF ReadyClientsHavePlayers
    <3> QED
      BY <3>1, <3>2, <3>3, <2>a, FiniteSets DEF EveryoneIsCounted, TypeOK
  <2>7. ASSUME NEW c \in Con, NEW id \in LocalId, RemLocalPlayer(c, id)
        PROVE  Goal
    <3>1. /\ <<c, id>> \in players
          /\ players' = players \ {<<c, id>>}
          /\ Cardinality(PlayersOf(c)) > 1
          /\ UNCHANGED <<network_clients, clients, player_count_of_all_clients>>
      BY <2>7 DEF RemLocalPlayer
    <3>2. PICK p \in PlayersOf(c) : p /= <<c, id>>
      <4>1. SUFFICES ASSUME PlayersOf(c) \subseteq {<<c, id>>}
                     PROVE  FALSE
        OBVIOUS
      <4>2. PlayersOf(c) = {<<c, id>>}
        BY <3>1, <4>1 DEF PlayersOf
      <4>3. Cardinality(PlayersOf(c)) = 1
        BY <4>2, FS_Singleton
      <4> QED
        BY <3>1, <4>3
    <3>3. ReadyClientsHavePlayers'
      BY <3>1, <3>2, <2>a DEF ReadyClientsHavePlayers, PlayersOf
    <3>4. Cardinality(players') = Cardinality(players) - 1
      BY <3>1, <2>a, FiniteSets, FS_RemoveElement
    <3> QED
      BY <3>1, <3>3, <3>4, <2>a, FiniteSets DEF EveryoneIsCounted, TypeOK
  <2>8. CASE Load
    <3>1. /\ network_clients' = network_clients \cup clients
          /\ clients' = {}
          /\ players' = {}
          /\ UNCHANGED player_count_of_all_clients
      BY <2>8 DEF Load
    <3>2. Cardinality(network_clients \cup clients)
            <= Cardinality(network_clients) + Cardinality(clients)
      <4>1. /\ IsFiniteSet(network_clients) /\ Cardinality(network_clients) \in Nat
            /\ IsFiniteSet(clients) /\ Cardinality(clients) \in Nat
        BY <2>a, FiniteSets
      <4>2. Cardinality(network_clients \cap clients) \in Nat
        BY <4>1, FS_Intersection, FS_CardinalityType
      <4>3. Cardinality(network_clients \cup clients) =
              Cardinality(network_clients) + Cardinality(clients)
                - Cardinality(network_clients \cap clients)
        BY <4>1, FS_Union
      <4> QED
        BY <4>1, <4>2, <4>3
    <3>3. Cardinality(network_clients \cup clients) \in Nat
      BY <2>a, FiniteSets, FS_Union, FS_CardinalityType
    <3>4. Cardinality(players') = 0
      BY <3>1, FS_EmptySet
    <3>5. ReadyClientsHavePlayers'
      BY <3>1 DEF ReadyClientsHavePlayers
    <3> QED
      BY <3>1, <3>2, <3>3, <3>4, <3>5, <2>a, FiniteSets, NoMoreClientsThanPlayers
      DEF EveryoneIsCounted, TypeOK
  <2>9. CASE SetPassword
    BY <2>9, <2>b DEF SetPassword
  <2>10. CASE UNCHANGED vars
    BY <2>10, <2>b DEF vars
  <2> QED
    BY <2>1, <2>2, <2>3, <2>4, <2>5, <2>6, <2>7, <2>8, <2>9, <2>10 DEF Next
<1> QED
  BY <1>1, <1>2, TypeCorrect, PTL DEF Spec

\* The counter never falls below the people it counts.
COROLLARY EveryoneCounted == Spec => []EveryoneIsCounted
<1>1. CountInv => EveryoneIsCounted
  BY DEF CountInv
<1> QED
  BY <1>1, CountInvariant, PTL

\* The server is never overfull.
THEOREM NeverOverfull == Spec => []WithinMaxPlayers
<1>1. CountInv => WithinMaxPlayers
  BY FiniteSets DEF CountInv, TypeOK, EveryoneIsCounted, WithinMaxPlayers
<1> QED
  BY <1>1, CountInvariant, PTL

\* The assertion of AddLocalPlayer cannot fail.
COROLLARY NoClientWithoutPlayer == Spec => []ReadyClientsHavePlayers
<1>1. CountInv => ReadyClientsHavePlayers
  BY DEF CountInv
<1> QED
  BY <1>1, CountInvariant, PTL

----------------------------------------------------------------------------
(***************************************************************************)
(* One map for a connection, one set of players for server and game.       *)
(***************************************************************************)

Elements(q) == {q[i] : i \in DOMAIN q}
OnceEach(q) == \A i, j \in DOMAIN q : q[i] = q[j] => i = j

\* Dropping a place takes its client out of a queue in which it was once.
LEMMA QueueWithoutElements ==
    ASSUME network_queued_clients \in Seq(Con), OnceEach(network_queued_clients),
           NEW i \in DOMAIN network_queued_clients
    PROVE  /\ OnceEach(QueueWithout(i))
           /\ Elements(QueueWithout(i)) \subseteq InQueue \ {network_queued_clients[i]}
<1> DEFINE n == Len(network_queued_clients) - 1
           from(j) == IF j < i THEN j ELSE j + 1
<1>1. n \in Nat /\ DOMAIN network_queued_clients = 1 .. (n + 1) /\ i \in 1 .. (n + 1)
  BY LenProperties
<1>2. DOMAIN QueueWithout(i) = 1 .. n
      /\ \A j \in 1 .. n : QueueWithout(i)[j] = network_queued_clients[from(j)]
  BY DEF QueueWithout
<1>3. \A j \in 1 .. n : from(j) \in DOMAIN network_queued_clients /\ from(j) /= i
  BY <1>1
<1>4. \A j, k \in 1 .. n : from(j) = from(k) => j = k
  BY <1>1
<1> HIDE DEF n, from
<1>5. OnceEach(QueueWithout(i))
  BY <1>2, <1>3, <1>4 DEF OnceEach
<1>6. Elements(QueueWithout(i)) \subseteq InQueue \ {network_queued_clients[i]}
  BY <1>2, <1>3 DEF Elements, InQueue, OnceEach
<1> QED
  BY <1>5, <1>6

LEMMA AppendElements ==
    ASSUME NEW q \in Seq(Con), NEW c \in Con, OnceEach(q), c \notin Elements(q)
    PROVE  OnceEach(Append(q, c)) /\ Elements(Append(q, c)) = Elements(q) \cup {c}
<1>1. /\ Len(q) \in Nat /\ DOMAIN q = 1 .. Len(q)
      /\ DOMAIN Append(q, c) = 1 .. (Len(q) + 1)
      /\ \A i \in 1 .. Len(q) : Append(q, c)[i] = q[i]
      /\ Append(q, c)[Len(q) + 1] = c
  BY AppendProperties, LenProperties
<1>2. \A i \in 1 .. Len(q) : q[i] /= c
  BY <1>1 DEF Elements
<1>3. \A i \in 1 .. (Len(q) + 1) : i \in 1 .. Len(q) \/ i = Len(q) + 1
  BY <1>1
<1>4. 1 .. Len(q) \subseteq 1 .. (Len(q) + 1) /\ Len(q) + 1 \in 1 .. (Len(q) + 1)
  BY <1>1
<1>5. OnceEach(Append(q, c))
  BY <1>1, <1>2, <1>3 DEF OnceEach
<1>6. Elements(Append(q, c)) = Elements(q) \cup {c}
  BY <1>1, <1>3, <1>4 DEF Elements
<1> QED
  BY <1>5, <1>6

\* A client that is in no map gets into one.
LEMMA TryClientConnectOneMap ==
    ASSUME TypeOK, OneMapPerConnection,
           NEW c \in Con, NEW queue \in Seq(Con), NEW sent,
           OnceEach(queue), Elements(queue) \subseteq InQueue,
           c \notin Elements(queue) \cup network_clients \cup clients,
           c \notin password_clients',
           password_clients' \subseteq password_clients, clients' = clients,
           TryClientConnect(c, queue, sent)
    PROVE  OneMapPerConnection'
<1>1. InQueue' = Elements(network_queued_clients')
  BY DEF InQueue, Elements
<1>2. CASE CanAnotherPlayerConnect
  <2>1. network_clients' = network_clients \cup {c} /\ network_queued_clients' = queue
    BY <1>2 DEF TryClientConnect
  <2> QED
    BY <1>1, <2>1 DEF OneMapPerConnection, OnceEach
<1>3. CASE ~CanAnotherPlayerConnect
  <2>1. network_clients' = network_clients /\ network_queued_clients' = Append(queue, c)
    BY <1>3 DEF TryClientConnect
  <2>2. OnceEach(network_queued_clients') /\ InQueue' = Elements(queue) \cup {c}
    BY <1>1, <2>1, AppendElements
  <2> QED
    BY <2>1, <2>2 DEF OneMapPerConnection, OnceEach
<1> QED
  BY <1>2, <1>3

\* No connection is in two maps or twice in the queue, in whatever order connections come,
\* wait, are promoted and go back to loading: client_disconnect, which looks in one map after
\* the other, finds all there is of a connection.
THEOREM OneMap == Spec => []OneMapPerConnection
<1>1. Init => OneMapPerConnection
  BY DEF Init, OneMapPerConnection, InQueue
<1>2. TypeOK /\ OneMapPerConnection /\ [Next]_vars => OneMapPerConnection'
  <2> SUFFICES ASSUME TypeOK, OneMapPerConnection, [Next]_vars
               PROVE  OneMapPerConnection'
    OBVIOUS
  <2>q. /\ network_queued_clients \in Seq(Con) /\ OnceEach(network_queued_clients)
        /\ Elements(network_queued_clients) = InQueue
    BY DEF TypeOK, OneMapPerConnection, OnceEach, Elements, InQueue
  <2>s. ASSUME network_queued_clients' = network_queued_clients PROVE InQueue' = InQueue
    BY <2>s DEF InQueue
  <2>1. ASSUME NEW c \in Con, Connected(c)
        PROVE  OneMapPerConnection'
    <3>1. c \notin Known /\ UNCHANGED clients
      BY <2>1 DEF Connected
    <3>2. CASE passworded
      <4>1. password_clients' = password_clients \cup {c}
            /\ UNCHANGED <<network_queued_clients, network_clients>>
        BY <2>1, <3>2 DEF Connected
      <4> QED
        BY <2>s, <3>1, <4>1 DEF OneMapPerConnection, Known
    <3>3. CASE ~passworded
      <4>1. TryClientConnect(c, network_queued_clients, told) /\ UNCHANGED password_clients
        BY <2>1, <3>3 DEF Connected
      <4> QED
        BY <2>q, <3>1, <4>1, TryClientConnectOneMap DEF Known
    <3> QED
      BY <3>2, <3>3
  <2>2. ASSUME NEW c \in Con, PasswordResponse(c)
        PROVE  OneMapPerConnection'
    <3>1. /\ c \in password_clients /\ password_clients' = password_clients \ {c}
          /\ TryClientConnect(c, network_queued_clients, told) /\ UNCHANGED clients
      BY <2>2 DEF PasswordResponse
    <3>2. c \notin InQueue \cup network_clients \cup clients
      BY <3>1 DEF OneMapPerConnection
    <3> QED
      BY <2>q, <3>1, <3>2, TryClientConnectOneMap
  <2>3. ASSUME NEW c \in Con, Disconnected(c)
        PROVE  OneMapPerConnection'
    <3>1. CASE c \in InQueue /\ network_queued_clients' = QueueWithout(Place(c))
                             /\ UNCHANGED <<password_clients, network_clients, clients>>
      <4>1. Place(c) \in DOMAIN network_queued_clients
        BY <3>1, PlaceInQueue
      <4>2. OnceEach(network_queued_clients') /\ Elements(network_queued_clients') \subseteq InQueue
        BY <2>q, <3>1, <4>1, QueueWithoutElements
      <4> QED
        BY <3>1, <4>2 DEF OneMapPerConnection, OnceEach, Elements, InQueue
    <3>2. CASE /\ password_clients' \subseteq password_clients
               /\ network_clients' \subseteq network_clients /\ clients' \subseteq clients
               /\ UNCHANGED network_queued_clients
      BY <2>s, <3>2 DEF OneMapPerConnection
    <3> QED
      BY <2>3, <3>1, <3>2 DEF Disconnected
  <2>4. CASE PromoteQueued
    <3>1. CASE network_queued_clients = <<>>
      <4>1. UNCHANGED <<password_clients, network_queued_clients, network_clients, clients>>
        BY <2>4, <3>1 DEF PromoteQueued
      <4> QED
        BY <2>s, <4>1 DEF OneMapPerConnection
    <3>2. CASE network_queued_clients /= <<>>
      <4> DEFINE c == Head(network_queued_clients)
      <4>1. 1 \in DOMAIN network_queued_clients /\ c \in Con /\ c = network_queued_clients[1]
        BY <2>q, <3>2, HeadTailProperties, LenProperties, EmptySeq
      <4>2. /\ TryClientConnect(c, QueueWithout(1), ToldWithout(1))
            /\ UNCHANGED <<password_clients, clients>>
        BY <2>4, <3>2 DEF PromoteQueued
      <4>3. /\ QueueWithout(1) \in Seq(Con) /\ OnceEach(QueueWithout(1))
            /\ Elements(QueueWithout(1)) \subseteq InQueue \ {c}
        BY <2>q, <4>1, QueueWithoutType, QueueWithoutElements
      <4>4. c \in InQueue
        BY <4>1 DEF InQueue
      <4>5. c \notin password_clients \cup network_clients \cup clients
        BY <4>4 DEF OneMapPerConnection
      <4> HIDE DEF c
      <4> QED
        BY <4>1, <4>2, <4>3, <4>5, TryClientConnectOneMap
    <3> QED
      BY <3>1, <3>2
  <2>5. ASSUME NEW c \in Con, NEW id \in LocalId, NEW others \in SUBSET LocalId,
               Ready(c, id, others)
        PROVE  OneMapPerConnection'
    <3>1. /\ c \in network_clients /\ network_clients' = network_clients \ {c}
          /\ clients' = clients \cup {c}
          /\ UNCHANGED <<password_clients, network_queued_clients>>
      BY <2>5 DEF Ready
    <3> QED
      BY <2>s, <3>1 DEF OneMapPerConnection
  <2>6. CASE Load
    <3>1. /\ clients' = {} /\ network_clients' = network_clients \cup clients
          /\ UNCHANGED <<password_clients, network_queued_clients>>
      BY <2>6 DEF Load
    <3> QED
      BY <2>s, <3>1 DEF OneMapPerConnection
  <2>7. CASE UNCHANGED <<password_clients, network_queued_clients, network_clients, clients>>
    BY <2>s, <2>7 DEF OneMapPerConnection
  <2> QED
    BY <2>1, <2>2, <2>3, <2>4, <2>5, <2>6, <2>7
    DEF Next, AddLocalPlayer, RemLocalPlayer, SetPassword, vars
<1> QED
  BY <1>1, <1>2, TypeCorrect, PTL DEF Spec

\* The game and the clients agree on the players: what one event does to the clients' maps it
\* does to the game, a reload included.
THEOREM GameAgrees == Spec => []GameKnowsThePlayers
<1>1. Init => GameKnowsThePlayers
  BY DEF Init, GameKnowsThePlayers
<1>2. GameKnowsThePlayers /\ [Next]_vars => GameKnowsThePlayers'
  BY DEF GameKnowsThePlayers, Next, vars, Connected, PasswordResponse, Disconnected,
         PromoteQueued, Ready, AddLocalPlayer, RemLocalPlayer, Load, SetPassword
<1> QED
  BY <1>1, <1>2, PTL DEF Spec

\* A client leaves the queue for the game only from its front, whatever leaves the queue
\* behind it and however many slots are handed out.
THEOREM FrontFirst == Spec => AdmittedFromTheFront
<1> DEFINE A == \A c \in InQueue : c \in network_clients' => c = Head(network_queued_clients)
<1>1. OneMapPerConnection /\ [Next]_vars => [A]_vars
  <2> SUFFICES ASSUME OneMapPerConnection, [Next]_vars, NEW c \in InQueue, c \in network_clients'
               PROVE  c = Head(network_queued_clients)
    OBVIOUS
  <2>1. c \notin network_clients /\ c \notin clients /\ c \notin password_clients
    BY DEF OneMapPerConnection
  <2>2. ASSUME NEW d, NEW queue, NEW sent, TryClientConnect(d, queue, sent)
        PROVE  c = d
    BY <2>1, <2>2 DEF TryClientConnect
  <2>3. ASSUME NEW d \in Con, Connected(d) PROVE FALSE
    BY <2>1, <2>2, <2>3 DEF Connected, Known
  <2>4. ASSUME NEW d \in Con, PasswordResponse(d) PROVE FALSE
    BY <2>1, <2>2, <2>4 DEF PasswordResponse
  <2>5. ASSUME NEW d \in Con, Disconnected(d) PROVE FALSE
    BY <2>1, <2>5 DEF Disconnected
  <2>6. CASE PromoteQueued
    BY <2>1, <2>2, <2>6 DEF PromoteQueued
  <2>7. ASSUME \/ \E d \in Con, id \in LocalId, others \in SUBSET LocalId : Ready(d, id, others)
               \/ \E d \in Con, id \in LocalId : AddLocalPlayer(d, id) \/ RemLocalPlayer(d, id)
               \/ Load \/ SetPassword \/ UNCHANGED vars
        PROVE  FALSE
    BY <2>1, <2>7 DEF Ready, AddLocalPlayer, RemLocalPlayer, Load, SetPassword, vars
  <2> QED
    BY <2>3, <2>4, <2>5, <2>6, <2>7 DEF Next
<1> QED
  BY <1>1, OneMap, PTL DEF Spec, AdmittedFromTheFront

\* max_players_per_client holds for every client, whether its players came with Ready or one
\* by one: a client that sends Ready has no players yet, because it is in one map only.
THEOREM FewPerClient == Spec => []WithinMaxPerClient
<1>1. Init => WithinMaxPerClient
  <2> SUFFICES ASSUME Init PROVE WithinMaxPerClient
    OBVIOUS
  <2>1. \A c : PlayersOf(c) = {}
    BY DEF Init, PlayersOf
  <2> QED
    BY <2>1, FS_EmptySet DEF WithinMaxPerClient
<1>2. CountInv /\ OneMapPerConnection /\ WithinMaxPerClient /\ [Next]_vars => WithinMaxPerClient'
  <2> SUFFICES ASSUME CountInv, OneMapPerConnection, WithinMaxPerClient, [Next]_vars,
                      NEW d \in Con
               PROVE  Cardinality(PlayersOf(d)') <= MaxPlayersPerClient
    BY DEF WithinMaxPerClient
  <2>t. TypeOK /\ ReadyClientsHavePlayers
    BY DEF CountInv
  <2>p. /\ IsFiniteSet(PlayersOf(d)) /\ Cardinality(PlayersOf(d)) \in Nat
        /\ Cardinality(PlayersOf(d)) <= MaxPlayersPerClient
    BY <2>t, FiniteSets DEF WithinMaxPerClient
  <2>1. ASSUME NEW S \in SUBSET PlayersOf(d), PlayersOf(d)' = S
        PROVE  Cardinality(PlayersOf(d)') <= MaxPlayersPerClient
    <3>1. IsFiniteSet(S) /\ Cardinality(S) <= Cardinality(PlayersOf(d))
      BY <2>p, FS_Subset
    <3> QED
      BY <2>1, <2>p, <3>1, FS_CardinalityType
  <2>2. CASE players' \subseteq players
    BY <2>1, <2>2 DEF PlayersOf
  <2>3. ASSUME NEW c \in Con, NEW id \in LocalId, NEW others \in SUBSET LocalId,
               Ready(c, id, others)
        PROVE  Cardinality(PlayersOf(d)') <= MaxPlayersPerClient
    <3>1. PICK joined \in SUBSET others :
            /\ joined /= {} => Cardinality(joined) <= MaxPlayersPerClient - 1
            /\ players' = players \cup ({c} \X ({id} \cup joined))
      BY <2>3 DEF Ready
    <3>2. c \in network_clients /\ id \notin joined
      BY <2>3 DEF Ready
    <3>3. CASE c = d
      <4>1. PlayersOf(d) = {}
        BY <2>t, <3>2, <3>3 DEF OneMapPerConnection, ReadyClientsHavePlayers, PlayersOf
      <4>2. PlayersOf(d)' = {c} \X ({id} \cup joined)
        BY <3>1, <3>3, <4>1 DEF PlayersOf
      <4>3. IsFiniteSet(joined) /\ Cardinality(joined) \in Nat
        BY FS_Subset, FS_CardinalityType
      <4>4. {id} \cup joined = joined \cup {id}
        OBVIOUS
      <4>5. IsFiniteSet({id} \cup joined) /\ Cardinality({id} \cup joined) = Cardinality(joined) + 1
        BY <3>2, <4>3, <4>4, FS_AddElement
      <4>6. IsFiniteSet({c}) /\ Cardinality({c}) = 1
        BY FS_Singleton
      <4>7. Cardinality({c} \X ({id} \cup joined)) = Cardinality({c}) * Cardinality({id} \cup joined)
        BY <4>5, <4>6, FS_Product
      <4>8. Cardinality(joined) + 1 <= MaxPlayersPerClient
        <5>1. CASE joined = {}
          BY <5>1, FS_EmptySet
        <5>2. CASE joined /= {}
          BY <3>1, <4>3, <5>2
        <5> QED
          BY <5>1, <5>2
      <4> QED
        BY <4>2, <4>3, <4>5, <4>6, <4>7, <4>8
    <3>4. CASE c /= d
      <4>1. PlayersOf(d)' = PlayersOf(d)
        BY <3>1, <3>4 DEF PlayersOf
      <4> QED
        BY <2>1, <4>1
    <3> QED
      BY <3>3, <3>4
  <2>4. ASSUME NEW c \in Con, NEW id \in LocalId, AddLocalPlayer(c, id)
        PROVE  Cardinality(PlayersOf(d)') <= MaxPlayersPerClient
    <3>1. players' = players \cup {<<c, id>>} /\ Cardinality(PlayersOf(c)) < MaxPlayersPerClient
      BY <2>4 DEF AddLocalPlayer, CanClientJoinAnotherPlayer
    <3>2. CASE c = d
      <4>1. PlayersOf(d)' = PlayersOf(d) \cup {<<c, id>>}
        BY <3>1, <3>2 DEF PlayersOf
      <4>2. Cardinality(PlayersOf(d) \cup {<<c, id>>}) =
              IF <<c, id>> \in PlayersOf(d) THEN Cardinality(PlayersOf(d))
                                            ELSE Cardinality(PlayersOf(d)) + 1
        BY <2>p, FS_AddElement
      <4> QED
        BY <2>p, <3>1, <3>2, <4>1, <4>2
    <3>3. CASE c /= d
      <4>1. PlayersOf(d)' = PlayersOf(d)
        BY <3>1, <3>3 DEF PlayersOf
      <4> QED
        BY <2>1, <4>1
    <3> QED
      BY <3>2, <3>3
  <2> QED
    BY <2>2, <2>3, <2>4
    DEF Next, vars, Connected, PasswordResponse, Disconnected, PromoteQueued, RemLocalPlayer,
        Load, SetPassword
<1> QED
  BY <1>1, <1>2, CountInvariant, OneMap, PTL DEF Spec

=============================================================================
