--------------------------- MODULE ServerClients ---------------------------
(***************************************************************************)
(* Admission of clients to the game server                                 *)
(* (src/game/game-server/src/server.rs and client.rs).                     *)
(*                                                                         *)
(* A connection is in exactly one of four maps: password_clients (asked    *)
(* for the password), network_queued_clients (waiting for a slot, in       *)
(* order), network_clients (admitted, loading the map) and clients (ready, *)
(* with at least one player).  player_count_of_all_clients is the counter  *)
(* the admission test reads; a connecting client holds one unit of it, and *)
(* a ready client one per player.                                          *)
(*                                                                         *)
(* The server's main loop handles one event at a time, so one action is    *)
(* one event.  The loop of client_disconnect that hands freed slots to the *)
(* queue runs one iteration per PromoteQueued step; slots_to_hand_out is   *)
(* its loop counter, and no other event is handled while it is not zero.   *)
(***************************************************************************)
EXTENDS Integers, Sequences, FiniteSets

CONSTANTS
    Con,                  \* connection ids
    LocalId,              \* the ids a client gives its local players
    MaxPlayers,           \* sv.max_players
    MaxPlayersPerClient   \* sv.max_players_per_client

ASSUME ConAssumption == IsFiniteSet(Con)
ASSUME LocalIdAssumption == IsFiniteSet(LocalId)
\* conf_valid(range(min = 1, ...)) on both settings
ASSUME MaxPlayersAssumption == MaxPlayers \in Nat \ {0}
ASSUME MaxPerClientAssumption == MaxPlayersPerClient \in Nat \ {0}

VARIABLES
    passworded,                   \* sv.password is not empty
    password_clients,
    network_queued_clients,       \* a sequence, the front first
    network_clients,
    clients,                      \* connections that are ready
    players,                      \* <<connection, local id>> of every ServerClientPlayer
    game_players,                 \* the same pairs, as game_server.players knows them
    player_count_of_all_clients,
    slots_to_hand_out,            \* iterations client_disconnect has left
    told                          \* the position last sent to a queued client

vars == <<passworded, password_clients, network_queued_clients, network_clients,
          clients, players, game_players, player_count_of_all_clients,
          slots_to_hand_out, told>>

Player == Con \X LocalId

PlayersOf(c) == {p \in players : p[1] = c}

InQueue == {network_queued_clients[i] : i \in DOMAIN network_queued_clients}

Known == password_clients \cup InQueue \cup network_clients \cup clients

Idle == slots_to_hand_out = 0

\* The place of a queued client, 1 for the front.
Place(c) == CHOOSE i \in DOMAIN network_queued_clients : network_queued_clients[i] = c

----------------------------------------------------------------------------

Init ==
    /\ passworded \in BOOLEAN
    /\ password_clients = {}
    /\ network_queued_clients = <<>>
    /\ network_clients = {}
    /\ clients = {}
    /\ players = {}
    /\ game_players = {}
    /\ player_count_of_all_clients = 0
    /\ slots_to_hand_out = 0
    /\ told = [c \in Con |-> 0]

\* Mutant: one client too many.
CanAnotherPlayerConnect_AtTheLimit ==
    player_count_of_all_clients + Cardinality(network_clients) <= MaxPlayers

CanAnotherPlayerConnect ==
    player_count_of_all_clients + Cardinality(network_clients) < MaxPlayers

CanClientJoinAnotherPlayer(c) == Cardinality(PlayersOf(c)) < MaxPlayersPerClient

CanClientPlayerIdJoin(c, id) == <<c, id>> \notin players

\* Admit c, or put it at the back of the queue; `queue` is the queue without c
\* and `sent` the positions sent so far.
TryClientConnect(c, queue, sent) ==
    \/ /\ CanAnotherPlayerConnect
       /\ network_clients' = network_clients \cup {c}
       /\ player_count_of_all_clients' = player_count_of_all_clients + 1
       /\ network_queued_clients' = queue
       /\ told' = sent
    \/ /\ ~CanAnotherPlayerConnect
       /\ network_queued_clients' = Append(queue, c)
       /\ told' = [sent EXCEPT ![c] = Len(queue) + 1]
       /\ UNCHANGED <<network_clients, player_count_of_all_clients>>

\* Mutant: the client that tries to connect again is left in the queue.
QueueWithout_Kept(i) == network_queued_clients

\* Mutant: the positions are enumerated from one too low.
ToldWithout_Lower(i) ==
    [c \in Con |-> IF c \in InQueue /\ Place(c) > i THEN Place(c) - i - 2 ELSE told[c]]

\* The queue without the client at place i, and the positions sent to those
\* behind it: the code enumerates them from zero.
QueueWithout(i) ==
    [j \in 1..(Len(network_queued_clients) - 1) |->
        network_queued_clients[IF j < i THEN j ELSE j + 1]]

ToldWithout(i) ==
    [c \in Con |->
        IF c = network_queued_clients[i] THEN 0
        ELSE IF c \in InQueue /\ Place(c) > i THEN Place(c) - i - 1
        ELSE told[c]]

----------------------------------------------------------------------------

\* NetworkEvent::Connected
Connected(c) ==
    /\ Idle
    /\ c \notin Known
    /\ \/ /\ ~passworded
          /\ TryClientConnect(c, network_queued_clients, told)
          /\ UNCHANGED password_clients
       \/ /\ passworded
          /\ password_clients' = password_clients \cup {c}
          /\ UNCHANGED <<network_queued_clients, network_clients,
                         player_count_of_all_clients, told>>
    /\ UNCHANGED <<passworded, clients, players, game_players, slots_to_hand_out>>

\* A right password lets a waiting client in; a wrong one only asks the network
\* to kick the connection, which comes back as Disconnected.
PasswordResponse(c) ==
    /\ Idle
    /\ c \in password_clients
    /\ password_clients' = password_clients \ {c}
    /\ TryClientConnect(c, network_queued_clients, told)
    /\ UNCHANGED <<passworded, clients, players, game_players, slots_to_hand_out>>

\* NetworkEvent::Disconnected: client_disconnect, then player_drop for every
\* player the client had.
Disconnected(c) ==
    /\ Idle
    /\ \/ /\ c \in password_clients
          /\ password_clients' = password_clients \ {c}
          /\ UNCHANGED <<network_queued_clients, network_clients, clients, players,
                         game_players, player_count_of_all_clients,
                         slots_to_hand_out, told>>
       \/ /\ c \in InQueue
          /\ network_queued_clients' = QueueWithout(Place(c))
          /\ told' = ToldWithout(Place(c))
          /\ UNCHANGED <<password_clients, network_clients, clients, players,
                         game_players, player_count_of_all_clients,
                         slots_to_hand_out>>
       \/ /\ c \in network_clients
          /\ network_clients' = network_clients \ {c}
          /\ player_count_of_all_clients' = player_count_of_all_clients - 1
          /\ slots_to_hand_out' = 1
          /\ UNCHANGED <<password_clients, network_queued_clients, clients, players,
                         game_players, told>>
       \/ /\ c \in clients
          /\ clients' = clients \ {c}
          /\ players' = players \ PlayersOf(c)
          /\ game_players' = game_players \ PlayersOf(c)
          /\ player_count_of_all_clients' =
                player_count_of_all_clients - Cardinality(PlayersOf(c))
          /\ slots_to_hand_out' = Cardinality(PlayersOf(c))
          /\ UNCHANGED <<password_clients, network_queued_clients, network_clients,
                         told>>
    /\ UNCHANGED passworded

\* Mutant: the slot goes to the back of the queue.
PromoteQueued_Last ==
    /\ slots_to_hand_out > 0
    /\ slots_to_hand_out' = slots_to_hand_out - 1
    /\ LET n == Len(network_queued_clients)
       IN  \/ /\ n = 0
              /\ UNCHANGED <<network_queued_clients, network_clients,
                             player_count_of_all_clients, told>>
           \/ /\ n > 0
              /\ TryClientConnect(network_queued_clients[n], QueueWithout(n), ToldWithout(n))
    /\ UNCHANGED <<passworded, password_clients, clients, players, game_players>>

\* One iteration of the loop in client_disconnect: the front of the queue is
\* dropped from it and tries to connect again, which may put it at the back.
PromoteQueued ==
    /\ slots_to_hand_out > 0
    /\ slots_to_hand_out' = slots_to_hand_out - 1
    /\ \/ /\ network_queued_clients = <<>>
          /\ UNCHANGED <<network_queued_clients, network_clients,
                         player_count_of_all_clients, told>>
       \/ /\ network_queued_clients /= <<>>
          /\ TryClientConnect(Head(network_queued_clients), QueueWithout(1), ToldWithout(1))
    /\ UNCHANGED <<passworded, password_clients, clients, players, game_players>>

\* ClientToServerMessage::Ready: the first player always joins; of the others,
\* offered in any order, as many as the limits allow, none with an id in use.
Ready(c, first, others) ==
    /\ Idle
    /\ c \in network_clients
    /\ first \notin others
    /\ network_clients' = network_clients \ {c}
    /\ clients' = clients \cup {c}
    /\ \E joined \in SUBSET others :
          LET free  == MaxPlayers - player_count_of_all_clients
                         - Cardinality(network_clients')
              limit == MaxPlayersPerClient - 1
              added == {c} \X ({first} \cup joined)
          IN  /\ joined /= {} => /\ Cardinality(joined) <= free
                                /\ Cardinality(joined) <= limit
              /\ joined /= others => \/ Cardinality(joined) >= free
                                    \/ Cardinality(joined) >= limit
              /\ players' = players \cup added
              /\ game_players' = game_players \cup added
              /\ player_count_of_all_clients' =
                    player_count_of_all_clients + Cardinality(joined)
    /\ UNCHANGED <<passworded, password_clients, network_queued_clients,
                   slots_to_hand_out, told>>

\* Mutant: the player is not counted.
AddLocalPlayer_Uncounted(c, id) ==
    /\ Idle
    /\ CanAnotherPlayerConnect
    /\ c \in clients
    /\ CanClientJoinAnotherPlayer(c)
    /\ CanClientPlayerIdJoin(c, id)
    /\ players' = players \cup {<<c, id>>}
    /\ game_players' = game_players \cup {<<c, id>>}
    /\ UNCHANGED <<passworded, password_clients, network_queued_clients, network_clients,
                   clients, player_count_of_all_clients, slots_to_hand_out, told>>

\* ClientToServerMessage::AddLocalPlayer, the case that succeeds.
AddLocalPlayer(c, id) ==
    /\ Idle
    /\ CanAnotherPlayerConnect
    /\ c \in clients
    /\ CanClientJoinAnotherPlayer(c)
    /\ CanClientPlayerIdJoin(c, id)
    /\ players' = players \cup {<<c, id>>}
    /\ game_players' = game_players \cup {<<c, id>>}
    /\ player_count_of_all_clients' = player_count_of_all_clients + 1
    /\ UNCHANGED <<passworded, password_clients, network_queued_clients,
                   network_clients, clients, slots_to_hand_out, told>>

\* Mutant: the last player may leave, too.
RemLocalPlayer_Last(c, id) ==
    /\ Idle
    /\ <<c, id>> \in players
    /\ players' = players \ {<<c, id>>}
    /\ game_players' = game_players \ {<<c, id>>}
    /\ UNCHANGED <<passworded, password_clients, network_queued_clients,
                   network_clients, clients, player_count_of_all_clients,
                   slots_to_hand_out, told>>

\* ClientToServerPlayerMessage::RemLocalPlayer: the last player stays, and the
\* counter is left alone.
RemLocalPlayer(c, id) ==
    /\ Idle
    /\ <<c, id>> \in players
    /\ Cardinality(PlayersOf(c)) > 1
    /\ players' = players \ {<<c, id>>}
    /\ game_players' = game_players \ {<<c, id>>}
    /\ UNCHANGED <<passworded, password_clients, network_queued_clients,
                   network_clients, clients, player_count_of_all_clients,
                   slots_to_hand_out, told>>

\* Mutant: the clients keep their players over a map change.
Load_KeepsPlayers ==
    /\ Idle
    /\ clients' = {}
    /\ network_clients' = network_clients \cup clients
    /\ game_players' = {}
    /\ UNCHANGED <<passworded, password_clients, network_queued_clients, players,
                   player_count_of_all_clients, slots_to_hand_out, told>>

\* load_impl, after a map vote or when the mod changed on disk: a new game
\* without players, every client back to loading.  The counter is left
\* alone.  When building the new game fails, nothing changes.
Load ==
    /\ Idle
    /\ clients' = {}
    /\ network_clients' = network_clients \cup clients
    /\ players' = {}
    /\ game_players' = {}
    /\ UNCHANGED <<passworded, password_clients, network_queued_clients,
                   player_count_of_all_clients, slots_to_hand_out, told>>

\* The rcon variable sv.password is set or emptied.
SetPassword ==
    /\ Idle
    /\ passworded' = ~passworded
    /\ UNCHANGED <<password_clients, network_queued_clients, network_clients, clients,
                   players, game_players, player_count_of_all_clients,
                   slots_to_hand_out, told>>

Next ==
    \/ \E c \in Con : \/ Connected(c)
                     \/ PasswordResponse(c)
                     \/ Disconnected(c)
    \/ PromoteQueued
    \/ \E c \in Con, id \in LocalId, others \in SUBSET LocalId : Ready(c, id, others)
    \/ \E c \in Con, id \in LocalId : AddLocalPlayer(c, id) \/ RemLocalPlayer(c, id)
    \/ Load
    \/ SetPassword

Spec == Init /\ [][Next]_vars

----------------------------------------------------------------------------
(***************************************************************************)
(* Properties                                                              *)
(***************************************************************************)

TypeOK ==
    /\ passworded \in BOOLEAN
    /\ password_clients \in SUBSET Con
    /\ network_queued_clients \in Seq(Con)
    /\ network_clients \in SUBSET Con
    /\ clients \in SUBSET Con
    /\ players \in SUBSET Player
    /\ game_players \in SUBSET Player
    /\ player_count_of_all_clients \in Int
    /\ slots_to_hand_out \in Nat
    /\ told \in [Con -> Nat]

\* A connection is in at most one of the four maps, and at most once in the
\* queue: client_disconnect looks in them one after the other and stops at the
\* first, so a second entry would outlive the connection.
OneMapPerConnection ==
    /\ password_clients \cap InQueue = {}
    /\ password_clients \cap network_clients = {}
    /\ password_clients \cap clients = {}
    /\ InQueue \cap network_clients = {}
    /\ InQueue \cap clients = {}
    /\ network_clients \cap clients = {}
    /\ \A i, j \in DOMAIN network_queued_clients :
          network_queued_clients[i] = network_queued_clients[j] => i = j

\* The counter never falls below the clients that are loading plus the players
\* in the game, over joins, leaves and map changes: the subtractions of
\* client_disconnect, on a usize, cannot wrap.
EveryoneIsCounted ==
    Cardinality(network_clients) + Cardinality(players) <= player_count_of_all_clients

\* max_players bounds the players and the clients still loading, although a
\* client is admitted before it says how many players it brings.
WithinMaxPlayers ==
    Cardinality(network_clients) + Cardinality(players) <= MaxPlayers

\* A client that is ready has a player, and only ready clients have players:
\* the assertion of AddLocalPlayer ("client had no players, even tho it was
\* connected. this is a server bug").
ReadyClientsHavePlayers == clients = {p[1] : p \in players}

\* The game knows exactly the players of the clients, although the two are kept
\* by different structs and a map change replaces one of them.
GameKnowsThePlayers == game_players = players

\* A client has at most max_players_per_client players.
WithinMaxPerClient == \A c \in Con : Cardinality(PlayersOf(c)) <= MaxPlayersPerClient

\* Whoever leaves the queue without having disconnected was its front: a slot
\* is never given to a client further back.
AdmittedFromTheFront ==
    [][\A c \in InQueue : c \in network_clients' => c = Head(network_queued_clients)]_vars

\* max_players is said to count the players "concurrently playing or
\* spectating" (config.rs:639): with nobody connected none is counted.
EmptyServerCountsNobody == Known = {} => player_count_of_all_clients = 0

=============================================================================
