---------------------------- MODULE SnapshotSync ----------------------------
(***************************************************************************)
(* The snapshots a game server sends to one client, as differences to one  *)
(* the client has confirmed (src/game/game-server/src/server.rs and        *)
(* src/src/client/game).                                                   *)
(*                                                                         *)
(* The server keeps the snapshots it may still learn are confirmed, at     *)
(* most ServerStore, and the latest confirmed one, against which it sends  *)
(* the next; the client keeps the last ClientStore it decoded.  Snapshots  *)
(* and confirmations get lost and overtake each other.                     *)
(*                                                                         *)
(* A reload of the server (a map change) starts a new game: the client is  *)
(* put back to loading, is told by a Load message, forgets its snapshots   *)
(* and reports ready when it has loaded.  Snapshot ids start again at 0.   *)
(* Load and Ready are reliable but not ordered with anything.              *)
(*                                                                         *)
(* What a snapshot holds is abstracted to the game it was taken in: with   *)
(* its id that identifies it.  Patching a snapshot that is not the one the *)
(* difference was taken to gives Garbage, or fails.                        *)
(***************************************************************************)
EXTENDS Integers, FiniteSets

CONSTANTS
    ServerStore,        \* 10: see as_diff in Server::run
    ClientStore,        \* 50: see snap_storage in ActiveGame::on_msg
    TicksPerSnapshot,   \* sv.ticks_per_snapshot
    MaxSnapId,          \* the bound on the snapshot ids of a game
    MaxGame,            \* the bound on the reloads
    Lossy,              \* whether snapshots and confirmations get lost
    Stale               \* whether messages outlive a change of the game

ASSUME StoreAssumption == ServerStore \in Nat \ {0} /\ ClientStore \in Nat \ {0}
ASSUME TicksAssumption == TicksPerSnapshot \in Nat \ {0}
ASSUME BoundsAssumption == MaxSnapId \in Nat /\ MaxGame \in Nat
ASSUME NetworkAssumption == Lossy \in BOOLEAN /\ Stale \in BOOLEAN

VARIABLES
    game,                 \* the server's game, counted from 0
    ready,                \* the client is in clients, not in network_clients
    snap_id,              \* the next snapshot's id
    latest_client_snap,   \* the snapshot differences are taken to
    client_snap_storage,  \* the snapshots that may still be confirmed
    phase,                \* Loading, or WaitingForFirstSnapshot and Active
    loaded,               \* the game the client loads or plays
    snap_storage,         \* the client's snapshots: what each id holds
    handled_snap_id,      \* the newest snapshot the client handled
    snap_acks,            \* confirmations not yet sent
    snapshots, inputs,    \* messages under way: Snapshot and Inputs
    loads, readies        \* messages under way: Load and Ready

serverVars == <<game, ready, snap_id, latest_client_snap, client_snap_storage>>
clientVars == <<phase, loaded, snap_storage, handled_snap_id, snap_acks>>
netVars == <<snapshots, inputs, loads, readies>>
vars == <<serverVars, clientVars, netVars>>

None == -1
SnapId == 0..MaxSnapId
Game == 0..MaxGame
Garbage == -2

\* A confirmation is in the order of the ids: a set holds as much.
Snapshot == [game : Game, id : SnapId, diff_id : SnapId \cup {None}, as_diff : BOOLEAN]
Inputs == [game : Game, snap_ack : SUBSET SnapId]

----------------------------------------------------------------------------

\* The client has the server's info and loads the map.
Init ==
    /\ game = 0 /\ ready = FALSE
    /\ snap_id = 0 /\ latest_client_snap = None /\ client_snap_storage = {}
    /\ phase = "Loading" /\ loaded = 0
    /\ snap_storage = [i \in {} |-> Garbage]
    /\ handled_snap_id = None /\ snap_acks = {}
    /\ snapshots = {} /\ inputs = {} /\ loads = {} /\ readies = {}

----------------------------------------------------------------------------
(***************************************************************************)
(* The server                                                              *)
(***************************************************************************)

\* Mutant: a client that comes back keeps what it confirmed in the last game.
ClientReady_KeepsLatest(g) ==
    /\ g \in readies
    /\ Stale \/ g = game
    /\ readies' = readies \ {g}
    /\ ready' = TRUE
    /\ IF ready
       THEN UNCHANGED <<snap_id, latest_client_snap, client_snap_storage, snapshots>>
       ELSE /\ snap_id' = 1
            /\ UNCHANGED latest_client_snap
            /\ client_snap_storage' = {0}
            /\ snapshots' = snapshots \cup
                  {[game |-> game, id |-> 0, diff_id |-> None, as_diff |-> TRUE]}
    /\ UNCHANGED <<game, clientVars, inputs, loads>>

\* ClientToServerMessage::Ready: the client gets its first player and with it the
\* first snapshot.  A client that is in the game already is told so.
ClientReady(g) ==
    /\ g \in readies
    /\ Stale \/ g = game
    /\ readies' = readies \ {g}
    /\ ready' = TRUE
    /\ IF ready
       THEN UNCHANGED <<snap_id, latest_client_snap, client_snap_storage, snapshots>>
       ELSE /\ snap_id' = 1
            /\ latest_client_snap' = None
            /\ client_snap_storage' = {0}
            /\ snapshots' = snapshots \cup
                  {[game |-> game, id |-> 0, diff_id |-> None, as_diff |-> TRUE]}
    /\ UNCHANGED <<game, clientVars, inputs, loads>>

\* A tick: every TicksPerSnapshot of them the client is sent a snapshot, which is
\* kept for later differences while there is room.
Tick ==
    /\ ready /\ snap_id <= MaxSnapId
    /\ snap_id' = snap_id + 1
    /\ LET as_diff == Cardinality(client_snap_storage) < ServerStore
       IN  IF snap_id' % TicksPerSnapshot = 0
           THEN /\ client_snap_storage' =
                      client_snap_storage \cup (IF as_diff THEN {snap_id} ELSE {})
                /\ snapshots' = snapshots \cup
                      {[game |-> game, id |-> snap_id, diff_id |-> latest_client_snap,
                        as_diff |-> as_diff]}
           ELSE UNCHANGED <<client_snap_storage, snapshots>>
    /\ UNCHANGED <<game, ready, latest_client_snap, clientVars, inputs, loads, readies>>

\* Mutant: older snapshots stay in the storage.
Ack_KeepsOlder(acks) ==
    LET hits == acks \cap client_snap_storage
    IN  /\ \/ hits = {} /\ UNCHANGED latest_client_snap
           \/ \E a \in hits : (\A b \in hits : b <= a) /\ latest_client_snap' = a
        /\ client_snap_storage' = client_snap_storage \ hits

\* Mutant: the newest confirmed snapshot becomes the base, kept or not.
Ack_Unstored(acks) ==
    /\ \E a \in acks : (\A b \in acks : b <= a) /\ latest_client_snap' = a
    /\ client_snap_storage' = {s \in client_snap_storage : \A a \in acks : a < s}

\* client_snap_ack for every confirmation, in their order: the newest that is
\* still kept becomes the base, and what is older than the newest is dropped.
Ack(acks) ==
    LET hits == acks \cap client_snap_storage
    IN  /\ \/ hits = {} /\ UNCHANGED latest_client_snap
           \/ \E a \in hits : (\A b \in hits : b <= a) /\ latest_client_snap' = a
        /\ client_snap_storage' = {s \in client_snap_storage : \A a \in acks : a < s}

ReceiveInputs(m) ==
    /\ m \in inputs
    /\ Stale \/ m.game = game
    /\ inputs' = inputs \ {m}
    /\ IF ready THEN Ack(m.snap_ack) ELSE UNCHANGED <<latest_client_snap, client_snap_storage>>
    /\ UNCHANGED <<game, ready, snap_id, clientVars, snapshots, loads, readies>>

\* load_impl: the client loses its place in the game, and what the server knew
\* about its snapshots.
Reload ==
    /\ game < MaxGame
    /\ game' = game + 1
    /\ ready' = FALSE
    /\ loads' = loads \cup {game'}
    /\ UNCHANGED <<snap_id, latest_client_snap, client_snap_storage, clientVars, snapshots, inputs, readies>>

----------------------------------------------------------------------------
(***************************************************************************)
(* The client                                                              *)
(***************************************************************************)

\* Mutant: the game data outlives the game.
MapLoaded_KeepsData ==
    /\ phase = "Loading"
    /\ phase' = "Playing"
    /\ readies' = readies \cup {loaded}
    /\ UNCHANGED <<snap_storage, handled_snap_id, snap_acks, loaded, serverVars, snapshots, inputs, loads>>

\* The map is loaded: the client reports ready and waits for a snapshot, with
\* fresh game data.
MapLoaded ==
    /\ phase = "Loading"
    /\ phase' = "Playing"
    /\ readies' = readies \cup {loaded}
    /\ snap_storage' = [i \in {} |-> Garbage]
    /\ handled_snap_id' = None
    /\ snap_acks' = {}
    /\ UNCHANGED <<loaded, serverVars, snapshots, inputs, loads>>

Load(g) ==
    /\ g \in loads
    /\ Stale \/ g > loaded
    /\ loads' = loads \ {g}
    /\ phase' = "Loading"
    /\ loaded' = g
    /\ UNCHANGED <<snap_storage, handled_snap_id, snap_acks, serverVars, snapshots, inputs, readies>>

\* The base of a difference is there.
Decodable(m) == m.diff_id = None \/ m.diff_id \in DOMAIN snap_storage

Fits(m) == m.diff_id = None \/ (m.diff_id \in DOMAIN snap_storage /\ snap_storage[m.diff_id] = m.game)

Decoded(m) == IF Fits(m) THEN m.game ELSE Garbage

\* The client's snapshots without the oldest if there are too many.
Kept ==
    LET ids == DOMAIN snap_storage
    IN  IF Cardinality(ids) >= ClientStore THEN {i \in ids : \E j \in ids : j < i} ELSE ids

Received(m) ==
    /\ phase = "Playing"
    /\ m \in snapshots
    /\ Stale \/ m.game = loaded
    /\ snapshots' = snapshots \ {m}
    /\ UNCHANGED <<phase, loaded, serverVars, inputs, loads, readies>>

\* Mutant: whatever can be decoded is handled.
HandleSnapshot_Any(m) ==
    /\ Received(m)
    /\ Decodable(m)
    /\ handled_snap_id' = m.id
    /\ snap_acks' = snap_acks \cup {m.id}
    /\ snap_storage' = IF m.as_diff
                       THEN [i \in Kept \cup {m.id} |-> IF i = m.id THEN Decoded(m) ELSE snap_storage[i]]
                       ELSE snap_storage

\* A snapshot newer than the last is handled and confirmed, and stored if it may
\* serve as a base.
HandleSnapshot(m) ==
    /\ Received(m)
    /\ Decodable(m)
    /\ handled_snap_id < m.id
    /\ handled_snap_id' = m.id
    /\ snap_acks' = snap_acks \cup {m.id}
    /\ snap_storage' = IF m.as_diff
                       THEN [i \in Kept \cup {m.id} |-> IF i = m.id THEN Decoded(m) ELSE snap_storage[i]]
                       ELSE snap_storage

\* A snapshot that is too old, or whose patch does not apply.
SkipSnapshot(m) ==
    /\ Received(m)
    /\ m.id <= handled_snap_id \/ ~Fits(m)
    /\ UNCHANGED <<snap_storage, handled_snap_id, snap_acks>>

\* While the client loads, messages of the game are ignored.
IgnoreSnapshot(m) ==
    /\ phase = "Loading"
    /\ m \in snapshots
    /\ Stale \/ m.game = loaded
    /\ snapshots' = snapshots \ {m}
    /\ UNCHANGED <<serverVars, clientVars, inputs, loads, readies>>

\* send_input, with all confirmations there are.
SendInputs ==
    /\ phase = "Playing"
    /\ snap_acks /= {}
    /\ inputs' = inputs \cup {[game |-> loaded, snap_ack |-> snap_acks]}
    /\ snap_acks' = {}
    /\ UNCHANGED <<phase, loaded, snap_storage, handled_snap_id, serverVars, snapshots, loads, readies>>

----------------------------------------------------------------------------

\* Snapshots and inputs are sent unreliably.  The last snapshot of the bound stands
\* for those that follow in the program, of which the network brings some.
LoseSnapshot(m) ==
    /\ Lossy /\ m \in snapshots /\ m.id < MaxSnapId
    /\ snapshots' = snapshots \ {m}
    /\ UNCHANGED <<serverVars, clientVars, inputs, loads, readies>>

LoseInputs(m) ==
    /\ Lossy /\ m \in inputs
    /\ inputs' = inputs \ {m}
    /\ UNCHANGED <<serverVars, clientVars, snapshots, loads, readies>>

SnapshotStep(m) == HandleSnapshot(m) \/ SkipSnapshot(m) \/ IgnoreSnapshot(m)

Next ==
    \/ \E g \in readies : ClientReady(g)
    \/ Tick
    \/ \E m \in inputs : ReceiveInputs(m)
    \/ Reload
    \/ MapLoaded
    \/ \E g \in loads : Load(g)
    \/ \E m \in snapshots : SnapshotStep(m)
    \/ SendInputs
    \/ \E m \in snapshots : LoseSnapshot(m)
    \/ \E m \in inputs : LoseInputs(m)

Spec == Init /\ [][Next]_vars

\* The server ticks, the client loads and sends its inputs, and what is not lost
\* arrives (there are finitely many snapshots, so that none of them waits forever).
FairSpec ==
    /\ Spec
    /\ WF_vars(Tick)
    /\ WF_vars(MapLoaded)
    /\ WF_vars(SendInputs)
    /\ \A g \in Game : WF_vars(ClientReady(g)) /\ WF_vars(Load(g))
    /\ WF_vars(\E m \in snapshots : SnapshotStep(m))

----------------------------------------------------------------------------
(***************************************************************************)
(* Properties                                                              *)
(***************************************************************************)

\* The variables have their types, and neither side keeps more than its storage holds.
TypeOK ==
    /\ game \in Game /\ ready \in BOOLEAN
    /\ snap_id \in 0..MaxSnapId + 1
    /\ latest_client_snap \in SnapId \cup {None}
    /\ client_snap_storage \in SUBSET SnapId
    /\ Cardinality(client_snap_storage) <= ServerStore
    /\ phase \in {"Loading", "Playing"} /\ loaded \in Game
    /\ DOMAIN snap_storage \in SUBSET SnapId
    /\ Cardinality(DOMAIN snap_storage) <= ClientStore
    /\ \A i \in DOMAIN snap_storage : snap_storage[i] \in Game \cup {Garbage}
    /\ handled_snap_id \in SnapId \cup {None}
    /\ snap_acks \in SUBSET SnapId
    /\ snapshots \in SUBSET Snapshot /\ inputs \in SUBSET Inputs
    /\ loads \in SUBSET Game /\ readies \in SUBSET Game

\* The client plays the server's game.
SameGame == ready /\ phase = "Playing" /\ loaded = game

Known(i) == i \in DOMAIN snap_storage /\ snap_storage[i] = game

\* client.rs:112: "latest snap id the client knows about".  A base the client
\* does not have is never left again: nothing that is taken to it is decoded, so
\* nothing is confirmed.  The only base the client may lack is one it had to give
\* up for ClientStore newer snapshots.
LatestKnownOrEvicted ==
    SameGame /\ latest_client_snap /= None =>
        \/ Known(latest_client_snap)
        \/ /\ Cardinality(DOMAIN snap_storage) >= ClientStore
           /\ \A i \in DOMAIN snap_storage : latest_client_snap < i

\* data.rs:156: "make sure old snapshots are not handled".  What the client keeps
\* is what the server sent in this game.
OnlyThisGame == phase = "Playing" => \A i \in DOMAIN snap_storage : snap_storage[i] = loaded

\* However confirmations are reordered, the server never goes back to an older
\* base within a game.
BaseOnlyAdvances ==
    [][ready /\ ready' => latest_client_snap <= latest_client_snap']_vars

\* However snapshots are reordered, the client never shows an older one after a
\* newer.
HandledOnlyAdvances ==
    [][phase = "Playing" /\ phase' = "Playing" => handled_snap_id <= handled_snap_id']_vars

\* A snapshot under way cannot be decoded, since the client had to give up its base.
BaseEvicted ==
    /\ phase = "Playing" /\ Cardinality(DOMAIN snap_storage) >= ClientStore
    /\ \E m \in snapshots : m.game = loaded /\ ~Decodable(m)

\* The client handles the last snapshot of the game the server ends up with,
\* whatever the game changes cross and whichever snapshots and confirmations before
\* it are lost or reordered, unless it had to give up a base for ClientStore others.
LastSnapshotIsHandled ==
    \A g \in Game :
        <>[](game = g) =>
            <>(\/ loaded = g /\ handled_snap_id > MaxSnapId - TicksPerSnapshot
               \/ BaseEvicted)

=============================================================================
