------------------------- MODULE SnapshotSyncProofs -------------------------
(***************************************************************************)
(* When no message outlives a change of the game, server and client agree  *)
(* on the base of the differences: for every size of the two storages, any *)
(* number of snapshots and reloads, and whatever is lost or reordered.     *)
(*                                                                         *)
(* The inductive invariant Inv is TypeOK and four parts.  GameInv places   *)
(* the messages and the client in the games; BaseInv orders the server's   *)
(* base, storage and ids; FreshInv says that a game nobody is in yet has   *)
(* left no trace; and AckInv, the heart of it, that every snapshot the     *)
(* server may be told of and still keeps is one the client has, or had to  *)
(* evict.                                                                  *)
(***************************************************************************)
EXTENDS SnapshotSync, FiniteSetTheorems, WellFoundedInduction, TLAPS

USE StoreAssumption, TicksAssumption, BoundsAssumption, NetworkAssumption DEF None

\* Nobody is ahead of the server's game, and a client that is in it has loaded it.
GameInv ==
    /\ loaded <= game
    /\ \A g \in loads : g <= game
    /\ \A g \in readies : g < loaded \/ (g = loaded /\ phase = "Playing")
    /\ ready => loaded = game /\ phase = "Playing"
    /\ \A m \in snapshots : m.game <= game
    /\ \A m \in inputs : m.game <= loaded
    /\ OnlyThisGame

\* The base is older than what is kept, which is older than the next snapshot;
\* what is kept was sent to be kept.
BaseInv ==
    ready =>
        /\ latest_client_snap < snap_id
        /\ \A s \in client_snap_storage : latest_client_snap < s /\ s < snap_id
        /\ \A m \in snapshots : m.game = game =>
              m.id < snap_id /\ (m.id \in client_snap_storage => m.as_diff)

\* While the server has not heard Ready, its game has left no trace.
FreshInv ==
    ~ready =>
        /\ \A m \in snapshots : m.game /= game
        /\ \A m \in inputs : m.game /= game
        /\ phase = "Playing" /\ loaded = game =>
              DOMAIN snap_storage = {} /\ handled_snap_id = None /\ snap_acks = {}

\* i is confirmed, and the server may hear of it.
Acked(i) == i \in snap_acks \/ \E m \in inputs : m.game = game /\ i \in m.snap_ack

\* The client has i, or gave it up for as many newer ones as it can hold.
KnownOrEvicted(i) ==
    \/ Known(i)
    \/ /\ Cardinality(DOMAIN snap_storage) >= ClientStore
       /\ \A j \in DOMAIN snap_storage : i < j

AckInv ==
    /\ phase = "Playing" => \A i \in DOMAIN snap_storage : i <= handled_snap_id
    /\ ready =>
        /\ handled_snap_id < snap_id
        /\ \A i \in SnapId : Acked(i) =>
              i <= handled_snap_id /\ (i \in client_snap_storage => KnownOrEvicted(i))
        /\ latest_client_snap /= None =>
              latest_client_snap <= handled_snap_id /\ KnownOrEvicted(latest_client_snap)

Inv == TypeOK /\ GameInv /\ BaseInv /\ FreshInv /\ AckInv

----------------------------------------------------------------------------
(***************************************************************************)
(* The client's storage.                                                   *)
(***************************************************************************)

\* Sets of ids can be counted.
LEMMA Countable ==
    ASSUME NEW S \in SUBSET SnapId
    PROVE  IsFiniteSet(S) /\ Cardinality(S) \in Nat
<1>1. IsFiniteSet(SnapId)
  BY FS_Interval DEF SnapId
<1> QED BY <1>1, FS_Subset, FS_CardinalityType

\* A set of ids that is not empty has an oldest.
LEMMA OldestExists ==
    ASSUME NEW S \in SUBSET SnapId, S /= {}
    PROVE  \E i \in S : \A j \in S : i <= j
<1>1. S \subseteq Nat
  BY DEF SnapId
<1>2. PICK i \in S : \A j \in S : ~ (<<j, i>> \in OpToRel(<, Nat))
  BY <1>1, NatLessThanWellFounded, WFMin
<1>3. OpToRel(<, Nat) = {ss \in Nat \X Nat : ss[1] < ss[2]}
  BY DEF OpToRel
<1>4. \A j \in S : i <= j
  <2> SUFFICES ASSUME NEW j \in S PROVE i <= j
    OBVIOUS
  <2>1. i \in Nat /\ j \in Nat
    BY <1>1
  <2>2. ~ (j < i)
    BY <1>2, <1>3, <2>1
  <2> QED BY <2>1, <2>2
<1> QED BY <1>4

\* A full storage gives up its oldest snapshot and nothing else, one that is not
\* full gives up nothing.
LEMMA KeptSnapshots ==
    ASSUME DOMAIN snap_storage \in SUBSET SnapId,
           Cardinality(DOMAIN snap_storage) <= ClientStore
    PROVE  /\ Kept \subseteq DOMAIN snap_storage
           /\ Cardinality(Kept) < ClientStore
           /\ \/ Kept = DOMAIN snap_storage
              \/ /\ Cardinality(DOMAIN snap_storage) = ClientStore
                 /\ Cardinality(Kept) = ClientStore - 1
                 /\ \A i \in (DOMAIN snap_storage) \ Kept : \A j \in Kept : i < j
<1> DEFINE ids == DOMAIN snap_storage
<1>1. IsFiniteSet(ids) /\ Cardinality(ids) \in Nat /\ ids \subseteq Nat
  BY Countable DEF SnapId
<1>2. CASE Cardinality(ids) < ClientStore
  BY <1>1, <1>2 DEF Kept
<1>3. CASE Cardinality(ids) = ClientStore
  <2>1. Kept = {i \in ids : \E j \in ids : j < i}
    BY <1>3 DEF Kept
  <2>2. ids /= {}
    BY <1>3, FS_EmptySet
  <2>3. PICK oldest \in ids : \A j \in ids : oldest <= j
    BY <2>2, OldestExists
  <2>4. Kept = ids \ {oldest}
    <3>1. oldest \notin Kept
      BY <1>1, <2>1, <2>3
    <3>2. \A i \in ids : i /= oldest => oldest < i
      BY <1>1, <2>3
    <3>3. \A i \in ids : i /= oldest => i \in Kept
      BY <2>1, <3>2
    <3>4. Kept \subseteq ids
      BY <2>1
    <3> QED BY <3>1, <3>3, <3>4
  <2>5. Cardinality(Kept) = ClientStore - 1
    BY <1>1, <1>3, <2>4, FS_RemoveElement
  <2>6. \A i \in ids \ Kept : \A j \in Kept : i < j
    BY <1>1, <2>3, <2>4
  <2> QED BY <1>3, <2>4, <2>5, <2>6
<1> QED BY <1>1, <1>2, <1>3

\* Init establishes the invariant.
LEMMA InitInv == Init => Inv
<1> SUFFICES ASSUME Init PROVE Inv
  OBVIOUS
<1>1. DOMAIN snap_storage = {} /\ Cardinality({}) = 0
  BY FS_EmptySet DEF Init
<1>2. TypeOK
  <2>1. client_snap_storage = {} /\ Cardinality(client_snap_storage) <= ServerStore
    BY <1>1 DEF Init
  <2>2. DOMAIN snap_storage \in SUBSET SnapId /\ Cardinality(DOMAIN snap_storage) <= ClientStore
    BY <1>1
  <2>3. \A i \in DOMAIN snap_storage : snap_storage[i] \in Game \cup {Garbage}
    BY <1>1
  <2>4. game \in Game /\ loaded \in Game /\ snap_id \in 0..MaxSnapId + 1
    BY DEF Init, Game
  <2>5. ready \in BOOLEAN /\ phase \in {"Loading", "Playing"}
    BY DEF Init
  <2>6. latest_client_snap \in SnapId \cup {None} /\ handled_snap_id \in SnapId \cup {None}
    BY DEF Init
  <2>7. snap_acks = {} /\ snapshots = {} /\ inputs = {} /\ loads = {} /\ readies = {}
    BY DEF Init
  <2> QED BY <2>1, <2>2, <2>3, <2>4, <2>5, <2>6, <2>7 DEF TypeOK
<1>3. GameInv
  BY <1>1 DEF Init, GameInv, OnlyThisGame
<1>4. BaseInv /\ FreshInv /\ AckInv
  BY <1>1 DEF Init, BaseInv, FreshInv, AckInv
<1> QED BY <1>2, <1>3, <1>4 DEF Inv

----------------------------------------------------------------------------
(***************************************************************************)
(* The steps that change no more than what is under way.                   *)
(***************************************************************************)

\* What is lost, or not looked at, does no harm.
LEMMA FewerMessages ==
    ASSUME Inv,
           UNCHANGED <<serverVars, clientVars, loads, readies>>,
           snapshots' \subseteq snapshots, inputs' \subseteq inputs
    PROVE  Inv'
<1> USE DEF serverVars, clientVars
<1>1. TypeOK'
  BY DEF Inv, TypeOK
<1>2. GameInv'
  BY DEF Inv, GameInv, OnlyThisGame
<1>3. BaseInv'
  BY DEF Inv, BaseInv
<1>4. FreshInv'
  BY DEF Inv, FreshInv
<1>5. AckInv'
  <2>1. \A i : Acked(i)' => Acked(i)
    BY DEF Acked
  <2>2. \A i : KnownOrEvicted(i)' <=> KnownOrEvicted(i)
    BY DEF KnownOrEvicted, Known
  <2> QED BY <2>1, <2>2 DEF Inv, AckInv
<1> QED BY <1>1, <1>2, <1>3, <1>4, <1>5 DEF Inv

\* The client sends its confirmations: the server may hear of the same ones.
LEMMA SendInputsInv ==
    ASSUME Inv, SendInputs
    PROVE  Inv'
<1> DEFINE m == [game |-> loaded, snap_ack |-> snap_acks]
<1> USE DEF serverVars
<1>1. UNCHANGED <<serverVars, phase, loaded, snap_storage, handled_snap_id, snapshots, loads, readies>>
  BY DEF SendInputs
<1>2. snap_acks' = {} /\ inputs' = inputs \cup {m} /\ snap_acks /= {} /\ phase = "Playing"
  BY DEF SendInputs
<1>3. m \in Inputs /\ m.game = loaded /\ m.snap_ack = snap_acks
  BY DEF Inv, TypeOK, Inputs
<1> HIDE DEF m
<1>4. TypeOK'
  BY <1>1, <1>2, <1>3 DEF Inv, TypeOK
<1>5. GameInv'
  BY <1>1, <1>2, <1>3 DEF Inv, TypeOK, Game, GameInv, OnlyThisGame
<1>6. BaseInv'
  BY <1>1 DEF Inv, BaseInv
<1>7. FreshInv'
  BY <1>1, <1>2, <1>3 DEF Inv, FreshInv
<1>8. AckInv'
  <2>1. ready => loaded = game
    BY DEF Inv, GameInv
  <2>2. \A i : Acked(i)' => Acked(i)
    BY <1>1, <1>2, <1>3 DEF Acked
  <2>3. \A i : KnownOrEvicted(i)' <=> KnownOrEvicted(i)
    BY <1>1 DEF KnownOrEvicted, Known
  <2> QED BY <1>1, <2>2, <2>3 DEF Inv, AckInv
<1> QED BY <1>4, <1>5, <1>6, <1>7, <1>8 DEF Inv

----------------------------------------------------------------------------
(***************************************************************************)
(* The changes of the game.                                                *)
(***************************************************************************)

\* A new game: nobody is in it, and nothing of it is under way.
LEMMA ReloadInv ==
    ASSUME Inv, Reload
    PROVE  Inv'
<1> USE DEF clientVars
<1>1. UNCHANGED <<snap_id, latest_client_snap, client_snap_storage, clientVars, snapshots, inputs, readies>>
  BY DEF Reload
<1>2. game' = game + 1 /\ ready' = FALSE /\ loads' = loads \cup {game'} /\ game < MaxGame
  BY DEF Reload
<1>3. game \in Nat /\ loaded \in Nat /\ game' \in Game
  BY <1>2 DEF Inv, TypeOK, Game
<1>4. \A m \in snapshots : m.game \in Nat /\ m.game <= game
  BY DEF Inv, TypeOK, GameInv, Snapshot, Game
<1>5. \A m \in inputs : m.game \in Nat /\ m.game <= loaded
  BY DEF Inv, TypeOK, GameInv, Inputs, Game
<1>6. loaded <= game
  BY DEF Inv, GameInv
<1>7. TypeOK'
  BY <1>1, <1>2, <1>3 DEF Inv, TypeOK
<1>8. GameInv'
  <2>1. \A g \in loads' : g <= game'
    BY <1>2, <1>3 DEF Inv, TypeOK, Game, GameInv
  <2>2. OnlyThisGame'
    BY <1>1 DEF Inv, GameInv, OnlyThisGame
  <2>3. loaded' <= game' /\ \A m \in snapshots' : m.game <= game'
    BY <1>1, <1>2, <1>3, <1>4, <1>6
  <2> QED BY <1>1, <1>2, <2>1, <2>2, <2>3 DEF Inv, GameInv
<1>9. BaseInv'
  BY <1>2 DEF BaseInv
<1>10. FreshInv'
  BY <1>1, <1>2, <1>3, <1>4, <1>5, <1>6 DEF FreshInv
<1>11. AckInv'
  BY <1>1, <1>2 DEF Inv, AckInv
<1> QED BY <1>7, <1>8, <1>9, <1>10, <1>11 DEF Inv

\* The client loads a newer game: it is not in the server's.
LEMMA LoadInv ==
    ASSUME Inv, ~Stale, NEW g \in loads, Load(g)
    PROVE  Inv'
<1> USE DEF serverVars
<1>1. UNCHANGED <<serverVars, snap_storage, handled_snap_id, snap_acks, snapshots, inputs, readies>>
  BY DEF Load
<1>2. g > loaded /\ loads' = loads \ {g} /\ phase' = "Loading" /\ loaded' = g
  BY DEF Load
<1>3. g \in Game /\ g <= game
  BY DEF Inv, TypeOK, GameInv
<1>4. g \in Nat /\ loaded \in Nat /\ game \in Nat
  BY <1>3 DEF Inv, TypeOK, Game
<1>5. ~ready
  BY <1>2, <1>3, <1>4 DEF Inv, GameInv
<1>6. TypeOK'
  BY <1>1, <1>2, <1>3 DEF Inv, TypeOK
<1>7. GameInv'
  <2>1. \A h \in readies' : h < loaded'
    BY <1>1, <1>2, <1>4 DEF Inv, TypeOK, Game, GameInv
  <2>2. \A m \in inputs' : m.game <= loaded'
    BY <1>1, <1>2, <1>4 DEF Inv, TypeOK, Inputs, Game, GameInv
  <2>3. OnlyThisGame'
    BY <1>2 DEF OnlyThisGame
  <2> QED BY <1>1, <1>2, <1>3, <1>5, <2>1, <2>2, <2>3 DEF Inv, GameInv
<1>8. BaseInv' /\ FreshInv' /\ AckInv'
  BY <1>1, <1>2, <1>5 DEF Inv, BaseInv, FreshInv, AckInv
<1> QED BY <1>6, <1>7, <1>8 DEF Inv

\* The client starts to play with nothing.
LEMMA MapLoadedInv ==
    ASSUME Inv, MapLoaded
    PROVE  Inv'
<1> USE DEF serverVars
<1>1. UNCHANGED <<loaded, serverVars, snapshots, inputs, loads>>
  BY DEF MapLoaded
<1>2. phase = "Loading" /\ phase' = "Playing" /\ readies' = readies \cup {loaded}
  BY DEF MapLoaded
<1>3. DOMAIN snap_storage' = {} /\ handled_snap_id' = None /\ snap_acks' = {}
  BY DEF MapLoaded
<1>4. Cardinality({}) = 0
  BY FS_EmptySet
<1>5. ~ready
  BY <1>2 DEF Inv, GameInv
<1>6. TypeOK'
  <2>1. \A i \in DOMAIN snap_storage' : snap_storage'[i] \in Game \cup {Garbage}
    BY <1>3
  <2>2. Cardinality(DOMAIN snap_storage') <= ClientStore /\ DOMAIN snap_storage' \in SUBSET SnapId
    BY <1>3, <1>4
  <2>3. readies' \in SUBSET Game
    BY <1>2 DEF Inv, TypeOK
  <2>4. handled_snap_id' \in SnapId \cup {None} /\ snap_acks' \in SUBSET SnapId
    BY <1>3
  <2> QED BY <1>1, <1>2, <2>1, <2>2, <2>3, <2>4 DEF Inv, TypeOK
<1>7. GameInv'
  BY <1>1, <1>2, <1>3, <1>5 DEF Inv, GameInv, OnlyThisGame
<1>8. BaseInv' /\ FreshInv' /\ AckInv'
  BY <1>1, <1>3, <1>5 DEF Inv, BaseInv, FreshInv, AckInv
<1> QED BY <1>6, <1>7, <1>8 DEF Inv

----------------------------------------------------------------------------
(***************************************************************************)
(* The server's steps.                                                     *)
(***************************************************************************)

\* The client that is ready is in the server's game, and nothing was sent there yet.
LEMMA ClientReadyInv ==
    ASSUME Inv, ~Stale, NEW g \in readies, ClientReady(g)
    PROVE  Inv'
<1> USE DEF clientVars
<1> DEFINE m == [game |-> game, id |-> 0, diff_id |-> None, as_diff |-> TRUE]
<1>1. UNCHANGED <<game, clientVars, inputs, loads>>
  BY DEF ClientReady
<1>2. g = game /\ readies' = readies \ {g} /\ ready' = TRUE
  BY DEF ClientReady
<1>3. CASE ready
  <2>1. UNCHANGED <<snap_id, latest_client_snap, client_snap_storage, snapshots, ready>>
    BY <1>2, <1>3 DEF ClientReady
  <2>2. TypeOK' /\ GameInv' /\ BaseInv' /\ FreshInv'
    <3>1. TypeOK'
      BY <1>1, <1>2, <2>1 DEF Inv, TypeOK
    <3>2. GameInv'
      BY <1>1, <1>2, <2>1 DEF Inv, GameInv, OnlyThisGame
    <3>3. BaseInv' /\ FreshInv'
      BY <1>1, <1>3, <2>1 DEF Inv, BaseInv, FreshInv
    <3> QED BY <3>1, <3>2, <3>3
  <2>3. \A i : (Acked(i)' <=> Acked(i)) /\ (KnownOrEvicted(i)' <=> KnownOrEvicted(i))
    BY <1>1 DEF Acked, KnownOrEvicted, Known
  <2>4. AckInv'
    BY <1>1, <2>1, <2>3 DEF Inv, AckInv
  <2> QED BY <2>2, <2>4 DEF Inv
<1>4. CASE ~ready
  <2>1. /\ snap_id' = 1 /\ latest_client_snap' = None /\ client_snap_storage' = {0}
        /\ snapshots' = snapshots \cup {m}
    BY <1>4 DEF ClientReady
  <2>2. game \in Nat /\ loaded \in Nat /\ game \in Game
    BY DEF Inv, TypeOK, Game
  <2>3. loaded = game /\ phase = "Playing"
    BY <1>2, <2>2 DEF Inv, GameInv
  <2>4. /\ \A x \in snapshots : x.game /= game
        /\ \A x \in inputs : x.game /= game
        /\ DOMAIN snap_storage = {} /\ handled_snap_id = None /\ snap_acks = {}
    BY <1>4, <2>3 DEF Inv, FreshInv
  <2>5. m \in Snapshot /\ m.game = game /\ m.id = 0 /\ m.as_diff
    BY <2>2 DEF Snapshot, SnapId
  <2> HIDE DEF m
  <2>6. TypeOK'
    <3>1. Cardinality(client_snap_storage') <= ServerStore
      BY <2>1, FS_Singleton
    <3>2. client_snap_storage' \in SUBSET SnapId /\ snap_id' \in 0..MaxSnapId + 1
      BY <2>1 DEF SnapId
    <3> QED BY <1>1, <1>2, <2>1, <2>5, <3>1, <3>2 DEF Inv, TypeOK
  <2>7. GameInv'
    BY <1>1, <1>2, <2>1, <2>2, <2>3, <2>5 DEF Inv, GameInv, OnlyThisGame
  <2>8. BaseInv'
    BY <1>1, <2>1, <2>4, <2>5 DEF BaseInv
  <2>9. FreshInv'
    BY <1>2 DEF FreshInv
  <2>10. AckInv'
    <3>1. \A i : ~Acked(i)'
      BY <1>1, <2>4 DEF Acked
    <3> QED BY <1>1, <2>1, <2>4, <3>1 DEF AckInv
  <2> QED BY <2>6, <2>7, <2>8, <2>9, <2>10 DEF Inv
<1> QED BY <1>3, <1>4

\* The next snapshot is newer than all there are: nobody can have confirmed it.
LEMMA TickInv ==
    ASSUME Inv, Tick
    PROVE  Inv'
<1> USE DEF clientVars
<1> DEFINE as_diff == Cardinality(client_snap_storage) < ServerStore
           m == [game |-> game, id |-> snap_id, diff_id |-> latest_client_snap,
                 as_diff |-> as_diff]
<1>1. UNCHANGED <<game, ready, latest_client_snap, clientVars, inputs, loads, readies>>
  BY DEF Tick
<1>2. ready /\ snap_id' = snap_id + 1 /\ snap_id <= MaxSnapId
  BY DEF Tick
<1>3. \/ UNCHANGED <<client_snap_storage, snapshots>>
      \/ /\ client_snap_storage' = client_snap_storage \cup (IF as_diff THEN {snap_id} ELSE {})
         /\ snapshots' = snapshots \cup {m}
  BY DEF Tick
<1>4. snap_id \in SnapId /\ snap_id \in Nat /\ snap_id' \in 0..MaxSnapId + 1
  BY <1>2 DEF Inv, TypeOK, SnapId
<1>5. latest_client_snap \in Int /\ handled_snap_id \in Int /\ game \in Int
  BY DEF Inv, TypeOK, SnapId, Game
<1>6. m \in Snapshot /\ m.game = game /\ m.id = snap_id /\ m.as_diff = as_diff
  BY <1>4 DEF Inv, TypeOK, Snapshot
<1>7. client_snap_storage \in SUBSET SnapId /\ client_snap_storage \subseteq Int
  BY DEF Inv, TypeOK, SnapId
<1>8. /\ latest_client_snap < snap_id
      /\ \A s \in client_snap_storage : latest_client_snap < s /\ s < snap_id
      /\ \A x \in snapshots : x.game = game =>
            x.id < snap_id /\ (x.id \in client_snap_storage => x.as_diff)
  BY <1>2 DEF Inv, BaseInv
<1>9. \A x \in snapshots : x.id \in Int
  BY DEF Inv, TypeOK, Snapshot, SnapId
<1> HIDE DEF m
<1>10. TypeOK'
  <2>1. Cardinality(client_snap_storage') <= ServerStore
    <3>1. CASE as_diff /\ client_snap_storage' = client_snap_storage \cup {snap_id}
      BY <1>7, <3>1, Countable, FS_AddElement
    <3>2. CASE client_snap_storage' = client_snap_storage
      BY <3>2 DEF Inv, TypeOK
    <3> QED BY <1>3, <3>1, <3>2
  <2>2. client_snap_storage' \in SUBSET SnapId /\ snapshots' \in SUBSET Snapshot
    BY <1>3, <1>4, <1>6 DEF Inv, TypeOK
  <2> QED BY <1>1, <1>4, <2>1, <2>2 DEF Inv, TypeOK
<1>11. GameInv'
  <2>1. \A x \in snapshots' : x.game <= game
    BY <1>3, <1>5, <1>6 DEF Inv, GameInv
  <2> QED BY <1>1, <2>1 DEF Inv, GameInv, OnlyThisGame
<1>12. BaseInv'
  <2>1. latest_client_snap' < snap_id'
    BY <1>1, <1>2, <1>4, <1>5, <1>8
  <2>2. ASSUME NEW s \in client_snap_storage'
        PROVE  latest_client_snap' < s /\ s < snap_id'
    <3>1. s \in client_snap_storage \/ s = snap_id
      BY <1>3
    <3>2. CASE s \in client_snap_storage
      BY <1>1, <1>2, <1>4, <1>7, <1>8, <3>2
    <3>3. CASE s = snap_id
      BY <1>1, <1>2, <1>4, <1>8, <3>3
    <3> QED BY <3>1, <3>2, <3>3
  <2>3. ASSUME NEW x \in snapshots', x.game = game
        PROVE  x.id < snap_id' /\ (x.id \in client_snap_storage' => x.as_diff)
    <3>1. CASE x \in snapshots
      BY <1>2, <1>3, <1>4, <1>8, <1>9, <2>3, <3>1
    <3>2. CASE x \notin snapshots
      <4>1. x = m /\ client_snap_storage' = client_snap_storage \cup (IF as_diff THEN {snap_id} ELSE {})
        BY <1>3, <3>2
      <4>2. snap_id \notin client_snap_storage
        BY <1>4, <1>8
      <4>3. snap_id \in client_snap_storage' => as_diff
        BY <4>1, <4>2
      <4>4. x.id = snap_id /\ x.id < snap_id'
        BY <1>2, <1>4, <1>6, <4>1
      <4>5. x.as_diff = as_diff
        BY <1>6, <4>1
      <4> HIDE DEF as_diff
      <4> QED BY <4>3, <4>4, <4>5
    <3> QED BY <3>1, <3>2
  <2> QED BY <1>1, <2>1, <2>2, <2>3 DEF BaseInv
<1>13. FreshInv'
  BY <1>1, <1>2 DEF FreshInv
<1>14. AckInv'
  <2>1. \A i : (Acked(i)' <=> Acked(i)) /\ (KnownOrEvicted(i)' <=> KnownOrEvicted(i))
    BY <1>1 DEF Acked, KnownOrEvicted, Known
  <2>2. /\ handled_snap_id < snap_id
        /\ \A i \in SnapId : Acked(i) =>
              i <= handled_snap_id /\ (i \in client_snap_storage => KnownOrEvicted(i))
        /\ latest_client_snap /= None =>
              latest_client_snap <= handled_snap_id /\ KnownOrEvicted(latest_client_snap)
    BY <1>2 DEF Inv, AckInv
  <2>3. handled_snap_id' < snap_id'
    BY <1>1, <1>2, <1>4, <1>5, <2>2
  <2>4. ASSUME NEW i \in SnapId, Acked(i), i \in client_snap_storage'
        PROVE  i \in client_snap_storage
    <3>1. i <= handled_snap_id /\ i \in Int
      BY <2>2, <2>4 DEF SnapId
    <3>2. i /= snap_id
      BY <1>4, <1>5, <2>2, <3>1
    <3> QED BY <1>3, <2>4, <3>2
  <2>5. \A i \in SnapId : Acked(i)' =>
            i <= handled_snap_id' /\ (i \in client_snap_storage' => KnownOrEvicted(i)')
    BY <1>1, <2>1, <2>2, <2>4
  <2>6. latest_client_snap' /= None =>
            latest_client_snap' <= handled_snap_id' /\ KnownOrEvicted(latest_client_snap)'
    BY <1>1, <2>1, <2>2
  <2>7. phase' = "Playing" => \A i \in DOMAIN snap_storage' : i <= handled_snap_id'
    BY <1>1 DEF Inv, AckInv
  <2> QED BY <1>1, <2>3, <2>5, <2>6, <2>7 DEF AckInv
<1> QED BY <1>10, <1>11, <1>12, <1>13, <1>14 DEF Inv

\* Confirmations of this game make a base of a snapshot the client confirmed, and
\* what is kept stays newer than it.
LEMMA ReceiveInputsInv ==
    ASSUME Inv, ~Stale, NEW m \in inputs, ReceiveInputs(m)
    PROVE  Inv'
<1> USE DEF clientVars
<1> DEFINE hits == m.snap_ack \cap client_snap_storage
<1>1. UNCHANGED <<game, ready, snap_id, clientVars, snapshots, loads, readies>>
  BY DEF ReceiveInputs
<1>2. m.game = game /\ inputs' = inputs \ {m}
  BY DEF ReceiveInputs
<1>3. CASE ~ready
  <2>1. UNCHANGED <<latest_client_snap, client_snap_storage>>
    BY <1>3 DEF ReceiveInputs
  <2> QED BY <1>1, <1>2, <2>1, FewerMessages DEF serverVars
<1>4. CASE ready
  <2>1. /\ client_snap_storage' \subseteq client_snap_storage
        /\ \A s \in client_snap_storage' : \A a \in m.snap_ack : a < s
    BY <1>4 DEF ReceiveInputs, Ack
  <2>2. \/ hits = {} /\ latest_client_snap' = latest_client_snap
        \/ latest_client_snap' \in hits
    BY <1>4 DEF ReceiveInputs, Ack
  <2>3. \A i \in m.snap_ack : i \in SnapId /\ Acked(i)
    BY <1>2 DEF Acked, Inv, TypeOK, Inputs
  <2>4. client_snap_storage \in SUBSET SnapId /\ client_snap_storage' \in SUBSET SnapId
    BY <2>1 DEF Inv, TypeOK
  <2>5. TypeOK'
    <3>1. Cardinality(client_snap_storage') <= ServerStore
      <4>1. Cardinality(client_snap_storage') <= Cardinality(client_snap_storage)
        BY <2>1, <2>4, Countable, FS_Subset
      <4>2. Cardinality(client_snap_storage) <= ServerStore
        BY DEF Inv, TypeOK
      <4> QED BY <2>4, <4>1, <4>2, Countable
    <3>2. latest_client_snap' \in SnapId \cup {None}
      BY <2>2, <2>3 DEF Inv, TypeOK
    <3> QED BY <1>1, <1>2, <2>4, <3>1, <3>2 DEF Inv, TypeOK
  <2>6. GameInv'
    BY <1>1, <1>2 DEF Inv, GameInv, OnlyThisGame
  <2>7. BaseInv'
    <3>1. /\ latest_client_snap < snap_id
          /\ \A s \in client_snap_storage : latest_client_snap < s /\ s < snap_id
          /\ \A x \in snapshots : x.game = game =>
                x.id < snap_id /\ (x.id \in client_snap_storage => x.as_diff)
      BY <1>4 DEF Inv, BaseInv
    <3>2. latest_client_snap' < snap_id
      BY <2>2, <3>1
    <3>3. \A s \in client_snap_storage' : latest_client_snap' < s
      BY <2>1, <2>2, <3>1
    <3> QED BY <1>1, <2>1, <3>1, <3>2, <3>3 DEF BaseInv
  <2>8. FreshInv'
    BY <1>1, <1>4 DEF FreshInv
  <2>9. AckInv'
    <3>1. \A i : (Acked(i)' => Acked(i)) /\ (KnownOrEvicted(i)' <=> KnownOrEvicted(i))
      BY <1>1, <1>2 DEF Acked, KnownOrEvicted, Known
    <3>2. /\ handled_snap_id < snap_id
          /\ \A i \in SnapId : Acked(i) =>
                i <= handled_snap_id /\ (i \in client_snap_storage => KnownOrEvicted(i))
          /\ latest_client_snap /= None =>
                latest_client_snap <= handled_snap_id /\ KnownOrEvicted(latest_client_snap)
      BY <1>4 DEF Inv, AckInv
    <3>3. latest_client_snap' /= None =>
              latest_client_snap' <= handled_snap_id /\ KnownOrEvicted(latest_client_snap')
      BY <2>2, <2>3, <3>2
    <3>4. latest_client_snap' /= None =>
              latest_client_snap' <= handled_snap_id' /\ KnownOrEvicted(latest_client_snap)'
      BY <1>1, <3>3 DEF KnownOrEvicted, Known
    <3>5. \A i \in SnapId : Acked(i)' =>
              i <= handled_snap_id' /\ (i \in client_snap_storage' => KnownOrEvicted(i)')
      BY <1>1, <2>1, <3>1, <3>2
    <3>6. phase' = "Playing" => \A i \in DOMAIN snap_storage' : i <= handled_snap_id'
      BY <1>1 DEF Inv, AckInv
    <3> QED BY <1>1, <3>2, <3>4, <3>5, <3>6 DEF AckInv
  <2> QED BY <2>5, <2>6, <2>7, <2>8, <2>9 DEF Inv
<1> QED BY <1>3, <1>4

----------------------------------------------------------------------------
(***************************************************************************)
(* The client handles a snapshot.                                          *)
(***************************************************************************)

\* What is stored after a snapshot that may serve as a base: no more than fits, the
\* new one holds what was sent, and what was known is known or evicted.
LEMMA StoredSnapshot ==
    ASSUME TypeOK, OnlyThisGame, phase = "Playing",
           \A i \in DOMAIN snap_storage : i <= handled_snap_id,
           NEW m \in snapshots, Decodable(m), handled_snap_id < m.id, m.game = loaded,
           snap_storage' = [i \in Kept \cup {m.id} |->
                               IF i = m.id THEN Decoded(m) ELSE snap_storage[i]]
    PROVE  /\ DOMAIN snap_storage' = Kept \cup {m.id}
           /\ Cardinality(DOMAIN snap_storage') <= ClientStore
           /\ \A i \in DOMAIN snap_storage' : snap_storage'[i] = loaded
           /\ \A i \in Int : i < m.id =>
                 \/ i \in DOMAIN snap_storage =>
                      \/ i \in DOMAIN snap_storage'
                      \/ /\ Cardinality(DOMAIN snap_storage') >= ClientStore
                         /\ \A j \in DOMAIN snap_storage' : i < j
           /\ \A i \in Int :
                 /\ i < m.id
                 /\ Cardinality(DOMAIN snap_storage) >= ClientStore
                 /\ \A j \in DOMAIN snap_storage : i < j
                 => /\ Cardinality(DOMAIN snap_storage') >= ClientStore
                    /\ \A j \in DOMAIN snap_storage' : i < j
<1> DEFINE ids == DOMAIN snap_storage
<1>1. ids \in SUBSET SnapId /\ Cardinality(ids) <= ClientStore
  BY DEF TypeOK
<1>2. /\ Kept \subseteq ids
      /\ Cardinality(Kept) < ClientStore
      /\ \/ Kept = ids
         \/ /\ Cardinality(ids) = ClientStore
            /\ Cardinality(Kept) = ClientStore - 1
            /\ \A i \in ids \ Kept : \A j \in Kept : i < j
  BY <1>1, KeptSnapshots
<1>3. m.id \in SnapId /\ m.id \in Int /\ handled_snap_id \in Int
  BY DEF TypeOK, Snapshot, SnapId
<1>4. \A i \in ids : i \in Int /\ i < m.id
  BY <1>1, <1>3 DEF SnapId
<1>5. m.id \notin ids /\ m.id \notin Kept
  BY <1>2, <1>3, <1>4
<1>6. DOMAIN snap_storage' = Kept \cup {m.id}
  OBVIOUS
<1>7. Kept \in SUBSET SnapId /\ IsFiniteSet(Kept) /\ Cardinality(Kept) \in Nat
  BY <1>1, <1>2, Countable
<1>8. Cardinality(Kept \cup {m.id}) = Cardinality(Kept) + 1
  BY <1>5, <1>7, FS_AddElement
<1>9. Cardinality(DOMAIN snap_storage') <= ClientStore
  BY <1>2, <1>6, <1>7, <1>8
<1>10. Decoded(m) = loaded
  BY DEF Decoded, Fits, Decodable, OnlyThisGame
<1>11. \A i \in DOMAIN snap_storage' : snap_storage'[i] = loaded
  BY <1>2, <1>6, <1>10 DEF OnlyThisGame
<1>12. ASSUME NEW i \in ids, i \notin Kept
       PROVE  /\ Cardinality(DOMAIN snap_storage') >= ClientStore
              /\ \A j \in DOMAIN snap_storage' : i < j
  <2>1. Cardinality(Kept) = ClientStore - 1 /\ \A j \in Kept : i < j
    BY <1>2, <1>12
  <2> QED BY <1>4, <1>6, <1>8, <2>1
<1>13. ASSUME NEW i \in Int, i < m.id, Cardinality(ids) >= ClientStore, \A j \in ids : i < j
       PROVE  /\ Cardinality(DOMAIN snap_storage') >= ClientStore
              /\ \A j \in DOMAIN snap_storage' : i < j
  <2>1. Cardinality(ids) = ClientStore
    BY <1>1, <1>13, Countable
  <2>2. Cardinality(Kept) = ClientStore - 1
    BY <1>2, <2>1
  <2> QED BY <1>2, <1>6, <1>8, <1>13, <2>2
<1> HIDE DEF ids
<1>14. \A i \in ids : \/ i \in DOMAIN snap_storage'
                      \/ /\ Cardinality(DOMAIN snap_storage') >= ClientStore
                         /\ \A j \in DOMAIN snap_storage' : i < j
  BY <1>6, <1>12
<1> QED BY <1>6, <1>9, <1>11, <1>13, <1>14 DEF ids

\* The snapshot is confirmed, and is known if the server keeps it.
LEMMA HandleSnapshotInv ==
    ASSUME Inv, ~Stale, NEW m \in snapshots, HandleSnapshot(m)
    PROVE  Inv'
<1> USE DEF serverVars
<1>1. UNCHANGED <<phase, loaded, serverVars, inputs, loads, readies>>
  BY DEF HandleSnapshot, Received
<1>2. phase = "Playing" /\ m.game = loaded /\ snapshots' = snapshots \ {m}
  BY DEF HandleSnapshot, Received
<1>3. handled_snap_id < m.id /\ handled_snap_id' = m.id /\ snap_acks' = snap_acks \cup {m.id}
  BY DEF HandleSnapshot
<1>4. m.id \in SnapId /\ m.id \in Int /\ handled_snap_id \in Int /\ m.as_diff \in BOOLEAN
  BY DEF Inv, TypeOK, Snapshot, SnapId
<1>5. \/ m.as_diff
         /\ snap_storage' = [i \in Kept \cup {m.id} |->
                                IF i = m.id THEN Decoded(m) ELSE snap_storage[i]]
      \/ ~m.as_diff /\ snap_storage' = snap_storage
  BY <1>4 DEF HandleSnapshot
<1>6. \A i \in DOMAIN snap_storage : i \in SnapId /\ i <= handled_snap_id
  BY <1>2 DEF Inv, AckInv, TypeOK
<1>7. loaded \in Game
  BY DEF Inv, TypeOK
<1>8. /\ DOMAIN snap_storage' \in SUBSET SnapId
      /\ Cardinality(DOMAIN snap_storage') <= ClientStore
      /\ \A i \in DOMAIN snap_storage' : snap_storage'[i] = loaded /\ i <= m.id
      /\ m.as_diff => m.id \in DOMAIN snap_storage'
      /\ \A i \in SnapId : i < m.id /\ (Known(i) \/ KnownOrEvicted(i)) =>
            \/ i \in DOMAIN snap_storage'
            \/ /\ Cardinality(DOMAIN snap_storage') >= ClientStore
               /\ \A j \in DOMAIN snap_storage' : i < j
  <2>1. CASE ~m.as_diff
    <3>1. snap_storage' = snap_storage
      BY <1>5, <2>1
    <3>2. \A i \in DOMAIN snap_storage : i <= m.id
      BY <1>3, <1>4, <1>6 DEF SnapId
    <3> QED BY <1>2, <2>1, <3>1, <3>2 DEF Inv, TypeOK, GameInv, OnlyThisGame, Known, KnownOrEvicted
  <2>2. CASE m.as_diff
    <3>1. snap_storage' = [i \in Kept \cup {m.id} |->
                              IF i = m.id THEN Decoded(m) ELSE snap_storage[i]]
      BY <1>5, <2>2
    <3>2. TypeOK /\ OnlyThisGame /\ Decodable(m)
      BY DEF Inv, GameInv, HandleSnapshot
    <3>3. /\ DOMAIN snap_storage' = Kept \cup {m.id}
          /\ Cardinality(DOMAIN snap_storage') <= ClientStore
          /\ \A i \in DOMAIN snap_storage' : snap_storage'[i] = loaded
          /\ \A i \in Int : i < m.id =>
                \/ i \in DOMAIN snap_storage =>
                     \/ i \in DOMAIN snap_storage'
                     \/ /\ Cardinality(DOMAIN snap_storage') >= ClientStore
                        /\ \A j \in DOMAIN snap_storage' : i < j
          /\ \A i \in Int :
                /\ i < m.id
                /\ Cardinality(DOMAIN snap_storage) >= ClientStore
                /\ \A j \in DOMAIN snap_storage : i < j
                => /\ Cardinality(DOMAIN snap_storage') >= ClientStore
                   /\ \A j \in DOMAIN snap_storage' : i < j
      BY <1>2, <1>3, <1>6, <3>1, <3>2, StoredSnapshot
    <3>4. Kept \subseteq DOMAIN snap_storage
      BY DEF Kept
    <3>5. \A i \in DOMAIN snap_storage' : i \in SnapId /\ i <= m.id
      BY <1>3, <1>4, <1>6, <3>3, <3>4 DEF SnapId
    <3>6. ASSUME NEW i \in SnapId, i < m.id, Known(i) \/ KnownOrEvicted(i)
          PROVE  \/ i \in DOMAIN snap_storage'
                 \/ /\ Cardinality(DOMAIN snap_storage') >= ClientStore
                    /\ \A j \in DOMAIN snap_storage' : i < j
      <4>1. i \in Int
        BY DEF SnapId
      <4>2. CASE i \in DOMAIN snap_storage
        BY <3>3, <3>6, <4>1, <4>2
      <4>3. CASE i \notin DOMAIN snap_storage
        <5>1. /\ Cardinality(DOMAIN snap_storage) >= ClientStore
              /\ \A j \in DOMAIN snap_storage : i < j
          BY <3>6, <4>3 DEF Known, KnownOrEvicted
        <5> QED BY <3>3, <3>6, <4>1, <5>1
      <4> QED BY <4>2, <4>3
    <3> QED BY <3>3, <3>5, <3>6
  <2> QED BY <1>4, <2>1, <2>2
<1>9. TypeOK'
  <2>1. \A i \in DOMAIN snap_storage' : snap_storage'[i] \in Game \cup {Garbage}
    BY <1>7, <1>8
  <2> QED BY <1>1, <1>2, <1>3, <1>4, <1>8, <2>1 DEF Inv, TypeOK
<1>10. GameInv'
  <2>1. OnlyThisGame'
    BY <1>1, <1>8 DEF OnlyThisGame
  <2> QED BY <1>1, <1>2, <2>1 DEF Inv, GameInv
<1>11. BaseInv'
  BY <1>1, <1>2 DEF Inv, BaseInv
<1>12. FreshInv'
  BY <1>1, <1>2 DEF Inv, FreshInv
<1>13. AckInv'
  <2>1. phase' = "Playing" => \A i \in DOMAIN snap_storage' : i <= handled_snap_id'
    BY <1>3, <1>8
  <2>2. ASSUME ready
        PROVE  /\ handled_snap_id' < snap_id
               /\ \A i \in SnapId : Acked(i)' =>
                     i <= handled_snap_id' /\ (i \in client_snap_storage => KnownOrEvicted(i)')
               /\ latest_client_snap /= None =>
                     latest_client_snap <= handled_snap_id' /\ KnownOrEvicted(latest_client_snap)'
    <3>1. loaded = game
      BY <2>2 DEF Inv, GameInv
    <3>2. m.id < snap_id /\ (m.id \in client_snap_storage => m.as_diff)
      BY <1>2, <2>2, <3>1 DEF Inv, BaseInv
    <3>3. /\ \A i \in SnapId : Acked(i) =>
                i <= handled_snap_id /\ (i \in client_snap_storage => KnownOrEvicted(i))
          /\ latest_client_snap /= None =>
                latest_client_snap <= handled_snap_id /\ KnownOrEvicted(latest_client_snap)
      BY <2>2 DEF Inv, AckInv
    <3>4. \A i : Acked(i)' => Acked(i) \/ i = m.id
      BY <1>1, <1>3 DEF Acked
    <3>5. \A i \in DOMAIN snap_storage' : Known(i)'
      BY <1>1, <1>8, <3>1 DEF Known
    <3>6. ASSUME NEW i \in SnapId, i < m.id, KnownOrEvicted(i)
          PROVE  KnownOrEvicted(i)'
      BY <1>8, <3>5, <3>6 DEF KnownOrEvicted
    <3>7. ASSUME NEW i \in SnapId, Acked(i)'
          PROVE  i <= handled_snap_id' /\ (i \in client_snap_storage => KnownOrEvicted(i)')
      <4>1. CASE i = m.id
        <5>1. i \in client_snap_storage => i \in DOMAIN snap_storage'
          BY <1>8, <3>2, <4>1
        <5>2. i \in client_snap_storage => KnownOrEvicted(i)'
          BY <3>5, <5>1 DEF KnownOrEvicted
        <5>3. i <= handled_snap_id'
          BY <1>3, <1>4, <4>1
        <5> QED BY <5>2, <5>3
      <4>2. CASE i /= m.id
        <5>1. Acked(i)
          BY <3>4, <3>7, <4>2
        <5>2. i <= handled_snap_id /\ i \in Int
          BY <3>3, <5>1 DEF SnapId
        <5>3. i < m.id /\ i <= handled_snap_id'
          BY <1>3, <1>4, <5>2
        <5> QED BY <3>3, <3>6, <5>1, <5>3
      <4> QED BY <4>1, <4>2
    <3>8. ASSUME latest_client_snap /= None
          PROVE  latest_client_snap <= handled_snap_id' /\ KnownOrEvicted(latest_client_snap)'
      <4>1. latest_client_snap \in SnapId /\ latest_client_snap \in Int
        BY <3>8 DEF Inv, TypeOK, SnapId
      <4>2. latest_client_snap < m.id /\ latest_client_snap <= handled_snap_id'
        BY <1>3, <1>4, <3>3, <3>8, <4>1
      <4>3. KnownOrEvicted(latest_client_snap)
        BY <3>3, <3>8
      <4>4. latest_client_snap' = latest_client_snap
        BY <1>1
      <4>5. \A i \in SnapId : i < m.id /\ KnownOrEvicted(i) => KnownOrEvicted(i)'
        BY <3>6
      <4> QED BY <4>1, <4>2, <4>3, <4>4, <4>5 DEF KnownOrEvicted, Known
    <3>9. handled_snap_id' < snap_id
      BY <1>3, <3>2
    <3> QED BY <3>7, <3>8, <3>9
  <2> QED BY <1>1, <2>1, <2>2 DEF AckInv
<1> QED BY <1>9, <1>10, <1>11, <1>12, <1>13 DEF Inv

----------------------------------------------------------------------------
(***************************************************************************)
(* The theorems.                                                           *)
(***************************************************************************)

LEMMA NextInv ==
    ASSUME Inv, ~Stale, [Next]_vars
    PROVE  Inv'
<1>1. ASSUME NEW g \in readies, ClientReady(g) PROVE Inv'
  BY <1>1, ClientReadyInv
<1>2. CASE Tick
  BY <1>2, TickInv
<1>3. ASSUME NEW m \in inputs, ReceiveInputs(m) PROVE Inv'
  BY <1>3, ReceiveInputsInv
<1>4. CASE Reload
  BY <1>4, ReloadInv
<1>5. CASE MapLoaded
  BY <1>5, MapLoadedInv
<1>6. ASSUME NEW g \in loads, Load(g) PROVE Inv'
  BY <1>6, LoadInv
<1>7. ASSUME NEW m \in snapshots, SnapshotStep(m) PROVE Inv'
  <2>1. CASE HandleSnapshot(m)
    BY <2>1, HandleSnapshotInv
  <2>2. CASE SkipSnapshot(m)
    BY <2>2, FewerMessages DEF SkipSnapshot, Received, clientVars
  <2>3. CASE IgnoreSnapshot(m)
    BY <2>3, FewerMessages DEF IgnoreSnapshot
  <2> QED BY <1>7, <2>1, <2>2, <2>3 DEF SnapshotStep
<1>8. CASE SendInputs
  BY <1>8, SendInputsInv
<1>9. ASSUME NEW m \in snapshots, LoseSnapshot(m) PROVE Inv'
  BY <1>9, FewerMessages DEF LoseSnapshot
<1>10. ASSUME NEW m \in inputs, LoseInputs(m) PROVE Inv'
  BY <1>10, FewerMessages DEF LoseInputs
<1>11. CASE UNCHANGED vars
  BY <1>11, FewerMessages DEF vars, netVars
<1> QED
  BY <1>1, <1>2, <1>3, <1>4, <1>5, <1>6, <1>7, <1>8, <1>9, <1>10, <1>11 DEF Next

\* When no message outlives a change of the game, the invariant holds: the variables
\* keep their types and neither side stores more than it has room for, among others.
THEOREM SyncInvariant == ASSUME ~Stale PROVE Spec => []Inv
<1>1. Inv /\ [Next]_vars => Inv'
  BY NextInv
<1> QED BY <1>1, InitInv, PTL DEF Spec

\* The base the server takes its differences to is a snapshot the client has, or one
\* it had to give up for ClientStore newer ones.
THEOREM BaseIsKnown == ASSUME ~Stale PROVE Spec => []LatestKnownOrEvicted
<1>1. Inv => LatestKnownOrEvicted
  BY DEF Inv, AckInv, LatestKnownOrEvicted, SameGame, KnownOrEvicted
<1> QED BY <1>1, SyncInvariant, PTL

\* The client decodes every snapshot to what the server sent, and keeps none of an
\* earlier game.
THEOREM NothingIsGarbled == ASSUME ~Stale PROVE Spec => []OnlyThisGame
<1>1. Inv => OnlyThisGame
  BY DEF Inv, GameInv
<1> QED BY <1>1, SyncInvariant, PTL

\* The server never goes back to an older base within a game: what it keeps is newer
\* than the base, and a new base is one it kept.
THEOREM BaseAdvances == ASSUME ~Stale PROVE Spec => BaseOnlyAdvances
<1>1. ASSUME Inv, [Next]_vars, ready, ready'
      PROVE  latest_client_snap <= latest_client_snap'
  <2>1. latest_client_snap \in Int /\ client_snap_storage \subseteq Int
    BY <1>1 DEF Inv, TypeOK, SnapId
  <2>2. \A s \in client_snap_storage : latest_client_snap < s
    BY <1>1 DEF Inv, BaseInv
  <2>3. ASSUME NEW m \in inputs, ReceiveInputs(m)
        PROVE  \/ latest_client_snap' = latest_client_snap
               \/ latest_client_snap' \in client_snap_storage
    BY <1>1, <2>3 DEF ReceiveInputs, Ack
  <2>4. ASSUME NEW g \in readies, ClientReady(g)
        PROVE  latest_client_snap' = latest_client_snap
    BY <1>1, <2>4 DEF ClientReady
  <2>5. CASE Reload
    BY <1>1, <2>5 DEF Reload
  <2>6. CASE Tick \/ MapLoaded \/ SendInputs \/ UNCHANGED vars
    BY <2>1, <2>6 DEF Tick, MapLoaded, SendInputs, serverVars, vars
  <2>7. ASSUME NEW g \in loads, Load(g)
        PROVE  latest_client_snap' = latest_client_snap
    BY <2>7 DEF Load, serverVars
  <2>8. ASSUME NEW m \in snapshots, SnapshotStep(m) \/ LoseSnapshot(m)
        PROVE  latest_client_snap' = latest_client_snap
    BY <2>8 DEF SnapshotStep, HandleSnapshot, SkipSnapshot, IgnoreSnapshot, Received,
                LoseSnapshot, serverVars
  <2>9. ASSUME NEW m \in inputs, LoseInputs(m)
        PROVE  latest_client_snap' = latest_client_snap
    BY <2>9 DEF LoseInputs, serverVars
  <2>10. \/ latest_client_snap' = latest_client_snap
         \/ latest_client_snap' \in client_snap_storage
         \/ latest_client_snap <= latest_client_snap'
    BY <1>1, <2>3, <2>4, <2>5, <2>6, <2>7, <2>8, <2>9 DEF Next
  <2>11. CASE latest_client_snap' \in client_snap_storage
    <3> DEFINE a == latest_client_snap'
    <3>1. a \in Int /\ latest_client_snap < a
      BY <2>1, <2>2, <2>11
    <3> QED BY <2>1, <3>1
  <2>12. CASE latest_client_snap' = latest_client_snap
    BY <2>1, <2>12
  <2> QED BY <2>10, <2>11, <2>12
<1>2. Inv /\ [Next]_vars => [ready /\ ready' => latest_client_snap <= latest_client_snap']_vars
  BY <1>1
<1> QED BY <1>2, SyncInvariant, PTL DEF Spec, BaseOnlyAdvances

\* While it plays a game, the client never handles an older snapshot after a newer.
THEOREM HandledAdvances == ASSUME ~Stale PROVE Spec => HandledOnlyAdvances
<1>1. ASSUME Inv, [Next]_vars, phase = "Playing", phase' = "Playing"
      PROVE  handled_snap_id <= handled_snap_id'
  <2>1. handled_snap_id \in Int /\ \A m \in snapshots : m.id \in Int
    BY <1>1 DEF Inv, TypeOK, Snapshot, SnapId
  <2>2. ASSUME NEW m \in snapshots, SnapshotStep(m) \/ LoseSnapshot(m)
        PROVE  handled_snap_id <= handled_snap_id'
    BY <2>1, <2>2 DEF SnapshotStep, HandleSnapshot, SkipSnapshot, IgnoreSnapshot,
                      LoseSnapshot, clientVars
  <2>3. ~MapLoaded
    BY <1>1 DEF MapLoaded
  <2>4. ASSUME NEW g \in loads, Load(g) PROVE FALSE
    BY <1>1, <2>4 DEF Load
  <2>5. ASSUME \E m \in inputs : ReceiveInputs(m) \/ LoseInputs(m)
        PROVE  handled_snap_id' = handled_snap_id
    BY <2>5 DEF ReceiveInputs, LoseInputs, clientVars
  <2>6. ASSUME NEW g \in readies, ClientReady(g)
        PROVE  handled_snap_id' = handled_snap_id
    BY <2>6 DEF ClientReady, clientVars
  <2>7. CASE Tick \/ Reload \/ SendInputs \/ UNCHANGED vars
    BY <2>1, <2>7 DEF Tick, Reload, SendInputs, clientVars, vars
  <2>8. handled_snap_id' = handled_snap_id \/ handled_snap_id <= handled_snap_id'
    BY <1>1, <2>2, <2>3, <2>4, <2>5, <2>6, <2>7 DEF Next
  <2> QED BY <2>1, <2>8
<1>2. Inv /\ [Next]_vars
        => [phase = "Playing" /\ phase' = "Playing" => handled_snap_id <= handled_snap_id']_vars
  BY <1>1
<1> QED BY <1>2, SyncInvariant, PTL DEF Spec, HandledOnlyAdvances

=============================================================================
