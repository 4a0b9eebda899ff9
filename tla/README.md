# A verification project for ddnet-rs

ddnet-rs is a multiplayer game: a server that simulates a world in ticks, clients
that predict it, and a network library (QUIC) between them. These TLA+ modules
model the parts of it where a test hardly reaches: what the server does with
connections, clients, players and votes while messages, timeouts, disconnects and
map changes interleave; what the tasks of the network library do to order and to
the bookkeeping of connections; how server and client agree on snapshots and on
inputs over a network that loses and reorders; how the control bridge holds the
server's thread; and how several people edit one map with one list of undo steps. Every definition is translated from the source; `PROJECT.json` names
the lines it stands for.

Paths are relative to the repository. `server.rs` is
`game/game-server/src/server.rs`, `control.rs` is `game/game-server/src/control.rs`,
`active.rs` is `src/client/game/active.rs`, `action_logic.rs` is
`game/editor/src/action_logic.rs`, and the network files are those of
`lib/network/src/network/`. In the parts about the editor `server.rs` and `client.rs`
are those of `game/editor/src/`.

Contents: [the system](#the-system), [the modules](#the-modules),
[the runs](#the-runs), [fairness](#fairness), [the proofs](#the-proofs),
[what the runs found](#what-the-runs-found), [the plan](#the-plan),
[what is not modelled](#what-is-not-modelled).

## The system

### Parts, state and operations

| part | state | operations | modelled by |
|---|---|---|---|
| network library (`connections.rs`, `network_async.rs`, `connection_*.rs`) | map of connections, bans, total, counts per address | accept, ask the plugins, announce, kick, ban, disconnect; a task for each | `ConnectionLifecycle` |
| its channels (`quinn_network.rs`, `network_async.rs`) | queue of packets per channel, streams | send in order, push, write one, close | `OrderedSend` |
| event queue (`game-network/src/game_event_generator.rs`) | events and messages between the network's thread and the program's | push, drain | planned |
| server, admission (`server.rs`) | four maps of clients, counter of players, queue | connect, password, disconnect, ready, add and remove players, reload | `ServerClients` |
| server, votes (`server.rs`) | the running vote: tallies, ballots, bound | start, vote, leave, end | `ServerVotes` |
| server, snapshots (`server.rs`, `client.rs`) | per client: id, base, storage | first snapshot, tick, acknowledgement, reload | `SnapshotSync` |
| inputs (`data.rs`, `active.rs`, `server.rs`, `server_game.rs`) | the client's storage and base, the server's storage and queued inputs | send and repeat, confirm, decode a chain, queue, apply in a tick | `InputSync` |
| control bridge (`control.rs`) | permits, queue of inputs, last state, broadcast channel | step, input, wait for a tick, publish, close | `ControlBridge` |
| internal server of a client (`local_server.rs`, `local_server_info.rs`) | state shared by client and server thread | start, replace, connect, error, drop | planned |
| client, connection and game (`client/game.rs`, `active.rs`, `data.rs`) | loading or playing, snapshots, acknowledgements, prediction | load, ready, decode, handle, store, acknowledge | `SnapshotSync`, partly |
| game (`game/vanilla`) | stages, characters, match | tick | planned, the match only |
| map editor (`game/editor/src/action_logic.rs`, `server.rs`, `client.rs`) | a map on every side, the server's list of action groups | execute, merge, undo, redo, broadcast, join | `EditorActions`, `EditorSync` |
| tasks, pool, cache, auto updater, master server | see below | | planned or left out |

### How the parts interact

The network runs on a thread of its own with a runtime of tasks; every incoming
connection, every ordered packet and every kick is a task. What the tasks learn
goes through the event queue to the server's thread, which runs one loop: handle
everything that is queued, end votes, tick as often as time asks for (and,
with a control bridge, as permits allow), send snapshots. The server calls back
into the network only through messages, so it kicks a client that may be gone
and hears of clients that are gone already. A reload (`load_impl`) replaces the
game under all clients: it is the event that meets messages of the past. The
control bridge is shared memory between the server's thread and tasks of
websocket connections. A client that hosts its own server shares a mutex with it.
The editor has a server of its own, in the process of the client that hosts it; all
its messages go through one ordered channel, so that a client of it is only late,
never out of order.

### What is hard, and what makes each part correct

* **Admission.** A client is admitted before it says how many players it brings,
  and the counter the limit is tested with changes on other events than the maps
  it stands for. Correct means: a connection is in one map, everyone is counted,
  limits hold, slots go to the front of the queue, the game and the clients agree
  on the players.
* **Votes.** Tallies are kept beside the ballots and compared by equality while
  voters of shared addresses come and go. Correct means: the tallies count
  the ballots of those present, cannot pass the bound, only a majority passes,
  every vote ends.
* **Connections.** Plugins keep counts that tasks change between each other's
  steps; a later plugin may refuse what an earlier one counted; bans and kicks
  cross connection attempts. Correct means: exact books, limits at every
  moment, no one slips past a ban, the server hears of every end.
* **Ordered channels.** Tasks run in any order and move packets that are not
  theirs. Correct means: order, no gaps, nothing left behind.
* **Snapshots.** Two bounded storages on two sides of an unreliable network have
  to keep agreeing on one base, over changes of the game that restart the ids.
* **Inputs.** The same between client and server in the other direction, with
  every input repeated in several chains, confirmed by snapshots that are lost, and
  applied at once or in a later tick. Correct means: in order, every click once, the
  last one arrives, and both sides mean the same input by a message's id.
* **Control bridge.** A condition variable, three mutexes, a broadcast channel
  that drops and a thread that is blocked in the middle of its own loop.
* **Map editor.** Actions are made against a map that is behind, corrected, merged
  while a drag goes on, undone and redone by anybody, and repeated by clients that
  cannot refuse them. Correct means: undo and redo go back and forth between maps there
  were, the clients end with the server's map, and nothing refers to what was
  removed.

`PROJECT.json` lists the hazards line by line with the properties aimed at them.

## The modules

Each component has its module; `MC*` modules give constants to TLC; `*Proofs`
modules hold theorems. Definitions with a suffix after an underscore
(`AskLimit_AtTheLimit`) are mutants, plausible bugs of the definition after
them: each property is known to notice one (`PROJECT.json`, "mutants").

### ServerClients

The maps `password_clients`, `network_queued_clients`, `network_clients` and
`clients` of `server.rs` have their names; `players` is what the clients' own
maps hold, `game_players` what the game holds. The server's loop handles one event at
a time, so an action is an event: `Connected`, `PasswordResponse`, `Disconnected`,
`Ready`, `AddLocalPlayer`, `RemLocalPlayer`, `Load` (`load_impl`), `SetPassword`
(rcon). Only the loop in `client_disconnect` that hands out freed slots is
several steps (`PromoteQueued`); nothing else runs while `slots_to_hand_out` is
not zero, so it is the same as one step, but its iterations can be looked at.
`TryClientConnect` is one operator as in the code, with the queue it is called
with as an argument, because an iteration removes the front and may append it
again. `told` is the position last sent to a waiting client.

### ServerVotes

`cur_vote` is the record `ServerVote`; ballots belong to networks (addresses), so
`ip` is a constant function and two connections may share one. `ClientReady` and
`ClientDisconnected` are what those events do to a vote. `EndVote` is the test in the
main loop with the equalities as written, and what it does: load a map,
or anything else. A reload ends the vote without a result.

### ConnectionLifecycle

`task` is the program counter of a connection's task, `passed` how many plugins
said yes and were not told of the end. The bans, the total and the count per
address are separate variables because separate locks guard them; a step is
what happens under one. `MaxConnections::on_connect` is two steps (`AskLimit`,
`Over`): the counter is an atomic that is added to before it is compared. `Kick` is
a task of its own that may run at any time after it was started. The server is reduced to what
it knows of connections.

### ReliableOrdered and OrderedSend

`ReliableOrdered` is the promise of the enumeration of send types: per channel
what is written is what was sent, in order, without a gap, until the connection is
being closed. `OrderedSend` is how it is kept: a task for each packet that looks
up the connection, moves the packet in front (not its own) to the connection's
queue, then writes the packet in front of that. `OrderedSend` implements
`ReliableOrdered` (`InOrderWithoutGaps`) with `sent` and `wire` mapped to
themselves and `ended` to `~found`.

### SnapshotSync

One server, one client, four sets of messages. What a snapshot contains is reduced
to the game it was taken in: together with its id that identifies it, and it
is enough to tell whether a difference was applied to the snapshot it was taken
from. `Tick` builds and sends, `ReceiveInputs` applies acknowledgements,
`Reload` and `ClientReady` start over; `MapLoaded`, `Load`, `HandleSnapshot`,
`SkipSnapshot`, `IgnoreSnapshot` and `SendInputs` are the client. Sets of messages are
reordered by construction; `LoseSnapshot` and `LoseInputs` lose. `Stale`
says whether a message may arrive in another game than it was sent in.

### ControlBridge

`pc` walks through the server's loop: events, ticks that are due, the gate,
sleeping at it, the tick, the two halves of `publish_state`, closing. A control connection is a
command handler (`Step`, `NewInput`, `QueueInput`) and a writer (`WriteResponse`,
`WriteState`, `Lagged`). `NewInput` and `QueueInput` are two steps because they
hold two locks one after the other. `Spurious` wakes the sleeper for no reason, as
a condition variable may.

### InputSync and InputStream

One player of one client. What an input holds is the number of clicks made until then, which
only grows; together with the version that is what the order of inputs shows in. The
client: `Click`, `FlushInputs` and `FlushAcks` (the two outcomes of
`flush_player_inputs`), `PredictTick`, `ReceiveSnapshot`. The server:
`ReceiveInputs` decodes a chain, stores its last input (`Stored`, `Insert`), and
`PlayerInp` applies what is due and queues the rest; `ServerTick` takes out what is
queued for it and sends a snapshot. Messages and snapshots are sets, so that they overtake each
other; `LoseInputs` loses a message, and a snapshot that is never received is lost.
A difference applied to another input than it was taken from gives `Garbage`.

`InputStream` is what a player is promised: inputs are made one after the other,
the game goes over to a later one, never back, and fires as often as the clicks between
the two say. `InputSync` implements it (`ImplementsInputStream`) with `made` and
`fired` mapped to themselves and `applied` to the version of `player_inp`.

### EditorActions, EditorSync and UndoList

`EditorActions` translates `action_logic.rs`: an operator for what each kind of
action does to a map, its checks, its correction of the old values (`fix`), what it
is undone with (`UndoForm`) and when two actions merge (`MergeTwo`). A map is its groups, layers,
lists of files and animations, physics layers and names; tiles are one row, colours
and contents are opaque. What a layer or an item refers to is a set of indices,
because removing what is still referred to is the danger. The kinds of action that
only replace one value by another are one operator, `DoChange`. The types at the end say
what maps and actions there are; `WellFormed` is what reading a map from a file checks (a
design tile layer has the size it says, `design.rs:33`; physics layers of different kinds and one size,
`groups.rs:80`; no index past the end of its list, `map.rs:66`) together with what `do_action` keeps
besides: a game layer, and every file once. The opaque `Arbitrary` layers of either kind are left out.

`EditorSync` is the editor's server and its remote clients: `Do` (the host's requests and
those of a client, made on the client's own map), `UndoCommand`, `RedoCommand`,
`Connect`, `Auth`, `Disconnect` and `Update`, in which a client handles a
message. `seen` is history: the maps that the list of action groups should stand for.

`UndoList` is what whoever edits is promised: a list of maps and a place in it. It has no
actions, no merging and no inverse; `EditorSync` implements it
(`ImplementsUndoList`) with `maps` mapped to `seen`, `at` to `cur_action_group + 1`
and `value` to the server's map.

## The runs

| run | instance | asks | result |
|---|---|---|---|
| `clients` | 4 connections, 3 local ids, 4 slots, 2 players per client | limits, exact maps, counter, queue order | holds |
| `clients_empty` | the same | nobody connected, nobody counted | violated |
| `votes` | 4 clients, 3 addresses, two clients share one | tallies, bound, majority, every vote ends | holds |
| `connections` | 3 connections, 2 of one address, 2 allowed in all, 1 per address | books, limits, bans, ends | holds |
| `ordered_send` | 2 channels, 3 streams, 4 packets | refinement of `ReliableOrdered`, one task per packet, all is written | holds |
| `ordered_send_loss` | 3 channels, 3 streams | all is written | violated |
| `snapshots` | storages of 2 and 2, ids to 3, one reload, losses | base known or evicted, one game, only forward, the last snapshot is handled | holds |
| `control` | 2 connections, channel of 2, 2 permits, 2 inputs, a deterministic client, stopping | permits, wakeups, newest input, order, permits are used, states are written | holds |
| `control_stop` | no connection that helps | a dropped server thread ends | violated |
| `editor` | host and one remote client, 24 requests, 3 of them and 4 steps in all, 2 groups | history, references, the map can be saved and read, undo and redo apply, clients follow, refinement of `UndoList` | holds |
| `editor_undo` | host, 3 requests that resize and paint one layer | undo and redo apply | violated |
| `inputs` | storages of 2 and 3, 2 clicks in 4 ticks, one message lost | starts of chains known, queue emptied, refinement of `InputStream`, the last click arrives | holds |

### Bounds, and why they are enough

* `clients`: four slots and four clients of up to two players make the server full in
  several ways (by clients that load, by players, by both) and put clients into
  the queue as soon as some bring two players. Two players are the
  least that exercise `RemLocalPlayer` and a disconnect that frees more than one
  slot; three ids the least with a choice between them. The model has no bound of
  its own: the counter never passes `MaxPlayers`. Connections and local ids are
  symmetric: no definition distinguishes them (`AdmittedFromTheFront` is a step
  property that quantifies over connections).
* `votes`: three networks are the least for a vote against a player (the code asks
  for more than two), and one shared address is the case the ballots are
  delicate in. There is no other bound.
* `connections`: three connections, two of one address, can meet all three
  refusals, the last after two plugins counted. Ids are not reused by the code,
  so a connection that ended does not come back.
* `ordered_send`: four packets on two channels interleave two tasks within a
  channel and across both. `NumBidiStreams` is 3 where the code has 10
  (`traits.rs:59`): what matters is whether a channel finds a stream of its own,
  as both do here, or not, as in `ordered_send_loss`.
* `snapshots`: the sizes do not matter to the safety properties, which are proved for
  every size; storages of two (10 and 50 in the code) are the least in which something
  is evicted and something stays, and four ids and a snapshot
  every tick fill both. `MaxGame = 1` is one reload, the least for messages that cross it. Any number
  of messages may be under way at once.
* `control`: two permits are the least for a permit that arrives while another
  is used; a channel of two overflows with the state before the first tick and two ticks.
  Handing out is bounded by `MaxPermits`, far below where `saturating_add` matters.
* `editor`: three requests are the least for one that joins a group, one that does not and one after
  an undo; with two groups remembered the third is the one that makes the server
  forget. A fourth step leaves room for an undo or redo between any of them. The 24
  requests have one of every kind of action that changes what indices mean, and
  every way of merging; the map has one or two of everything they need. One remote client is
  enough, because clients do not depend on each other, only on what the server sent.
* `editor_undo`: three requests with one identifier, undo and redo.
* `inputs`: `ClientStore = 2` and `ServerStore = 3` keep the order of the code's sizes (10 and 50) and
  both fill up within four ticks; `TicksToSend = 2` is the least with a repetition, and one loss less than that is what
  a click survives. `MaxAhead = 3` lets inputs wait in the queue. The same
  safety properties are proved for every value of these.

Deadlock is checked wherever the system cannot stop: `clients`, `votes`,
`connections`. It is off where a bound stops the model (all packets sent, all
permits used, the last snapshot id, the last tick, the last edit), as the cfg says.

`snapshots` sets `Stale = FALSE`: the properties then hold for games whose
messages do not outlive them. What goes wrong otherwise is described under
[what the runs found](#what-the-runs-found).

The requests of `editor` leave out what is known to break its properties: a resize
that makes a layer smaller (the subject of `editor_undo`), a change of the physics group's
attributes, the replacement of an animation, names that become blank again,
the messages of tune zones, and groups added with references of their own. The two actions that change the index of a layer's
image or sound are sent by the editor's debug mode only (`game/editor/src/dbg/valid.rs`).
The assumption `RequestsAreExact` of `MCEditorSync` has TLC check that all requests but
the resize and the change of a name are what the [theorems](#editorsyncproofs) suppose, and that the map is.

## Fairness

* `votes`: weak fairness of `TimePasses` (25 seconds pass) and `EndVote` (the main loop
  tests the vote every iteration). Clients owe nothing.
* `ordered_send`: weak fairness of every task: the runtime schedules tasks that
  are ready, and a write that waits for the peer fails when the connection closes.
* `snapshots`: weak fairness of the server's ticks, of loading a map, of sending inputs, of a
  `Ready` and a `Load` that are under way (they are sent reliably), and of handling some snapshot. Snapshots are sent
  every tick and only finitely many can be lost before the last one, which is handled or stays behind a base
  that was evicted: `LastSnapshotIsHandled` says so.
* `control`: weak fairness of the server thread, and of the connections' tasks taken together: each has finitely many things to do here, so that none is passed over for ever. Strong
  fairness of `NextTick`, because time passes while the loop runs between
  `events` and `ticks`, so a tick is due again and again and not for ever
  continuously. `StatesAreWritten` excepts a writer that lagged and is muted.
* `inputs`: weak fairness of frames (`FlushInputs`, `PredictTick`), of the server's tick and of
  some message being received. Confirmations need no fairness: the last click
  arrives without any. `LastInputArrives` assumes that no input under way is
  unusable, and the run that fewer messages are lost than an input is sent in.
* `editor`: no fairness; nothing of what it checks says that something must happen.

## The proofs

TLAPS checks the theorems for every value of the constants; TLC's runs check the same
formulas on the instances. The assumptions are those of the modules: finite
sets, positive limits, types of the constants.

### ServerClientsProofs

`TypeCorrect` proves `[]TypeOK`; `CountInvariant` proves `[]CountInv`, with

    CountInv == TypeOK /\ EveryoneIsCounted /\ ReadyClientsHavePlayers
                /\ player_count_of_all_clients <= MaxPlayers

None of the parts is inductive alone. A reload turns every ready client into
one that loads, which needs a unit of the counter each: `EveryoneIsCounted`
survives because every ready client has a player that held one
(`ReadyClientsHavePlayers`, and `NoMoreClientsThanPlayers`, by a surjection from
players to clients). That the limit holds follows from the counter's own bound,
not from the sets: the counter may be above them for ever (see `clients_empty`),
never below. What `client_disconnect` subtracts is what the sets lose
(`RemovingAClientsPlayers`). From it follow `EveryoneCounted` (the subtractions
on a `usize` cannot wrap), `NeverOverfull`, and `NoClientWithoutPlayer` (the
assertion of `AddLocalPlayer` cannot fail).

`OneMap` is an invariant of its own: an event takes a connection out of the map it
finds it in before it puts it into another. From it follow `FrontFirst` (who leaves the queue for the game was in
front of it: nobody else could have been in both) and `FewPerClient` (`Ready` sets the players of
a client that has none, because it was in no other map). `GameAgrees` compares the two sides' players after every event.

### ServerVotesProofs

`VoteInvariant` proves `TypeOK /\ TallyMatchesBallots /\ OnlyPresentNetworksVote`.
Types need the tallies' meaning: that a tally stays a natural number when a
ballot is taken off it holds because the ballot was counted. A
ballot that changes moves between two sets, one of a leaving network leaves its
set; `BallotCast` and `BallotTaken` say what that does to the cardinalities. `TalliesBounded` follows because the two sets are disjoint
subsets of the networks present. `MajorityPasses` follows because a vote that
passed is a copy of one for which the invariant held.

### ControlBridgeProofs

`BridgeInvariant` joins three parts that do not depend on each other.
`GateInv`: permits are accounted for, and the gate is closed only after the
loop; `PermitsAreExact` and `NobodySleepsOnAPermit` are consequences. `InputInv`
says where the newest version is: in the game, in the queue or in the hand of a
command; it is needed because `NewestInputWins` speaks only of moments when
nothing is queued. `StateInv` orders what a connection wrote, what it has yet
to receive and what the server will publish: without the middle part
`StatesInOrder` is not inductive. That `player_inp` over a queue keeps
the maximum is `AppliedIsNewest`, from well-foundedness.

### ConnectionLifecycleProofs

`LifecycleInvariant` proves `[]Inv`, where `Inv` joins types, the three formulas
on books, limits and bans, `NoGhosts` and three parts they rest on. The counts can
only be compared with sets of connections when it is known which plugins a task has
passed at which point (`PassedInv`); a kick that finds no entry is harmless only because
an entry that is gone belongs to a connection that was closed (`ClosedInv`);
and that the server keeps nobody whose end it will not hear of needs the order of
the events a task still sends (`EventInv`). One connection more or less
changes a cardinality by one: `AddOne` and `RemoveOne`. `BooksAreExact`,
`LimitsHold`, `NobodySlipsPastABan` and `EveryEndIsHeard` follow.

### SnapshotSyncProofs

All of it under the assumption `~Stale`, without which it is false (see [below](#what-the-runs-found)). `SyncInvariant` proves `[]Inv`. `LatestKnownOrEvicted` speaks of
the base alone, but a base is a snapshot that was confirmed, so `AckInv` says
the same of every snapshot whose confirmation the server may yet receive. To
preserve it, a snapshot that is handled must be newer than everything stored, so that
nothing is overwritten and only the oldest is evicted (`KeptSnapshots`, by
well-foundedness, and `StoredSnapshot`); an id the server takes must be newer than everything
confirmed (`BaseInv`); and a `Ready` must find nothing of its game under way
(`FreshInv`), which needs to know who is in which game (`GameInv`).
`BaseIsKnown`, `NothingIsGarbled`, `BaseAdvances` and `HandledAdvances` follow.

### OrderedSendProofs

`TasksMatchPackets` needs nothing but types: a task that moves on and the packet it takes leave
their sets together. `SentInOrder` is the refinement of `ReliableOrdered`, under
`EnoughStreams` (fewer channels than streams), without which `ordered_send_loss` shows that it is false. Its invariant
`Lines` says that what was sent on a channel is what was written, then what the
connection has queued, then what the network has queued; from the moment the entry
of the connection is gone only that these three are in order. It is
preserved because a packet stays in its own channel (`OwnTarget`, by counting
streams, and `OwnSource`), and moving a packet from the front of one
sequence to the back of another does not change what they are together (`MoveKeepsConcat`).

### InputSyncProofs

`InputsAreReal` proves the invariant the others rest on. `Real`: every input either
side holds, in a chain, a queue or a storage, is one the client made, with the clicks of its version.
`Agree`: whoever speaks of the input of a message's id, the client's storage, its base, the
server's storage, the end of one chain or the start of another, means the same input;
so a difference is never applied to the wrong one and `Garbage` does
not arise. `InputsInOrder` (the refinement of `InputStream`) and `QueueIsEmptied` follow.

`StartsAreKnown` proves `BaseIsKnown`. The server forgets only the oldest input
of a full storage, so it still has one that fewer than `ServerStore` messages came after, if it
ever stored it (`InsertKeeps`); and it stored every input whose confirmation the client can
still use (`Held`), because the start of its chain was known and `as_diff` says on both
sides which inputs are kept (`Ids`). That stops being true when the client falls behind, which is what `~behind` says.

### EditorSyncProofs

`HistoryStaysInBounds`: the index of the current group is in the list and the list
within its limit, through joining, truncation and forgetting; `GroupAlwaysExists`
says it as the code needs it: the group an undo or redo command looks up is there.
Both hold for any requests whatever.

The other theorems suppose `ExactRequests`: the map the server loaded is well-formed, and every
requested action is an `ExactAction`. These are all kinds of action but five: changes that may carry
a size (tile layers, the physics group: two of them merged lose tiles, which is what
`editor_undo` shows), changes of the names of teleporters, switches and tune zones (two of them merged may be
refused when redone, or lose a message), replaced animations (undo does not bring
the old one back), the sound index of a layer (on a layer of another kind it succeeds with any old index, also one that undo refuses), and added
groups whose layers refer to something (nobody looks whether it exists). So the hypothesis excludes what is known to
break the properties, and nothing about the clients: old values in a request may be anything, requests may fail
midway, come from a client whose map is behind, and join any group.
For all such requests, whatever their number and the number of clients, and for a
list of any length:

* `MapStaysWellFormed` and `ReferencesStayInBounds`: the server's map can be saved and read again;
* `HistoryAlwaysApplies`: the next undo and the next redo never fail;
* `ServerImplementsUndoList`: the server refines `UndoList`, so undo and redo lead to
  the very maps there were;
* `ClientsAlwaysFollow`: a client that has handled what it was sent has the server's map.

The argument has four layers. (1) An action is described by its *effect*, a
relation between the map before and the map after without guards or corrections: for instance
"n is m with these items between two parts of the layer's items". A removal has the effect of the addition
turned round. `ActionsAreUndone`: an action that is done, with corrected
old values, has its effect; whatever has its effect on m can be redone on m and undone on
the map after it, and leads to the same maps. Here every guard of `do_action` and every clause of
`UndoForm` is used. (2) `MergedEffect`: when two actions with effects in a row merge, the merged action has the effect of both. Adding
items inside or at the edge of added items, removing at the edge, moving on what was moved and
changing again what was changed are the cases.
(3) Lists: `MergeLeads`, `RedoLeads`, `UndoLeads` and `ExecuteLeads` carry this over to the lists
of actions that are merged, redone, undone from the end, and executed until one fails. Each is a fold, which
is taken apart by induction on its length over a set that states the claim
(`NatSetInduction`), since the induction rules with an operator parameter cannot be used.
`MergedGroupsAreUndone` is the outcome in the code's terms: two requests executed one after the other and merged into
one group are redone and undone by that group, whatever part of them was executed.
(4) The inductive invariant `EditorInv` of the system: `EditInv` says that `seen` is a row of well-formed maps, that
the i-th action group leads from the i-th map to the next (`Linked`), and that the map there is is
the one at `cur_action_group + 1`; `ClientsInv` says that what is on its way to a client is a row of messages each of which
leads on, from the map in its tab (or the map that was sent) to the server's map (`Following`). It is needed because `HistoryApplies` speaks of the next undo only:
that the one after it applies as well depends on the whole list, and `ClientsFollow`
on every message that is still in the queue.

### Model-checked only

Liveness (`EveryVoteEnds`, `EveryPacketIsWritten`, `LastSnapshotIsHandled`,
`PermitsAreUsed`, `StatesAreWritten`, `LastInputArrives`) is beyond the prover, as are statements
with ENABLED. Every safety property and every refinement the passing runs check is proved; those of the editor
under `ExactRequests`, and TLC checks them on the run's requests beyond it (`Resize`, `TeleName`).

## What the runs found

Four runs end in a violation, each of a sentence the repository says:

* `clients_empty`: `player_count_of_all_clients` keeps units for ever:
  `RemLocalPlayer` does not give its unit back, and `load_impl` moves a client with
  several players to loading, where it stands for one. The server loses slots until
  it is restarted. `config.rs:639` says `max_players` limits who is playing.
* `ordered_send_loss`: once the channels have used up their streams, every packet
  is put into the Global channel's queue, also one whose channel exists; but a
  task whose channel exists looks for packets there, finds none, and its packet
  stays behind until another Global packet is sent, which then stays behind in
  its turn (`types.rs:33`: "packet loss **not** possible").
* `control_stop`: dropping the internal server clears `is_open` and joins a thread that
  waits for a permit; only that thread closes the gate.
* `editor_undo`: dragging the width of a tile layer down and up again merges into one action
  with the old tiles of the first step and the new tiles of the last. Its old and new size are equal, so
  `do_action` does not touch the tiles: what the drag destroyed does not come back by undo, and the next
  undo or redo fails, of which the server says that it "probably indicates a bug in the code"
  (`server.rs:556`).

Seen while modelling, without a run of its own:

* Admission adds `network_clients.len()` to a counter that holds those clients
  already (`server.rs:1015`): clients queue before the server is full. Positions
  told after somebody leaves the queue are one too low (`server.rs:1111`, `1086`).
* A disconnect removes the ballot of an address although another client of it
  is still there (`server.rs:1169`).
* Refused connections keep their entry in the map of connections
  (`connections.rs:430`); attempts that are refused count towards the total while they are
  being refused (`connection_limit.rs:40`), so a server that is not full can refuse.
* Snapshots sent with `as_diff = false` are kept by neither side but confirmed: when
  the confirmations before them are lost, the base can be evicted on the client
  (`server.rs:1749`, `active.rs:459`); `LatestKnownOrEvicted` allows exactly that.
  A snapshot of the old game that arrives while the client already plays the
  new one is handled as its first (`active.rs:453`).
* A writer that lagged stays mute until its connection sends a command
  (`control.rs:404`); a tick published between greeting and subscription is
  missed (`control.rs:391`); commands after the close are acknowledged
  (`control.rs:456`).
* With `Stale = TRUE`, a `Ready` of the old game that arrives after a reload is
  taken for one of the new game. The client confirms the snapshot it is sent,
  then handles the `Load` and forgets it; its own `Ready` is answered with
  "already ready" and resets nothing, so all further differences are to a
  snapshot the client does not have (`client.rs:112`: "latest snap id the client
  knows about"). And ids start over with a new game, so that a late confirmation of the
  old one can be taken for one of the new.
* Inputs whose start the server lacks are dropped but acknowledged
  (`server.rs:2467`). The client then takes its next differences to an input the
  server never stored, and so on: once it has fallen behind by the size of the server's storage, no input
  may arrive any more (`server.rs:2509`, `active.rs:255` say that the storages prevent this).
* Inputs three seconds or more ahead of the server are dropped but acknowledged
  (`server_game.rs:675`). The inputs of a control connection have versions of their own, so that
  they are ignored once the player's own client has sent more (`server_game.rs:660`).
* A rejected `Ready` after a reload removes players the client
  should have kept waiting for (`active.rs:900`). A started ban vote bans the connection
  and address it named when it began (`server.rs:3236`).
* `start_local_server` drops the old thread while it holds the lock that thread
  needs to end (`local_server.rs:29`, `server.rs:877`).

* Editor: an event is broadcast to clients that have connected but not been sent the map; the
  actions fail on their empty map and they close the tab with a critical error
  (`client.rs:259`). Merging two changes of a tune zone drops the messages of the second
  (`action_logic.rs:499`). Undoing the replacement of an animation replaces it
  once more (`action_logic.rs:3730`). A change of the physics group's attributes that keeps the size
  keeps the sender's tiles in the action, which a merge may bring back (`action_logic.rs:2233`). A name
  set and cleared again under one identifier merges into an action that changes nothing to
  nothing, and is refused when redone. `AddGroup` does not look at the references of its layers.
  Adding or removing quads or sounds on a layer of another kind succeeds and does nothing.
  The answer to an administrator's login is sent to every client (`server.rs:654`).

## The plan

Done, in this order: `ServerClients`, `ServerVotes`, `ConnectionLifecycle`,
`OrderedSend` with `ReliableOrdered`, `SnapshotSync`, `ControlBridge`, `EditorActions` and
`EditorSync` with `UndoList`, `InputSync` with `InputStream`; proofs about each of them.

Next modules:

1. `LocalServer`: the state shared by client and internal server, its lock and the join
   under it; invariants on which thread owns it, a deadlock run.
2. `EventQueue`: the queue between the threads, with the asynchronous account rename.
3. `Server`, composing `ServerClients` with `ConnectionLifecycle`: `Connected`
   and `Disconnected` are the events of the network there; the promise
   `NoGhosts` is the assumption of the one and the guarantee of the other.
   Abstract specification: who is connected and told so.
4. `IoTask` (tasks with cancellation), `AutoUpdater` (crash between download and replacement),
   `ObjectPool`, `VanillaMatch` (warmup, sudden death), the discrete part of the prediction timer.

Theorems worth proving next: for `SnapshotSync` with `Stale = TRUE`, what is left when a
message of another game may arrive; for the editor, names that do not become blank
again as further exact actions (they need `NameTable` to be closed under a change), and
`MapIsWellFormed` for the actions that are not exact, as long as no group that
refers to something is added or removed: undoing such a removal brings back references nobody checks.

Runs worth adding: liveness of `ConnectionLifecycle` (every kicked connection
ends), the divergences listed above that a document contradicts, larger
instances of `snapshots` and `editor`.

## What is not modelled

Rendering, sound, user interface, resources, demos and ghosts: no state the
program's behaviour depends on, or device drivers. Physics (`game/vanilla`):
arithmetic beyond TLC; the match state is planned. Accounts, the
master server, databases: requests to external services. Maps, converters, configuration,
the legacy proxy: formats without concurrency. The wasm runtime: glue. `PROJECT.json`,
"components", has every part with its reason.

Inside the modelled parts, these are abstracted: names, skins and accounts (no
effect on admission), the text of messages, certificates and outgoing
connections, the content of snapshots (the game they are from), inputs (their
versions and clicks), time (a due tick, an expired vote, an expired ban are choices).
Of the editor: the auto mapper and live edit (they are turned into actions before they are
executed), chat, administration, saving, tools and drawing. Of the inputs: their other fields,
dummies, and how devices are assigned to players.
