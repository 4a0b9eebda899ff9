---------------------------- MODULE EditorSync ----------------------------
(***************************************************************************)
(* Editing a map together (editor/src/server.rs, client.rs): the server    *)
(* executes the actions of its clients in the order they arrive, keeps them*)
(* as a list of action groups that is also the undo/redo list, and sends   *)
(* what it did to every client, which repeats it on a map of its own.      *)
(*                                                                         *)
(* The host is the client in the process of the server: it shares the      *)
(* server's map and is authenticated.  The clients of Client are remote.   *)
(* Messages of a connection are neither lost nor reordered (the Global     *)
(* in-order channel), so what a client received is the front of what was   *)
(* sent to it.  Requests are not kept in a channel: a request depends on   *)
(* the client's map only through the tiles of a resize, and executing it   *)
(* late is the same as the client being late with its messages.            *)
(***************************************************************************)
EXTENDS EditorActions

CONSTANTS
    Client,         \* remote clients
    Request,        \* what the users ask for: [actions, identifier]
    StartMap,       \* the map the server loaded
    BlankMap,       \* the map of a client's tab before the server sent one
    NoIdentifier,   \* the identifier of a group that takes no further actions
    MaxHistory,     \* action groups kept by the server (300)
    MaxRequests,    \* bound: requests
    MaxWork         \* bound: requests, undo and redo commands

ASSUME MaxHistoryAssumption == MaxHistory \in Nat \ {0}
ASSUME BoundsAssumption == MaxRequests \in Nat /\ MaxWork \in Nat

VARIABLES
    map,            \* the server's map
    action_groups,  \* [actions, identifier], oldest first
    cur_action_group,\* the group the map is after; 0 is None
    clients,        \* of every remote client: "gone", "connected", "authed"
    inbox,          \* messages sent to a client and not yet handled by it
    tab,            \* a client's editor tab: [state, map]
    seen,           \* history: seen[i + 1] is the map after group i
    work            \* requests and commands so far: [requests, commands]

serverVars == <<map, action_groups, cur_action_group, seen>>
clientVars == <<clients, tab>>
vars == <<serverVars, clientVars, inbox, work>>

NoTab == [state |-> "none", map |-> BlankMap]

(***************************************************************************)
(* Executing several actions in a row, from left to right.                 *)
(***************************************************************************)

\* Mutant: the actions are recorded and sent as they were asked for.
Execute_Uncorrected(actions, m) ==
    LET Step(r, a) ==
            LET d == DoAction(a, r.map, TRUE)
            IN  IF r.ok /\ d.ok THEN [ok |-> TRUE, map |-> d.map, valid |-> Append(r.valid, a)]
                                ELSE [r EXCEPT !.ok = FALSE]
    IN  FoldLeft(Step, [ok |-> TRUE, map |-> m, valid |-> <<>>], actions)

\* do_action with fix_action until the first action that is refused.
Execute(actions, m) ==
    LET Step(r, a) ==
            LET d == DoAction(a, r.map, TRUE)
            IN  IF r.ok /\ d.ok THEN [ok |-> TRUE, map |-> d.map, valid |-> Append(r.valid, d.act)]
                                ELSE [r EXCEPT !.ok = FALSE]
    IN  FoldLeft(Step, [ok |-> TRUE, map |-> m, valid |-> <<>>], actions)

\* Whether all succeed, and the map after those that do.
Redo(actions, m) ==
    LET Step(r, a) == LET d == RedoAction(a, r.map)
                      IN  [ok |-> r.ok /\ d.ok, map |-> d.map]
    IN  FoldLeft(Step, [ok |-> TRUE, map |-> m], actions)

Undo(actions, m) ==
    LET Step(r, a) == LET d == UndoAction(a, r.map)
                      IN  [ok |-> r.ok /\ d.ok, map |-> d.map]
    IN  FoldLeft(Step, [ok |-> TRUE, map |-> m], Reverse(actions))

(***************************************************************************)
(* The messages of the server.  RedoAction, UndoAction and Map are what    *)
(* changes a client's map; notices and the list of the clients do not.     *)
(***************************************************************************)
Msg(type, actions) == [type |-> type, actions |-> actions]

\* Everybody connected is told, whether it is authenticated or not.
Told(message) ==
    [c \in Client |-> IF clients[c] # "gone" THEN Append(inbox[c], message) ELSE inbox[c]]

(***************************************************************************)
(* A client that asks for a new size sends the tiles of its own map, cut   *)
(* or filled up with air (the user interface, layer_props.rs and           *)
(* group_props.rs).                                                        *)
(***************************************************************************)
Air == "air"
CopyTiles(tiles, width) == [i \in 1 .. width |-> IF i <= Len(tiles) THEN tiles[i] ELSE Air]

Filled(a, m) ==
    CASE a.op = "TileLayerAttr" ->
           [a EXCEPT !.newTiles = CopyTiles(LayerAt(m, a.at).items, a.new.width)]
      [] a.op = "PhysicsGroupAttr" ->
           [a EXCEPT !.newTiles =
               [i \in DOMAIN m.physics.layers |->
                   [kind |-> m.physics.layers[i].kind,
                    tiles |-> CopyTiles(m.physics.layers[i].tiles, a.new.width)]]]
      [] OTHER -> a

CanAsk(request, m) ==
    \A i \in DOMAIN request.actions :
        LET a == request.actions[i] IN a.op = "TileLayerAttr" => IsLayer(m, a.at, {"tile"})

Init ==
    /\ map = StartMap
    /\ action_groups = <<>>
    /\ cur_action_group = 0
    /\ clients = [c \in Client |-> "gone"]
    /\ inbox = [c \in Client |-> <<>>]
    /\ tab = [c \in Client |-> NoTab]
    /\ seen = <<StartMap>>
    /\ work = [requests |-> 0, commands |-> 0]

(***************************************************************************)
(* Connected: the connection is a client of the server at once.  Its tab   *)
(* has the blank map until the server's map arrives.                       *)
(***************************************************************************)
Connect(c) ==
    /\ clients[c] = "gone"
    /\ clients' = [clients EXCEPT ![c] = "connected"]
    /\ tab' = [tab EXCEPT ![c] = [state |-> "open", map |-> BlankMap]]
    /\ UNCHANGED <<serverVars, inbox, work>>

\* Auth with the right password (with a wrong one nothing changes): the map.
Auth(c) ==
    /\ clients[c] = "connected"
    /\ clients' = [clients EXCEPT ![c] = "authed"]
    /\ inbox' = [inbox EXCEPT ![c] = Append(@, [type |-> "Map", map |-> map])]
    /\ UNCHANGED <<serverVars, tab, work>>

Disconnect(c) ==
    /\ clients[c] # "gone"
    /\ clients' = [clients EXCEPT ![c] = "gone"]
    /\ inbox' = [inbox EXCEPT ![c] = <<>>]
    /\ tab' = [tab EXCEPT ![c] = NoTab]
    /\ UNCHANGED <<serverVars, work>>

(***************************************************************************)
(* The list of action groups after valid was executed: what was undone is  *)
(* dropped, then the actions join the last group when it has the same      *)
(* identifier, and are merged with its actions, or become a group.         *)
(***************************************************************************)
Joins(groups, identifier) ==
    /\ groups # <<>>
    /\ identifier # NoIdentifier
    /\ Last(groups).identifier = identifier

Recorded(valid, identifier) ==
    LET kept == SubSeq(action_groups, 1, cur_action_group)
        joined == [Last(kept) EXCEPT !.actions = MergeActions(@ \o valid)]
    IN  IF Joins(kept, identifier)
        THEN [kept EXCEPT ![Len(kept)] = joined]
        ELSE Append(kept, [actions |-> valid, identifier |-> identifier])

\* Mutant: nothing is forgotten.
Trim_Never(s) == s

\* No more than MaxHistory groups; the oldest is forgotten.
Trim(s) == IF Len(s) > MaxHistory THEN Tail(s) ELSE s

MayWork == work.requests + work.commands < MaxWork

Do(m, request) ==
    LET actions == [i \in DOMAIN request.actions |-> Filled(request.actions[i], m)]
        done == Execute(actions, map)
        groups == Recorded(done.valid, request.identifier)
    IN  /\ CanAsk(request, m)
        /\ work.requests < MaxRequests /\ MayWork
        /\ work' = [work EXCEPT !.requests = @ + 1]
        /\ done.valid # <<>>
        /\ map' = done.map
        /\ action_groups' = Trim(groups)
        /\ cur_action_group' = Len(Trim(groups))
        /\ seen' = LET s == Append(SubSeq(seen, 1, Len(groups)), done.map)
                   IN  IF Len(groups) > MaxHistory THEN Tail(s) ELSE s
        /\ inbox' = Told(Msg("RedoAction", done.valid))
        /\ UNCHANGED clientVars

HostRequest == \E r \in Request : Do(map, r)
ClientRequest(c) ==
    /\ clients[c] = "authed" /\ tab[c].state = "open"
    /\ \E r \in Request : Do(tab[c].map, r)

(***************************************************************************)
(* The undo and redo commands of any authenticated client.  An action that *)
(* fails is reported and the rest of the group goes on.                    *)
(***************************************************************************)
UndoCommand ==
    LET group == action_groups[cur_action_group].actions
    IN  /\ MayWork
        /\ cur_action_group > 0
        /\ action_groups # <<>>
        /\ map' = Undo(group, map).map
        /\ cur_action_group' = cur_action_group - 1
        /\ inbox' = Told(Msg("UndoAction", group))
        /\ work' = [work EXCEPT !.commands = @ + 1]
        /\ UNCHANGED <<action_groups, seen, clientVars>>

RedoCommand ==
    LET group == action_groups[cur_action_group + 1].actions
    IN  /\ MayWork
        /\ cur_action_group < Len(action_groups)
        /\ map' = Redo(group, map).map
        /\ cur_action_group' = cur_action_group + 1
        /\ inbox' = Told(Msg("RedoAction", group))
        /\ work' = [work EXCEPT !.commands = @ + 1]
        /\ UNCHANGED <<action_groups, seen, clientVars>>

(***************************************************************************)
(* A client handles a message.  When an action fails it gives up: the tab  *)
(* is closed with a critical error.                                        *)
(***************************************************************************)
Handled(t, message) ==
    IF message.type = "Map" THEN [t EXCEPT !.map = message.map]
    ELSE LET r == IF message.type = "UndoAction" THEN Undo(message.actions, t.map)
                                                 ELSE Redo(message.actions, t.map)
         IN  IF r.ok THEN [t EXCEPT !.map = r.map] ELSE [t EXCEPT !.state = "failed"]

Update(c) ==
    /\ tab[c].state = "open"
    /\ inbox[c] # <<>>
    /\ tab' = [tab EXCEPT ![c] = Handled(@, Head(inbox[c]))]
    /\ inbox' = [inbox EXCEPT ![c] = Tail(@)]
    /\ UNCHANGED <<serverVars, clients, work>>

Next ==
    \/ HostRequest
    \/ UndoCommand
    \/ RedoCommand
    \/ \E c \in Client :
          Connect(c) \/ Auth(c) \/ Disconnect(c) \/ ClientRequest(c) \/ Update(c)

Spec == Init /\ [][Next]_vars

(***************************************************************************)
(* Properties                                                              *)
(***************************************************************************)

\* No layer, quad or sound of the server's map refers to an image, a sound or an
\* animation past the end of its list, whatever was added, removed, undone and
\* redone: drawing the map indexes those lists without a check.
ReferencesInBounds == RefsInBounds(map, MapRefs(map))

\* The map the server saves can be read again: its tile layers have as many tiles
\* as their width says, its physics layers are of different kinds and of one size
\* with a game layer among them, no index is past the end of its list (what reading
\* a map checks, design.rs:33, groups.rs:80-180, map.rs:66), and a file is listed
\* once, whatever was added, merged, undone and redone.
MapIsWellFormed == WellFormed(map)

\* The server's index and its list agree, so that neither of its two panics
\* (server.rs:592, 598) is reached, and the list does not grow without end.
HistoryBounds ==
    /\ cur_action_group \in 0 .. Len(action_groups)
    /\ Len(action_groups) <= MaxHistory
    /\ Len(seen) = Len(action_groups) + 1

\* Undo and redo go back and forth between the maps there were, although actions of
\* a group are merged, their old_* fields corrected and the oldest groups forgotten:
\* the server's list of actions implements a list of maps.
History == INSTANCE UndoList WITH Start <- StartMap, maps <- seen,
                                  at <- cur_action_group + 1, value <- map
ImplementsUndoList == History!Spec

\* Undoing the last group and redoing the next never fails: the server reports a
\* failure as "probably indicates a bug in the code" (server.rs:556-558).
HistoryApplies ==
    /\ cur_action_group > 0 => Undo(action_groups[cur_action_group].actions, map).ok
    /\ cur_action_group < Len(action_groups) =>
          Redo(action_groups[cur_action_group + 1].actions, map).ok

\* A client that is authenticated and did not fail before its map arrived: what it
\* still has to handle, from the map on, leads it to the server's map without an
\* error, whatever was merged, undone and redone meanwhile.
Pending(c) ==
    LET maps == {i \in DOMAIN inbox[c] : inbox[c][i].type = "Map"}
        first == IF maps = {} THEN 1 ELSE CHOOSE i \in maps : TRUE
    IN  SubSeq(inbox[c], first, Len(inbox[c]))

ClientsFollow ==
    \A c \in Client : clients[c] = "authed" /\ tab[c].state = "open" =>
        FoldLeft(Handled, tab[c], Pending(c)) = [state |-> "open", map |-> map]
=============================================================================
