--------------------------- MODULE EditorActions ---------------------------
(***************************************************************************)
(* The actions of the map editor (action_logic.rs): what do_action does to *)
(* a map, how an action is undone, and how actions of one action group are *)
(* merged.                                                                 *)
(*                                                                         *)
(* A map is a record                                                       *)
(*   groups   the design groups, by side: sequences of [name, attr, layers]*)
(*   physics  the physics group [attr, layers]                             *)
(*   lists    images, image arrays, sounds and the three kinds of          *)
(*            animations: sequences of values                              *)
(*   config   commands, config variables and meta data                     *)
(* A design layer is [kind, name, attr, items]; the items of a tile layer  *)
(* are its tiles (one row, so that a layer's size is attr.width), those of *)
(* a quad or sound layer are its quads and sounds.  What attributes and    *)
(* items refer to is kept as a set ref of [list, index].  Colours, offsets *)
(* and file contents are opaque values.  Indices start at 1.               *)
(*                                                                         *)
(* An operator Do... returns whether the action is allowed, the map after  *)
(* it, and the action with its old_* fields corrected (fix_action).  An    *)
(* action that is not allowed leaves the map as it is.                     *)
(***************************************************************************)
EXTENDS Integers, Sequences, FiniteSets, SequencesExt

CONSTANTS
    Value,          \* what is not looked into: names, colours, tiles, files
    NameTable       \* the names of a physics layer: functions from numbers to entries

Done(m, a) == [ok |-> TRUE, map |-> m, act |-> a]
Refused(m, a) == [ok |-> FALSE, map |-> m, act |-> a]

(***************************************************************************)
(* Places of the map.  A place is [side, group, layer].                    *)
(***************************************************************************)
HasGroup(m, at) == at.group \in DOMAIN m.groups[at.side]
Layers(m, at) == m.groups[at.side][at.group].layers
HasLayer(m, at) == HasGroup(m, at) /\ at.layer \in DOMAIN Layers(m, at)
LayerAt(m, at) == Layers(m, at)[at.layer]
IsLayer(m, at, kinds) == HasLayer(m, at) /\ LayerAt(m, at).kind \in kinds

PutGroups(m, side, gs) == [m EXCEPT !.groups[side] = gs]
PutLayers(m, at, ls) == [m EXCEPT !.groups[at.side][at.group].layers = ls]
PutLayer(m, at, l) == [m EXCEPT !.groups[at.side][at.group].layers[at.layer] = l]

InsertableAt(s, i) == i \in 1 .. Len(s) + 1
Splice(s, i, new) == SubSeq(s, 1, i - 1) \o new \o SubSeq(s, i, Len(s))
Cut(s, i, n) == SubSeq(s, 1, i - 1) \o SubSeq(s, i + n, Len(s))

ItemRefs(kind, items) ==
    IF kind = "tile" THEN {} ELSE UNION {items[i].ref : i \in DOMAIN items}
LayerRefs(l) == l.attr.ref \cup ItemRefs(l.kind, l.items)
MapRefs(m) ==
    UNION {UNION {LayerRefs(l) : l \in Range(g.layers)} :
              g \in Range(m.groups["background"] \o m.groups["foreground"])}

RefsInBounds(m, refs) == \A r \in refs : r.index <= Len(m.lists[r.list])

\* Mutant: an index just past the end is allowed.
Spare_OffByOne(m, list) ==
    \A r \in MapRefs(m) : r.list = list => r.index <= Len(m.lists[list])

\* Whether a list may become one shorter.
Spare(m, list) ==
    \A r \in MapRefs(m) : r.list = list => r.index <= Len(m.lists[list]) - 1

(***************************************************************************)
(* Moving groups and layers: taken out first, then inserted at a place of  *)
(* what is left; put back when that place does not exist.                  *)
(***************************************************************************)
DoMoveGroup(a, m) ==
    LET from == m.groups[a.from.side]
        rest == PutGroups(m, a.from.side, RemoveAt(from, a.from.group))
        to == rest.groups[a.to.side]
    IN  IF HasGroup(m, a.from) /\ InsertableAt(to, a.to.group)
        THEN Done(PutGroups(rest, a.to.side, InsertAt(to, a.to.group, from[a.from.group])), a)
        ELSE Refused(m, a)

DoMoveLayer(a, m) ==
    LET rest == PutLayers(m, a.from, RemoveAt(Layers(m, a.from), a.from.layer))
    IN  IF HasLayer(m, a.from) /\ HasGroup(rest, a.to)
             /\ InsertableAt(Layers(rest, a.to), a.to.layer)
        THEN Done(PutLayers(rest, a.to,
                            InsertAt(Layers(rest, a.to), a.to.layer, LayerAt(m, a.from))), a)
        ELSE Refused(m, a)

(***************************************************************************)
(* Images, image arrays and sounds: a file is in its list at most once,    *)
(* and no layer may be left with an index past the end.                    *)
(***************************************************************************)
\* Mutant: a file that is there already is added once more.
DoAddResource_Twice(a, m) ==
    LET s == m.lists[a.list]
    IN  IF InsertableAt(s, a.index)
        THEN Done([m EXCEPT !.lists[a.list] = InsertAt(s, a.index, a.value)], a)
        ELSE Refused(m, a)

DoAddResource(a, m) ==
    LET s == m.lists[a.list]
    IN  IF InsertableAt(s, a.index) /\ a.value \notin Range(s)
        THEN Done([m EXCEPT !.lists[a.list] = InsertAt(s, a.index, a.value)], a)
        ELSE Refused(m, a)

DoRemResource(a, m) ==
    LET s == m.lists[a.list]
    IN  IF a.index \in DOMAIN s /\ s[a.index] = a.value /\ Spare(m, a.list)
        THEN Done([m EXCEPT !.lists[a.list] = RemoveAt(s, a.index)], a)
        ELSE Refused(m, a)

(***************************************************************************)
(* Animations of the three kinds: added, replaced, removed.                *)
(***************************************************************************)
DoAnim(a, m, fix) ==
    LET s == m.lists[a.list]
        old == IF fix THEN s[a.index] ELSE a.value
    IN  CASE a.op = "AddAnim" /\ InsertableAt(s, a.index) ->
               Done([m EXCEPT !.lists[a.list] = InsertAt(s, a.index, a.value)], a)
          [] a.op = "ReplAnim" /\ a.index \in DOMAIN s ->
               Done([m EXCEPT !.lists[a.list][a.index] = a.value], a)
          [] a.op = "RemAnim" /\ a.index \in DOMAIN s /\ Spare(m, a.list)
                              /\ s[a.index] = old ->
               Done([m EXCEPT !.lists[a.list] = RemoveAt(s, a.index)],
                    [a EXCEPT !.value = old])
          [] OTHER -> Refused(m, a)

(***************************************************************************)
(* The image of a tile or quad layer and the sound of a sound layer: the   *)
(* old index is never corrected, and a layer without sounds is passed over.*)
(***************************************************************************)
ResourceList(l) ==
    CASE l.kind = "tile" -> "array" [] l.kind = "quad" -> "image" [] OTHER -> "sound"
Resource(l) == {r \in l.attr.ref : r.list = ResourceList(l)}
WithResource(l, r) == [l EXCEPT !.attr.ref = (@ \ Resource(l)) \cup r]

DoLayerChangeImage(a, m) ==
    LET l == LayerAt(m, a.at)
    IN  IF IsLayer(m, a.at, {"tile", "quad"}) /\ Resource(l) = a.old
             /\ (\A r \in a.new : r.list = ResourceList(l)) /\ RefsInBounds(m, a.new)
        THEN Done(PutLayer(m, a.at, WithResource(l, a.new)), a)
        ELSE Refused(m, a)

DoLayerChangeSound(a, m) ==
    LET l == LayerAt(m, a.at)
    IN  CASE RefsInBounds(m, a.new) /\ HasLayer(m, a.at) /\ l.kind # "sound" -> Done(m, a)
          [] RefsInBounds(m, a.new) /\ IsLayer(m, a.at, {"sound"}) /\ Resource(l) = a.old ->
               Done(PutLayer(m, a.at, WithResource(l, a.new)), a)
          [] OTHER -> Refused(m, a)

(***************************************************************************)
(* Quads and sounds of a layer (a layer of another kind is passed over).   *)
(***************************************************************************)
DoAddItems(a, m) ==
    LET l == LayerAt(m, a.at)
    IN  CASE HasLayer(m, a.at) /\ l.kind # a.kind -> Done(m, a)
          [] IsLayer(m, a.at, {a.kind}) /\ RefsInBounds(m, ItemRefs(a.kind, a.items))
               /\ InsertableAt(l.items, a.index) ->
               Done(PutLayer(m, a.at, [l EXCEPT !.items = Splice(@, a.index, a.items)]), a)
          [] OTHER -> Refused(m, a)

DoRemItems(a, m, fix) ==
    LET l == LayerAt(m, a.at)
        n == Len(a.items)
        here == SubSeq(l.items, a.index, a.index + n - 1)
        old == IF fix THEN here ELSE a.items
    IN  CASE HasLayer(m, a.at) /\ l.kind # a.kind -> Done(m, a)
          [] IsLayer(m, a.at, {a.kind}) /\ a.index + n - 1 <= Len(l.items) /\ old = here ->
               Done(PutLayer(m, a.at, [l EXCEPT !.items = Cut(@, a.index, n)]),
                    [a EXCEPT !.items = old])
          [] OTHER -> Refused(m, a)

(***************************************************************************)
(* Design layers and groups.  The layers of an added group are not looked  *)
(* at.                                                                     *)
(***************************************************************************)
DoAddLayer(a, m) ==
    IF HasGroup(m, a.at) /\ InsertableAt(Layers(m, a.at), a.at.layer)
         /\ RefsInBounds(m, LayerRefs(a.layer))
    THEN Done(PutLayers(m, a.at, InsertAt(Layers(m, a.at), a.at.layer, a.layer)), a)
    ELSE Refused(m, a)

DoRemLayer(a, m, fix) ==
    LET old == IF fix THEN LayerAt(m, a.at) ELSE a.layer
    IN  IF IsLayer(m, a.at, {a.layer.kind}) /\ LayerAt(m, a.at) = old
        THEN Done(PutLayers(m, a.at, RemoveAt(Layers(m, a.at), a.at.layer)),
                  [a EXCEPT !.layer = old])
        ELSE Refused(m, a)

DoAddGroup(a, m) ==
    LET gs == m.groups[a.at.side]
    IN  IF InsertableAt(gs, a.at.group)
        THEN Done(PutGroups(m, a.at.side, InsertAt(gs, a.at.group, a.group)), a)
        ELSE Refused(m, a)

DoRemGroup(a, m, fix) ==
    LET gs == m.groups[a.at.side]
        old == IF fix THEN gs[a.at.group] ELSE a.group
    IN  IF HasGroup(m, a.at) /\ gs[a.at.group] = old
        THEN Done(PutGroups(m, a.at.side, RemoveAt(gs, a.at.group)), [a EXCEPT !.group = old])
        ELSE Refused(m, a)

(***************************************************************************)
(* Physics layers: one of a kind, of the size of the group; the game layer *)
(* cannot be removed.                                                      *)
(***************************************************************************)
DoAddPhysicsLayer(a, m) ==
    LET p == m.physics
    IN  IF InsertableAt(p.layers, a.index) /\ Len(a.layer.tiles) = p.attr.width
             /\ (\A l \in Range(p.layers) : l.kind # a.layer.kind)
        THEN Done([m EXCEPT !.physics.layers = InsertAt(@, a.index, a.layer)], a)
        ELSE Refused(m, a)

DoRemPhysicsLayer(a, m, fix) ==
    LET ls == m.physics.layers
        old == IF fix THEN ls[a.index] ELSE a.layer
    IN  IF a.index \in DOMAIN ls /\ ls[a.index].kind # "game" /\ ls[a.index] = old
        THEN Done([m EXCEPT !.physics.layers = RemoveAt(@, a.index)], [a EXCEPT !.layer = old])
        ELSE Refused(m, a)

(***************************************************************************)
(* Tiles.  CheckAndCopy is check_and_copy_tiles on one row: [ok, tiles,    *)
(* old].                                                                   *)
(***************************************************************************)
CheckAndCopy(tiles, width, a, fix) ==
    LET n == Len(a.new)
        here == SubSeq(tiles, a.x, a.x + n - 1)
        old == IF fix THEN here ELSE a.old
    IN  IF a.x + n - 1 <= width /\ Len(a.old) = n
        THEN [ok |-> old = here, old |-> old,
              tiles |-> SubSeq(tiles, 1, a.x - 1) \o a.new \o SubSeq(tiles, a.x + n, Len(tiles))]
        ELSE [ok |-> FALSE, old |-> a.old, tiles |-> tiles]

DoReplaceTiles(a, m, fix) ==
    LET l == LayerAt(m, a.at)
        copy == CheckAndCopy(l.items, l.attr.width, a, fix)
    IN  IF IsLayer(m, a.at, {"tile"}) /\ copy.ok
        THEN Done(PutLayer(m, a.at, [l EXCEPT !.items = copy.tiles]),
                  [a EXCEPT !.old = copy.old])
        ELSE Refused(m, a)

DoReplacePhysicsTiles(a, m, fix) ==
    LET l == m.physics.layers[a.index]
        copy == CheckAndCopy(l.tiles, m.physics.attr.width, a, fix)
    IN  IF a.index \in DOMAIN m.physics.layers /\ l.kind = a.kind /\ copy.ok
        THEN Done([m EXCEPT !.physics.layers[a.index].tiles = copy.tiles],
                  [a EXCEPT !.old = copy.old])
        ELSE Refused(m, a)

(***************************************************************************)
(* Attributes with the size of a tile layer or of the physics group.  The  *)
(* tiles of the action replace those of the map only when the size changes.*)
(* For a tile layer fix_action makes them those of the map otherwise, for  *)
(* the physics group it does not.                                          *)
(***************************************************************************)
\* Mutant: the tiles of the action are recorded also when the size stays.
DoTileLayerAttr_StaleTiles(a, m, fix) ==
    LET l == LayerAt(m, a.at)
        resized == l.attr.width # a.new.width
        b == IF fix THEN [a EXCEPT !.old = l.attr, !.oldTiles = l.items] ELSE a
    IN  IF RefsInBounds(m, a.new.ref) /\ IsLayer(m, a.at, {"tile"})
             /\ Len(a.newTiles) = a.new.width /\ b.old = l.attr /\ b.oldTiles = l.items
        THEN Done(PutLayer(m, a.at, [l EXCEPT !.attr = a.new,
                                              !.items = IF resized THEN a.newTiles ELSE @]), b)
        ELSE Refused(m, a)

DoTileLayerAttr(a, m, fix) ==
    LET l == LayerAt(m, a.at)
        resized == l.attr.width # a.new.width
        b == IF fix
             THEN [a EXCEPT !.old = l.attr, !.oldTiles = l.items,
                            !.newTiles = IF resized THEN @ ELSE l.items]
             ELSE a
    IN  IF RefsInBounds(m, a.new.ref) /\ IsLayer(m, a.at, {"tile"})
             /\ Len(a.newTiles) = a.new.width /\ b.old = l.attr /\ b.oldTiles = l.items
        THEN Done(PutLayer(m, a.at, [l EXCEPT !.attr = a.new,
                                              !.items = IF resized THEN a.newTiles ELSE @]), b)
        ELSE Refused(m, a)

PhysicsTiles(m) ==
    [i \in DOMAIN m.physics.layers |->
        [kind |-> m.physics.layers[i].kind, tiles |-> m.physics.layers[i].tiles]]

DoPhysicsGroupAttr(a, m, fix) ==
    LET p == m.physics
        resized == p.attr.width # a.new.width
        b == IF fix THEN [a EXCEPT !.old = p.attr, !.oldTiles = PhysicsTiles(m)] ELSE a
    IN  IF /\ DOMAIN a.newTiles = DOMAIN p.layers
           /\ \A i \in DOMAIN p.layers :
                a.newTiles[i].kind = p.layers[i].kind /\ Len(a.newTiles[i].tiles) = a.new.width
           /\ b.old = p.attr /\ b.oldTiles = PhysicsTiles(m)
        THEN Done([m EXCEPT !.physics.attr = a.new,
                            !.physics.layers =
                                [i \in DOMAIN @ |->
                                    IF resized THEN [@[i] EXCEPT !.tiles = a.newTiles[i].tiles]
                                               ELSE @[i]]], b)
        ELSE Refused(m, a)

(***************************************************************************)
(* The other attributes and names: the action names what it changes, the   *)
(* map has a value there, and the new value may be put there.              *)
(***************************************************************************)
ConfigParts == {"commands", "config_variables", "meta"}

Changeable(a, m) ==
    CASE a.what \in ConfigParts -> TRUE
      [] a.what \in {"group_attr", "group_name"} -> HasGroup(m, a.at)
      [] a.what = "layer_name" -> HasLayer(m, a.at)
      [] a.what \in {"quad_layer_attr", "sound_layer_attr"} ->
           /\ IsLayer(m, a.at, {IF a.what = "quad_layer_attr" THEN "quad" ELSE "sound"})
           /\ RefsInBounds(m, a.new.ref)
      [] a.what \in {"quad_attr", "sound_attr"} ->
           /\ IsLayer(m, a.at, {IF a.what = "quad_attr" THEN "quad" ELSE "sound"})
           /\ a.index \in DOMAIN LayerAt(m, a.at).items
           /\ RefsInBounds(m, a.new.ref)

Current(a, m) ==
    CASE a.what \in ConfigParts -> m.config[a.what]
      [] a.what = "group_attr" -> m.groups[a.at.side][a.at.group].attr
      [] a.what = "group_name" -> m.groups[a.at.side][a.at.group].name
      [] a.what = "layer_name" -> LayerAt(m, a.at).name
      [] a.what \in {"quad_layer_attr", "sound_layer_attr"} -> LayerAt(m, a.at).attr
      [] a.what \in {"quad_attr", "sound_attr"} -> LayerAt(m, a.at).items[a.index]

Changed(a, m) ==
    CASE a.what \in ConfigParts -> [m EXCEPT !.config[a.what] = a.new]
      [] a.what = "group_attr" -> [m EXCEPT !.groups[a.at.side][a.at.group].attr = a.new]
      [] a.what = "group_name" -> [m EXCEPT !.groups[a.at.side][a.at.group].name = a.new]
      [] a.what = "layer_name" -> PutLayer(m, a.at, [LayerAt(m, a.at) EXCEPT !.name = a.new])
      [] a.what \in {"quad_layer_attr", "sound_layer_attr"} ->
           PutLayer(m, a.at, [LayerAt(m, a.at) EXCEPT !.attr = a.new])
      [] a.what \in {"quad_attr", "sound_attr"} ->
           PutLayer(m, a.at, [LayerAt(m, a.at) EXCEPT !.items[a.index] = a.new])

DoChange(a, m, fix) ==
    LET old == IF fix THEN Current(a, m) ELSE a.old
    IN  IF Changeable(a, m) /\ old = Current(a, m)
        THEN Done(Changed(a, m), [a EXCEPT !.old = old])
        ELSE Refused(m, a)

(***************************************************************************)
(* The names of teleporters and switches and the tune zones, entries of    *)
(* the physics layer of their kind.  An empty entry is not kept; a new     *)
(* entry must not be blank, and a message is blank also when it is the     *)
(* empty text.                                                             *)
(***************************************************************************)
EmptyEntry(kind) ==
    IF kind = "tune" THEN [name |-> "", tunes |-> "", enter |-> "none", leave |-> "none"]
                     ELSE [name |-> ""]
Blank(e) == \A f \in DOMAIN e : e[f] \in {"", "none"}

DoChangeName(a, m, fix) ==
    LET at == {i \in DOMAIN m.physics.layers : m.physics.layers[i].kind = a.kind}
        i == CHOOSE j \in at : TRUE
        names == m.physics.layers[i].names
        occupied == a.index \in DOMAIN names
        here == IF occupied THEN names[a.index] ELSE EmptyEntry(a.kind)
        old == IF fix THEN here ELSE a.old
        others == Restrict(names, DOMAIN names \ {a.index})
        kept == IF a.new = EmptyEntry(a.kind) THEN others ELSE others @@ (a.index :> a.new)
    IN  IF at # {} /\ old = here /\ (occupied \/ ~Blank(a.new))
        THEN Done([m EXCEPT !.physics.layers[i].names = kept], [a EXCEPT !.old = old])
        ELSE Refused(m, a)

(***************************************************************************)
(* do_action and its inverse.                                              *)
(***************************************************************************)
DoAction(a, m, fix) ==
    CASE a.op = "MoveGroup" -> DoMoveGroup(a, m)
      [] a.op = "MoveLayer" -> DoMoveLayer(a, m)
      [] a.op = "AddResource" -> DoAddResource(a, m)
      [] a.op = "RemResource" -> DoRemResource(a, m)
      [] a.op \in {"AddAnim", "ReplAnim", "RemAnim"} -> DoAnim(a, m, fix)
      [] a.op = "LayerChangeImage" -> DoLayerChangeImage(a, m)
      [] a.op = "LayerChangeSound" -> DoLayerChangeSound(a, m)
      [] a.op = "AddItems" -> DoAddItems(a, m)
      [] a.op = "RemItems" -> DoRemItems(a, m, fix)
      [] a.op = "AddLayer" -> DoAddLayer(a, m)
      [] a.op = "RemLayer" -> DoRemLayer(a, m, fix)
      [] a.op = "AddGroup" -> DoAddGroup(a, m)
      [] a.op = "RemGroup" -> DoRemGroup(a, m, fix)
      [] a.op = "AddPhysicsLayer" -> DoAddPhysicsLayer(a, m)
      [] a.op = "RemPhysicsLayer" -> DoRemPhysicsLayer(a, m, fix)
      [] a.op = "ReplaceTiles" -> DoReplaceTiles(a, m, fix)
      [] a.op = "ReplacePhysicsTiles" -> DoReplacePhysicsTiles(a, m, fix)
      [] a.op = "TileLayerAttr" -> DoTileLayerAttr(a, m, fix)
      [] a.op = "PhysicsGroupAttr" -> DoPhysicsGroupAttr(a, m, fix)
      [] a.op = "Change" -> DoChange(a, m, fix)
      [] a.op = "ChangeName" -> DoChangeName(a, m, fix)

AddOps == {"AddResource", "AddAnim", "AddItems", "AddLayer", "AddGroup", "AddPhysicsLayer"}
RemoveOf ==
    [AddResource |-> "RemResource", AddAnim |-> "RemAnim", AddItems |-> "RemItems",
     AddLayer |-> "RemLayer", AddGroup |-> "RemGroup", AddPhysicsLayer |-> "RemPhysicsLayer"]
RemOps == {RemoveOf[o] : o \in AddOps}

\* The action undo_action executes: what was added is removed and the other way
\* round, old and new change places, a replaced animation is replaced again.
UndoForm(a) ==
    CASE a.op \in {"MoveGroup", "MoveLayer"} -> [a EXCEPT !.from = a.to, !.to = a.from]
      [] a.op \in AddOps -> [a EXCEPT !.op = RemoveOf[@]]
      [] a.op \in RemOps -> [a EXCEPT !.op = CHOOSE o \in AddOps : RemoveOf[o] = a.op]
      [] a.op \in {"TileLayerAttr", "PhysicsGroupAttr"} ->
           [a EXCEPT !.old = a.new, !.new = a.old,
                     !.oldTiles = a.newTiles, !.newTiles = a.oldTiles]
      [] a.op = "ReplAnim" -> a
      [] OTHER -> [a EXCEPT !.old = a.new, !.new = a.old]

UndoAction(a, m) == DoAction(UndoForm(a), m, FALSE)
RedoAction(a, m) == DoAction(a, m, FALSE)

(***************************************************************************)
(* Merging two consecutive actions of a group: one action, or both.        *)
(***************************************************************************)
SamePlace(a, b) ==
    /\ DOMAIN a = DOMAIN b
    /\ \A f \in {"at", "index", "kind", "what", "list"} \cap DOMAIN a : a[f] = b[f]

\* b's items lie inside or at the edge of a's.
Adjoins(a, b) == a.at = b.at /\ a.kind = b.kind
                 /\ b.index \in a.index .. a.index + Len(a.items)
WithItems(a, b) == [a EXCEPT !.items = Splice(@, b.index - a.index + 1, b.items)]

MergeAdd(a, b) == IF Adjoins(a, b) THEN <<WithItems(a, b)>> ELSE <<a, b>>
MergeRem(a, b) == IF Adjoins(b, a) THEN <<WithItems(b, a)>> ELSE <<a, b>>

\* The new value of two merged name changes; of a tune zone only the name and the
\* tunes are taken over, not the messages.
MergedName(a, b) ==
    IF a.kind = "tune" THEN [a.new EXCEPT !.name = b.new.name, !.tunes = b.new.tunes]
                       ELSE b.new

\* Mutant: the later of two actions at one place is kept.
MergeTwo_KeepsSecond(a, b) ==
    IF a.op = b.op /\ SamePlace(a, b) THEN <<b>> ELSE <<a, b>>

MergeTwo(a, b) ==
    IF a.op # b.op THEN <<a, b>> ELSE
    CASE a.op \in {"MoveGroup", "MoveLayer"} ->
           IF a.to = b.from THEN <<[a EXCEPT !.to = b.to]>> ELSE <<a, b>>
      [] a.op = "AddItems" -> MergeAdd(a, b)
      [] a.op = "RemItems" -> MergeRem(a, b)
      [] a.op \in {"LayerChangeImage", "LayerChangeSound", "Change"} /\ SamePlace(a, b) ->
           <<[a EXCEPT !.new = b.new]>>
      [] a.op \in {"TileLayerAttr", "PhysicsGroupAttr"} /\ SamePlace(a, b) ->
           <<[a EXCEPT !.new = b.new, !.newTiles = b.newTiles]>>
      [] a.op = "ChangeName" /\ SamePlace(a, b) -> <<[a EXCEPT !.new = MergedName(a, b)]>>
      [] a.op = "ReplAnim" /\ SamePlace(a, b) -> <<b>>
      [] OTHER -> <<a, b>>

\* merge_actions: the last two actions are merged as long as they become one.
MergeActions(s) ==
    FoldLeft(LAMBDA rest, a : IF Len(rest) = 1 THEN MergeTwo(a, rest[1]) ELSE <<a>> \o rest,
             <<Last(s)>>, Reverse(Front(s)))

(***************************************************************************)
(* What maps and actions there are.  The types of what refers to images,   *)
(* sounds and animations have the set R of allowed references as parameter.*)
(***************************************************************************)
Side == {"background", "foreground"}
Index == Nat \ {0}
File == {"image", "array", "sound"}
Animation == {"pos", "color", "volume"}
Ref == [list : File \cup Animation, index : Index]

Item(R) == [quad : Value, ref : SUBSET R]
TileLayer(R) ==
    {l \in [kind : {"tile"}, name : Value, attr : [width : Nat, ref : SUBSET R],
            items : Seq(Value)] :
        Len(l.items) = l.attr.width}
ItemLayer(R) ==
    [kind : {"quad", "sound"}, name : Value, attr : [ref : SUBSET R], items : Seq(Item(R))]
Layer(R) == TileLayer(R) \cup ItemLayer(R)
Group(R) == [name : Value, attr : Value, layers : Seq(Layer(R))]
PhysicsKind == {"game", "front", "tele", "speedup", "switch", "tune"}
PhysicsLayer == [kind : PhysicsKind, tiles : Seq(Value), names : NameTable]
Physics == [attr : [width : Nat], layers : Seq(PhysicsLayer)]
Map(R) ==
    [groups : [Side -> Seq(Group(R))], physics : Physics,
     lists : [File \cup Animation -> Seq(Value)], config : [ConfigParts -> Value]]

\* The references that are not past the end of their list.
InBounds(lists) == {r \in Ref : r.index <= Len(lists[r.list])}

\* A file is in its list once: its hash is what tells files apart.
FilesOnce(lists) ==
    \A f \in File : \A i, j \in DOMAIN lists[f] : lists[f][i] = lists[f][j] => i = j

\* There is a game layer, no two physics layers are of one kind, and all have the
\* size of the group.
PhysicsFits(p) ==
    /\ \E i \in DOMAIN p.layers : p.layers[i].kind = "game"
    /\ \A i, j \in DOMAIN p.layers : p.layers[i].kind = p.layers[j].kind => i = j
    /\ \A i \in DOMAIN p.layers : Len(p.layers[i].tiles) = p.attr.width

\* What reading a map from a file requires (Map::read), and what do_action keeps.
WellFormed(m) ==
    m \in Map(InBounds(m.lists)) /\ FilesOnce(m.lists) /\ PhysicsFits(m.physics)

(***************************************************************************)
(* The actions that undo takes back exactly and that may be merged.  Not   *)
(* among them: changes of a size (their merge loses tiles), changes of     *)
(* names (their merge may be refused), replaced animations (not undone),   *)
(* the sound index of a layer (its old value may be anything) and added    *)
(* groups that bring references along (which nobody looks at).             *)
(***************************************************************************)
Place == [side : Side, group : Nat, layer : Nat]
MoveAction == [op : {"MoveGroup", "MoveLayer"}, from : Place, to : Place]
FileAction == [op : {"AddResource", "RemResource"}, list : File, index : Index, value : Value]
AnimAction == [op : {"AddAnim", "RemAnim"}, list : Animation, index : Index, value : Value]
ImageAction ==
    [op : {"LayerChangeImage"}, at : Place, old : SUBSET Ref, new : SUBSET Ref]
ItemAction ==
    [op : {"AddItems", "RemItems"}, kind : {"quad", "sound"}, at : Place, index : Index,
     items : Seq(Item(Ref))]
LayerAction == [op : {"AddLayer", "RemLayer"}, at : Place, layer : Layer(Ref)]
GroupAction ==
    [op : {"AddGroup"}, at : Place, group : Group({})]
    \cup [op : {"RemGroup"}, at : Place, group : Group(Ref)]
PhysicsLayerAction ==
    [op : {"AddPhysicsLayer", "RemPhysicsLayer"}, index : Index, layer : PhysicsLayer]
TileAction == [op : {"ReplaceTiles"}, at : Place, x : Index, new : Seq(Value), old : Seq(Value)]
PhysicsTileAction ==
    [op : {"ReplacePhysicsTiles"}, index : Index, kind : PhysicsKind, x : Index,
     new : Seq(Value), old : Seq(Value)]
ConfigChange == [op : {"Change"}, what : ConfigParts, new : Value, old : Value]
NameChange ==
    [op : {"Change"}, what : {"group_attr", "group_name", "layer_name"}, at : Place,
     new : Value, old : Value]
AttrChange ==
    [op : {"Change"}, what : {"quad_layer_attr", "sound_layer_attr"}, at : Place,
     new : [ref : SUBSET Ref], old : [ref : SUBSET Ref]]
ItemChange ==
    [op : {"Change"}, what : {"quad_attr", "sound_attr"}, at : Place, index : Index,
     new : Item(Ref), old : Item(Ref)]
ChangeAction == ConfigChange \cup NameChange \cup AttrChange \cup ItemChange
ExactAction ==
    MoveAction \cup FileAction \cup AnimAction \cup ImageAction \cup ItemAction
    \cup LayerAction \cup GroupAction \cup PhysicsLayerAction \cup TileAction
    \cup PhysicsTileAction \cup ChangeAction
=============================================================================
