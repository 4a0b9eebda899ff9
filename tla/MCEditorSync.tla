---------------------------- MODULE MCEditorSync ----------------------------
(***************************************************************************)
(* EditorSync on a small map: a background group with a tile layer and a   *)
(* quad layer, a foreground group with a sound layer, the game layer and a *)
(* teleporter layer of two tiles, one file of each kind.  The requests are *)
(* those of the user interface, with the identifiers it gives them.        *)
(***************************************************************************)
EXTENDS EditorSync, TLC

CONSTANTS c1, NoId

One == {c1}
Text == STRING
Tables == {<<>>, <<[name |-> "out"]>>}

To(list, index) == {[list |-> list, index |-> index]}
Air2 == <<Air, Air>>
NoNames == <<>>

Plain(ref) ==
    [kind |-> "tile", name |-> "", attr |-> [width |-> 2, ref |-> ref], items |-> Air2]
Quad(q, ref) == [quad |-> q, ref |-> ref]
QuadLayer(items) == [kind |-> "quad", name |-> "", attr |-> [ref |-> To("image", 1)], items |-> items]
SoundLayer == [kind |-> "sound", name |-> "", attr |-> [ref |-> To("sound", 1)],
               items |-> <<Quad("s1", {})>>]
Plane(layers) == [name |-> "", attr |-> "still", layers |-> layers]
Plate(kind) == [kind |-> kind, tiles |-> Air2, names |-> NoNames]

SmallMap ==
    [groups |-> [background |-> <<Plane(<<Plain(To("array", 1)), QuadLayer(<<Quad("q1", {})>>)>>)>>,
                 foreground |-> <<Plane(<<SoundLayer>>)>>],
     physics |-> [attr |-> [width |-> 2], layers |-> <<Plate("game"), Plate("tele")>>],
     lists |-> [image |-> <<"i1">>, array |-> <<"a1">>, sound |-> <<"s1">>,
                pos |-> <<"p1">>, color |-> <<>>, volume |-> <<>>],
     config |-> [commands |-> "", config_variables |-> "", meta |-> ""]]

\* EditorTab's map before the server's map: new_map.
NewMap ==
    [groups |-> [background |-> <<>>, foreground |-> <<>>],
     physics |-> [attr |-> [width |-> 2], layers |-> <<Plate("game")>>],
     lists |-> [image |-> <<>>, array |-> <<>>, sound |-> <<>>,
                pos |-> <<>>, color |-> <<>>, volume |-> <<>>],
     config |-> [commands |-> "", config_variables |-> "", meta |-> ""]]

Spot(side, group, layer) == [side |-> side, group |-> group, layer |-> layer]
Tiles == Spot("background", 1, 1)
Quads == Spot("background", 1, 2)
Sounds == Spot("foreground", 1, 1)

Ask(identifier, actions) == [actions |-> actions, identifier |-> identifier]

(***************************************************************************)
(* Requests                                                                *)
(***************************************************************************)
Resize(width) ==
    [op |-> "TileLayerAttr", at |-> Tiles, new |-> [width |-> width, ref |-> To("array", 1)],
     old |-> [width |-> 2, ref |-> {}], oldTiles |-> <<>>, newTiles |-> <<>>]
Brush(x) == [op |-> "ReplaceTiles", at |-> Tiles, x |-> x, new |-> <<"wall">>, old |-> <<Air>>]
PhysicsBrush(i, kind) ==
    [op |-> "ReplacePhysicsTiles", index |-> i, kind |-> kind, x |-> 2,
     new |-> <<"wall">>, old |-> <<Air>>]
QuadLayerImage(ref) ==
    [op |-> "Change", what |-> "quad_layer_attr", at |-> Quads, new |-> [ref |-> ref], old |-> [ref |-> {}]]
QuadAttr(ref) ==
    [op |-> "Change", what |-> "quad_attr", at |-> Quads, index |-> 1,
     new |-> Quad("q2", ref), old |-> Quad("q1", {})]
AddQuad(i) == [op |-> "AddItems", kind |-> "quad", at |-> Quads, index |-> i, items |-> <<Quad("q3", {})>>]
RemQuad(i) == [op |-> "RemItems", kind |-> "quad", at |-> Quads, index |-> i, items |-> <<Quad("q1", {})>>]
RemImage == [op |-> "RemResource", list |-> "image", index |-> 1, value |-> "i1"]
AddImage == [op |-> "AddResource", list |-> "image", index |-> 2, value |-> "i2"]
RemTileLayer == [op |-> "RemLayer", at |-> Tiles, layer |-> Plain({})]
AddQuadLayer == [op |-> "AddLayer", at |-> Tiles, layer |-> QuadLayer(<<>>)]
MoveSounds == [op |-> "MoveLayer", from |-> Sounds, to |-> Tiles]
MoveBackground ==
    [op |-> "MoveGroup", from |-> Spot("background", 1, 0), to |-> Spot("foreground", 2, 0)]
RemSoundGroup == [op |-> "RemGroup", at |-> Spot("foreground", 1, 0), group |-> Plane(<<>>)]
AddSoundGroup == [op |-> "AddGroup", at |-> Spot("background", 1, 0), group |-> Plane(<<>>)]
RemPos == [op |-> "RemAnim", list |-> "pos", index |-> 1, value |-> "p1"]
AddPos == [op |-> "AddAnim", list |-> "pos", index |-> 1, value |-> "p2"]
AddSwitch == [op |-> "AddPhysicsLayer", index |-> 3, layer |-> Plate("switch")]
RemTele == [op |-> "RemPhysicsLayer", index |-> 2, layer |-> Plate("tele")]
TeleName == [op |-> "ChangeName", kind |-> "tele", index |-> 1, new |-> [name |-> "out"], old |-> [name |-> ""]]
Commands == [op |-> "Change", what |-> "commands", new |-> "say hi", old |-> ""]
GroupName == [op |-> "Change", what |-> "group_name", at |-> Spot("background", 1, 0), new |-> "sky", old |-> ""]

Requests ==
    {Ask("tile-attr-1-1", <<Resize(3)>>),
     Ask("tile-brush-1", <<Brush(2)>>),
     Ask("physics-brush-1", <<PhysicsBrush(1, "game"), PhysicsBrush(2, "tele")>>),
     Ask(NoId, <<QuadLayerImage({}), RemImage>>),
     Ask("quad-layer-attr-1-2", <<QuadLayerImage({})>>),
     Ask("quad-layer-attr-1-2", <<QuadLayerImage(To("image", 1))>>),
     Ask("quad-attr-1-2-1", <<QuadAttr(To("pos", 1))>>),
     Ask("quad-add-2", <<AddQuad(1)>>),
     Ask("quad-add-2", <<AddQuad(2)>>),
     Ask("quad-rem-1-2-1", <<RemQuad(1)>>),
     Ask(NoId, <<AddImage>>),
     Ask(NoId, <<RemTileLayer>>),
     Ask(NoId, <<AddQuadLayer>>),
     Ask(NoId, <<MoveSounds>>),
     Ask(NoId, <<MoveBackground>>),
     Ask(NoId, <<RemSoundGroup>>),
     Ask(NoId, <<AddSoundGroup>>),
     Ask("pos-del-1", <<QuadAttr({}), RemPos>>),
     Ask("pos-insert-1", <<AddPos>>),
     Ask(NoId, <<AddSwitch>>),
     Ask(NoId, <<RemTele>>),
     Ask("tele-changes", <<TeleName>>),
     Ask("server-commands", <<Commands>>),
     Ask("group-name-1", <<GroupName>>)}

(***************************************************************************)
(* What the theorems suppose (ExactRequests) holds of this map and of all  *)
(* requests but the change of a size and the change of a name.             *)
(***************************************************************************)
Exact == {r \in Requests : r.identifier \notin {"tile-attr-1-1", "tele-changes"}}
IsExact(a) ==
    CASE a.op # "Change" -> a \in ExactAction
      [] a.what \in ConfigParts -> a \in ConfigChange
      [] a.what = "group_name" -> a \in NameChange
      [] a.what = "quad_layer_attr" -> a \in AttrChange
      [] a.what = "quad_attr" -> a \in ItemChange
ASSUME RequestsAreExact ==
    WellFormed(SmallMap) /\ \A r \in Exact : \A a \in Range(r.actions) : IsExact(a)

\* Dragging the width of a layer down and up again.
Resizes ==
    {Ask("tile-brush-1", <<Brush(2)>>),
     Ask("tile-attr-1-1", <<Resize(1)>>),
     Ask("tile-attr-1-1", <<Resize(2)>>)}
=============================================================================
