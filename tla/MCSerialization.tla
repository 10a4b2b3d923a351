-------------------------- MODULE MCSerialization --------------------------
(***************************************************************************)
(* Points and boxes (an id and two or four coordinates) and an array of    *)
(* three cells, which doubles twice for either.                            *)
(***************************************************************************)
EXTENDS Serialization

MCTypes == {"Point2", "Box2"}
MCFieldsOf == [Point2 |-> 3, Box2 |-> 5]

MCObjects ==
    [type : {"Point2"}, fields : [1..3 -> {"u", "v"}]]
        \cup [type : {"Box2"}, fields : {<<i, "u", "v", "v", y>> : i, y \in {"u", "v"}}]
=============================================================================
