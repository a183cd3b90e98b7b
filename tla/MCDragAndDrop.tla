---------------------------- MODULE MCDragAndDrop -----------------------------
(* Two zones side by side: one of three items, one of one item.            *)
EXTENDS DragLayout
CONSTANTS A, B
Sizes == [x |-> 1, y |-> 3, v |-> 2, w |-> 5]
TwoZones == {A, B}
Lists == (A :> <<"x", "y", "v">> @@ B :> <<"w">>)
Beside == (A :> [up |-> None, down |-> B] @@ B :> [up |-> A, down |-> None])
================================================================================
