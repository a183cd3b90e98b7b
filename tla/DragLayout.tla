------------------------------ MODULE DragLayout -------------------------------
(***************************************************************************)
(* Where a zone with animation puts its items while one is dragged         *)
(* (DragAndDropState.coffee, and _positionItems of DragAndDropRC.coffee):  *)
(* the items are positioned absolutely, by their sizes, as if the dragged  *)
(* one were gone and the placeholder there.                                *)
(***************************************************************************)
EXTENDS DragAndDrop

CONSTANTS
  Size,       \* the size of every item
  Spacing     \* itemSpacing

MinDropArea == 4

\* _detectItemsSize, and the size of the placeholder: that of what is dragged.
ItemsSize(z) == [i \in DOMAIN zone[z].children |-> Size[zone[z].children[i]]]
PlaceHolderSize == Size[payload.item]

\* A mutant: the position to insert at is not that after the removal.
AdjustUnshifted(sizes, remove, insert, size) ==
  LET rest == IF remove = None THEN sizes ELSE Without(sizes, remove)
  IN IF insert = None THEN rest ELSE With(rest, insert, size)

\* adjustItemsSize
AdjustItemsSize(sizes, remove, insert, size) ==
  LET rest == IF remove = None THEN sizes ELSE Without(sizes, remove)
      at == IF remove # None /\ insert # None THEN IF insert > remove THEN insert - 1 ELSE insert
            ELSE insert
  IN IF insert = None THEN rest ELSE With(rest, at, size)

\* getTotalSize: the sizes before a position, with the spacing after each.
GetTotalSize(sizes, max) ==
  FoldLeft(+, 0, SubSeq(sizes, 1, IF max > Len(sizes) THEN Len(sizes) ELSE max)) + Spacing * max

Before(i, j) == IF i > j THEN 1 ELSE 0
AtLeast(n) == IF n < MinDropArea THEN MinDropArea ELSE n

\* _positionItems: beside the dragged item no placeholder is shown.
DropIndex(z) ==
  LET r == zone[z] IN IF r.state = "within zone" /\ r.placeholder = -1 THEN r.dragging ELSE r.placeholder

\* DragAndDropState.getItemPosition
GetItemPosition(z, i, placeHolder) ==
  LET r == zone[z]
      sizes == ItemsSize(z)
      drop == DropIndex(z)
  IN CASE r.state = NoState -> GetTotalSize(sizes, i)
       [] r.state = "within zone" ->
            GetTotalSize(AdjustItemsSize(sizes, r.dragging, drop, placeHolder),
                         i - Before(i, r.dragging) + (IF i >= drop THEN 1 ELSE 0))
       [] r.state = "to other zone" ->
            GetTotalSize(AdjustItemsSize(sizes, r.dragging, None, 0), i - Before(i, r.dragging))
       [] r.state = "from other zone" ->
            GetTotalSize(AdjustItemsSize(sizes, None, drop, placeHolder),
                         IF i >= drop THEN i + 1 ELSE i)

\* DragAndDropState.getSize
GetSize(z) ==
  LET r == zone[z]
      sizes == ItemsSize(z)
      whole(s) == AtLeast(GetTotalSize(s, Len(s)) - Spacing)
  IN CASE r.state \in {NoState, "within zone"} -> whole(sizes)
       [] r.state = "to other zone" -> whole(AdjustItemsSize(sizes, r.dragging, None, 0))
       [] r.state = "from other zone" ->
            IF sizes = <<>> THEN PlaceHolderSize + Spacing
            ELSE FoldLeft(+, 0, sizes) + Len(sizes) * Spacing + PlaceHolderSize

\* DragAndDropState.getPlaceholderPosition, for the states that show one.
GetPlaceholderPosition(z) == GetItemPosition(z, DropIndex(z), 0) - Spacing

(***************************************************************************)
(* Properties.                                                             *)
(***************************************************************************)
\* What a zone shows while the placeholder is there: from where to where.
Rests(z) == {i \in Positions(z) : zone[z].state # "from other zone" => i # zone[z].dragging}
ItemSpan(z, i) == LET p == GetItemPosition(z, i, PlaceHolderSize)
                  IN [from |-> p, to |-> p + ItemsSize(z)[i + 1]]
PlaceholderSpan(z) == LET p == GetPlaceholderPosition(z) IN [from |-> p, to |-> p + PlaceHolderSize]
Spans(z) == {ItemSpan(z, i) : i \in Rests(z)} \cup {PlaceholderSpan(z)}

\* While a zone shows the placeholder, the items and the placeholder lie one
\* below the other without overlapping, and within the height of the zone,
\* although four functions work out the places each with its own adjustment
\* for the item that is hidden.
NothingOverlaps ==
  \A z \in Zones :
    zone[z].state \in {"within zone", "from other zone"} /\ zone[z].placeholder >= 0 =>
      /\ Cardinality(Spans(z)) = Cardinality(Rests(z)) + 1
      /\ \A a, b \in Spans(z) : a = b \/ a.to + Spacing <= b.from \/ b.to + Spacing <= a.from
      /\ \A a \in Spans(z) : a.from >= 0 /\ a.to <= GetSize(z)
================================================================================
