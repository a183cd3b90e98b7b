--------------------------------- MODULE Layouts --------------------------------
(***************************************************************************)
(* The grid of LayoutUtil.coffee: compaction, and the injection of an item *)
(* that makes the others flow around it.  The caller hands in its items    *)
(* and gives each the position it gets back, so "layout" is the caller's.  *)
(*                                                                         *)
(* An item is [id, column, row, width, height]; layouts are sets, which    *)
(* lose nothing: they are sorted before they are used, and two items of    *)
(* one cell, whose order would depend on the array, never arise.           *)
(***************************************************************************)
EXTENDS Integers, Sequences, SequencesExt, FiniteSetsExt

CONSTANTS
  Sides,      \* the items by id: [width, height]
  Columns,    \* of the grid
  MaxRow      \* bound on the rows an item is moved to

VARIABLES
  flowUp,     \* gravity at the top, or gaps are kept
  layout
vars == <<flowUp, layout>>

Init == flowUp \in BOOLEAN /\ layout = {}

At(id, column, row) ==
  [id |-> id, column |-> column, row |-> row, width |-> Sides[id].width, height |-> Sides[id].height]
Right(i) == i.column + i.width
Bottom(i) == i.row + i.height
Sorted(items) ==
  SetToSortSeq(items, LAMBDA a, b : a.row < b.row \/ (a.row = b.row /\ a.column < b.column))

OverlapHorizontally(a, b) == Right(a) > b.column /\ a.column < Right(b)
OverlapVertically(a, b) == Bottom(a) > b.row /\ a.row < Bottom(b)
Overlap(a, b) == OverlapHorizontally(a, b) /\ OverlapVertically(a, b)

\* getFirstAvailableRow
FirstAvailableRow(items, item) ==
  IF ~flowUp /\ \A t \in items : ~Overlap(item, t) THEN item.row
  ELSE Max({0} \cup {Bottom(t) : t \in {x \in items : OverlapHorizontally(item, x)}})

\* _addToPartial
Added(items, item) == items \cup {[item EXCEPT !.row = FirstAvailableRow(items, item)]}
AllAdded(items, sequence) == FoldLeft(Added, items, sequence)

Compacted(items) == AllAdded({}, Sorted(items))

\* _injectItem: what is above the place is laid first and pushes the item
\* down where it overlaps the columns the item comes from.
Injected(items, item, at, first) ==
  LET above == IF first THEN {} ELSE {i \in items : i.row < at.row}
      row == Max({at.row} \cup {Bottom(i) : i \in {x \in above : OverlapHorizontally(x, item)}})
  IN AllAdded(Added(AllAdded({}, Sorted(above)), [at EXCEPT !.row = row]), Sorted(items \ above))

(***************************************************************************)
(* Operations, each with what the caller does with the result.             *)
(***************************************************************************)
Compact == layout' = Compacted(layout) /\ UNCHANGED flowUp

\* moveAndGetProxyLocation; an item that is not in the layout is new.
Move(item, at, preCompact, first) ==
  LET others == layout \ {item}
  IN /\ layout' = Injected(IF preCompact THEN Compacted(others) ELSE others, item, at, first)
     /\ UNCHANGED flowUp

Items(id) ==
  IF \E i \in layout : i.id = id THEN {i \in layout : i.id = id} ELSE {At(id, 0, 0)}
Cells(id) == (0..(Columns - Sides[id].width)) \X (0..MaxRow)

Next ==
  \/ Compact
  \/ \E id \in DOMAIN Sides : \E item \in Items(id), cell \in Cells(id), pre, first \in BOOLEAN :
       Move(item, At(id, cell[1], cell[2]), pre, first)
Spec == Init /\ [][Next]_vars

(***************************************************************************)
(* Boxes: createBoundingBox, inside, getContainedItems, rtlFlipLayout.     *)
(***************************************************************************)
BoundingBox(items) ==
  LET row == Min({i.row : i \in items})
      column == Min({i.column : i \in items})
  IN [row |-> row, column |-> column,
      width |-> Max({Right(i) : i \in items}) - column, height |-> Max({Bottom(i) : i \in items}) - row]

Inside(container, i) ==
  /\ container.row <= i.row /\ Bottom(container) >= Bottom(i)
  /\ container.column <= i.column /\ Right(container) >= Right(i)
AllInside(container, items) == \A i \in items : Inside(container, i)

\* Where the contained items are when the container moves to "to".
ContainedItems(container, items, to) ==
  {[i EXCEPT !.row = @ - (container.row - to.row), !.column = @ - (container.column - to.column)] :
     i \in items}

RtlFlip(items) == {[i EXCEPT !.column = Columns - @ - i.width] : i \in items}

(***************************************************************************)
(* Properties.                                                             *)
(***************************************************************************)
Apart(items) == \A i, j \in items : i.id # j.id => ~Overlap(i, j)
\* Nothing can go up: an item is in the first row or touches one above it.
Rests(items) ==
  \A i \in items : i.row = 0 \/ \E j \in items : OverlapHorizontally(i, j) /\ Bottom(j) = i.row

\* After any moves every item is there once, on the grid, and no two
\* overlap; with gravity nothing can go up, and compaction is final.
LaysOut ==
  /\ \A i, j \in layout : i.id = j.id => i = j
  /\ Apart(layout) /\ \A i \in layout : i.row >= 0 /\ i.column >= 0 /\ Right(i) <= Columns
  /\ flowUp => Rests(layout)
  /\ LET c == Compacted(layout)
     IN Apart(c) /\ Compacted(c) = c /\ (flowUp => Rests(c))

\* The box around items is the least one they are inside of, a container
\* takes what is inside of it along, and the mirrored layout is a layout.
BoxesHold ==
  layout # {} =>
    LET box == BoundingBox(layout)
        \* the container goes to the first cell
        moved == ContainedItems(box, layout, [row |-> 0, column |-> 0])
    IN /\ AllInside(box, layout)
       /\ AllInside([box EXCEPT !.row = 0, !.column = 0], moved) /\ Apart(moved)
       /\ \A smaller \in {[box EXCEPT !.row = @ + 1, !.height = @ - 1], [box EXCEPT !.height = @ - 1],
                        [box EXCEPT !.column = @ + 1, !.width = @ - 1], [box EXCEPT !.width = @ - 1]} :
            ~AllInside(smaller, layout)
       /\ Apart(RtlFlip(layout)) /\ RtlFlip(RtlFlip(layout)) = layout
       /\ \A i \in RtlFlip(layout) : i.column >= 0 /\ Right(i) <= Columns
================================================================================
