------------------------------ MODULE DragAndDrop ------------------------------
(***************************************************************************)
(* Dragging items within and between zones, with the mouse and with the    *)
(* keyboard (DragAndDropRC.coffee and the singleton DragAndDropStore.js).  *)
(*                                                                         *)
(* Every zone keeps the list of its children, changes it itself and tells  *)
(* its parent what was dragged and where it was dropped; the parent keeps  *)
(* its own arrangement by these two payloads.  A handler reads the state   *)
(* from before it; React applies what it sets when it has returned.        *)
(* Positions count from 0, as in the code; -1 is none.                     *)
(***************************************************************************)
EXTENDS Integers, Sequences, SequencesExt, FiniteSets

CONSTANTS
  Zones, Start,   \* the zones, and the children each begins with
  Neighbors,      \* Neighbors[z][d]: the zone next to z in direction d, or None
  Modes,          \* what parents there are, see Init
  MaxGestures, None

Up == "up"
Down == "down"
Back == [d \in {Up, Down} |-> None]
NoState == "none"

VARIABLES
  mode,        \* "skip", "controlled" or "own"
  zone,        \* the state of every zone
  told,        \* the arrangement of the parent
  payload, over, dropped, activeZone,    \* DragAndDropStore
  pointer,     \* the drag session of the browser
  pickGone,    \* whether the item picked with the keyboard was deleted
  gestures, byMouse    \* gestures begun; whether the last one was a drag (history)

store == <<payload, over, dropped, activeZone>>
vars == <<mode, zone, told, store, pointer, pickGone, gestures, byMouse>>

Fresh(c) == [children |-> c, rendered |-> c, prev |-> None, active |-> -1, dragging |-> -1,
             placeholder |-> -1, state |-> NoState, counter |-> 0, back |-> Back]
NoSession == [source |-> None, item |-> None, entered |-> FALSE, inside |-> None, leaving |-> None,
              accepted |-> None, done |-> FALSE]

\* A parent renders its zones again after every drop and they take the new
\* children (controlled), or keep their own, which are the same (skip:
\* skipUpdateOnNewProps); or it does not render them again (own).
Init ==
  /\ mode \in Modes
  /\ zone = [z \in Zones |-> Fresh(Start[z])] /\ told = Start
  /\ payload = None /\ over = None /\ dropped = FALSE /\ activeZone = None
  /\ pointer = NoSession /\ pickGone = FALSE /\ gestures = 0 /\ byMouse = FALSE

(***************************************************************************)
(* Lists.  Array.splice() takes a position past the end for the end.       *)
(***************************************************************************)
Without(s, i) == RemoveAt(s, i + 1)
With(s, i, x) == InsertAt(s, (IF i > Len(s) THEN Len(s) ELSE i) + 1, x)

Moved(s, from, to) == With(Without(s, from), to, s[from + 1])

(***************************************************************************)
(* What the handlers do to the state of a zone.                            *)
(***************************************************************************)
MoveItem(r, from, to) == [r EXCEPT !.children = Moved(@, from, to), !.active = to]
RemoveItem(r, i) == [r EXCEPT !.children = Without(@, i), !.active = -1]

RenderItemOnDropFromOtherZone(r, i) ==
  LET to == IF r.placeholder >= 0 THEN r.placeholder ELSE i
  IN [r EXCEPT !.children = With(@, to, payload.item), !.active = to]

ResetRenderState(r) ==
  [r EXCEPT !.dragging = -1, !.placeholder = -1, !.active = -1, !.state = NoState, !.counter = 0]

ResetToPreviousState(r) ==
  [r EXCEPT !.active = -1, !.back = Back, !.children = IF r.prev = None THEN r.rendered ELSE r.prev]

GetDragAndDropState(z, drag, active) ==
  IF drag = None THEN NoState
  ELSE IF drag.zone = z THEN IF active = z THEN "within zone" ELSE "to other zone"
  ELSE IF active = z THEN "from other zone" ELSE NoState

(***************************************************************************)
(* The parent: onDrop, and the new properties it renders the zones with.   *)
(***************************************************************************)
Arrangement(drag, drop) ==
  LET rest == [told EXCEPT ![drag.zone] = Without(@, drag.index)]
  IN [rest EXCEPT ![drop.zone] = With(@, drop.index, told[drag.zone][drag.index + 1])]

\* UNSAFE_componentWillReceiveProps
ReceiveProps(r, c) == [r EXCEPT !.prev = None, !.rendered = c,
                                !.children = IF mode = "controlled" THEN c ELSE @]

Rerender(zones, arrangement) ==
  /\ told' = arrangement
  /\ zone' = IF mode = "own" THEN zones
             ELSE [z \in Zones |-> ReceiveProps(zones[z], arrangement[z])]

(***************************************************************************)
(* The mouse.                                                              *)
(***************************************************************************)
Dragging == pointer.source # None
Picked == {z \in Zones : zone[z].active >= 0}
Idle == ~Dragging /\ Picked = {}
Begins(mouse) == Idle /\ gestures < MaxGestures /\ gestures' = gestures + 1 /\ byMouse' = mouse
Positions(z) == 0..(Len(zone[z].children) - 1)

OnDragStart(z, i) ==
  /\ mode # "own" /\ i \in Positions(z) /\ Begins(TRUE)
  /\ LET drag == [zone |-> z, index |-> i, item |-> zone[z].children[i + 1]] IN
     /\ payload' = drag
     /\ activeZone' = z
     /\ zone' = [zone EXCEPT ![z].dragging = i, ![z].state = GetDragAndDropState(z, drag, z)]
     /\ pointer' = [NoSession EXCEPT !.source = z, !.item = drag.item]
  /\ UNCHANGED <<mode, told, over, dropped>>

\* The pointer moves into a zone, or deeper into one; dragleave follows dragenter.
\* The first zone that is entered is the one where the drag began.
Moving == Dragging /\ ~pointer.done /\ pointer.leaving = None

OnDragEnter(z) ==
  /\ Moving /\ (pointer.entered \/ z = pointer.source)
  /\ pointer' = [pointer EXCEPT !.entered = TRUE, !.inside = z, !.leaving = pointer.inside, !.accepted = None]
  /\ activeZone' = z
  /\ zone' = [zone EXCEPT ![z].counter = @ + 1, ![z].state = GetDragAndDropState(z, payload, z)]
  /\ UNCHANGED <<mode, told, payload, over, dropped, gestures, byMouse>>

MovesOutside ==
  /\ Moving /\ pointer.inside # None
  /\ pointer' = [pointer EXCEPT !.inside = None, !.leaving = pointer.inside, !.accepted = None]
  /\ UNCHANGED <<mode, zone, told, store, gestures, byMouse>>

OnDragLeave ==
  /\ pointer.leaving # None
  /\ LET z == pointer.leaving
         left == zone[z].counter = 1
     IN /\ activeZone' = IF left THEN None ELSE activeZone
        /\ zone' = [zone EXCEPT ![z].counter = @ - 1,
                      ![z].placeholder = IF left THEN -1 ELSE @,
                      ![z].state = IF left THEN GetDragAndDropState(z, payload, None) ELSE @]
  /\ pointer' = [pointer EXCEPT !.leaving = None]
  /\ UNCHANGED <<mode, told, payload, over, dropped, gestures, byMouse>>

\* Where the pointer may be in a zone: on an item, on the placeholder or beside
\* them, and in the first or the second half of it.
Hovered(z) ==
  LET r == zone[z] IN
  IF r.children = <<>> THEN {[index |-> 0, after |-> TRUE, onPlaceholder |-> FALSE]}
  ELSE [index : Positions(z), after : BOOLEAN, onPlaceholder : {FALSE}]
       \cup IF r.placeholder < 0 THEN {}
            ELSE {[index |-> r.placeholder, after |-> b, onPlaceholder |-> TRUE] :
                    b \in IF r.placeholder \in Positions(z) THEN BOOLEAN ELSE {TRUE}}

\* A mutant: an item below the dragged one is not taken to move up.
DropIndexUnadjusted(z, hover) == IF hover.after THEN hover.index + 1 ELSE hover.index

GetDropIndex(z, hover) ==
  LET same == payload.zone = z
      i == hover.index
  IN IF hover.onPlaceholder THEN IF payload.index < i /\ same THEN i - 1 ELSE i
     ELSE IF same THEN IF payload.index < i /\ ~hover.after THEN i - 1
                       ELSE IF payload.index >= i /\ hover.after THEN i + 1 ELSE i
     ELSE IF hover.after THEN i + 1 ELSE i

GetPlaceHolderIndex(z, hover) ==
  IF payload.index = hover.index /\ payload.zone = z THEN -1
  ELSE IF zone[z].children = <<>> THEN 0
  ELSE IF hover.after THEN hover.index + 1 ELSE hover.index

\* preventDrop may refuse.
OnDragOver(z, hover, refused) ==
  /\ Moving /\ pointer.inside = z /\ payload # None /\ hover \in Hovered(z)
  /\ pointer' = [pointer EXCEPT !.accepted = IF refused THEN None ELSE z]
  /\ over' = IF refused THEN over ELSE [zone |-> z, index |-> GetDropIndex(z, hover)]
  /\ zone' = IF refused \/ hover.onPlaceholder THEN zone
             ELSE [zone EXCEPT ![z].placeholder = GetPlaceHolderIndex(z, hover)]
  /\ UNCHANGED <<mode, told, payload, dropped, activeZone, gestures, byMouse>>

\* What _onDragEnd does to the zone it is called on.
AfterDragEnd(r, wasDropped) ==
  ResetRenderState(IF wasDropped /\ r.state = "to other zone" THEN RemoveItem(r, r.dragging) ELSE r)

\* A mutant: the store remembers the drop.
DropRemembered == payload' = None /\ over' = None /\ UNCHANGED dropped

StoreReset == payload' = None /\ over' = None /\ dropped' = FALSE

\* _onDrop.  Within a zone it calls _onDragEnd itself.
DropWithin(z) ==
  LET r == MoveItem(zone[z], zone[z].dragging, over.index) IN
  /\ Rerender([zone EXCEPT ![z] = AfterDragEnd(r, TRUE)], Arrangement(payload, over))
  /\ StoreReset

DropFromOther(z) ==
  /\ Rerender([zone EXCEPT ![z] = ResetRenderState(RenderItemOnDropFromOtherZone(@, over.index))],
              Arrangement(payload, over))
  /\ dropped' = TRUE
  /\ UNCHANGED <<payload, over>>

OnDrop(z) ==
  /\ Moving /\ pointer.accepted = z /\ payload # None
  /\ IF payload.zone = z THEN DropWithin(z) ELSE DropFromOther(z)
  /\ activeZone' = None
  /\ pointer' = [pointer EXCEPT !.done = TRUE]
  /\ UNCHANGED <<mode, gestures, byMouse>>

\* The browser ends the drag at the element it began on, if that is still rendered.
Delivered == Contains(zone[pointer.source].children, pointer.item)
OnDragEnd ==
  /\ Dragging /\ pointer.leaving = None /\ (pointer.done \/ pointer.inside = None)
  /\ IF Delivered
     THEN zone' = [zone EXCEPT ![pointer.source] = AfterDragEnd(@, dropped)] /\ StoreReset
     ELSE UNCHANGED <<zone, payload, over, dropped>>
  /\ pointer' = NoSession
  /\ UNCHANGED <<mode, told, activeZone, gestures, byMouse>>

(***************************************************************************)
(* The keyboard.  Keys reach the item that was picked.                     *)
(***************************************************************************)
Pick(z, i) ==
  /\ i \in Positions(z) /\ Begins(FALSE)
  /\ payload' = [zone |-> z, index |-> i, item |-> zone[z].children[i + 1]]
  /\ zone' = [zone EXCEPT ![z].active = i]
  /\ UNCHANGED <<mode, told, over, dropped, activeZone, pointer>>

\* Space once more; the zone the item came from is notified.
Settled(r) == [r EXCEPT !.prev = r.children]
Confirm(z) ==
  /\ z \in Picked
  /\ LET r == ResetRenderState([Settled(zone[z]) EXCEPT !.back = Back])
         source == payload.zone
     IN Rerender([zone EXCEPT ![source] = Settled(@), ![z] = r],
                 Arrangement(payload, [zone |-> z, index |-> zone[z].active]))
  /\ UNCHANGED <<mode, store, pointer, gestures, byMouse>>

MoveWithin(z, step) ==
  /\ z \in Picked /\ zone[z].active + step \in Positions(z)
  /\ zone' = [zone EXCEPT ![z] = MoveItem(@, @.active, @.active + step)]
  /\ UNCHANGED <<mode, told, store, pointer, gestures, byMouse>>

NeighborOf(z, d) == IF zone[z].back[d] # None THEN zone[z].back[d] ELSE Neighbors[z][d]
Opposite(d) == IF d = Up THEN Down ELSE Up

\* _removeItem, then _onMoveFromOtherZone of the neighbour.
MoveAcross(z, d) ==
  /\ z \in Picked
  /\ zone[z].active + (IF d = Down THEN 1 ELSE -1) \notin Positions(z)
  /\ LET n == NeighborOf(z, d)
         to == IF d = Down THEN 0 ELSE Len(zone[n].children)
     IN /\ n # None
        /\ zone' = [zone EXCEPT
                      ![z] = RemoveItem(@, @.active),
                      ![n] = RenderItemOnDropFromOtherZone([@ EXCEPT !.back[Opposite(d)] = z], to)]
  /\ UNCHANGED <<mode, told, store, pointer, gestures, byMouse>>

\* Escape, or the focus goes elsewhere (_onBlur).
Cancel(z) ==
  /\ z \in Picked
  /\ zone' = [y \in Zones |-> IF y \in {z, payload.zone} THEN ResetToPreviousState(zone[y]) ELSE zone[y]]
  /\ UNCHANGED <<mode, told, store, pointer, gestures, byMouse>>

\* Delete: zone and parent take the item away.  No key arrives while the mouse drags
\* (the browser withholds input then), but one may while an item is picked, which has
\* the focus: what the keyboard has picked is gone then, and its position stays picked.
DeleteItem(z, i) ==
  /\ mode # "own" /\ i \in Positions(z) /\ Begins(FALSE)
  /\ Rerender([zone EXCEPT ![z].children = Without(@, i)], [told EXCEPT ![z] = Without(@, i)])
  /\ UNCHANGED <<mode, store, pointer>>

DeletePicked(z) ==
  /\ mode # "own" /\ z \in Picked /\ ~pickGone /\ pickGone' = TRUE
  /\ Rerender([zone EXCEPT ![z].children = Without(@, zone[z].active)],
              [told EXCEPT ![payload.zone] = Without(@, payload.index)])
  /\ UNCHANGED <<mode, store, pointer, gestures, byMouse>>

\* An item that is left gets the key, or the focus, and cancels.
CancelGone(z) ==
  /\ pickGone /\ zone[z].children # <<>> /\ Cancel(z)
  /\ pickGone' = FALSE

Mouse ==
  \/ \E z \in Zones : \/ OnDragEnter(z) \/ OnDrop(z)
                      \/ \E i \in Positions(z) : OnDragStart(z, i)
                      \/ \E h \in Hovered(z), refused \in BOOLEAN : OnDragOver(z, h, refused)
  \/ MovesOutside \/ OnDragLeave \/ OnDragEnd
Keyboard ==
  \E z \in Zones : \/ Confirm(z) \/ Cancel(z) \/ MoveWithin(z, 1) \/ MoveWithin(z, -1)
                   \/ MoveAcross(z, Up) \/ MoveAcross(z, Down)
                   \/ \E i \in Positions(z) : Pick(z, i) \/ DeleteItem(z, i)
Next ==
  \/ ~pickGone /\ (Mouse \/ Keyboard) /\ UNCHANGED pickGone
  \/ \E z \in Zones : DeletePicked(z) \/ CancelGone(z)
Spec == Init /\ [][Next]_vars

(***************************************************************************)
(* Properties.                                                             *)
(***************************************************************************)
Items == UNION {ToSet(Start[z]) : z \in Zones}
\* The types of all variables.
TypeOK ==
  /\ \A z \in Zones :
       /\ zone[z].children \in Seq(Items) /\ told[z] \in Seq(Items)
       /\ zone[z].active \in -1..Cardinality(Items) /\ zone[z].dragging \in -1..Cardinality(Items)
       /\ zone[z].placeholder \in -1..Cardinality(Items) /\ zone[z].counter \in 0..2
       /\ zone[z].state \in {NoState, "within zone", "to other zone", "from other zone"}
  /\ payload = None \/ (payload.zone \in Zones /\ payload.item \in Items)
  /\ over = None \/ over.zone \in Zones
  /\ activeZone \in Zones \cup {None} /\ dropped \in BOOLEAN /\ pickGone \in BOOLEAN

\* After every gesture, done or cancelled, and when an item was deleted while it was
\* picked, the zones show what the parent was told: an item is neither lost nor shown
\* twice, nor in another place, although zone and parent work out the move each for
\* itself.
ParentAgrees == Idle \/ pickGone => \A z \in Zones : zone[z].children = told[z]

\* While a placeholder is shown and the zone accepts the drop, the drop
\* payload names the place where the placeholder is.
Shown(z) == LET p == zone[z].placeholder IN
            p >= 0 /\ ~(payload.zone = z /\ p \in {payload.index, payload.index + 1})
PlaceholderTellsTruth ==
  \A z \in Zones :
    Moving /\ pointer.accepted = z /\ payload # None /\ Shown(z) =>
      LET p == zone[z].placeholder IN
      over.index = (IF payload.zone = z /\ payload.index < p THEN p - 1
                    ELSE IF zone[z].children = <<>> THEN 1 ELSE p)

\* "Whenever drag has finished or canceled, we will clear all the state"
\* (line 657): after a drag the store is empty and no zone is in it.
StateCleared ==
  Idle /\ byMouse =>
    /\ payload = None /\ over = None /\ ~dropped
    /\ \A z \in Zones : zone[z].dragging = -1 /\ zone[z].placeholder = -1 /\ zone[z].state = NoState
================================================================================
