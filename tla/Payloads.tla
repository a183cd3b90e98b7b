-------------------------------- MODULE Payloads ---------------------------------
(***************************************************************************)
(* src/Common/src/interaction/DragAndDropStore.js: what is being dragged,  *)
(* one item or several, in either form, and the zones that can be reached  *)
(* from the keyboard.                                                      *)
(***************************************************************************)
EXTENDS Naturals, Sequences

CONSTANTS
  Zones,
  Items,       \* what makes up an item: index, value, block, size
  Directions,  \* BEFORE is the one that counts when none is given
  Nothing

VARIABLES
  dragPayload,
  registered,  \* _zoneNavigation: of each zone, which mounting of it listens; Nothing
               \* after its removal, and before the first registration for all zones
  mounted,     \* of each zone, whether it is mounted, and how often it was
  told,        \* which mounting was told of a move last
  failed       \* a call threw

payloadVars == <<dragPayload, registered, mounted, told, failed>>

Payload(name, item, direction, isKeyboard) ==
  [name |-> name, item |-> item, direction |-> direction, isKeyboard |-> isKeyboard]
MultiPayload(name, items, direction, isKeyboard) ==
  [name |-> name, items |-> items, direction |-> direction, isKeyboard |-> isKeyboard]
IsMulti(payload) == "items" \in DOMAIN payload

ConvertPayloadItemToPayload(multi, item) ==
  Payload(multi.name, item, multi.direction, multi.isKeyboard)

GetSinglePayloadFromZone(payload) ==
  CASE ~IsMulti(payload) -> payload
    [] IsMulti(payload) /\ Len(payload.items) = 1 ->
         ConvertPayloadItemToPayload(payload, payload.items[1])
    [] OTHER -> Nothing

GetMultiPayloadFromZone(payload) ==
  IF IsMulti(payload) THEN payload
  ELSE MultiPayload(payload.name, <<payload.item>>, payload.direction, payload.isKeyboard)

--------------------------------------------------------------------------------
Init ==
  /\ dragPayload = Nothing
  /\ registered = Nothing
  /\ mounted = [z \in Zones |-> [now |-> FALSE, times |-> 0]]
  /\ told = Nothing
  /\ failed = FALSE

\* A drag begins in a zone that is there.
SetDragPayload ==
  /\ \E name \in {z \in Zones : mounted[z].now}, direction \in Directions, isKeyboard \in BOOLEAN :
       \/ \E item \in Items : dragPayload' = Payload(name, item, direction, isKeyboard)
       \/ \E n \in 0 .. 2 : \E items \in [1 .. n -> Items] :
            dragPayload' = MultiPayload(name, items, direction, isKeyboard)
  /\ UNCHANGED <<registered, mounted, told, failed>>

Reset == dragPayload' = Nothing /\ UNCHANGED <<registered, mounted, told, failed>>

\* componentDidMount() of a zone
RegisterZoneNavigation(z) ==
  /\ ~mounted[z].now /\ mounted[z].times < 2
  /\ mounted' = [mounted EXCEPT ![z] = [now |-> TRUE, times |-> @.times + 1]]
  /\ registered' = [y \in Zones |-> IF y = z THEN mounted[z].times + 1
                                    ELSE IF registered = Nothing THEN Nothing ELSE registered[y]]
  /\ UNCHANGED <<dragPayload, told, failed>>

\* componentWillUnmount() of a zone
RemoveZoneNavigation(z) ==
  /\ mounted[z].now
  /\ mounted' = [mounted EXCEPT ![z].now = FALSE]
  /\ registered' = [registered EXCEPT ![z] = Nothing]
  /\ UNCHANGED <<dragPayload, told, failed>>

\* navigateToOtherZone(), notifyOtherZoneToCancelMove() and notifyOtherZoneToMove()
\* are called by zones, of a neighbor that may not be there.
NotifyOtherZone(from, z) ==
  /\ mounted[from].now
  /\ failed' = (failed \/ registered = Nothing)
  /\ told' = IF registered # Nothing /\ registered[z] # Nothing THEN <<z, registered[z]>> ELSE Nothing
  /\ UNCHANGED <<dragPayload, registered, mounted>>

Next ==
  \/ SetDragPayload \/ Reset
  \/ \E z \in Zones : RegisterZoneNavigation(z) \/ RemoveZoneNavigation(z)
  \/ \E from, z \in Zones : NotifyOtherZone(from, z)

Spec == Init /\ [][Next]_payloadVars

--------------------------------------------------------------------------------
(* Properties                                                              *)

\* A payload of one item is the same in either form and back again, one of more or of
\* no items has no single form, and no conversion loses what is dragged.
PayloadsConvert ==
  dragPayload # Nothing =>
    LET single == GetSinglePayloadFromZone(dragPayload)
        multi == GetMultiPayloadFromZone(dragPayload)
    IN /\ IF single = Nothing THEN IsMulti(dragPayload) /\ Len(dragPayload.items) # 1
          ELSE /\ GetMultiPayloadFromZone(single) = multi
               /\ multi.items = <<single.item>>
       /\ Len(multi.items) = 1 => single = GetSinglePayloadFromZone(multi)

\* A zone that tells another of a move reaches the mounting of it that is there, or
\* none, and never finds the store without zones.
MountedZonesAreTold ==
  /\ ~failed
  /\ \A z \in Zones :
       registered # Nothing => (registered[z] # Nothing <=> mounted[z].now)
  /\ \A z \in Zones : registered # Nothing /\ registered[z] # Nothing =>
       registered[z] = mounted[z].times
================================================================================
