--------------------------------- MODULE Library --------------------------------
(***************************************************************************)
(* The parts that share nothing and about which there are proofs, each by  *)
(* itself: a behaviour is one of the part it is about, and the others stay *)
(* as they begin.  The cache of Cache is one of the parts.                 *)
(***************************************************************************)
EXTENDS Cache, FiniteSets

CONSTANTS
  EnsureUnique,                               \* LinkedMap
  Froms, Tos,                                 \* BiMap and MultiBiMap
  Capacity, MaxAdds,                          \* queues and stacks
  ResultKeys, Results, MaxQueries,            \* LightningCacheService
  StoragePrefixes,                            \* LocalStorageUtil
  Sources, Kinds, MaxEvents,                  \* Observable
  MaxRenders, Deferreds,                      \* hooks, whenAll
  Zones, Start, Neighbors, Modes, MaxGestures, ItemSize, Spacing,  \* drag and drop
  Names, Codes, Constants, MaxConstants,      \* Enum and Codeable
  DragItems, Directions,                      \* DragAndDropStore
  PromisedElements                            \* OptionArrayPromise

\* None is unlike all that is kept or handed on.
ASSUME LibraryNoneAssumption ==
  /\ None \notin Values \cup Froms \cup Tos \cup ResultKeys \cup Results \cup Deferreds
  /\ None \notin Zones \cup Names \cup Codes \cup Constants \cup PromisedElements
  /\ None \notin Nat \cup {"resolved"}
  /\ None \notin [key : Keys, value : Values] \cup [Zones -> Nat \cup {None}]
  /\ None \notin [Froms -> Values \cup {None}] \cup [Tos -> Values \cup {None}]
ASSUME SidesAssumption == IsFiniteSet(Froms) /\ IsFiniteSet(Tos)
ASSUME SourcesAssumption == IsFiniteSet(Sources)
ASSUME DeferredsAssumption == IsFiniteSet(Deferreds) /\ "resolved" \notin Deferreds
ASSUME LimitsOfQueuesAssumption ==
  Capacity \in Nat \ {0} /\ MaxAdds \in Nat /\ MaxQueries \in Nat \ {0}

VARIABLES
  part,
  list, map, tos, froms, forward, back, queue, evicting, stack, added,
  cachedResults, resultQueue, noEviction, storage, keyPrefix, keysForCurrentPrefix,
  kind, events, completed, subscribed, unsubscribed, result, didUnsubscribe, stopped,
  alive, deps, effect, mounted, state, unsettled, hidden, domVisible, observed, backgrounded,
  count, error, master, settled,
  mode, zone, told, payload, over, dropped, activeZone, pointer, pickGone, gestures,
  byMouse,
  nameToEnum, codeToEnum, class, own, frozen, threw, adds,
  dragPayload, registered, zonesMounted, zoneTold, failed,
  original, isCanceled, wrapped, debounced, current, inEffect,
  recalled, callbacks

Maps == INSTANCE LinkedMap WITH Nothing <- None
BothSides == INSTANCE BiMaps WITH Nothing <- None
Bounded == INSTANCE Queues
Answers == INSTANCE ResultCaches WITH Keys <- ResultKeys, Nothing <- None
Merge == INSTANCE Observables
Late == INSTANCE Hooks WITH Nothing <- None
Drags == INSTANCE DragLayout WITH Size <- ItemSize
Named == INSTANCE Enums WITH Nothing <- None, MaxAdds <- MaxConstants
Held == INSTANCE Payloads WITH
  Items <- DragItems, Nothing <- None, mounted <- zonesMounted, told <- zoneTold
Promised == INSTANCE Promises WITH
  Null <- None, Elements <- PromisedElements, called <- callbacks

\* The items to be dragged are in one place each, no zone is its own neighbour,
\* and None is unlike all that is dragged.
ASSUME ZonesAssumption ==
  /\ IsFiniteSet(Zones) /\ Start \in [Zones -> Seq(Drags!Items)]
  /\ \A y, z \in Zones : \A i \in DOMAIN Start[y], j \in DOMAIN Start[z] :
       Start[y][i] = Start[z][j] => y = z /\ i = j
ASSUME NeighborsAssumption ==
  \A z \in Zones, d \in {Drags!Up, Drags!Down} : Neighbors[z][d] \in (Zones \ {z}) \cup {None}
ASSUME ModesAssumption == Modes \subseteq {"skip", "controlled", "own"}
ASSUME DragNoneAssumption ==
  /\ None \notin Drags!Items \cup Seq(Drags!Items)
  /\ None \notin [zone : Zones, index : Nat] \cup [zone : Zones, index : Nat, item : Drags!Items]

--------------------------------------------------------------------------------
mapVars == <<list, map>>
pairVars == <<tos, froms, forward, back>>
queueVars == <<queue, evicting, stack, added>>
answerVars == <<cachedResults, resultQueue, noEviction>>
localVars == <<storage, keyPrefix, keysForCurrentPrefix>>
mergeVars == <<kind, events, completed, subscribed, unsubscribed, result, didUnsubscribe, stopped>>
lateVars == <<alive, deps, effect, mounted, state, unsettled, hidden, domVisible, observed,
              backgrounded, count, error, master, settled>>
dragVars ==
  <<mode, zone, told, payload, over, dropped, activeZone, pointer, pickGone, gestures, byMouse>>
namedVars == <<nameToEnum, codeToEnum, class, own, frozen, threw, adds>>
heldVars == <<dragPayload, registered, zonesMounted, zoneTold, failed>>
promisedVars ==
  <<original, isCanceled, wrapped, debounced, current, inEffect, recalled, callbacks>>
libraryVars == <<part, vars, mapVars, pairVars, queueVars, answerVars, localVars, mergeVars,
                 lateVars, dragVars, namedVars, heldVars, promisedVars>>

LibraryParts ==
  {"cache", "map", "pairs", "queues", "answers", "local", "merge", "late", "drag", "named", "held",
   "promised"}

\* A part that stays as it begins begins in one way.
LibraryInit ==
  /\ Init /\ (part = "cache" \/ cache.limit = CHOOSE limit \in FirstLimits : TRUE)
  /\ Maps!Init /\ BothSides!Init /\ Bounded!Init /\ Answers!Init
  /\ Merge!Init /\ (part = "merge" \/ kind = CHOOSE k \in [Sources -> Kinds] : TRUE)
  /\ Late!Init /\ (part = "late" \/ (domVisible /\ ~hidden))
  /\ Drags!Init /\ (part = "drag" \/ mode = CHOOSE m \in Modes : TRUE)
  /\ Named!Init /\ Held!Init /\ Promised!Init

LibraryOthers ==
  /\ UNCHANGED part
  /\ IF part = "cache" THEN TRUE ELSE UNCHANGED vars
  /\ IF part = "map" THEN TRUE ELSE UNCHANGED mapVars
  /\ IF part = "pairs" THEN TRUE ELSE UNCHANGED pairVars
  /\ IF part = "queues" THEN TRUE ELSE UNCHANGED queueVars
  /\ IF part = "answers" THEN TRUE ELSE UNCHANGED answerVars
  /\ IF part = "local" THEN TRUE ELSE UNCHANGED localVars
  /\ IF part = "merge" THEN TRUE ELSE UNCHANGED mergeVars
  /\ IF part = "late" THEN TRUE ELSE UNCHANGED lateVars
  /\ IF part = "drag" THEN TRUE ELSE UNCHANGED dragVars
  /\ IF part = "named" THEN TRUE ELSE UNCHANGED namedVars
  /\ IF part = "held" THEN TRUE ELSE UNCHANGED heldVars
  /\ IF part = "promised" THEN TRUE ELSE UNCHANGED promisedVars

LibraryNext ==
  \/ part = "cache" /\ Next
  \/ part = "map" /\ Maps!Next
  \/ part = "pairs" /\ BothSides!Next
  \/ part = "queues" /\ Bounded!Next
  \/ part \in {"answers", "local"} /\ Answers!Next
  \/ part = "merge" /\ Merge!Next
  \/ part = "late" /\ Late!Next
  \/ part = "drag" /\ Drags!Next
  \/ part = "named" /\ Named!Next
  \/ part = "held" /\ Held!Next
  \/ part = "promised" /\ Promised!Next

LibrarySpec ==
  part \in LibraryParts /\ LibraryInit /\ [][LibraryOthers /\ LibraryNext]_libraryVars

--------------------------------------------------------------------------------
\* Each part is looked at where it moves.

\* The two or more structures in which each part keeps one thing are in step
\* (Cache, LinkedMap, MultiBiMap, queues, LightningCacheService, Codeable,
\* DragAndDropStore).
StructuresSound ==
  /\ part = "cache" => TypeOK /\ ListIsSound
  /\ part = "map" => Maps!ListIsMap
  /\ part = "pairs" => BothSides!SidesAgree
  /\ part = "queues" => Bounded!InOrderAndBounded
  /\ part = "answers" => Answers!CacheIsBounded
  /\ part = "named" => Named!EnumsAgree
  /\ part = "held" => Held!MountedZonesAreTold

\* What comes late, twice or out of order does not count, or counts once
\* (Observable, usePromise, useBackgrounded, whenAll, OptionPromise).
LateResultsAreRight ==
  /\ part = "merge" => Merge!MergeEndsOnce
  /\ part = "late" => /\ Late!StateIsOfLastEffect /\ Late!BackgroundedWhenBothAgree
                      /\ Late!WhenAllSettlesLast
  /\ part = "promised" => Promised!ChainsEndOnce

\* Steps leave alone what they are not about: the order of a LinkedMap, the items
\* stored under another prefix, and what was given up (CancelablePromise,
\* useDebouncedCallback).
OthersKept == Maps!OrderKept /\ Answers!PrefixesApart /\ Promised!GivenUpStaysGivenUp

\* A merge that was given up stops its sources, and one whose sources have
\* completed completes (Observable).
SourcesStop == Merge!SourcesStop

\* Zones and their parent agree on where an item was dropped, which is where the
\* placeholder was shown (DragAndDropRC).
DropsLandWhereShown ==
  part = "drag" => Drags!TypeOK /\ Drags!ParentAgrees /\ Drags!PlaceholderTellsTruth

\* A drag that has ended leaves nothing behind (DragAndDropRC).
StateCleared == part = "drag" => Drags!StateCleared
================================================================================
