------------------------------- MODULE MCLibrary -------------------------------
(***************************************************************************)
(* The parts of Library and the others that share nothing, for TLC, each   *)
(* by itself: a behaviour is one of the part it is about, and the others   *)
(* stay as they begin.                                                     *)
(***************************************************************************)
EXTENDS Library

WithAndWithoutLimit == {2, NoLimit}
\* Two zones one below the other.
FirstChildren == [A |-> <<"x", "y", "v">>, B |-> <<"w">>]
OneBelowTheOther == [A |-> [up |-> None, down |-> "B"], B |-> [up |-> "A", down |-> None]]
Sizes == [x |-> 1, y |-> 3, v |-> 2, w |-> 5]

VARIABLES
  nodes, sources, destinations, graphs, flowUp, layout,
  color, edits, array, before, done, steps, heap, called, tree, put,
  range, other, value, dates, otherDates

\* A diamond, a cycle of two and a loop can be made of these edges.
Digraphs == INSTANCE DirectedGraphs WITH
  Ids <- 1..4, Pairs <- {<<1, 2>>, <<1, 3>>, <<2, 4>>, <<3, 4>>, <<4, 3>>, <<3, 2>>, <<1, 1>>},
  MaxEdges <- 4, RespectEdgeOrder <- TRUE, Nothing <- None
Grid == INSTANCE Layouts WITH
  Sides <- [a |-> [width |-> 1, height |-> 2], b |-> [width |-> 2, height |-> 1],
            c |-> [width |-> 2, height |-> 2]],
  Columns <- 3, MaxRow <- 2
\* A code that cannot be read, none, #F0A and two with an opacity; the levels and
\* the moves reach beyond what is allowed.
Pick == INSTANCE Colors WITH
  HexInputs <- {[form |-> form, rgb |-> [red |-> rgb[1], green |-> rgb[2], blue |-> rgb[3]],
                 alpha |-> alpha] :
                  <<form, rgb, alpha>> \in
                    {<<"none", <<0, 0, 0>>, 0>>, <<"empty", <<0, 0, 0>>, 0>>,
                     <<"short", <<15, 0, 10>>, 0>>, <<"hexa", <<18, 171, 254>>, 255>>,
                     <<"hexa", <<1, 2, 3>>, 128>>}},
  Levels <- {0, 7, 255, 256},
  HsvInputs <- {[hue |-> <<hue, 1>>, saturation |-> <<37, 1>>, value |-> <<64, 1>>] :
                  hue \in {135, 360}},
  Deltas <- {-15, 10}, Alphas <- {0, 33, 100}, MaxEdits <- 3
Row == INSTANCE Arrays WITH Start <- <<"a", "b", "c", "a">>, MaxSteps <- 2
\* Objects p, q and r may have x and y in them, atoms and nulls.
FirstHeaps ==
  {[p |-> p, q |-> q, r |-> r, x |-> x, y |-> y] :
     p \in {[k |-> "x"], [k |-> "x", l |-> "v"], [k |-> "x", l |-> None]},
     q \in {[k |-> "y"], [k |-> "y", l |-> None], [k |-> "w"]},
     r \in {[l |-> "w"], [k |-> "v"]},
     x \in {[k |-> "v"], [l |-> None], [k |-> None, l |-> "w"]},
     y \in {[k |-> "w"], [k |-> None, l |-> "v"]}}
Combined == INSTANCE Objects WITH
  Roots <- {"p", "q", "r"}, Nested <- {"x", "y"}, Names <- {"k", "l"}, Null <- None,
  Heaps <- FirstHeaps, MaxCalls <- 2
Search == INSTANCE Trees WITH Values <- 1 .. 3, Null <- None, MaxSize <- 5
Bands == INSTANCE Ranges WITH
  Bounds <- 1 .. 3, Infinity <- 9, Open <- None, MillisPerDay <- 3,
  Dates <- {[grain |-> "DAY", offset |-> -1, fiscal |-> FALSE],
            [grain |-> "YEAR", offset |-> 1, fiscal |-> TRUE],
            [grain |-> "YEAR", offset |-> -1, fiscal |-> TRUE]}
           \cup {[millis |-> millis] : millis \in {-1, 1, 2}}

--------------------------------------------------------------------------------
graphVars == <<nodes, sources, destinations, graphs>>
gridVars == <<flowUp, layout>>
pickVars == <<color, edits>>
rowVars == <<array, before, done, steps>>
combinedVars == <<heap, called>>
searchVars == <<tree, put>>
bandVars == <<range, other, value, dates, otherDates>>
all == <<libraryVars, graphVars, gridVars, pickVars, rowVars, combinedVars, searchVars, bandVars>>

MCInit ==
  /\ part \in LibraryParts \cup {"graphs", "grid", "pick", "row", "combined", "search", "bands"}
  /\ LibraryInit
  /\ Digraphs!Init /\ Grid!Init /\ (part = "grid" \/ flowUp)
  /\ Pick!Init /\ Row!Init
  /\ Combined!Init /\ (part = "combined" \/ heap = CHOOSE h \in FirstHeaps : TRUE)
  /\ Search!Init /\ (part = "search" \/ put = <<1>>)
  /\ Bands!Init /\ (part = "bands" \/ (range = Bands!Boundless /\ dates = Bands!NoDates))

Others ==
  /\ LibraryOthers
  /\ IF part = "graphs" THEN TRUE ELSE UNCHANGED graphVars
  /\ IF part = "grid" THEN TRUE ELSE UNCHANGED gridVars
  /\ IF part = "pick" THEN TRUE ELSE UNCHANGED pickVars
  /\ IF part = "row" THEN TRUE ELSE UNCHANGED rowVars
  /\ IF part = "combined" THEN TRUE ELSE UNCHANGED combinedVars
  /\ IF part = "search" THEN TRUE ELSE UNCHANGED searchVars
  /\ IF part = "bands" THEN TRUE ELSE UNCHANGED bandVars

MCNext ==
  /\ Others
  /\ \/ LibraryNext
     \/ part = "graphs" /\ Digraphs!Next
     \/ part = "grid" /\ Grid!Next
     \/ part = "pick" /\ Pick!Next
     \/ part = "row" /\ Row!Next
     \/ part = "combined" /\ Combined!Next
     \/ part = "search" /\ Search!Next
     \/ part = "bands" /\ Bands!Next

MCSpec == MCInit /\ [][MCNext]_all /\ WF_all(part = "merge" /\ Others /\ Merge!Promised)

--------------------------------------------------------------------------------
\* What is worked out for a graph is right by its definition: components,
\* topological order, longest path, linearity, descendants.
GraphAnalysisIsRight ==
  part = "graphs" =>
    /\ Digraphs!TypeOK /\ Digraphs!GraphsAreComponents /\ Digraphs!OrderIsTopological
    /\ Digraphs!LongestPathIsLongest /\ Digraphs!LinearIsAChain /\ Digraphs!DescendantsAreReached

\* hex, rgb and hsv of an edited colour are one colour or an error is shown, and
\* what is computed of colours agrees between the formats (ColorUtil).
ColorsAgree == part = "pick" => Pick!FieldsAgree /\ Pick!SpacesAgree /\ Pick!CodesAgree

\* Moves and removals of array elements can be undone, objects are combined without
\* a change of others, a search tree finds what was put into it, and comparisons,
\* ranges, options and payloads are what they say (ArrayUtils, DataUtil, BinaryTree,
\* Range, dates, Option and Either, DragAndDropStore).
DataCombined ==
  /\ part = "row" => Row!MovesCanBeUndone /\ Row!ComparisonsAreRight
  /\ part = "combined" => Combined!ObjectsCombined
  /\ part = "bands" => Bands!NumbersAreInRange /\ Bands!DateRangesAgree
  /\ part = "search" => Search!TreeIsSearchTree /\ Search!OptionsObey
  /\ part = "held" => Held!PayloadsConvert

\* Items have no overlaps and no gaps, and boxes hold what is in them
\* (DragAndDropState, LayoutUtil).
NothingOverlaps ==
  /\ part = "drag" => Drags!NothingOverlaps
  /\ part = "grid" => Grid!LaysOut /\ Grid!BoxesHold
================================================================================
