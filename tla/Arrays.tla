--------------------------------- MODULE Arrays ----------------------------------
(***************************************************************************)
(* src/Common/src/util/ArrayUtils.js (elements moved, removed and merged   *)
(* in place by their indices) and the array half of                        *)
(* src/Common/src/util/DataUtil.js (sets, maps, histograms and             *)
(* intersections of arrays).  Indices begin at 0, as in the code.          *)
(***************************************************************************)
EXTENDS Integers, Sequences, FiniteSetsExt, SequencesExt

CONSTANTS
  Start,       \* the array to begin with
  MaxSteps     \* bound: the operations

VARIABLES
  array,
  before,      \* the array before the last operation
  done,        \* the last operation, its arguments and what it returned
  steps

arrayVars == <<array, before, done, steps>>

\* Indices of array, increasing
Increasing(indices) == SetToSortSeq(indices, <)
Indices(a) == 0 .. Len(a) - 1
Elements(a, indices) == [i \in DOMAIN indices |-> a[indices[i] + 1]]

--------------------------------------------------------------------------------
(* ArrayUtils                                                              *)

Moved(a, from, to) ==
  [i \in DOMAIN a |->
     CASE i = to + 1 -> a[from + 1]
       [] from < to /\ i \in from + 1 .. to -> a[i + 1]
       [] from > to /\ i \in to + 2 .. from + 1 -> a[i - 1]
       [] OTHER -> a[i]]

\* What removeByIndices() leaves of an array; it returns Elements(a, indices).
Removed(a, indices) == Elements(a, Increasing(Indices(a) \ ToSet(indices)))

\* splice(index, 0, element) puts an element beyond the end at the end.
Spliced(a, index, element) ==
  LET at == IF index > Len(a) THEN Len(a) ELSE index
  IN InsertAt(a, at + 1, element)

Merged(target, elements, indices) ==
  LET order == SetToSortSeq(DOMAIN indices, LAMBDA x, y : indices[x] < indices[y])
  IN FoldLeft(LAMBDA a, i : Spliced(a, indices[i], elements[i]), target, order)

\* How many of the moved elements come from before the place they go to
UpdateIndices(from, to) == Cardinality({i \in DOMAIN from : from[i] < to[1]})

UpdatedTo(from, to) ==
  IF from[1] < to[1]
  THEN [i \in DOMAIN to |-> to[i] - UpdateIndices(from, to)]
  ELSE to

\* The elements that are not moved fill the places no moved one takes, in order.
ElementsMoved(a, from, to) ==
  LET places == UpdatedTo(from, to)
      staying == Increasing(Indices(a) \ ToSet(from))
      free == Increasing(Indices(a) \ ToSet(places))
  IN [p \in DOMAIN a |->
        IF p - 1 \in ToSet(places)
        THEN a[from[CHOOSE i \in DOMAIN places : places[i] = p - 1] + 1]
        ELSE a[staying[CHOOSE k \in DOMAIN free : free[k] = p - 1] + 1]]

\* moveElementByIndicies(): where to move the elements to undo the move
Returned(from, to) ==
  IF from[1] < to[1] THEN UpdatedTo(from, to) ELSE [i \in DOMAIN from |-> from[i] + Len(from)]

--------------------------------------------------------------------------------
(* DataUtil                                                                *)

ToHistogram(a) == [v \in ToSet(a) |-> Cardinality({i \in DOMAIN a : a[i] = v})]

\* The histogram of one array, counted down with the other
CountedDown(histogram, a) ==
  FoldLeft(LAMBDA left, v :
             CASE v \notin DOMAIN left -> [u \in {"missing"} |-> 1]
               [] left[v] = 1 -> [u \in DOMAIN left \ {v} |-> left[u]]
               [] OTHER -> [left EXCEPT ![v] = @ - 1],
           histogram, a)

SameElements(a, b) == Len(a) = Len(b) /\ DOMAIN CountedDown(ToHistogram(a), b) = {}

IndexOf(a, v) == Min({i \in DOMAIN a : a[i] = v})
RemoveFromArray(a, v) == IF v \in ToSet(a) THEN RemoveAt(a, IndexOf(a, v)) ELSE a

\* toES6Set() and toES6Map() throw for a value or a hash that comes twice.
Refused(a) == \E v \in ToSet(a) : ToHistogram(a)[v] > 1
ToES6Map(a, hash) ==
  [h \in {hash[v] : v \in ToSet(a)} |-> CHOOSE v \in ToSet(a) : hash[v] = h]
IsSubset(a, b) == \A v \in ToSet(a) : v \in ToSet(b)

DeepIntersection(a, b) ==
  FoldLeft(LAMBDA result, v : IF v \in ToSet(result) \/ v \notin ToSet(b) THEN result
                              ELSE Append(result, v), <<>>, a)

--------------------------------------------------------------------------------
Init == array = Start /\ before = Start /\ done = [op |-> "none"] /\ steps = 0

Done(new, operation) ==
  /\ steps < MaxSteps
  /\ steps' = steps + 1
  /\ before' = array
  /\ array' = new
  /\ done' = operation

Move ==
  \E from, to \in Indices(array) :
     Done(Moved(array, from, to), [op |-> "move", from |-> from, to |-> to])

RemoveByIndices ==
  \E S \in SUBSET Indices(array) :
     LET indices == Increasing(S)
     IN Done(Removed(array, indices),
             [op |-> "remove", indices |-> indices, returned |-> Elements(array, indices)])

\* Elements go to one place, one after the other, as a drop puts them.
MoveElementByIndicies ==
  \E S \in SUBSET Indices(array) \ {{}}, first \in 0 .. Len(array) :
     LET from == Increasing(S)
         to == [i \in 1 .. Len(from) |-> first + i - 1]
     IN /\ first + Len(from) - (IF from[1] < first THEN UpdateIndices(from, to) ELSE 0)
             <= Len(array)
        /\ Done(ElementsMoved(array, from, to),
                [op |-> "moveAll", indices |-> from, places |-> to,
                 returned |-> Returned(from, to)])

RemoveOne ==
  \E v \in ToSet(Start) : Done(RemoveFromArray(array, v), [op |-> "removeOne", value |-> v])

Next == Move \/ RemoveByIndices \/ MoveElementByIndicies \/ RemoveOne

Spec == Init /\ [][Next]_arrayVars

--------------------------------------------------------------------------------
(* Properties                                                              *)

\* A move keeps the elements, is a removal and an insertion, and what
\* moveElementByIndicies() returns moves them back; merge() puts back what
\* removeByIndices() took (ArrayUtils).
MovesCanBeUndone ==
  /\ done.op = "move" =>
       /\ array = InsertAt(RemoveAt(before, done.from + 1), done.to + 1, before[done.from + 1])
       /\ Moved(array, done.to, done.from) = before
  /\ done.op = "remove" =>
       Merged(array, Reverse(done.returned), Reverse(done.indices)) = before
  /\ done.op = "moveAll" =>
       LET at == UpdatedTo(done.indices, done.places)
       IN /\ Elements(array, at) = Elements(before, done.indices)
          /\ Removed(array, at) = Removed(before, done.indices)
          /\ before = IF done.indices[1] < done.places[1]
                      THEN ElementsMoved(array, done.returned, done.indices)
                      ELSE ElementsMoved(array, at, done.returned)

\* Arrays have the same elements if one is a rearrangement of the other, not if one
\* has lost one; sets, subsets and intersections are those of the elements (DataUtil).
ComparisonsAreRight ==
  LET Times(a, v) == Cardinality({i \in DOMAIN a : a[i] = v})
      common == DeepIntersection(before, array)
  IN /\ SameElements(array, before)
          <=> \A v \in ToSet(array) \cup ToSet(before) : Times(array, v) = Times(before, v)
     /\ done.op \in {"move", "moveAll"} => SameElements(array, before)
     /\ done.op = "removeOne" /\ done.value \in ToSet(before) =>
          Times(array, done.value) = Times(before, done.value) - 1
     /\ IsSubset(array, before)
     /\ SameElements(common, SetToSeq(ToSet(array) \cap ToSet(before)))
     /\ \A i, j \in DOMAIN common : i < j => IndexOf(before, common[i]) < IndexOf(before, common[j])
     /\ Refused(array) <=> Len(array) > Cardinality(ToSet(array))
     /\ ~Refused(array) => DOMAIN ToES6Map(array, [v \in ToSet(array) |-> <<v>>]) = {<<v>> : v \in ToSet(array)}
================================================================================
