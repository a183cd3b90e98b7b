---------------------------------- MODULE Trees ----------------------------------
(***************************************************************************)
(* src/Common/src/functional: BinaryTree.js on Option.js, Either.js and    *)
(* the pattern matching of Pattern.js and CaseClass.js.  A match whose     *)
(* branch gives null counts as no match and throws; so getting a null out  *)
(* of an Option or an Either throws, whatever the default.                 *)
(***************************************************************************)
EXTENDS Integers, Sequences, FiniteSetsExt, SequencesExt

CONSTANTS
  Values,      \* a subset of Nat: what is put into the tree
  Null,
  MaxSize      \* bound: the nodes

VARIABLES
  tree,
  put          \* the values in the tree, in the order in which they came

treeVars == <<tree, put>>

--------------------------------------------------------------------------------
(* Pattern.match(), Option and Either                                      *)

NoValue == [is |-> "None"]
Some(v) == [is |-> "Some", value |-> v]
Left(v) == [is |-> "Left", value |-> v]
Right(v) == [is |-> "Right", value |-> v]
Thrown == [is |-> "thrown"]
Match(executed) == IF executed = Null THEN Thrown ELSE executed

\* "result" is what the caller's function returns for the value, if it is called.
OptionGet(o) == IF o.is = "Some" THEN Match(o.value) ELSE Thrown
GetOrElse(o, other) == Match(IF o.is = "Some" THEN o.value ELSE other)
OrElse(o, other) == IF o.is = "Some" THEN o ELSE Match(other)
OptionMap(o, result) == IF o.is = "Some" THEN Some(result) ELSE NoValue
OptionFlatMap(o, result) == IF o.is = "Some" THEN Match(result) ELSE NoValue
OptionFilter(o, result) == IF o.is = "Some" /\ result THEN o ELSE NoValue
Every(o, result) == GetOrElse(OptionMap(o, result), FALSE)
IsEmpty(o) == o.is = "None"

EitherFold(e, resultA, resultB) == Match(IF e.is = "Left" THEN resultA ELSE resultB)
Swap(e) == IF e.is = "Left" THEN Right(e.value) ELSE Left(e.value)
EitherMap(e, result) == IF e.is = "Right" THEN Right(result) ELSE e
EitherFlatMap(e, result) == IF e.is = "Right" THEN Match(result) ELSE e
EitherGetOrElse(e, other) == Match(IF e.is = "Right" THEN e.value ELSE other)

--------------------------------------------------------------------------------
(* BinaryTree                                                              *)

Leaf(value) == [is |-> "Leaf", value |-> value]
Branch(value, left, right) == [is |-> "Branch", value |-> value, left |-> left, right |-> right]

\* What a fold gives for a leaf, and for a branch and what it gave for its sides
OfLeaf(fold, v) == IF fold = "values" THEN <<v>> ELSE 1
OfBranch(fold, left, right, v) ==
  CASE fold = "depth" -> Max({GetOrElse(left, 0), GetOrElse(right, 0)}) + 1
    [] fold = "size" -> GetOrElse(left, 0) + GetOrElse(right, 0) + 1
    [] OTHER -> GetOrElse(left, <<>>) \o <<v>> \o GetOrElse(right, <<>>)

RECURSIVE Fold(_, _)
Fold(t, fold) ==
  LET below(side) == OptionMap(side, Fold(side.value, fold))
  IN Match(IF t.is = "Leaf" THEN OfLeaf(fold, t.value)
           ELSE OfBranch(fold, below(t.left), below(t.right), t.value))

Depth(t) == Fold(t, "depth")
Size(t) == Fold(t, "size")
ValuesSorted(t) == Fold(t, "values")

\* A value added to a leaf becomes a branch above it.
RECURSIVE Add(_, _)
Add(t, value) ==
  LET added(side) == Some(GetOrElse(OptionMap(side, Add(side.value, value)), Leaf(value)))
  IN CASE t.is = "Leaf" /\ value >= t.value -> Branch(value, Some(t), NoValue)
       [] t.is = "Leaf" /\ value < t.value -> Branch(value, NoValue, Some(t))
       [] t.is = "Branch" /\ value >= t.value -> Branch(t.value, t.left, added(t.right))
       [] OTHER -> Branch(t.value, added(t.left), t.right)

--------------------------------------------------------------------------------
Init == \E v \in Values : tree = Leaf(v) /\ put = <<v>>
Next == \E v \in Values : Len(put) < MaxSize /\ tree' = Add(tree, v) /\ put' = Append(put, v)
Spec == Init /\ [][Next]_treeVars

--------------------------------------------------------------------------------
(* Properties                                                              *)

\* A tree to which values are added stays a search tree of just these values: read
\* from left to right they are sorted, and its size and depth fit.
TreeIsSearchTree ==
  /\ ValuesSorted(tree) = SortSeq(put, <)
  /\ Size(tree) = Len(put)
  /\ Depth(tree) <= Size(tree) /\ 2 ^ Depth(tree) > Size(tree)

\* Options and Eithers of subtrees, and of null: a default is used just where there
\* is no value, and mapping, filtering and swapping keep what they promise.
OptionsObey ==
  LET sides == IF tree.is = "Leaf" THEN {NoValue} ELSE {tree.left, tree.right}
      eithers == <<Left(0), Right(tree)>>
  IN /\ \A o \in sides :
          /\ OptionFlatMap(o, Some(o.value)) = o /\ OrElse(o, Some(0)).is = "Some"
          /\ LET large == Size(o.value) > 1
             IN Every(o, large) <=> ~IsEmpty(OptionFilter(o, large))
          /\ GetOrElse(o, 0) = IF IsEmpty(o) THEN 0 ELSE OptionGet(o)
          /\ LET sizes == OptionMap(o, Size(o.value))
             IN OptionGet(OrElse(sizes, Some(0))) = GetOrElse(sizes, 0)
     /\ \A i \in DOMAIN eithers :
          LET e == eithers[i]
          IN /\ Swap(Swap(e)) = e /\ EitherFlatMap(e, Right(e.value)) = e
             /\ EitherGetOrElse(EitherMap(e, Size(e.value)), 0) = EitherFold(e, 0, Size(e.value))
     /\ OptionGet(Some(Null)) = Thrown /\ GetOrElse(Some(Null), 0) = Thrown
================================================================================
