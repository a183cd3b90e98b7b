--------------------------------- MODULE Objects ---------------------------------
(***************************************************************************)
(* src/Common/src/util/DataUtil.js: objects extended, completed with       *)
(* defaults and cleared of nulls in place, the objects in them too.        *)
(*                                                                         *)
(* Objects are references into a heap, because an object that is in no way *)
(* combined with another is taken over by reference: two objects then      *)
(* share it, and what is done through one is seen through the other.       *)
(***************************************************************************)
EXTENDS Naturals, Sequences, FiniteSetsExt

CONSTANTS
  Roots,       \* the objects callers hold
  Nested,      \* the objects in them
  Names,       \* keys
  Heaps,       \* what the objects are in the beginning; no two share an object
  Null,        \* null or undefined; all other values are objects or atoms
  MaxCalls     \* bound: the calls

VARIABLES
  heap,        \* of each object, the values of its keys
  called       \* the last call

objectVars == <<heap, called>>

Refs == Roots \cup Nested
IsMap(value) == value \in Refs
Has(object, name) == name \in DOMAIN object
With(object, name, value) ==
  [n \in DOMAIN object \cup {name} |-> IF n = name THEN value ELSE object[n]]

RECURSIVE DeepExtend(_, _, _), DeepDefaults(_, _, _), DeleteNullValues(_, _)

\* One key after the other; no result depends on their order.
Each(names, memory, step(_, _)) == FoldSet(LAMBDA name, m : step(m, name), memory, names)

\* A mutant: an object is not extended but replaced.
Clobber(memory, object, from) ==
  Each(DOMAIN memory[from], memory,
       LAMBDA m, name : [m EXCEPT ![object] = With(@, name, m[from][name])])

DeepExtend(memory, object, from) ==
  Each(DOMAIN memory[from], memory,
       LAMBDA m, name :
         LET value == m[from][name]
         IN IF Has(m[object], name) /\ IsMap(m[object][name]) /\ IsMap(value)
            THEN DeepExtend(m, m[object][name], value)
            ELSE [m EXCEPT ![object] = With(@, name, value)])

DeepDefaults(memory, object, defaults) ==
  Each(DOMAIN memory[defaults], memory,
       LAMBDA m, name :
         LET value == m[defaults][name]
         IN IF Has(m[object], name) /\ m[object][name] # Null
            THEN IF IsMap(value) /\ IsMap(m[object][name])
                 THEN DeepDefaults(m, m[object][name], value)
                 ELSE m
            ELSE [m EXCEPT ![object] = With(@, name, value)])

DeleteNullValues(memory, object) ==
  Each(DOMAIN memory[object], memory,
       LAMBDA m, name :
         CASE IsMap(m[object][name]) -> DeleteNullValues(m, m[object][name])
           [] m[object][name] = Null ->
                [m EXCEPT ![object] = [n \in DOMAIN @ \ {name} |-> @[n]]]
           [] OTHER -> m)

--------------------------------------------------------------------------------
Init == heap \in Heaps /\ called = [op |-> "none", before |-> heap, calls |-> 0]

Call(op, object, from, new) ==
  /\ called.calls < MaxCalls
  /\ called' = [op |-> op, object |-> object, from |-> from, before |-> heap,
                calls |-> called.calls + 1]
  /\ heap' = new

Next ==
  \/ \E object \in Roots : \E from \in Roots \ {object} :
       Call("extend", object, from, DeepExtend(heap, object, from))
  \/ \E object \in Roots : \E defaults \in Roots \ {object} :
       Call("defaults", object, defaults, DeepDefaults(heap, object, defaults))
  \/ \E object \in Roots :
       Call("clean", object, object, DeleteNullValues(heap, object))

Spec == Init /\ [][Next]_objectVars

--------------------------------------------------------------------------------
(* Properties                                                              *)

\* The value at a path of at most two keys
Missing == "missing"
At(memory, object, path) ==
  LET first == IF Has(memory[object], path[1]) THEN memory[object][path[1]] ELSE Missing
  IN IF Len(path) = 1 THEN first
     ELSE IF IsMap(first) /\ Has(memory[first], path[2]) THEN memory[first][path[2]] ELSE Missing
Paths == (UNION {[1 .. n -> Names] : n \in 1 .. 2})
Value(memory, object, path) ==
  LET v == At(memory, object, path) IN IF IsMap(v) THEN "object" ELSE v
InObject(memory, object) ==
  {object} \cup {r \in Nested : \E n \in DOMAIN memory[object] : memory[object][n] = r}

\* deepExtend() makes the object have, at every path, what the other had there, and
\* keep what the other had not;
\* deepDefaults() leaves what is there and fills the gaps; deleteNullValues() leaves
\* all but nulls; and no call changes an object that shares nothing with the one it
\* is for.
ObjectsCombined ==
  LET was(object, path) == Value(called.before, object, path)
      is(object, path) == Value(heap, object, path)
  IN /\ called.op = "extend" => \A path \in Paths :
          LET first == was(called.from, <<path[1]>>)
          IN /\ was(called.from, path) # Missing =>
                  is(called.object, path) = was(called.from, path)
             /\ \/ first = Missing
                \/ /\ first = "object" /\ was(called.object, <<path[1]>>) = "object"
                   /\ was(called.from, path) = Missing
                => is(called.object, path) = was(called.object, path)
     /\ called.op = "defaults" => \A path \in Paths :
          /\ was(called.object, path) \notin {Missing, Null} =>
               is(called.object, path) = was(called.object, path)
          /\ was(called.object, <<path[1]>>) \in {Missing, Null} =>
               is(called.object, path) = was(called.from, path)
                 \/ (was(called.from, path) = Missing /\ was(called.object, path) = Null)
     /\ called.op = "clean" => \A path \in Paths :
          is(called.object, path)
            = IF was(called.object, path) = Null THEN Missing ELSE was(called.object, path)
     /\ called.op # "none" => \A other \in Roots \ {called.object} :
          InObject(called.before, other) \cap InObject(called.before, called.object) = {} =>
            \A path \in Paths : is(other, path) = was(other, path)
================================================================================
