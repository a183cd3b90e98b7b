------------------------------- MODULE LinkedMap -------------------------------
(***************************************************************************)
(* A map that keeps its entries in the order of insertion (LinkedMap.js):  *)
(* a Map from keys to entries beside an array of the same entries.         *)
(***************************************************************************)
EXTENDS Integers, Sequences, SequencesExt

CONSTANTS Keys, Values, Nothing, EnsureUnique

VARIABLES list, map
vars == <<list, map>>

Init == list = <<>> /\ map = [k \in Keys |-> Nothing]

Entry(k, v) == [key |-> k, value |-> v]
IndexOf(entry) == SelectInSeq(list, LAMBDA e : e = entry)
KeysOf(l) == [i \in DOMAIN l |-> l[i].key]

PutInList(k, v) ==
  list' = IF map[k] = Nothing THEN Append(list, Entry(k, v))
          ELSE ReplaceAt(list, IndexOf(map[k]), Entry(k, v))

\* A map that ensures unique keys throws unless it is told to replace.
Put(k, v, replace) ==
  /\ EnsureUnique => map[k] = Nothing \/ replace
  /\ map' = [map EXCEPT ![k] = Entry(k, v)]
  /\ PutInList(k, v)

Pop ==
  /\ list # <<>>
  /\ map' = [map EXCEPT ![Last(list).key] = Nothing]
  /\ list' = Front(list)

RemoveKey(k) ==
  /\ map[k] # Nothing
  /\ map' = [map EXCEPT ![k] = Nothing]
  /\ list' = RemoveAt(list, IndexOf(map[k]))

\* getIndex: the first position of a value, from 0; getValueAt and getKeyAt.
GetIndex(v) == SelectInSeq(list, LAMBDA e : e.value = v) - 1
ValueAt(i) == IF i + 1 \in DOMAIN list THEN list[i + 1].value ELSE Nothing

\* eachValue: what the iteratee is called with, up to the first time it does
\* not return true.
EachValue(goesOn) ==
  LET stop == SelectInSeq(list, LAMBDA e : ~goesOn[e.value])
  IN IF stop = 0 THEN list ELSE SubSeq(list, 1, stop)

Next ==
  \/ \E k \in Keys, v \in Values, replace \in BOOLEAN : Put(k, v, replace)
  \/ \E k \in Keys : RemoveKey(k)
  \/ Pop
Spec == Init /\ [][Next]_vars

(***************************************************************************)
(* Properties.                                                             *)
(***************************************************************************)
\* The Map and the list hold the same entries after any sequence of calls,
\* and a value is found at the index it is said to be at.
ListIsMap ==
  /\ IsInjective(KeysOf(list))
  /\ ToSet(list) = {map[k] : k \in Keys} \ {Nothing}
  /\ \A k \in Keys : map[k] # Nothing => map[k].key = k
  /\ \A v \in Values : \/ GetIndex(v) = -1 /\ \A e \in ToSet(list) : e.value # v
                       \/ ValueAt(GetIndex(v)) = v
  /\ \A v \in Values : IsPrefix(EachValue([w \in Values |-> w # v]), list)

\* What stays keeps its place among the others, also when its value is replaced.
Precedes(l, j, k) == \E m, n \in DOMAIN l : m < n /\ l[m].key = j /\ l[n].key = k
OrderKept ==
  [][\A j, k \in Keys :
       {j, k} \subseteq ToSet(KeysOf(list)) \cap ToSet(KeysOf(list'))
         => (Precedes(list, j, k) <=> Precedes(list', j, k))]_vars
================================================================================
