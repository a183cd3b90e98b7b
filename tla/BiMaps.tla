--------------------------------- MODULE BiMaps ---------------------------------
(***************************************************************************)
(* Maps that are read from both sides: many to many (MultiBiMap.js) and    *)
(* one to one (BiMap.js).  Both keep a Map for either side.  An entry of a *)
(* MultiBiMap from which all pairs were removed stays as an empty Map.     *)
(***************************************************************************)
EXTENDS Naturals, FiniteSets, FiniteSetsExt

CONSTANTS Froms, Tos, Values, Nothing

VARIABLES
  tos, froms,     \* MultiBiMap: _tos[f], Nothing or a map; _froms[t]
  forward, back   \* BiMap: _valuesByKey and _keysByValue, from Froms to Tos
vars == <<tos, froms, forward, back>>

Init ==
  /\ tos = [f \in Froms |-> Nothing] /\ froms = [t \in Tos |-> Nothing]
  /\ forward = [f \in Froms |-> Nothing] /\ back = [t \in Tos |-> Nothing]

(***************************************************************************)
(* OptionMap.                                                              *)
(***************************************************************************)
Lookup(m, k, l) == IF m[k] = Nothing THEN Nothing ELSE m[k][l]
\* getOrSet(k, an empty map).set(l, v)
Set(m, k, l, v, All) ==
  [m EXCEPT ![k] = IF @ = Nothing THEN [x \in All |-> IF x = l THEN v ELSE Nothing]
                   ELSE [@ EXCEPT ![l] = v]]
Delete(m, k, l) == IF m[k] = Nothing THEN m ELSE [m EXCEPT ![k][l] = Nothing]

(***************************************************************************)
(* MultiBiMap.                                                             *)
(***************************************************************************)
Pairs == [tos |-> tos, froms |-> froms]
Has(p, f, t) == Lookup(p.tos, f, t) # Nothing
HasFrom(f) == tos[f] # Nothing
Becomes(p) == tos' = p.tos /\ froms' = p.froms /\ UNCHANGED <<forward, back>>

Put(f, t, v) ==
  /\ ~Has(Pairs, f, t)
  /\ Becomes([tos |-> Set(tos, f, t, v, Tos), froms |-> Set(froms, t, f, v, Froms)])

Removed(p, f, t) == [tos |-> Delete(p.tos, f, t), froms |-> Delete(p.froms, t, f)]

Remove(f, t) == Has(Pairs, f, t) /\ Becomes(Removed(Pairs, f, t))

\* The maps change while they are iterated over; a Map goes on with what is left.
RemoveTo(t) ==
  /\ froms[t] # Nothing
  /\ Becomes(FoldSet(LAMBDA f, p : Removed(p, f, t), Pairs, {f \in Froms : froms[t][f] # Nothing}))
RemoveFrom(f) ==
  /\ tos[f] # Nothing
  /\ Becomes(FoldSet(LAMBDA t, p : Removed(p, f, t), Pairs, {t \in Tos : tos[f][t] # Nothing}))

GetTos(f) == IF tos[f] = Nothing THEN {} ELSE {t \in Tos : tos[f][t] # Nothing}
GetFroms(t) == IF froms[t] = Nothing THEN {} ELSE {f \in Froms : froms[t][f] # Nothing}
GetPairs == {pair \in Froms \X Tos : pair[2] \in GetTos(pair[1])}

(***************************************************************************)
(* BiMap.                                                                  *)
(***************************************************************************)
PutPair(k, v) ==
  /\ forward[k] = Nothing /\ back[v] = Nothing
  /\ forward' = [forward EXCEPT ![k] = v] /\ back' = [back EXCEPT ![v] = k]
  /\ UNCHANGED <<tos, froms>>

Next ==
  \/ \E f \in Froms, t \in Tos : Remove(f, t) \/ PutPair(f, t) \/ \E v \in Values : Put(f, t, v)
  \/ \E f \in Froms : RemoveFrom(f)
  \/ \E t \in Tos : RemoveTo(t)
Spec == Init /\ [][Next]_vars

(***************************************************************************)
(* Properties.                                                             *)
(***************************************************************************)
\* Both sides tell the same pairs with the same values, after any sequence
\* of puts and of removals of single pairs and of whole sides.
SidesAgree ==
  /\ \A f \in Froms, t \in Tos : Lookup(tos, f, t) = Lookup(froms, t, f)
  /\ GetPairs = {pair \in Froms \X Tos : pair[1] \in GetFroms(pair[2])}
  /\ \A f \in Froms : GetTos(f) # {} => HasFrom(f)
  /\ \A k \in Froms, v \in Tos : forward[k] = v <=> back[v] = k
================================================================================
