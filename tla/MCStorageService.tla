--------------------------- MODULE MCStorageService ----------------------------
(***************************************************************************)
(* Small instances of StorageService for TLC.                              *)
(***************************************************************************)
EXTENDS StorageService, TLC

CONSTANTS k1, k2

Call(op, keys) == [op |-> op, keys |-> keys]

\* Calls on one key and on two
TwoKeyCalls ==
  {Call(op, {k}) : op \in {"set", "remove"}, k \in Keys}
    \cup {Call("get", Keys), Call("set", Keys)}

ReadsAndWrites ==
  {Call(op, {k1}) : op \in {"get", "set", "setTooLarge", "remove"}}
    \cup {Call("clear", {}), Call("deleteStorage", {})}

Sets == {Call("set", {k1})}
Gets == {Call("get", {k1})}

KeySymmetry == Permutations(Keys)
================================================================================
