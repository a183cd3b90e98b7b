------------------------------ MODULE ResultCaches ------------------------------
(***************************************************************************)
(* The cache of report query results (LightningCacheService.coffee), and   *)
(* the items this page keeps in local storage under a prefix               *)
(* (LocalStorageUtil.js).                                                  *)
(***************************************************************************)
EXTENDS Naturals, Sequences, SequencesExt, Selection

CONSTANTS
  Keys, Results,  \* results are objects: clearResult takes a falsy one for none
  MaxQueries,     \* at least 1
  Nothing,
  StoragePrefixes        \* keyPrefix: Nothing, or one that was set; each is new

VARIABLES
  cachedResults, resultQueue, noEviction,   \* LightningCacheService
  storage, keyPrefix, keysForCurrentPrefix  \* LocalStorageUtil
lightning == <<cachedResults, resultQueue, noEviction>>
local == <<storage, keyPrefix, keysForCurrentPrefix>>
vars == <<lightning, local>>

Empty == [k \in Keys |-> Nothing]
Init ==
  /\ cachedResults = Empty /\ resultQueue = <<>> /\ noEviction = Empty
  /\ storage = {} /\ keyPrefix = Nothing /\ keysForCurrentPrefix = {}

(***************************************************************************)
(* LightningCacheService.                                                  *)
(***************************************************************************)
Pulled(k) == Selected(resultQueue, Keys \ {k})

Reset == cachedResults' = Empty /\ noEviction' = Empty /\ resultQueue' = <<>> /\ UNCHANGED local

GetResult(k) ==
  /\ cachedResults[k] # Nothing
  /\ resultQueue' = Append(Pulled(k), k)
  /\ UNCHANGED <<cachedResults, noEviction, local>>

\* A key that is added again is queued twice: when its first place leaves
\* the queue the result goes too, even one just added.
AddResult(k, v) ==
  LET queue == Append(resultQueue, k)
      added == [cachedResults EXCEPT ![k] = v]
  IN /\ IF Len(queue) > MaxQueries
        THEN resultQueue' = Tail(queue) /\ cachedResults' = [added EXCEPT ![Head(queue)] = Nothing]
        ELSE resultQueue' = queue /\ cachedResults' = added
     /\ UNCHANGED <<noEviction, local>>

ClearResult(k) ==
  /\ cachedResults' = [cachedResults EXCEPT ![k] = Nothing]
  /\ resultQueue' = Pulled(k)
  /\ UNCHANGED <<noEviction, local>>

AddNoEvictionResult(k, v) ==
  /\ noEviction' = [noEviction EXCEPT ![k] = v]
  /\ UNCHANGED <<cachedResults, resultQueue, local>>

(***************************************************************************)
(* LocalStorageUtil.                                                       *)
(***************************************************************************)
StorageKey(k) == <<keyPrefix, k>>

SetInLocalStorage(k) ==
  /\ keysForCurrentPrefix' = keysForCurrentPrefix \cup {k}
  /\ storage' = storage \cup {StorageKey(k)}
  /\ UNCHANGED <<keyPrefix, lightning>>

RemoveFromLocalStorage(k) ==
  /\ storage' = storage \ {StorageKey(k)}
  /\ UNCHANGED <<keyPrefix, keysForCurrentPrefix, lightning>>

\* clearStorageForCurrentPrefix: the key is given the prefix here and in
\* removeFromLocalStorage again, which names no item.
Cleared ==
  IF keyPrefix = Nothing THEN storage
  ELSE storage \ {StorageKey(StorageKey(k)) : k \in keysForCurrentPrefix}

ClearStorageForCurrentPrefix ==
  storage' = Cleared /\ UNCHANGED <<keyPrefix, keysForCurrentPrefix, lightning>>

\* The date in it makes a prefix different from all before.
SetLocalStorageKeyPrefix(p) ==
  /\ p # keyPrefix /\ \A s \in storage : s[1] # p
  /\ storage' = Cleared /\ keyPrefix' = p
  /\ UNCHANGED <<keysForCurrentPrefix, lightning>>

Next ==
  \/ Reset
  \/ \E k \in Keys :
       \/ GetResult(k) \/ ClearResult(k)
       \/ \E v \in Results : AddResult(k, v) \/ AddNoEvictionResult(k, v)
       \/ SetInLocalStorage(k) \/ RemoveFromLocalStorage(k)
  \/ ClearStorageForCurrentPrefix
  \/ \E p \in StoragePrefixes : SetLocalStorageKeyPrefix(p)
Spec == Init /\ [][Next]_vars

(***************************************************************************)
(* Properties.                                                             *)
(***************************************************************************)
\* The evicting cache is bounded: what it holds is queued, so it leaves in
\* its turn, and the queue keeps to the limit.
CacheIsBounded ==
  /\ Len(resultQueue) <= MaxQueries
  /\ \A k \in Keys : cachedResults[k] # Nothing => Contains(resultQueue, k)

\* An item that was stored under another prefix outlives the change of it
\* and a clearing.
PrefixesApart == [][\A s \in storage : s[1] # keyPrefix => s \in storage']_local
================================================================================
