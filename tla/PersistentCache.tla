---------------------------- MODULE PersistentCache ----------------------------
(***************************************************************************)
(* src/Common/src/collection/cache/PersistentCache.js: promises kept in    *)
(* memory by key, over an asynchronous storage.                            *)
(*                                                                         *)
(* Every call that makes a promise is numbered; a promise is named by its  *)
(* call, and so is the value that a call puts or computes.  The promises   *)
(* of one getOrPut are chained on that of an earlier call or on a read of  *)
(* the storage; handlers of settled promises run as microtasks, so other   *)
(* calls may come before them.                                             *)
(*                                                                         *)
(* The Cache has room for every key, and a get of a cached key, which only *)
(* moves its entry in the Cache, or one that bypasses the storage is no    *)
(* action.  Values are not null.                                           *)
(***************************************************************************)
EXTENDS Integers, Sequences

CONSTANTS
  Keys,
  Calls,           \* the calls clients may make, a set of [op, key, storage]
  MaxCalls,        \* bound: the calls made
  StorageMayFail,  \* whether operations of the storage may fail
  GetValueMayFail  \* whether the promise of getValue() may be rejected

\* What a call does with the storage: "used" is the default, "bypassed" an option,
\* "notSet" a time to live that is not positive.
Uses == {"used", "bypassed", "notSet"}
CallOps == {"get", "put", "getOrPut", "delete", "flush"}

ASSUME CallsAssumption == Calls \subseteq [op : CallOps, key : Keys, storage : Uses]
ASSUME BoundAssumption == MaxCalls \in Nat
ASSUME FlagsAssumption == {StorageMayFail, GetValueMayFail} \subseteq BOOLEAN

VARIABLES
  cache,      \* #cache: the call whose promise is cached under each key
  calls,      \* the calls made, in order, and how far their promises are
  cleanups,   \* calls whose `catch' handler, that deletes the key, is scheduled
  storage,    \* the stored value of each key
  operations, \* the storage operations submitted and not finished
  era         \* history: how often each key was deleted from the memory

vars == <<cache, calls, cleanups, storage, operations, era>>

None == 0
Numbers == 1 .. MaxCalls

\* reading and storing wait for the storage, chained for the promise of `source',
\* computing for getValue(), failing for the catch of the chain.
Stages == {"reading", "chained", "computing", "storing", "failing", "resolved", "rejected"}

TypeOK ==
  /\ cache \in [Keys -> {None} \cup Numbers]
  /\ calls \in Seq([op : CallOps, key : Keys, storage : Uses, stage : Stages,
                    source : {None} \cup Numbers, value : {None} \cup Numbers, era : Nat])
  /\ \A n \in DOMAIN calls : calls[n].source < n
  /\ cleanups \subseteq DOMAIN calls
  /\ storage \in [Keys -> {None} \cup Numbers]
  /\ operations \in Seq([op : {"get", "set", "remove", "clear"}, key : Keys,
                         call : {None} \cup Numbers])
  /\ era \in [Keys -> Nat]

Init ==
  /\ cache = [k \in Keys |-> None]
  /\ calls = <<>>
  /\ cleanups = {}
  /\ storage = [k \in Keys |-> None]
  /\ operations = <<>>
  /\ era = [k \in Keys |-> 0]

--------------------------------------------------------------------------------

Operation(op, key, call) == [op |-> op, key |-> key, call |-> call]
Submit(operation) == operations' = Append(operations, operation)

\* The next call: its promise is at `stage', waiting for that of `source', or
\* resolved with `value'.
Make(call, stage, source, value) ==
  /\ Len(calls) < MaxCalls
  /\ calls' = Append(calls,
                [op |-> call.op, key |-> call.key, storage |-> call.storage,
                 stage |-> stage, source |-> source, value |-> value, era |-> era[call.key]])

New == Len(calls) + 1
Caching(k, n) == cache' = [cache EXCEPT ![k] = n]

\* cache.delete(k)
Forget(k) ==
  /\ Caching(k, None)
  /\ era' = [era EXCEPT ![k] = @ + 1]

Settle(n, stage, value) ==
  calls' = [calls EXCEPT ![n].stage = stage, ![n].value = value]

--------------------------------------------------------------------------------
(* The calls                                                               *)

\* Not cached, and the storage is not bypassed: a read.
Get(call) ==
  /\ cache[call.key] = None
  /\ call.storage # "bypassed"
  /\ Make(call, "reading", None, None)
  /\ Submit(Operation("get", call.key, New))
  /\ Caching(call.key, New)
  /\ UNCHANGED <<cleanups, storage, era>>

Put(call) ==
  /\ IF call.storage = "used"
     THEN Make(call, "storing", None, New) /\ Submit(Operation("set", call.key, New))
     ELSE Make(call, "resolved", None, New) /\ UNCHANGED operations
  /\ Caching(call.key, New)
  /\ UNCHANGED <<cleanups, storage, era>>

\* A mutant: the chain is cached before get() looks, and waits for itself.
GetOrPutOnItself(call) ==
  /\ Make(call, "chained", New, None)
  /\ Caching(call.key, New)
  /\ UNCHANGED <<operations, cleanups, storage, era>>

\* A mutant: the promise of get() stays in the cache, not the one chained on it.
GetOrPutUncached(call) ==
  LET existing == cache[call.key]
  IN /\ IF existing # None
        THEN Make(call, "chained", existing, None) /\ UNCHANGED <<operations, cache>>
        ELSE /\ Make(call, "reading", None, None)
             /\ Submit(Operation("get", call.key, New))
             /\ Caching(call.key, New)
     /\ UNCHANGED <<cleanups, storage, era>>

\* The chain is put into the cache in place of the promise it waits for.
GetOrPut(call) ==
  LET existing == cache[call.key]
  IN /\ CASE existing # None -> Make(call, "chained", existing, None) /\ UNCHANGED operations
          [] existing = None /\ call.storage # "bypassed" ->
               Make(call, "reading", None, None) /\ Submit(Operation("get", call.key, New))
          [] OTHER -> Make(call, "chained", None, None) /\ UNCHANGED operations
     /\ Caching(call.key, New)
     /\ UNCHANGED <<cleanups, storage, era>>

Delete(call) ==
  /\ Make(call, "resolved", None, None)
  /\ Submit(Operation("remove", call.key, None))
  /\ Forget(call.key)
  /\ UNCHANGED <<cleanups, storage>>

Flush(call) ==
  /\ Make(call, "resolved", None, None)
  /\ Submit(Operation("clear", call.key, None))
  /\ cache' = [k \in Keys |-> None]
  /\ era' = [k \in Keys |-> era[k] + 1]
  /\ UNCHANGED <<cleanups, storage>>

--------------------------------------------------------------------------------
(* The handlers                                                            *)

\* promise.catch((error) => this.#cache.delete(key)), in get and put
CleanUp(n) ==
  /\ n \in cleanups
  /\ cleanups' = cleanups \ {n}
  /\ Forget(calls[n].key)
  /\ UNCHANGED <<calls, storage, operations>>

\* The promise that the chain of getOrPut waits for is settled.
Continue(n) ==
  LET source == IF calls[n].source = None THEN [stage |-> "resolved", value |-> None]
                ELSE calls[calls[n].source]
  IN /\ calls[n].stage = "chained"
     /\ \/ /\ source.stage = "resolved"
           /\ IF source.value # None
              THEN Settle(n, "resolved", source.value)
              ELSE Settle(n, "computing", None)
        \/ /\ source.stage = "rejected"
           /\ calls[n].source \notin cleanups  \* its catch was registered first
           /\ Settle(n, "failing", None)
     /\ UNCHANGED <<cache, cleanups, storage, operations, era>>

\* A mutant: the computed value is put into the cache when it is known.
ComputedPutsLate(n) ==
  /\ calls[n].stage = "computing"
  /\ Settle(n, "resolved", n)
  /\ IF calls[n].storage = "used" THEN Submit(Operation("set", calls[n].key, n)) ELSE UNCHANGED operations
  /\ Caching(calls[n].key, n)
  /\ UNCHANGED <<cleanups, storage, era>>

\* The promise of getValue() is resolved.
Computed(n) ==
  /\ calls[n].stage = "computing"
  /\ Settle(n, "resolved", n)
  /\ IF calls[n].storage = "used" THEN Submit(Operation("set", calls[n].key, n)) ELSE UNCHANGED operations
  /\ UNCHANGED <<cache, cleanups, storage, era>>

\* It is rejected.
NotComputed(n) ==
  /\ GetValueMayFail
  /\ calls[n].stage = "computing"
  /\ Settle(n, "failing", None)
  /\ UNCHANGED <<cache, cleanups, storage, operations, era>>

\* A mutant: the catch of the chain does not delete.
FailOnly(n) ==
  /\ calls[n].stage = "failing"
  /\ Settle(n, "rejected", None)
  /\ UNCHANGED <<cache, cleanups, storage, operations, era>>

\* The catch of the chain.  That of the read it waited for came first.
Fail(n) ==
  /\ calls[n].stage = "failing"
  /\ n \notin cleanups
  /\ Settle(n, "rejected", None)
  /\ Forget(calls[n].key)
  /\ UNCHANGED <<cleanups, storage, operations>>

--------------------------------------------------------------------------------
(* The storage.  External: it serves the operations in the order they were *)
(* submitted (StorageService: ServedInOrder), and may fail.                *)

\* What the end of an operation settles, if anything waits for it
StorageAnswers(n, value) ==
  CASE n # None /\ calls[n].stage = "reading" /\ calls[n].op = "getOrPut" /\ value = None ->
         Settle(n, "computing", None)
    [] n # None /\ calls[n].stage \in {"reading", "storing"}
         /\ ~(calls[n].op = "getOrPut" /\ value = None) -> Settle(n, "resolved", value)
    [] OTHER -> UNCHANGED calls

StorageServes ==
  LET operation == Head(operations)
      k == operation.key
  IN /\ operations # <<>>
     /\ operations' = Tail(operations)
     /\ storage' = CASE operation.op = "get" -> storage
                     [] operation.op = "set" -> [storage EXCEPT ![k] = operation.call]
                     [] operation.op = "remove" -> [storage EXCEPT ![k] = None]
                     [] operation.op = "clear" -> [l \in Keys |-> None]
     /\ StorageAnswers(operation.call, storage'[k])
     /\ UNCHANGED <<cache, cleanups, era>>

\* The promise of a get or put is rejected, that of a getOrPut's read makes the
\* chain fail; nothing waits for the set after a computation, nor for a removal.
StorageFails ==
  LET n == Head(operations).call
      awaited == n # None /\ calls[n].stage \in {"reading", "storing"}
  IN /\ StorageMayFail
     /\ operations # <<>>
     /\ operations' = Tail(operations)
     /\ IF awaited
        THEN /\ Settle(n, IF calls[n].op = "getOrPut" THEN "failing" ELSE "rejected", None)
             /\ cleanups' = cleanups \cup {n}
        ELSE UNCHANGED <<calls, cleanups>>
     /\ UNCHANGED <<cache, storage, era>>

--------------------------------------------------------------------------------

Handle(n) ==
  \/ CleanUp(n)
  \/ Continue(n)
  \/ Computed(n)
  \/ NotComputed(n)
  \/ Fail(n)

Next ==
  \/ \E call \in Calls :
       \/ call.op = "get" /\ Get(call)
       \/ call.op = "put" /\ Put(call)
       \/ call.op = "getOrPut" /\ GetOrPut(call)
       \/ call.op = "delete" /\ Delete(call)
       \/ call.op = "flush" /\ Flush(call)
  \/ \E n \in DOMAIN calls : Handle(n)
  \/ StorageServes
  \/ StorageFails

Spec == Init /\ [][Next]_vars

\* Microtasks run, the promise of getValue() is settled, and so is every
\* operation of the storage.
Fairness ==
  /\ WF_vars(\E n \in DOMAIN calls : Handle(n))
  /\ WF_vars(StorageServes \/ StorageFails)

FairSpec == Spec /\ Fairness

--------------------------------------------------------------------------------
(* Properties                                                              *)

\* Of all getOrPut calls for one key at most one computes the value, whichever
\* stage the others met it in, unless the key was deleted, flushed or failed in
\* between: a call that comes meanwhile waits for the same promise.
OneComputation ==
  \A m, n \in DOMAIN calls :
    /\ m < n
    /\ calls[m].stage = "computing" /\ calls[n].stage = "computing"
    /\ calls[m].key = calls[n].key
    => calls[m].era # calls[n].era

\* Failures are not cached: when a cached promise is rejected, a handler that
\* deletes its key has yet to run.  The handlers delete by key, whoever's promise
\* is there, and a chain hides the promise it waits for.
FailuresNotCached ==
  \A k \in Keys :
    LET n == cache[k]
    IN n # None /\ calls[n].stage = "rejected" => n \in cleanups

\* What a call for a key is answered is no older than the last put before it,
\* unless the key was deleted, flushed or failed in between: neither a computation
\* that ends after the put nor what the storage held before it comes through.
LastPutServed ==
  \A m, n \in DOMAIN calls :
    /\ m < n
    /\ calls[m].op = "put"
    /\ calls[m].key = calls[n].key /\ calls[m].era = calls[n].era
    /\ calls[n].stage = "resolved" /\ calls[n].op \in {"get", "getOrPut"}
    => calls[n].value >= m

\* Every promise is settled, along chains of calls that wait for one another: once
\* the clients stop calling, none is pending.
EveryCallSettles ==
  []<>(\A n \in DOMAIN calls : calls[n].stage \in {"resolved", "rejected"})
================================================================================
