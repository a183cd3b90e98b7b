------------------------- MODULE PersistentCacheProofs -------------------------
(***************************************************************************)
(* What holds of PersistentCache for every set of keys, every set of calls *)
(* and every number of them: its types, and that between two deletions of  *)
(* a key no two calls compute its value, no failure stays cached and no    *)
(* call is answered what a put has replaced.                               *)
(***************************************************************************)
EXTENDS PersistentCache, TLAPS

CachingOps == {"get", "put", "getOrPut"}

\* Two calls for one key between which the memory did not lose it
Together(m, n) == calls[m].key = calls[n].key /\ calls[m].era = calls[n].era

CallsBounded == DOMAIN calls \subseteq Numbers

\* What is cached under a key is a call for it since the key was last deleted.
CachedIsCurrent ==
  \A k \in Keys : cache[k] # None =>
    /\ cache[k] \in DOMAIN calls
    /\ calls[cache[k]].op \in CachingOps
    /\ calls[cache[k]].key = k
    /\ calls[cache[k]].era = era[k]

\* No call is of a later era, and once a call of the present era was made, it or a
\* later one is cached.
LatestIsCached ==
  \A n \in DOMAIN calls :
    /\ calls[n].era <= era[calls[n].key]
    /\ calls[n].op \in CachingOps /\ calls[n].era = era[calls[n].key] =>
         cache[calls[n].key] # None /\ n <= cache[calls[n].key]

\* A call that comes after another of its era puts, or waits for one that is no
\* older than the other.
LaterCallsWait ==
  \A m, n \in DOMAIN calls :
    m < n /\ Together(m, n) /\ calls[m].op \in CachingOps /\ calls[n].op \in CachingOps =>
      \/ calls[n].op = "put"
      \/ /\ calls[n].op = "getOrPut"
         /\ calls[n].source # None /\ m <= calls[n].source
         /\ calls[calls[n].source].op \in CachingOps
         /\ Together(calls[n].source, n)

\* Each operation has its stages, and a chain computes only if what it waited for
\* gave nothing.
StagesFit ==
  \A n \in DOMAIN calls :
    LET c == calls[n]
    IN /\ c.stage = "reading" => c.op \in {"get", "getOrPut"} /\ c.source = None
       /\ c.stage = "storing" => c.op = "put"
       /\ c.stage \in {"chained", "computing", "failing"} => c.op = "getOrPut"
       /\ c.stage = "resolved" /\ c.op = "getOrPut" => c.value # None
       /\ c.op = "put" /\ c.stage = "resolved" => c.value = n
       /\ c.stage = "computing" /\ c.source # None =>
            calls[c.source].stage = "resolved" /\ calls[c.source].value = None

\* A put waits for nothing but the set of its value.
OperationsFit ==
  \A i \in DOMAIN operations :
    LET n == operations[i].call
    IN n # None =>
         /\ n \in DOMAIN calls
         /\ calls[n].stage = "storing" => operations[i].op = "set"

IInv ==
  /\ TypeOK
  /\ CallsBounded
  /\ CachedIsCurrent
  /\ LatestIsCached
  /\ LaterCallsWait
  /\ StagesFit
  /\ OperationsFit
  /\ FailuresNotCached
  /\ LastPutServed

--------------------------------------------------------------------------------
(* What a step does to the calls                                           *)

Promise == [op : CallOps, key : Keys, storage : Uses, stage : Stages,
            source : {None} \cup Numbers, value : {None} \cup Numbers, era : Nat]

\* What does not change about a call any more
Fixed(n) == <<calls[n].op, calls[n].key, calls[n].source, calls[n].era>>

\* The calls stay the same, but for how far their promises are.
SameCalls ==
  /\ calls' \in Seq(Promise)
  /\ DOMAIN calls' = DOMAIN calls
  /\ \A n \in DOMAIN calls : Fixed(n)' = Fixed(n)

\* The memory stays, or loses keys, of which each begins an era.
SomeForgotten ==
  \E K \in SUBSET Keys :
    /\ cache' = [k \in Keys |-> IF k \in K THEN None ELSE cache[k]]
    /\ era' = [k \in Keys |-> IF k \in K THEN era[k] + 1 ELSE era[k]]

LEMMA SettleFacts ==
  ASSUME TypeOK, NEW n \in DOMAIN calls, NEW stage \in Stages,
         NEW value \in {None} \cup Numbers, Settle(n, stage, value)
  PROVE  /\ SameCalls
         /\ \A m \in DOMAIN calls \ {n} : calls'[m] = calls[m]
         /\ calls'[n].stage = stage /\ calls'[n].value = value
<1> DEFINE new == [calls[n] EXCEPT !.stage = stage, !.value = value]
<1>1. calls \in Seq(Promise) BY DEF TypeOK, Promise
<1>2. calls[n] \in Promise BY <1>1
<1>3. new \in Promise BY <1>2 DEF Promise
<1>4. calls' = [calls EXCEPT ![n] = new] BY <1>1, <1>2 DEF Settle, Promise
<1>5. calls' \in Seq(Promise) /\ DOMAIN calls' = DOMAIN calls BY <1>1, <1>3, <1>4
<1>6. calls'[n] = new /\ \A m \in DOMAIN calls \ {n} : calls'[m] = calls[m] BY <1>4, <1>1
<1>7. /\ new.stage = stage /\ new.value = value /\ new.op = calls[n].op
      /\ new.key = calls[n].key /\ new.source = calls[n].source /\ new.era = calls[n].era
  BY <1>2 DEF Promise
<1> QED BY <1>5, <1>6, <1>7 DEF SameCalls, Fixed

LEMMA MakeFacts ==
  ASSUME TypeOK, NEW call \in Calls, NEW stage \in Stages, NEW source \in {None} \cup Numbers,
         NEW value \in {None} \cup Numbers, Make(call, stage, source, value)
  PROVE  /\ calls' \in Seq(Promise)
         /\ New \in Numbers /\ New \notin DOMAIN calls
         /\ DOMAIN calls' = DOMAIN calls \cup {New} /\ DOMAIN calls = 1 .. Len(calls)
         /\ \A n \in DOMAIN calls : calls'[n] = calls[n]
         /\ calls'[New] = [op |-> call.op, key |-> call.key, storage |-> call.storage, stage |-> stage,
                           source |-> source, value |-> value, era |-> era[call.key]]
<1> DEFINE new == [op |-> call.op, key |-> call.key, storage |-> call.storage, stage |-> stage,
                   source |-> source, value |-> value, era |-> era[call.key]]
<1>1. calls \in Seq(Promise) /\ Len(calls) \in Nat BY DEF TypeOK, Promise
<1>2. call \in [op : CallOps, key : Keys, storage : Uses] BY CallsAssumption
<1>3. new \in Promise BY <1>2 DEF Promise, TypeOK
<1>4. calls' = Append(calls, new) /\ Len(calls) < MaxCalls BY DEF Make
<1>5. New \in Numbers BY <1>1, <1>4, BoundAssumption DEF New, Numbers
<1> QED BY <1>1, <1>3, <1>4, <1>5 DEF New

--------------------------------------------------------------------------------
(* What relates the memory and the calls, whatever their stages            *)

\* A step that makes no call keeps it.
LEMMA CachedKept ==
  ASSUME TypeOK, CachedIsCurrent, LatestIsCached, LaterCallsWait, SameCalls, SomeForgotten
  PROVE  CachedIsCurrent' /\ LatestIsCached' /\ LaterCallsWait'
<1>1. PICK K \in SUBSET Keys :
        /\ cache' = [k \in Keys |-> IF k \in K THEN None ELSE cache[k]]
        /\ era' = [k \in Keys |-> IF k \in K THEN era[k] + 1 ELSE era[k]]
  BY DEF SomeForgotten
<1>2. \A n \in DOMAIN calls : /\ calls'[n].op = calls[n].op /\ calls'[n].key = calls[n].key
                              /\ calls'[n].source = calls[n].source /\ calls'[n].era = calls[n].era
  BY DEF SameCalls, Fixed
<1>3. \A n \in DOMAIN calls : /\ calls[n].key \in Keys /\ calls[n].era \in Nat /\ n \in Nat
                              /\ calls[n].source \in Nat /\ calls[n].source < n
                              /\ (calls[n].source # None => calls[n].source \in DOMAIN calls)
  <2> SUFFICES ASSUME NEW n \in DOMAIN calls
               PROVE  /\ calls[n].key \in Keys /\ calls[n].era \in Nat /\ n \in Nat
                      /\ calls[n].source \in Nat /\ calls[n].source < n
                      /\ (calls[n].source # None => calls[n].source \in DOMAIN calls)
    OBVIOUS
  <2>1. calls \in Seq(Promise) /\ calls[n].source < n BY DEF TypeOK, Promise
  <2>2. calls[n] \in Promise BY <2>1
  <2> QED BY <2>1, <2>2 DEF Promise, None, Numbers
<1>4. cache \in [Keys -> {None} \cup Numbers] /\ era \in [Keys -> Nat] BY DEF TypeOK
<1>5. CachedIsCurrent'
  <2> SUFFICES ASSUME NEW k \in Keys, cache'[k] # None
               PROVE  /\ cache'[k] \in DOMAIN calls' /\ calls'[cache'[k]].op \in CachingOps
                      /\ calls'[cache'[k]].key = k /\ calls'[cache'[k]].era = era'[k]
    BY DEF CachedIsCurrent
  <2>1. k \notin K /\ cache'[k] = cache[k] /\ era'[k] = era[k] BY <1>1
  <2> QED BY <2>1, <1>2 DEF CachedIsCurrent, SameCalls
<1>6. LatestIsCached'
  <2> SUFFICES ASSUME NEW n \in DOMAIN calls
               PROVE  /\ calls[n].era <= era'[calls[n].key]
                      /\ calls[n].op \in CachingOps /\ calls[n].era = era'[calls[n].key] =>
                           cache'[calls[n].key] # None /\ n <= cache'[calls[n].key]
    BY <1>2 DEF LatestIsCached, SameCalls
  <2>1. CASE calls[n].key \in K
    BY <2>1, <1>1, <1>3, <1>4 DEF LatestIsCached
  <2>2. CASE calls[n].key \notin K
    BY <2>2, <1>1, <1>3, <1>4 DEF LatestIsCached
  <2> QED BY <2>1, <2>2
<1>7. LaterCallsWait'
  <2> SUFFICES ASSUME NEW m \in DOMAIN calls, NEW n \in DOMAIN calls, m < n,
                      Together(m, n), calls[m].op \in CachingOps, calls[n].op \in CachingOps
               PROVE  \/ calls[n].op = "put"
                      \/ /\ calls[n].op = "getOrPut"
                         /\ calls[n].source # None /\ m <= calls[n].source
                         /\ calls'[calls[n].source].op \in CachingOps
                         /\ Together(calls[n].source, n)'
    BY <1>2 DEF LaterCallsWait, SameCalls, Together
  <2>1. \/ calls[n].op = "put"
        \/ /\ calls[n].op = "getOrPut"
           /\ calls[n].source # None /\ m <= calls[n].source
           /\ calls[calls[n].source].op \in CachingOps
           /\ Together(calls[n].source, n)
    BY DEF LaterCallsWait
  <2> QED BY <2>1, <1>2, <1>3 DEF Together
<1> QED BY <1>5, <1>6, <1>7

\* So does a call that deletes, or that caches itself: a get if nothing is cached,
\* a put, or a getOrPut that waits for what is cached.
LEMMA CachedByCall ==
  ASSUME TypeOK, CachedIsCurrent, LatestIsCached, LaterCallsWait,
         NEW call \in Calls, NEW stage \in Stages, NEW source \in {None} \cup Numbers,
         NEW value \in {None} \cup Numbers, Make(call, stage, source, value),
         \/ call.op \notin CachingOps /\ SomeForgotten
         \/ /\ Caching(call.key, New) /\ UNCHANGED era
            /\ call.op \in CachingOps
            /\ call.op = "put" \/ source = cache[call.key]
            /\ call.op = "get" => source = None
  PROVE  CachedIsCurrent' /\ LatestIsCached' /\ LaterCallsWait'
<1>1. /\ New \notin DOMAIN calls /\ DOMAIN calls' = DOMAIN calls \cup {New}
      /\ DOMAIN calls = 1 .. Len(calls)
      /\ \A n \in DOMAIN calls : calls'[n] = calls[n]
      /\ calls'[New].op = call.op /\ calls'[New].key = call.key
      /\ calls'[New].source = source /\ calls'[New].era = era[call.key]
  <2>1. /\ calls' \in Seq(Promise)
        /\ New \in Numbers /\ New \notin DOMAIN calls
        /\ DOMAIN calls' = DOMAIN calls \cup {New} /\ DOMAIN calls = 1 .. Len(calls)
        /\ \A n \in DOMAIN calls : calls'[n] = calls[n]
        /\ calls'[New] = [op |-> call.op, key |-> call.key, storage |-> call.storage, stage |-> stage,
                          source |-> source, value |-> value, era |-> era[call.key]]
    BY MakeFacts
  <2> QED BY <2>1
<1>2. call.key \in Keys /\ New \in Nat /\ Len(calls) \in Nat /\ New = Len(calls) + 1
  BY CallsAssumption DEF TypeOK, New
<1>3. \A n \in DOMAIN calls : /\ calls[n].key \in Keys /\ calls[n].era \in Nat /\ n \in Nat
                              /\ calls[n].source \in Nat /\ calls[n].source < n
                              /\ (calls[n].source # None => calls[n].source \in DOMAIN calls)
                              /\ n < New
  <2> SUFFICES ASSUME NEW n \in DOMAIN calls
               PROVE  /\ calls[n].key \in Keys /\ calls[n].era \in Nat /\ n \in Nat
                      /\ calls[n].source \in Nat /\ calls[n].source < n
                      /\ (calls[n].source # None => calls[n].source \in DOMAIN calls)
                      /\ n < New
    OBVIOUS
  <2>1. calls \in Seq(Promise) /\ calls[n].source < n BY DEF TypeOK, Promise
  <2>2. calls[n] \in Promise /\ n \in Nat /\ n < New BY <2>1, <1>1, <1>2
  <2> QED BY <2>1, <2>2, <1>1, <1>2 DEF Promise, None, Numbers
<1>4. cache \in [Keys -> {None} \cup Numbers] /\ era \in [Keys -> Nat] BY DEF TypeOK
<1>5. CASE call.op \notin CachingOps /\ SomeForgotten
  <2>1. PICK K \in SUBSET Keys :
          /\ cache' = [k \in Keys |-> IF k \in K THEN None ELSE cache[k]]
          /\ era' = [k \in Keys |-> IF k \in K THEN era[k] + 1 ELSE era[k]]
    BY <1>5 DEF SomeForgotten
  <2>2. CachedIsCurrent'
    <3> SUFFICES ASSUME NEW k \in Keys, cache'[k] # None
                 PROVE  /\ cache'[k] \in DOMAIN calls' /\ calls'[cache'[k]].op \in CachingOps
                        /\ calls'[cache'[k]].key = k /\ calls'[cache'[k]].era = era'[k]
      BY DEF CachedIsCurrent
    <3>1. k \notin K /\ cache'[k] = cache[k] /\ era'[k] = era[k] BY <2>1
    <3> QED BY <3>1, <1>1 DEF CachedIsCurrent
  <2>3. LatestIsCached'
    <3> SUFFICES ASSUME NEW n \in DOMAIN calls'
                 PROVE  /\ calls'[n].era <= era'[calls'[n].key]
                        /\ calls'[n].op \in CachingOps /\ calls'[n].era = era'[calls'[n].key] =>
                             cache'[calls'[n].key] # None /\ n <= cache'[calls'[n].key]
      BY DEF LatestIsCached
    <3>1. CASE n = New BY <3>1, <1>1, <1>2, <1>4, <1>5, <2>1
    <3>2. CASE n \in DOMAIN calls
      <4>1. CASE calls[n].key \in K BY <4>1, <3>2, <2>1, <1>1, <1>3, <1>4 DEF LatestIsCached
      <4>2. CASE calls[n].key \notin K BY <4>2, <3>2, <2>1, <1>1, <1>3, <1>4 DEF LatestIsCached
      <4> QED BY <4>1, <4>2
    <3> QED BY <3>1, <3>2, <1>1
  <2>4. LaterCallsWait'
    BY <1>1, <1>3, <1>5 DEF LaterCallsWait, Together
  <2> QED BY <2>2, <2>3, <2>4
<1>6. CASE /\ Caching(call.key, New) /\ UNCHANGED era /\ call.op \in CachingOps
           /\ call.op = "put" \/ source = cache[call.key]
           /\ call.op = "get" => source = None
  <2>1. cache' = [cache EXCEPT ![call.key] = New] /\ era' = era BY <1>6 DEF Caching
  <2>2. CachedIsCurrent'
    <3> SUFFICES ASSUME NEW k \in Keys, cache'[k] # None
                 PROVE  /\ cache'[k] \in DOMAIN calls' /\ calls'[cache'[k]].op \in CachingOps
                        /\ calls'[cache'[k]].key = k /\ calls'[cache'[k]].era = era'[k]
      BY DEF CachedIsCurrent
    <3>1. CASE k = call.key BY <3>1, <2>1, <1>1, <1>4, <1>6
    <3>2. CASE k # call.key
      <4>1. cache'[k] = cache[k] BY <3>2, <2>1, <1>4
      <4> QED BY <4>1, <2>1, <1>1 DEF CachedIsCurrent
    <3> QED BY <3>1, <3>2
  <2>3. LatestIsCached'
    <3> SUFFICES ASSUME NEW n \in DOMAIN calls'
                 PROVE  /\ calls'[n].era <= era[calls'[n].key]
                        /\ calls'[n].op \in CachingOps /\ calls'[n].era = era[calls'[n].key] =>
                             cache'[calls'[n].key] # None /\ n <= cache'[calls'[n].key]
      BY <2>1 DEF LatestIsCached
    <3>1. CASE n = New BY <3>1, <2>1, <1>1, <1>2, <1>4 DEF None
    <3>2. CASE n \in DOMAIN calls
      <4>1. CASE calls[n].key = call.key
        BY <4>1, <3>2, <2>1, <1>1, <1>2, <1>3, <1>4 DEF LatestIsCached, None
      <4>2. CASE calls[n].key # call.key
        BY <4>2, <3>2, <2>1, <1>1, <1>3, <1>4 DEF LatestIsCached
      <4> QED BY <4>1, <4>2
    <3> QED BY <3>1, <3>2, <1>1
  <2>4. LaterCallsWait'
    <3> SUFFICES ASSUME NEW m \in DOMAIN calls', NEW n \in DOMAIN calls', m < n, Together(m, n)',
                        calls'[m].op \in CachingOps, calls'[n].op \in CachingOps
                 PROVE  \/ calls'[n].op = "put"
                        \/ /\ calls'[n].op = "getOrPut"
                           /\ calls'[n].source # None /\ m <= calls'[n].source
                           /\ calls'[calls'[n].source].op \in CachingOps
                           /\ Together(calls[n].source, n)'
      BY DEF LaterCallsWait
    <3>1. CASE n = New
      <4>1. m \in DOMAIN calls /\ calls'[m] = calls[m] BY <3>1, <1>1, <1>2
      <4>2. calls[m].key = call.key /\ calls[m].era = era[call.key] /\ calls[m].op \in CachingOps
        BY <4>1, <3>1, <1>1 DEF Together
      <4>3. cache[call.key] # None /\ m <= cache[call.key] BY <4>1, <4>2 DEF LatestIsCached
      <4>4. /\ cache[call.key] \in DOMAIN calls /\ calls[cache[call.key]].op \in CachingOps
            /\ calls[cache[call.key]].key = call.key
            /\ calls[cache[call.key]].era = era[call.key]
        BY <4>3, <1>2 DEF CachedIsCurrent
      <4>5. CASE call.op = "put" BY <4>5, <3>1, <1>1
      <4>6. CASE call.op # "put" /\ source = cache[call.key]
        <5>1. call.op = "getOrPut" BY <4>6, <4>3, <1>6 DEF CachingOps
        <5>2. calls'[source] = calls[source] BY <4>6, <4>4, <1>1
        <5> QED BY <5>1, <5>2, <4>6, <4>3, <4>4, <3>1, <1>1 DEF Together
      <4> QED BY <4>5, <4>6, <1>6
    <3>2. CASE n \in DOMAIN calls
      <4>1. m \in DOMAIN calls BY <3>2, <1>1, <1>2, <1>3
      <4> QED BY <4>1, <3>2, <1>1, <1>3 DEF LaterCallsWait, Together
    <3> QED BY <3>1, <3>2, <1>1
  <2> QED BY <2>2, <2>3, <2>4
<1> QED BY <1>5, <1>6

--------------------------------------------------------------------------------
(* The storage operations                                                  *)

StorageOps == [op : {"get", "set", "remove", "clear"}, key : Keys, call : {None} \cup Numbers]

\* Only sets for calls that were made come in.
OnlySetsAdded ==
  /\ operations' \in Seq(StorageOps)
  /\ \A i \in DOMAIN operations' :
       \/ \E j \in DOMAIN operations : operations'[i] = operations[j]
       \/ operations'[i].op = "set" /\ operations'[i].call \in DOMAIN calls

LEMMA UnchangedAddsNone ==
  ASSUME TypeOK, UNCHANGED operations
  PROVE  OnlySetsAdded
BY DEF TypeOK, OnlySetsAdded, StorageOps

LEMMA TailAddsNone ==
  ASSUME TypeOK, operations # <<>>, operations' = Tail(operations)
  PROVE  OnlySetsAdded /\ Head(operations) \in StorageOps /\ 1 \in DOMAIN operations
                       /\ Head(operations) = operations[1]
<1>1. operations \in Seq(StorageOps) BY DEF TypeOK, StorageOps
<1>2. Len(operations) \in Nat /\ Len(operations) > 0 BY <1>1
<1>3. /\ operations' \in Seq(StorageOps)
      /\ \A i \in DOMAIN operations' : i + 1 \in DOMAIN operations /\ operations'[i] = operations[i + 1]
  BY <1>1, <1>2
<1>4. /\ Head(operations) \in StorageOps /\ 1 \in DOMAIN operations
      /\ Head(operations) = operations[1]
  BY <1>1, <1>2
<1> QED BY <1>3, <1>4 DEF OnlySetsAdded

LEMMA SubmitAdds ==
  ASSUME TypeOK, NEW operation \in StorageOps, Submit(operation)
  PROVE  /\ operations' \in Seq(StorageOps)
         /\ \A i \in DOMAIN operations' :
              \/ i \in DOMAIN operations /\ operations'[i] = operations[i]
              \/ operations'[i] = operation
<1>1. operations \in Seq(StorageOps) BY DEF TypeOK, StorageOps
<1>2. operations' = Append(operations, operation) BY DEF Submit
<1> QED BY <1>1, <1>2

--------------------------------------------------------------------------------
(* What one call or the settling of one promise preserves                  *)

LEMMA CallTypes ==
  ASSUME TypeOK, NEW n \in DOMAIN calls
  PROVE  /\ calls[n] \in Promise /\ n \in Nat \ {None}
         /\ calls[n].source \in Nat /\ calls[n].source < n
         /\ calls[n].source # None => calls[n].source \in DOMAIN calls
<1>1. calls \in Seq(Promise) /\ calls[n].source < n BY DEF TypeOK, Promise
<1>2. calls[n] \in Promise /\ n \in Nat \ {None} /\ Len(calls) \in Nat BY <1>1 DEF None
<1>3. calls[n].source \in Nat BY <1>2, BoundAssumption DEF Promise, None, Numbers
<1>4. calls[n].source # None => calls[n].source \in DOMAIN calls BY <1>1, <1>2, <1>3 DEF None
<1> QED BY <1>1, <1>2, <1>3, <1>4

\* The promise of n gets on, other promises stay.
LEMMA SettleKeeps ==
  ASSUME IInv, NEW n \in DOMAIN calls, NEW stage \in Stages, NEW value \in {None} \cup Numbers,
         Settle(n, stage, value), SomeForgotten, OnlySetsAdded,
         storage' \in [Keys -> {None} \cup Numbers],
         cleanups \subseteq cleanups', cleanups' \subseteq DOMAIN calls,
         calls[n].stage \notin {"resolved", "rejected"},
         \/ stage \in {"computing", "failing"} /\ calls[n].op = "getOrPut"
         \/ stage \in {"resolved", "rejected"},
         stage = "computing" /\ calls[n].source # None =>
           calls[calls[n].source].stage = "resolved" /\ calls[calls[n].source].value = None,
         stage = "rejected" => n \in cleanups' \/ cache'[calls[n].key] = None,
         stage = "resolved" =>
           /\ calls[n].op = "getOrPut" => value # None
           /\ calls[n].op = "put" => value = n
           /\ \A m \in DOMAIN calls :
                m < n /\ calls[m].op = "put" /\ Together(m, n) /\ calls[n].op \in {"get", "getOrPut"}
                => value >= m
  PROVE  IInv'
<1> USE DEF IInv
<1>1. /\ SameCalls
      /\ \A m \in DOMAIN calls \ {n} : calls'[m] = calls[m]
      /\ calls'[n].stage = stage /\ calls'[n].value = value
  BY SettleFacts
<1>2. /\ DOMAIN calls' = DOMAIN calls /\ calls' \in Seq(Promise)
      /\ \A m \in DOMAIN calls : /\ calls'[m].op = calls[m].op /\ calls'[m].key = calls[m].key
                                 /\ calls'[m].source = calls[m].source /\ calls'[m].era = calls[m].era
  BY <1>1 DEF SameCalls, Fixed
<1>3. \A m \in DOMAIN calls : /\ calls[m].key \in Keys /\ m \in Nat \ {None}
                              /\ calls[m].source < m
                              /\ calls[m].source # None => calls[m].source \in DOMAIN calls
  BY CallTypes DEF Promise
<1>4. CachedIsCurrent' /\ LatestIsCached' /\ LaterCallsWait' BY <1>1, CachedKept
<1>5. TypeOK'
  <2>1. cache' \in [Keys -> {None} \cup Numbers] /\ era' \in [Keys -> Nat]
    BY DEF SomeForgotten, TypeOK
  <2>2. operations' \in Seq(StorageOps) BY DEF OnlySetsAdded
  <2>3. \A m \in DOMAIN calls' : calls'[m].source < m BY <1>2, <1>3
  <2> QED BY <2>1, <2>2, <2>3, <1>2 DEF TypeOK, Promise, StorageOps
<1>6. StagesFit'
  <2> SUFFICES ASSUME NEW m \in DOMAIN calls
               PROVE  LET c == calls'[m]
                      IN /\ c.stage = "reading" => c.op \in {"get", "getOrPut"} /\ c.source = None
                         /\ c.stage = "storing" => c.op = "put"
                         /\ c.stage \in {"chained", "computing", "failing"} => c.op = "getOrPut"
                         /\ c.stage = "resolved" /\ c.op = "getOrPut" => c.value # None
                         /\ c.op = "put" /\ c.stage = "resolved" => c.value = m
                         /\ c.stage = "computing" /\ c.source # None =>
                              calls'[c.source].stage = "resolved" /\ calls'[c.source].value = None
    BY <1>2 DEF StagesFit
  <2>1. CASE m = n
    <3>1. calls[n].source # n BY <1>3
    <3>2. calls[n].source # None => calls'[calls[n].source] = calls[calls[n].source]
      BY <3>1, <1>1, <1>3
    <3> QED BY <2>1, <3>2, <1>1, <1>2
  <2>2. CASE m # n
    <3>1. calls'[m] = calls[m] BY <2>2, <1>1
    <3>2. calls[m].stage = "computing" /\ calls[m].source # None =>
            calls'[calls[m].source] = calls[calls[m].source]
      BY <1>1, <1>3 DEF StagesFit
    <3> QED BY <3>1, <3>2 DEF StagesFit
  <2> QED BY <2>1, <2>2
<1>7. OperationsFit'
  <2> SUFFICES ASSUME NEW i \in DOMAIN operations', operations'[i].call # None
               PROVE  /\ operations'[i].call \in DOMAIN calls
                      /\ calls'[operations'[i].call].stage = "storing" => operations'[i].op = "set"
    BY <1>2 DEF OperationsFit
  <2>1. CASE operations'[i].op = "set" /\ operations'[i].call \in DOMAIN calls BY <2>1
  <2>2. CASE \E j \in DOMAIN operations : operations'[i] = operations[j]
    <3>1. PICK j \in DOMAIN operations : operations'[i] = operations[j] BY <2>2
    <3>2. /\ operations'[i].call \in DOMAIN calls
          /\ calls[operations'[i].call].stage = "storing" => operations'[i].op = "set"
      BY <3>1 DEF OperationsFit
    <3>3. stage # "storing" OBVIOUS
    <3> QED BY <3>2, <3>3, <1>1
  <2> QED BY <2>1, <2>2 DEF OnlySetsAdded
<1>8. FailuresNotCached'
  <2> SUFFICES ASSUME NEW k \in Keys, cache'[k] # None, calls'[cache'[k]].stage = "rejected"
               PROVE  cache'[k] \in cleanups'
    BY DEF FailuresNotCached
  <2>1. cache'[k] = cache[k] BY DEF SomeForgotten
  <2>2. cache[k] \in DOMAIN calls /\ calls[cache[k]].key = k BY <2>1 DEF CachedIsCurrent
  <2>3. CASE cache[k] = n BY <2>1, <2>2, <2>3, <1>1
  <2>4. CASE cache[k] # n BY <2>1, <2>2, <2>4, <1>1 DEF FailuresNotCached
  <2> QED BY <2>3, <2>4
<1>9. LastPutServed'
  <2> SUFFICES ASSUME NEW m \in DOMAIN calls, NEW i \in DOMAIN calls, m < i, calls[m].op = "put",
                      Together(m, i), calls'[i].stage = "resolved", calls[i].op \in {"get", "getOrPut"}
               PROVE  calls'[i].value >= m
    BY <1>2 DEF LastPutServed, Together
  <2>1. CASE i = n BY <2>1, <1>1
  <2>2. CASE i # n BY <2>2, <1>1 DEF LastPutServed, Together
  <2> QED BY <2>1, <2>2
<1>10. CallsBounded' BY <1>2 DEF CallsBounded
<1> QED BY <1>4, <1>5, <1>6, <1>7, <1>8, <1>9, <1>10

\* Calls stay as they are, keys may leave the memory with their handlers.
LEMMA NoneSettled ==
  ASSUME IInv, UNCHANGED calls, SomeForgotten, OnlySetsAdded,
         storage' \in [Keys -> {None} \cup Numbers], cleanups' \subseteq cleanups,
         \A n \in cleanups \ cleanups' : cache'[calls[n].key] = None
  PROVE  IInv'
<1> USE DEF IInv
<1>1. SameCalls BY DEF SameCalls, Fixed, TypeOK, Promise
<1>2. CachedIsCurrent' /\ LatestIsCached' /\ LaterCallsWait' BY <1>1, CachedKept
<1>3. TypeOK'
  <2>1. cache' \in [Keys -> {None} \cup Numbers] /\ era' \in [Keys -> Nat]
    BY DEF SomeForgotten, TypeOK
  <2>2. operations' \in Seq(StorageOps) BY DEF OnlySetsAdded
  <2> QED BY <2>1, <2>2 DEF TypeOK, StorageOps
<1>4. StagesFit' /\ LastPutServed' /\ CallsBounded' BY DEF StagesFit, LastPutServed, CallsBounded
<1>5. OperationsFit' BY DEF OperationsFit, OnlySetsAdded
<1>6. FailuresNotCached'
  <2> SUFFICES ASSUME NEW k \in Keys, cache'[k] # None, calls[cache'[k]].stage = "rejected"
               PROVE  cache'[k] \in cleanups'
    BY DEF FailuresNotCached
  <2>1. cache'[k] = cache[k] BY DEF SomeForgotten
  <2>2. cache[k] \in cleanups /\ calls[cache[k]].key = k
    BY <2>1 DEF CachedIsCurrent, FailuresNotCached
  <2> QED BY <2>1, <2>2
<1> QED BY <1>2, <1>3, <1>4, <1>5, <1>6

\* A call is made: it waits for the storage, or for the cached promise, or is settled.
LEMMA MakeKeeps ==
  ASSUME IInv, NEW call \in Calls, NEW stage \in Stages, NEW source \in {None} \cup Numbers,
         NEW value \in {None} \cup Numbers, Make(call, stage, source, value),
         \/ call.op \notin CachingOps /\ SomeForgotten
         \/ /\ Caching(call.key, New) /\ UNCHANGED era
            /\ call.op \in CachingOps
            /\ call.op = "put" \/ source = cache[call.key]
            /\ call.op = "get" => source = None,
         operations' \in Seq(StorageOps),
         \A i \in DOMAIN operations' :
           \/ i \in DOMAIN operations /\ operations'[i] = operations[i]
           \/ operations'[i].call = None
           \/ operations'[i].call = New /\ (stage = "storing" => operations'[i].op = "set"),
         source # None => source \in DOMAIN calls,
         stage = "reading" => call.op \in {"get", "getOrPut"} /\ source = None,
         stage = "storing" => call.op = "put",
         stage = "chained" => call.op = "getOrPut",
         stage = "resolved" => call.op \notin {"get", "getOrPut"},
         call.op = "put" => value = New,
         stage \in {"reading", "storing", "chained", "resolved"},
         UNCHANGED <<cleanups, storage>>
  PROVE  IInv'
<1> USE DEF IInv
<1>1. /\ calls' \in Seq(Promise)
      /\ New \in Numbers /\ New \notin DOMAIN calls
      /\ DOMAIN calls' = DOMAIN calls \cup {New} /\ DOMAIN calls = 1 .. Len(calls)
      /\ \A n \in DOMAIN calls : calls'[n] = calls[n]
      /\ calls'[New] = [op |-> call.op, key |-> call.key, storage |-> call.storage, stage |-> stage,
                        source |-> source, value |-> value, era |-> era[call.key]]
  BY MakeFacts
<1>2. /\ calls'[New].op = call.op /\ calls'[New].key = call.key /\ calls'[New].stage = stage
      /\ calls'[New].source = source /\ calls'[New].value = value
  BY <1>1
<1>3. \A m \in DOMAIN calls : /\ m \in Nat \ {None} /\ calls[m].source < m
                              /\ calls[m].source # None => calls[m].source \in DOMAIN calls
                              /\ m < New
  <2>1. Len(calls) \in Nat /\ New = Len(calls) + 1 BY DEF TypeOK, New
  <2> QED BY <2>1, <1>1, CallTypes
<1>4. CachedIsCurrent' /\ LatestIsCached' /\ LaterCallsWait' BY CachedByCall
<1>5. TypeOK'
  <2>1. cache' \in [Keys -> {None} \cup Numbers] /\ era' \in [Keys -> Nat]
    <3>1. CASE SomeForgotten BY <3>1 DEF SomeForgotten, TypeOK
    <3>2. CASE Caching(call.key, New) /\ UNCHANGED era BY <3>2, <1>1 DEF Caching, TypeOK
    <3> QED BY <3>1, <3>2
  <2>2. \A m \in DOMAIN calls' : calls'[m].source < m
    <3>1. source < New BY <1>1, <1>3 DEF None, Numbers
    <3> QED BY <3>1, <1>1, <1>2, <1>3
  <2>3. cleanups' \subseteq DOMAIN calls' BY <1>1 DEF TypeOK
  <2> QED BY <2>1, <2>2, <2>3, <1>1 DEF TypeOK, Promise, StorageOps
<1>6. StagesFit'
  <2> SUFFICES ASSUME NEW m \in DOMAIN calls'
               PROVE  LET c == calls'[m]
                      IN /\ c.stage = "reading" => c.op \in {"get", "getOrPut"} /\ c.source = None
                         /\ c.stage = "storing" => c.op = "put"
                         /\ c.stage \in {"chained", "computing", "failing"} => c.op = "getOrPut"
                         /\ c.stage = "resolved" /\ c.op = "getOrPut" => c.value # None
                         /\ c.op = "put" /\ c.stage = "resolved" => c.value = m
                         /\ c.stage = "computing" /\ c.source # None =>
                              calls'[c.source].stage = "resolved" /\ calls'[c.source].value = None
    BY DEF StagesFit
  <2>1. CASE m = New BY <2>1, <1>2
  <2>2. CASE m \in DOMAIN calls
    <3>1. calls'[m] = calls[m] BY <2>2, <1>1
    <3>2. calls[m].source # None => calls'[calls[m].source] = calls[calls[m].source]
      BY <2>2, <1>1, <1>3
    <3> QED BY <2>2, <3>1, <3>2 DEF StagesFit
  <2> QED BY <2>1, <2>2, <1>1
<1>7. OperationsFit'
  <2> SUFFICES ASSUME NEW i \in DOMAIN operations', operations'[i].call # None
               PROVE  /\ operations'[i].call \in DOMAIN calls'
                      /\ calls'[operations'[i].call].stage = "storing" => operations'[i].op = "set"
    BY DEF OperationsFit
  <2>1. CASE (i \in DOMAIN operations /\ operations'[i] = operations[i])
    BY <2>1, <1>1 DEF OperationsFit
  <2>2. CASE operations'[i].call = New /\ (stage = "storing" => operations'[i].op = "set")
    BY <2>2, <1>1, <1>2
  <2> QED BY <2>1, <2>2
<1>8. FailuresNotCached'
  <2> SUFFICES ASSUME NEW k \in Keys, cache'[k] # None, calls'[cache'[k]].stage = "rejected"
               PROVE  cache'[k] \in cleanups
    BY DEF FailuresNotCached
  <2>1. cache'[k] # New BY <1>2
  <2>2. cache'[k] = cache[k]
    <3>1. CASE SomeForgotten BY <3>1 DEF SomeForgotten
    <3>2. CASE Caching(call.key, New) BY <3>2, <2>1 DEF Caching, TypeOK
    <3> QED BY <3>1, <3>2
  <2>3. cache[k] \in DOMAIN calls BY <2>2 DEF CachedIsCurrent
  <2> QED BY <2>2, <2>3, <1>1 DEF FailuresNotCached
<1>9. LastPutServed'
  <2> SUFFICES ASSUME NEW m \in DOMAIN calls', NEW i \in DOMAIN calls', m < i,
                      calls'[m].op = "put", Together(m, i)', calls'[i].stage = "resolved",
                      calls'[i].op \in {"get", "getOrPut"}
               PROVE  calls'[i].value >= m
    BY DEF LastPutServed, Together
  <2>1. i \in DOMAIN calls BY <1>1, <1>2
  <2>2. m \in DOMAIN calls BY <2>1, <1>1, <1>3 DEF Numbers
  <2> QED BY <2>1, <2>2, <1>1 DEF LastPutServed, Together
<1>10. CallsBounded' BY <1>1 DEF CallsBounded
<1> QED BY <1>4, <1>5, <1>6, <1>7, <1>8, <1>9, <1>10

--------------------------------------------------------------------------------
(* Every action                                                            *)

LEMMA InitIInv == Init => IInv
BY DEF Init, IInv, TypeOK, CachedIsCurrent, LatestIsCached, LaterCallsWait, StagesFit, OperationsFit,
       FailuresNotCached, LastPutServed, CallsBounded

LEMMA NoneForgotten ==
  ASSUME TypeOK, UNCHANGED <<cache, era>>
  PROVE  SomeForgotten
<1>1. /\ cache' = [k \in Keys |-> IF k \in {} THEN None ELSE cache[k]]
      /\ era' = [k \in Keys |-> IF k \in {} THEN era[k] + 1 ELSE era[k]]
  BY DEF TypeOK
<1>2. {} \in SUBSET Keys OBVIOUS
<1> QED BY <1>1, <1>2 DEF SomeForgotten

LEMMA OneForgotten ==
  ASSUME TypeOK, NEW k \in Keys, Forget(k)
  PROVE  SomeForgotten /\ cache'[k] = None
<1>1. /\ cache' = [l \in Keys |-> IF l \in {k} THEN None ELSE cache[l]]
      /\ era' = [l \in Keys |-> IF l \in {k} THEN era[l] + 1 ELSE era[l]]
  BY DEF TypeOK, Forget, Caching
<1> QED BY <1>1 DEF SomeForgotten

LEMMA GetKeeps ==
  ASSUME IInv, NEW call \in Calls, call.op = "get", Get(call)
  PROVE  IInv'
<1>1. TypeOK BY DEF IInv
<1>2. Make(call, "reading", None, None) BY DEF Get
<1>3. New \in Numbers BY <1>1, <1>2, MakeFacts DEF Stages
<1>4. Operation("get", call.key, New) \in StorageOps
  BY <1>3, CallsAssumption DEF Operation, StorageOps
<1>5. /\ operations' \in Seq(StorageOps)
      /\ \A i \in DOMAIN operations' : (i \in DOMAIN operations /\ operations'[i] = operations[i])
                                       \/ operations'[i] = Operation("get", call.key, New)
  BY <1>1, <1>4, SubmitAdds DEF Get
<1>6. Operation("get", call.key, New).call = New BY DEF Operation
<1>7. /\ Caching(call.key, New) /\ UNCHANGED era /\ call.op \in CachingOps
      /\ None = cache[call.key] /\ UNCHANGED <<cleanups, storage>>
  BY DEF Get, CachingOps
<1>8. "reading" \in Stages /\ None \in {None} \cup Numbers BY DEF Stages
<1> QED BY <1>2, <1>5, <1>6, <1>7, <1>8, MakeKeeps

LEMMA PutKeeps ==
  ASSUME IInv, NEW call \in Calls, call.op = "put", Put(call)
  PROVE  IInv'
<1>1. TypeOK BY DEF IInv
<1>2. PICK stage \in {"storing", "resolved"} : Make(call, stage, None, New) BY DEF Put
<1>3. New \in Numbers
  <2>1. Len(calls) \in Nat /\ Len(calls) < MaxCalls BY <1>1, <1>2 DEF TypeOK, Make
  <2> QED BY <2>1, BoundAssumption DEF New, Numbers
<1>4. Operation("set", call.key, New) \in StorageOps
  BY <1>3, CallsAssumption DEF Operation, StorageOps
<1>5. /\ operations' \in Seq(StorageOps)
      /\ \A i \in DOMAIN operations' : (i \in DOMAIN operations /\ operations'[i] = operations[i])
                                       \/ operations'[i] = Operation("set", call.key, New)
  <2>1. CASE Submit(Operation("set", call.key, New)) BY <2>1, <1>1, <1>4, SubmitAdds
  <2>2. CASE UNCHANGED operations BY <2>2, <1>1 DEF TypeOK, StorageOps
  <2> QED BY <2>1, <2>2 DEF Put
<1>6. Operation("set", call.key, New).call = New /\ Operation("set", call.key, New).op = "set"
  BY DEF Operation
<1>7. /\ Caching(call.key, New) /\ UNCHANGED era /\ call.op \in CachingOps
      /\ UNCHANGED <<cleanups, storage>>
  BY DEF Put, CachingOps
<1>8. stage \in Stages /\ None \in {None} \cup Numbers /\ New \in {None} \cup Numbers
  BY <1>3 DEF Stages
<1> QED BY <1>2, <1>5, <1>6, <1>7, <1>8, MakeKeeps

LEMMA GetOrPutKeeps ==
  ASSUME IInv, NEW call \in Calls, call.op = "getOrPut", GetOrPut(call)
  PROVE  IInv'
<1> DEFINE existing == cache[call.key]
<1>1. TypeOK /\ call.key \in Keys BY CallsAssumption DEF IInv
<1>2. existing \in {None} \cup Numbers /\ (existing # None => existing \in DOMAIN calls)
  BY <1>1 DEF TypeOK, IInv, CachedIsCurrent
<1>3. PICK stage \in {"reading", "chained"} :
        /\ Make(call, stage, existing, None)
        /\ stage = "reading" => existing = None
        /\ UNCHANGED operations \/ Submit(Operation("get", call.key, New))
  BY DEF GetOrPut
<1>4. New \in Numbers
  <2>1. Len(calls) \in Nat /\ Len(calls) < MaxCalls BY <1>1, <1>3 DEF TypeOK, Make
  <2> QED BY <2>1, BoundAssumption DEF New, Numbers
<1>5. Operation("get", call.key, New) \in StorageOps BY <1>1, <1>4 DEF Operation, StorageOps
<1>6. /\ operations' \in Seq(StorageOps)
      /\ \A i \in DOMAIN operations' : (i \in DOMAIN operations /\ operations'[i] = operations[i])
                                       \/ operations'[i] = Operation("get", call.key, New)
  <2>1. CASE Submit(Operation("get", call.key, New)) BY <2>1, <1>1, <1>5, SubmitAdds
  <2>2. CASE UNCHANGED operations BY <2>2, <1>1 DEF TypeOK, StorageOps
  <2> QED BY <2>1, <2>2, <1>3
<1>7. Operation("get", call.key, New).call = New BY DEF Operation
<1>8. /\ Caching(call.key, New) /\ UNCHANGED era /\ call.op \in CachingOps
      /\ UNCHANGED <<cleanups, storage>>
  BY DEF GetOrPut, CachingOps
<1>9. stage \in Stages /\ None \in {None} \cup Numbers BY DEF Stages
<1> HIDE DEF existing
<1>10. existing = cache[call.key] BY DEF existing
<1> QED BY <1>2, <1>3, <1>6, <1>7, <1>8, <1>9, <1>10, MakeKeeps

LEMMA DropKeeps ==
  ASSUME IInv, NEW call \in Calls,
         (call.op = "delete" /\ Delete(call)) \/ (call.op = "flush" /\ Flush(call))
  PROVE  IInv'
<1>1. TypeOK /\ call.key \in Keys BY CallsAssumption DEF IInv
<1>2. Make(call, "resolved", None, None) BY DEF Delete, Flush
<1>3. PICK op \in {"remove", "clear"} : Submit(Operation(op, call.key, None)) BY DEF Delete, Flush
<1>4. Operation(op, call.key, None) \in StorageOps BY <1>1 DEF Operation, StorageOps
<1>5. /\ operations' \in Seq(StorageOps)
      /\ \A i \in DOMAIN operations' : (i \in DOMAIN operations /\ operations'[i] = operations[i])
                                       \/ operations'[i] = Operation(op, call.key, None)
  BY <1>1, <1>3, <1>4, SubmitAdds
<1>6. Operation(op, call.key, None).call = None BY DEF Operation
<1>7. SomeForgotten
  <2>1. CASE Delete(call) BY <2>1, <1>1, OneForgotten DEF Delete
  <2>2. CASE Flush(call)
    <3>1. /\ cache' = [k \in Keys |-> IF k \in Keys THEN None ELSE cache[k]]
          /\ era' = [k \in Keys |-> IF k \in Keys THEN era[k] + 1 ELSE era[k]]
      BY <2>2 DEF Flush
    <3> QED BY <3>1 DEF SomeForgotten
  <2> QED BY <2>1, <2>2
<1>8. UNCHANGED <<cleanups, storage>> /\ call.op \notin CachingOps
  BY DEF Delete, Flush, CachingOps
<1>9. "resolved" \in Stages /\ None \in {None} \cup Numbers BY DEF Stages
<1>10. call.op \notin {"get", "put", "getOrPut"} BY <1>8 DEF CachingOps
<1> QED BY <1>2, <1>5, <1>6, <1>7, <1>8, <1>9, <1>10, MakeKeeps
LEMMA CleanUpKeeps ==
  ASSUME IInv, NEW n \in DOMAIN calls, CleanUp(n)
  PROVE  IInv'
<1>1. TypeOK /\ calls[n].key \in Keys BY CallTypes DEF IInv, Promise
<1>2. SomeForgotten /\ cache'[calls[n].key] = None BY <1>1, OneForgotten DEF CleanUp
<1>3. OnlySetsAdded BY <1>1, UnchangedAddsNone DEF CleanUp
<1>4. cleanups' \subseteq cleanups /\ cleanups \ cleanups' \subseteq {n} BY DEF CleanUp
<1>5. UNCHANGED calls /\ storage' \in [Keys -> {None} \cup Numbers] BY <1>1 DEF CleanUp, TypeOK
<1> QED BY <1>2, <1>3, <1>4, <1>5, NoneSettled

\* The promise of a chain follows the one it waits for: if that one gave a value, it
\* is no older than the puts before the chain.
LEMMA ContinueKeeps ==
  ASSUME IInv, NEW n \in DOMAIN calls, Continue(n)
  PROVE  IInv'
<1> DEFINE s == calls[n].source
<1>1. TypeOK BY DEF IInv
<1>2. calls[n].op = "getOrPut" /\ calls[n].stage = "chained" BY DEF IInv, StagesFit, Continue
<1>3. SomeForgotten /\ OnlySetsAdded BY <1>1, NoneForgotten, UnchangedAddsNone DEF Continue
<1>4. /\ UNCHANGED <<cleanups, storage>> /\ cleanups' \subseteq DOMAIN calls
      /\ storage' \in [Keys -> {None} \cup Numbers]
  BY <1>1 DEF Continue, TypeOK
<1>5. s < n /\ s \in Nat /\ (s # None => s \in DOMAIN calls) BY <1>1, CallTypes
<1>6. {"computing", "failing", "resolved"} \subseteq Stages /\ None \in {None} \cup Numbers
  BY DEF Stages
<1>7. CASE s # None /\ calls[s].stage = "resolved" /\ calls[s].value # None
           /\ Settle(n, "resolved", calls[s].value)
  <2>1. calls[s].value \in {None} \cup Numbers /\ s \in Nat
    BY <1>1, <1>5, <1>7, CallTypes DEF Promise
  <2>2. ASSUME NEW m \in DOMAIN calls, m < n, calls[m].op = "put", Together(m, n)
        PROVE  calls[s].value >= m
    <3>1. /\ m <= s /\ calls[s].op \in CachingOps /\ Together(s, n)
      BY <2>2, <1>2 DEF IInv, LaterCallsWait, CachingOps
    <3>2. m \in Nat BY <1>1, CallTypes
    <3>3. CASE m = s
      <4>1. calls[s].value = s BY <3>3, <2>2, <1>7 DEF IInv, StagesFit
      <4> QED BY <4>1, <3>3, <3>2
    <3>4. CASE m < s
      <4>1. Together(m, s) BY <2>2, <3>1 DEF Together
      <4>2. CASE calls[s].op = "put"
        <5>1. calls[s].value = s BY <4>2, <1>5, <1>7 DEF IInv, StagesFit
        <5> QED BY <5>1, <3>1, <3>2, <1>5
      <4>3. CASE calls[s].op \in {"get", "getOrPut"}
        BY <4>1, <4>3, <3>4, <2>2, <1>5, <1>7 DEF IInv, LastPutServed, Together
      <4> QED BY <4>2, <4>3, <3>1 DEF CachingOps
    <3> QED BY <3>1, <3>2, <3>3, <3>4, <1>5
  <2>3. calls[s].value # None BY <1>7
  <2> HIDE DEF s
  <2> QED BY <2>1, <2>2, <2>3, <1>2, <1>3, <1>4, <1>6, <1>7, SettleKeeps
<1>8. CASE /\ s # None => calls[s].stage = "resolved" /\ calls[s].value = None
           /\ Settle(n, "computing", None)
  BY <1>2, <1>3, <1>4, <1>6, <1>8, SettleKeeps
<1>9. CASE Settle(n, "failing", None)
  BY <1>2, <1>3, <1>4, <1>6, <1>9, SettleKeeps
<1>10. \/ /\ s # None /\ calls[s].stage = "resolved" /\ calls[s].value # None
          /\ Settle(n, "resolved", calls[s].value)
       \/ /\ s # None => calls[s].stage = "resolved" /\ calls[s].value = None
          /\ Settle(n, "computing", None)
       \/ Settle(n, "failing", None)
  <2>1. CASE s = None BY <2>1 DEF Continue
  <2>2. CASE s # None BY <2>2 DEF Continue
  <2> QED BY <2>1, <2>2
<1> QED BY <1>7, <1>8, <1>9, <1>10

LEMMA ComputedKeeps ==
  ASSUME IInv, NEW n \in DOMAIN calls, Computed(n)
  PROVE  IInv'
<1>1. TypeOK BY DEF IInv
<1>2. calls[n].op = "getOrPut" /\ calls[n].stage = "computing" BY DEF IInv, StagesFit, Computed
<1>3. SomeForgotten BY <1>1, NoneForgotten DEF Computed
<1>4. calls[n].key \in Keys /\ n \in Numbers /\ n # None
  BY <1>1, CallTypes DEF Promise, IInv, CallsBounded
<1>5. OnlySetsAdded
  <2>1. CASE UNCHANGED operations BY <2>1, <1>1, UnchangedAddsNone
  <2>2. CASE Submit(Operation("set", calls[n].key, n))
    <3>1. Operation("set", calls[n].key, n) \in StorageOps BY <1>4 DEF Operation, StorageOps
    <3>2. /\ operations' \in Seq(StorageOps)
          /\ \A i \in DOMAIN operations' : (i \in DOMAIN operations /\ operations'[i] = operations[i])
                                           \/ operations'[i] = Operation("set", calls[n].key, n)
      BY <3>1, <2>2, <1>1, SubmitAdds
    <3> QED BY <3>2 DEF OnlySetsAdded, Operation
  <2> QED BY <2>1, <2>2 DEF Computed
<1>6. /\ UNCHANGED <<cleanups, storage>> /\ cleanups' \subseteq DOMAIN calls
      /\ storage' \in [Keys -> {None} \cup Numbers]
  BY <1>1 DEF Computed, TypeOK
<1>7. "resolved" \in Stages /\ n \in {None} \cup Numbers BY <1>4 DEF Stages
<1>8. Settle(n, "resolved", n) BY DEF Computed
<1>9. \A m \in DOMAIN calls : m < n => n >= m BY <1>1, CallTypes
<1> QED BY <1>2, <1>3, <1>4, <1>5, <1>6, <1>7, <1>8, <1>9, SettleKeeps

LEMMA FailingKeeps ==
  ASSUME IInv, NEW n \in DOMAIN calls, NotComputed(n) \/ Fail(n)
  PROVE  IInv'
<1>1. TypeOK /\ calls[n].key \in Keys BY CallTypes DEF IInv, Promise
<1>2. calls[n].op = "getOrPut" /\ calls[n].stage \in {"computing", "failing"}
  BY DEF IInv, StagesFit, NotComputed, Fail
<1>3. OnlySetsAdded BY <1>1, UnchangedAddsNone DEF NotComputed, Fail
<1>4. /\ UNCHANGED <<cleanups, storage>> /\ cleanups' \subseteq DOMAIN calls
      /\ storage' \in [Keys -> {None} \cup Numbers]
  BY <1>1 DEF NotComputed, Fail, TypeOK
<1>5. {"failing", "rejected"} \subseteq Stages /\ None \in {None} \cup Numbers BY DEF Stages
<1>6. CASE NotComputed(n)
  <2>1. SomeForgotten /\ Settle(n, "failing", None) BY <1>1, <1>6, NoneForgotten DEF NotComputed
  <2> QED BY <2>1, <1>2, <1>3, <1>4, <1>5, SettleKeeps
<1>7. CASE Fail(n)
  <2>1. SomeForgotten /\ cache'[calls[n].key] = None /\ Settle(n, "rejected", None)
    BY <1>1, <1>7, OneForgotten DEF Fail
  <2> QED BY <2>1, <1>2, <1>3, <1>4, <1>5, SettleKeeps
<1> QED BY <1>6, <1>7

LEMMA StorageServesKeeps ==
  ASSUME IInv, StorageServes
  PROVE  IInv'
<1> DEFINE operation == Head(operations)
           n == operation.call
           k == operation.key
<1>1. TypeOK BY DEF IInv
<1>2. OnlySetsAdded /\ operation \in StorageOps /\ 1 \in DOMAIN operations /\ operation = operations[1]
  BY <1>1, TailAddsNone DEF StorageServes
<1>3. SomeForgotten BY <1>1, NoneForgotten DEF StorageServes
<1>4. /\ storage' \in [Keys -> {None} \cup Numbers] /\ k \in Keys
      /\ operation.op = "set" => storage'[k] = n
  <2>1. n \in {None} \cup Numbers /\ k \in Keys /\ operation.op \in {"get", "set", "remove", "clear"}
    BY <1>2 DEF StorageOps
  <2>2. storage' = CASE operation.op = "get" -> storage
                     [] operation.op = "set" -> [storage EXCEPT ![k] = n]
                     [] operation.op = "remove" -> [storage EXCEPT ![k] = None]
                     [] operation.op = "clear" -> [l \in Keys |-> None]
    BY DEF StorageServes
  <2>3. storage \in [Keys -> {None} \cup Numbers] BY <1>1 DEF TypeOK
  <2> HIDE DEF operation, n, k
  <2>4. CASE operation.op = "get" BY <2>1, <2>2, <2>3, <2>4
  <2>5. CASE operation.op = "set" BY <2>1, <2>2, <2>3, <2>5
  <2>6. CASE operation.op = "remove" BY <2>1, <2>2, <2>3, <2>6
  <2>7. CASE operation.op = "clear" BY <2>1, <2>2, <2>3, <2>7
  <2> QED BY <2>1, <2>4, <2>5, <2>6, <2>7
<1>5. /\ UNCHANGED cleanups /\ cleanups' \subseteq DOMAIN calls /\ cleanups' \subseteq cleanups
  BY <1>1 DEF StorageServes, TypeOK
<1>6. n # None => /\ n \in DOMAIN calls
                  /\ calls[n].stage = "storing" => operation.op = "set"
  BY <1>2 DEF IInv, OperationsFit
<1> DEFINE value == storage'[k]
<1>7. value \in {None} \cup Numbers BY <1>4
<1>8. StorageAnswers(n, value) BY DEF StorageServes
<1>9. {"computing", "resolved"} \subseteq Stages /\ None \in {None} \cup Numbers BY DEF Stages
<1> HIDE DEF operation, n, k, value
<1>10. CASE n # None /\ calls[n].stage = "reading" /\ calls[n].op = "getOrPut" /\ value = None
  <2>1. Settle(n, "computing", None) BY <1>8, <1>10 DEF StorageAnswers
  <2>2. calls[n].source = None BY <1>6, <1>10 DEF IInv, StagesFit
  <2> QED BY <2>1, <2>2, <1>2, <1>3, <1>4, <1>5, <1>6, <1>9, <1>10, SettleKeeps
<1>11. CASE n # None /\ calls[n].stage \in {"reading", "storing"}
            /\ ~(calls[n].op = "getOrPut" /\ value = None)
  <2>1. Settle(n, "resolved", value) BY <1>8, <1>11 DEF StorageAnswers
  <2>2. calls[n].op = "put" => value = n
    BY <1>4, <1>6, <1>11 DEF IInv, StagesFit, value
  <2>3. ASSUME NEW m \in DOMAIN calls, m < n, calls[m].op = "put", Together(m, n),
               calls[n].op \in {"get", "getOrPut"}
        PROVE  FALSE
    <3>1. calls[n].source = None BY <1>6, <1>11, <2>3 DEF IInv, StagesFit
    <3> QED BY <3>1, <1>6, <1>11, <2>3 DEF IInv, LaterCallsWait, CachingOps
  <2>4. calls[n].op = "getOrPut" => value # None BY <1>11
  <2> QED BY <2>1, <2>2, <2>3, <2>4, <1>2, <1>3, <1>4, <1>5, <1>6, <1>7, <1>9, <1>11, SettleKeeps
<1>12. CASE UNCHANGED calls BY <1>2, <1>3, <1>4, <1>5, <1>12, NoneSettled
<1> QED BY <1>8, <1>10, <1>11, <1>12 DEF StorageAnswers

LEMMA StorageFailsKeeps ==
  ASSUME IInv, StorageFails
  PROVE  IInv'
<1> DEFINE n == Head(operations).call
<1>1. TypeOK BY DEF IInv
<1>2. OnlySetsAdded /\ Head(operations) = operations[1] /\ 1 \in DOMAIN operations
  BY <1>1, TailAddsNone DEF StorageFails
<1>3. SomeForgotten BY <1>1, NoneForgotten DEF StorageFails
<1>4. storage' \in [Keys -> {None} \cup Numbers] BY <1>1 DEF StorageFails, TypeOK
<1>5. n # None => n \in DOMAIN calls BY <1>2 DEF IInv, OperationsFit
<1>6. {"failing", "rejected"} \subseteq Stages /\ None \in {None} \cup Numbers BY DEF Stages
<1>7. CASE UNCHANGED <<calls, cleanups>> BY <1>2, <1>3, <1>4, <1>7, NoneSettled
<1>8. CASE /\ n # None /\ calls[n].stage \in {"reading", "storing"}
           /\ Settle(n, IF calls[n].op = "getOrPut" THEN "failing" ELSE "rejected", None)
           /\ cleanups' = cleanups \cup {n}
  <2>1. cleanups' \subseteq DOMAIN calls /\ cleanups \subseteq cleanups' /\ n \in cleanups'
    BY <1>1, <1>5, <1>8 DEF TypeOK
  <2> HIDE DEF n
  <2>2. CASE calls[n].op = "getOrPut" /\ Settle(n, "failing", None)
    BY <2>1, <2>2, <1>2, <1>3, <1>4, <1>5, <1>6, <1>8, SettleKeeps
  <2>3. CASE Settle(n, "rejected", None)
    BY <2>1, <2>3, <1>2, <1>3, <1>4, <1>5, <1>6, <1>8, SettleKeeps
  <2> QED BY <2>2, <2>3, <1>8
<1> QED BY <1>7, <1>8 DEF StorageFails

LEMMA StutterKeeps == IInv /\ UNCHANGED vars => IInv'
<1> SUFFICES ASSUME IInv, UNCHANGED vars PROVE IInv'
  OBVIOUS
<1>1. TypeOK /\ SomeForgotten /\ OnlySetsAdded
  BY NoneForgotten, UnchangedAddsNone DEF IInv, vars
<1> QED BY <1>1, NoneSettled DEF vars, TypeOK

LEMMA NextIInv == IInv /\ [Next]_vars => IInv'
<1> SUFFICES ASSUME IInv, Next PROVE IInv'
  BY StutterKeeps
<1>1. ASSUME NEW call \in Calls, call.op = "get", Get(call) PROVE IInv'
  BY <1>1, GetKeeps
<1>2. ASSUME NEW call \in Calls, call.op = "put", Put(call) PROVE IInv'
  BY <1>2, PutKeeps
<1>3. ASSUME NEW call \in Calls, call.op = "getOrPut", GetOrPut(call) PROVE IInv'
  BY <1>3, GetOrPutKeeps
<1>4. ASSUME NEW call \in Calls,
             (call.op = "delete" /\ Delete(call)) \/ (call.op = "flush" /\ Flush(call))
      PROVE  IInv'
  BY <1>4, DropKeeps
<1>5. ASSUME NEW n \in DOMAIN calls, Handle(n) PROVE IInv'
  BY <1>5, CleanUpKeeps, ContinueKeeps, ComputedKeeps, FailingKeeps DEF Handle
<1>6. CASE StorageServes BY <1>6, StorageServesKeeps
<1>7. CASE StorageFails BY <1>7, StorageFailsKeeps
<1>8. CASE \E call \in Calls :
             \/ call.op = "get" /\ Get(call)
             \/ call.op = "put" /\ Put(call)
             \/ call.op = "getOrPut" /\ GetOrPut(call)
             \/ call.op = "delete" /\ Delete(call)
             \/ call.op = "flush" /\ Flush(call)
  <2>1. PICK call \in Calls :
             \/ call.op = "get" /\ Get(call)
             \/ call.op = "put" /\ Put(call)
             \/ call.op = "getOrPut" /\ GetOrPut(call)
             \/ call.op = "delete" /\ Delete(call)
             \/ call.op = "flush" /\ Flush(call)
    BY <1>8
  <2>2. CASE call.op = "get" /\ Get(call) BY <2>2, <1>1
  <2>3. CASE call.op = "put" /\ Put(call) BY <2>3, <1>2
  <2>4. CASE call.op = "getOrPut" /\ GetOrPut(call) BY <2>4, <1>3
  <2>5. CASE (call.op = "delete" /\ Delete(call)) \/ (call.op = "flush" /\ Flush(call)) BY <2>5, <1>4
  <2> QED
    <3>1. \/ (call.op = "delete" /\ Delete(call)) \/ (call.op = "flush" /\ Flush(call))
          \/ call.op = "get" /\ Get(call)
          \/ call.op = "put" /\ Put(call)
          \/ call.op = "getOrPut" /\ GetOrPut(call)
      BY <2>1, Zenon
    <3> QED BY <3>1, <2>2, <2>3, <2>4, <2>5, Zenon
<1>9. CASE \E n \in DOMAIN calls : Handle(n) BY <1>9, <1>5
<1> QED BY <1>6, <1>7, <1>8, <1>9 DEF Next

--------------------------------------------------------------------------------
(* The theorems                                                            *)

\* The inductive invariant holds, however many calls there are.
THEOREM PersistentIInv == Spec => []IInv
<1>1. Init => IInv BY InitIInv
<1>2. IInv /\ [Next]_vars => IInv' BY NextIInv
<1> QED BY <1>1, <1>2, PTL DEF Spec

\* The types of the memory, the promises, the storage and its operations.
THEOREM PersistentTypeOK == Spec => []TypeOK
<1>1. IInv => TypeOK BY DEF IInv
<1> QED BY <1>1, PersistentIInv, PTL

\* A rejected promise stays cached only until the handler that deletes it has run.
THEOREM PersistentFailuresNotCached == Spec => []FailuresNotCached
<1>1. IInv => FailuresNotCached BY DEF IInv
<1> QED BY <1>1, PersistentIInv, PTL

\* What a call is answered is no older than the last put of its era.
THEOREM PersistentLastPutServed == Spec => []LastPutServed
<1>1. IInv => LastPutServed BY DEF IInv
<1> QED BY <1>1, PersistentIInv, PTL

\* Of two getOrPut calls of one era the later waits for a promise no older than the
\* earlier one; it computes only if that gave nothing, which a getOrPut never does.
THEOREM PersistentOneComputation == Spec => []OneComputation
<1>1. IInv => OneComputation
  <2> SUFFICES ASSUME IInv, NEW m \in DOMAIN calls, NEW n \in DOMAIN calls, m < n,
                      calls[m].stage = "computing", calls[n].stage = "computing", Together(m, n)
               PROVE  FALSE
    BY DEF OneComputation, Together
  <2> DEFINE s == calls[n].source
  <2>1. calls[m].op = "getOrPut" /\ calls[n].op = "getOrPut" BY DEF IInv, StagesFit
  <2>2. /\ s # None /\ m <= s /\ calls[s].op \in CachingOps /\ Together(s, n)
    BY <2>1 DEF IInv, LaterCallsWait, CachingOps
  <2>3. m \in Nat /\ s \in DOMAIN calls /\ s \in Nat BY <2>2, CallTypes DEF IInv
  <2>4. calls[s].stage = "resolved" /\ calls[s].value = None BY <2>2 DEF IInv, StagesFit
  <2>5. m < s BY <2>2, <2>3, <2>4
  <2>6. Together(m, s) BY <2>2 DEF Together
  <2>7. CASE calls[s].op = "put" BY <2>7, <2>2, <2>3, <2>4 DEF IInv, StagesFit
  <2>8. CASE calls[s].op = "getOrPut" BY <2>8, <2>3, <2>4 DEF IInv, StagesFit
  <2>9. CASE calls[s].op = "get"
    BY <2>9, <2>1, <2>3, <2>5, <2>6 DEF IInv, LaterCallsWait, CachingOps
  <2> QED BY <2>2, <2>7, <2>8, <2>9 DEF CachingOps
<1> QED BY <1>1, PersistentIInv, PTL
================================================================================
