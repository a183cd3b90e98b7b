---------------------------- MODULE StorageService -----------------------------
(***************************************************************************)
(* src/Common/src/storage/StorageService.js on top of an IndexedDBAdapter: *)
(* requests wait in a queue until the adapter is initialised, then become  *)
(* transactions on one table, which IndexedDB runs in the order of their   *)
(* creation.  A sweep is a read-only scan followed, when its cursor is     *)
(* exhausted, by a transaction of its own that removes what the scan       *)
(* chose.  The page may be reloaded: the table stays, the rest is lost.    *)
(*                                                                         *)
(* A stored value is named by the number of the request that wrote it.     *)
(***************************************************************************)
EXTENDS Integers, Sequences, FiniteSets, SequencesExt

CONSTANTS
  Keys,
  Calls,        \* the calls clients may make, a set of [op, keys]
  MaxRequests,  \* bound: the requests made
  MaxReloads,   \* bound: the reloads of the page
  ClearOnInit,  \* config.clearOnInit
  NearFull,     \* whether the size guess may be near the adapter's high-water mark
  InitMayFail,  \* whether the adapter's initialisation may fail
  MayAbort      \* the kinds of transactions that may abort

Ops == {"get", "set", "setTooLarge", "remove", "clear", "deleteStorage"}

ASSUME CallsAssumption == Calls \subseteq [op : Ops, keys : SUBSET Keys]
ASSUME BoundsAssumption == MaxRequests \in Nat /\ MaxReloads \in Nat
ASSUME FlagsAssumption == {ClearOnInit, NearFull, InitMayFail} \subseteq BOOLEAN

VARIABLES
  ready,       \* #ready
  initPhase,   \* how far the promise chain of the constructor is
  queue,       \* #queue: request numbers
  keyFilter,   \* #keyFilter
  sweeping,    \* #sweepPromise is set
  suspended,   \* #sweepingSuspended, of the service and of the adapter
  closed,      \* deleteStorage() closed the adapter's #db
  txs,         \* the transactions created on the table and not finished
  committing,  \* the requests of the first one succeeded, it is not committed yet
  store,       \* the table: which request wrote the value of each key
  expired,     \* keys whose stored item is past its expiry
  requests,    \* history: every request made, in order, with its outcome
  session,     \* how often the page has been loaded
  uncleared    \* history: the sessions whose clear of clearOnInit failed

initVars == <<ready, initPhase>>
queueVars == <<queue, keyFilter>>
sweepVars == <<sweeping, suspended>>
tableVars == <<committing, store, expired>>
historyVars == <<requests, session, uncleared>>
vars == <<initVars, queueVars, sweepVars, closed, txs, tableVars, historyVars>>

Absent == 0
Old == -1          \* the value of an item stored before the first session
Contents == {Absent, Old} \cup 1 .. MaxRequests

InitPhases == {"opening", "readingKeys", "keysKnown", "clearing", "flipping",
               "executing", "complete", "failed"}
TxKinds == {"getKeys", "initClear", "get", "put", "remove", "clear", "drop",
            "sweep", "scan", "evict"}
Transactions == [kind : TxKinds, keys : SUBSET Keys, req : 0 .. MaxRequests]
Requests == [op : Ops, keys : SUBSET Keys, session : 0 .. MaxReloads, applied : BOOLEAN,
             status : {"pending", "resolved", "rejected", "dropped"},
             result : [Keys -> Contents]]

Stored == {k \in Keys : store[k] # Absent}

TypeOK ==
  /\ ready \in {"undefined", "true", "false"}
  /\ initPhase \in InitPhases
  /\ queue \in Seq(1 .. MaxRequests)
  /\ keyFilter \in SUBSET Keys
  /\ sweeping \in BOOLEAN
  /\ suspended \in BOOLEAN
  /\ closed \in BOOLEAN
  /\ txs \in Seq(Transactions)
  /\ committing \in BOOLEAN
  /\ store \in [Keys -> Contents]
  /\ expired \in SUBSET Stored
  /\ requests \in Seq(Requests)
  /\ session \in 0 .. MaxReloads
  /\ uncleared \subseteq 0 .. MaxReloads

Init ==
  /\ ready = "undefined"
  /\ initPhase = "opening"
  /\ queue = <<>>
  /\ keyFilter = {}
  /\ sweeping = FALSE
  /\ suspended = FALSE
  /\ closed = FALSE
  /\ txs = <<>>
  /\ committing = FALSE
  /\ store \in [Keys -> {Absent, Old}]
  /\ expired \in SUBSET Stored
  /\ requests = <<>>
  /\ session = 0
  /\ uncleared = {}

Tx(kind, keys, n) == [kind |-> kind, keys |-> keys, req |-> n]

--------------------------------------------------------------------------------
(* Executing a request: what it answers at once, what it asks of the table *)

Nothing == [k \in Keys |-> Absent]
Outcome(status, add) == [status |-> status, add |-> add]

\* A db that was closed lets no transaction be created: the promise rejects.
Submit(tx) == IF closed THEN Outcome("rejected", <<>>) ELSE Outcome("pending", <<tx>>)

\* A mutant: a sweep is started although one is in flight.
SweepAllowedTwice == ~suspended /\ ~closed

\* sweep(): its guards, then a scan; the frequency guards of the service and of
\* the adapter depend on the clock and may let it pass or not.
SweepAllowed == ~sweeping /\ ~suspended /\ ~closed
SweepChoices == IF SweepAllowed THEN {<<>>, <<Tx("sweep", {}, 0)>>} ELSE {<<>>}

\* setItems() scans first when it believes that space is short.
ScanChoices == IF NearFull /\ ~suspended THEN {<<>>, <<Tx("scan", {}, 0)>>} ELSE {<<>>}

\* The keys the key filter lets through
Wanted(req) == req.keys \cap keyFilter

\* A get of keys none of which was in the table at initialisation resolves at once.
GetAllInternal(req, n) ==
  {IF Wanted(req) = {} THEN Outcome("resolved", <<>>) ELSE Submit(Tx("get", Wanted(req), n))}

\* setItems() of the adapter, then sweep(), in whatever state the adapter is
SetAllInternal(req, n) ==
  IF closed THEN {Outcome("rejected", <<>>)}
  ELSE {Outcome("pending", scan \o <<Tx("put", req.keys, n)>> \o sweep) :
          scan \in ScanChoices, sweep \in SweepChoices}

\* More than the storage may hold at all: nothing is handed to the adapter.
SetAllTooLarge(req, n) == {Outcome("rejected", <<>>)}

RemoveAllInternal(req, n) == {Submit(Tx("remove", req.keys, n))}
ClearInternal(req, n) == {Submit(Tx("clear", Keys, n))}
DeleteStorageInternal(req, n) == {Outcome("pending", <<Tx("drop", Keys, n)>>)}

\* The function that was bound to the request by _enqueue
Outcomes(req, n) ==
  CASE req.op = "get" -> GetAllInternal(req, n)
    [] req.op = "set" -> SetAllInternal(req, n)
    [] req.op = "setTooLarge" -> SetAllTooLarge(req, n)
    [] req.op = "remove" -> RemoveAllInternal(req, n)
    [] req.op = "clear" -> ClearInternal(req, n)
    [] req.op = "deleteStorage" -> DeleteStorageInternal(req, n)

\* request.execute(request.resolve, request.reject)
Execute(req, outcome) ==
  /\ txs' = txs \o outcome.add
  /\ sweeping' = (sweeping \/ \E i \in DOMAIN outcome.add : outcome.add[i].kind = "sweep")
  /\ closed' = (closed \/ req.op = "deleteStorage")

--------------------------------------------------------------------------------
(* The calls of clients                                                    *)

\* The queue is run in one go: nothing else happens meanwhile.
Idle == initPhase # "executing"

NewRequest(call) ==
  [op |-> call.op, keys |-> call.keys, session |-> session, applied |-> FALSE,
   status |-> "pending", result |-> Nothing]

\* _enqueue(): execute at once, reject at once, or queue
RequestWhenReady(call) ==
  LET req == NewRequest(call)
      n == Len(requests) + 1
  IN /\ Idle
     /\ n <= MaxRequests
     /\ ready = "true"
     /\ \E outcome \in Outcomes(req, n) :
          /\ Execute(req, outcome)
          /\ requests' = Append(requests, [req EXCEPT !.status = outcome.status])
     /\ UNCHANGED <<initVars, queueVars, suspended, tableVars, session, uncleared>>

RequestWhenFailed(call) ==
  /\ Len(requests) < MaxRequests
  /\ ready = "false"
  /\ requests' = Append(requests, [NewRequest(call) EXCEPT !.status = "rejected"])
  /\ UNCHANGED <<initVars, queueVars, sweepVars, closed, txs, tableVars, session, uncleared>>

RequestWhenInitializing(call) ==
  /\ Len(requests) < MaxRequests
  /\ ready = "undefined"
  /\ requests' = Append(requests, NewRequest(call))
  /\ queue' = Append(queue, Len(requests) + 1)
  /\ UNCHANGED <<initVars, keyFilter, sweepVars, closed, txs, tableVars, session, uncleared>>

StartSweep ==
  /\ sweeping' = TRUE
  /\ txs' = Append(txs, Tx("sweep", {}, 0))

Sweep ==
  /\ Idle
  /\ ready = "true"
  /\ SweepAllowed
  /\ StartSweep
  /\ UNCHANGED <<initVars, queueVars, suspended, closed, tableVars, historyVars>>

SuspendSweeping ==
  /\ Idle
  /\ suspended' = TRUE
  /\ UNCHANGED <<initVars, queueVars, sweeping, closed, txs, tableVars, historyVars>>

\* resumeSweeping() ends with a call of sweep(), whose frequency guard may end it.
ResumeSweeping ==
  /\ Idle
  /\ suspended' = FALSE
  /\ \/ UNCHANGED <<sweeping, txs>>
     \/ ready = "true" /\ ~sweeping /\ ~closed /\ StartSweep
  /\ UNCHANGED <<initVars, queueVars, closed, tableVars, historyVars>>

--------------------------------------------------------------------------------
(* Initialisation                                                          *)

\* A mutant: the service is ready as soon as the adapter is.
AdapterOpensReady ==
  /\ initPhase = "opening"
  /\ initPhase' = "readingKeys"
  /\ ready' = "true"
  /\ txs' = Append(txs, Tx("getKeys", {}, 0))
  /\ UNCHANGED <<queueVars, sweepVars, closed, tableVars, historyVars>>

\* adapter.initialize() resolves; the keys are read.
AdapterOpens ==
  /\ initPhase = "opening"
  /\ initPhase' = "readingKeys"
  /\ txs' = Append(txs, Tx("getKeys", {}, 0))
  /\ UNCHANGED <<ready, queueVars, sweepVars, closed, tableVars, historyVars>>

\* _onAdapterInitialized(false) sets the error state and returns.
AdapterFails ==
  /\ InitMayFail
  /\ initPhase = "opening"
  /\ initPhase' = "failed"
  /\ ready' = "false"
  /\ UNCHANGED <<queueVars, sweepVars, closed, txs, tableVars, historyVars>>

\* A mutant: the test of config.clearOnInit is inverted.
OnAdapterInitializedInverted ==
  /\ initPhase = "keysKnown"
  /\ IF ~ClearOnInit
     THEN initPhase' = "clearing" /\ txs' = Append(txs, Tx("initClear", Keys, 0))
     ELSE initPhase' = "flipping" /\ UNCHANGED txs
  /\ UNCHANGED <<ready, queueVars, sweepVars, closed, tableVars, historyVars>>

\* _onAdapterInitialized(true)
OnAdapterInitialized ==
  /\ initPhase = "keysKnown"
  /\ IF ClearOnInit
     THEN initPhase' = "clearing" /\ txs' = Append(txs, Tx("initClear", Keys, 0))
     ELSE initPhase' = "flipping" /\ UNCHANGED txs
  /\ UNCHANGED <<ready, queueVars, sweepVars, closed, tableVars, historyVars>>

\* A mutant: the switch is flipped but the queue is not run.
FlipReadyOnly ==
  /\ initPhase = "flipping"
  /\ ready' = "true"
  /\ initPhase' = "complete"
  /\ UNCHANGED <<queueVars, sweepVars, closed, txs, tableVars, historyVars>>

\* The switch is flipped, then _executeQueue() runs the queue.
FlipReady ==
  /\ initPhase = "flipping"
  /\ ready' = "true"
  /\ initPhase' = IF queue = <<>> THEN "complete" ELSE "executing"
  /\ UNCHANGED <<queueVars, sweepVars, closed, txs, tableVars, historyVars>>

\* A mutant: the queue is popped from its end.
NewestQueued == [req |-> Last(queue), rest |-> Front(queue)]

NextQueued == [req |-> Head(queue), rest |-> Tail(queue)]

ExecuteQueued ==
  LET n == NextQueued.req
      req == requests[n]
  IN /\ initPhase = "executing"
     /\ \E outcome \in Outcomes(req, n) :
          /\ Execute(req, outcome)
          /\ requests' = [requests EXCEPT ![n].status = outcome.status]
     /\ queue' = NextQueued.rest
     /\ initPhase' = IF Len(queue) = 1 THEN "complete" ELSE "executing"
     /\ UNCHANGED <<ready, keyFilter, suspended, tableVars, session, uncleared>>

--------------------------------------------------------------------------------
(* The transactions of the table.  External: IndexedDB runs them one after *)
(* the other in the order of their creation; what their callbacks do is    *)
(* the adapter's and the service's.                                        *)

\* The first transaction is of one of these kinds, and the scripts are not busy.
First(kinds) == Idle /\ txs # <<>> /\ Head(txs).kind \in kinds
Settle(n, status) == requests' = [requests EXCEPT ![n].status = status]
\* A mutant: the expiry of a removed item stays behind.
EraseValueOnly(keys) ==
  /\ store' = [k \in Keys |-> IF k \in keys THEN Absent ELSE store[k]]
  /\ UNCHANGED expired

Erase(keys) ==
  /\ store' = [k \in Keys |-> IF k \in keys THEN Absent ELSE store[k]]
  /\ expired' = expired \ keys

\* The key filter is made of the keys read, or stays empty when reading fails.
KeysRead ==
  /\ First({"getKeys"})
  /\ txs' = Tail(txs)
  /\ keyFilter' \in {Stored} \cup (IF "getKeys" \in MayAbort THEN {{}} ELSE {})
  /\ initPhase' = "keysKnown"
  /\ UNCHANGED <<ready, queue, sweepVars, closed, tableVars, historyVars>>

\* The clear of clearOnInit is over; its failure is swallowed and the service gets
\* ready over what the table still holds.
InitCleared ==
  /\ First({"initClear"})
  /\ txs' = Tail(txs)
  /\ \/ Erase(Keys) /\ UNCHANGED uncleared
     \/ /\ "initClear" \in MayAbort
        /\ uncleared' = uncleared \cup {session}
        /\ UNCHANGED <<store, expired>>
  /\ initPhase' = "flipping"
  /\ UNCHANGED <<ready, queueVars, sweepVars, closed, committing, requests, session>>

\* Items past their expiry are left out of the answer.
Unexpired(keys) == [k \in Keys |-> IF k \in keys \ expired THEN store[k] ELSE Absent]

GetCompletes ==
  /\ First({"get"})
  /\ txs' = Tail(txs)
  /\ LET tx == Head(txs)
     IN \/ requests' = [requests EXCEPT ![tx.req].status = "resolved",
                                        ![tx.req].result = Unexpired(tx.keys)]
        \/ tx.kind \in MayAbort /\ Settle(tx.req, "rejected")
  /\ UNCHANGED <<initVars, queueVars, sweepVars, closed, tableVars, session, uncleared>>

\* The last onsuccess of setItems or removeItems resolves the promise; with no
\* key there is none.  The transaction has not committed yet.
WriteSucceeds ==
  /\ First({"put", "remove"})
  /\ ~committing
  /\ committing' = TRUE
  /\ IF Head(txs).keys = {} THEN UNCHANGED requests ELSE Settle(Head(txs).req, "resolved")
  /\ UNCHANGED <<initVars, queueVars, sweepVars, closed, txs, store, expired, session, uncleared>>

WriteCommits ==
  /\ First({"put", "remove"})
  /\ committing
  /\ committing' = FALSE
  /\ txs' = Tail(txs)
  /\ LET tx == Head(txs)
     IN /\ requests' = [requests EXCEPT ![tx.req].applied = TRUE]
        /\ IF tx.kind = "remove"
           THEN Erase(tx.keys)
           ELSE /\ store' = [k \in Keys |-> IF k \in tx.keys THEN tx.req ELSE store[k]]
                /\ expired' = expired \ tx.keys
  /\ UNCHANGED <<initVars, queueVars, sweepVars, closed, session, uncleared>>

\* onabort rejects, which does nothing to a promise that is resolved.
WriteAborts ==
  /\ First({"put", "remove"} \cap MayAbort)
  /\ committing' = FALSE
  /\ txs' = Tail(txs)
  /\ IF committing THEN UNCHANGED requests ELSE Settle(Head(txs).req, "rejected")
  /\ UNCHANGED <<initVars, queueVars, sweepVars, closed, store, expired, session, uncleared>>

\* clear() and deleteStorage() resolve when all is gone.
ClearCompletes ==
  /\ First({"clear", "drop"})
  /\ txs' = Tail(txs)
  /\ LET n == Head(txs).req
     IN \/ /\ requests' = [requests EXCEPT ![n].status = "resolved", ![n].applied = TRUE]
           /\ Erase(Keys)
        \/ /\ Head(txs).kind \in MayAbort
           /\ Settle(n, "rejected")
           /\ UNCHANGED <<store, expired>>
  /\ UNCHANGED <<initVars, queueVars, sweepVars, closed, committing, session, uncleared>>

\* What a scan also evicts when space is short: the items that expire first, any
\* of them as items have times to live of their own
EvictedForSpace == IF NearFull THEN SUBSET Stored ELSE {{}}

\* Bound: a scan is not repeated while another waits.
NoScanWaits == \A i \in 2 .. Len(txs) : txs[i].kind \notin {"sweep", "scan"}

\* What a scan leaves may still be too much: then it is followed by another.
Rescans ==
  IF NearFull /\ ~suspended /\ ~closed /\ NoScanWaits
  THEN {<<>>, <<Tx("scan", {}, 0)>>} ELSE {<<>>}

\* The cursor of a scan is exhausted: the removal becomes a new transaction,
\* behind those created meanwhile, and the sweep counts as done.
ScanCompletes ==
  /\ First({"sweep", "scan"})
  /\ \E more \in EvictedForSpace, rescan \in Rescans :
       LET keysToDelete == expired \cup more
       IN txs' = Tail(txs)
                   \o (IF keysToDelete = {} \/ closed THEN <<>>
                       ELSE <<Tx("evict", keysToDelete, 0)>>)
                   \o rescan
  /\ sweeping' = (sweeping /\ Head(txs).kind # "sweep")
  /\ UNCHANGED <<initVars, queueVars, suspended, closed, tableVars, historyVars>>

\* A sweep that fails is over all the same.
ScanAborts ==
  /\ First({"sweep", "scan"} \cap MayAbort)
  /\ txs' = Tail(txs)
  /\ sweeping' = (sweeping /\ Head(txs).kind # "sweep")
  /\ UNCHANGED <<initVars, queueVars, suspended, closed, tableVars, historyVars>>

EvictCompletes ==
  /\ First({"evict"})
  /\ txs' = Tail(txs)
  /\ Erase(Head(txs).keys) \/ ("evict" \in MayAbort /\ UNCHANGED <<store, expired>>)
  /\ UNCHANGED <<initVars, queueVars, sweepVars, closed, committing, historyVars>>

--------------------------------------------------------------------------------
(* Time and the page                                                       *)

Expire(k) ==
  /\ k \in Stored \ expired
  /\ expired' = expired \cup {k}
  /\ UNCHANGED <<initVars, queueVars, sweepVars, closed, txs, committing, store, historyVars>>

\* The page is loaded anew: what has not been committed never happened.
Reload ==
  /\ Idle
  /\ session < MaxReloads
  /\ session' = session + 1
  /\ ready' = "undefined" /\ initPhase' = "opening"
  /\ queue' = <<>> /\ keyFilter' = {}
  /\ sweeping' = FALSE /\ suspended' = FALSE
  /\ closed' = FALSE /\ txs' = <<>> /\ committing' = FALSE
  /\ requests' = [n \in DOMAIN requests |->
                    IF requests[n].status = "pending"
                    THEN [requests[n] EXCEPT !.status = "dropped"] ELSE requests[n]]
  /\ UNCHANGED <<store, expired, uncleared>>

RunTransaction ==
  \/ KeysRead
  \/ InitCleared
  \/ GetCompletes
  \/ WriteSucceeds
  \/ WriteCommits
  \/ WriteAborts
  \/ ClearCompletes
  \/ ScanCompletes
  \/ ScanAborts
  \/ EvictCompletes

Initialize == AdapterOpens \/ AdapterFails \/ OnAdapterInitialized \/ FlipReady \/ ExecuteQueued

Next ==
  \/ \E call \in Calls :
       RequestWhenReady(call) \/ RequestWhenFailed(call) \/ RequestWhenInitializing(call)
  \/ Sweep \/ SuspendSweeping \/ ResumeSweeping
  \/ Initialize
  \/ RunTransaction
  \/ \E k \in Keys : Expire(k)
  \/ Reload

Spec == Init /\ [][Next]_vars

\* The adapter's initialisation ends (it has a timeout of its own), callbacks
\* run and IndexedDB runs its transactions.  Clients need not call anything.
FairSpec == Spec /\ WF_vars(Initialize) /\ WF_vars(RunTransaction)

--------------------------------------------------------------------------------
(* Properties                                                              *)

\* The table gets the requests in the order they were made, across the moment
\* the service becomes ready: none made later overtakes one made earlier.
ServedInOrder ==
  /\ \A i, j \in DOMAIN txs : i < j /\ txs[i].req # 0 /\ txs[j].req # 0 => txs[i].req < txs[j].req
  /\ \A i \in DOMAIN txs, j \in DOMAIN queue : txs[i].req < queue[j]
  /\ \A i, j \in DOMAIN queue : i < j => queue[i] < queue[j]

\* What request n, a read, should find under k: the value of the last write made
\* before it and carried out
LastWrite(n, k) ==
  LET writers == {m \in 1 .. n - 1 :
                    /\ requests[m].applied
                    /\ requests[m].op \in {"set", "remove"} => k \in requests[m].keys}
  IN IF writers = {} THEN Old
     ELSE LET m == Max(writers) IN IF requests[m].op = "set" THEN m ELSE Absent

\* What a read finds under a key is what the last write made before it left
\* there, or nothing (it expired, was evicted, or the key filter hid it): never
\* something older, whatever was queued, swept or reloaded in between.
ReadsAreFresh ==
  \A n \in DOMAIN requests : requests[n].status = "resolved" =>
    \A k \in Keys : requests[n].result[k] \in {Absent, LastWrite(n, k)}

\* With clearOnInit no read finds anything of an earlier session, unless the clear
\* of its own session failed: StorageService.js:245-247 swallows the failure and goes
\* on, and reads then answer from the old items.  A failure does not outlast its
\* session, and nothing of a session comes back once a later one is cleared.
ClearedOnInit ==
  ClearOnInit =>
    \A n \in DOMAIN requests, k \in Keys :
      LET found == requests[n].result[k]
      IN found # Absent /\ requests[n].session \notin uncleared =>
           found # Old /\ requests[found].session = requests[n].session

\* #sweepPromise stands for exactly one scan in flight: sweeps never pile up,
\* and none is refused when no other is running.
OneSweepAtATime ==
  /\ Cardinality({i \in DOMAIN txs : txs[i].kind = "sweep"}) <= 1
  /\ sweeping <=> \E i \in DOMAIN txs : txs[i].kind = "sweep"

\* Every request is settled in the end, unless the page goes away.
EveryRequestSettles ==
  \A n \in 1 .. MaxRequests :
    (n \in DOMAIN requests /\ requests[n].status = "pending") ~>
      (n \in DOMAIN requests /\ requests[n].status # "pending")

\* IndexedDBAdapter.js:526: a sweep evicts expired items.
OnlyExpiredEvicted ==
  [][First({"evict"}) /\ txs' = Tail(txs) =>
       \A k \in Stored : store'[k] = Absent => k \in expired]_vars
================================================================================
