# SF_Analytics_Common in TLA+

TLA+ modules, TLC configurations and TLAPS proofs for the stateful parts of
`src/Common`, the common library of an analytics front end: request throttling,
storage, caches, observables, collections and drag and drop.

Everything in the library runs on the one thread of a page. What makes it hard
is not parallelism but the points where a function yields: an `await`, a
`.then`, a deferred, an IndexedDB event. Between two of them anything may run,
and what was read before may be stale after. The modules make each such
stretch one action and let TLC interleave them freely.

## The system

| Component | State | Operations | What is hard | What makes it correct |
|---|---|---|---|---|
| `async/PermitPool.js` | issued permits, queue of deferreds, id counter | `getPermit`, `release`, `flush` | a woken call resumes later, without looking again; double releases; `flush` awaits | no lost hand-over, FIFO, everybody served, `flush` returns |
| `ajax/FetchAjaxService.js`, `RequestPermitPool.js`, `RoundRobinRequestPermitPool.js`, `filter/*` | two permit pools, the Map of outer permits, filters; Web Locks | `fetchResponse`, `getPermit`, `release`, `flush`, setters | one request waits in a second pool while it holds a slot of the first; ids are reused and name locks shared by tabs | a fetch holds its slots, nothing leaks, ids differ, every request settles |
| `storage/StorageService.js` | ready flag, queue, key filter, sweep promise | `get*`, `set*`, `remove*`, `clear`, `sweep`, `suspend/resumeSweeping`, `deleteStorage` | requests before, during and after initialisation; a sweep is two transactions; reloads and aborts | order of requests kept, reads never stale, every request settles, one sweep at a time |
| `storage/adapters/IndexedDBAdapter.js` | db handle, size guess and error bar, init promise and timer | `initialize`, `getItems`, `setItems`, `removeItems`, `clear`, `sweep`, `deleteStorage` | open / upgrade / time-out races of several adapters; size estimate drives eviction | initialisation ends once, one table per adapter, the size guess recovers |
| `storage/adapters/CryptoAdapter.js` | key, sentinel, inner adapter | as above, encrypting | encryption is asynchronous: writes may overtake each other; the sentinel must survive `clear` | last write wins, wrong key detected |
| `collection/cache/PersistentCache.js` | `Cache` of promises over a storage | `get`, `put`, `getOrPut`, `delete`, `flush` | a late failure handler removes a newer entry; a value computed before a `delete` is stored after it | one computation per key, no failure cached, the last put served |
| `collection/Cache.js` | Map, doubly linked list, size, limit | `put`, `get`, `getOrPut`, `delete`, `shift`, `flush`, `setLimit`, `clone` | pointers kept by removed entries; pruning | behaves as an LRU cache |
| `util/LightningCacheService.coffee`, `util/LocalStorageUtil.js` | results and the queue of their keys; prefix of the current user | add, get and clear results; prefixed keys | keys added twice; the prefix changes with the user | bounded; another user's items stay |
| `async/observable/Observable.js`, `util/usePromise.js`, `hooks/useBackgrounded.js`, `hooks/useDebouncedCallback.js`, `util/CancelablePromise.js`, `util/DeferredUtil.coffee`, `functional/Option*Promise.js` | observers, effects, pending promises | subscribe, merge, unsubscribe, render, cancel, `whenAll`, chains | answers that come late, twice or after they were given up | a merge ends once, the last effect counts, what was given up stays so |
| `interaction/DragAndDropRC.coffee`, `DragAndDropState.coffee`, `DragAndDropStore.js` | drag payload, zones, placeholder, reordered items, registered zones | mouse and keyboard gestures, layout, conversion of payloads | long gestures over several zones, each with a copy of the arrangement | a drop lands where it was shown, a drag that ended leaves nothing behind |
| `collection/graph/*` | linked nodes, graphs worked out and kept | edges and nodes added and removed; components, order, longest path | search on every shape, cycles included | agreement with the definition of each |
| `collection/LinkedMap.js`, `MultiBiMap.js`, `BiMap.js`, `Queue.js`, `EvictingQueue.js`, `Stack.js` | two structures that hold the same | mutators | the two out of step | same contents, order, bounds |
| `util/LayoutUtil.coffee` | none (the caller's layout) | sort, compact, inject, flip | moved items push others | no overlap, no gap, the moved item where it was put |
| `util/ColorUtil.js` | a picker's colour in three spaces and its error | edits of one field, conversions | valid and invalid edits in turn | the fields show one colour or an error |
| `util/ArrayUtils.js`, `util/DataUtil.js`, `functional/BinaryTree.js`, `Option.js`, `Either.js`, `math/*`, `date/*Range*`, `lang/*` | arrays and objects changed in place, trees, class maps | moves, extensions, searches, ranges, enums | index arithmetic; shared references; nulls | agreement with reference definitions |
| the rest (`metadata`, `url`, `network`, mixins, most of `util`) | none, or a cached value | pure helpers, formatting, DOM access | little that a unit test does not reach | not modelled |

Interactions: `FetchAjaxService` awaits permits of a `RequestPermitPool`, which
is made of two `PermitPool`s. `PersistentCache` keeps promises of a
`StorageService` in a `Cache`. `StorageService` drives one adapter, a
`CryptoAdapter` wraps another one, and several adapters share one IndexedDB
database.

## Modules

| Module | Models | Composes |
|---|---|---|
| `SlotHandoff` | what a pool of slots promises (abstract) | |
| `PermitPool` | `PermitPool.js` | refines `SlotHandoff` |
| `FetchAjaxService` | `fetchResponse`, `RequestPermitPool`, `RoundRobinRequestPermitPool`, Web Locks | two instances of `PermitPool` |
| `StorageService` | `StorageService.js` on an `IndexedDBAdapter` | |
| `IndexedDBOpen` | how several adapters open, upgrade, time out on and delete one database | |
| `IndexedDBSize` | the guess of a table's size and the sweeps it starts | |
| `CryptoAdapter` | `CryptoAdapter.js`: key, sentinel, writes that wait for their encryption, reloads | |
| `StorageAdapters` | | the three above, each by itself |
| `LruCache` | a least-recently-used cache (abstract) | |
| `Cache` | `Cache.js` | refines `LruCache` |
| `PersistentCache` | `PersistentCache.js` over a storage that answers late | |
| `ResultCaches` | `LightningCacheService.coffee`, `LocalStorageUtil.js` | |
| `Observables` | `Observable.js` | |
| `Hooks` | `usePromise.js`, `useBackgrounded.js`, `whenAll` | |
| `Promises` | `CancelablePromise.js`, `OptionPromise.js`, `OptionArrayPromise.js`, `useDebouncedCallback.js` | |
| `DragAndDrop` | `DragAndDropRC.coffee` with its parent and the store, mouse and keyboard | |
| `DragLayout` | `DragAndDropState.coffee`: where items lie during a drag | extends `DragAndDrop` |
| `Payloads` | `DragAndDropStore.js`: payloads in both forms, registered zones | |
| `DirectedGraphs` | `collection/graph` | |
| `LinkedMap`, `BiMaps`, `Queues` | the collections of these names | |
| `Selection` | `Array.prototype.filter` and what lodash has like it | used by the modules that have proofs |
| `Library` | | `Cache` and the parts about which there are proofs, each by itself |
| `Layouts`, `Colors`, `Arrays`, `Objects`, `Trees`, `Ranges`, `Enums` | the algorithms on grids, colours, arrays, nested objects, trees and options, ranges of numbers and dates, classes of constants | |
| `PermitPoolProofs`, `FetchAjaxServiceProofs`, `StorageServiceProofs`, `PersistentCacheProofs`, `CacheProofs`, `StorageAdaptersProofs`, `LibraryProofs`, `DragAndDropProofs` | the theorems | extend their module; those of compositions rest on those of their parts |
| `MC*` | the finite instances; `MCLibrary` adds to `Library` the parts without proofs: graphs, grids, colours, arrays, objects, trees, ranges | |

### PermitPool and SlotHandoff

`issuedPermits`, `requestedPermits` and `nextPermitId` are the fields of the
class. Resolving a deferred only schedules the rest of `getPermit`: `woken` is
the queue of those continuations, which JavaScript runs in order but not at
once. `GetPermit` and `QueueRequest` are the two ways through the first half of
`getPermit`; `Resume` is its second half after the `await`. `Release` may be
called again by the same holder, which `RequestPermitPool` does after a flush.
`Flush` and `FlushContinues` are the stretches of `flush` between its awaits.
A flush that awaits a woken call resumes right behind it: `NoFlushResumes`
guards every other action.

`SlotHandoff` is the promise: a call enters freely only while fewer than `Size`
slots are held, otherwise it queues; only a release makes a credit, and only a
credit lets the head of the queue in. It does not promise that at most `Size`
slots are held, because the code does not (`permit_pool_limit`): a call made
between a release and the continuation it woke takes the slot, and the woken
call takes one more. The window is real whenever code runs between the two
microtasks, for instance in the `post` of a request filter or when several
fetches are aborted together.

### FetchAjaxService

`Low` and `High` are instances of `PermitPool` on variables of their own, so
every step of a pool here is a step of the module proved about. `pc` follows a
request: `idle`, `low`, `high`, `permit`, `locking`, `fetching`, `unlocking`,
`settled`. `issued` and `permitId` are the Map `_issuedPermits`, keyed by id: a
`set` or `delete` acts on whoever has the id (`WithoutId`). `NextId` is the
counter, or the first free id of the round-robin pool, or -1. `flushing` marks
the loop of `flush`, which awaits nothing, so no other step comes in between.
Web Locks are external: `LockFree` is their mutual exclusion, `TabLock` and
`TabUnlock` another tab of the origin.

Left out: the conversion of responses and errors, request filters and the
setters. Two behaviours of the code there are known and not modelled:
`fetchResponse` pushes the lock name to `loggingContext.tags` before the block
whose `finally` releases the permit (`FetchAjaxService.js:83`), so a context
without `tags` would leak the slot; and `finally` walks the filters set at that
moment with the contexts made by the earlier ones (`:134`), so
`setRequestFilters` must not be called while requests run. `flush` of either
pool may return with requests still queued (`PermitPool.js:59`,
`RequestPermitPool.js:57`), although its comment says it flushes all pending
requests.

Also known: after a flush, the second release of a permit deletes whoever has
its reissued id (`RequestPermitPool.js:44`), so that with round-robin ids the
id is free while its owner still fetches, and two permits may share an id and
its lock. The run begins with a choice between behaviours with flushes and
without: nothing leaks and nobody hangs in either; that a fetch holds its slots
and that ids differ is stated of those without. When the inner pool
over-issues, no id is free and a permit gets the id -1, as in the code;
`NoIdOnlyBeyondLimit` says that this is the only way to it.

### StorageService

The table is `store`, a function from keys to the number of the request that
wrote the value, so that a stale read is visible. `txs` is the list of
transactions created and not finished; IndexedDB runs read-write transactions
on a table in the order of their creation, which is the external assumption of
the module. `queue`, `ready`, `keyFilter`, `sweeping` and `suspended` are the
fields of the service; `initPhase` follows the promise chain of the
constructor. `requests` is a history variable that records what every call was
answered. `WriteSucceeds` is the last `onsuccess`, which resolves the promise,
`WriteCommits` the commit after it; a reload or an abort may come in between.
A sweep is a scan (`ScanCompletes`) that creates a second transaction
(`EvictCompletes`) and, while too much is left, another scan (`Rescans`; bound:
none is repeated while another waits). `Reload` loses everything but the table.
The clear of `clearOnInit` may abort: the code swallows that
(`StorageService.js:245`) and the service gets ready over the old items.
`uncleared` records the sessions to which this happened; `ClearedOnInit` is
about the reads of all others.

Abstractions: one key prefix; an item is expired or not (`Expire`), the ten
seconds of grace being part of that; the size arithmetic and the sweep
intervals are replaced by both outcomes (`SweepChoices`, `ScanChoices`,
`EvictedForSpace`); `getSize`, logging and serialisation are left out. Known
and not modelled as runs: an empty key list makes `removeAll` and `setAll`
never settle (`IndexedDBAdapter.js:381`, `:435`) and `getAll` answer with
nothing although its comment promises everything (`StorageService.js:367`,
`:342`); the key filter is filled once and `setAll` does not add to it, so a key
first set in this session reads as undefined when the filter is on
(`StorageService.js:365`), although the comment at `:73` compares it with a
bloom filter; `setAll` resolves before its transaction has committed
(`IndexedDBAdapter.js:384`).

### Cache and LruCache

`cache` is one record: the Map, the list (`head`, `tail`, `older`, `newer`),
size, limit and values. Removed entries keep their pointers, as in the code, so
the module checks that re-linking never follows a stale one. `LruCache` knows
only the order of use.

### PersistentCache

A promise is named by the number of the call that made it, and so is the value
that call puts or computes; `cache` maps a key to such a number. `calls` records
for every call how far its promise is: `reading` and `storing` wait for the
storage, `chained` for the promise it was chained on (`source`), `computing`
for `getValue()`, `failing` for its `catch`. `cleanups` holds the `catch`
handlers of `get` and `put` that are scheduled. A handler is an action of its
own because other calls may come before it. `era`, a history variable, counts
how often a key was forgotten, so that the properties can say "unless it was
deleted in between". The storage is external: it serves operations in the
order they were submitted, which `ServedInOrder` shows of `StorageService`, or
fails them.

Left out: the eviction of the oldest of 1000 promises (module `Cache`), a get
that only moves an entry, and the options that are handed on to the storage.
Known: a value whose computation began before a `delete` or a `put` is still
stored after it (`PersistentCache.js:112`), so memory and storage then differ.
`LastPutServed` speaks of the answers within one page, where memory comes
first.

### IndexedDBOpen

All stores of one name share a database and have one table each in it. `version`
and `tables` are the database, `requests` the open and delete requests in the
order in which the browser runs them, `conn`, `ready` and `timer` the fields of
each adapter, `events` what its handlers have yet to take. An adapter that misses
its table closes its connection and queues a request for the next version in one
step (`_createTables`). A request for another version needs all connections
closed: the others are told (`notified`) and close theirs. The browser may lose
an answer (`lost`), fail a request or delete the database.

Known: after `deleteStorage` the versions begin anew, so that with five adapters
one may ask for a version that another has passed; `NoVersionError` and
`NoUselessUpgrade` are stated of databases that were not deleted.

### IndexedDBSize

Items are numbers in the order of their expiry, the order of the index that a
sweep walks. `guess`, `bar`, `age` and `avg` are the estimate of the size, its
error bar, how many updates ago it was exact and the average size of an item.
`txs` are the transactions under way; a scan that finds the table above the mark
creates the removal, and behind it the next scan when what it keeps is still above
(`_expireCache`). The last `onsuccess` of a put or of a removal changes the estimate
(`PutSucceeds`, `RemoveSucceeds`); the transaction commits after that
(`committing`, `PutCommits`, `RemoveCommits`) or aborts. `Fails` is every failure: before
the success or after it, of a call or of a removal that a sweep made, whose promise
nobody reads (`IndexedDBAdapter.js:689`). The estimate stays as it is then.

`swept` and `misled` record what happened, not how it went. `swept`: a scan ran to
its end with sweeping enabled, and since then nothing was written and no scan or
removal failed. `misled`: since the guess was last set, `clear` was called with
transactions under way, or a removal or a clear failed. A put that was answered and
aborted does not count as either: its error bar covers it.

Known: a removal that aborts after its scan, or a `clear` that aborts, leaves a guess
that passes for exact and is too low, until the next walk. `clear`
sets the size at once (`IndexedDBAdapter.js:484`), and a walk or scan in flight sets the old one again, which counts as fresh; `setItems` in a
burst near the mark starts a scan each from one stale guess, which together evict
more than needed; the guess can become negative, as a sweep counts what it keeps
and the removal of the rest is subtracted again.

### CryptoAdapter

`keyPromise` is the static promise of the key, `inner` the adapter below,
`calls[1]` the `initialize` of this session with its stages: it waits for key and
adapter, reads the sentinel, checks it, perhaps clears, and encrypts it again. A
cipher is the pair of value and key; decrypting with the wrong key fails or gives
garbage. An encryption may fail (`EncryptionFails`), which rejects its call.

`WriteSucceeds` is the last `onsuccess` of a put or of a removal, which answers the
call; `WriteCommits` is the commit after it, and `AbortsAnswered` an abort that comes
instead: the promise was resolved already, and what was in the table stays. Meanwhile
(`committing`) other calls may be made and encrypted. `latest` is history: the values
that the writes of an item which nothing has superseded may leave there. A write that
fails, or aborts after its answer, gives back what it superseded (`before`), so
`AnsweredWritesStay` says that an answered write stays unless its transaction aborts
after the answer (then what it superseded stays) or the item is evicted. `Found` is
what a read made now will find: the answered write, before it has committed.

Known: `initialize` called before `setKey` reads an undefined promise and fails
for good (`CryptoAdapter.js:133`), although the comment at `:14` says the adapter
stays initialising until it gets a key. Two overlapping writes of one item may
take effect in the opposite order, as each waits for its own encryption;
`AnsweredWritesStay` speaks of writes that do not overlap.

### ResultCaches

`cachedResults` and `resultQueue` of `LightningCacheService`, and local storage
as a set of prefixed keys. Known: a key added twice is queued twice, so the queue
evicts a result that was just added, and a result that is falsy counts as
missing. `clearStorageForCurrentPrefix` applies the prefix to keys that have it
already, so it removes nothing, and the set of keys is never emptied
(`LocalStorageUtil.js:61-69`).

### Observables, Hooks, Promises

`Observables` is one subscription to a merge of sources of five kinds, some of
which return what unsubscribes them late; `events` is what the subscriber saw.
Known: a value that is awaited is delivered after the subscriber has unsubscribed
(`Observable.js:33`); an asynchronous `perform` that is rejected leaves the merge
incomplete.

`Hooks` has a component whose effect runs after its rendering, so that the old
state shows in between; an effect whose dependencies have changed, or whose
component is gone, is not `alive`, and its promise must not set the state.
That the observer of `useBackgrounded` also reports once when it is attached is left
out: where tab and DOM agree, it tells what the state is already. The hook takes the
last of two kinds of event although its comment says it considers both, so
`BackgroundedWhenBothAgree` speaks of states where tab and DOM agree. `whenAll` settles with the last of its deferreds, at once if there is
none; one rejected with a falsy reason resolves it.

`Promises` gives chains of `OptionPromise` by their outcome: resolved, or
rejected with an error or one of the two symbols for nothing and filtered. What
a caller's function returns is a parameter. Of `useDebouncedCallback` a rendering only
makes another function (`ChangeCallback`) or takes the component away (`Unmount`);
the clean-up that cancels the function before runs later, with the effects
(`RunEffects`), and the timer may fire in between. `inEffect` is the function whose
clean-up is still to come, `recalled` (history) the functions somebody kept and called
after theirs. So a call that waits when its clean-up runs never comes, but until then
a call of the old function, or of a component that is gone, may come, and afterwards
if the old function is called again: the hook does not prevent either.

### DragAndDrop, DragLayout, Payloads

`zone[z]` is the state of each zone component, `told` the arrangement its parent
keeps by the payloads of `onDrop`, and `mode` what the parent does then: render its
zones again with their new items ("controlled"), render them while they keep the order
they worked out themselves ("skip", the prop `skipUpdateOnNewProps`), or not render
them at all ("own": there only the keyboard is modelled, without deletion). `pointer`
is the mouse session: where it entered, which zone the browser has yet to send
`dragleave`, whether the last zone accepted. An item can be deleted by its key when
nothing is dragged (`DeleteItem`) and while one is picked by keyboard, which then is
the one with the focus (`DeletePicked`, `pickGone`). During a drag by the mouse no key
arrives: the HTML standard has user agents withhold input events then. `DragLayout`
works out the positions while a placeholder is shown.

Known: only the `dragend` of the element a drag began on clears the store
(run `drag_controlled`); the first zone entered is assumed to be the source;
after the picked item was deleted its position stays picked and the payload names the
place of another item (`DragAndDropRC.coffee:436`), so the next arrow or space acts on
the neighbour: modelled is only the cancel (`CancelGone`), after which zones and
parent still agree; in the state "from other zone" a placeholder of -1 shifts every
item, so `NothingOverlaps` speaks of placeholders that are shown; a zone renamed
without remounting stays registered under its old name.

### Collections and graphs

`DirectedGraphs` keeps nodes, edges in both directions in order of insertion, and
the graphs worked out until the next change. The definitions by which the
analysis is judged (components, topological order, longest path, chains,
descendants) are written without search. Known: the search starts at roots only,
so a cycle that no root reaches passes as acyclic, and `getLongestPath` keeps a
stale parent or throws for such graphs; the properties name these cases.
`LinkedMap`, `BiMaps` and `Queues` each keep two structures or number what is
added, so that contents and order can be compared; `removeMatching` is the loop of
the code, described by what it has after n of its turns. Known: `eachValue` and
`eachKey` stop on any falsy return; `EvictingQueue` of size 0 is unbounded;
`Stack.peek(0)` gives everything; `MultiBiMap.hasFrom` stays true when all pairs
of a key were removed; `LinkedMap` has no `copy` here.

### Algorithms

`Layouts`: the grid algorithms act on sets of items sorted before use. Known:
`_injectItem` compares with the columns from before the move. `Colors`: fractions
are exact where the code rounds floating-point numbers. Known: after an invalid
hex, an earlier error of a channel stays shown though the field is blank
(`ColorUtil.js:327-339`). `Arrays` and `Objects`: indices from 0, objects as
references into a heap. Known: `deepExtend` takes over nested objects of its
source by reference, and extends them later, although they are typed
`$ReadOnly`. `Trees`: a match whose branch gives null throws, so a null in an
`Option` or `Either` cannot be got out. `Ranges`: an exclusive range restricts a
value to the bound it excludes. `Enums`: `add` writes the map before it defines
the property, which may throw, and duplicate codes shadow earlier ones silently.

## Runs

| Run | Instance | Checks |
|---|---|---|
| `permit_pool` | 4 calls, 2 flushes, 2 slots | `TypeOK`, `NoLostWakeup`, `ImplementsHandoff`, `EveryWaiterGranted`, `FlushReturns` |
| `permit_pool_limit` | 3 calls that release once, 1 slot, no flush | `SlotLimit` is violated |
| `fetch` | 4 requests, 2 of them eligible for high concurrency, pools of 1 and 2, one contended lock; with flushes (of 3 requests) and without | `TypeOK`, `FetchHoldsItsSlots`, `NothingLeaks`, `OutstandingIdsDistinct`, `NoIdOnlyBeyondLimit`, `EveryRequestSettles` |
| `storage_order` | 3 calls on 2 keys, aborts, failing initialisation | `TypeOK`, `ServedInOrder`, `ReadsAreFresh`, `OneSweepAtATime` |
| `storage_live` | 2 calls of every kind on 1 key, a reload, aborts (of the clear on initialisation too), a store near its limit | `ClearedOnInit`, `EveryRequestSettles` |
| `storage_initfail` | 1 get, initialisation may fail | `EveryRequestSettles` is violated |
| `storage_evict` | 1 set against a sweep | `OnlyExpiredEvicted` is violated |
| `cache_limit` | 3 keys, limit 2 lowered to 1 | `LimitKept` is violated |
| `persistent_cache` | 4 calls of every kind on 1 key, a storage and computations that may fail | `TypeOK`, `OneComputation`, `FailuresNotCached`, `LastPutServed`, `EveryCallSettles` |
| `adapters` | opening: 3 adapters with 3 tables, lost answers, failures, a deletion; size: 2 items of size 4 or 6, a table of 10, 3 calls; encryption: 1 item, 2 values, 2 keys, 2 calls, 1 reload | `TypesHold`, `OpeningIsSafe`, `EstimateIsSound`, `OneKeyInTable`, `AnsweredWritesStay`, `OneOutcome`, `EverythingSettles` |
| `library` | 19 parts, each by itself, as instantiated in `MCLibrary` | `StructuresSound`, `GraphAnalysisIsRight`, `ColorsAgree`, `DataCombined`, `LateResultsAreRight`, `DropsLandWhereShown`, `StateCleared`, `NothingOverlaps`, `ImplementsLru`, `OthersKept`, `SourcesStop` |
| `drag_controlled` | 2 zones, 4 items, 2 gestures, a parent that renders its zones again | `StateCleared` is violated |

Deadlock is not checked where calls are bounded: when all have been made and
answered the system rests.

In `adapters` and `library` the variable `part` is chosen at the start, only the
module it names moves, and the others stay in one initial state: the state space
is the sum of the parts and not their product. A property of these runs is the
conjunction of what the modules state of the same question; `StorageAdapters`,
`Library` and `MCLibrary` say which. `cache_limit` runs on `Cache` itself.

Why the bounds are enough. A hand-over involves one releaser, one woken call
and one barging call; a fourth call gives a queue of two behind them, and two
flushes meet in each other's awaits. Two slots tell "a slot" from "the slot".
For the service, an anomaly needs a write, a sweep or reload that interferes,
and a read; a third call adds one made before the switch to ready and one
after. In `PersistentCache` keys do not interact (`flush` acts on each as
`delete` does), so one is enough; four calls give a chain of two on a third
call and one more that deletes or retries meanwhile. Of three adapters one wins
the race for a version, one loses it and one opens while both wait. Two items
pass the mark together and not alone. Two writes of one item overlap or follow
one another, and a reload brings the other key. Three keys at a limit of two
give every position in the list of `Cache`. Four nodes with the seven edges of
`MCLibrary` contain a diamond, a cycle of two, a loop and an unreachable cycle.
Three gestures move an item out of a zone, back, and within it.

What the violated runs show. `permit_pool_limit`: more permits than slots,
against `PermitPool.js:15`; `ReleaseOnceSpec` leaves out the second release of a
permit, so the call that barges in is what the run shows. `storage_initfail`: requests queued before the
initialisation fails are never settled, against `StorageService.js:273`.
`storage_evict`: a sweep removes a value written after its scan, against
`IndexedDBAdapter.js:526`. `cache_limit`: `setLimit` leaves one entry too many,
and then the cache grows without limit, against `Cache.js:117`.
`drag_controlled`: a parent that renders its zones again in `onDrop` removes the
element whose `dragend` would have cleared the drag, against
`DragAndDropRC.coffee:657`.

Not a run, but known: of two `getOrPut` calls that share one failing
computation, the second deletes the key after the first one's caller has
retried, and the next call computes again instead of sharing the retry
(`PersistentCache.js:84`, `:117`). `OneComputation` counts such a deletion as
the begin of an era.

## Fairness

`PermitPool`: the engine runs scheduled continuations, and a holder releases
its permit once (the `finally` of `_fetchResponse`); nobody is obliged to call
anything. `FetchAjaxService`: in addition a started fetch ends, the other tab
leaves each lock it takes, and a lock request is served in its turn; Web Locks
are granted in order of request, which weak fairness would not give as the lock
is not continuously free, so `GotLock` is strongly fair. `StorageService`:
initialisation ends (the adapter has a timer for that), and IndexedDB runs its
transactions. `PersistentCache`: scheduled handlers run, `getValue()` settles
and the storage answers; nobody is obliged to call anything. `IndexedDBOpen`:
the browser runs its requests and each adapter takes its events; time-outs are
fair only under `TimersFire`, so that `OpensWithoutTimer` shows that nobody
needs one unless an answer was lost, and `EveryInitSettles` that it then helps.
`IndexedDBSize` and `CryptoAdapter`: transactions run or fail, the key import and the
encryptions end, well or not. `SweepsEnd` lets the table come to rest or
transactions fail for ever, as a sweep whose removal fails each time begins anew. `Observables`: promised values and functions come
(`Promised`); a subscriber need not unsubscribe and a stream need not complete.

## Proofs

`PermitPoolProofs` proves, for any number of slots, calls and flushes,

* `PermitPoolTypeOK`: `Spec => []TypeOK`;
* `PermitPoolNoLostWakeup`: `Spec => []NoLostWakeup`;
* `PermitPoolImplementsHandoff`: `Spec => Handoff!Spec`;
* `PermitPoolOwners`: while nobody flushes, each id that is out belongs to one
  call, which has not given it back.

The assumptions are those of the module: at least one slot, and call names that
differ from the two states of a flush. `NoLostWakeup` counts the Map and is not
inductive by itself: that a delete of one id makes the count smaller by at most
one, and that issuing makes it larger by exactly one, needs that the Map is
finite and that the next id is not in it. `IInv` adds both (`IssuedBelowNext`).
A release removes at most one id and, when somebody is queued, wakes one: the
sum of issued and woken does not fall. The refinement maps the queue to the
woken calls followed by the queued ones, the credits to the number of woken
calls and the held slots to the number of ids; each action is one lemma or case
of `HandoffStep`.

`FetchAjaxServiceProofs` proves `TypeOK`, `FetchHoldsItsSlots`, `NothingLeaks`,
`OutstandingIdsDistinct` and `NoIdOnlyBeyondLimit` for any number of requests
and slots, with locks or without, flushed or not. Every step of the service is a
step, or a stutter, of either inner pool, so the theorems about `PermitPool` are
cited of its two instances (`LowIsPermitPool`, `HighIsPermitPool` bridge their
names). `IInv` joins the owners of both pools, the types of the outer pool,
which pools a request holds at each stage (`StageFits`) and that the outer Map
has just the requests that hold a permit, each under its own id (`MapIsSound`).
That the least free number is free needs the well-foundedness of the naturals
(`MinOfNaturals`). For `NoIdOnlyBeyondLimit` the owners of the ids and the request
that finds none free are mapped one to one to the slots they hold of the last
pool (`NoIdMeansOverIssue`): there are more of them than it has slots.

`StorageServiceProofs` proves `TypeOK`, `ServedInOrder`, `ReadsAreFresh` and
`OneSweepAtATime` for any keys and calls and any number of requests and reloads,
and `ClearedOnInit`, a failing clear of the initialisation included. `IInv` says
where the initialisation is and so what may wait for the table and for the
service (`Phases`), that what waits is of this session and for what its request
asked (`Belong`), and that all of it was made after every request that was
carried out (`AnsweredFirst`). The first transaction is then the earliest of the
requests that are left, so what it writes is the last write so far and touches
no earlier answer, and what it reads is what that write left (`Fresh`).
`LastWriteKept` and `Named` are the facts about the history that
every action uses: the last write before a request depends on nothing made later,
and names a request that exists. That the maximum of a set of request numbers is
one of them needs the well-foundedness of the naturals (`MaxOfNumbers`).

`PersistentCacheProofs` proves the four safety properties of the module for any
set of keys and calls. `IInv` says: what is cached is a call of the present era
(`CachedIsCurrent`), and the latest of it (`LatestIsCached`); a call that comes
after another of its era puts, or waits for one that is no older than the other
(`LaterCallsWait`); a chain computes only when what it waited for gave nothing
(`StagesFit`); a put waits for nothing but the set of its value
(`OperationsFit`). `LastPutServed` then follows along the chain of a call, one
link per step; two computations of one era would need a `getOrPut` or a put that
gave nothing between them.

`CacheProofs` proves, for any keys, values and limits and operations in any order,

* `TypesHold` and `ListStaysSound`: `Spec => []TypeOK` and `Spec => []ListIsSound`;
* `CacheIsLru`: `Spec /\ [][NeverBelow]_vars => ImplementsLru`, the refinement of
  `LruCache`, and `LimitStaysKept` under the same hypothesis;
* `LimitMissedByOne`: a limit set below the size always leaves one entry too many.

`IInv` says that some sequence of keys without repetition describes all of the
cache (`HasList`): the Map holds just its keys, its ends are head and tail, its
neighbours are the pointers along `newer` and along `older`, its length is the
size. Each helper of the code is one lemma about this sequence: `_remove` takes a
key out, `_insert` appends one, so that entries that were removed may keep their
old pointers. That the walk along the pointers is that sequence (`ChainIsList`)
makes the refinement a matter of sequences. `NeverBelow` is a hypothesis on the
caller, not on the code: no limit is set below the number of entries. Without it
neither the refinement nor the limit holds, which `cache_limit` shows by one
behaviour and `LimitMissedByOne` of all: the loop of `setLimit`
(`Cache.js:123`) runs once too few.

`StorageAdaptersProofs` proves, of `SafeSpec`, `AdaptersOpenSafely`,
`AdaptersEstimateIsSound`, `AdaptersOneKeyInTable`, `AdaptersAnsweredWritesStay` and
`AdaptersTypesHold`, and of `IndexedDBOpen` alone that the first outcome stays
(`IndexedDBOpenOneOutcome`). A step of the three adapters together is a step of one
and a stutter of the others (`EachIsOne`).

* Opening, for any number of adapters and tables, shared or not: `NoVersionError`
  rests on `OneAttempt` (an adapter waits for one answer at most, and not once it is
  ready) and `VersionsInOrder` (each request asks for the version there is or the
  next, for the next only if its table is missing, and none is queued before one
  that asks for less); `NoUselessUpgrade` counts the tables and needs that they are
  finitely many.
* Size, for any finite set of items, sizes above zero, any mark and any number of
  calls: that a sweep brings the table below the mark is not inductive, as it ends
  with a removal. `SweptOrDoomed` says it of the table without what removals under
  way will take; unless the code was misled, a fresh guess is right, or the table is
  about to be cleared, or a removal that was counted is under way; any
  success makes it older (`GuessMeans`). The sums over tables are
  folds over finite sets: what a put adds to them and a removal takes from them are
  lemmas (`Sum`).
* Encryption, for any set of items, values and keys, any number of calls and of page
  loads, under `CryptoAssumption`: the sentinel is no item, and neither it nor a
  cipher looks like nothing. `CryptoInv` has three phases. Before `initialize()`
  nothing is known. While it is under way there is one call, at a stage with the one
  transaction it waits for (`OwnTxs`); all ciphers in the table have one key at any
  time, so a sentinel that decrypts shows that this key is it, and a clear leaves
  none of another. Once it has resolved, each transaction belongs to a call of its
  own that waits for it (`TxsFit`), except the first one when it was answered and has
  to commit (`HeadCommits`; `Pending` are the others). For each item `WritesKept` says
  that what the next read finds was not superseded, or was superseded by a write that
  is still due and may give it back (`Left`), and that what is in the table below an
  answered write is what that write gives back if it aborts.

`LibraryProofs` proves three properties of the run `library`, each the conjunction of
what its parts promise, for every value of the constants: `StructuresStaySound`,
`LateResultsStayRight` and `OthersStayKept`. A step of `Library` is a step or a
stutter of each part, and each part has an inductive invariant of its own:

* `Cache`: that of `CacheProofs`. `LinkedMap` (`MapIInv`): the array has each key
  once, and the object holds just its entries.
* `BiMap` and `MultiBiMap` (`PairsIInv`): both sides have the same value for the
  same pair. `removeTo` and `removeFrom` are folds over the finite other side; that
  they empty one row of one side and one column of the other is shown along the set
  that is folded over.
* Queues and stacks (`QueuesIInv`): what is kept is in the order in which it was
  added and not more than the capacity. The loop of `removeMatching` takes out what
  matches while its index runs on; that it keeps just what does not match follows
  from what it has left after n of its turns.
* `LightningCacheService` (`AnswersIInv`): each result that is kept has its key in
  the queue. Local storage: no step touches what is of another prefix.
* `Codeable` (`NamedIInv`): names, ordinals and codes agree unless an `add` threw.
  `DragAndDropStore` (`HeldIInv`): the store knows just the mounted zones.
* `Observable` (`MergeIInv`): "complete" is the last event and comes only when all
  sources are complete; what is unsubscribed late is unsubscribed once.
* `usePromise` (`PromiseIInv`): the one effect that was not cleaned up is the last.
  `useBackgrounded` (`PageIInv`): the state is what one of the two sources told
  last. `whenAll` (`AllIInv`): its counter is the number of the deferreds left, its
  error that of the first rejection.
* `useDebouncedCallback` (`PromisedIInv`): only the current function waits to be
  called, or the one whose clean-up is to come, or one called after its clean-up. The algebra of `OptionPromise` and `OptionArrayPromise` holds of every
  array of promised elements.

Assumed is that `None`, which stands for undefined, is none of the things that are
kept, that the sides of a map, the sources and the deferreds are finite and that
capacities are at least one. `Selected` (module `Selection`) is a recursive
function: what the modules need of it (it keeps just the elements that are in the
set, in their order) is proved of its values one after another, by a least index
at which it would fail, as the induction theorems of the library cannot be
instantiated. `LibrarySpec` is the specification of the run with the parts that
`MCLibrary` adds left out.

`DragAndDropProofs` proves two more properties of that run, `StateCleared`
(`DragsEndClean`) and `DropsLandWhereShown` (`DropsLand`), for any zones, neighbours
and items and any number of gestures, provided that no parent is controlled. The
hypothesis is needed. `drag_controlled` shows what becomes of `StateCleared` without
it. `DropsLandWhereShown` fails then as well: the `dropped` that was never reset makes
a later drag that is given up remove its item from its zone. Assumed are the
`ZonesAssumption`, that every item is in one place at the start, and the
`NeighborsAssumption`, that no zone is its own neighbour.

Neither property is inductive: whether a drop lands in the right place depends on what
the zones and the parent had before it, and whether it leaves nothing behind on what
the pointer still owes. `DragIInv` has an answer for each time of a gesture:

* always, no item is in two places of the parent's arrangement, and what a zone that
  is cancelled goes back to is what the parent was told (`Kept`);
* without a drag by the pointer, the store is clear and the zones are too (`NoDrag`),
  and they show what the parent has, except for the one item the keyboard carries: it
  is active in one zone and missing where it was picked (`Carried`), so a drop by keys
  tells the parent where it is and an escape puts it back;
* while the pointer drags, nothing has moved (`Still`). The counter of a zone is the
  number of `dragenter` less `dragleave`, one if the pointer is inside and one if the
  zone is still to be left (`UnderwayIn`), and in the zone that accepted last the
  payload says where the placeholder is (`TellsTruth`);
* when the picked item was deleted (`GoneIInv`), the zones show what the parent has, and
  of the gesture only the payload and the active position of one zone are left;
* after the drop, the zone it was dropped in is as the parent has it; the source is
  too, or still has what its `dragend` will remove (`LandedInOther`).

What a gesture does to lists is stated once, without zones: an item taken out and put
in again, or moved within a list, leaves the others in their order, an item put in a
list in which it is not is in it once, and what the zones make of a drop, one taking
out and one putting in, is what the parent makes of it in one go.

Only model-checked: everything about liveness (the provers do not handle fairness
here); `ImplementsLru` of the limits that `library` sets, which the theorem has
instead under `NeverBelow`; `NothingOverlaps`, about the positions during a drag,
which are sums over the items before; `GraphAnalysisIsRight`, `ColorsAgree` and
`DataCombined`, about recursive algorithms: what a recursion computes for every
input is out of the provers' reach, and `RECURSIVE` operators shut out the
arithmetic one.

## Not modelled

* `ajax/FetchAjaxService.js`: filters, conversions and setters (above). The other
  files of `ajax`, `api/network`, `mixins`, `StorageServiceLogger`: no state, or one
  call handed on.
* `storage/adapters/StorageAdapter.js` is the same text as `StorageService.js`, and
  `useBackgrounded.js` the same as `hooks/useBackgrounded.js`: modelled once.
* `StorageService`: `getSize`, reads that include expired items, serialisation.
  `IndexedDBAdapter`: `getOverhead` and the isolation key. `CryptoAdapter`:
  `getSize`, `getOverhead` and `walk`.
* `Cache.clone` and `keys`, copies of graphs, methods that only iterate.
* `FullScreenUtil`: the dialects of browsers. (`:110` and `:134` ask for
  `msFullScreenEnabled`, `:34` for another spelling.)
* `State`, `OptionSet` and the extractors of `CaseClass`; enums whose subclasses
  share the map of their parent.
* Drag and drop: keys other than the cancelling ones after the picked item was deleted.
* What a relative date resolves to and the labels of grains, which format. (The
  label of the fiscal `WEEK` is missing and throws.)
* `OAuthProxyUtil`, `Cookies`, `StringUtil`, `UrlUtil`, `SortUtil`, `TableUtil`,
  `DataCategoryFilterUtils`, number formats, metadata: pure conversions and
  formatting, which unit tests reach, or access to the DOM.

## Plan

1. The refinement of the adapter as `StorageService` uses it by `CryptoAdapter`
   over `IndexedDBAdapter`: the same promise of order, less what encryption
   reorders.
2. `Cache.clone`.
3. Wrapping rows and focus in drag and drop.
