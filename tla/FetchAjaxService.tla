--------------------------- MODULE FetchAjaxService ----------------------------
(***************************************************************************)
(* src/Common/src/ajax: FetchAjaxService.fetchResponse throttled by a      *)
(* RequestPermitPool (or its RoundRobinRequestPermitPool variant, whose    *)
(* permit ids also name Web Locks shared by the tabs of the origin).       *)
(*                                                                         *)
(* A RequestPermitPool is made of two PermitPools, instantiated here as    *)
(* Low and High.  One request takes a permit of the low pool, of the high  *)
(* pool, or of the low and then the high one, and wraps what it took in a  *)
(* permit of its own.  Between two awaits anything may run: the steps of   *)
(* different requests interleave freely.                                   *)
(***************************************************************************)
EXTENDS Integers, Sequences, FiniteSets, FiniteSetsExt

CONSTANTS
  Requests,        \* the calls of fetchResponse()
  Eligible,        \* those with options.isHighConcurrencyEligible
  HasPermission,   \* Permission.has(ORG_HAS_HIGH_UI_REQUEST_CONCURRENCY)
  LowSize,         \* lowConcurrencySize
  HighSize,        \* highConcurrencySize
  LockBased,       \* _useLockBasedRateLimiting
  TabLocks,        \* the fetch locks another tab of the origin may hold
  FlushedRequests  \* bound: where somebody calls flush(), the requests made

ASSUME RequestsAssumption == Requests \cap {"idle", "done"} = {}
ASSUME SizesAssumption == LowSize \in Nat \ {0} /\ HighSize \in Nat \ {0}
ASSUME OptionsAssumption == {Eligible, FlushedRequests} \subseteq SUBSET Requests
ASSUME FlagsAssumption == {HasPermission, LockBased} \subseteq BOOLEAN

VARIABLES
  lowIssued, lowRequested, lowNextId, lowWoken, lowPhase, lowPermitId,
  highIssued, highRequested, highNextId, highWoken, highPhase, highPermitId,
  pc,            \* how far each call of fetchResponse() is
  issued,        \* RequestPermitPool._issuedPermits: the requests whose permit it holds
  permitId,      \* the id of each request's permit
  nextPermitId,  \* RequestPermitPool._nextPermitId
  flushing,      \* "yes": the loop of flush() is releasing the permits of `issued';
                 \* "never": nobody calls flush()
  tabLocked      \* the lock names held by the other tab

lowVars == <<lowIssued, lowRequested, lowNextId, lowWoken, lowPhase, lowPermitId>>
highVars == <<highIssued, highRequested, highNextId, highWoken, highPhase, highPermitId>>
poolVars == <<issued, permitId, nextPermitId>>
vars == <<lowVars, highVars, pc, poolVars, flushing, tabLocked>>

\* _lowConcurrencyPermitPool and _combinedPermitPool.  Nobody flushes them.
Low == INSTANCE PermitPool WITH
  Flushes <- {}, flush <- <<>>, Size <- LowSize,
  issuedPermits <- lowIssued, requestedPermits <- lowRequested,
  nextPermitId <- lowNextId, woken <- lowWoken, phase <- lowPhase, permitId <- lowPermitId

High == INSTANCE PermitPool WITH
  Flushes <- {}, flush <- <<>>, Size <- HighSize,
  issuedPermits <- highIssued, requestedPermits <- highRequested,
  nextPermitId <- highNextId, woken <- highWoken, phase <- highPhase, permitId <- highPermitId

--------------------------------------------------------------------------------

\* idle -> [low] -> [high] -> permit -> [locking] -> fetching -> [unlocking] -> settled
Stages == {"idle", "low", "high", "permit", "locking", "fetching", "unlocking", "settled"}

\* Stages at which the request owns a permit it has not given back.
Owning == {"permit", "locking", "fetching"}

PermitIds == IF LockBased THEN -1 .. Max({LowSize, HighSize}) - 1 ELSE Nat

TypeOK ==
  /\ Low!TypeOK
  /\ High!TypeOK
  /\ pc \in [Requests -> Stages]
  /\ issued \in SUBSET Requests
  /\ permitId \in [Requests -> PermitIds]
  /\ nextPermitId \in Nat
  /\ flushing \in {"never", "no", "yes"}
  /\ tabLocked \in SUBSET TabLocks

Init ==
  /\ Low!Init
  /\ High!Init
  /\ pc = [r \in Requests |-> "idle"]
  /\ issued = {}
  /\ permitId = [r \in Requests |-> 0]
  /\ nextPermitId = 0
  /\ flushing \in {"never", "no"}
  /\ tabLocked = {}

At(r, stage) == pc[r] = stage /\ flushing # "yes"
GoTo(r, stage) == pc' = [pc EXCEPT ![r] = stage]

--------------------------------------------------------------------------------
(* RequestPermitPool.getPermit()                                           *)

\* The low pool serves what may not use the high limit, or everything when
\* the organisation has no high limit.
UsesLow(r) == ~(r \in Eligible /\ HasPermission)
UsesHigh(r) == HasPermission

AskLow(r) ==
  /\ Low!GetPermit(r) \/ Low!QueueRequest(r)
  /\ GoTo(r, "low")
  /\ UNCHANGED highVars

AskHigh(r) ==
  /\ High!GetPermit(r) \/ High!QueueRequest(r)
  /\ GoTo(r, "high")
  /\ UNCHANGED lowVars

\* fetchResponse up to its first await: the part of getPermit before the inner
\* pool answers.
FetchResponse(r) ==
  /\ At(r, "idle")
  /\ flushing = "never" \/ r \in FlushedRequests
  /\ IF UsesLow(r) THEN AskLow(r) ELSE AskHigh(r)
  /\ UNCHANGED <<poolVars, flushing, tabLocked>>

\* The continuation of a call queued in an inner pool.
LowResumes ==
  /\ flushing # "yes"
  /\ Low!Resume
  /\ UNCHANGED <<highVars, pc, poolVars, flushing, tabLocked>>

HighResumes ==
  /\ flushing # "yes"
  /\ High!Resume
  /\ UNCHANGED <<lowVars, pc, poolVars, flushing, tabLocked>>

\* A mutant: the range of ids is one too long.
FreeIdsOneMore ==
  (0 .. Max({LowSize, HighSize})) \ {permitId[s] : s \in issued}

\* A mutant: the ids are as many as the slots of the low pool.
FreeIdsOfLowPool == (0 .. LowSize - 1) \ {permitId[s] : s \in issued}

\* range(this._permitPoolSize) without the ids in _issuedPermits
FreeIds ==
  (0 .. Max({LowSize, HighSize}) - 1) \ {permitId[s] : s \in issued}

\* A mutant: the id is taken from the number of permits issued.
NextIdByCount == IF LockBased THEN Cardinality(issued) ELSE nextPermitId

\* _getNextPermitId() of the pool that setMaxParallelRequests chose
NextId ==
  IF ~LockBased THEN nextPermitId ELSE IF FreeIds = {} THEN -1 ELSE Min(FreeIds)

\* this._issuedPermits.set(id, permit) replaces the permit that had the id,
\* this._issuedPermits.delete(id) removes it, whoever owns it.
WithoutId(id) == {s \in issued : permitId[s] # id}

WrapPermit(r) ==
  /\ permitId' = [permitId EXCEPT ![r] = NextId]
  /\ issued' = WithoutId(NextId) \cup {r}
  /\ nextPermitId' = IF LockBased THEN nextPermitId ELSE nextPermitId + 1
  /\ GoTo(r, "permit")

\* A mutant: a request that passed the low pool does not ask the high one.
GotLowSkipsHigh(r) ==
  /\ At(r, "low")
  /\ lowPhase[r] = "granted"
  /\ WrapPermit(r)
  /\ UNCHANGED <<lowVars, highVars, flushing, tabLocked>>

GotLow(r) ==
  /\ At(r, "low")
  /\ lowPhase[r] = "granted"
  /\ IF UsesHigh(r)
     THEN AskHigh(r) /\ UNCHANGED poolVars
     ELSE WrapPermit(r) /\ UNCHANGED <<lowVars, highVars>>
  /\ UNCHANGED <<flushing, tabLocked>>

GotHigh(r) ==
  /\ At(r, "high")
  /\ highPhase[r] = "granted"
  /\ WrapPermit(r)
  /\ UNCHANGED <<lowVars, highVars, flushing, tabLocked>>

--------------------------------------------------------------------------------
(* permit.release() and RequestPermitPool.flush()                          *)

\* A mutant: the permit of the high pool is forgotten.
ReleaseInnerLowOnly(r) ==
  /\ IF UsesLow(r) THEN Low!Release(r) ELSE UNCHANGED lowVars
  /\ UNCHANGED highVars

\* lowConcurrencyPermit?.release(); highConcurrencyPermit?.release()
ReleaseInner(r) ==
  /\ IF UsesLow(r) THEN Low!Release(r) ELSE UNCHANGED lowVars
  /\ IF UsesHigh(r) THEN High!Release(r) ELSE UNCHANGED highVars

ReleasePermit(r) ==
  /\ ReleaseInner(r)
  /\ issued' = WithoutId(permitId[r])
  /\ UNCHANGED <<permitId, nextPermitId>>

\* flush() awaits nothing: its loop releases every permit in `issued', one
\* after the other, and no other step comes between them.
Flush ==
  /\ flushing = "no"
  /\ issued # {}
  /\ flushing' = "yes"
  /\ UNCHANGED <<lowVars, highVars, pc, poolVars, tabLocked>>

FlushRelease(r) ==
  /\ flushing = "yes"
  /\ r \in issued
  /\ ReleasePermit(r)
  /\ flushing' = IF WithoutId(permitId[r]) = {} THEN "no" ELSE "yes"
  /\ UNCHANGED <<pc, tabLocked>>

--------------------------------------------------------------------------------
(* The fetch, under its Web Lock                                           *)

\* fetchResponse resumes with its permit.
GotPermit(r) ==
  /\ At(r, "permit")
  /\ GoTo(r, IF LockBased THEN "locking" ELSE "fetching")
  /\ UNCHANGED <<lowVars, highVars, poolVars, flushing, tabLocked>>

\* External: the lock fetch_lock_<id> is exclusive among the tabs.
LockFree(id) ==
  /\ id \notin tabLocked
  /\ \A s \in Requests : permitId[s] = id => ~(LockBased /\ pc[s] \in {"fetching", "unlocking"})

\* The callback of locks.request runs and starts the fetch.
GotLock(r) ==
  /\ At(r, "locking")
  /\ LockFree(permitId[r])
  /\ GoTo(r, "fetching")
  /\ UNCHANGED <<lowVars, highVars, poolVars, flushing, tabLocked>>

\* The fetch comes to an end, well or badly: the finally block gives the permit
\* back.
FinishFetch(r) ==
  /\ At(r, "fetching")
  /\ ReleasePermit(r)
  /\ GoTo(r, IF LockBased THEN "unlocking" ELSE "settled")
  /\ UNCHANGED <<flushing, tabLocked>>

\* The lock is free once the promise of the callback has settled.
Unlock(r) ==
  /\ At(r, "unlocking")
  /\ GoTo(r, "settled")
  /\ UNCHANGED <<lowVars, highVars, poolVars, flushing, tabLocked>>

--------------------------------------------------------------------------------
(* The other tab                                                           *)

\* External: another tab takes or leaves one of the locks.
TabLock(id) ==
  /\ LockFree(id)
  /\ tabLocked' = tabLocked \cup {id}
  /\ UNCHANGED <<lowVars, highVars, pc, poolVars, flushing>>

TabUnlock(id) ==
  /\ id \in tabLocked
  /\ tabLocked' = tabLocked \ {id}
  /\ UNCHANGED <<lowVars, highVars, pc, poolVars, flushing>>

Proceed(r) ==
  \/ GotLow(r)
  \/ GotHigh(r)
  \/ GotPermit(r)
  \/ FinishFetch(r)
  \/ Unlock(r)

Next ==
  \/ \E r \in Requests :
       \/ FetchResponse(r)
       \/ Proceed(r)
       \/ GotLock(r)
       \/ FlushRelease(r)
  \/ LowResumes
  \/ HighResumes
  \/ Flush
  \/ \E id \in TabLocks : TabLock(id) \/ TabUnlock(id)

Spec == Init /\ [][Next]_vars

\* Scheduled continuations run, a started fetch ends, the other tab leaves every
\* lock it takes, and a lock request is served in its turn (a strong fairness:
\* the lock may be taken by others in between).
Fairness ==
  /\ WF_vars(LowResumes)
  /\ WF_vars(HighResumes)
  /\ \A r \in Requests : /\ WF_vars(Proceed(r))
                         /\ WF_vars(FlushRelease(r))
                         /\ SF_vars(GotLock(r))
  /\ \A id \in TabLocks : WF_vars(TabUnlock(id))

FairSpec == Spec /\ Fairness

--------------------------------------------------------------------------------
(* Properties                                                              *)

\* Unless permits are flushed, a request that may fetch holds a slot of every pool
\* it has to pass: what the pools have issued bounds the parallel fetches.
FetchHoldsItsSlots ==
  flushing = "never" => \A r \in Requests : pc[r] \in Owning =>
    /\ UsesLow(r) => lowPermitId[r] \in lowIssued /\ lowPhase[r] = "granted"
    /\ UsesHigh(r) => highPermitId[r] \in highIssued /\ highPhase[r] = "granted"

\* When every request has settled no permit is out: not in the inner pools, not
\* in the outer one.  A slot that stayed issued would be lost for the page.
NothingLeaks ==
  (\A r \in Requests : pc[r] \in {"idle", "settled"}) =>
    lowIssued = {} /\ highIssued = {} /\ issued = {}

\* Unless permits are flushed, two that are out never have the same id, but for the
\* id -1 that says no id was free: the Map of permits and the locks are keyed by it.
OutstandingIdsDistinct ==
  flushing = "never" => \A r, s \in Requests :
    /\ r # s
    /\ {pc[r], pc[s]} \subseteq Owning
    /\ permitId[r] # -1
    => permitId[r] # permitId[s]

\* The pool the requests pass last, and the number of its slots.
LastIssued == IF HasPermission THEN highIssued ELSE lowIssued
LastSize == IF HasPermission THEN HighSize ELSE LowSize

\* Unless permits are flushed, a request goes without an id (id -1, which all such
\* requests share as a key of the Map and as the name of a lock) only while the pool
\* it passed last has issued more permits than it has slots: the round robin runs out
\* of ids by the over-issue of PermitPool (PermitPool.js:36) and by nothing else.
NoIdOnlyBeyondLimit ==
  [][\A r \in Requests :
       flushing = "never" /\ pc[r] # "permit" /\ pc'[r] = "permit" /\ permitId'[r] = -1
       => Cardinality(LastIssued) > LastSize]_vars

\* Every request settles: whichever pools it passes, holding the slot of one
\* while it waits for another, and whoever holds its lock.
EveryRequestSettles ==
  \A r \in Requests : pc[r] # "idle" ~> pc[r] = "settled"
================================================================================
