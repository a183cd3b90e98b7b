------------------------------ MODULE PermitPool -------------------------------
(***************************************************************************)
(* src/Common/src/async/PermitPool.js: async access to a limited number of *)
(* slots.                                                                  *)
(*                                                                         *)
(* A call r of getPermit() that finds every slot issued waits on a         *)
(* deferred.  Resolving the deferred only schedules the rest of getPermit  *)
(* as a microtask; anything may run before it: `woken' is the FIFO of      *)
(* those scheduled continuations.  getPermit and release are called by     *)
(* code that is itself made of tasks and microtasks, so a call may come    *)
(* between any two continuations.                                          *)
(***************************************************************************)
EXTENDS Integers, Sequences, FiniteSets, FiniteSetsExt

CONSTANTS
  Requests,  \* the calls of getPermit()
  Flushes,   \* the calls of flush()
  Size       \* _size

ASSUME SizeAssumption == Size \in Nat \ {0}
ASSUME FlushAssumption == Requests \cap {"idle", "done"} = {}

VARIABLES
  issuedPermits,     \* _issuedPermits: the ids in the Map (insertion order = id order)
  requestedPermits,  \* _requestedPermits: the calls whose deferred is queued
  nextPermitId,      \* _nextPermitId
  woken,             \* calls whose deferred is resolved, their continuation scheduled
  phase,             \* how far each call of getPermit() and its caller are
  permitId,          \* permitId in the closure of each call's permit
  flush              \* each flush(): not called, the call whose promise it awaits, or done

vars == <<issuedPermits, requestedPermits, nextPermitId, woken, phase, permitId, flush>>

Phases == {"idle", "waiting", "granted", "released"}

TypeOK ==
  /\ issuedPermits \in SUBSET Nat
  /\ requestedPermits \in Seq(Requests)
  /\ nextPermitId \in Nat
  /\ woken \in Seq(Requests)
  /\ phase \in [Requests -> Phases]
  /\ permitId \in [Requests -> Nat]
  /\ flush \in [Flushes -> Requests \cup {"idle", "done"}]

Init ==
  /\ issuedPermits = {}
  /\ requestedPermits = <<>>
  /\ nextPermitId = 0
  /\ woken = <<>>
  /\ phase = [r \in Requests |-> "idle"]
  /\ permitId = [r \in Requests |-> 0]
  /\ flush = [f \in Flushes |-> "idle"]

--------------------------------------------------------------------------------
(* The microtask queue                                                     *)

\* The continuation of flush f was queued right behind that of the call it
\* awaits, so it runs as soon as that call has resumed, before anything else.
FlushResumes(f) ==
  /\ flush[f] \in Requests
  /\ phase[flush[f]] # "waiting"

NoFlushResumes == \A f \in Flushes : ~FlushResumes(f)

--------------------------------------------------------------------------------
(* getPermit()                                                             *)

Full == Cardinality(issuedPermits) >= Size

\* A mutant: the counter of ids is decremented.
IssueCountingDown(r) ==
  /\ nextPermitId' = nextPermitId - 1
  /\ issuedPermits' = issuedPermits \cup {nextPermitId}
  /\ permitId' = [permitId EXCEPT ![r] = nextPermitId]
  /\ phase' = [phase EXCEPT ![r] = "granted"]

\* The second half of getPermit, after the await or straight through.
Issue(r) ==
  /\ nextPermitId' = nextPermitId + 1
  /\ issuedPermits' = issuedPermits \cup {nextPermitId}
  /\ permitId' = [permitId EXCEPT ![r] = nextPermitId]
  /\ phase' = [phase EXCEPT ![r] = "granted"]

GetPermit(r) ==
  /\ NoFlushResumes
  /\ phase[r] = "idle"
  /\ ~Full
  /\ Issue(r)
  /\ UNCHANGED <<requestedPermits, woken, flush>>

QueueRequest(r) ==
  /\ NoFlushResumes
  /\ phase[r] = "idle"
  /\ Full
  /\ requestedPermits' = Append(requestedPermits, r)
  /\ phase' = [phase EXCEPT ![r] = "waiting"]
  /\ UNCHANGED <<issuedPermits, nextPermitId, woken, permitId, flush>>

\* A mutant: the continuation of the last resolved deferred runs first.
ResumeNewestFirst ==
  /\ NoFlushResumes
  /\ woken # <<>>
  /\ Issue(woken[Len(woken)])
  /\ woken' = SubSeq(woken, 1, Len(woken) - 1)
  /\ UNCHANGED <<requestedPermits, flush>>

\* The first scheduled continuation runs.  The number of issued permits is not
\* looked at again.
Resume ==
  /\ NoFlushResumes
  /\ woken # <<>>
  /\ Issue(Head(woken))
  /\ woken' = Tail(woken)
  /\ UNCHANGED <<requestedPermits, flush>>

--------------------------------------------------------------------------------
(* permit.release()                                                        *)

\* A mutant: the freed slot wakes nobody.
PollNothing == UNCHANGED <<requestedPermits, woken>>

\* this._requestedPermits.poll()?.resolve()
PollAndResolve ==
  IF requestedPermits = <<>>
  THEN UNCHANGED <<requestedPermits, woken>>
  ELSE /\ woken' = Append(woken, Head(requestedPermits))
       /\ requestedPermits' = Tail(requestedPermits)

\* The holder gives its permit back, perhaps more than once (RequestPermitPool
\* does), perhaps after flush() took its id out of the Map: then the delete does
\* nothing, the poll still does.
Release(r) ==
  /\ NoFlushResumes
  /\ phase[r] \in {"granted", "released"}
  /\ issuedPermits' = issuedPermits \ {permitId[r]}
  /\ PollAndResolve
  /\ phase' = [phase EXCEPT ![r] = "released"]
  /\ UNCHANGED <<nextPermitId, permitId, flush>>

--------------------------------------------------------------------------------
(* flush()                                                                 *)

\* What flush does without yielding.  The iterator of the Map is live and every
\* permit it has visited is deleted, so the next one is the smallest id left.
\* With nobody queued the loop releases every permit in one go; otherwise it
\* releases one and awaits the promise of the call this wakes.
FlushLoop(f) ==
  IF issuedPermits = {} \/ requestedPermits = <<>>
  THEN /\ issuedPermits' = {}
       /\ flush' = [flush EXCEPT ![f] = "done"]
       /\ UNCHANGED <<requestedPermits, woken>>
  ELSE /\ issuedPermits' = issuedPermits \ {Min(issuedPermits)}
       /\ flush' = [flush EXCEPT ![f] = Head(requestedPermits)]
       /\ PollAndResolve

Flush(f) ==
  /\ NoFlushResumes
  /\ flush[f] = "idle"
  /\ FlushLoop(f)
  /\ UNCHANGED <<nextPermitId, phase, permitId>>

FlushContinues(f) ==
  /\ FlushResumes(f)
  /\ FlushLoop(f)
  /\ UNCHANGED <<nextPermitId, phase, permitId>>

--------------------------------------------------------------------------------

Next ==
  \/ \E r \in Requests : GetPermit(r) \/ QueueRequest(r) \/ Release(r)
  \/ Resume
  \/ \E f \in Flushes : Flush(f) \/ FlushContinues(f)

Spec == Init /\ [][Next]_vars

\* The engine runs what is scheduled; every holder gives its permit back in the
\* end (FetchAjaxService._fetchResponse releases in a finally block).  Nothing
\* obliges anybody to ask for a permit or to flush.
Fairness ==
  /\ WF_vars(Resume)
  /\ \A f \in Flushes : WF_vars(FlushContinues(f))
  /\ \A r \in Requests : WF_vars(phase[r] = "granted" /\ Release(r))

FairSpec == Spec /\ Fairness

--------------------------------------------------------------------------------
(* Properties                                                              *)

\* The ids in the Map were all drawn from the counter: the next one is new.
IssuedBelowNext == \A i \in issuedPermits : i < nextPermitId

\* No hand-over is lost: while a call is queued, every slot is either issued or
\* on its way to a call that has been woken.  Nothing but a release wakes a
\* queued call, so otherwise the queue could be stuck with slots free.
NoLostWakeup ==
  requestedPermits # <<>> => Cardinality(issuedPermits) + Len(woken) >= Size

\* The pool implements the credit discipline of SlotHandoff: queued calls are
\* served first come first served, one for each release, whatever calls, releases
\* and flushes come between the scheduling of a continuation and its run.
Handoff == INSTANCE SlotHandoff WITH
  Calls <- Requests,
  queue <- woken \o requestedPermits,
  credits <- Len(woken),
  held <- Cardinality(issuedPermits)

ImplementsHandoff == Handoff!Spec

\* A call that waits in getPermit() is granted a permit in the end, past every
\* barging call, double release and flush.
EveryWaiterGranted ==
  \A r \in Requests : phase[r] = "waiting" ~> phase[r] = "granted"

\* A flush() that waits for a woken call to be issued its permit returns in the
\* end: it chases the permits handed over to the queue but not for ever.
FlushReturns ==
  \A f \in Flushes : flush[f] # "idle" ~> flush[f] = "done"

\* PermitPool.js:6 and :15 speak of a limited number of slots: at most Size
\* permits out at once.  Even where every permit is released once, a call that finds
\* a slot just released takes it, and the call woken for that same slot resumes
\* without looking again.
SlotLimit == Cardinality(issuedPermits) <= Size
================================================================================
