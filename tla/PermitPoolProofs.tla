--------------------------- MODULE PermitPoolProofs ----------------------------
(***************************************************************************)
(* Theorems about PermitPool, for every number of slots, calls and         *)
(* flushes: its type invariant, that no hand-over of a slot is lost, and   *)
(* that it implements SlotHandoff.                                         *)
(***************************************************************************)
EXTENDS PermitPool, FiniteSetTheorems, SequenceTheorems, TLAPS

USE SizeAssumption, FlushAssumption

--------------------------------------------------------------------------------
(* Type correctness                                                        *)

(* Resolving the head of the queue keeps both queues sequences of calls.   *)
LEMMA PollType ==
  ASSUME TypeOK, PollAndResolve
  PROVE  /\ requestedPermits' \in Seq(Requests)
         /\ woken' \in Seq(Requests)
<1>1. CASE requestedPermits = <<>>
  BY <1>1 DEF TypeOK, PollAndResolve
<1>2. CASE requestedPermits # <<>>
  <2>1. /\ requestedPermits \in Seq(Requests)
        /\ woken \in Seq(Requests)
        /\ woken' = Append(woken, Head(requestedPermits))
        /\ requestedPermits' = Tail(requestedPermits)
    BY <1>2 DEF TypeOK, PollAndResolve
  <2>2. /\ Head(requestedPermits) \in Requests
        /\ Tail(requestedPermits) \in Seq(Requests)
    BY <1>2, <2>1, HeadTailProperties
  <2> QED BY <2>1, <2>2, AppendProperties
<1> QED BY <1>1, <1>2

(* Giving a call its permit keeps every variable it touches in its type.   *)
LEMMA IssueType ==
  ASSUME TypeOK, NEW r \in Requests, Issue(r)
  PROVE  /\ nextPermitId' \in Nat
         /\ issuedPermits' \in SUBSET Nat
         /\ permitId' \in [Requests -> Nat]
         /\ phase' \in [Requests -> Phases]
BY DEF TypeOK, Issue, Phases

(* The synchronous part of flush() keeps every variable it touches in its type. *)
LEMMA FlushLoopType ==
  ASSUME TypeOK, NEW f \in Flushes, FlushLoop(f)
  PROVE  /\ issuedPermits' \in SUBSET Nat
         /\ requestedPermits' \in Seq(Requests)
         /\ woken' \in Seq(Requests)
         /\ flush' \in [Flushes -> Requests \cup {"idle", "done"}]
<1>1. CASE issuedPermits = {} \/ requestedPermits = <<>>
  BY <1>1 DEF TypeOK, FlushLoop
<1>2. CASE ~(issuedPermits = {} \/ requestedPermits = <<>>)
  <2>1. PollAndResolve
    BY <1>2 DEF FlushLoop
  <2>2. Head(requestedPermits) \in Requests
    BY <1>2 DEF TypeOK
  <2> QED BY <1>2, <2>1, <2>2, PollType DEF TypeOK, FlushLoop
<1> QED BY <1>1, <1>2

\* The constructor's state has the types of TypeOK.
LEMMA TypeInit == Init => TypeOK
BY DEF Init, TypeOK, Phases

\* Every step of the pool keeps the types: ids are numbers drawn from the counter,
\* only calls are queued, woken or awaited by a flush.
LEMMA TypeStep == TypeOK /\ [Next]_vars => TypeOK'
<1> SUFFICES ASSUME TypeOK, [Next]_vars PROVE TypeOK'
  OBVIOUS
<1>1. ASSUME NEW r \in Requests, GetPermit(r) PROVE TypeOK'
  BY <1>1, IssueType DEF TypeOK, GetPermit
<1>2. ASSUME NEW r \in Requests, QueueRequest(r) PROVE TypeOK'
  BY <1>2 DEF TypeOK, QueueRequest, Phases
<1>3. CASE Resume
  <2>1. /\ Head(woken) \in Requests
        /\ Tail(woken) \in Seq(Requests)
    BY <1>3 DEF TypeOK, Resume
  <2> QED BY <1>3, <2>1, IssueType DEF TypeOK, Resume
<1>4. ASSUME NEW r \in Requests, Release(r) PROVE TypeOK'
  BY <1>4, PollType DEF TypeOK, Release, Phases
<1>5. ASSUME NEW f \in Flushes, Flush(f) PROVE TypeOK'
  BY <1>5, FlushLoopType DEF TypeOK, Flush
<1>6. ASSUME NEW f \in Flushes, FlushContinues(f) PROVE TypeOK'
  BY <1>6, FlushLoopType DEF TypeOK, FlushContinues
<1>7. CASE UNCHANGED vars
  BY <1>7 DEF TypeOK, vars
<1> QED BY <1>1, <1>2, <1>3, <1>4, <1>5, <1>6, <1>7 DEF Next

(* Every variable keeps its type: in particular a flush() only ever awaits the
   promise of a call of getPermit(). *)
THEOREM PermitPoolTypeOK == Spec => []TypeOK
<1> QED BY TypeInit, TypeStep, PTL DEF Spec

--------------------------------------------------------------------------------
(* No hand-over is lost                                                    *)

(* The inductive invariant.  NoLostWakeup counts the issued permits, so    *)
(* that resuming a call adds exactly one to the count: the id it takes     *)
(* must be a new one, and the count must be that of a finite set.          *)
IInv ==
  /\ TypeOK
  /\ IsFiniteSet(issuedPermits)
  /\ IssuedBelowNext
  /\ NoLostWakeup

(* A call that is granted its permit adds one to the permits issued.       *)
LEMMA IssueCounts ==
  ASSUME IInv, NEW r \in Requests, Issue(r)
  PROVE  /\ IsFiniteSet(issuedPermits')
         /\ Cardinality(issuedPermits) \in Nat
         /\ Cardinality(issuedPermits') = Cardinality(issuedPermits) + 1
         /\ IssuedBelowNext'
<1>1. nextPermitId \notin issuedPermits
  BY DEF IInv, TypeOK, IssuedBelowNext
<1>2. issuedPermits' = issuedPermits \cup {nextPermitId}
  BY DEF Issue
<1>3. /\ IsFiniteSet(issuedPermits')
      /\ Cardinality(issuedPermits') = Cardinality(issuedPermits) + 1
  BY <1>1, <1>2, FS_AddElement DEF IInv
<1>4. IssuedBelowNext'
  BY <1>2 DEF IInv, TypeOK, IssuedBelowNext, Issue
<1> QED BY <1>3, <1>4, FS_CardinalityType DEF IInv

(* Taking one id out of the Map takes at most one from the permits issued.  *)
LEMMA DeleteCounts ==
  ASSUME IInv, NEW i, issuedPermits' = issuedPermits \ {i}, nextPermitId' = nextPermitId
  PROVE  /\ IsFiniteSet(issuedPermits')
         /\ Cardinality(issuedPermits) \in Nat
         /\ Cardinality(issuedPermits') \in Nat
         /\ \/ Cardinality(issuedPermits') = Cardinality(issuedPermits)
            \/ /\ Cardinality(issuedPermits) > 0
               /\ Cardinality(issuedPermits') = Cardinality(issuedPermits) - 1
         /\ IssuedBelowNext'
<1>1. /\ IsFiniteSet(issuedPermits')
      /\ Cardinality(issuedPermits') = IF i \in issuedPermits
                                       THEN Cardinality(issuedPermits) - 1
                                       ELSE Cardinality(issuedPermits)
  BY FS_RemoveElement DEF IInv
<1>2. Cardinality(issuedPermits) \in Nat /\ Cardinality(issuedPermits') \in Nat
  BY <1>1, FS_CardinalityType DEF IInv
<1>3. IssuedBelowNext'
  BY DEF IInv, IssuedBelowNext
<1> QED BY <1>1, <1>2, <1>3

(* Resolving the head of a non-empty queue moves it to the woken calls.    *)
LEMMA PollCounts ==
  ASSUME TypeOK, PollAndResolve
  PROVE  \/ /\ requestedPermits = <<>>
            /\ UNCHANGED <<requestedPermits, woken>>
         \/ /\ requestedPermits # <<>>
            /\ Len(woken') = Len(woken) + 1
            /\ woken' \o requestedPermits' = woken \o requestedPermits
<1>1. CASE requestedPermits = <<>>
  BY <1>1 DEF PollAndResolve
<1>2. CASE requestedPermits # <<>>
  <2> DEFINE h == Head(requestedPermits)
             t == Tail(requestedPermits)
  <2>1. /\ requestedPermits \in Seq(Requests)
        /\ woken \in Seq(Requests)
        /\ woken' = Append(woken, h)
        /\ requestedPermits' = t
    BY <1>2 DEF TypeOK, PollAndResolve
  <2>2. h \in Requests /\ t \in Seq(Requests) /\ <<h>> \in Seq(Requests)
    BY <1>2, <2>1, HeadTailProperties
  <2>3. requestedPermits = <<h>> \o t
    BY <1>2, <2>1, <2>2
  <2>4. Append(woken, h) = woken \o <<h>>
    BY <2>1, <2>2, AppendIsConcat
  <2>5. (woken \o <<h>>) \o t = woken \o (<<h>> \o t)
    BY <2>1, <2>2, ConcatAssociative
  <2>6. Len(woken') = Len(woken) + 1
    BY <2>1, <2>2, AppendProperties
  <2> QED BY <1>2, <2>1, <2>3, <2>4, <2>5, <2>6
<1> QED BY <1>1, <1>2

\* IInv holds of a new pool.
LEMMA IInvInit == Init => IInv
<1> SUFFICES ASSUME Init PROVE IInv
  OBVIOUS
<1>1. TypeOK
  BY TypeInit
<1>2. IsFiniteSet(issuedPermits) /\ IssuedBelowNext
  BY FS_EmptySet DEF Init, IssuedBelowNext
<1>3. NoLostWakeup
  BY DEF Init, NoLostWakeup
<1> QED BY <1>1, <1>2, <1>3 DEF IInv

(* Releasing a permit, by its holder or by flush(), cannot lose a hand-over. *)
LEMMA ReleaseKeepsWakeups ==
  ASSUME IInv, NEW i, issuedPermits' = issuedPermits \ {i},
         nextPermitId' = nextPermitId, PollAndResolve
  PROVE  IsFiniteSet(issuedPermits') /\ IssuedBelowNext' /\ NoLostWakeup'
<1>1. Len(woken) \in Nat /\ Len(woken') \in Nat
  BY PollType, LenProperties DEF IInv, TypeOK
<1> DEFINE before == Cardinality(issuedPermits)
           after == Cardinality(issuedPermits')
<1>2. /\ before \in Nat /\ after \in Nat
      /\ after = before \/ after = before - 1
  BY DeleteCounts
<1> HIDE DEF before, after
<1>a. after + 1 >= before
  BY <1>2
<1>b. SUFFICES NoLostWakeup'
  BY DeleteCounts
<1>3. CASE requestedPermits = <<>>
  BY <1>3, PollCounts DEF IInv, NoLostWakeup
<1>4. CASE requestedPermits # <<>>
  <2>1. Len(woken') = Len(woken) + 1
    BY <1>4, PollCounts DEF IInv
  <2>2. before + Len(woken) >= Size
    BY <1>4 DEF IInv, NoLostWakeup, before
  <2>3. after + Len(woken') >= Size
    BY <1>1, <1>2, <1>a, <2>1, <2>2
  <2> QED BY <2>3 DEF NoLostWakeup, after
<1> QED BY <1>3, <1>4

\* IInv is inductive: in particular a new id is never one already in the Map, so
\* the size of the Map counts the permits.
LEMMA IInvStep == IInv /\ [Next]_vars => IInv'
<1> SUFFICES ASSUME IInv, [Next]_vars PROVE IInv'
  OBVIOUS
<1>1. TypeOK'
  BY TypeStep DEF IInv
<1>2. Len(woken) \in Nat /\ Cardinality(issuedPermits) \in Nat /\ Size \in Nat
  BY LenProperties, FS_CardinalityType DEF IInv, TypeOK
<1>3. ASSUME NEW r \in Requests, GetPermit(r) PROVE IInv'
  <2>1. Issue(r) /\ UNCHANGED <<requestedPermits, woken>>
    BY <1>3 DEF GetPermit
  <2> QED BY <1>1, <1>2, <2>1, IssueCounts DEF IInv, NoLostWakeup
<1>4. ASSUME NEW r \in Requests, QueueRequest(r) PROVE IInv'
  <2>1. Cardinality(issuedPermits) >= Size /\ UNCHANGED <<issuedPermits, nextPermitId, woken>>
    BY <1>4 DEF QueueRequest, Full
  <2> QED BY <1>1, <1>2, <2>1 DEF IInv, NoLostWakeup, IssuedBelowNext
<1>5. CASE Resume
  <2>1. /\ Head(woken) \in Requests
        /\ Len(woken') = Len(woken) - 1
        /\ Issue(Head(woken))
        /\ UNCHANGED requestedPermits
    BY <1>5, HeadTailProperties DEF IInv, TypeOK, Resume
  <2> QED BY <1>1, <1>2, <2>1, IssueCounts DEF IInv, NoLostWakeup
<1>6. ASSUME NEW r \in Requests, Release(r) PROVE IInv'
  BY <1>1, <1>6, ReleaseKeepsWakeups DEF IInv, Release
<1>7. ASSUME NEW f \in Flushes, FlushLoop(f), nextPermitId' = nextPermitId PROVE IInv'
  <2>1. CASE issuedPermits = {}
    <3>1. UNCHANGED <<issuedPermits, requestedPermits, woken>>
      BY <1>7, <2>1 DEF FlushLoop
    <3> QED BY <1>1, <1>7, <3>1 DEF IInv, NoLostWakeup, IssuedBelowNext
  <2>2. CASE requestedPermits = <<>>
    <3>1. issuedPermits' = {} /\ requestedPermits' = <<>>
      BY <1>7, <2>2 DEF FlushLoop
    <3> QED BY <1>1, <3>1, FS_EmptySet DEF IInv, NoLostWakeup, IssuedBelowNext
  <2>3. CASE issuedPermits # {} /\ requestedPermits # <<>>
    <3>1. issuedPermits' = issuedPermits \ {Min(issuedPermits)} /\ PollAndResolve
      BY <1>7, <2>3 DEF FlushLoop
    <3> QED BY <1>1, <1>7, <3>1, ReleaseKeepsWakeups DEF IInv
  <2> QED BY <2>1, <2>2, <2>3
<1>8. ASSUME NEW f \in Flushes, Flush(f) \/ FlushContinues(f) PROVE IInv'
  BY <1>7, <1>8 DEF Flush, FlushContinues
<1>9. CASE UNCHANGED vars
  BY <1>1, <1>9 DEF IInv, vars, NoLostWakeup, IssuedBelowNext
<1> QED BY <1>3, <1>4, <1>5, <1>6, <1>8, <1>9 DEF Next

(* While a call is queued, every slot is issued or on its way to a woken   *)
(* call: however getPermit, release and flush interleave, no slot stays    *)
(* free behind a queue.                                                    *)
THEOREM PermitPoolNoLostWakeup == Spec => []NoLostWakeup
<1>1. IInv => NoLostWakeup
  BY DEF IInv
<1> QED BY IInvInit, IInvStep, <1>1, PTL DEF Spec

\* The strengthening that carries the other theorems: finitely many ids, all below
\* the counter, and no lost wake-up, in every reachable state of the pool.
THEOREM PermitPoolIInv == Spec => []IInv
<1> QED BY IInvInit, IInvStep, PTL DEF Spec

--------------------------------------------------------------------------------
(* PermitPool implements SlotHandoff                                       *)

\* A new pool is, seen through the refinement mapping, a new SlotHandoff.
LEMMA HandoffInit == Init => Handoff!Init
BY FS_EmptySet DEF Init, Handoff!Init

(* A release, by the holder or by flush(), gives back the slot, if the id  *)
(* was still in the Map, and hands over to the head of the queue.          *)
LEMMA ReleaseIsGiveBack ==
  ASSUME IInv, NEW i, issuedPermits' = issuedPermits \ {i},
         nextPermitId' = nextPermitId, PollAndResolve
  PROVE  \/ Handoff!GiveBackAgain
         \/ \E k \in 1..Cardinality(issuedPermits) : Handoff!GiveBack(k)
<1> DEFINE queue == woken \o requestedPermits
<1>1. /\ Len(woken) \in Nat /\ Len(woken') \in Nat
      /\ Len(requestedPermits) \in Nat /\ Len(queue) \in Nat
      /\ Len(queue) = Len(woken) + Len(requestedPermits)
  BY PollType, LenProperties, ConcatProperties DEF IInv, TypeOK
<1>2. /\ queue' = queue
      /\ Len(woken') = Handoff!Lesser(Len(woken) + 1, Len(queue))
  <2>1. CASE requestedPermits = <<>>
    <3>1. UNCHANGED <<requestedPermits, woken>> /\ Len(requestedPermits) = 0
      BY <1>1, <2>1, PollCounts DEF IInv
    <3>2. queue' = queue /\ Len(woken') = Len(woken)
      BY <3>1
    <3>3. Len(queue) = Len(woken)
      BY <1>1, <3>1
    <3> HIDE DEF queue
    <3> QED BY <1>1, <3>2, <3>3 DEF Handoff!Lesser
  <2>2. CASE requestedPermits # <<>>
    <3>1. Len(requestedPermits) > 0
      BY <1>1, <2>2, EmptySeq DEF IInv, TypeOK
    <3> QED BY <1>1, <2>2, <3>1, PollCounts DEF IInv, Handoff!Lesser
  <2> QED BY <2>1, <2>2
<1>3. CASE Cardinality(issuedPermits') = Cardinality(issuedPermits)
  BY <1>2, <1>3 DEF Handoff!GiveBackAgain
<1>4. CASE /\ Cardinality(issuedPermits) > 0
           /\ Cardinality(issuedPermits') = Cardinality(issuedPermits) - 1
  <2>1. Handoff!GiveBack(1)
    BY <1>2, <1>4 DEF Handoff!GiveBack
  <2>2. 1 \in 1..Cardinality(issuedPermits)
    BY <1>4, DeleteCounts
  <2> QED BY <2>1, <2>2
<1> QED BY <1>3, <1>4, DeleteCounts

\* Every step of the pool is a step of SlotHandoff or leaves what it sees alone.
LEMMA HandoffStep == IInv /\ [Next]_vars => [Handoff!Next]_(Handoff!handoffVars)
<1> SUFFICES ASSUME IInv, [Next]_vars
             PROVE  Handoff!Next \/ UNCHANGED Handoff!handoffVars
  OBVIOUS
<1> DEFINE queue == woken \o requestedPermits
<1>1. /\ Len(woken) \in Nat /\ Len(queue) \in Nat
      /\ Cardinality(issuedPermits) \in Nat /\ Size \in Nat
      /\ woken \in Seq(Requests) /\ requestedPermits \in Seq(Requests)
  BY LenProperties, ConcatProperties, FS_CardinalityType DEF IInv, TypeOK
<1>2. ASSUME NEW r \in Requests, GetPermit(r) PROVE Handoff!Enter
  BY <1>1, <1>2, IssueCounts DEF GetPermit, Full, Handoff!Enter
<1>3. ASSUME NEW r \in Requests, QueueRequest(r) PROVE Handoff!Join(r)
  <2>1. /\ requestedPermits' = Append(requestedPermits, r)
        /\ Cardinality(issuedPermits) >= Size
        /\ UNCHANGED <<issuedPermits, woken>>
    BY <1>3 DEF QueueRequest, Full
  <2>2. woken \o Append(requestedPermits, r) = Append(queue, r)
    <3>1. <<r>> \in Seq(Requests)
      OBVIOUS
    <3>2. Append(requestedPermits, r) = requestedPermits \o <<r>>
      BY <1>1, AppendIsConcat
    <3>3. Append(queue, r) = queue \o <<r>>
      BY <1>1, AppendIsConcat, ConcatProperties
    <3> QED BY <1>1, <3>1, <3>2, <3>3, ConcatAssociative
  <2> QED BY <2>1, <2>2 DEF Handoff!Join
<1>4. CASE Resume
  <2>1. /\ woken # <<>>
        /\ Issue(Head(woken))
        /\ woken' = Tail(woken)
        /\ UNCHANGED requestedPermits
    BY <1>4 DEF Resume
  <2>2. Head(woken) \in Requests /\ Tail(woken) \in Seq(Requests) /\ Len(Tail(woken)) = Len(woken) - 1
    BY <1>1, <2>1, HeadTailProperties
  <2>3. Tail(woken) \o requestedPermits = Tail(queue)
    BY <1>1, <2>1, <2>2
  <2>4. Len(woken) > 0
    BY <1>1, <2>1, EmptySeq
  <2> HIDE DEF queue
  <2>5. Handoff!LetIn
    BY <2>1, <2>2, <2>3, <2>4, IssueCounts DEF Handoff!LetIn, queue
  <2> QED BY <2>5 DEF Handoff!Next
<1>5. ASSUME NEW r \in Requests, Release(r) PROVE Handoff!Next
  BY <1>5, ReleaseIsGiveBack DEF Release, Handoff!Next
<1>6. ASSUME NEW f \in Flushes, FlushLoop(f), nextPermitId' = nextPermitId
      PROVE  Handoff!Next \/ UNCHANGED Handoff!handoffVars
  <2>1. CASE issuedPermits = {}
    BY <1>6, <2>1 DEF FlushLoop, Handoff!handoffVars
  <2>2. CASE issuedPermits # {} /\ requestedPermits = <<>>
    <3> DEFINE k == Cardinality(issuedPermits)
    <3>1. /\ issuedPermits' = {}
          /\ UNCHANGED <<requestedPermits, woken>>
      BY <1>6, <2>2 DEF FlushLoop
    <3>2. k \in 1..k /\ Cardinality(issuedPermits') = k - k
      BY <1>1, <2>2, <3>1, FS_EmptySet DEF IInv
    <3>3. queue = woken
      BY <1>1, <2>2, ConcatEmptySeq
    <3>4. Len(woken) = Handoff!Lesser(Len(woken) + k, Len(queue))
      BY <1>1, <3>3 DEF Handoff!Lesser
    <3>5. Handoff!GiveBack(k)
      BY <3>1, <3>2, <3>4 DEF Handoff!GiveBack
    <3> QED BY <3>2, <3>5 DEF Handoff!Next
  <2>3. CASE issuedPermits # {} /\ requestedPermits # <<>>
    <3>1. issuedPermits' = issuedPermits \ {Min(issuedPermits)} /\ PollAndResolve
      BY <1>6, <2>3 DEF FlushLoop
    <3> QED BY <1>6, <3>1, ReleaseIsGiveBack DEF Handoff!Next
  <2> QED BY <2>1, <2>2, <2>3
<1>7. ASSUME NEW f \in Flushes, Flush(f) \/ FlushContinues(f)
      PROVE  Handoff!Next \/ UNCHANGED Handoff!handoffVars
  BY <1>6, <1>7 DEF Flush, FlushContinues
<1>8. CASE UNCHANGED vars
  BY <1>8 DEF vars, Handoff!handoffVars
<1> QED BY <1>2, <1>3, <1>4, <1>5, <1>7, <1>8 DEF Next, Handoff!Next

(* The pool hands its slots over by the credit discipline of SlotHandoff:  *)
(* first come first served among the queued calls, one for each release.   *)
THEOREM PermitPoolImplementsHandoff == Spec => ImplementsHandoff
<1> QED BY IInvInit, IInvStep, HandoffInit, HandoffStep, PTL DEF Spec, ImplementsHandoff, Handoff!Spec
--------------------------------------------------------------------------------
(* Who holds what, while nobody flushes the pool                           *)

Queued == woken \o requestedPermits
Held(r) == phase[r] \in {"granted", "released"}

(* Every id that is out belongs to the one call that was granted it and    *)
(* has not given it back, and every queued call is queued once and waits.  *)
EachIdHasItsOwner ==
  /\ \A r \in Requests : Held(r) => permitId[r] < nextPermitId
  /\ \A r, s \in Requests : Held(r) /\ Held(s) /\ r # s => permitId[r] # permitId[s]
  /\ \A r \in Requests : phase[r] = "granted" => permitId[r] \in issuedPermits
  /\ \A i \in issuedPermits : \E r \in Requests : phase[r] = "granted" /\ permitId[r] = i
QueuedOnce ==
  /\ \A i \in DOMAIN Queued : Queued[i] \in Requests /\ phase[Queued[i]] = "waiting"
  /\ \A i, j \in DOMAIN Queued : Queued[i] = Queued[j] => i = j
Owners == IInv /\ EachIdHasItsOwner /\ QueuedOnce

LEMMA OwnersInit == Init => Owners
<1> SUFFICES ASSUME Init PROVE Owners
  OBVIOUS
<1>1. DOMAIN Queued = {}
  BY DEF Init, Queued
<1>2. EachIdHasItsOwner /\ QueuedOnce
  BY <1>1 DEF Init, EachIdHasItsOwner, QueuedOnce, Held
<1> QED BY <1>2, IInvInit DEF Owners

(* The next id is new, so a call that is granted it shares it with none.   *)
LEMMA IssueOwned ==
  ASSUME Owners, NEW r \in Requests, phase[r] \in {"idle", "waiting"}, Issue(r)
  PROVE  EachIdHasItsOwner'
<1>1. /\ nextPermitId \in Nat /\ nextPermitId' = nextPermitId + 1
      /\ issuedPermits' = issuedPermits \cup {nextPermitId}
      /\ permitId \in [Requests -> Nat] /\ phase \in [Requests -> Phases]
      /\ permitId' = [permitId EXCEPT ![r] = nextPermitId]
      /\ phase' = [phase EXCEPT ![r] = "granted"]
  BY DEF Issue, Owners, IInv, TypeOK
<1>2. /\ \A s \in Requests : s # r => /\ permitId'[s] = permitId[s] /\ phase'[s] = phase[s]
                                      /\ Held(s)' <=> Held(s)
      /\ permitId'[r] = nextPermitId /\ phase'[r] = "granted"
  BY <1>1 DEF Held
<1>3. EachIdHasItsOwner
  BY DEF Owners
<1>4. \A s \in Requests : Held(s)' => permitId'[s] < nextPermitId'
  BY <1>1, <1>2, <1>3 DEF EachIdHasItsOwner
<1>5. \A s, t \in Requests : Held(s)' /\ Held(t)' /\ s # t => permitId'[s] # permitId'[t]
  BY <1>1, <1>2, <1>3 DEF EachIdHasItsOwner
<1>6. \A s \in Requests : phase'[s] = "granted" => permitId'[s] \in issuedPermits'
  BY <1>1, <1>2, <1>3 DEF EachIdHasItsOwner
<1>7. \A i \in issuedPermits' : \E s \in Requests : phase'[s] = "granted" /\ permitId'[s] = i
  <2> SUFFICES ASSUME NEW i \in issuedPermits'
               PROVE  \E s \in Requests : phase'[s] = "granted" /\ permitId'[s] = i
    OBVIOUS
  <2>1. CASE i = nextPermitId
    BY <1>2, <2>1
  <2>2. CASE i \in issuedPermits
    <3>1. PICK s \in Requests : phase[s] = "granted" /\ permitId[s] = i
      BY <1>3, <2>2 DEF EachIdHasItsOwner
    <3>2. s # r
      BY <3>1
    <3> QED BY <1>2, <3>1, <3>2
  <2> QED BY <1>1, <2>1, <2>2
<1> QED BY <1>4, <1>5, <1>6, <1>7 DEF EachIdHasItsOwner

(* A queue whose calls keep waiting, and which has lost its head at most,  *)
(* still holds every call once.                                            *)
LEMMA QueueKept ==
  ASSUME Owners,
         \/ Queued' = Queued /\ \A i \in DOMAIN Queued : phase'[Queued[i]] = "waiting"
         \/ /\ Queued # <<>> /\ Queued' = Tail(Queued)
            /\ \A s \in Requests : s # Head(Queued) => phase'[s] = phase[s]
  PROVE  QueuedOnce'
<1>1. Queued \in Seq(Requests)
  BY ConcatProperties DEF Queued, Owners, IInv, TypeOK
<1>2. CASE Queued' = Queued /\ \A i \in DOMAIN Queued : phase'[Queued[i]] = "waiting"
  BY <1>2 DEF Owners, QueuedOnce
<1>3. CASE /\ Queued # <<>> /\ Queued' = Tail(Queued)
           /\ \A s \in Requests : s # Head(Queued) => phase'[s] = phase[s]
  <2>1. /\ \A i \in DOMAIN Queued' : i \in Nat /\ i + 1 \in DOMAIN Queued /\ Queued'[i] = Queued[i + 1]
        /\ 1 \in DOMAIN Queued /\ Head(Queued) = Queued[1]
    BY <1>1, <1>3, HeadTailProperties, LenProperties
  <2>2. \A i \in DOMAIN Queued' : Queued'[i] \in Requests /\ Queued'[i] # Head(Queued)
    BY <2>1 DEF Owners, QueuedOnce
  <2>3. \A i \in DOMAIN Queued' : phase'[Queued'[i]] = "waiting"
    BY <1>3, <2>1, <2>2 DEF Owners, QueuedOnce
  <2>4. ASSUME NEW i \in DOMAIN Queued', NEW j \in DOMAIN Queued', Queued'[i] = Queued'[j]
        PROVE  i = j
    <3>1. i + 1 = j + 1
      BY <2>1, <2>4 DEF Owners, QueuedOnce
    <3> QED BY <2>1, <3>1
  <2> QED BY <2>2, <2>3, <2>4 DEF QueuedOnce
<1> QED BY <1>2, <1>3

(* A call that gives its permit back, once or again, takes no one else's.  *)
LEMMA ReleaseOwned ==
  ASSUME Owners, NEW r \in Requests, Release(r)
  PROVE  EachIdHasItsOwner'
<1>1. /\ issuedPermits' = issuedPermits \ {permitId[r]}
      /\ nextPermitId' = nextPermitId /\ permitId' = permitId
      /\ phase \in [Requests -> Phases]
      /\ Held(r) /\ phase'[r] = "released"
      /\ \A s \in Requests : s # r => phase'[s] = phase[s]
      /\ \A s \in Requests : Held(s)' <=> Held(s)
  BY DEF Release, Owners, IInv, TypeOK, Held
<1> QED BY <1>1 DEF Owners, EachIdHasItsOwner, Held

(* Every step but a flush keeps the ids with their owners.                 *)
LEMMA OwnersStep == Flushes = {} /\ Owners /\ [Next]_vars => Owners'
<1> SUFFICES ASSUME Flushes = {}, Owners, [Next]_vars PROVE Owners'
  OBVIOUS
<1>1. IInv'
  BY IInvStep DEF Owners
<1>2. /\ woken \in Seq(Requests) /\ requestedPermits \in Seq(Requests)
      /\ phase \in [Requests -> Phases] /\ Queued \in Seq(Requests)
  BY ConcatProperties DEF Owners, IInv, TypeOK, Queued
<1>3. ASSUME NEW r \in Requests, GetPermit(r) PROVE Owners'
  <2>1. EachIdHasItsOwner'
    BY <1>3, IssueOwned DEF GetPermit
  <2>2. QueuedOnce'
    BY <1>2, <1>3, QueueKept DEF GetPermit, Issue, Queued, Owners, QueuedOnce
  <2> QED BY <1>1, <2>1, <2>2 DEF Owners
<1>4. ASSUME NEW r \in Requests, QueueRequest(r) PROVE Owners'
  <2>1. /\ UNCHANGED <<issuedPermits, nextPermitId, permitId>>
        /\ phase[r] = "idle" /\ phase'[r] = "waiting"
        /\ \A s \in Requests : s # r => phase'[s] = phase[s]
    BY <1>2, <1>4 DEF QueueRequest
  <2>2. EachIdHasItsOwner'
    BY <2>1 DEF Owners, EachIdHasItsOwner, Held
  <2>3. Queued' = Append(Queued, r)
    <3>1. requestedPermits' = Append(requestedPermits, r) /\ woken' = woken
      BY <1>4 DEF QueueRequest
    <3>2. Append(requestedPermits, r) = requestedPermits \o <<r>> /\ <<r>> \in Seq(Requests)
      BY <1>2, AppendIsConcat
    <3>3. Append(Queued, r) = Queued \o <<r>>
      BY <1>2, AppendIsConcat
    <3> QED BY <1>2, <3>1, <3>2, <3>3, ConcatAssociative DEF Queued
  <2>4. /\ \A i \in DOMAIN Queued' : \/ i \in DOMAIN Queued /\ Queued'[i] = Queued[i]
                                     \/ i = Len(Queued) + 1 /\ Queued'[i] = r
    BY <1>2, <2>3, AppendProperties, LenProperties
  <2>5. \A i \in DOMAIN Queued : Queued[i] \in Requests /\ Queued[i] # r
    BY <2>1 DEF Owners, QueuedOnce
  <2>6. QueuedOnce'
    BY <2>1, <2>4, <2>5 DEF Owners, QueuedOnce
  <2> QED BY <1>1, <2>2, <2>6 DEF Owners
<1>5. CASE Resume
  <2> DEFINE r == Head(woken)
  <2>1. /\ woken # <<>> /\ Issue(r) /\ woken' = Tail(woken)
        /\ requestedPermits' = requestedPermits
    BY <1>5 DEF Resume
  <2>2. r \in Requests /\ Tail(woken) \in Seq(Requests)
    BY <1>2, <2>1, HeadTailProperties
  <2>3. Queued # <<>> /\ Queued' = Tail(Queued) /\ Head(Queued) = r
    BY <1>2, <2>1, <2>2 DEF Queued
  <2>4. 1 \in DOMAIN Queued /\ Queued[1] = r
    BY <1>2, <2>3, HeadTailProperties, LenProperties
  <2>5. phase[r] = "waiting"
    BY <2>4 DEF Owners, QueuedOnce
  <2>6. EachIdHasItsOwner'
    BY <2>1, <2>2, <2>5, IssueOwned
  <2>7. \A s \in Requests : s # r => phase'[s] = phase[s]
    BY <1>2, <2>1 DEF Issue
  <2>8. QueuedOnce'
    BY <2>3, <2>7, QueueKept
  <2> QED BY <1>1, <2>6, <2>8 DEF Owners
<1>6. ASSUME NEW r \in Requests, Release(r) PROVE Owners'
  <2>1. EachIdHasItsOwner'
    BY <1>6, ReleaseOwned
  <2>2. Queued' = Queued
    BY <1>6, PollCounts DEF Release, Queued, Owners, IInv
  <2>3. \A i \in DOMAIN Queued : phase'[Queued[i]] = "waiting"
    BY <1>2, <1>6 DEF Release, Owners, QueuedOnce
  <2> QED BY <1>1, <2>1, <2>2, <2>3, QueueKept DEF Owners
<1>7. CASE UNCHANGED vars
  BY <1>1, <1>7 DEF vars, Owners, EachIdHasItsOwner, QueuedOnce, Queued, Held
<1> QED BY <1>3, <1>4, <1>5, <1>6, <1>7 DEF Next

(* While nobody flushes, an id that is out has exactly one holder, however
   often the holders release. *)
THEOREM PermitPoolOwners ==
  ASSUME Flushes = {}
  PROVE  Spec => []EachIdHasItsOwner
<1>1. Owners /\ [Next]_vars => Owners'
  BY OwnersStep
<1>2. Owners => EachIdHasItsOwner
  BY DEF Owners
<1> QED BY <1>1, <1>2, OwnersInit, PTL DEF Spec
================================================================================
