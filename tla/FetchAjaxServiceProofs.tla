------------------------- MODULE FetchAjaxServiceProofs ------------------------
(***************************************************************************)
(* Theorems about FetchAjaxService, for every number of requests, any      *)
(* sizes of the pools and either way to number the permits: its types,     *)
(* that a fetch holds its slots, that nothing leaks, that outstanding ids  *)
(* differ, and that a request goes without an id only where the pool it    *)
(* passed last has issued too many.  What the inner pools do is known from *)
(* PermitPoolProofs.                                                       *)
(***************************************************************************)
EXTENDS FetchAjaxService, WellFoundedInduction, FiniteSetTheorems, TLAPS

LowP == INSTANCE PermitPoolProofs WITH
  Flushes <- {}, flush <- <<>>, Size <- LowSize,
  issuedPermits <- lowIssued, requestedPermits <- lowRequested,
  nextPermitId <- lowNextId, woken <- lowWoken, phase <- lowPhase, permitId <- lowPermitId

HighP == INSTANCE PermitPoolProofs WITH
  Flushes <- {}, flush <- <<>>, Size <- HighSize,
  issuedPermits <- highIssued, requestedPermits <- highRequested,
  nextPermitId <- highNextId, woken <- highWoken, phase <- highPhase, permitId <- highPermitId

(* How far a request is decides how far it is in the inner pools.          *)
Out == IF flushing = "never" THEN {"granted"} ELSE {"granted", "released"}
StageFits(r) ==
  /\ pc[r] = "idle" => lowPhase[r] = "idle" /\ highPhase[r] = "idle"
  /\ pc[r] = "low" => UsesLow(r) /\ lowPhase[r] \in {"waiting", "granted"} /\ highPhase[r] = "idle"
  /\ pc[r] = "high" =>
       /\ UsesHigh(r) /\ highPhase[r] \in {"waiting", "granted"}
       /\ lowPhase[r] = IF UsesLow(r) THEN "granted" ELSE "idle"
  /\ pc[r] \in Owning =>
       /\ lowPhase[r] \in IF UsesLow(r) THEN Out ELSE {"idle"}
       /\ highPhase[r] \in IF UsesHigh(r) THEN Out ELSE {"idle"}
  /\ pc[r] \in {"unlocking", "settled"} =>
       /\ lowPhase[r] = IF UsesLow(r) THEN "released" ELSE "idle"
       /\ highPhase[r] = IF UsesHigh(r) THEN "released" ELSE "idle"

(* Only permits in use are in the Map, each under an id of its own.        *)
MapIsSound ==
  /\ \A r \in issued : pc[r] \in Owning
  /\ \A r, s \in issued : r # s => permitId[r] # permitId[s]
  /\ ~LockBased => \A r \in issued : permitId[r] < nextPermitId
  /\ flushing = "never" => \A r \in Requests : pc[r] \in Owning /\ permitId[r] # -1 => r \in issued

OuterTypeOK ==
  /\ pc \in [Requests -> Stages]
  /\ issued \in SUBSET Requests
  /\ permitId \in [Requests -> PermitIds]
  /\ nextPermitId \in Nat
  /\ flushing \in {"never", "no", "yes"}
  /\ tabLocked \in SUBSET TabLocks

(* The inductive invariant.                                                *)
IInv ==
  /\ LowP!Owners
  /\ HighP!Owners
  /\ OuterTypeOK
  /\ \A r \in Requests : StageFits(r)
  /\ MapIsSound
--------------------------------------------------------------------------------
(* The low pool                                                            *)

(* The pool of FetchAjaxService is the one PermitPoolProofs speaks of.     *)
LEMMA LowIsPermitPool ==
  /\ Low!Init <=> LowP!Init
  /\ \A r : /\ Low!GetPermit(r) <=> LowP!GetPermit(r)
            /\ Low!QueueRequest(r) <=> LowP!QueueRequest(r)
            /\ Low!Release(r) <=> LowP!Release(r)
  /\ Low!Resume <=> LowP!Resume
  /\ Low!TypeOK <=> LowP!TypeOK
<1>1. Low!Init <=> LowP!Init
  BY DEF Low!Init, LowP!Init
<1>2. \A r : Low!GetPermit(r) <=> LowP!GetPermit(r)
  BY DEF Low!GetPermit, LowP!GetPermit, Low!Issue, LowP!Issue, Low!NoFlushResumes,
         LowP!NoFlushResumes, Low!Full, LowP!Full, Low!Cardinality, LowP!Cardinality
<1>3. \A r : Low!QueueRequest(r) <=> LowP!QueueRequest(r)
  BY DEF Low!QueueRequest, LowP!QueueRequest, Low!NoFlushResumes, LowP!NoFlushResumes,
         Low!Full, LowP!Full, Low!Cardinality, LowP!Cardinality
<1>4. \A r : Low!Release(r) <=> LowP!Release(r)
  BY DEF Low!Release, LowP!Release, Low!NoFlushResumes, LowP!NoFlushResumes,
         Low!PollAndResolve, LowP!PollAndResolve
<1>5. Low!Resume <=> LowP!Resume
  BY DEF Low!Resume, LowP!Resume, Low!Issue, LowP!Issue, Low!NoFlushResumes, LowP!NoFlushResumes
<1>6. Low!TypeOK <=> LowP!TypeOK
  BY DEF Low!TypeOK, LowP!TypeOK, Low!Phases, LowP!Phases
<1> QED BY <1>1, <1>2, <1>3, <1>4, <1>5, <1>6

(* The steps of the pool that FetchAjaxService takes.                      *)
LowAction ==
  \/ \E r \in Requests : Low!GetPermit(r) \/ Low!QueueRequest(r) \/ Low!Release(r)
  \/ Low!Resume
  \/ UNCHANGED lowVars

LEMMA LowStep ==
  ASSUME LowAction
  PROVE  [LowP!Next]_(LowP!vars)
<1>1. CASE UNCHANGED lowVars
  BY <1>1 DEF lowVars, LowP!vars
<1> QED BY <1>1, LowIsPermitPool DEF LowAction, LowP!Next

LEMMA LowOwners ==
  ASSUME LowP!Owners, LowAction
  PROVE  LowP!Owners'
<1>1. [LowP!Next]_(LowP!vars)
  BY LowStep
<1> QED BY <1>1, LowP!OwnersStep, SizesAssumption, RequestsAssumption

(* What is known of the pool at any time.                                  *)
LEMMA LowFacts ==
  ASSUME LowP!Owners
  PROVE  /\ lowPhase \in [Requests -> {"idle", "waiting", "granted", "released"}]
         /\ \A r \in Requests : lowPhase[r] = "granted" => lowPermitId[r] \in lowIssued
         /\ \A i \in lowIssued : \E r \in Requests : lowPhase[r] = "granted"
         /\ Low!TypeOK
<1>1. Low!TypeOK
  BY LowIsPermitPool DEF LowP!Owners, LowP!IInv
<1>2. lowPhase \in [Requests -> {"idle", "waiting", "granted", "released"}]
  BY <1>1 DEF Low!TypeOK, Low!Phases
<1> QED BY <1>1, <1>2 DEF LowP!Owners, LowP!EachIdHasItsOwner

(* What the steps of the pool do to the phase of a request.                *)
LEMMA LowPhases ==
  ASSUME LowP!Owners
  PROVE  /\ \A r \in Requests : Low!GetPermit(r) =>
              lowPhase' = [lowPhase EXCEPT ![r] = "granted"]
         /\ \A r \in Requests : Low!QueueRequest(r) =>
              lowPhase' = [lowPhase EXCEPT ![r] = "waiting"]
         /\ \A r \in Requests : Low!Release(r) =>
              lowPhase' = [lowPhase EXCEPT ![r] = "released"]
         /\ Low!Resume => \E r \in Requests :
              lowPhase[r] = "waiting" /\ lowPhase' = [lowPhase EXCEPT ![r] = "granted"]
<1>1. ASSUME Low!Resume
      PROVE  \E r \in Requests :
               lowPhase[r] = "waiting" /\ lowPhase' = [lowPhase EXCEPT ![r] = "granted"]
  <2>1. lowWoken # <<>> /\ lowPhase' = [lowPhase EXCEPT ![Head(lowWoken)] = "granted"]
    BY <1>1 DEF Low!Resume, Low!Issue
  <2>2. lowWoken \in Seq(Requests) /\ lowRequested \in Seq(Requests)
    BY LowFacts DEF Low!TypeOK
  <2>3. 1 \in DOMAIN (lowWoken \o lowRequested) /\ (lowWoken \o lowRequested)[1] = Head(lowWoken)
    BY <2>1, <2>2
  <2>4. Head(lowWoken) \in Requests /\ lowPhase[Head(lowWoken)] = "waiting"
    BY <2>3 DEF LowP!Owners, LowP!QueuedOnce, LowP!Queued
  <2> QED BY <2>1, <2>4
<1> QED BY <1>1 DEF Low!GetPermit, Low!QueueRequest, Low!Release, Low!Issue

--------------------------------------------------------------------------------
(* The high pool                                                           *)

(* The pool of FetchAjaxService is the one PermitPoolProofs speaks of.     *)
LEMMA HighIsPermitPool ==
  /\ High!Init <=> HighP!Init
  /\ \A r : /\ High!GetPermit(r) <=> HighP!GetPermit(r)
            /\ High!QueueRequest(r) <=> HighP!QueueRequest(r)
            /\ High!Release(r) <=> HighP!Release(r)
  /\ High!Resume <=> HighP!Resume
  /\ High!TypeOK <=> HighP!TypeOK
<1>1. High!Init <=> HighP!Init
  BY DEF High!Init, HighP!Init
<1>2. \A r : High!GetPermit(r) <=> HighP!GetPermit(r)
  BY DEF High!GetPermit, HighP!GetPermit, High!Issue, HighP!Issue, High!NoFlushResumes,
         HighP!NoFlushResumes, High!Full, HighP!Full, High!Cardinality, HighP!Cardinality
<1>3. \A r : High!QueueRequest(r) <=> HighP!QueueRequest(r)
  BY DEF High!QueueRequest, HighP!QueueRequest, High!NoFlushResumes, HighP!NoFlushResumes,
         High!Full, HighP!Full, High!Cardinality, HighP!Cardinality
<1>4. \A r : High!Release(r) <=> HighP!Release(r)
  BY DEF High!Release, HighP!Release, High!NoFlushResumes, HighP!NoFlushResumes,
         High!PollAndResolve, HighP!PollAndResolve
<1>5. High!Resume <=> HighP!Resume
  BY DEF High!Resume, HighP!Resume, High!Issue, HighP!Issue, High!NoFlushResumes, HighP!NoFlushResumes
<1>6. High!TypeOK <=> HighP!TypeOK
  BY DEF High!TypeOK, HighP!TypeOK, High!Phases, HighP!Phases
<1> QED BY <1>1, <1>2, <1>3, <1>4, <1>5, <1>6

(* The steps of the pool that FetchAjaxService takes.                      *)
HighAction ==
  \/ \E r \in Requests : High!GetPermit(r) \/ High!QueueRequest(r) \/ High!Release(r)
  \/ High!Resume
  \/ UNCHANGED highVars

LEMMA HighStep ==
  ASSUME HighAction
  PROVE  [HighP!Next]_(HighP!vars)
<1>1. CASE UNCHANGED highVars
  BY <1>1 DEF highVars, HighP!vars
<1> QED BY <1>1, HighIsPermitPool DEF HighAction, HighP!Next

LEMMA HighOwners ==
  ASSUME HighP!Owners, HighAction
  PROVE  HighP!Owners'
<1>1. [HighP!Next]_(HighP!vars)
  BY HighStep
<1> QED BY <1>1, HighP!OwnersStep, SizesAssumption, RequestsAssumption

(* What is known of the pool at any time.                                  *)
LEMMA HighFacts ==
  ASSUME HighP!Owners
  PROVE  /\ highPhase \in [Requests -> {"idle", "waiting", "granted", "released"}]
         /\ \A r \in Requests : highPhase[r] = "granted" => highPermitId[r] \in highIssued
         /\ \A i \in highIssued : \E r \in Requests : highPhase[r] = "granted"
         /\ High!TypeOK
<1>1. High!TypeOK
  BY HighIsPermitPool DEF HighP!Owners, HighP!IInv
<1>2. highPhase \in [Requests -> {"idle", "waiting", "granted", "released"}]
  BY <1>1 DEF High!TypeOK, High!Phases
<1> QED BY <1>1, <1>2 DEF HighP!Owners, HighP!EachIdHasItsOwner

(* What the steps of the pool do to the phase of a request.                *)
LEMMA HighPhases ==
  ASSUME HighP!Owners
  PROVE  /\ \A r \in Requests : High!GetPermit(r) =>
              highPhase' = [highPhase EXCEPT ![r] = "granted"]
         /\ \A r \in Requests : High!QueueRequest(r) =>
              highPhase' = [highPhase EXCEPT ![r] = "waiting"]
         /\ \A r \in Requests : High!Release(r) =>
              highPhase' = [highPhase EXCEPT ![r] = "released"]
         /\ High!Resume => \E r \in Requests :
              highPhase[r] = "waiting" /\ highPhase' = [highPhase EXCEPT ![r] = "granted"]
<1>1. ASSUME High!Resume
      PROVE  \E r \in Requests :
               highPhase[r] = "waiting" /\ highPhase' = [highPhase EXCEPT ![r] = "granted"]
  <2>1. highWoken # <<>> /\ highPhase' = [highPhase EXCEPT ![Head(highWoken)] = "granted"]
    BY <1>1 DEF High!Resume, High!Issue
  <2>2. highWoken \in Seq(Requests) /\ highRequested \in Seq(Requests)
    BY HighFacts DEF High!TypeOK
  <2>3. 1 \in DOMAIN (highWoken \o highRequested) /\ (highWoken \o highRequested)[1] = Head(highWoken)
    BY <2>1, <2>2
  <2>4. Head(highWoken) \in Requests /\ highPhase[Head(highWoken)] = "waiting"
    BY <2>3 DEF HighP!Owners, HighP!QueuedOnce, HighP!Queued
  <2> QED BY <2>1, <2>4
<1> QED BY <1>1 DEF High!GetPermit, High!QueueRequest, High!Release, High!Issue

--------------------------------------------------------------------------------
(* The numbers of the permits                                              *)

(* A set of naturals has a smallest member.                                *)
LEMMA MinOfNaturals ==
  ASSUME NEW S \in SUBSET Nat, S # {}
  PROVE  Min(S) \in S
<1> DEFINE R == {ss \in Nat \X Nat : ss[1] < ss[2]}
<1>1. IsWellFoundedOn(R, Nat)
  BY NatLessThanWellFounded, Zenon DEF OpToRel
<1>2. PICK x \in S : \A y \in S : ~ (<<y, x>> \in R)
  <2> HIDE DEF R
  <2> QED BY <1>1, WFMin
<1>3. \A y \in S : x <= y
  <2> SUFFICES ASSUME NEW y \in S, ~ (x <= y) PROVE FALSE
    OBVIOUS
  <2>1. <<y, x>> \in Nat \X Nat /\ y < x
    OBVIOUS
  <2>2. <<y, x>> \in R
    BY <2>1
  <2> QED BY <1>2, <2>2
<1> QED BY <1>3 DEF Min

(* The larger pool has as many slots as its size says.                     *)
LEMMA LargerSize == Max({LowSize, HighSize}) \in Nat \ {0}
<1>1. \E x \in {LowSize, HighSize} : \A y \in {LowSize, HighSize} : x >= y
  BY SizesAssumption
<1> QED BY <1>1, SizesAssumption DEF Max

(* The next number is of the right kind and, unless it says that none was  *)
(* free, no permit in the Map has it.                                      *)
LEMMA NextIdIsFree ==
  ASSUME OuterTypeOK, MapIsSound
  PROVE  /\ NextId \in PermitIds
         /\ NextId # -1 => \A r \in issued : permitId[r] # NextId
         /\ ~LockBased => NextId = nextPermitId
<1>1. CASE ~LockBased
  BY <1>1 DEF OuterTypeOK, MapIsSound, NextId, PermitIds
<1>2. CASE LockBased /\ FreeIds = {}
  BY <1>2, LargerSize DEF NextId, PermitIds
<1>3. CASE LockBased /\ FreeIds # {}
  <2>1. FreeIds \in SUBSET Nat
    BY LargerSize DEF FreeIds
  <2>2. NextId \in FreeIds
    BY <1>3, <2>1, MinOfNaturals DEF NextId
  <2>3. NextId \in 0 .. Max({LowSize, HighSize}) - 1 /\ NextId \notin {permitId[r] : r \in issued}
    BY <2>2 DEF FreeIds
  <2> QED BY <1>3, <2>3, LargerSize DEF PermitIds
<1> QED BY <1>1, <1>2, <1>3

--------------------------------------------------------------------------------
(* The outer pool                                                          *)

(* A request that wraps its permit enters the Map and drives nobody out.   *)
LEMMA WrapKeepsMap ==
  ASSUME OuterTypeOK, MapIsSound, NEW r \in Requests, pc[r] \notin Owning,
         WrapPermit(r), UNCHANGED <<flushing, tabLocked>>
  PROVE  OuterTypeOK' /\ MapIsSound'
<1>1. /\ pc' = [pc EXCEPT ![r] = "permit"] /\ pc \in [Requests -> Stages]
      /\ permitId' = [permitId EXCEPT ![r] = NextId] /\ permitId \in [Requests -> PermitIds]
      /\ issued' = WithoutId(NextId) \cup {r} /\ issued \subseteq Requests
      /\ nextPermitId' = IF LockBased THEN nextPermitId ELSE nextPermitId + 1
      /\ nextPermitId \in Nat
  BY DEF OuterTypeOK, WrapPermit, GoTo
<1>2. OuterTypeOK'
  <2>1. pc' \in [Requests -> Stages] /\ permitId' \in [Requests -> PermitIds]
    BY <1>1, NextIdIsFree DEF Stages
  <2>2. issued' \in SUBSET Requests /\ nextPermitId' \in Nat
    BY <1>1 DEF WithoutId
  <2> QED BY <2>1, <2>2 DEF OuterTypeOK
<1>3. /\ r \notin issued
      /\ \A s \in Requests : s # r => pc'[s] = pc[s] /\ permitId'[s] = permitId[s]
      /\ pc'[r] = "permit" /\ permitId'[r] = NextId
  BY <1>1 DEF MapIsSound
<1>4. /\ \A s \in issued' : s = r \/ (s \in issued /\ permitId[s] # NextId)
      /\ \A s \in issued : s \in issued' \/ permitId[s] = NextId
  BY <1>1 DEF WithoutId
<1>5. \A s \in issued' : pc'[s] \in Owning
  BY <1>1, <1>3, <1>4 DEF MapIsSound, Owning
<1>6. \A s, t \in issued' : s # t => permitId'[s] # permitId'[t]
  BY <1>1, <1>3, <1>4 DEF MapIsSound
<1>7. ~LockBased => \A s \in issued' : permitId'[s] < nextPermitId'
  BY <1>1, <1>3, <1>4, NextIdIsFree DEF MapIsSound, PermitIds
<1>8. flushing' = "never" => \A s \in Requests : pc'[s] \in Owning /\ permitId'[s] # -1 => s \in issued'
  BY <1>1, <1>3, <1>4, NextIdIsFree DEF MapIsSound
<1> QED BY <1>2, <1>5, <1>6, <1>7, <1>8 DEF MapIsSound

(* A permit that is given back leaves the Map alone: by flush() or for good. *)
LEMMA ReleaseKeepsMap ==
  ASSUME OuterTypeOK, MapIsSound, NEW r \in Requests, ReleasePermit(r), UNCHANGED tabLocked,
         flushing' \in {"never", "no", "yes"}, flushing' = "never" <=> flushing = "never",
         \/ flushing # "never" /\ pc' = pc
         \/ \E stage \in {"unlocking", "settled"} : pc[r] \in Owning /\ GoTo(r, stage)
  PROVE  OuterTypeOK' /\ MapIsSound'
<1>1. /\ pc \in [Requests -> Stages] /\ permitId \in [Requests -> PermitIds]
      /\ issued' = {s \in issued : permitId[s] # permitId[r]} /\ issued \subseteq Requests
      /\ UNCHANGED <<permitId, nextPermitId>>
  BY DEF OuterTypeOK, ReleasePermit, WithoutId
<1>2. pc' \in [Requests -> Stages] /\ \A s \in Requests : s # r => pc'[s] = pc[s]
  BY <1>1 DEF GoTo, Stages
<1>3. OuterTypeOK'
  BY <1>1, <1>2 DEF OuterTypeOK
<1>4. \A s \in issued' : s # r /\ s \in issued /\ pc'[s] \in Owning
  BY <1>1, <1>2 DEF MapIsSound
<1>5. ASSUME flushing' = "never", NEW s \in Requests, pc'[s] \in Owning, permitId'[s] # -1
      PROVE  s \in issued'
  <2>1. flushing = "never" /\ pc[r] \in Owning /\ pc'[r] \notin Owning
    BY <1>1, <1>5 DEF GoTo, Owning
  <2>2. s # r /\ s \in issued
    BY <1>1, <1>2, <1>5, <2>1 DEF MapIsSound
  <2>3. permitId[s] # permitId[r]
    BY <1>1, <1>5, <2>1, <2>2 DEF MapIsSound
  <2> QED BY <1>1, <2>2, <2>3
<1> QED BY <1>1, <1>3, <1>4, <1>5 DEF MapIsSound

(* Steps that leave the outer pool alone.                                  *)
LEMMA RestKeepsMap ==
  ASSUME OuterTypeOK, MapIsSound, UNCHANGED poolVars, tabLocked' \in SUBSET TabLocks,
         flushing' \in {"never", "no", "yes"}, flushing' = "never" <=> flushing = "never",
         \/ pc' = pc
         \/ \E r \in Requests, stage \in Stages :
              (pc[r] \in Owning <=> stage \in Owning) /\ GoTo(r, stage)
  PROVE  OuterTypeOK' /\ MapIsSound'
<1>1. /\ pc' \in [Requests -> Stages]
      /\ \A s \in Requests : pc'[s] \in Owning <=> pc[s] \in Owning
  BY DEF OuterTypeOK, GoTo
<1>2. UNCHANGED <<issued, permitId, nextPermitId>>
  BY DEF poolVars
<1> QED BY <1>1, <1>2 DEF OuterTypeOK, MapIsSound

--------------------------------------------------------------------------------
(* How far the requests are                                                *)

(* A step of one request does not touch how far the others are.            *)
LEMMA OthersFit ==
  ASSUME NEW r \in Requests, \A s \in Requests : StageFits(s), StageFits(r)',
         flushing' = "never" <=> flushing = "never",
         \A s \in Requests : s # r => /\ pc'[s] = pc[s]
                                      /\ lowPhase'[s] = lowPhase[s]
                                      /\ highPhase'[s] = highPhase[s]
  PROVE  \A s \in Requests : StageFits(s)'
<1> SUFFICES ASSUME NEW s \in Requests, s # r PROVE StageFits(s)'
  OBVIOUS
<1>1. Out' = Out
  BY DEF Out
<1>2. /\ pc'[s] = pc[s] /\ lowPhase'[s] = lowPhase[s] /\ highPhase'[s] = highPhase[s]
      /\ StageFits(s) /\ UsesLow(s)' = UsesLow(s) /\ UsesHigh(s)' = UsesHigh(s)
  BY DEF UsesLow, UsesHigh
<1> QED BY <1>1, <1>2 DEF StageFits

(* What IInv knows of the inner pools.                                     *)
LEMMA Facts ==
  ASSUME IInv
  PROVE  /\ pc \in [Requests -> Stages]
         /\ lowPhase \in [Requests -> {"idle", "waiting", "granted", "released"}]
         /\ highPhase \in [Requests -> {"idle", "waiting", "granted", "released"}]
         /\ \A r \in Requests : StageFits(r)
BY LowFacts, HighFacts DEF IInv, OuterTypeOK

(* A request asks the low pool.                                            *)
LEMMA AsksLow ==
  ASSUME IInv, NEW r \in Requests, pc[r] = "idle", UsesLow(r), AskLow(r), UNCHANGED flushing
  PROVE  LowAction /\ HighAction /\ \A s \in Requests : StageFits(s)'
<1>1. /\ pc' = [pc EXCEPT ![r] = "low"] /\ UNCHANGED highVars
      /\ \E p \in {"waiting", "granted"} : lowPhase' = [lowPhase EXCEPT ![r] = p]
      /\ LowAction /\ HighAction
  BY LowPhases DEF AskLow, GoTo, IInv, LowAction, HighAction
<1>2. highPhase' = highPhase
  BY <1>1 DEF highVars
<1>3. StageFits(r)'
  BY <1>1, <1>2, Facts DEF StageFits, UsesLow, Owning
<1>4. \A s \in Requests : s # r => pc'[s] = pc[s] /\ lowPhase'[s] = lowPhase[s]
  BY <1>1, Facts
<1> QED BY <1>1, <1>2, <1>3, <1>4, Facts, OthersFit

(* A request asks the high pool, first or with a slot of the low one.      *)
LEMMA AsksHigh ==
  ASSUME IInv, NEW r \in Requests, UsesHigh(r), AskHigh(r), UNCHANGED flushing,
         \/ pc[r] = "idle" /\ ~UsesLow(r)
         \/ pc[r] = "low" /\ lowPhase[r] = "granted"
  PROVE  LowAction /\ HighAction /\ \A s \in Requests : StageFits(s)'
<1>1. /\ pc' = [pc EXCEPT ![r] = "high"] /\ UNCHANGED lowVars
      /\ \E p \in {"waiting", "granted"} : highPhase' = [highPhase EXCEPT ![r] = p]
      /\ LowAction /\ HighAction
  BY HighPhases DEF AskHigh, GoTo, IInv, LowAction, HighAction
<1>2. lowPhase' = lowPhase
  BY <1>1 DEF lowVars
<1>3. StageFits(r)'
  BY <1>1, <1>2, Facts DEF StageFits, UsesLow, UsesHigh, Owning
<1>4. \A s \in Requests : s # r => pc'[s] = pc[s] /\ highPhase'[s] = highPhase[s]
  BY <1>1, Facts
<1> QED BY <1>1, <1>2, <1>3, <1>4, Facts, OthersFit

(* A request moves on while the inner pools stand still.                   *)
LEMMA MovesOn ==
  ASSUME IInv, NEW r \in Requests, NEW stage \in Stages, GoTo(r, stage),
         UNCHANGED <<lowVars, highVars, flushing>>, StageFits(r)'
  PROVE  LowAction /\ HighAction /\ \A s \in Requests : StageFits(s)'
<1>1. UNCHANGED <<lowPhase, highPhase>>
  BY DEF lowVars, highVars
<1>2. \A s \in Requests : s # r => pc'[s] = pc[s]
  BY Facts DEF GoTo
<1> QED BY <1>1, <1>2, Facts, OthersFit DEF LowAction, HighAction

(* A request that has all its slots holds them: it owns a permit.          *)
LEMMA HasItsSlots ==
  ASSUME NEW r \in Requests, StageFits(r),
         \/ pc[r] = "low" /\ lowPhase[r] = "granted" /\ ~UsesHigh(r)
         \/ pc[r] = "high" /\ highPhase[r] = "granted"
         \/ pc[r] \in Owning
  PROVE  /\ lowPhase[r] \in IF UsesLow(r) THEN Out ELSE {"idle"}
         /\ highPhase[r] \in IF UsesHigh(r) THEN Out ELSE {"idle"}
BY DEF StageFits, Out

(* Giving back what a request took from the inner pools.                   *)
LEMMA GivesBack ==
  ASSUME IInv, NEW r \in Requests, pc[r] \in Owning, ReleaseInner(r),
         flushing' = "never" <=> flushing = "never",
         \/ pc' = pc /\ flushing # "never"
         \/ \E stage \in {"unlocking", "settled"} : GoTo(r, stage)
  PROVE  LowAction /\ HighAction /\ \A s \in Requests : StageFits(s)'
<1>1. /\ LowAction
      /\ lowPhase' = IF UsesLow(r) THEN [lowPhase EXCEPT ![r] = "released"] ELSE lowPhase
  BY LowPhases DEF ReleaseInner, LowAction, lowVars, IInv
<1>2. /\ HighAction
      /\ highPhase' = IF UsesHigh(r) THEN [highPhase EXCEPT ![r] = "released"] ELSE highPhase
  BY HighPhases DEF ReleaseInner, HighAction, highVars, IInv
<1>3. /\ lowPhase'[r] = IF UsesLow(r) THEN "released" ELSE "idle"
      /\ highPhase'[r] = IF UsesHigh(r) THEN "released" ELSE "idle"
  BY <1>1, <1>2, Facts, HasItsSlots
<1>4. \/ pc'[r] \in Owning /\ flushing' # "never"
      \/ pc'[r] \in {"unlocking", "settled"}
  BY Facts DEF GoTo
<1>5. StageFits(r)'
  BY <1>3, <1>4 DEF StageFits, Owning, Out, UsesLow, UsesHigh
<1>6. \A s \in Requests : s # r => /\ pc'[s] = pc[s]
                                   /\ lowPhase'[s] = lowPhase[s]
                                   /\ highPhase'[s] = highPhase[s]
  BY <1>1, <1>2, Facts DEF GoTo
<1> QED BY <1>1, <1>2, <1>5, <1>6, Facts, OthersFit

--------------------------------------------------------------------------------
(* The inductive invariant                                                 *)

LEMMA IInvInit == Init => IInv
<1> SUFFICES ASSUME Init PROVE IInv
  OBVIOUS
<1>1. LowP!Owners /\ HighP!Owners
  BY LowIsPermitPool, HighIsPermitPool, LowP!OwnersInit, HighP!OwnersInit, SizesAssumption,
     RequestsAssumption DEF Init
<1>2. 0 \in PermitIds
  BY LargerSize DEF PermitIds
<1>3. OuterTypeOK /\ MapIsSound
  BY <1>2 DEF Init, OuterTypeOK, MapIsSound, Stages, Owning
<1>4. \A r \in Requests : StageFits(r)
  BY DEF Init, StageFits, Owning, Low!Init, High!Init
<1> QED BY <1>1, <1>3, <1>4 DEF IInv

(* The parts of IInv are kept one by one.                                  *)
LEMMA PartsStep ==
  ASSUME IInv, LowAction, HighAction, OuterTypeOK', MapIsSound',
         \A r \in Requests : StageFits(r)'
  PROVE  IInv'
BY LowOwners, HighOwners DEF IInv

(* A call queued in an inner pool resumes: it waited there, so it gets on. *)
LEMMA LowResumesStep ==
  ASSUME IInv, LowResumes
  PROVE  IInv'
<1>1. PICK r \in Requests : lowPhase[r] = "waiting" /\ lowPhase' = [lowPhase EXCEPT ![r] = "granted"]
  BY LowPhases DEF LowResumes, IInv
<1>2. UNCHANGED <<highPhase, pc, flushing>>
  BY DEF LowResumes, highVars
<1>3. pc[r] = "low" /\ lowPhase'[r] = "granted"
  BY <1>1, Facts DEF StageFits, Owning, Out, Stages
<1>4. StageFits(r)'
  BY <1>2, <1>3, Facts DEF StageFits, UsesLow, Owning
<1>5. \A s \in Requests : StageFits(s)'
  BY <1>1, <1>2, <1>4, Facts, OthersFit
<1>6. OuterTypeOK' /\ MapIsSound'
  BY RestKeepsMap DEF LowResumes, IInv, OuterTypeOK
<1> QED BY <1>5, <1>6, PartsStep DEF LowResumes, LowAction, HighAction

LEMMA HighResumesStep ==
  ASSUME IInv, HighResumes
  PROVE  IInv'
<1>1. PICK r \in Requests : highPhase[r] = "waiting" /\ highPhase' = [highPhase EXCEPT ![r] = "granted"]
  BY HighPhases DEF HighResumes, IInv
<1>2. UNCHANGED <<lowPhase, pc, flushing>>
  BY DEF HighResumes, lowVars
<1>3. pc[r] = "high" /\ highPhase'[r] = "granted"
  BY <1>1, Facts DEF StageFits, Owning, Out, Stages
<1>4. StageFits(r)'
  BY <1>2, <1>3, Facts DEF StageFits, UsesLow, UsesHigh, Owning
<1>5. \A s \in Requests : StageFits(s)'
  BY <1>1, <1>2, <1>4, Facts, OthersFit
<1>6. OuterTypeOK' /\ MapIsSound'
  BY RestKeepsMap DEF HighResumes, IInv, OuterTypeOK
<1> QED BY <1>5, <1>6, PartsStep DEF HighResumes, LowAction, HighAction

(* A request that has all its slots wraps them in a permit.                *)
LEMMA WrapStep ==
  ASSUME IInv, NEW r \in Requests, WrapPermit(r),
         UNCHANGED <<lowVars, highVars, flushing, tabLocked>>,
         \/ pc[r] = "low" /\ lowPhase[r] = "granted" /\ ~UsesHigh(r)
         \/ pc[r] = "high" /\ highPhase[r] = "granted"
  PROVE  IInv'
<1>1. OuterTypeOK' /\ MapIsSound'
  BY WrapKeepsMap DEF IInv, Owning
<1>2. GoTo(r, "permit") /\ pc'[r] = "permit"
  BY Facts DEF WrapPermit, GoTo
<1>3. UNCHANGED <<lowPhase, highPhase, Out>>
  BY DEF lowVars, highVars, Out
<1>4. StageFits(r)'
  BY <1>2, <1>3, Facts, HasItsSlots DEF StageFits, UsesLow, UsesHigh
<1>5. LowAction /\ HighAction /\ \A s \in Requests : StageFits(s)'
  BY <1>2, <1>4, MovesOn DEF Stages
<1> QED BY <1>1, <1>5, PartsStep

(* A request that owns a permit moves on with it, or leaves its lock.      *)
LEMMA MoveStep ==
  ASSUME IInv, NEW r \in Requests, NEW stage \in Stages, GoTo(r, stage),
         UNCHANGED <<lowVars, highVars, poolVars, flushing, tabLocked>>,
         \/ {pc[r], stage} \subseteq Owning
         \/ {pc[r], stage} \subseteq {"unlocking", "settled"}
  PROVE  IInv'
<1>1. OuterTypeOK' /\ MapIsSound'
  <2>1. pc[r] \in Owning <=> stage \in Owning
    BY DEF Owning
  <2> QED BY <2>1, RestKeepsMap DEF IInv, OuterTypeOK
<1>2. pc'[r] = stage /\ UNCHANGED <<lowPhase, highPhase, Out>>
  BY Facts DEF GoTo, lowVars, highVars, Out
<1>3. StageFits(r)'
  BY <1>2, Facts DEF StageFits, UsesLow, UsesHigh, Owning
<1>4. LowAction /\ HighAction /\ \A s \in Requests : StageFits(s)'
  BY <1>3, MovesOn
<1> QED BY <1>1, <1>4, PartsStep

(* A permit is given back: by the flush or at the end of the fetch.        *)
LEMMA ReleaseStep ==
  ASSUME IInv, NEW r \in Requests, pc[r] \in Owning, ReleasePermit(r), UNCHANGED tabLocked,
         flushing' \in {"never", "no", "yes"}, flushing' = "never" <=> flushing = "never",
         \/ pc' = pc /\ flushing # "never"
         \/ \E stage \in {"unlocking", "settled"} : GoTo(r, stage)
  PROVE  IInv'
<1>1. OuterTypeOK' /\ MapIsSound'
  BY ReleaseKeepsMap DEF IInv
<1>2. LowAction /\ HighAction /\ \A s \in Requests : StageFits(s)'
  BY GivesBack DEF ReleasePermit
<1> QED BY <1>1, <1>2, PartsStep

(* Steps that leave the pools and the requests alone.                      *)
LEMMA StillStep ==
  ASSUME IInv, UNCHANGED <<lowVars, highVars, pc, poolVars>>, tabLocked' \in SUBSET TabLocks,
         flushing' \in {"never", "no", "yes"}, flushing' = "never" <=> flushing = "never"
  PROVE  IInv'
<1>1. OuterTypeOK' /\ MapIsSound'
  BY RestKeepsMap DEF IInv
<1>2. UNCHANGED <<lowPhase, highPhase, Out>>
  BY DEF lowVars, highVars, Out
<1>3. \A r \in Requests : StageFits(r)'
  BY <1>2, Facts DEF StageFits, UsesLow, UsesHigh
<1> QED BY <1>1, <1>3, PartsStep DEF LowAction, HighAction

\* Every step of FetchAjaxService keeps IInv: the parts about one request because
\* no step moves two, those about the pools because each of their steps is one
\* PermitPoolProofs knows.
LEMMA IInvStep == IInv /\ [Next]_vars => IInv'
<1> SUFFICES ASSUME IInv, [Next]_vars PROVE IInv'
  OBVIOUS
<1>1. ASSUME NEW r \in Requests, FetchResponse(r) PROVE IInv'
  <2>1. pc[r] = "idle" /\ UNCHANGED <<poolVars, flushing, tabLocked>>
    BY <1>1 DEF FetchResponse, At
  <2>2. UsesLow(r) \/ UsesHigh(r)
    BY DEF UsesLow, UsesHigh
  <2>3. \E stage \in {"low", "high"} : GoTo(r, stage)
    BY <1>1 DEF FetchResponse, AskLow, AskHigh
  <2>4. OuterTypeOK' /\ MapIsSound'
    BY <2>1, <2>3, RestKeepsMap DEF IInv, OuterTypeOK, Owning, Stages
  <2>5. LowAction /\ HighAction /\ \A s \in Requests : StageFits(s)'
    BY <1>1, <2>1, <2>2, AsksLow, AsksHigh DEF FetchResponse
  <2> QED BY <2>4, <2>5, PartsStep
<1>2. ASSUME NEW r \in Requests, GotLow(r) PROVE IInv'
  <2>1. pc[r] = "low" /\ lowPhase[r] = "granted" /\ UNCHANGED <<flushing, tabLocked>>
    BY <1>2 DEF GotLow, At
  <2>2. CASE UsesHigh(r)
    <3>1. AskHigh(r) /\ UNCHANGED poolVars
      BY <1>2, <2>2 DEF GotLow
    <3>2. OuterTypeOK' /\ MapIsSound'
      BY <2>1, <3>1, RestKeepsMap DEF AskHigh, IInv, OuterTypeOK, Owning, Stages
    <3> QED BY <2>1, <2>2, <3>1, <3>2, AsksHigh, PartsStep
  <2>3. CASE ~UsesHigh(r)
    BY <1>2, <2>1, <2>3, WrapStep DEF GotLow
  <2> QED BY <2>2, <2>3
<1>3. ASSUME NEW r \in Requests, GotHigh(r) PROVE IInv'
  BY <1>3, WrapStep DEF GotHigh, At
<1>4. ASSUME NEW r \in Requests, GotPermit(r) PROVE IInv'
  BY <1>4, MoveStep DEF GotPermit, At, Owning, Stages
<1>5. ASSUME NEW r \in Requests, GotLock(r) PROVE IInv'
  BY <1>5, MoveStep DEF GotLock, At, Owning, Stages
<1>6. ASSUME NEW r \in Requests, FinishFetch(r) PROVE IInv'
  <2>1. pc[r] \in Owning /\ ReleasePermit(r) /\ UNCHANGED <<flushing, tabLocked>>
    BY <1>6 DEF FinishFetch, At, Owning
  <2>2. \E stage \in {"unlocking", "settled"} : GoTo(r, stage)
    BY <1>6 DEF FinishFetch
  <2> QED BY <2>1, <2>2, ReleaseStep DEF IInv, OuterTypeOK
<1>7. ASSUME NEW r \in Requests, Unlock(r) PROVE IInv'
  BY <1>7, MoveStep DEF Unlock, At, Stages
<1>8. ASSUME NEW r \in Requests, FlushRelease(r) PROVE IInv'
  <2>1. pc[r] \in Owning /\ flushing = "yes" /\ flushing' \in {"no", "yes"}
    BY <1>8 DEF FlushRelease, IInv, MapIsSound
  <2> QED BY <1>8, <2>1, ReleaseStep DEF FlushRelease
<1>9. CASE LowResumes
  BY <1>9, LowResumesStep
<1>10. CASE HighResumes
  BY <1>10, HighResumesStep
<1>11. CASE Flush
  BY <1>11, StillStep DEF Flush, IInv, OuterTypeOK
<1>12. ASSUME NEW id \in TabLocks, TabLock(id) \/ TabUnlock(id) PROVE IInv'
  BY <1>12, StillStep DEF TabLock, TabUnlock, IInv, OuterTypeOK
<1>13. CASE UNCHANGED vars
  BY <1>13, StillStep DEF vars, IInv, OuterTypeOK
<1> QED BY <1>1, <1>2, <1>3, <1>4, <1>5, <1>6, <1>7, <1>8, <1>9, <1>10, <1>11, <1>12, <1>13
        DEF Next, Proceed

--------------------------------------------------------------------------------
(* The theorems                                                            *)

\* In every reachable state, how far a request is, what it holds of the inner
\* pools and what the Map holds for it agree.
THEOREM FetchIInv == Spec => []IInv
<1> QED BY IInvInit, IInvStep, PTL DEF Spec

\* Every variable keeps its type: under LockBased an id is the name of one of the
\* locks or says that none was free.
THEOREM FetchTypeOK == Spec => []TypeOK
<1>1. IInv => TypeOK
  BY LowFacts, HighFacts DEF IInv, OuterTypeOK, TypeOK
<1> QED BY <1>1, FetchIInv, PTL

\* Unless permits are flushed, a fetch runs only with a slot of every pool it has
\* to pass, in whatever order the requests asked, waited and were woken.
THEOREM FetchesHoldTheirSlots == Spec => []FetchHoldsItsSlots
<1>1. IInv => FetchHoldsItsSlots
  <2> SUFFICES ASSUME IInv, flushing = "never", NEW r \in Requests, pc[r] \in Owning
               PROVE  /\ UsesLow(r) => lowPermitId[r] \in lowIssued /\ lowPhase[r] = "granted"
                      /\ UsesHigh(r) => highPermitId[r] \in highIssued /\ highPhase[r] = "granted"
    BY DEF FetchHoldsItsSlots
  <2>1. /\ UsesLow(r) => lowPhase[r] = "granted"
        /\ UsesHigh(r) => highPhase[r] = "granted"
    BY Facts, HasItsSlots DEF Out
  <2> QED BY <2>1, LowFacts, HighFacts DEF IInv
<1> QED BY <1>1, FetchIInv, PTL

\* Once every request has settled, flushed or not, no pool has a permit out.
THEOREM FetchesLeakNothing == Spec => []NothingLeaks
<1>1. IInv => NothingLeaks
  <2> SUFFICES ASSUME IInv, \A r \in Requests : pc[r] \in {"idle", "settled"}
               PROVE  lowIssued = {} /\ highIssued = {} /\ issued = {}
    BY DEF NothingLeaks
  <2>1. \A r \in Requests : lowPhase[r] # "granted" /\ highPhase[r] # "granted"
    BY Facts DEF StageFits
  <2>2. lowIssued = {} /\ highIssued = {}
    BY <2>1, LowFacts, HighFacts DEF IInv
  <2>3. issued = {}
    BY DEF IInv, MapIsSound, OuterTypeOK, Owning
  <2> QED BY <2>2, <2>3
<1> QED BY <1>1, FetchIInv, PTL

\* Unless permits are flushed, no two requests share the id of a permit, and so
\* the name of a lock, but the id that says no lock was free.
THEOREM FetchIdsDistinct == Spec => []OutstandingIdsDistinct
<1>1. IInv => OutstandingIdsDistinct
  BY DEF IInv, MapIsSound, OutstandingIdsDistinct
<1> QED BY <1>1, FetchIInv, PTL

--------------------------------------------------------------------------------
(* The slots of the last pool                                              *)

(* What a request with all its slots holds of the pool it passed last.     *)
LastIdOf(r) == IF HasPermission THEN highPermitId[r] ELSE lowPermitId[r]
LastPhaseOf(r) == IF HasPermission THEN highPhase[r] ELSE lowPhase[r]

LEMMA LastPool ==
  ASSUME IInv
  PROVE  /\ IsFiniteSet(LastIssued)
         /\ \A r \in Requests : LastPhaseOf(r) = "granted" => LastIdOf(r) \in LastIssued
         /\ \A r, s \in Requests :
              LastPhaseOf(r) = "granted" /\ LastPhaseOf(s) = "granted" /\ r # s => LastIdOf(r) # LastIdOf(s)
         /\ flushing = "never" => \A r \in Requests : pc[r] \in Owning => LastPhaseOf(r) = "granted"
<1>1. IsFiniteSet(lowIssued) /\ IsFiniteSet(highIssued)
  BY DEF IInv, LowP!Owners, HighP!Owners, LowP!IInv, HighP!IInv, IsFiniteSet,
         LowP!IsFiniteSet, HighP!IsFiniteSet
<1>2. flushing = "never" => \A r \in Requests : pc[r] \in Owning =>
        /\ UsesLow(r) => lowPhase[r] = "granted"
        /\ UsesHigh(r) => highPhase[r] = "granted"
  BY Facts, HasItsSlots DEF Out
<1>3. HasPermission => \A r \in Requests : UsesHigh(r)
  BY DEF UsesHigh
<1>4. ~HasPermission => \A r \in Requests : UsesLow(r)
  BY DEF UsesLow
<1>5. CASE HasPermission
  BY <1>1, <1>2, <1>3, <1>5
  DEF IInv, HighP!Owners, HighP!EachIdHasItsOwner, HighP!Held, LastIssued, LastIdOf, LastPhaseOf
<1>6. CASE ~HasPermission
  BY <1>1, <1>2, <1>4, <1>6
  DEF IInv, LowP!Owners, LowP!EachIdHasItsOwner, LowP!Held, LastIssued, LastIdOf, LastPhaseOf
<1> QED BY <1>5, <1>6

(* A request without an id: every id is that of a permit in the Map, whose *)
(* owner holds a slot, and the request itself holds one more.              *)
LEMMA NoIdMeansOverIssue ==
  ASSUME IInv, flushing = "never", LockBased, FreeIds = {},
         NEW r \in Requests, r \notin issued, LastPhaseOf(r) = "granted"
  PROVE  Cardinality(LastIssued) > LastSize
<1> DEFINE N == Max({LowSize, HighSize})
           Owner(i) == CHOOSE s \in issued : permitId[s] = i
           Slot == [i \in 0 .. N |-> LastIdOf(IF i = N THEN r ELSE Owner(i))]
<1>1. N \in Nat \ {0} /\ N >= LastSize
  <2>1. \E x \in {LowSize, HighSize} : \A y \in {LowSize, HighSize} : x >= y
    BY SizesAssumption
  <2>2. N \in {LowSize, HighSize} /\ \A y \in {LowSize, HighSize} : N >= y
    BY <2>1 DEF Max
  <2> QED BY <2>2, SizesAssumption DEF LastSize
<1> HIDE DEF N
<1>2. \A i \in 0 .. N - 1 : Owner(i) \in issued /\ permitId[Owner(i)] = i
  <2> SUFFICES ASSUME NEW i \in 0 .. N - 1
               PROVE  \E s \in issued : permitId[s] = i
    OBVIOUS
  <2> QED BY DEF FreeIds, N
<1>3. issued \subseteq Requests /\ \A s \in issued : LastPhaseOf(s) = "granted"
  BY LastPool DEF IInv, OuterTypeOK, MapIsSound
<1> HIDE DEF Owner
<1> DEFINE Holder(i) == IF i = N THEN r ELSE Owner(i)
<1>4. \A i \in 0 .. N : Holder(i) \in Requests /\ LastPhaseOf(Holder(i)) = "granted"
  BY <1>1, <1>2, <1>3
<1>5. \A i, j \in 0 .. N : i # j => Holder(i) # Holder(j)
  BY <1>1, <1>2
<1>6. \A i \in 0 .. N : Slot[i] = LastIdOf(Holder(i))
  OBVIOUS
<1>7. Slot \in [0 .. N -> LastIssued]
  BY <1>4, LastPool
<1>8. \A i, j \in 0 .. N : Slot[i] = Slot[j] => i = j
  <2> SUFFICES ASSUME NEW i \in 0 .. N, NEW j \in 0 .. N, i # j PROVE Slot[i] # Slot[j]
    OBVIOUS
  <2> HIDE DEF Slot, Holder
  <2> QED BY <1>4, <1>5, <1>6, LastPool
<1> HIDE DEF Slot
<1>9. Slot \in Injection(0 .. N, LastIssued)
  BY <1>7, <1>8 DEF Injection, IsInjective
<1>10. Cardinality(0 .. N) <= Cardinality(LastIssued)
  BY <1>9, LastPool, FS_Injection
<1>11. Cardinality(0 .. N) = N + 1
  BY <1>1, FS_Interval
<1>12. Cardinality(LastIssued) \in Nat
  BY LastPool, FS_CardinalityType
<1> QED BY <1>1, <1>10, <1>11, <1>12, SizesAssumption DEF LastSize

\* Unless permits are flushed, a request goes without an id only while the pool it
\* passed last has issued more permits than it has slots.
THEOREM FetchNoIdOnlyBeyondLimit == Spec => NoIdOnlyBeyondLimit
<1> DEFINE Numbered ==
      \A r \in Requests :
        flushing = "never" /\ pc[r] # "permit" /\ pc'[r] = "permit" /\ permitId'[r] = -1
        => Cardinality(LastIssued) > LastSize
<1>1. ASSUME IInv, [Next]_vars PROVE [Numbered]_vars
  <2> SUFFICES ASSUME Next, NEW r \in Requests, flushing = "never", pc[r] # "permit",
                      pc'[r] = "permit", permitId'[r] = -1
               PROVE  Cardinality(LastIssued) > LastSize
    BY <1>1
  <2>1. pc \in [Requests -> Stages] /\ permitId \in [Requests -> PermitIds] /\ nextPermitId \in Nat
    BY <1>1 DEF IInv, OuterTypeOK
  <2>2. \/ GotLow(r) /\ ~UsesHigh(r) /\ WrapPermit(r)
        \/ GotHigh(r) /\ WrapPermit(r)
    BY <2>1 DEF Next, Proceed, FetchResponse, AskLow, AskHigh, GotLow, GotHigh, GotPermit, GotLock,
                FinishFetch, Unlock, FlushRelease, LowResumes, HighResumes, Flush, TabLock,
                TabUnlock, GoTo, WrapPermit, At
  <2>3. NextId = -1
    BY <2>1, <2>2 DEF WrapPermit
  <2>4. LockBased /\ FreeIds = {}
    <3>1. LockBased
      BY <2>1, <2>3 DEF NextId
    <3>2. FreeIds \in SUBSET Nat
      BY LargerSize DEF FreeIds
    <3>3. FreeIds # {} => Min(FreeIds) \in Nat
      BY <3>2, MinOfNaturals
    <3>4. FreeIds # {} => NextId = Min(FreeIds)
      BY <3>1 DEF NextId
    <3> QED BY <2>3, <3>1, <3>3, <3>4
  <2>5. pc[r] \in {"low", "high"} /\ r \notin issued
    BY <1>1, <2>2 DEF GotLow, GotHigh, At, IInv, MapIsSound, Owning
  <2>6. LastPhaseOf(r) = "granted"
    <3>1. CASE GotLow(r) /\ ~UsesHigh(r)
      BY <3>1 DEF GotLow, LastPhaseOf, UsesHigh
    <3>2. CASE GotHigh(r)
      <4>1. pc[r] = "high" /\ highPhase[r] = "granted"
        BY <3>2 DEF GotHigh, At
      <4>2. StageFits(r)
        BY <1>1 DEF IInv
      <4>3. HasPermission
        BY <4>1, <4>2 DEF StageFits, UsesHigh
      <4> QED BY <4>1, <4>3 DEF LastPhaseOf
    <3> QED BY <2>2, <3>1, <3>2
  <2> QED BY <1>1, <2>4, <2>5, <2>6, NoIdMeansOverIssue
<1> QED BY <1>1, FetchIInv, PTL DEF Spec, NoIdOnlyBeyondLimit
================================================================================
