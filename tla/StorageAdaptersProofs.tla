------------------------- MODULE StorageAdaptersProofs -------------------------
(***************************************************************************)
(* Theorems about the storage adapters, for all sets of adapters, tables,  *)
(* items, sizes, marks, values and keys.                                   *)
(*                                                                         *)
(* Opening (IndexedDBOpen): the type invariant, that the first outcome of  *)
(* an initialisation stays, and that adapters which open the database in   *)
(* any order never make each other fail or lose a table.                   *)
(* The size (IndexedDBSize): a sweep brings the table below the mark, and  *)
(* a fresh guess is exact.                                                 *)
(* Encryption (CryptoAdapter): all that is in the table is encrypted with  *)
(* one key, and an answered write is what the table has.                   *)
(***************************************************************************)
EXTENDS StorageAdapters, FiniteSetTheorems, SequenceTheorems, WellFoundedInduction, TLAPS

Request == [by : Adapters, version : Nat, kind : {"open", "delete"}]
Event == {"success", "error", "versionchange"}

--------------------------------------------------------------------------------
(* Sequences                                                               *)

(* What the rest of a queue holds was behind its head.                     *)
LEMMA TailElements ==
  ASSUME NEW S, NEW s \in Seq(S), s # <<>>
  PROVE  /\ Tail(s) \in Seq(S)
         /\ Head(s) = s[1] /\ Head(s) \in S /\ 1 \in DOMAIN s
         /\ \A i \in DOMAIN Tail(s) : i + 1 \in DOMAIN s /\ i + 1 # 1 /\ Tail(s)[i] = s[i + 1]
         /\ DOMAIN Tail(s) \subseteq Nat
BY HeadTailProperties, LenProperties

(* What a queue holds after one more has joined it is that one, in the     *)
(* last place, or was there before.                                        *)
LEMMA AppendElements ==
  ASSUME NEW S, NEW s \in Seq(S), NEW e \in S
  PROVE  /\ Append(s, e) \in Seq(S)
         /\ \A i \in DOMAIN Append(s, e) :
              \/ i \in DOMAIN s /\ i < Len(s) + 1 /\ Append(s, e)[i] = s[i]
              \/ i = Len(s) + 1 /\ Append(s, e)[i] = e
         /\ DOMAIN Append(s, e) \subseteq Nat /\ Len(s) + 1 \in Nat
BY AppendProperties, LenProperties

--------------------------------------------------------------------------------
(* Type correctness                                                        *)

(* The first request is a request, whenever one waits.                     *)
LEMMA FirstType ==
  ASSUME TypeOK, First.kind \in {"open", "delete"}
  PROVE  /\ requests # <<>> /\ First = Head(requests) /\ First \in Request
         /\ Asked(First) \in Nat
<1>1. requests # <<>> /\ First = Head(requests)
  BY DEF First, NoRequest
<1>2. First \in Request
  BY <1>1, HeadTailProperties DEF TypeOK, Request
<1> QED BY <1>1, <1>2 DEF Asked, TypeOK, Request

(* Answering the first request keeps the queues in their types.            *)
LEMMA AnsweredType ==
  ASSUME TypeOK, First.kind = "open", NEW event \in Event, Answered(event)
  PROVE  /\ requests' \in Seq(Request) /\ notified' \in BOOLEAN
         /\ events' \in [Adapters -> Seq(Event)]
<1>1. First.by \in Adapters /\ requests # <<>> /\ requests \in Seq(Request)
  BY FirstType DEF Request, TypeOK
<1>2. Append(events[First.by], event) \in Seq(Event)
  BY <1>1, AppendProperties DEF TypeOK, Event
<1> QED BY <1>1, <1>2, HeadTailProperties DEF Answered, TypeOK, Event

(* Handling an event takes it off the queue of its adapter.                *)
LEMMA HandledType ==
  ASSUME TypeOK, NEW a \in Adapters, NEW event, Handles(a, event), Handled(a)
  PROVE  events' \in [Adapters -> Seq(Event)]
<1>1. events[a] \in Seq(Event) /\ events[a] # <<>>
  BY DEF TypeOK, Event, Handles
<1>2. Tail(events[a]) \in Seq(Event)
  BY <1>1, HeadTailProperties
<1> QED BY <1>2 DEF Handled, TypeOK, Event

(* An open() that joins the queue is a request.                            *)
LEMMA InitializeInternalType ==
  ASSUME TypeOK, NEW a \in Adapters, NEW v \in Nat, InitializeInternal(a, v)
  PROVE  /\ requests' \in Seq(Request)
         /\ timer' \in [Adapters -> {"unset", "running", "over"}]
<1>1. [by |-> a, version |-> v, kind |-> "open"] \in Request
  BY DEF Request
<1> QED BY <1>1, AppendProperties DEF InitializeInternal, TypeOK, Request

(* The constructor's state has the types of TypeOK.                        *)
LEMMA TypeInit == Init => TypeOK
<1> SUFFICES ASSUME Init PROVE TypeOK
  OBVIOUS
<1>1. requests \in Seq(Request)
  BY DEF Init
<1>2. \A a \in Adapters : events[a] \in Seq(Event)
  BY DEF Init
<1>3. events \in [Adapters -> Seq(Event)]
  BY <1>2 DEF Init
<1> QED BY <1>1, <1>3 DEF Init, TypeOK, Undefined, Request, Event

(* Every step of an adapter and of the browser keeps the types.            *)
LEMMA TypeStep == TypeOK /\ [Next]_vars => TypeOK'
<1> SUFFICES ASSUME TypeOK, [Next]_vars PROVE TypeOK'
  OBVIOUS
<1>1. ASSUME NEW a \in Adapters, Initialize(a) PROVE TypeOK'
  BY <1>1, InitializeInternalType DEF TypeOK, Initialize, browser, Current, Request
<1>2. ASSUME NEW a \in Adapters, TimeOut(a) PROVE TypeOK'
  BY <1>2 DEF TypeOK, TimeOut, InitializeComplete, browser
<1>3. ASSUME NEW a \in Adapters, SetupDB(a) PROVE TypeOK'
  <2>1. events' \in [Adapters -> Seq(Event)]
    BY <1>3, HandledType DEF SetupDB
  <2>2. CASE TableMissing(a)
    <3>1. version + 1 \in Nat BY DEF TypeOK
    <3> QED BY <1>3, <2>1, <2>2, <3>1, InitializeInternalType
            DEF TypeOK, SetupDB, TableMissing, browser, Request, Event
  <2>3. CASE TableFound(a)
    BY <1>3, <2>1, <2>3 DEF TypeOK, SetupDB, TableFound, InitializeComplete, browser, Event
  <2> QED BY <1>3, <2>2, <2>3 DEF SetupDB
<1>4. ASSUME NEW a \in Adapters, OnError(a) PROVE TypeOK'
  BY <1>4, HandledType DEF TypeOK, OnError, InitializeComplete, browser, Event
<1>5. ASSUME NEW a \in Adapters, OnVersionChange(a) PROVE TypeOK'
  BY <1>5, HandledType DEF TypeOK, OnVersionChange, browser, Event
<1>6. ASSUME NEW a \in Adapters, DeleteStorage(a) PROVE TypeOK'
  <2>1. [by |-> a, version |-> Current, kind |-> "delete"] \in Request
    BY DEF Request, Current
  <2> QED BY <1>6, <2>1, AppendProperties DEF TypeOK, DeleteStorage, Request
<1>7. CASE Notify
  <2>1. \A a \in Adapters : Append(events[a], "versionchange") \in Seq(Event)
    BY AppendProperties DEF TypeOK, Event
  <2>2. events' \in [Adapters -> Seq(Event)]
    BY <1>7, <2>1 DEF TypeOK, Event, Notify
  <2> QED BY <1>7, <2>2 DEF TypeOK, Notify, Event
<1>8. CASE Upgrade
  <2>1. First.by \in Adapters /\ Asked(First) \in Nat
    BY <1>8, FirstType DEF Upgrade, Request
  <2>2. tables' \subseteq {Table[a] : a \in Adapters}
    BY <1>8, <2>1 DEF TypeOK, Upgrade, CreateTables
  <2> QED BY <1>8, <2>1, <2>2, AnsweredType DEF TypeOK, Upgrade, Request, Event
<1>9. CASE Open
  <2>1. First.by \in Adapters
    BY <1>9, FirstType DEF Open, Request
  <2> QED BY <1>9, <2>1, AnsweredType DEF TypeOK, Open, Request, Event
<1>10. CASE OpenFails
  BY <1>10, AnsweredType DEF TypeOK, OpenFails, Request, Event
<1>11. CASE AnswerLost
  <2>1. First.by \in Adapters /\ requests # <<>>
    BY <1>11, FirstType DEF AnswerLost, Request
  <2>2. requests' \in Seq(Request)
    BY <1>11, <2>1, HeadTailProperties DEF AnswerLost, TypeOK, Request
  <2> QED BY <1>11, <2>1, <2>2 DEF TypeOK, AnswerLost, Request
<1>12. CASE DeleteDatabase
  <2>1. requests # <<>>
    BY <1>12, FirstType DEF DeleteDatabase
  <2>2. requests' \in Seq(Request)
    BY <1>12, <2>1, HeadTailProperties DEF DeleteDatabase, TypeOK, Request
  <2> QED BY <1>12, <2>2 DEF TypeOK, DeleteDatabase, Request
<1>13. CASE UNCHANGED vars
  BY <1>13 DEF TypeOK, vars
<1> QED BY <1>1, <1>2, <1>3, <1>4, <1>5, <1>6, <1>7, <1>8, <1>9, <1>10, <1>11, <1>12, <1>13
        DEF Next, Handlers, Browser

(* Every variable keeps its type: in particular an adapter gets only the
   events it can handle. *)
THEOREM IndexedDBOpenTypeOK == Spec => []TypeOK
<1> QED BY TypeInit, TypeStep, PTL DEF Spec

--------------------------------------------------------------------------------
(* The first outcome stays                                                 *)

(* A step changes ready only where it is undefined.                        *)
LEMMA OutcomeStep ==
  TypeOK /\ [Next]_vars =>
    [\A a \in Adapters : ready[a] # Undefined => ready'[a] = ready[a]]_vars
<1> SUFFICES ASSUME TypeOK, Next, NEW b \in Adapters, ready[b] # Undefined
             PROVE  ready'[b] = ready[b]
  BY DEF vars
<1>1. ready \in [Adapters -> {Undefined, "ready", "failed"}]
  BY DEF TypeOK
<1>2. ASSUME NEW a \in Adapters, NEW outcome, InitializeComplete(a, outcome)
      PROVE  ready'[b] = ready[b]
  BY <1>1, <1>2 DEF InitializeComplete
<1>3. ASSUME NEW a \in Adapters, TimeOut(a) \/ OnError(a) PROVE ready'[b] = ready[b]
  BY <1>2, <1>3 DEF TimeOut, OnError
<1>4. ASSUME NEW a \in Adapters, SetupDB(a) PROVE ready'[b] = ready[b]
  BY <1>2, <1>4 DEF SetupDB, TableMissing, TableFound
<1>5. ASSUME NEW a \in Adapters, Initialize(a) \/ OnVersionChange(a) \/ DeleteStorage(a)
      PROVE  ready'[b] = ready[b]
  BY <1>5 DEF Initialize, OnVersionChange, DeleteStorage
<1>6. CASE Browser
  BY <1>6 DEF Browser, Notify, Upgrade, Open, OpenFails, AnswerLost, DeleteDatabase
<1> QED BY <1>3, <1>4, <1>5, <1>6 DEF Next, Handlers

(* The time-out, a late success and a late error leave the first outcome of
   an initialisation. *)
THEOREM IndexedDBOpenOneOutcome == Spec => OneOutcome
<1>1. TypeOK /\ [Next]_vars =>
        [\A a \in Adapters : ready[a] # Undefined => ready'[a] = ready[a]]_vars
  BY OutcomeStep
<1> QED BY <1>1, TypeInit, TypeStep, PTL DEF Spec, OneOutcome
--------------------------------------------------------------------------------
(* Opening is safe                                                         *)

OpenOf(r, a) == r.kind = "open" /\ r.by = a
Answer(event) == event \in {"success", "error"}

(* An adapter that has an open() or its answer under way has no other, has *)
(* begun to initialise and is not ready.                                   *)
OneAttempt ==
  \A a \in Adapters :
    /\ \A i \in DOMAIN requests : OpenOf(requests[i], a) =>
         /\ timer[a] # "unset" /\ ready[a] # "ready"
         /\ \A j \in DOMAIN requests : OpenOf(requests[j], a) => i = j
         /\ \A j \in DOMAIN events[a] : ~Answer(events[a][j])
    /\ \A i \in DOMAIN events[a] : Answer(events[a][i]) =>
         /\ timer[a] # "unset" /\ ready[a] # "ready"
         /\ \A j \in DOMAIN events[a] : Answer(events[a][j]) => i = j
    /\ timer[a] = "unset" => ready[a] = Undefined

(* Until the database is deleted, the versions asked for are that of the   *)
(* database or the next one, in this order, and the next one is asked for  *)
(* only on behalf of tables that are not there.                            *)
Versioned(i) == i \in DOMAIN requests /\ requests[i].version # Current
VersionsInOrder ==
  ~deleted =>
    /\ \A i \in DOMAIN requests : requests[i].kind = "open"
    /\ \A i \in DOMAIN requests : Versioned(i) =>
         /\ requests[i].version \in {version, version + 1}
         /\ requests[i].version > version => Table[requests[i].by] \notin tables
    /\ \A i, j \in DOMAIN requests : Versioned(i) /\ Versioned(j) /\ i < j =>
         requests[i].version <= requests[j].version

(* The inductive invariant.                                                *)
IInv ==
  /\ TypeOK
  /\ IsFiniteSet(tables)
  /\ OneAttempt
  /\ VersionsInOrder
  /\ ReadyHasTable
  /\ NoUselessUpgrade
(* The safety that matters is part of it.                                  *)
LEMMA IInvIsSafe == IInv => OpeningIsSafe
<1> SUFFICES ASSUME IInv, ~deleted, NEW i \in DOMAIN requests, requests[i].version # Current
             PROVE  requests[i].version >= version
  BY DEF IInv, OpeningIsSafe, NoVersionError
<1>1. requests[i].version \in {version, version + 1} /\ version \in Nat
  BY DEF IInv, VersionsInOrder, Versioned, TypeOK
<1> QED BY <1>1

LEMMA IInvInit == Init => IInv
<1> SUFFICES ASSUME Init PROVE IInv
  OBVIOUS
<1>1. IsFiniteSet(tables) /\ Cardinality(tables) = 0
  BY FS_EmptySet DEF Init
<1>2. DOMAIN requests = {} /\ \A a \in Adapters : DOMAIN events[a] = {}
  BY DEF Init
<1>3. OneAttempt
  BY <1>2 DEF Init, OneAttempt
<1>4. VersionsInOrder
  BY <1>2 DEF VersionsInOrder
<1>5. ReadyHasTable /\ NoUselessUpgrade
  BY <1>1 DEF Init, ReadyHasTable, NoUselessUpgrade, Undefined
<1> QED BY <1>1, <1>3, <1>4, <1>5, TypeInit DEF IInv

(* An adapter that queues an open() while it has none under way has one.   *)
LEMMA AttemptBegins ==
  ASSUME IInv, NEW a \in Adapters, NEW v \in Nat, InitializeInternal(a, v),
         ready[a] # "ready", ready' = ready,
         \A i \in DOMAIN requests : ~OpenOf(requests[i], a),
         \A b \in Adapters : \A i \in DOMAIN events'[b] :
           Answer(events'[b][i]) =>
             /\ b # a
             /\ \E j \in DOMAIN events[b] : Answer(events[b][j])
             /\ \A j \in DOMAIN events'[b] : Answer(events'[b][j]) => i = j
  PROVE  OneAttempt'
<1> DEFINE new == [by |-> a, version |-> v, kind |-> "open"]
<1>1. new \in Request /\ requests \in Seq(Request) /\ requests' = Append(requests, new)
  BY DEF Request, IInv, TypeOK, InitializeInternal
<1>2. \A i \in DOMAIN requests' :
        \/ i \in DOMAIN requests /\ requests'[i] = requests[i]
        \/ i = Len(requests) + 1 /\ requests'[i] = new
  BY <1>1, AppendElements
<1>3. /\ timer'[a] # "unset"
      /\ \A b \in Adapters : timer[b] # "unset" => timer'[b] # "unset"
      /\ \A b \in Adapters : timer'[b] = "unset" => timer[b] = "unset"
  BY DEF InitializeInternal, IInv, TypeOK
<1> SUFFICES ASSUME NEW b \in Adapters
             PROVE  /\ \A i \in DOMAIN requests' : OpenOf(requests'[i], b) =>
                         /\ timer'[b] # "unset" /\ ready'[b] # "ready"
                         /\ \A j \in DOMAIN requests' : OpenOf(requests'[j], b) => i = j
                         /\ \A j \in DOMAIN events'[b] : ~Answer(events'[b][j])
                    /\ \A i \in DOMAIN events'[b] : Answer(events'[b][i]) =>
                         /\ timer'[b] # "unset" /\ ready'[b] # "ready"
                         /\ \A j \in DOMAIN events'[b] : Answer(events'[b][j]) => i = j
                    /\ timer'[b] = "unset" => ready'[b] = Undefined
  BY DEF OneAttempt
<1>4. ASSUME NEW i \in DOMAIN requests', OpenOf(requests'[i], b)
      PROVE  /\ timer'[b] # "unset" /\ ready'[b] # "ready"
             /\ \A j \in DOMAIN requests' : OpenOf(requests'[j], b) => i = j
             /\ \A j \in DOMAIN events'[b] : ~Answer(events'[b][j])
  <2>1. CASE b = a
    BY <1>2, <1>3, <1>4, <2>1 DEF OpenOf
  <2>2. CASE b # a
    <3>1. \A j \in DOMAIN requests' : OpenOf(requests'[j], b) =>
            j \in DOMAIN requests /\ OpenOf(requests[j], b)
      BY <1>2, <2>2 DEF OpenOf
    <3> QED BY <1>3, <1>4, <3>1 DEF IInv, OneAttempt
  <2> QED BY <2>1, <2>2
<1>5. ASSUME NEW i \in DOMAIN events'[b], Answer(events'[b][i])
      PROVE  /\ timer'[b] # "unset" /\ ready'[b] # "ready"
             /\ \A j \in DOMAIN events'[b] : Answer(events'[b][j]) => i = j
  BY <1>3, <1>5 DEF IInv, OneAttempt
<1>6. timer'[b] = "unset" => ready'[b] = Undefined
  BY <1>3 DEF IInv, OneAttempt
<1> QED BY <1>4, <1>5, <1>6

(* What is left when the first request goes was behind it.                 *)
LEMMA FirstLeaves ==
  ASSUME TypeOK, First.kind \in {"open", "delete"}, requests' = Tail(requests)
  PROVE  /\ First = requests[1] /\ 1 \in DOMAIN requests
         /\ DOMAIN requests' \subseteq Nat
         /\ \A i \in DOMAIN requests' :
              i + 1 \in DOMAIN requests /\ i + 1 # 1 /\ requests'[i] = requests[i + 1]
<1>1. requests \in Seq(Request) /\ requests # <<>> /\ First = Head(requests)
  BY FirstType DEF TypeOK, Request
<1> QED BY <1>1, TailElements

(* An event that is handled leaves those behind it, and those of others.   *)
LEMMA EventLeaves ==
  ASSUME TypeOK, NEW a \in Adapters, NEW event, Handles(a, event), Handled(a)
  PROVE  /\ 1 \in DOMAIN events[a] /\ events[a][1] = event
         /\ \A b \in Adapters : b # a => events'[b] = events[b]
         /\ DOMAIN events'[a] \subseteq Nat
         /\ \A i \in DOMAIN events'[a] :
              i + 1 \in DOMAIN events[a] /\ i + 1 # 1 /\ events'[a][i] = events[a][i + 1]
<1>1. events[a] \in Seq(Event) /\ events[a] # <<>> /\ Head(events[a]) = event
  BY DEF TypeOK, Event, Handles
<1>2. events'[a] = Tail(events[a]) /\ \A b \in Adapters : b # a => events'[b] = events[b]
  BY DEF Handled, TypeOK
<1> QED BY <1>1, <1>2, TailElements

(* A request that is answered, or lost, was the only one of its adapter.   *)
LEMMA AttemptAnswered ==
  ASSUME IInv, First.kind = "open", requests' = Tail(requests),
         ready' = ready, timer' = timer,
         \/ \E event : Answer(event) /\ events' = [events EXCEPT ![First.by] = Append(@, event)]
         \/ events' = events
  PROVE  OneAttempt'
<1>1. /\ First = requests[1] /\ 1 \in DOMAIN requests /\ DOMAIN requests' \subseteq Nat
      /\ \A i \in DOMAIN requests' :
           i + 1 \in DOMAIN requests /\ i + 1 # 1 /\ requests'[i] = requests[i + 1]
  BY FirstLeaves DEF IInv
<1>2. First.by \in Adapters /\ OpenOf(requests[1], First.by)
  BY <1>1, FirstType DEF OpenOf, Request, IInv
<1>3. \A i \in DOMAIN requests' : ~OpenOf(requests'[i], First.by)
  BY <1>1, <1>2 DEF IInv, OneAttempt
<1>4. \A i \in DOMAIN events[First.by] : ~Answer(events[First.by][i])
  BY <1>1, <1>2 DEF IInv, OneAttempt
<1>5. timer[First.by] # "unset" /\ ready[First.by] # "ready"
  BY <1>1, <1>2 DEF IInv, OneAttempt
<1>6. \A b \in Adapters : \/ events'[b] = events[b]
                          \/ b = First.by /\ \E event \in Event : events'[b] = Append(events[b], event)
  BY <1>2 DEF IInv, TypeOK, Event, Answer
<1> DEFINE OneOnly == \A i, j \in DOMAIN events'[First.by] :
                        Answer(events'[First.by][i]) /\ Answer(events'[First.by][j]) => i = j
<1>7. OneOnly
  <2>1. CASE events'[First.by] = events[First.by]
    BY <1>4, <2>1
  <2>2. ASSUME NEW event \in Event, events'[First.by] = Append(events[First.by], event)
        PROVE  OneOnly
    <3>1. events[First.by] \in Seq(Event)
      BY <1>2 DEF IInv, TypeOK, Event
    <3> QED BY <1>4, <2>2, <3>1, AppendElements
  <2> QED BY <1>2, <1>6, <2>1, <2>2
<1> SUFFICES ASSUME NEW b \in Adapters
             PROVE  /\ \A i \in DOMAIN requests' : OpenOf(requests'[i], b) =>
                         /\ timer[b] # "unset" /\ ready[b] # "ready"
                         /\ \A j \in DOMAIN requests' : OpenOf(requests'[j], b) => i = j
                         /\ \A j \in DOMAIN events'[b] : ~Answer(events'[b][j])
                    /\ \A i \in DOMAIN events'[b] : Answer(events'[b][i]) =>
                         /\ timer[b] # "unset" /\ ready[b] # "ready"
                         /\ \A j \in DOMAIN events'[b] : Answer(events'[b][j]) => i = j
                    /\ timer[b] = "unset" => ready[b] = Undefined
  BY DEF OneAttempt
<1>8. CASE b = First.by
  BY <1>3, <1>5, <1>7, <1>8
<1>9. CASE b # First.by
  <2>1. events'[b] = events[b]
    BY <1>6, <1>9
  <2>2. \A i, j \in DOMAIN requests' : i + 1 = j + 1 => i = j
    BY <1>1
  <2> QED BY <1>1, <2>1, <2>2 DEF IInv, OneAttempt
<1> QED BY <1>8, <1>9

(* An event that is handled without another open() leaves no attempt that  *)
(* was not there, and ends the one it answers.                             *)
LEMMA AttemptHandled ==
  ASSUME IInv, NEW a \in Adapters, NEW event, Handles(a, event), Handled(a),
         requests' = requests,
         \A b \in Adapters : /\ timer[b] # "unset" => timer'[b] # "unset"
                             /\ timer'[b] = "unset" => ready'[b] = ready[b] /\ timer[b] = "unset"
                             /\ b # a \/ ~Answer(event) => ready'[b] = ready[b]
  PROVE  OneAttempt'
<1>1. /\ 1 \in DOMAIN events[a] /\ events[a][1] = event
      /\ \A b \in Adapters : b # a => events'[b] = events[b]
      /\ DOMAIN events'[a] \subseteq Nat
      /\ \A i \in DOMAIN events'[a] :
           i + 1 \in DOMAIN events[a] /\ i + 1 # 1 /\ events'[a][i] = events[a][i + 1]
  BY EventLeaves DEF IInv
<1> SUFFICES ASSUME NEW b \in Adapters
             PROVE  /\ \A i \in DOMAIN requests : OpenOf(requests[i], b) =>
                         /\ timer'[b] # "unset" /\ ready'[b] # "ready"
                         /\ \A j \in DOMAIN requests : OpenOf(requests[j], b) => i = j
                         /\ \A j \in DOMAIN events'[b] : ~Answer(events'[b][j])
                    /\ \A i \in DOMAIN events'[b] : Answer(events'[b][i]) =>
                         /\ timer'[b] # "unset" /\ ready'[b] # "ready"
                         /\ \A j \in DOMAIN events'[b] : Answer(events'[b][j]) => i = j
                    /\ timer'[b] = "unset" => ready'[b] = Undefined
  BY DEF OneAttempt
<1>2. CASE b # a
  BY <1>1, <1>2 DEF IInv, OneAttempt
<1>3. CASE b = a
  <2>1. CASE Answer(event)
    <3>1. \A i \in DOMAIN events'[a] : ~Answer(events'[a][i])
      BY <1>1, <2>1 DEF IInv, OneAttempt
    <3>2. \A i \in DOMAIN requests : ~OpenOf(requests[i], a)
      BY <1>1, <2>1 DEF IInv, OneAttempt
    <3> QED BY <1>3, <3>1, <3>2 DEF IInv, OneAttempt
  <2>2. CASE ~Answer(event)
    <3>1. \A i, j \in DOMAIN events'[a] : i + 1 = j + 1 => i = j
      BY <1>1
    <3> QED BY <1>1, <1>3, <2>2, <3>1 DEF IInv, OneAttempt
  <2> QED BY <2>1, <2>2
<1> QED BY <1>2, <1>3

(* Whatever happens, an adapter has one attempt at a time.                 *)
LEMMA OneAttemptStep == IInv /\ [Next]_vars => OneAttempt'
<1> SUFFICES ASSUME IInv, [Next]_vars PROVE OneAttempt'
  OBVIOUS
<1> USE DEF IInv
<1>1. ASSUME NEW a \in Adapters, Initialize(a) PROVE OneAttempt'
  <2>1. /\ \A i \in DOMAIN requests : ~OpenOf(requests[i], a)
        /\ \A i \in DOMAIN events[a] : ~Answer(events[a][i])
        /\ ready[a] # "ready"
    BY <1>1 DEF Initialize, OneAttempt, Undefined
  <2>2. Current \in Nat BY DEF Current
  <2>3. \A b \in Adapters : \A i \in DOMAIN events[b] : Answer(events[b][i]) =>
          b # a /\ \A j \in DOMAIN events[b] : Answer(events[b][j]) => i = j
    BY <2>1 DEF OneAttempt
  <2> QED BY <1>1, <2>1, <2>2, <2>3, AttemptBegins DEF Initialize
<1>2. ASSUME NEW a \in Adapters, TimeOut(a) PROVE OneAttempt'
  <2>1. \A b \in Adapters : /\ timer'[b] = "unset" => timer[b] = "unset" /\ ready'[b] = ready[b]
                            /\ timer[b] # "unset" => timer'[b] # "unset"
                            /\ ready'[b] = "ready" => ready[b] = "ready"
    BY <1>2 DEF TimeOut, InitializeComplete, TypeOK
  <2>2. requests' = requests /\ events' = events
    BY <1>2 DEF TimeOut
  <2> QED BY <2>1, <2>2 DEF OneAttempt
<1>3. ASSUME NEW a \in Adapters, SetupDB(a) PROVE OneAttempt'
  <2>1. Handles(a, "success") /\ Handled(a)
    BY <1>3 DEF SetupDB
  <2>2. CASE TableMissing(a)
    <3>1. /\ 1 \in DOMAIN events[a] /\ events[a][1] = "success"
          /\ \A b \in Adapters : b # a => events'[b] = events[b]
          /\ DOMAIN events'[a] \subseteq Nat
          /\ \A i \in DOMAIN events'[a] :
               i + 1 \in DOMAIN events[a] /\ i + 1 # 1 /\ events'[a][i] = events[a][i + 1]
      BY <2>1, EventLeaves
    <3>2. Answer(events[a][1])
      BY <3>1 DEF Answer
    <3>3. /\ \A i \in DOMAIN requests : ~OpenOf(requests[i], a)
          /\ \A i \in DOMAIN events'[a] : ~Answer(events'[a][i])
          /\ ready[a] # "ready"
      BY <3>1, <3>2 DEF OneAttempt
    <3>4. \A b \in Adapters : \A i \in DOMAIN events'[b] : Answer(events'[b][i]) =>
            /\ b # a
            /\ \E j \in DOMAIN events[b] : Answer(events[b][j])
            /\ \A j \in DOMAIN events'[b] : Answer(events'[b][j]) => i = j
      BY <3>1, <3>3 DEF OneAttempt
    <3>5. version + 1 \in Nat BY DEF TypeOK
    <3> QED BY <2>2, <3>3, <3>4, <3>5, AttemptBegins DEF TableMissing
  <2>3. CASE TableFound(a)
    BY <2>1, <2>3, AttemptHandled DEF TableFound, InitializeComplete, TypeOK, Answer
  <2> QED BY <1>3, <2>2, <2>3 DEF SetupDB
<1>4. ASSUME NEW a \in Adapters, OnError(a) PROVE OneAttempt'
  BY <1>4, AttemptHandled DEF OnError, InitializeComplete, TypeOK, Answer
<1>5. ASSUME NEW a \in Adapters, OnVersionChange(a) PROVE OneAttempt'
  BY <1>5, AttemptHandled DEF OnVersionChange, Answer
<1>6. ASSUME NEW a \in Adapters, DeleteStorage(a) PROVE OneAttempt'
  <2> DEFINE gone == [by |-> a, version |-> Current, kind |-> "delete"]
  <2>1. gone \in Request /\ requests \in Seq(Request) /\ requests' = Append(requests, gone)
    BY <1>6 DEF Request, TypeOK, DeleteStorage, Current
  <2>2. \A b \in Adapters : \A i \in DOMAIN requests' : OpenOf(requests'[i], b) =>
          i \in DOMAIN requests /\ OpenOf(requests[i], b)
    BY <2>1, AppendElements DEF OpenOf
  <2>3. events' = events /\ ready' = ready /\ timer' = timer
    BY <1>6 DEF DeleteStorage
  <2> QED BY <2>2, <2>3 DEF OneAttempt
<1>7. CASE Notify
  <2>1. requests' = requests /\ timer' = timer /\ ready' = ready
    BY <1>7 DEF Notify
  <2>2. \A b \in Adapters : events[b] \in Seq(Event) /\ "versionchange" \in Event
    BY DEF TypeOK, Event
  <2>3. \A b \in Adapters : \A i \in DOMAIN events'[b] : Answer(events'[b][i]) =>
          i \in DOMAIN events[b] /\ events'[b][i] = events[b][i]
    <3> SUFFICES ASSUME NEW b \in Adapters, NEW i \in DOMAIN events'[b], Answer(events'[b][i])
                 PROVE  i \in DOMAIN events[b] /\ events'[b][i] = events[b][i]
      OBVIOUS
    <3>1. CASE events'[b] = events[b]
      BY <3>1
    <3>2. CASE events'[b] = Append(events[b], "versionchange")
      BY <2>2, <3>2, AppendElements DEF Answer
    <3> QED BY <1>7, <3>1, <3>2 DEF Notify
  <2> QED BY <2>1, <2>3 DEF OneAttempt
<1>8. CASE Upgrade
  BY <1>8, AttemptAnswered DEF Upgrade, Answered, Answer
<1>9. CASE Open
  BY <1>9, AttemptAnswered DEF Open, Answered, Answer
<1>10. CASE OpenFails
  BY <1>10, AttemptAnswered DEF OpenFails, Answered, Answer
<1>11. CASE AnswerLost
  BY <1>11, AttemptAnswered DEF AnswerLost
<1>12. CASE DeleteDatabase
  <2>1. /\ \A i \in DOMAIN requests' : /\ i + 1 \in DOMAIN requests
                                       /\ requests'[i] = requests[i + 1]
        /\ DOMAIN requests' \subseteq Nat
    BY <1>12, FirstLeaves DEF DeleteDatabase
  <2>2. \A i, j \in DOMAIN requests' : i + 1 = j + 1 => i = j
    BY <2>1
  <2>3. events' = events /\ ready' = ready /\ timer' = timer
    BY <1>12 DEF DeleteDatabase
  <2> QED BY <2>1, <2>2, <2>3 DEF OneAttempt
<1>13. CASE UNCHANGED vars
  BY <1>13 DEF OneAttempt, vars
<1> QED BY <1>1, <1>2, <1>3, <1>4, <1>5, <1>6, <1>7, <1>8, <1>9, <1>10, <1>11, <1>12, <1>13
        DEF Next, Handlers, Browser
(* A table is added exactly when the version rises: an upgrade is asked    *)
(* for only by an adapter whose table is missing.                          *)
LEMMA UpgradeAddsTable ==
  ASSUME IInv, Upgrade, ~deleted
  PROVE  /\ version' = version + 1
         /\ IsFiniteSet(tables') /\ Cardinality(tables') = Cardinality(tables) + 1
<1>1. /\ First = requests[1] /\ 1 \in DOMAIN requests /\ requests # <<>>
      /\ First \in Request /\ First.kind = "open" /\ Asked(First) > version /\ version \in Nat
  <2>1. requests # <<>> /\ First = Head(requests) /\ First \in Request /\ First.kind = "open"
    BY FirstType DEF IInv, Upgrade
  <2>2. 1 \in DOMAIN requests /\ First = requests[1]
    BY <2>1, TailElements DEF IInv, TypeOK
  <2> QED BY <2>1, <2>2 DEF Upgrade, Exclusive, IInv, TypeOK
<1>2. IsFiniteSet(tables) /\ Cardinality(tables) \in Nat /\ version = Cardinality(tables)
  BY FS_CardinalityType DEF IInv, NoUselessUpgrade
<1>3. Table[First.by] \notin tables /\ Asked(First) = version + 1
  <2>1. CASE First.version = Current
    <3>1. version = 0 /\ Asked(First) = 1
      BY <1>1, <2>1 DEF Asked
    <3>2. tables = {}
      BY <1>2, <3>1, FS_EmptySet
    <3> QED BY <3>1, <3>2
  <2>2. CASE First.version # Current
    <3>1. Versioned(1) /\ requests[1].version = First.version
      BY <1>1, <2>2 DEF Versioned
    <3>2. Asked(First) = First.version
      BY <2>2 DEF Asked
    <3> QED BY <1>1, <3>1, <3>2 DEF IInv, VersionsInOrder
  <2> QED BY <2>1, <2>2
<1>4. tables' = tables \cup {Table[First.by]}
  BY DEF Upgrade, CreateTables
<1>5. IsFiniteSet(tables') /\ Cardinality(tables') = Cardinality(tables) + 1
  BY <1>2, <1>3, <1>4, FS_AddElement
<1> QED BY <1>3, <1>5 DEF Upgrade

(* Every step keeps the count of the tables.                               *)
LEMMA TablesStep == IInv /\ [Next]_vars => IsFiniteSet(tables') /\ NoUselessUpgrade'
<1> SUFFICES ASSUME IInv, [Next]_vars PROVE IsFiniteSet(tables') /\ NoUselessUpgrade'
  OBVIOUS
<1>1. CASE Upgrade
  <2>1. CASE ~deleted
    <3>1. /\ version' = version + 1
          /\ IsFiniteSet(tables') /\ Cardinality(tables') = Cardinality(tables) + 1
      BY <1>1, <2>1, UpgradeAddsTable
    <3>2. version = Cardinality(tables)
      BY <2>1 DEF IInv, NoUselessUpgrade
    <3> QED BY <3>1, <3>2 DEF NoUselessUpgrade
  <2>2. CASE deleted
    <3>1. deleted' /\ tables' = tables \cup {Table[First.by]}
      BY <1>1, <2>2 DEF Upgrade, CreateTables
    <3> QED BY <3>1, FS_AddElement DEF IInv, NoUselessUpgrade
  <2> QED BY <2>1, <2>2
<1>2. CASE DeleteDatabase
  <2>1. deleted' /\ tables' = {}
    <3>1. requests # <<>> /\ First = requests[1] /\ 1 \in DOMAIN requests /\ First.kind = "delete"
      <4>1. requests # <<>> /\ First = Head(requests)
        BY <1>2, FirstType DEF IInv, DeleteDatabase
      <4> QED BY <1>2, <4>1, TailElements DEF IInv, TypeOK, DeleteDatabase
    <3> QED BY <1>2, <3>1 DEF DeleteDatabase, IInv, VersionsInOrder, TypeOK
  <2> QED BY <2>1, FS_EmptySet DEF NoUselessUpgrade
<1>3. CASE version' = version /\ tables' = tables /\ (deleted' = deleted \/ deleted')
  BY <1>3 DEF IInv, NoUselessUpgrade
<1> QED
  BY <1>1, <1>2, <1>3
  DEF Next, Handlers, Browser, vars, browser, Initialize, TimeOut, SetupDB, OnError, OnVersionChange,
      DeleteStorage, Notify, Open, OpenFails, AnswerLost

(* An open() for a missing table asks for the version after that of the    *)
(* database, which no request before it has passed.                        *)
LEMMA VersionQueued ==
  ASSUME IInv, NEW a \in Adapters, NEW v \in Nat, InitializeInternal(a, v),
         v = Current \/ (v = version + 1 /\ Table[a] \notin tables),
         UNCHANGED browser
  PROVE  VersionsInOrder'
<1> DEFINE new == [by |-> a, version |-> v, kind |-> "open"]
<1>1. new \in Request /\ requests \in Seq(Request) /\ requests' = Append(requests, new)
  BY DEF Request, IInv, TypeOK, InitializeInternal
<1>2. \A i \in DOMAIN requests' :
        \/ i \in DOMAIN requests /\ i < Len(requests) + 1 /\ requests'[i] = requests[i]
        \/ i = Len(requests) + 1 /\ requests'[i] = new
  BY <1>1, AppendElements
<1>3. version' = version /\ tables' = tables /\ deleted' = deleted
  BY DEF browser
<1>4. Len(requests) \in Nat /\ version \in Nat
  BY <1>1, LenProperties DEF IInv, TypeOK
<1> SUFFICES ASSUME ~deleted
             PROVE  /\ \A i \in DOMAIN requests' : requests'[i].kind = "open"
                    /\ \A i \in DOMAIN requests' : requests'[i].version # Current =>
                         /\ requests'[i].version \in {version, version + 1}
                         /\ requests'[i].version > version => Table[requests'[i].by] \notin tables
                    /\ \A i, j \in DOMAIN requests' :
                         requests'[i].version # Current /\ requests'[j].version # Current /\ i < j =>
                           requests'[i].version <= requests'[j].version
  BY <1>3 DEF VersionsInOrder, Versioned
<1>5. /\ \A i \in DOMAIN requests : requests[i].kind = "open"
      /\ \A i \in DOMAIN requests : requests[i].version # Current =>
           /\ requests[i].version \in {version, version + 1}
           /\ requests[i].version > version => Table[requests[i].by] \notin tables
      /\ \A i, j \in DOMAIN requests :
           requests[i].version # Current /\ requests[j].version # Current /\ i < j =>
             requests[i].version <= requests[j].version
  BY DEF IInv, VersionsInOrder, Versioned
<1>6. \A i \in DOMAIN requests' : requests'[i].kind = "open"
  BY <1>2, <1>5
<1>7. \A i \in DOMAIN requests' : requests'[i].version # Current =>
        /\ requests'[i].version \in {version, version + 1}
        /\ requests'[i].version > version => Table[requests'[i].by] \notin tables
  BY <1>2, <1>5
<1>8. ASSUME NEW i \in DOMAIN requests', NEW j \in DOMAIN requests',
             requests'[i].version # Current, requests'[j].version # Current, i < j
      PROVE  requests'[i].version <= requests'[j].version
  <2>1. CASE j \in DOMAIN requests /\ j < Len(requests) + 1 /\ requests'[j] = requests[j]
    <3>1. j \in Nat /\ i \in Nat
      BY <1>1, AppendElements
    <3>2. i \in DOMAIN requests /\ requests'[i] = requests[i]
      BY <1>2, <1>4, <1>8, <2>1, <3>1
    <3> QED BY <1>5, <1>8, <2>1, <3>2
  <2>2. CASE j = Len(requests) + 1 /\ requests'[j] = new
    BY <1>4, <1>7, <1>8, <2>2
  <2> QED BY <1>2, <2>1, <2>2
<1> QED BY <1>6, <1>7, <1>8

(* The rest of the queue is in order when the first request has gone.      *)
LEMMA VersionsLeft ==
  ASSUME IInv, ~deleted, First.kind \in {"open", "delete"}, requests' = Tail(requests),
         deleted' = deleted,
         \/ version' = version /\ tables' = tables
         \/ Upgrade
  PROVE  VersionsInOrder'
<1>1. /\ First = requests[1] /\ 1 \in DOMAIN requests /\ DOMAIN requests' \subseteq Nat
      /\ \A i \in DOMAIN requests' :
           i + 1 \in DOMAIN requests /\ i + 1 # 1 /\ requests'[i] = requests[i + 1]
  BY FirstLeaves DEF IInv
<1>2. /\ \A i \in DOMAIN requests : requests[i].kind = "open"
      /\ \A i \in DOMAIN requests : requests[i].version # Current =>
           /\ requests[i].version \in {version, version + 1}
           /\ requests[i].version > version => Table[requests[i].by] \notin tables
      /\ \A i, j \in DOMAIN requests :
           requests[i].version # Current /\ requests[j].version # Current /\ i < j =>
             requests[i].version <= requests[j].version
  BY DEF IInv, VersionsInOrder, Versioned
<1>3. version \in Nat /\ DOMAIN requests \subseteq Nat /\ \A i \in DOMAIN requests : requests[i].version \in Nat
  <2>1. requests \in Seq(Request)
    BY DEF IInv, TypeOK, Request
  <2>2. DOMAIN requests = 1 .. Len(requests) /\ Len(requests) \in Nat
    BY <2>1, LenProperties
  <2>3. \A i \in DOMAIN requests : requests[i] \in Request
    BY <2>1, <2>2, ElementOfSeq
  <2>4. \A r \in Request : r.version \in Nat
    BY DEF Request
  <2> QED BY <2>2, <2>3, <2>4 DEF IInv, TypeOK
<1>4. \A i \in DOMAIN requests' : requests'[i].kind = "open"
  BY <1>1, <1>2
<1>5. \A i, j \in DOMAIN requests' :
        requests'[i].version # Current /\ requests'[j].version # Current /\ i < j =>
          requests'[i].version <= requests'[j].version
  BY <1>1, <1>2
<1>6. \A i \in DOMAIN requests' : requests'[i].version # Current =>
        /\ requests'[i].version \in {version', version' + 1}
        /\ requests'[i].version > version' => Table[requests'[i].by] \notin tables'
  <2>1. CASE version' = version /\ tables' = tables
    BY <1>1, <1>2, <2>1
  <2>2. CASE Upgrade
    <3>1. version' = version + 1
      BY <2>2, UpgradeAddsTable
    <3> SUFFICES ASSUME NEW i \in DOMAIN requests', requests'[i].version # Current
                 PROVE  requests'[i].version = version + 1
      BY <1>3, <3>1
    <3>2. i + 1 \in DOMAIN requests /\ requests'[i] = requests[i + 1] /\ 1 < i + 1
      BY <1>1
    <3>3. requests[i + 1].version \in {version, version + 1}
      BY <1>2, <3>2
    <3>4. CASE First.version = Current
      <4>1. version = 0
        BY <2>2, <3>4, <1>3 DEF Upgrade, Exclusive, Asked
      <4> QED BY <3>2, <3>3, <4>1 DEF Current
    <3>5. CASE First.version # Current
      <4>1. First.version > version
        BY <2>2, <3>5 DEF Upgrade, Exclusive, Asked
      <4>2. requests[1].version <= requests[i + 1].version
        BY <1>1, <1>2, <3>2, <3>5
      <4> QED BY <1>1, <1>3, <3>2, <3>3, <4>1, <4>2
    <3> QED BY <3>4, <3>5
  <2> QED BY <2>1, <2>2
<1> QED BY <1>4, <1>5, <1>6 DEF VersionsInOrder, Versioned

(* Every step keeps the versions in order.                                 *)
LEMMA VersionsStep == IInv /\ [Next]_vars => VersionsInOrder'
<1> SUFFICES ASSUME IInv, [Next]_vars PROVE VersionsInOrder'
  OBVIOUS
<1>1. CASE deleted'
  BY <1>1 DEF VersionsInOrder
<1>2. ASSUME NEW a \in Adapters, Initialize(a) PROVE VersionsInOrder'
  BY <1>2, VersionQueued DEF Initialize, Current
<1>3. ASSUME NEW a \in Adapters, SetupDB(a) PROVE VersionsInOrder'
  <2>1. CASE TableMissing(a)
    <3>1. version + 1 \in Nat BY DEF IInv, TypeOK
    <3> QED BY <1>3, <2>1, <3>1, VersionQueued DEF SetupDB, TableMissing
  <2>2. CASE TableFound(a)
    BY <1>3, <2>2 DEF SetupDB, TableFound, browser, IInv, VersionsInOrder, Versioned
  <2> QED BY <1>3, <2>1, <2>2 DEF SetupDB
<1>4. CASE ~deleted' /\ (Upgrade \/ Open \/ OpenFails \/ AnswerLost \/ DeleteDatabase)
  <2>1. ~deleted /\ deleted' = deleted /\ requests' = Tail(requests) /\ First.kind \in {"open", "delete"}
    BY <1>4 DEF Upgrade, Open, OpenFails, AnswerLost, DeleteDatabase, Answered
  <2>2. First.kind = "open"
    <3>1. First = requests[1] /\ 1 \in DOMAIN requests
      BY <2>1, FirstLeaves DEF IInv
    <3> QED BY <2>1, <3>1 DEF IInv, VersionsInOrder
  <2>3. Upgrade \/ (version' = version /\ tables' = tables)
    BY <1>4, <2>2 DEF Open, OpenFails, AnswerLost, DeleteDatabase
  <2> QED BY <2>1, <2>3, VersionsLeft
<1>5. CASE UNCHANGED <<version, tables, requests, deleted>>
  BY <1>5 DEF IInv, VersionsInOrder, Versioned
<1> QED
  BY <1>1, <1>2, <1>3, <1>4, <1>5
  DEF Next, Handlers, Browser, vars, browser, TimeOut, OnError, OnVersionChange, DeleteStorage, Notify

(* A table does not go while a ready adapter has a connection, and a ready *)
(* adapter gets no new one.                                                *)
LEMMA ReadyStep == IInv /\ [Next]_vars => ReadyHasTable'
<1> SUFFICES ASSUME IInv, [Next]_vars, NEW b \in Adapters, ready'[b] = "ready", conn'[b] = "open"
             PROVE  Table[b] \in tables'
  BY DEF ReadyHasTable
<1>1. /\ ready \in [Adapters -> {Undefined, "ready", "failed"}]
      /\ conn \in [Adapters -> {"none", "open", "closed", "stuck"}]
  BY DEF IInv, TypeOK
<1>2. ASSUME ready[b] = "ready", conn[b] = "open", tables \subseteq tables' PROVE Table[b] \in tables'
  BY <1>2 DEF IInv, ReadyHasTable
<1>3. ASSUME NEW a \in Adapters, Initialize(a) PROVE Table[b] \in tables'
  BY <1>2, <1>3 DEF Initialize, browser
<1>4. ASSUME NEW a \in Adapters, TimeOut(a) \/ OnError(a) PROVE Table[b] \in tables'
  BY <1>1, <1>2, <1>4 DEF TimeOut, OnError, InitializeComplete, browser
<1>5. ASSUME NEW a \in Adapters, SetupDB(a) PROVE Table[b] \in tables'
  <2>1. CASE TableMissing(a)
    BY <1>1, <1>2, <1>5, <2>1 DEF SetupDB, TableMissing, browser
  <2>2. CASE TableFound(a)
    BY <1>1, <1>2, <1>5, <2>2 DEF SetupDB, TableFound, InitializeComplete, browser
  <2> QED BY <1>5, <2>1, <2>2 DEF SetupDB
<1>6. ASSUME NEW a \in Adapters, OnVersionChange(a) \/ DeleteStorage(a) PROVE Table[b] \in tables'
  BY <1>1, <1>2, <1>6 DEF OnVersionChange, DeleteStorage, browser
<1>7. CASE Upgrade \/ Open \/ AnswerLost
  <2>1. First.kind = "open" /\ ready' = ready /\ tables \subseteq tables'
    BY <1>7 DEF Upgrade, Open, AnswerLost, CreateTables
  <2>2. First \in Request /\ First = requests[1] /\ 1 \in DOMAIN requests
    <3>1. requests # <<>> /\ First = Head(requests) /\ First \in Request
      BY <2>1, FirstType DEF IInv
    <3> QED BY <3>1, TailElements DEF IInv, TypeOK
  <2>3. ready[First.by] # "ready" /\ First.by \in Adapters
    BY <2>1, <2>2 DEF IInv, OneAttempt, OpenOf, Request
  <2>4. conn[b] = "open"
    BY <1>1, <1>7, <2>1, <2>3 DEF Upgrade, Open, AnswerLost
  <2> QED BY <1>2, <2>1, <2>4
<1>8. CASE Notify \/ OpenFails \/ UNCHANGED vars
  BY <1>2, <1>8 DEF Notify, OpenFails, vars
<1>9. CASE DeleteDatabase
  BY <1>9 DEF DeleteDatabase, AllClosed
<1> QED BY <1>3, <1>4, <1>5, <1>6, <1>7, <1>8, <1>9 DEF Next, Handlers, Browser

LEMMA IInvStep == IInv /\ [Next]_vars => IInv'
<1> SUFFICES ASSUME IInv, [Next]_vars PROVE IInv'
  OBVIOUS
<1> QED BY TypeStep, OneAttemptStep, TablesStep, VersionsStep, ReadyStep DEF IInv

(* However many adapters open the database in whatever order, with answers
   lost and time-outs, none asks for a version another has passed, none is
   ready without its table, and, until the database is deleted, no upgrade
   is made that adds no table. *)
THEOREM IndexedDBOpenIsSafe == Spec => []OpeningIsSafe
<1> QED BY IInvInit, IInvStep, IInvIsSafe, PTL DEF Spec

--------------------------------------------------------------------------------
(* Sums over finite sets                                                   *)

(* A smallest set of a collection of finite sets: with it, what holds of   *)
(* a set when it holds of the smaller ones holds of all of them.           *)
LEMMA SmallestSet ==
  ASSUME NEW C, C # {}, \A s \in C : IsFiniteSet(s)
  PROVE  \E s \in C : \A t \in C : Cardinality(t) < Cardinality(s) => FALSE
<1> DEFINE R == {ss \in Nat \X Nat : ss[1] < ss[2]}
           D == {Cardinality(s) : s \in C}
<1>1. IsWellFoundedOn(R, Nat) BY NatLessThanWellFounded, Zenon DEF OpToRel
<1>2. \A s \in C : Cardinality(s) \in Nat BY FS_CardinalityType
<1>3. D \subseteq Nat /\ D # {} BY <1>2
<1>4. PICK d \in D : \A e \in D : ~ (<<e, d>> \in R)
  <2> HIDE DEF R, D
  <2> QED BY <1>1, <1>3, WFMin
<1>5. PICK s \in C : d = Cardinality(s) OBVIOUS
<1>6. ASSUME NEW t \in C, Cardinality(t) < Cardinality(s) PROVE FALSE
  <2>1. <<Cardinality(t), d>> \in R BY <1>2, <1>5, <1>6
  <2> QED BY <2>1, <1>4
<1> QED BY <1>6

LEMMA Smaller ==
  ASSUME NEW U, IsFiniteSet(U), NEW x \in U
  PROVE  IsFiniteSet(U \ {x}) /\ Cardinality(U \ {x}) < Cardinality(U)
<1>1. Cardinality(U) \in Nat BY FS_CardinalityType
<1>2. IsFiniteSet(U \ {x}) /\ Cardinality(U \ {x}) = Cardinality(U) - 1 BY FS_RemoveElement
<1> QED BY <1>1, <1>2

Sum(f, U) == Size!MapThenSumSet(LAMBDA k : f[k], U)

(* The function that MapThenSumSet defines recursively.                    *)
Pick(s) == CHOOSE x \in s : TRUE
Summing(f, U, h) == [s \in SUBSET U |-> IF s = {} THEN 0 ELSE f[Pick(s)] + h[s \ {Pick(s)}]]

LEMMA SumUnfolds ==
  ASSUME NEW f, NEW U
  PROVE  Sum(f, U) = (CHOOSE h : h = Summing(f, U, h))[U]
BY DEF Sum, Size!MapThenSumSet, Size!MapThenFoldSet, Summing, Pick

LEMMA SummingStep ==
  ASSUME NEW f, NEW U, NEW h, h = Summing(f, U, h), NEW s \in SUBSET U
  PROVE  h[s] = IF s = {} THEN 0 ELSE f[Pick(s)] + h[s \ {Pick(s)}]
BY DEF Summing

LEMMA SummingUnique ==
  ASSUME NEW f, NEW U, NEW T, NEW h, NEW g, h = Summing(f, U, h), g = Summing(f, T, g),
         NEW s \in SUBSET U, s \in SUBSET T, IsFiniteSet(s)
  PROVE  h[s] = g[s]
<1> DEFINE C == {t \in SUBSET U : t \in SUBSET T /\ IsFiniteSet(t) /\ h[t] # g[t]}
<1>1. SUFFICES ASSUME C # {} PROVE FALSE OBVIOUS
<1>2. \A t \in C : IsFiniteSet(t) OBVIOUS
<1>3. PICK c \in C : \A t \in C : Cardinality(t) < Cardinality(c) => FALSE
  <2> HIDE DEF C
  <2> QED BY <1>1, <1>2, SmallestSet
<1>4. c \in SUBSET U /\ c \in SUBSET T /\ IsFiniteSet(c) /\ h[c] # g[c] BY <1>3
<1> HIDE DEF C
<1>5. c # {}
  <2> SUFFICES ASSUME c = {} PROVE FALSE OBVIOUS
  <2>1. h[c] = 0 /\ g[c] = 0 BY <1>4, SummingStep
  <2> QED BY <2>1, <1>4
<1>6. Pick(c) \in c BY <1>5 DEF Pick
<1> DEFINE d == c \ {Pick(c)}
<1>7. d \in SUBSET U /\ d \in SUBSET T /\ IsFiniteSet(d) /\ Cardinality(d) < Cardinality(c)
  BY <1>4, <1>6, Smaller
<1>8. h[d] = g[d]
  <2>1. ~ (d \in C) BY <1>3, <1>7
  <2> QED BY <2>1, <1>7 DEF C
<1>9. h[c] = f[Pick(c)] + h[d] /\ g[c] = f[Pick(c)] + g[d] BY <1>4, <1>5, SummingStep
<1> QED BY <1>4, <1>8, <1>9

LEMMA SummingExists ==
  ASSUME NEW f, NEW U, IsFiniteSet(U)
  PROVE  \E h : h = Summing(f, U, h)
<1> DEFINE C == {t \in SUBSET U : IsFiniteSet(t) /\ ~ \E h : h = Summing(f, t, h)}
<1>1. SUFFICES ASSUME C # {} PROVE FALSE OBVIOUS
<1>2. \A t \in C : IsFiniteSet(t) OBVIOUS
<1>3. PICK c \in C : \A t \in C : Cardinality(t) < Cardinality(c) => FALSE
  <2> HIDE DEF C
  <2> QED BY <1>1, <1>2, SmallestSet
<1>4. c \in SUBSET U /\ IsFiniteSet(c) /\ ~ \E h : h = Summing(f, c, h) BY <1>3
<1> DEFINE H(t) == CHOOSE h : h = Summing(f, t, h)
           g == [t \in SUBSET c |-> IF t = {} THEN 0
                                    ELSE f[Pick(t)] + H(t \ {Pick(t)})[t \ {Pick(t)}]]
<1>5. ASSUME NEW t \in SUBSET c, t # c PROVE H(t) = Summing(f, t, H(t))
  <2>1. IsFiniteSet(t) /\ Cardinality(t) < Cardinality(c)
    <3>1. IsFiniteSet(t) BY <1>4, FS_Subset
    <3>2. PICK x \in c : x \notin t BY <1>5
    <3>3. IsFiniteSet(c \ {x}) /\ Cardinality(c \ {x}) < Cardinality(c) BY <1>4, Smaller
    <3>4. t \in SUBSET (c \ {x}) BY <3>2
    <3>5. Cardinality(t) <= Cardinality(c \ {x}) BY <3>3, <3>4, FS_Subset
    <3>6. /\ Cardinality(t) \in Nat /\ Cardinality(c \ {x}) \in Nat /\ Cardinality(c) \in Nat
      BY <1>4, <3>1, <3>3, FS_CardinalityType
    <3> QED BY <3>1, <3>3, <3>5, <3>6
  <2>2. ~ (t \in C)
    <3> HIDE DEF C
    <3> QED BY <2>1, <1>3
  <2>3. t \in SUBSET U BY <1>4
  <2>4. \E h : h = Summing(f, t, h) BY <2>1, <2>2, <2>3
  <2> QED BY <2>4
<1> HIDE DEF H, C
<1>6. ASSUME NEW t \in SUBSET c, t # {}
      PROVE  H(t \ {Pick(t)})[t \ {Pick(t)}] = g[t \ {Pick(t)}]
  <2> DEFINE u == t \ {Pick(t)}
  <2>1. Pick(t) \in t BY <1>6 DEF Pick
  <2>2. u \in SUBSET c /\ u # c BY <2>1
  <2> HIDE DEF u
  <2>3. H(u) = Summing(f, u, H(u)) /\ u \in SUBSET u BY <2>2, <1>5
  <2>4. CASE u = {}
    <3>1. H(u)[u] = 0 BY <2>3, <2>4, SummingStep
    <3>2. g[u] = 0 BY <2>2, <2>4
    <3> QED BY <3>1, <3>2 DEF u
  <2>5. CASE u # {}
    <3> DEFINE w == u \ {Pick(u)}
    <3>1. Pick(u) \in u BY <2>5 DEF Pick
    <3>2. w \in SUBSET c /\ w # c /\ w \in SUBSET u /\ w \in SUBSET w BY <2>2, <3>1
    <3>3. IsFiniteSet(w) BY <3>2, <1>4, FS_Subset
    <3>4. H(u)[u] = f[Pick(u)] + H(u)[w] BY <2>3, <2>5, SummingStep
    <3>5. g[u] = f[Pick(u)] + H(w)[w] BY <2>2, <2>5
    <3> HIDE DEF w, g
    <3>6. H(w) = Summing(f, w, H(w)) BY <3>2, <1>5
    <3>7. H(u)[w] = H(w)[w] BY <3>2, <3>3, <3>6, <2>3, SummingUnique
    <3> QED BY <3>4, <3>5, <3>7 DEF u
  <2> QED BY <2>4, <2>5
<1>7. g = Summing(f, c, g)
  <2>1. \A t \in SUBSET c :
          g[t] = IF t = {} THEN 0 ELSE f[Pick(t)] + H(t \ {Pick(t)})[t \ {Pick(t)}]
    OBVIOUS
  <2>2. \A t \in SUBSET c : g[t] = IF t = {} THEN 0 ELSE f[Pick(t)] + g[t \ {Pick(t)}]
    <3> TAKE t \in SUBSET c
    <3>1. CASE t = {} BY <3>1
    <3>2. CASE t # {} BY <3>2, <2>1, <1>6, Zenon
    <3> QED BY <3>1, <3>2
  <2>3. g = [t \in SUBSET c |-> g[t]] OBVIOUS
  <2> HIDE DEF g
  <2> QED BY <2>2, <2>3 DEF Summing
<1> QED BY <1>4, <1>7

(* The sum of a set is that of its first element and the rest.             *)
LEMMA SumPicks ==
  ASSUME NEW f, NEW U, IsFiniteSet(U)
  PROVE  Sum(f, U) = IF U = {} THEN 0 ELSE f[Pick(U)] + Sum(f, U \ {Pick(U)})
<1> DEFINE H(t) == CHOOSE h : h = Summing(f, t, h)
<1>1. \A t : IsFiniteSet(t) => H(t) = Summing(f, t, H(t)) BY SummingExists
<1>2. \A t : Sum(f, t) = H(t)[t] BY SumUnfolds
<1> HIDE DEF H
<1>3. U \in SUBSET U OBVIOUS
<1>4. H(U)[U] = IF U = {} THEN 0 ELSE f[Pick(U)] + H(U)[U \ {Pick(U)}]
  <2>1. PICK h : h = H(U) OBVIOUS
  <2>2. h = Summing(f, U, h) BY <1>1, <2>1
  <2>3. h[U] = IF U = {} THEN 0 ELSE f[Pick(U)] + h[U \ {Pick(U)}] BY <1>3, <2>2, SummingStep
  <2> QED BY <2>1, <2>3
<1>5. ASSUME U # {} PROVE H(U)[U \ {Pick(U)}] = Sum(f, U \ {Pick(U)})
  <2> DEFINE t == U \ {Pick(U)}
  <2>1. t \in SUBSET U /\ t \in SUBSET t /\ IsFiniteSet(t) BY FS_Subset
  <2> HIDE DEF t
  <2>2. H(U)[t] = H(t)[t] BY <2>1, <1>1, SummingUnique
  <2> QED BY <2>2, <1>2 DEF t
<1> QED BY <1>2, <1>4, <1>5

LEMMA SumIsNat ==
  ASSUME NEW I, NEW f \in [I -> Nat], NEW U \in SUBSET I, IsFiniteSet(U)
  PROVE  Sum(f, U) \in Nat
<1> DEFINE C == {t \in SUBSET I : IsFiniteSet(t) /\ ~ (Sum(f, t) \in Nat)}
<1>1. SUFFICES ASSUME C # {} PROVE FALSE OBVIOUS
<1>2. \A t \in C : IsFiniteSet(t) OBVIOUS
<1>3. PICK c \in C : \A t \in C : Cardinality(t) < Cardinality(c) => FALSE
  <2> HIDE DEF C
  <2> QED BY <1>1, <1>2, SmallestSet
<1>4. c \in SUBSET I /\ IsFiniteSet(c) /\ ~ (Sum(f, c) \in Nat) BY <1>3
<1>5. c # {}
  <2> SUFFICES ASSUME c = {} PROVE FALSE OBVIOUS
  <2>1. Sum(f, c) = 0 BY <1>4, SumPicks
  <2> QED BY <2>1, <1>4
<1>6. Pick(c) \in c BY <1>5 DEF Pick
<1> DEFINE d == c \ {Pick(c)}
<1>7. d \in SUBSET I /\ IsFiniteSet(d) /\ Cardinality(d) < Cardinality(c) BY <1>4, <1>6, Smaller
<1>8. Sum(f, d) \in Nat
  <2>1. ~ (d \in C)
    <3> HIDE DEF C
    <3> QED BY <1>3, <1>7
  <2> QED BY <2>1, <1>7
<1>9. f[Pick(c)] \in Nat BY <1>4, <1>6
<1>10. Sum(f, c) = f[Pick(c)] + Sum(f, d) BY <1>4, <1>5, SumPicks
<1> QED BY <1>4, <1>8, <1>9, <1>10

(* Which element goes first makes no difference.                           *)
LEMMA SumStep ==
  ASSUME NEW I, NEW f \in [I -> Nat], NEW U \in SUBSET I, IsFiniteSet(U), NEW x \in U
  PROVE  Sum(f, U) = f[x] + Sum(f, U \ {x})
<1> DEFINE C == {t \in SUBSET I : IsFiniteSet(t) /\ \E y \in t : Sum(f, t) # f[y] + Sum(f, t \ {y})}
<1>1. SUFFICES ASSUME C # {} PROVE FALSE OBVIOUS
<1>2. \A t \in C : IsFiniteSet(t) OBVIOUS
<1>3. PICK c \in C : \A t \in C : Cardinality(t) < Cardinality(c) => FALSE
  <2> HIDE DEF C
  <2> QED BY <1>1, <1>2, SmallestSet
<1>4. PICK y \in c : Sum(f, c) # f[y] + Sum(f, c \ {y}) BY <1>3
<1>5. c \in SUBSET I /\ IsFiniteSet(c) /\ c # {} BY <1>3
<1>6. Pick(c) \in c BY <1>5 DEF Pick
<1>7. PICK p \in c : p = Pick(c) BY <1>6
<1>8. Sum(f, c) = f[p] + Sum(f, c \ {p}) BY <1>5, <1>7, SumPicks
<1>9. y # p BY <1>4, <1>8
<1>10. /\ c \ {p} \in SUBSET I /\ IsFiniteSet(c \ {p}) /\ Cardinality(c \ {p}) < Cardinality(c)
       /\ c \ {y} \in SUBSET I /\ IsFiniteSet(c \ {y}) /\ Cardinality(c \ {y}) < Cardinality(c)
  BY <1>5, Smaller
<1>11. ~ (c \ {p} \in C) /\ ~ (c \ {y} \in C)
  <2> HIDE DEF C
  <2> QED BY <1>3, <1>10
<1>12. Sum(f, c \ {p}) = f[y] + Sum(f, (c \ {p}) \ {y})
  <2>1. y \in c \ {p} BY <1>9
  <2> QED BY <2>1, <1>10, <1>11
<1>13. Sum(f, c \ {y}) = f[p] + Sum(f, (c \ {y}) \ {p})
  <2>1. p \in c \ {y} BY <1>9
  <2> QED BY <2>1, <1>10, <1>11
<1>14. (c \ {p}) \ {y} = (c \ {y}) \ {p} OBVIOUS
<1>15. PICK r : r = (c \ {p}) \ {y} OBVIOUS
<1>16. r \in SUBSET I /\ IsFiniteSet(r) BY <1>5, <1>15, FS_Subset
<1>17. Sum(f, r) \in Nat BY <1>16, SumIsNat
<1>18. f[p] \in Nat /\ f[y] \in Nat BY <1>5
<1>19. Sum(f, c) = f[p] + (f[y] + Sum(f, r)) BY <1>8, <1>12, <1>15
<1>20. Sum(f, c \ {y}) = f[p] + Sum(f, r) BY <1>13, <1>14, <1>15
<1>21. Sum(f, c) = f[y] + Sum(f, c \ {y}) BY <1>17, <1>18, <1>19, <1>20
<1> QED BY <1>4, <1>21

(* A sum is not more than another that has as much for every element.      *)
LEMMA SumBelow ==
  ASSUME NEW I, IsFiniteSet(I), NEW f \in [I -> Nat], NEW g \in [I -> Nat],
         NEW A \in SUBSET I, NEW B \in SUBSET I,
         \A x \in A : f[x] <= IF x \in B THEN g[x] ELSE 0
  PROVE  Sum(f, A) <= Sum(g, B)
<1> DEFINE Below(s, t) == \A x \in s : f[x] <= IF x \in t THEN g[x] ELSE 0
           C == {s \in SUBSET I : \E t \in SUBSET I : Below(s, t) /\ ~ (Sum(f, s) <= Sum(g, t))}
<1>1. SUFFICES ASSUME C # {} PROVE FALSE OBVIOUS
<1>2. \A t \in SUBSET I : IsFiniteSet(t) BY FS_Subset
<1>3. PICK c \in C : \A t \in C : Cardinality(t) < Cardinality(c) => FALSE
  <2>1. \A t \in C : IsFiniteSet(t) BY <1>2
  <2> HIDE DEF C
  <2> QED BY <2>1, <1>1, SmallestSet
<1>4. c \in SUBSET I /\ IsFiniteSet(c) BY <1>2, <1>3
<1>5. PICK t \in SUBSET I : Below(c, t) /\ ~ (Sum(f, c) <= Sum(g, t)) BY <1>3
<1>6. IsFiniteSet(t) /\ Sum(g, t) \in Nat BY <1>2, SumIsNat
<1>7. c # {}
  <2> SUFFICES ASSUME c = {} PROVE FALSE OBVIOUS
  <2>1. Sum(f, c) = 0 BY <1>4, SumPicks
  <2> QED BY <2>1, <1>5, <1>6
<1>8. PICK x \in c : TRUE BY <1>7
<1> DEFINE d == c \ {x}
           u == t \ {x}
<1>9. d \in SUBSET I /\ IsFiniteSet(d) /\ Cardinality(d) < Cardinality(c) BY <1>4, <1>8, Smaller
<1>10. u \in SUBSET I /\ IsFiniteSet(u) BY <1>2
<1>11. Below(d, u) BY <1>5
<1>12. Sum(f, d) <= Sum(g, u)
  <2>1. ~ (d \in C)
    <3> HIDE DEF C
    <3> QED BY <1>3, <1>9
  <2> HIDE DEF d, u, Below
  <2> QED BY <2>1, <1>9, <1>10, <1>11
<1>13. Sum(f, c) = f[x] + Sum(f, d) BY <1>4, SumStep
<1>14. Sum(f, d) \in Nat /\ Sum(g, u) \in Nat /\ f[x] \in Nat /\ g[x] \in Nat
  BY <1>4, <1>8, <1>9, <1>10, SumIsNat
<1>15. CASE x \in t
  <2>1. f[x] <= g[x] BY <1>5, <1>15
  <2>2. Sum(g, t) = g[x] + Sum(g, u) BY <1>6, <1>15, SumStep
  <2> HIDE DEF d, u, Below
  <2> QED BY <2>1, <2>2, <1>5, <1>12, <1>13, <1>14
<1>16. CASE x \notin t
  <2>1. f[x] <= 0 BY <1>5, <1>16
  <2>2. u = t BY <1>16
  <2> HIDE DEF d, u, Below
  <2> QED BY <2>1, <2>2, <1>5, <1>12, <1>13, <1>14
<1> QED BY <1>15, <1>16
--------------------------------------------------------------------------------
(* The size of the table: what holds at any time                           *)

TxRecords ==
  [op : {"put"}, item : Items, size : ItemSizes]
    \cup [op : {"remove"}, items : SUBSET Items, avg : Nat]
    \cup [op : {"clear", "walk"}]
    \cup [op : {"scan"}, size : Int, until : Nat]

SizeFits ==
  /\ sizes \in [Items -> ItemSizes \cup {0}]
  /\ clock \in Nat
  /\ sizeTxs \in Seq(TxRecords)
  /\ guess \in Int /\ bar \in Nat /\ age \in Nat /\ avg \in Nat
  /\ {sizeCommitting, suspended, recent, swept, misled} \subseteq BOOLEAN
  /\ sizeCommitting => sizeTxs # <<>>

\* What the transactions of s will remove
Doomed(s) == {k \in Items : \E i \in DOMAIN s : s[i].op = "remove" /\ k \in s[i].items}
NoClear(s) == \A i \in DOMAIN s : s[i].op # "clear"
Removes(s) == \E i \in DOMAIN s : s[i].op = "remove"

Scans(s) == \E i \in DOMAIN s : s[i].op = "scan"

\* Without the items that are about to be removed the table is below the
\* mark, or it will be scanned again.
SweptOrDoomed == swept => Sum(sizes, Items \ Doomed(sizeTxs)) <= Size!High \/ Scans(sizeTxs)

\* A fresh guess is that of a table that is about to be cleared, or is right,
\* or counts a removal that is under way.  A clear() that overtook nothing is
\* first in line.  A success makes the guess older.
GuessMeans ==
  ~misled =>
    /\ sizeTxs # <<>> => NoClear(Tail(sizeTxs))
    /\ age = 0 =>
         /\ bar = 0 /\ ~sizeCommitting
         /\ \/ sizeTxs # <<>> /\ Head(sizeTxs).op = "clear" /\ guess = 0
            \/ NoClear(sizeTxs) /\ guess = Sum(sizes, Items)
            \/ NoClear(sizeTxs) /\ Removes(sizeTxs)

SizeIInv == SizeFits /\ SweptOrDoomed /\ GuessMeans

--------------------------------------------------------------------------------
(* Sums of the table                                                       *)

LEMMA WeightIsSum ==
  /\ \A A : Size!Weight(A) = Sum(sizes, A)
  /\ Size!Total = Sum(sizes, Items)
BY DEF Size!Weight, Size!Total, Sum

\* An item weighs nothing or a size.
LEMMA TableIsNat ==
  ASSUME NEW f \in [Items -> ItemSizes \cup {0}]
  PROVE  f \in [Items -> Nat]
<1>1. ItemSizes \subseteq Nat \ {0} BY SizesAssumption DEF SizesAssumption
<1>2. \A k \in Items : f[k] \in ItemSizes \cup {0} OBVIOUS
<1>3. ItemSizes \cup {0} \subseteq Nat BY <1>1
<1>4. \A k \in Items : f[k] \in Nat BY <1>2, <1>3
<1>5. f = [k \in Items |-> f[k]] OBVIOUS
<1> QED BY <1>4, <1>5

LEMMA TableSums ==
  ASSUME NEW f \in [Items -> ItemSizes \cup {0}], NEW A \in SUBSET Items
  PROVE  f \in [Items -> Nat] /\ IsFiniteSet(A) /\ Sum(f, A) \in Nat
<1>1. f \in [Items -> Nat] BY TableIsNat
<1>2. IsFiniteSet(A) BY SizesAssumption, FS_Subset
<1> QED BY <1>1, <1>2, SumIsNat

LEMMA TableBelow ==
  ASSUME NEW f \in [Items -> ItemSizes \cup {0}], NEW g \in [Items -> ItemSizes \cup {0}],
         NEW A \in SUBSET Items, NEW B \in SUBSET Items,
         \A x \in A : f[x] <= IF x \in B THEN g[x] ELSE 0
  PROVE  Sum(f, A) <= Sum(g, B)
<1>1. f \in [Items -> Nat] /\ g \in [Items -> Nat] BY TableIsNat
<1> QED BY <1>1, SizesAssumption, SumBelow

\* Items that weigh nothing do not count.
LEMMA TableEqual ==
  ASSUME NEW f \in [Items -> ItemSizes \cup {0}], NEW A \in SUBSET Items, NEW B \in SUBSET Items,
         A \subseteq B, \A x \in B \ A : f[x] = 0
  PROVE  Sum(f, A) = Sum(f, B)
<1>1. f \in [Items -> Nat] BY TableIsNat
<1>2. Sum(f, A) <= Sum(f, B)
  <2>1. \A x \in A : f[x] <= IF x \in B THEN f[x] ELSE 0 BY <1>1
  <2> QED BY <2>1, TableBelow
<1>3. Sum(f, B) <= Sum(f, A)
  <2>1. \A x \in B : f[x] <= IF x \in A THEN f[x] ELSE 0 BY <1>1
  <2> QED BY <2>1, TableBelow
<1>4. Sum(f, A) \in Nat /\ Sum(f, B) \in Nat BY TableSums
<1> QED BY <1>2, <1>3, <1>4

LEMMA EmptyTable ==
  ASSUME NEW f, f = [k \in Items |-> 0], NEW A \in SUBSET Items
  PROVE  f \in [Items -> ItemSizes \cup {0}] /\ Sum(f, A) = 0
<1>1. f \in [Items -> ItemSizes \cup {0}] OBVIOUS
<1>2. Sum(f, {}) = Sum(f, A) BY <1>1, TableEqual
<1>3. Sum(f, {}) = 0 BY SumPicks, FS_EmptySet
<1> QED BY <1>1, <1>2, <1>3

LEMMA HighIsNat == Size!High \in Nat /\ Size!Low \in Nat
BY SizesAssumption DEF Size!High, Size!Low

--------------------------------------------------------------------------------
(* Sequences of transactions                                               *)

LEMMA Joined ==
  ASSUME NEW s \in Seq(TxRecords), NEW t \in Seq(TxRecords)
  PROVE  /\ s \o t \in Seq(TxRecords)
         /\ Doomed(s \o t) = Doomed(s) \cup Doomed(t)
         /\ NoClear(s \o t) <=> NoClear(s) /\ NoClear(t)
         /\ Removes(s \o t) <=> Removes(s) \/ Removes(t)
         /\ Scans(s \o t) <=> Scans(s) \/ Scans(t)
         /\ s # <<>> => s \o t # <<>> /\ Tail(s \o t) = Tail(s) \o t /\ Head(s \o t) = Head(s)
         /\ s = <<>> => s \o t = t
<1>1. s \o t \in Seq(TxRecords) OBVIOUS
<1>2. \A i \in DOMAIN s : i \in DOMAIN (s \o t) /\ (s \o t)[i] = s[i] OBVIOUS
<1>3. \A i \in DOMAIN t : Len(s) + i \in DOMAIN (s \o t) /\ (s \o t)[Len(s) + i] = t[i] OBVIOUS
<1>4. \A i \in DOMAIN (s \o t) : \/ i \in DOMAIN s /\ (s \o t)[i] = s[i]
                                 \/ \E j \in DOMAIN t : (s \o t)[i] = t[j]
  <2> TAKE i \in DOMAIN (s \o t)
  <2>1. CASE i \in 1 .. Len(s) BY <2>1
  <2>2. CASE i \notin 1 .. Len(s)
    <3>1. i - Len(s) \in DOMAIN t /\ (s \o t)[i] = t[i - Len(s)] BY <2>2
    <3> QED BY <3>1
  <2> QED BY <2>1, <2>2
<1>5. s # <<>> => s \o t # <<>> /\ Tail(s \o t) = Tail(s) \o t /\ Head(s \o t) = Head(s) OBVIOUS
<1>6. s = <<>> => s \o t = t OBVIOUS
<1>7. Doomed(s \o t) = Doomed(s) \cup Doomed(t) BY <1>2, <1>3, <1>4, ZenonT(40) DEF Doomed
<1>8. NoClear(s \o t) <=> NoClear(s) /\ NoClear(t) BY <1>2, <1>3, <1>4, ZenonT(40) DEF NoClear
<1>9. Removes(s \o t) <=> Removes(s) \/ Removes(t) BY <1>2, <1>3, <1>4, ZenonT(40) DEF Removes
<1>10. Scans(s \o t) <=> Scans(s) \/ Scans(t) BY <1>2, <1>3, <1>4, ZenonT(40) DEF Scans
<1> QED BY <1>1, <1>5, <1>6, <1>7, <1>8, <1>9, <1>10

LEMMA Single ==
  ASSUME NEW x \in TxRecords
  PROVE  /\ <<x>> \in Seq(TxRecords)
         /\ Doomed(<<x>>) = {k \in Items : x.op = "remove" /\ k \in x.items}
         /\ NoClear(<<x>>) <=> x.op # "clear"
         /\ Removes(<<x>>) <=> x.op = "remove"
         /\ Scans(<<x>>) <=> x.op = "scan"
<1>1. DOMAIN <<x>> = {1} /\ <<x>>[1] = x OBVIOUS
<1>2. <<x>> \in Seq(TxRecords) OBVIOUS
<1> HIDE DEF TxRecords
<1> QED BY <1>1, <1>2 DEF Doomed, NoClear, Removes, Scans

LEMMA None ==
  /\ <<>> \in Seq(TxRecords) /\ Doomed(<<>>) = {}
  /\ NoClear(<<>>) /\ ~Removes(<<>>) /\ ~Scans(<<>>)
BY DEF Doomed, NoClear, Removes, Scans

LEMMA FirstLeft ==
  ASSUME NEW s \in Seq(TxRecords), s # <<>>
  PROVE  /\ Head(s) \in TxRecords /\ Tail(s) \in Seq(TxRecords)
         /\ Doomed(s) = Doomed(Tail(s)) \cup {k \in Items : Head(s).op = "remove" /\ k \in Head(s).items}
         /\ NoClear(s) <=> NoClear(Tail(s)) /\ Head(s).op # "clear"
         /\ Removes(s) <=> Removes(Tail(s)) \/ Head(s).op = "remove"
         /\ Scans(s) <=> Scans(Tail(s)) \/ Head(s).op = "scan"
<1>1. Head(s) \in TxRecords /\ Tail(s) \in Seq(TxRecords) /\ s = <<Head(s)>> \o Tail(s) OBVIOUS
<1>2. PICK x \in TxRecords : x = Head(s) BY <1>1
<1>3. PICK t \in Seq(TxRecords) : t = Tail(s) BY <1>1
<1>4. PICK h \in Seq(TxRecords) : h = <<x>> BY Single
<1>5. s = h \o t BY <1>1, <1>2, <1>3, <1>4
<1>6. /\ Doomed(h) = {k \in Items : x.op = "remove" /\ k \in x.items}
      /\ NoClear(h) <=> x.op # "clear"
      /\ Removes(h) <=> x.op = "remove"
      /\ Scans(h) <=> x.op = "scan"
  BY <1>4, Single
<1> HIDE DEF TxRecords
<1>7. /\ Doomed(s) = Doomed(h) \cup Doomed(t)
      /\ NoClear(s) <=> NoClear(h) /\ NoClear(t)
      /\ Removes(s) <=> Removes(h) \/ Removes(t)
      /\ Scans(s) <=> Scans(h) \/ Scans(t)
  BY <1>5, Joined
<1> QED BY <1>2, <1>3, <1>6, <1>7

LEMMA Added ==
  ASSUME NEW s, NEW x, s \in Seq(TxRecords), x \in TxRecords
  PROVE  Append(s, x) = s \o <<x>>
<1> HIDE DEF TxRecords
<1> QED OBVIOUS

\* A sweep that begins adds a scan, or nothing when it is skipped.
LEMMA ScanFacts ==
  ASSUME SizeFits, NEW requested \in Int, NEW believed \in Int
  PROVE  /\ Size!Scan(requested, believed) \in Seq(TxRecords)
         /\ Doomed(Size!Scan(requested, believed)) = {}
         /\ NoClear(Size!Scan(requested, believed)) /\ ~Removes(Size!Scan(requested, believed))
         /\ ~suspended /\ believed > Size!High => Scans(Size!Scan(requested, believed))
<1> DEFINE x == [op |-> "scan", size |-> Size!ToRemove(requested, believed), until |-> clock]
<1>1. Size!ToRemove(requested, believed) \in Int BY HighIsNat DEF Size!ToRemove
<1>2. x \in TxRecords /\ x.op = "scan" BY <1>1 DEF TxRecords, SizeFits
<1>3. Size!Scan(requested, believed) \in {<<>>, <<x>>} BY DEF Size!Scan
<1>4. ~suspended /\ believed > Size!High => Size!Scan(requested, believed) = <<x>>
  BY HighIsNat DEF Size!Scan, Size!Skips
<1> HIDE DEF x
<1> QED BY <1>2, <1>3, <1>4, Single, None
--------------------------------------------------------------------------------
(* The size of the table: steps                                            *)

\* A call that puts transactions in line changes nothing that they mean.
LEMMA Appending ==
  ASSUME SizeIInv, NEW more \in Seq(TxRecords), NoClear(more),
         sizeTxs' = sizeTxs \o more,
         UNCHANGED <<sizes, sizeCommitting, guess, bar, age, swept, misled>>
  PROVE  /\ sizeTxs' \in Seq(TxRecords) /\ (sizeTxs # <<>> => sizeTxs' # <<>>)
         /\ SweptOrDoomed' /\ GuessMeans'
<1>1. sizes \in [Items -> ItemSizes \cup {0}] /\ sizeTxs \in Seq(TxRecords) BY DEF SizeIInv, SizeFits
<1>2. sizeTxs' \in Seq(TxRecords) /\ (sizeTxs # <<>> => sizeTxs' # <<>>) BY <1>1, Joined
<1>3. SweptOrDoomed'
  <2> SUFFICES ASSUME swept, ~Scans(sizeTxs')
               PROVE  Sum(sizes, Items \ Doomed(sizeTxs')) <= Size!High
    BY DEF SweptOrDoomed
  <2> DEFINE A == Items \ Doomed(sizeTxs')
             B == Items \ Doomed(sizeTxs)
  <2>1. A \in SUBSET Items /\ B \in SUBSET Items /\ A \subseteq B /\ ~Scans(sizeTxs)
    BY <1>1, Joined
  <2>2. \A x \in A : sizes[x] <= IF x \in B THEN sizes[x] ELSE 0 BY <1>1, <2>1, TableIsNat
  <2>3. Sum(sizes, B) <= Size!High BY <2>1 DEF SizeIInv, SweptOrDoomed
  <2> HIDE DEF A, B
  <2>4. Sum(sizes, A) <= Sum(sizes, B) BY <1>1, <2>1, <2>2, TableBelow
  <2>5. Sum(sizes, A) \in Nat /\ Sum(sizes, B) \in Nat BY <1>1, <2>1, TableSums
  <2>6. Sum(sizes, A) <= Size!High BY <2>3, <2>4, <2>5, HighIsNat
  <2> QED BY <2>6 DEF A
<1>4. GuessMeans'
  <2> SUFFICES ASSUME ~misled
               PROVE  /\ sizeTxs' # <<>> => NoClear(Tail(sizeTxs'))
                      /\ age = 0 =>
                           /\ bar = 0 /\ ~sizeCommitting
                           /\ \/ sizeTxs' # <<>> /\ Head(sizeTxs').op = "clear" /\ guess = 0
                              \/ NoClear(sizeTxs') /\ guess = Sum(sizes, Items)
                              \/ NoClear(sizeTxs') /\ Removes(sizeTxs')
    BY DEF GuessMeans
  <2>1. CASE sizeTxs = <<>>
    <3>1. sizeTxs' = more BY <1>1, <2>1, Joined
    <3>2. sizeTxs' # <<>> => NoClear(Tail(sizeTxs')) BY <3>1, FirstLeft
    <3>3. NoClear(sizeTxs') BY <3>1
    <3>4. ~Removes(sizeTxs) BY <2>1, None
    <3> QED BY <2>1, <3>2, <3>3, <3>4 DEF SizeIInv, GuessMeans
  <2>2. CASE sizeTxs # <<>>
    <3>1. /\ sizeTxs' # <<>> /\ Tail(sizeTxs') = Tail(sizeTxs) \o more /\ Head(sizeTxs') = Head(sizeTxs)
          /\ NoClear(sizeTxs') <=> NoClear(sizeTxs)
          /\ Removes(sizeTxs) => Removes(sizeTxs')
      BY <1>1, <2>2, Joined
    <3>2. Tail(sizeTxs) \in Seq(TxRecords) BY <1>1, <2>2, FirstLeft
    <3>3. NoClear(Tail(sizeTxs)) BY <2>2 DEF SizeIInv, GuessMeans
    <3>4. NoClear(Tail(sizeTxs'))
      <4> DEFINE u == Tail(sizeTxs)
      <4>1. NoClear(u) /\ u \in Seq(TxRecords) BY <3>2, <3>3, Zenon
      <4>2. Tail(sizeTxs') = u \o more BY <3>1, Zenon
      <4> HIDE DEF u
      <4>3. NoClear(u \o more) BY <4>1, Joined
      <4> QED BY <4>2, <4>3, Zenon
    <3> QED BY <2>2, <3>1, <3>4 DEF SizeIInv, GuessMeans
  <2> QED BY <2>1, <2>2
<1> QED BY <1>2, <1>3, <1>4

LEMMA Associative ==
  ASSUME NEW X, NEW a \in Seq(X), NEW b \in Seq(X), NEW d \in Seq(X)
  PROVE  (a \o b) \o d = a \o (b \o d)
OBVIOUS

LEMMA SizeInit == Size!Init => SizeIInv
<1> SUFFICES ASSUME Size!Init PROVE SizeIInv OBVIOUS
<1> USE DEF Size!Init
<1>1. sizes \in [Items -> ItemSizes \cup {0}] /\ Sum(sizes, Items) = 0 BY EmptyTable
<1>2. AgeLimit \in Nat BY SizesAssumption
<1>3. SizeFits
  <2>1. sizeTxs \in Seq(TxRecords) BY None
  <2>2. {sizeCommitting, suspended, recent, swept, misled} \subseteq BOOLEAN /\ ~sizeCommitting OBVIOUS
  <2>3. clock \in Nat /\ guess \in Int /\ bar \in Nat /\ age \in Nat /\ avg \in Nat BY <1>2
  <2> QED BY <1>1, <2>1, <2>2, <2>3 DEF SizeFits
<1>4. SweptOrDoomed BY DEF SweptOrDoomed
<1>5. GuessMeans BY <1>1, None DEF GuessMeans
<1> QED BY <1>3, <1>4, <1>5 DEF SizeIInv

LEMMA SizeSetItems ==
  ASSUME SizeIInv, NEW k \in Items, NEW s \in ItemSizes, Size!SetItems(k, s)
  PROVE  SizeIInv'
<1> DEFINE scan == IF s + guess + bar > Size!High \/ bar > Size!ErrorLimit
                   THEN Size!Scan(s, guess) ELSE <<>>
           put == <<[op |-> "put", item |-> k, size |-> s]>>
<1>1. SizeFits BY DEF SizeIInv
<1>2. /\ sizeTxs' = sizeTxs \o scan \o put
      /\ UNCHANGED <<sizes, clock, sizeCommitting, guess, bar, age, avg, suspended, swept, misled>>
      /\ recent' = (recent \/ scan # <<>>)
  BY DEF Size!SetItems, Size!estimate, Size!history, Size!Begun
<1>3. s \in Int /\ guess \in Int BY <1>1, SizesAssumption DEF SizeFits
<1>4. scan \in Seq(TxRecords) /\ NoClear(scan) BY <1>1, <1>3, ScanFacts, None
<1>5. put \in Seq(TxRecords) /\ NoClear(put)
  <2> DEFINE x == [op |-> "put", item |-> k, size |-> s]
  <2>1. x \in TxRecords /\ x.op # "clear" BY DEF TxRecords
  <2> HIDE DEF x
  <2>2. <<x>> \in Seq(TxRecords) /\ NoClear(<<x>>) BY <2>1, Single
  <2> QED BY <2>2 DEF x
<1>6. recent' \in BOOLEAN BY <1>1, <1>2 DEF SizeFits
<1> HIDE DEF scan, put
<1>7. sizeTxs' = sizeTxs \o (scan \o put)
  <2>2. sizeTxs \in Seq(TxRecords) BY <1>1 DEF SizeFits
  <2>3. sizeTxs' = (sizeTxs \o scan) \o put BY <1>2
  <2>4. (sizeTxs \o scan) \o put = sizeTxs \o (scan \o put) BY <2>2, <1>4, <1>5, Associative
  <2> QED BY <2>3, <2>4
<1>8. scan \o put \in Seq(TxRecords) /\ NoClear(scan \o put) BY <1>4, <1>5, Joined
<1>9. PICK more \in Seq(TxRecords) : more = scan \o put /\ NoClear(more) BY <1>8
<1>10. /\ sizeTxs' \in Seq(TxRecords) /\ (sizeTxs # <<>> => sizeTxs' # <<>>)
       /\ SweptOrDoomed' /\ GuessMeans'
  BY <1>2, <1>7, <1>9, Appending
<1>11. SizeFits' BY <1>1, <1>2, <1>6, <1>10 DEF SizeFits
<1> QED BY <1>10, <1>11 DEF SizeIInv

LEMMA SizeRemoveItems ==
  ASSUME SizeIInv, NEW k \in Items, Size!RemoveItems(k)
  PROVE  SizeIInv'
<1> DEFINE x == [op |-> "remove", items |-> {k}, avg |-> avg]
<1>1. SizeFits BY DEF SizeIInv
<1>2. /\ sizeTxs' = Append(sizeTxs, x)
      /\ UNCHANGED <<sizes, clock, sizeCommitting, guess, bar, age, avg, suspended, recent, swept, misled>>
  BY DEF Size!RemoveItems, Size!estimate, Size!history
<1>3. x \in TxRecords /\ x.op # "clear" BY <1>1 DEF SizeFits, TxRecords
<1> HIDE DEF x
<1>4. <<x>> \in Seq(TxRecords) /\ NoClear(<<x>>) BY <1>3, Single
<1>5. sizeTxs' = sizeTxs \o <<x>> BY <1>1, <1>2, <1>3, Added DEF SizeFits
<1>6. /\ sizeTxs' \in Seq(TxRecords) /\ (sizeTxs # <<>> => sizeTxs' # <<>>)
      /\ SweptOrDoomed' /\ GuessMeans'
  BY <1>2, <1>4, <1>5, Appending
<1>7. SizeFits' BY <1>1, <1>2, <1>6 DEF SizeFits
<1> QED BY <1>6, <1>7 DEF SizeIInv

LEMMA SizeGetSize ==
  ASSUME SizeIInv, Size!GetSize
  PROVE  SizeIInv'
<1> DEFINE x == [op |-> "walk"]
<1>1. SizeFits BY DEF SizeIInv
<1>2. /\ sizeTxs' = Append(sizeTxs, x)
      /\ UNCHANGED <<sizes, clock, sizeCommitting, guess, bar, age, avg, suspended, recent, swept, misled>>
  BY DEF Size!GetSize, Size!estimate, Size!history
<1>3. x \in TxRecords /\ x.op # "clear" BY DEF TxRecords
<1> HIDE DEF x
<1>4. <<x>> \in Seq(TxRecords) /\ NoClear(<<x>>) BY <1>3, Single
<1>5. sizeTxs' = sizeTxs \o <<x>> BY <1>1, <1>2, <1>3, Added DEF SizeFits
<1>6. /\ sizeTxs' \in Seq(TxRecords) /\ (sizeTxs # <<>> => sizeTxs' # <<>>)
      /\ SweptOrDoomed' /\ GuessMeans'
  BY <1>2, <1>4, <1>5, Appending
<1>7. SizeFits' BY <1>1, <1>2, <1>6 DEF SizeFits
<1> QED BY <1>6, <1>7 DEF SizeIInv

\* The guess and the bar of a cleared table are right when nothing is under way.
LEMMA SizeClear ==
  ASSUME SizeIInv, Size!Clear
  PROVE  SizeIInv'
<1> DEFINE x == [op |-> "clear"]
<1>1. SizeFits BY DEF SizeIInv
<1>2. /\ sizeTxs' = Append(sizeTxs, x) /\ misled' = (sizeTxs # <<>>)
      /\ guess' = 0 /\ bar' = 0 /\ age' = 0 /\ avg' = avg
      /\ UNCHANGED <<sizes, clock, sizeCommitting, suspended, recent, swept>>
  BY DEF Size!Clear, Size!SetSize
<1>3. x \in TxRecords /\ x.op = "clear" BY DEF TxRecords
<1> HIDE DEF x
<1>4. <<x>> \in Seq(TxRecords) /\ Doomed(<<x>>) = {} BY <1>3, Single
<1>5. sizeTxs' = sizeTxs \o <<x>> BY <1>1, <1>2, <1>3, Added DEF SizeFits
<1>6. /\ sizeTxs' \in Seq(TxRecords) /\ sizeTxs' # <<>>
      /\ Doomed(sizeTxs') = Doomed(sizeTxs)
      /\ Scans(sizeTxs) => Scans(sizeTxs')
  <2>1. sizeTxs \in Seq(TxRecords) BY <1>1 DEF SizeFits
  <2>2. PICK t \in Seq(TxRecords) : t = <<x>> BY <1>4
  <2>3. sizeTxs' = sizeTxs \o t /\ Doomed(t) = {} /\ sizeTxs' # <<>> BY <1>2, <1>4, <1>5, <2>2
  <2>4. /\ sizeTxs \o t \in Seq(TxRecords) /\ Doomed(sizeTxs \o t) = Doomed(sizeTxs) \cup Doomed(t)
        /\ Scans(sizeTxs) => Scans(sizeTxs \o t)
    BY <2>1, <2>2, Joined
  <2>5. Doomed(sizeTxs) \cup Doomed(t) = Doomed(sizeTxs) BY <2>3
  <2> QED BY <2>3, <2>4, <2>5
<1>7. SweptOrDoomed' BY <1>2, <1>6 DEF SizeIInv, SweptOrDoomed
<1>8. GuessMeans'
  <2> SUFFICES ASSUME ~misled' PROVE GuessMeans' BY DEF GuessMeans
  <2>1. sizeTxs = <<>> /\ ~sizeCommitting BY <1>1, <1>2 DEF SizeFits
  <2>2. sizeTxs' = <<x>> BY <1>2, <2>1
  <2>3. sizeTxs' # <<>> /\ Head(sizeTxs') = x /\ Tail(sizeTxs') = <<>> BY <2>2
  <2> QED BY <1>2, <1>3, <2>1, <2>3, None DEF GuessMeans
<1>9. SizeFits'
  <2>1. misled' \in BOOLEAN BY <1>2
  <2> QED BY <1>1, <1>2, <1>6, <2>1 DEF SizeFits
<1> QED BY <1>7, <1>8, <1>9 DEF SizeIInv

LEMMA SizeSweep ==
  ASSUME SizeIInv, Size!Sweep
  PROVE  SizeIInv'
<1>1. SizeFits BY DEF SizeIInv
<1>2. /\ sizeTxs' = sizeTxs \o Size!Scan(0, guess)
      /\ recent' = (recent \/ Size!Scan(0, guess) # <<>>)
      /\ UNCHANGED <<sizes, clock, sizeCommitting, guess, bar, age, avg, suspended, swept, misled>>
  BY DEF Size!Sweep, Size!estimate, Size!history, Size!Begun
<1>3. Size!Scan(0, guess) \in Seq(TxRecords) /\ NoClear(Size!Scan(0, guess))
  <2>1. 0 \in Int /\ guess \in Int BY <1>1 DEF SizeFits
  <2> QED BY <2>1, <1>1, ScanFacts
<1>4. PICK more \in Seq(TxRecords) : more = Size!Scan(0, guess) /\ NoClear(more) BY <1>3
<1>5. /\ sizeTxs' \in Seq(TxRecords) /\ (sizeTxs # <<>> => sizeTxs' # <<>>)
      /\ SweptOrDoomed' /\ GuessMeans'
  BY <1>2, <1>4, Appending
<1>6. recent' \in BOOLEAN BY <1>1, <1>2 DEF SizeFits
<1>7. SizeFits' BY <1>1, <1>2, <1>5, <1>6 DEF SizeFits
<1> QED BY <1>5, <1>7 DEF SizeIInv

LEMMA SizeQuiet ==
  ASSUME SizeIInv, \/ \E b \in BOOLEAN : Size!SetSuspended(b)
                   \/ Size!Expire \/ Size!IntervalOver \/ UNCHANGED Size!vars
  PROVE  SizeIInv'
<1>1. SizeFits BY DEF SizeIInv
<1>2. UNCHANGED <<sizes, sizeTxs, sizeCommitting, guess, bar, age, avg, swept, misled>>
  BY DEF Size!SetSuspended, Size!Expire, Size!IntervalOver, Size!vars, Size!estimate, Size!history
<1>3. clock' \in Nat /\ suspended' \in BOOLEAN /\ recent' \in BOOLEAN
  <2>1. clock \in Nat /\ suspended \in BOOLEAN /\ recent \in BOOLEAN BY <1>1 DEF SizeFits
  <2>2. CASE \E b \in BOOLEAN : Size!SetSuspended(b) BY <2>1, <2>2 DEF Size!SetSuspended
  <2>3. CASE Size!Expire BY <2>1, <2>3 DEF Size!Expire
  <2>4. CASE Size!IntervalOver BY <2>1, <2>4 DEF Size!IntervalOver
  <2>5. CASE UNCHANGED Size!vars BY <2>1, <2>5 DEF Size!vars
  <2> QED BY <2>2, <2>3, <2>4, <2>5
<1>4. SizeFits' BY <1>1, <1>2, <1>3 DEF SizeFits
<1>5. SweptOrDoomed' /\ GuessMeans' BY <1>2 DEF SizeIInv, SweptOrDoomed, GuessMeans
<1> QED BY <1>4, <1>5 DEF SizeIInv

\* An estimate that was counted up is not fresh.
LEMMA LaterClear ==
  ASSUME SizeIInv, sizeTxs # <<>>, sizeTxs' = Tail(sizeTxs), ~misled' => ~misled, age' # 0
  PROVE  GuessMeans'
<1>1. Tail(sizeTxs) \in Seq(TxRecords) BY FirstLeft DEF SizeIInv, SizeFits
<1>2. ~misled' => NoClear(sizeTxs') BY DEF SizeIInv, GuessMeans
<1>3. ~misled' /\ sizeTxs' # <<>> => NoClear(Tail(sizeTxs')) BY <1>1, <1>2, FirstLeft
<1> QED BY <1>3 DEF GuessMeans

\* While a success has to commit, the guess is not fresh.
LEMMA CommittingIsLater ==
  ASSUME SizeIInv, sizeCommitting, UNCHANGED <<age, misled>>
  PROVE  misled' \/ age' # 0
BY DEF SizeIInv, GuessMeans

LEMMA SizeSucceeds ==
  ASSUME SizeIInv, Size!PutSucceeds \/ Size!RemoveSucceeds
  PROVE  SizeIInv'
<1>1. SizeFits BY DEF SizeIInv
<1>2. PICK x \in TxRecords : x = Head(sizeTxs) /\ sizeTxs # <<>> /\ x.op \in {"put", "remove"}
  BY <1>1, FirstLeft DEF SizeFits, Size!PutSucceeds, Size!RemoveSucceeds, Size!Runs
<1>3. PICK change \in Int, error \in Nat : Size!Succeeds(change, error)
  <2>1. CASE Size!PutSucceeds
    <3>1. x.op = "put" BY <1>2, <2>1 DEF Size!PutSucceeds, Size!Runs
    <3>2. x.size \in ItemSizes BY <3>1 DEF TxRecords
    <3>3. x.size \in Nat BY <3>2, SizesAssumption
    <3>4. x.size \div 2 \in Nat BY <3>3
    <3> QED BY <1>2, <2>1, <3>4 DEF Size!PutSucceeds
  <2>2. CASE Size!RemoveSucceeds
    <3>1. x.op = "remove" BY <1>2, <2>2 DEF Size!RemoveSucceeds, Size!Runs
    <3>2. x.avg \in Nat BY <3>1 DEF TxRecords
    <3>3. -x.avg \in Int BY <3>2
    <3> QED BY <1>2, <2>2, <3>2, <3>3 DEF Size!RemoveSucceeds
  <2> QED BY <2>1, <2>2
<1>4. /\ sizeCommitting' = TRUE
      /\ guess' = guess + change /\ bar' = bar + error /\ age' = age + 1
      /\ UNCHANGED <<sizes, sizeTxs, avg, recent, clock, suspended, swept, misled>>
  BY <1>3 DEF Size!Succeeds, Size!UpdateSize, Size!Quiet, Size!history
<1>5. guess' \in Int /\ bar' \in Nat /\ age' \in Nat /\ age' # 0 BY <1>1, <1>4 DEF SizeFits
<1>6. SizeFits' BY <1>1, <1>2, <1>4, <1>5 DEF SizeFits
<1>7. SweptOrDoomed' BY <1>4 DEF SizeIInv, SweptOrDoomed
<1>8. GuessMeans' BY <1>4, <1>5 DEF SizeIInv, GuessMeans
<1> QED BY <1>6, <1>7, <1>8 DEF SizeIInv

LEMMA SizePutCommits ==
  ASSUME SizeIInv, Size!PutCommits
  PROVE  SizeIInv'
<1>1. SizeFits BY DEF SizeIInv
<1>2. PICK x \in TxRecords : x = Head(sizeTxs) /\ sizeTxs # <<>> /\ x.op = "put"
  BY <1>1, FirstLeft DEF SizeFits, Size!PutCommits, Size!Commits
<1>3. /\ sizes' = [sizes EXCEPT ![x.item] = x.size] /\ sizeTxs' = Tail(sizeTxs)
      /\ sizeCommitting /\ sizeCommitting' = FALSE /\ swept' = FALSE
      /\ UNCHANGED <<guess, bar, age, avg, recent, clock, suspended, misled>>
  BY <1>2 DEF Size!PutCommits, Size!Commits, Size!Quiet, Size!estimate
<1>4. x.item \in Items /\ x.size \in ItemSizes BY <1>2 DEF TxRecords
<1>5. sizes' \in [Items -> ItemSizes \cup {0}] BY <1>1, <1>3, <1>4 DEF SizeFits
<1>6. sizeTxs' \in Seq(TxRecords) BY <1>1, <1>2, <1>3, FirstLeft DEF SizeFits
<1>7. SizeFits' BY <1>1, <1>3, <1>5, <1>6 DEF SizeFits
<1>8. SweptOrDoomed' BY <1>3 DEF SweptOrDoomed
<1>9. misled' \/ age' # 0 BY <1>3, CommittingIsLater
<1>10. GuessMeans'
  <2>1. CASE misled' BY <2>1 DEF GuessMeans
  <2>2. CASE age' # 0 BY <2>2, <1>2, <1>3, LaterClear
  <2> QED BY <2>1, <2>2, <1>9
<1> QED BY <1>7, <1>8, <1>10 DEF SizeIInv

LEMMA SizeRemoveCommits ==
  ASSUME SizeIInv, Size!RemoveCommits
  PROVE  SizeIInv'
<1>1. SizeFits BY DEF SizeIInv
<1>2. PICK x \in TxRecords : x = Head(sizeTxs) /\ sizeTxs # <<>> /\ x.op = "remove"
  BY <1>1, FirstLeft DEF SizeFits, Size!RemoveCommits, Size!Commits
<1>3. /\ sizes' = [k \in Items |-> IF k \in x.items THEN 0 ELSE sizes[k]]
      /\ sizeTxs' = Tail(sizeTxs) /\ sizeCommitting /\ sizeCommitting' = FALSE
      /\ UNCHANGED <<guess, bar, age, avg, recent, clock, suspended, swept, misled>>
  BY <1>2 DEF Size!RemoveCommits, Size!Commits, Size!Quiet, Size!estimate, Size!history
<1>4. x.items \in SUBSET Items BY <1>2 DEF TxRecords
<1>5. sizes \in [Items -> ItemSizes \cup {0}] /\ sizeTxs \in Seq(TxRecords) BY <1>1 DEF SizeFits
<1>6. sizes' \in [Items -> ItemSizes \cup {0}] BY <1>3, <1>5
<1>7. sizeTxs' \in Seq(TxRecords) BY <1>2, <1>3, <1>5, FirstLeft
<1>8. SizeFits' BY <1>1, <1>3, <1>6, <1>7 DEF SizeFits
<1>9. SweptOrDoomed'
  <2> SUFFICES ASSUME swept, ~Scans(sizeTxs')
               PROVE  Sum(sizes', Items \ Doomed(sizeTxs')) <= Size!High
    BY <1>3 DEF SweptOrDoomed
  <2> DEFINE A == Items \ Doomed(sizeTxs')
             B == Items \ Doomed(sizeTxs)
  <2>1. A \in SUBSET Items /\ B \in SUBSET Items OBVIOUS
  <2>2. /\ Doomed(sizeTxs) = Doomed(sizeTxs') \cup {k \in Items : x.op = "remove" /\ k \in x.items}
        /\ ~Scans(sizeTxs)
    BY <1>2, <1>3, <1>5, FirstLeft
  <2>3. \A k \in A : k \in B \/ k \in x.items BY <2>2
  <2>4. \A k \in A : sizes'[k] <= IF k \in B THEN sizes[k] ELSE 0
    <3> TAKE k \in A
    <3>1. k \in Items /\ sizes[k] \in Nat BY <1>5, TableIsNat
    <3>2. CASE k \in x.items BY <1>3, <3>1, <3>2
    <3>3. CASE k \notin x.items BY <1>3, <2>3, <3>1, <3>3
    <3> QED BY <3>2, <3>3
  <2>5. Sum(sizes, B) <= Size!High BY <2>2 DEF SizeIInv, SweptOrDoomed
  <2> HIDE DEF A, B
  <2>6. Sum(sizes', A) <= Sum(sizes, B) BY <1>5, <1>6, <2>1, <2>4, TableBelow
  <2>7. Sum(sizes', A) \in Nat /\ Sum(sizes, B) \in Nat BY <1>5, <1>6, <2>1, TableSums
  <2>8. Sum(sizes', A) <= Size!High BY <2>5, <2>6, <2>7, HighIsNat
  <2> QED BY <2>8 DEF A
<1>10. misled' \/ age' # 0 BY <1>3, CommittingIsLater
<1>11. GuessMeans'
  <2>1. CASE misled' BY <2>1 DEF GuessMeans
  <2>2. CASE age' # 0 BY <2>2, <1>2, <1>3, LaterClear
  <2> QED BY <2>1, <2>2, <1>10
<1> QED BY <1>8, <1>9, <1>11 DEF SizeIInv

\* A transaction that fails leaves the table; what that does to the guess and
\* to a sweep is recorded.
LEMMA SizeFails ==
  ASSUME SizeIInv, Size!Fails
  PROVE  SizeIInv'
<1>1. SizeFits BY DEF SizeIInv
<1>2. PICK x \in TxRecords : x = Head(sizeTxs) /\ sizeTxs # <<>>
  BY <1>1, FirstLeft DEF SizeFits, Size!Fails
<1>3. /\ sizeTxs' = Tail(sizeTxs) /\ sizeCommitting' = FALSE
      /\ swept' = (swept /\ x.op \notin {"remove", "scan"})
      /\ misled' = (misled \/ x.op \in {"remove", "clear"})
      /\ UNCHANGED <<sizes, guess, bar, age, avg, recent, clock, suspended>>
  BY <1>2 DEF Size!Fails, Size!Quiet, Size!estimate
<1>4. sizes \in [Items -> ItemSizes \cup {0}] /\ sizeTxs \in Seq(TxRecords) BY <1>1 DEF SizeFits
<1>5. /\ sizeTxs' \in Seq(TxRecords)
      /\ Doomed(sizeTxs) = Doomed(sizeTxs') \cup {k \in Items : x.op = "remove" /\ k \in x.items}
      /\ NoClear(sizeTxs) <=> NoClear(sizeTxs') /\ x.op # "clear"
      /\ Removes(sizeTxs) <=> Removes(sizeTxs') \/ x.op = "remove"
      /\ Scans(sizeTxs) <=> Scans(sizeTxs') \/ x.op = "scan"
  BY <1>2, <1>3, <1>4, FirstLeft
<1>6. swept' \in BOOLEAN /\ misled' \in BOOLEAN BY <1>1, <1>3 DEF SizeFits
<1>7. SizeFits' BY <1>1, <1>3, <1>5, <1>6 DEF SizeFits
<1>8. SweptOrDoomed'
  <2> SUFFICES ASSUME swept'
               PROVE  Sum(sizes, Items \ Doomed(sizeTxs')) <= Size!High \/ Scans(sizeTxs')
    BY <1>3 DEF SweptOrDoomed
  <2>1. swept /\ x.op # "remove" /\ x.op # "scan" BY <1>3
  <2>2. Doomed(sizeTxs) = Doomed(sizeTxs') BY <1>5, <2>1
  <2> QED BY <1>5, <2>1, <2>2 DEF SizeIInv, SweptOrDoomed
<1>9. GuessMeans'
  <2> SUFFICES ASSUME ~misled'
               PROVE  /\ sizeTxs' # <<>> => NoClear(Tail(sizeTxs'))
                      /\ age = 0 => /\ bar = 0
                                    /\ \/ NoClear(sizeTxs') /\ guess = Sum(sizes, Items)
                                       \/ NoClear(sizeTxs') /\ Removes(sizeTxs')
    BY <1>3 DEF GuessMeans
  <2>1. ~misled /\ x.op # "remove" /\ x.op # "clear" BY <1>3
  <2>2. NoClear(sizeTxs') BY <1>2, <1>3, <2>1 DEF SizeIInv, GuessMeans
  <2>3. sizeTxs' # <<>> => NoClear(Tail(sizeTxs')) BY <1>5, <2>2, FirstLeft
  <2> QED BY <1>2, <1>5, <2>1, <2>2, <2>3 DEF SizeIInv, GuessMeans
<1> QED BY <1>7, <1>8, <1>9 DEF SizeIInv

LEMMA SizeClearRuns ==
  ASSUME SizeIInv, Size!ClearRuns
  PROVE  SizeIInv'
<1>1. SizeFits BY DEF SizeIInv
<1>2. PICK x \in TxRecords : x = Head(sizeTxs) /\ sizeTxs # <<>> /\ x.op = "clear"
  BY <1>1, FirstLeft DEF SizeFits, Size!ClearRuns, Size!Runs
<1>3. /\ sizes' = [k \in Items |-> 0] /\ sizeTxs' = Tail(sizeTxs)
      /\ ~sizeCommitting /\ sizeCommitting' = FALSE
      /\ UNCHANGED <<guess, bar, age, avg, recent, clock, suspended, swept, misled>>
  BY <1>1, <1>2 DEF SizeFits, Size!ClearRuns, Size!Runs, Size!estimate, Size!Quiet, Size!history
<1>4. /\ sizes' \in [Items -> ItemSizes \cup {0}] /\ Sum(sizes', Items) = 0
      /\ Sum(sizes', Items \ Doomed(sizeTxs')) = 0
  BY <1>3, EmptyTable
<1>5. sizeTxs' \in Seq(TxRecords) /\ (NoClear(sizeTxs) => FALSE)
  BY <1>1, <1>2, <1>3, FirstLeft DEF SizeFits
<1>6. SizeFits' BY <1>1, <1>3, <1>4, <1>5 DEF SizeFits
<1>7. SweptOrDoomed' BY <1>4, HighIsNat DEF SweptOrDoomed
<1>8. GuessMeans'
  <2> SUFFICES ASSUME ~misled
               PROVE  /\ sizeTxs' # <<>> => NoClear(Tail(sizeTxs'))
                      /\ age = 0 => bar = 0 /\ NoClear(sizeTxs') /\ guess = Sum(sizes', Items)
    BY <1>3 DEF GuessMeans
  <2>1. NoClear(sizeTxs') BY <1>2, <1>3 DEF SizeIInv, GuessMeans
  <2>2. sizeTxs' # <<>> => NoClear(Tail(sizeTxs')) BY <1>5, <2>1, FirstLeft
  <2>3. age = 0 => bar = 0 /\ guess = 0 BY <1>5 DEF SizeIInv, GuessMeans
  <2> QED BY <1>4, <2>1, <2>2, <2>3
<1> QED BY <1>6, <1>7, <1>8 DEF SizeIInv

LEMMA CardinalityIsNat ==
  ASSUME NEW A \in SUBSET Items
  PROVE  Size!Cardinality(A) \in Nat
<1>1. Size!Cardinality(A) = Cardinality(A) BY DEF Size!Cardinality, Cardinality
<1>2. IsFiniteSet(A) BY SizesAssumption, FS_Subset
<1> QED BY <1>1, <1>2, FS_CardinalityType

\* A walk or a scan that found "size" and removes "more"
LEMMA ScanEnds ==
  ASSUME SizeIInv, sizeTxs # <<>>, ~sizeCommitting,
         \/ Head(sizeTxs).op = "walk" /\ swept' = swept
         \/ Head(sizeTxs).op = "scan" /\ swept' = ~suspended,
         NEW more \in Seq(TxRecords), NoClear(more), more = <<>> \/ Removes(more),
         NEW size \in Nat, size = Sum(sizes, Items \ Doomed(more)), Size!AfterScan(size, more),
         Size!Counted,
         UNCHANGED <<sizes, sizeCommitting>>, guess' = size, bar' = 0, age' = 0
  PROVE  /\ sizeTxs' \in Seq(TxRecords) /\ SweptOrDoomed' /\ GuessMeans'
         /\ {recent', swept', misled'} \subseteq BOOLEAN
<1> DEFINE scan == IF size > Size!High THEN Size!Scan(0, size) ELSE <<>>
<1>1. SizeFits BY DEF SizeIInv
<1>2. sizes \in [Items -> ItemSizes \cup {0}] /\ sizeTxs \in Seq(TxRecords) BY <1>1 DEF SizeFits
<1>3. /\ sizeTxs' = (Tail(sizeTxs) \o more) \o scan
      /\ recent' = (recent \/ scan # <<>>)
  BY DEF Size!AfterScan, Size!ThenSweepAbove, Size!Begun
<1>4. /\ scan \in Seq(TxRecords) /\ NoClear(scan)
      /\ size > Size!High /\ ~suspended => Scans(scan)
  <2>1. 0 \in Int /\ size \in Int OBVIOUS
  <2>2. /\ Size!Scan(0, size) \in Seq(TxRecords) /\ NoClear(Size!Scan(0, size))
        /\ ~suspended /\ size > Size!High => Scans(Size!Scan(0, size))
    BY <1>1, <2>1, ScanFacts
  <2> QED BY <2>2, None
<1>5. {recent', swept', misled'} \subseteq BOOLEAN
  <2>1. recent \in BOOLEAN /\ swept \in BOOLEAN /\ suspended \in BOOLEAN BY <1>1 DEF SizeFits
  <2> QED BY <1>3, <2>1 DEF Size!Counted
<1> HIDE DEF scan
<1>6. PICK rest \in Seq(TxRecords) :
         /\ rest = Tail(sizeTxs) /\ Doomed(sizeTxs) = Doomed(rest)
         /\ Head(sizeTxs).op # "scan" => (Scans(sizeTxs) => Scans(rest))
  <2>1. /\ Tail(sizeTxs) \in Seq(TxRecords)
        /\ Doomed(sizeTxs) = Doomed(Tail(sizeTxs))
                               \cup {k \in Items : Head(sizeTxs).op = "remove" /\ k \in Head(sizeTxs).items}
        /\ Head(sizeTxs).op # "scan" => (Scans(sizeTxs) => Scans(Tail(sizeTxs)))
    BY <1>2, FirstLeft
  <2>2. {k \in Items : Head(sizeTxs).op = "remove" /\ k \in Head(sizeTxs).items} = {} OBVIOUS
  <2> QED BY <2>1, <2>2
<1>7. /\ rest \o more \in Seq(TxRecords)
      /\ Doomed(rest \o more) = Doomed(rest) \cup Doomed(more)
      /\ NoClear(rest \o more) <=> NoClear(rest)
      /\ Removes(more) => Removes(rest \o more)
      /\ Scans(rest) => Scans(rest \o more)
  BY Joined
<1>8. PICK long \in Seq(TxRecords) : long = rest \o more BY <1>7
<1>9. /\ long \o scan \in Seq(TxRecords)
      /\ Doomed(long \o scan) = Doomed(long) \cup Doomed(scan)
      /\ NoClear(long \o scan) <=> NoClear(long)
      /\ Removes(long) => Removes(long \o scan)
      /\ Scans(long) \/ Scans(scan) => Scans(long \o scan)
  BY <1>4, Joined
<1>10. PICK new \in Seq(TxRecords) : new = long \o scan BY <1>9
<1>11. sizeTxs' = new BY <1>3, <1>6, <1>8, <1>10
<1>12. /\ Doomed(rest) \subseteq Doomed(new) /\ Doomed(more) \subseteq Doomed(new)
       /\ NoClear(rest) => NoClear(new)
       /\ Removes(more) => Removes(new)
       /\ Scans(rest) \/ Scans(scan) => Scans(new)
  BY <1>7, <1>8, <1>9, <1>10
<1>13. SweptOrDoomed'
  <2> SUFFICES ASSUME swept', ~Scans(new) PROVE Sum(sizes, Items \ Doomed(new)) <= Size!High
    BY <1>11 DEF SweptOrDoomed
  <2> DEFINE A == Items \ Doomed(new)
  <2>1. ASSUME NEW B \in SUBSET Items, A \subseteq B, Sum(sizes, B) <= Size!High
        PROVE  Sum(sizes, A) <= Size!High
    <3>1. A \in SUBSET Items OBVIOUS
    <3> HIDE DEF A
    <3>2. \A x \in A : sizes[x] <= IF x \in B THEN sizes[x] ELSE 0
      <4> TAKE x \in A
      <4>1. x \in B /\ sizes[x] \in Nat BY <1>2, <2>1, <3>1, TableIsNat
      <4> QED BY <4>1
    <3>3. Sum(sizes, A) <= Sum(sizes, B) BY <1>2, <3>1, <3>2, TableBelow
    <3>4. Sum(sizes, A) \in Nat /\ Sum(sizes, B) \in Nat BY <1>2, <3>1, TableSums
    <3> QED BY <2>1, <3>3, <3>4, HighIsNat
  <2>2. CASE Head(sizeTxs).op = "walk"
    <3>1. swept /\ ~Scans(sizeTxs) BY <1>6, <1>12, <2>2
    <3>2. Sum(sizes, Items \ Doomed(rest)) <= Size!High BY <1>6, <3>1 DEF SizeIInv, SweptOrDoomed
    <3>3. A \subseteq Items \ Doomed(rest) BY <1>12
    <3> QED BY <2>1, <3>2, <3>3
  <2>3. CASE Head(sizeTxs).op = "scan"
    <3>1. ~ (size > Size!High) BY <1>4, <1>12, <2>3
    <3>2. Sum(sizes, Items \ Doomed(more)) <= Size!High BY <3>1, HighIsNat
    <3>3. A \subseteq Items \ Doomed(more) BY <1>12
    <3> QED BY <2>1, <3>2, <3>3
  <2> QED BY <2>2, <2>3
<1>14. GuessMeans'
  <2> SUFFICES ASSUME ~misled'
               PROVE  /\ new # <<>> => NoClear(Tail(new))
                      /\ NoClear(new)
                      /\ size = Sum(sizes, Items) \/ Removes(new)
    BY <1>11 DEF GuessMeans
  <2>1. NoClear(new) BY <1>6, <1>12 DEF NoClear, Size!Counted
  <2>2. new # <<>> => NoClear(Tail(new)) BY <2>1, FirstLeft
  <2>3. CASE more = <<>>
    <3>1. Items \ Doomed(more) = Items BY <2>3, None
    <3> QED BY <2>1, <2>2, <3>1
  <2>4. CASE Removes(more) BY <2>1, <2>2, <2>4, <1>12
  <2> QED BY <2>3, <2>4
<1> QED BY <1>5, <1>11, <1>13, <1>14

LEMMA SizeWalkRuns ==
  ASSUME SizeIInv, Size!WalkRuns
  PROVE  SizeIInv'
<1>1. SizeFits BY DEF SizeIInv
<1>2. /\ sizeTxs # <<>> /\ Head(sizeTxs).op = "walk"
      /\ guess' = Size!Total /\ bar' = 0 /\ age' = 0
      /\ avg' = IF Size!Cardinality(Size!Present) > 0
                THEN Size!Total \div Size!Cardinality(Size!Present) ELSE avg
      /\ Size!AfterScan(Size!Total, <<>>)
      /\ Size!Counted /\ swept' = swept /\ ~sizeCommitting
      /\ UNCHANGED <<sizes, clock, sizeCommitting, suspended>>
  BY DEF Size!WalkRuns, Size!Runs, Size!SetSize, Size!Quiet
<1>3. sizes \in [Items -> ItemSizes \cup {0}] BY <1>1 DEF SizeFits
<1>4. Size!Total = Sum(sizes, Items) /\ Size!Total \in Nat BY <1>3, WeightIsSum, TableSums
<1>5. Size!Cardinality(Size!Present) \in Nat
  <2>1. Size!Present \in SUBSET Items BY DEF Size!Present
  <2> QED BY <2>1, CardinalityIsNat
<1>6. avg' \in Nat
  <2>1. avg \in Nat BY <1>1 DEF SizeFits
  <2> QED BY <1>2, <1>4, <1>5, <2>1
<1>7. Items \ Doomed(<<>>) = Items BY None
<1>8. PICK more \in Seq(TxRecords) : more = <<>> /\ NoClear(more) BY None
<1>9. PICK size \in Nat : size = Size!Total BY <1>4
<1>10. size = Sum(sizes, Items \ Doomed(more)) BY <1>4, <1>7, <1>8, <1>9
<1>11. Size!AfterScan(size, more) BY <1>2, <1>8, <1>9
<1>12. /\ sizeTxs' \in Seq(TxRecords) /\ SweptOrDoomed' /\ GuessMeans'
       /\ {recent', swept', misled'} \subseteq BOOLEAN
  BY <1>2, <1>8, <1>9, <1>10, <1>11, ScanEnds
<1>13. SizeFits' BY <1>1, <1>2, <1>4, <1>6, <1>12 DEF SizeFits
<1> QED BY <1>12, <1>13 DEF SizeIInv

LEMMA SizeScanRuns ==
  ASSUME SizeIInv, Size!ScanRuns
  PROVE  SizeIInv'
<1> DEFINE chosen == Size!Chosen(Head(sizeTxs))
           left == Size!Present \ chosen
           mean == IF left = {} THEN avg ELSE Size!Weight(left) \div Size!Cardinality(left)
           removal == [op |-> "remove", items |-> chosen, avg |-> mean]
           added == IF chosen = {} THEN <<>> ELSE <<removal>>
<1>1. SizeFits BY DEF SizeIInv
<1>2. /\ sizeTxs # <<>> /\ Head(sizeTxs).op = "scan"
      /\ guess' = Size!Weight(left) /\ bar' = 0 /\ age' = 0
      /\ avg' = IF Size!Cardinality(left) > 0
                THEN Size!Weight(left) \div Size!Cardinality(left) ELSE avg
      /\ Size!AfterScan(Size!Weight(left), added)
      /\ Size!Counted /\ swept' = ~suspended /\ ~sizeCommitting
      /\ UNCHANGED <<sizes, clock, sizeCommitting, suspended>>
  BY DEF Size!ScanRuns, Size!Runs, Size!SetSize, Size!Quiet
<1>3. chosen \in SUBSET Size!Present BY DEF Size!Chosen
<1>4. Size!Present \in SUBSET Items BY DEF Size!Present
<1>5. sizes \in [Items -> ItemSizes \cup {0}] /\ avg \in Nat BY <1>1 DEF SizeFits
<1>6. left \in SUBSET Items /\ chosen \in SUBSET Items BY <1>3, <1>4
<1>7. Size!Weight(left) \in Nat /\ Size!Weight(left) = Sum(sizes, left)
  BY <1>5, <1>6, WeightIsSum, TableSums
<1>8. Sum(sizes, left) = Sum(sizes, Items \ chosen)
  <2>1. \A x \in (Items \ chosen) \ left : sizes[x] = 0
    <3> TAKE x \in (Items \ chosen) \ left
    <3>1. x \in Items /\ x \notin Size!Present OBVIOUS
    <3>2. sizes[x] \in Nat /\ ~ (sizes[x] > 0) BY <3>1, <1>5, TableIsNat DEF Size!Present
    <3> QED BY <3>2
  <2>2. left \subseteq Items \ chosen /\ Items \ chosen \in SUBSET Items BY <1>4
  <2> HIDE DEF left, chosen
  <2> QED BY <2>1, <2>2, <1>5, <1>6, TableEqual
<1>9. Size!Cardinality(left) \in Nat BY <1>6, CardinalityIsNat
<1>10. left # {} => Size!Cardinality(left) > 0
  <2>1. Size!Cardinality(left) = Cardinality(left) BY DEF Size!Cardinality, Cardinality
  <2>2. IsFiniteSet(left) BY <1>6, SizesAssumption, FS_Subset
  <2> HIDE DEF left
  <2>3. left # {} => Cardinality(left) # 0 BY <2>2, FS_EmptySet
  <2> QED BY <2>1, <2>3, <1>9
<1> HIDE DEF chosen, left
<1>11. mean \in Nat /\ avg' \in Nat BY <1>2, <1>5, <1>7, <1>9, <1>10
<1>12. added \in Seq(TxRecords) /\ NoClear(added) /\ Doomed(added) = chosen
       /\ (added = <<>> \/ Removes(added))
  <2>1. CASE chosen = {} BY <2>1, None
  <2>2. CASE chosen # {}
    <3>1. removal \in TxRecords BY <1>6, <1>11 DEF TxRecords
    <3>2. removal.op = "remove" /\ removal.items = chosen OBVIOUS
    <3> HIDE DEF removal
    <3>3. /\ <<removal>> \in Seq(TxRecords) /\ NoClear(<<removal>>) /\ Removes(<<removal>>)
          /\ Doomed(<<removal>>) = {k \in Items : removal.op = "remove" /\ k \in removal.items}
      BY <3>1, <3>2, Single
    <3>4. Doomed(<<removal>>) = chosen BY <3>2, <3>3, <1>6
    <3> QED BY <2>2, <3>3, <3>4
  <2> QED BY <2>1, <2>2
<1> HIDE DEF added
<1>13. PICK more \in Seq(TxRecords) : more = added BY <1>12
<1>14. PICK size \in Nat : size = Size!Weight(left) BY <1>7
<1>15. size = Sum(sizes, Items \ Doomed(more)) BY <1>7, <1>8, <1>12, <1>13, <1>14
<1>16. Size!AfterScan(size, more) BY <1>2, <1>13, <1>14
<1>17. NoClear(more) /\ (more = <<>> \/ Removes(more)) BY <1>12, <1>13
<1>18. /\ sizeTxs' \in Seq(TxRecords) /\ SweptOrDoomed' /\ GuessMeans'
       /\ {recent', swept', misled'} \subseteq BOOLEAN
  BY <1>2, <1>14, <1>15, <1>16, <1>17, ScanEnds
<1>19. SizeFits' BY <1>1, <1>2, <1>7, <1>11, <1>18 DEF SizeFits
<1> QED BY <1>18, <1>19 DEF SizeIInv

LEMMA SizeStep == SizeIInv /\ [Size!Next]_(Size!vars) => SizeIInv'
<1> SUFFICES ASSUME SizeIInv, [Size!Next]_(Size!vars) PROVE SizeIInv' OBVIOUS
<1>1. ASSUME NEW k \in Items, Size!RemoveItems(k) PROVE SizeIInv' BY <1>1, SizeRemoveItems
<1>2. ASSUME NEW k \in Items, NEW s \in ItemSizes, Size!SetItems(k, s) PROVE SizeIInv'
  BY <1>2, SizeSetItems
<1>3. CASE Size!Clear BY <1>3, SizeClear
<1>4. CASE Size!GetSize BY <1>4, SizeGetSize
<1>5. CASE Size!Sweep BY <1>5, SizeSweep
<1>6. CASE (\E b \in BOOLEAN : Size!SetSuspended(b)) \/ Size!Expire \/ Size!IntervalOver
           \/ UNCHANGED Size!vars
  BY <1>6, SizeQuiet
<1>7. CASE Size!Transaction
  BY <1>7, SizeSucceeds, SizePutCommits, SizeRemoveCommits, SizeClearRuns, SizeWalkRuns, SizeScanRuns,
     SizeFails DEF Size!Transaction
<1> QED BY <1>1, <1>2, <1>3, <1>4, <1>5, <1>6, <1>7 DEF Size!Next

LEMMA SizeIsSafe == SizeIInv => Size!TypeOK /\ Size!SweepBringsDown /\ Size!FreshGuessIsExact
<1> SUFFICES ASSUME SizeIInv PROVE Size!TypeOK /\ Size!SweepBringsDown /\ Size!FreshGuessIsExact
  OBVIOUS
<1>1. SizeFits BY DEF SizeIInv
<1>2. Size!Total = Sum(sizes, Items) BY WeightIsSum
<1>3. Size!TypeOK
  <2>1. \A i \in DOMAIN sizeTxs : sizeTxs[i] \in TxRecords BY <1>1 DEF SizeFits
  <2>2. \A x \in TxRecords : x.op \in {"put", "remove", "clear", "walk", "scan"} BY DEF TxRecords
  <2>3. \A i \in DOMAIN sizeTxs : sizeTxs[i].op \in {"put", "remove", "clear", "walk", "scan"}
    BY <2>1, <2>2
  <2> QED BY <1>1, <2>3 DEF SizeFits, Size!TypeOK
<1>4. Size!SweepBringsDown
  <2>1. sizeTxs = <<>> => Items \ Doomed(sizeTxs) = Items /\ ~Scans(sizeTxs) BY None
  <2> QED BY <1>2, <2>1 DEF SizeIInv, SweptOrDoomed, Size!SweepBringsDown
<1>5. Size!FreshGuessIsExact
  BY <1>2, None DEF SizeIInv, GuessMeans, Size!FreshGuessIsExact
<1> QED BY <1>3, <1>4, <1>5

--------------------------------------------------------------------------------
(* The adapter that encrypts                                               *)

\* CryptoAssumption: the sentinel is no item, and neither it nor a cipher looks like nothing.
Distinct ==
  /\ Sentinel \notin ItemKeys /\ Sentinel \notin {Nothing, Garbage}
  /\ Nothing \notin Crypto!Ciphers

Kinds == {"initialize", "get", "set", "remove", "clear", "sweep"}
Ops == {"read", "put", "remove", "clear", "sweep"}
OpeningStages ==
  {"waits", "waits for no key", "reads", "checks", "clears first", "encrypts the sentinel again",
   "writes again", "encrypts the sentinel", "writes", "rejected"}
Stages == OpeningStages \cup {"encrypts", "clears", "resolved"}
CallRecords == [kind : Kinds, item : Crypto!Names, value : Values \cup {Sentinel, Nothing, Garbage},
                stage : Stages, before : [ItemKeys -> SUBSET (Values \cup {Nothing})]]
CryptoTxs == [by : Nat, op : Ops, item : Crypto!Names, cipher : Crypto!Ciphers \cup {Nothing}]

\* Before its initialize() has resolved a session knows nothing of the items.
Anything == [k \in ItemKeys |-> Values \cup {Nothing}]

\* All ciphers are of the key of this session.
Uniform == \A n \in Crypto!Names : table[n] # Nothing => table[n].key = key

TableFits ==
  /\ table \in [Crypto!Names -> Crypto!Ciphers \cup {Nothing}]
  /\ \A k \in ItemKeys : Crypto!Plain(k) \in Values \cup {Nothing}
  /\ \A m, n \in Crypto!Names : table[m] # Nothing /\ table[n] # Nothing => table[m].key = table[n].key

Shape ==
  /\ keyPromise \in {"unset", "importing", "rejected"} \cup CryptoKeys
  /\ key \in CryptoKeys \cup {Crypto!NoKey}
  /\ inner \in {"unset", "opening", "open", "failed"}
  /\ calls \in Seq(CallRecords)
  /\ txs \in Seq(CryptoTxs)
  /\ committing \in BOOLEAN
  /\ latest \in [ItemKeys -> SUBSET (Values \cup {Nothing})]
  /\ TableFits

\* The transactions that were not answered: while the first commits, those after it
Pending == IF committing THEN Tail(txs) ELSE txs

\* What commits is of this session's key, like all of the table then.
HeadCommits ==
  committing => /\ txs # <<>> /\ Uniform
                /\ Head(txs).op \in {"put", "remove"} /\ Head(txs).by \in DOMAIN calls
                /\ Head(txs).cipher # Nothing =>
                     /\ Head(txs).cipher.key = key
                     /\ Head(txs).item \in ItemKeys => Head(txs).cipher.value \in Values

--------------------------------------------------------------------------------
(* The phases of a session                                                 *)

Unopened == calls = <<>> /\ txs = <<>> /\ latest = Anything

\* The transaction that each stage of initialize() waits for
OwnTxs(stage, k) ==
  IF stage = "reads" THEN <<Crypto!Tx(1, "read", Sentinel, Nothing)>>
  ELSE IF stage = "clears first" THEN <<Crypto!Tx(1, "clear", Sentinel, Nothing)>>
  ELSE IF stage \in {"writes again", "writes"} THEN <<Crypto!Tx(1, "put", Sentinel,
        Crypto!Cipher(Sentinel, k))>>
  ELSE <<>>

Opening ==
  /\ Len(calls) = 1
  /\ calls[1].kind = "initialize" /\ calls[1].item = Sentinel
  /\ LET stage == calls[1].stage
     IN /\ stage \in OpeningStages
        /\ Pending = OwnTxs(stage, key)
        /\ committing => stage \in {"encrypts the sentinel", "writes", "rejected"}
        /\ latest = Anything
        /\ stage \notin {"waits", "waits for no key", "rejected"} => key \in CryptoKeys
        /\ \/ stage \in {"waits", "waits for no key", "reads", "clears first", "rejected"}
           \/ stage = "checks" /\ calls[1].value # Sentinel
           \/ Uniform

\* The calls after the first, and the transaction that each may wait for
CallFits(c) ==
  \/ c.kind = "get" /\ c.stage \in {"reads"} \cup Crypto!Over
  \/ /\ c.kind = "set" /\ c.stage \in {"encrypts", "writes"} \cup Crypto!Over
     /\ c.item \in ItemKeys /\ c.value \in Values
  \/ c.kind = "remove" /\ c.stage \in {"writes"} \cup Crypto!Over /\ c.item \in ItemKeys
  \/ /\ c.kind \in {"clear", "sweep"} /\ c.item = Sentinel
     /\ c.stage \in {"clears", "encrypts the sentinel", "writes"} \cup Crypto!Over
TxFits(tx, c) ==
  \/ c.kind = "get" /\ c.stage = "reads" /\ tx.op = "read"
  \/ c.kind = "set" /\ c.stage = "writes" /\ tx.op = "put" /\ tx.item = c.item
       /\ tx.cipher = Crypto!Cipher(c.value, key)
  \/ c.kind = "remove" /\ c.stage = "writes" /\ tx.op = "remove" /\ tx.item = c.item
       /\ tx.cipher = Nothing
  \/ c.kind \in {"clear", "sweep"} /\ c.stage = "clears" /\ tx.op = c.kind
  \/ c.kind \in {"clear", "sweep"} /\ c.stage = "writes" /\ tx.op = "put" /\ tx.item = Sentinel
       /\ tx.cipher = Crypto!Cipher(Sentinel, key)

CallsFit == \A i \in DOMAIN calls : i = 1 \/ CallFits(calls[i])
TxsFit ==
  /\ \A j \in DOMAIN Pending : /\ Pending[j].by \in DOMAIN calls \ {1}
                               /\ TxFits(Pending[j], calls[Pending[j].by])
  /\ \A j, l \in DOMAIN Pending : j # l => Pending[j].by # Pending[l].by

\* A write that was not answered and has not changed the table
Due(i, k) ==
  \/ calls[i].kind \in {"set", "remove"} /\ calls[i].item = k /\ calls[i].stage \notin Crypto!Over
  \/ calls[i].kind = "clear" /\ calls[i].stage = "clears"
Effect(i) == IF calls[i].kind = "set" THEN calls[i].value ELSE Nothing

\* Not superseded, or only by writes that are due
Left(k, v) == v \in latest[k] \/ \E i \in DOMAIN calls : Due(i, k) /\ v \in calls[i].before[k]

\* What is found was not superseded unless by a write that is due, no write that is due
\* was superseded, and what an abort brings back only by the write that aborts.
WritesKept ==
  \A k \in ItemKeys :
    /\ Left(k, Crypto!Found(k))
    /\ \A i \in DOMAIN calls : Due(i, k) => Effect(i) \in latest[k]
    /\ committing /\ Head(txs).item = k =>
         Left(k, Crypto!Plain(k)) \/ Crypto!Plain(k) \in calls[Head(txs).by].before[k]

Opened ==
  /\ Crypto!Ready /\ calls[1].kind = "initialize"
  /\ key \in CryptoKeys /\ Uniform
  /\ CallsFit /\ TxsFit /\ WritesKept

CryptoInv == Shape /\ HeadCommits /\ (Unopened \/ Opening \/ Opened)

--------------------------------------------------------------------------------
(* What the steps of the adapter that encrypts do                          *)

LEMMA InitIInv == Distinct /\ Crypto!Init => CryptoInv
<1> SUFFICES ASSUME Distinct, Crypto!Init PROVE CryptoInv
  OBVIOUS
<1>1. calls = <<>> /\ txs = <<>> /\ ~committing /\ committing \in BOOLEAN /\ latest = Anything
  BY DEF Crypto!Init, Anything
<1>2. CASE table = [n \in Crypto!Names |-> Nothing]
  BY <1>1, <1>2
     DEF Crypto!Init, CryptoInv, HeadCommits, Shape, TableFits, Unopened, Crypto!Plain,
         Crypto!Names, Anything
<1>3. CASE \E old \in CryptoKeys, v \in Values : table = Crypto!Leftover(old, Crypto!Cipher(v, old))
  <2>1. PICK old \in CryptoKeys, v \in Values : table = Crypto!Leftover(old, Crypto!Cipher(v, old))
    BY <1>3
  <2>2. Crypto!Cipher(v, old) \in Crypto!Ciphers /\ Crypto!Cipher(Sentinel, old) \in Crypto!Ciphers
    BY DEF Crypto!Cipher, Crypto!Ciphers
  <2>3. Crypto!Cipher(v, old).value = v /\ Crypto!Cipher(v,
        old).key = old /\ Crypto!Cipher(Sentinel, old).key = old
    BY DEF Crypto!Cipher
  <2>4. table = [n \in Crypto!Names |-> IF n = Sentinel THEN Crypto!Cipher(Sentinel,
        old) ELSE Crypto!Cipher(v, old)]
    BY <2>1 DEF Crypto!Leftover
  <2>5. \A k \in ItemKeys : Crypto!Plain(k) \in Values \cup {Nothing}
    BY <2>3, <2>4 DEF Crypto!Plain, Crypto!Names, Distinct
  <2> QED
    BY <1>1, <2>2, <2>3, <2>4, <2>5
       DEF Crypto!Init, CryptoInv, HeadCommits, Shape, TableFits, Unopened, Anything
<1> QED BY <1>2, <1>3 DEF Crypto!Init

\* A stage of one call changes.
LEMMA StageFacts ==
  ASSUME Shape, NEW i \in DOMAIN calls, NEW s \in Stages, Crypto!Stage(i, s)
  PROVE  /\ calls' \in Seq(CallRecords) /\ DOMAIN calls' = DOMAIN calls /\ Len(calls') = Len(calls)
         /\ \A l \in DOMAIN calls \ {i} : calls'[l] = calls[l]
         /\ calls'[i].stage = s /\ calls'[i].kind = calls[i].kind
         /\ calls'[i].item = calls[i].item /\ calls'[i].value = calls[i].value
         /\ calls'[i].before = calls[i].before
<1> DEFINE new == [calls[i] EXCEPT !.stage = s]
<1>1. calls \in Seq(CallRecords) /\ calls[i] \in CallRecords BY DEF Shape
<1>2. new \in CallRecords BY <1>1 DEF CallRecords
<1>3. calls' = [calls EXCEPT ![i] = new] BY <1>1 DEF Crypto!Stage, CallRecords
<1>4. /\ new.stage = s /\ new.kind = calls[i].kind
      /\ new.item = calls[i].item /\ new.value = calls[i].value /\ new.before = calls[i].before
  BY <1>1 DEF CallRecords
<1> HIDE DEF new
<1>5. calls' \in Seq(CallRecords) /\ DOMAIN calls' = DOMAIN calls /\ Len(calls') = Len(calls)
  BY <1>1, <1>2, <1>3
<1>6. calls'[i] = new /\ \A l \in DOMAIN calls \ {i} : calls'[l] = calls[l] BY <1>1, <1>3
<1> QED BY <1>4, <1>5, <1>6

LEMMA FirstFacts ==
  ASSUME Shape, calls # <<>>
  PROVE  /\ 1 \in DOMAIN calls /\ calls[1] \in CallRecords
         /\ (calls[1].stage # "resolved" /\ CryptoInv => Opening)
         /\ (Len(calls) = 1 => DOMAIN calls = {1})
BY DEF Shape, CryptoInv, Unopened, Opened, Crypto!Ready

LEMMA TableKept ==
  ASSUME Shape, UNCHANGED table
  PROVE  /\ TableFits' /\ (\A k \in ItemKeys : Crypto!Plain(k)' = Crypto!Plain(k))
         /\ (Uniform /\ UNCHANGED key => Uniform')
BY DEF Shape, TableFits, Crypto!Plain, Uniform

LEMMA TableSet ==
  ASSUME Shape, Uniform, NEW n \in Crypto!Names, NEW c \in Crypto!Ciphers \cup {Nothing},
         n \in ItemKeys => c = Nothing \/ c.value \in Values, c # Nothing => c.key = key,
         table' = [table EXCEPT ![n] = c], UNCHANGED key
  PROVE  /\ TableFits' /\ Uniform'
         /\ \A k \in ItemKeys : k # n => Crypto!Plain(k)' = Crypto!Plain(k)
         /\ n \in ItemKeys => Crypto!Plain(n)' = IF c = Nothing THEN Nothing ELSE c.value
<1>1. table \in [Crypto!Names -> Crypto!Ciphers \cup {Nothing}] BY DEF Shape, TableFits
<1>2. table' \in [Crypto!Names -> Crypto!Ciphers \cup {Nothing}] BY <1>1
<1>3. Uniform' BY <1>1 DEF Uniform
<1>4. /\ \A k \in ItemKeys : k # n => Crypto!Plain(k)' = Crypto!Plain(k)
      /\ n \in ItemKeys => Crypto!Plain(n)' = IF c = Nothing THEN Nothing ELSE c.value
  BY <1>1 DEF Crypto!Plain, Crypto!Names
<1>5. \A k \in ItemKeys : Crypto!Plain(k)' \in Values \cup {Nothing} BY <1>4 DEF Shape, TableFits
<1> QED BY <1>2, <1>3, <1>4, <1>5 DEF TableFits, Uniform

LEMMA TableCleared ==
  ASSUME table' = [n \in Crypto!Names |-> Nothing]
  PROVE  TableFits' /\ Uniform' /\ \A k \in ItemKeys : Crypto!Plain(k)' = Nothing
BY DEF TableFits, Uniform, Crypto!Plain, Crypto!Names

LEMMA TableEvicted ==
  ASSUME Shape, Uniform, NEW K,
        table' = [n \in Crypto!Names |-> IF n \in K THEN Nothing ELSE table[n]],
         UNCHANGED key
  PROVE  /\ TableFits' /\ Uniform'
         /\ \A k \in ItemKeys : Crypto!Plain(k)' = IF k \in K THEN Nothing ELSE Crypto!Plain(k)
<1>1. table \in [Crypto!Names -> Crypto!Ciphers \cup {Nothing}] BY DEF Shape, TableFits
<1>2. table' \in [Crypto!Names -> Crypto!Ciphers \cup {Nothing}] BY <1>1
<1>3. Uniform' BY <1>1 DEF Uniform
<1>4. \A k \in ItemKeys : Crypto!Plain(k)' = IF k \in K THEN Nothing ELSE Crypto!Plain(k)
  BY <1>1 DEF Crypto!Plain, Crypto!Names
<1>5. \A k \in ItemKeys : Crypto!Plain(k)' \in Values \cup {Nothing} BY <1>4 DEF Shape, TableFits
<1> QED BY <1>2, <1>3, <1>4, <1>5 DEF TableFits, Uniform

LEMMA OwnTxsFacts ==
  ASSUME NEW stage \in OpeningStages, NEW k, k \in CryptoKeys \/ stage = "rejected"
  PROVE  OwnTxs(stage, k) \in Seq(CryptoTxs)
<1>1. Crypto!Tx(1, "read", Sentinel, Nothing) \in CryptoTxs
  BY DEF Crypto!Tx, CryptoTxs, Crypto!Names, Ops
<1>2. Crypto!Tx(1, "clear", Sentinel, Nothing) \in CryptoTxs
  BY DEF Crypto!Tx, CryptoTxs, Crypto!Names, Ops
<1>3. CASE stage = "rejected" BY <1>3 DEF OwnTxs
<1>4. CASE k \in CryptoKeys
  <2>1. Crypto!Tx(1, "put", Sentinel, Crypto!Cipher(Sentinel, k)) \in CryptoTxs
    BY <1>4 DEF Crypto!Tx, CryptoTxs, Crypto!Names, Ops, Crypto!Cipher, Crypto!Ciphers
  <2>2. \A tx \in CryptoTxs : <<tx>> \in Seq(CryptoTxs) OBVIOUS
  <2>3. <<>> \in Seq(CryptoTxs) OBVIOUS
  <2>4. CASE stage = "reads" BY <2>4, <2>2, <1>1 DEF OwnTxs
  <2>5. CASE stage = "clears first" BY <2>5, <2>2, <1>2 DEF OwnTxs
  <2>6. CASE stage \in {"writes again", "writes"} BY <2>6, <2>1, <2>2 DEF OwnTxs
  <2>7. CASE stage \notin {"reads", "clears first", "writes again", "writes"}
    BY <2>7, <2>3 DEF OwnTxs
  <2> QED BY <2>4, <2>5, <2>6, <2>7
<1> QED BY <1>3, <1>4

LEMMA TxFields ==
  ASSUME NEW i, NEW op, NEW k, NEW c
  PROVE  /\ Crypto!Tx(i, op, k, c).by = i /\ Crypto!Tx(i, op, k, c).op = op
         /\ Crypto!Tx(i, op, k, c).item = k /\ Crypto!Tx(i, op, k, c).cipher = c
BY DEF Crypto!Tx

LEMMA PendingFacts ==
  ASSUME Shape, HeadCommits
  PROVE  /\ Pending \in Seq(CryptoTxs)
         /\ ~committing => Pending = txs
         /\ UNCHANGED <<txs, committing>> => Pending' = Pending
         /\ \A t : txs' = Append(txs, t) /\ UNCHANGED committing =>
              Pending' = Append(Pending, t) /\ (committing => Head(txs') = Head(txs))
<1>1. txs \in Seq(CryptoTxs) /\ committing \in BOOLEAN BY DEF Shape
<1>2. CASE ~committing BY <1>1, <1>2 DEF Pending
<1>3. CASE committing
  <2>1. txs # <<>> BY <1>3 DEF HeadCommits
  <2>2. \A t : txs' = Append(txs, t) => /\ Tail(txs') = Append(Tail(txs), t)
                                       /\ Head(txs') = Head(txs)
    <3> SUFFICES ASSUME NEW t, txs' = Append(txs, t)
                 PROVE  Tail(txs') = Append(Tail(txs), t) /\ Head(txs') = Head(txs)
      OBVIOUS
    <3>1. Len(txs) \in Nat \ {0} BY <1>1, <2>1
    <3> QED BY <1>1, <3>1
  <2>3. Pending = Tail(txs) /\ Tail(txs) \in Seq(CryptoTxs) BY <1>1, <1>3, <2>1 DEF Pending
  <2>4. UNCHANGED <<txs, committing>> => Pending' = Pending BY DEF Pending
  <2>5. \A t : txs' = Append(txs, t) /\ UNCHANGED committing =>
              Pending' = Append(Pending, t) /\ (committing => Head(txs') = Head(txs))
    BY <1>3, <2>2, <2>3 DEF Pending
  <2> QED BY <1>3, <2>3, <2>4, <2>5
<1> QED BY <1>1, <1>2, <1>3

\* The head goes on committing.
LEMMA HeadKept ==
  ASSUME Shape, HeadCommits, UNCHANGED <<key, table, committing>>,
         DOMAIN calls \subseteq DOMAIN calls', txs' = txs \/ \E t : txs' = Append(txs, t)
  PROVE  /\ HeadCommits' /\ (committing => Head(txs') = Head(txs))
         /\ \A k \in ItemKeys : Crypto!Found(k)' = Crypto!Found(k)
<1>1. txs \in Seq(CryptoTxs) BY DEF Shape
<1>2. committing => Head(txs') = Head(txs) /\ txs' # <<>>
  <2> SUFFICES ASSUME committing PROVE Head(txs') = Head(txs) /\ txs' # <<>>
    OBVIOUS
  <2>1. CASE txs' = txs BY <2>1 DEF HeadCommits
  <2>2. CASE \E t : txs' = Append(txs, t)
    <3>1. PICK t : txs' = Append(txs, t) BY <2>2
    <3>2. Len(txs) \in Nat \ {0} BY <1>1 DEF HeadCommits
    <3> QED BY <1>1, <3>1, <3>2
  <2> QED BY <2>1, <2>2
<1>3. HeadCommits' BY <1>2 DEF HeadCommits, Uniform
<1>4. \A k \in ItemKeys : Crypto!Found(k)' = Crypto!Found(k)
  BY <1>2 DEF Crypto!Found, Crypto!Plain
<1> QED BY <1>2, <1>3, <1>4

--------------------------------------------------------------------------------
(* While initialize() is under way                                         *)

\* Only the first call is there, and is at a stage with its transaction.
LEMMA OpeningHolds ==
  ASSUME Shape, CryptoInv, calls # <<>>, calls[1].stage # "resolved",
         NEW s \in OpeningStages, Crypto!Stage(1, s),
         txs' \in Seq(CryptoTxs), Pending' = OwnTxs(s, key'),
         committing' \in BOOLEAN, HeadCommits',
         committing' => s \in {"encrypts the sentinel", "writes", "rejected"},
         UNCHANGED <<keyPromise, inner>>, latest' = Anything, TableFits',
         key' \in CryptoKeys \/ (key' = key /\ s = "rejected"),
         s = "rejected" \/ s = "reads" \/ s = "clears first" \/ Uniform'
  PROVE  CryptoInv'
<1>1. Opening /\ 1 \in DOMAIN calls /\ DOMAIN calls = {1} BY FirstFacts DEF Opening
<1>2. s \in Stages BY DEF Stages
<1>3. /\ calls' \in Seq(CallRecords) /\ Len(calls') = 1
      /\ calls'[1].stage = s /\ calls'[1].kind = "initialize" /\ calls'[1].item = Sentinel
  BY <1>1, <1>2, StageFacts DEF Opening
<1>4. Shape' BY <1>3 DEF Shape, Anything
<1>5. Opening' BY <1>1, <1>3 DEF Opening, Anything
<1> QED BY <1>4, <1>5 DEF CryptoInv

\* Nothing was answered that has to commit.
LEMMA OpeningAlone ==
  ASSUME Shape, CryptoInv, calls # <<>>, calls[1].stage # "resolved",
         NEW s \in OpeningStages, Crypto!Stage(1, s),
         ~committing', committing' \in BOOLEAN, txs' = OwnTxs(s, key'),
         UNCHANGED <<keyPromise, inner>>, latest' = Anything, TableFits',
         key' \in CryptoKeys \/ (key' = key /\ s = "rejected"),
         s = "rejected" \/ s = "reads" \/ s = "clears first" \/ Uniform'
  PROVE  CryptoInv'
<1>1. txs' \in Seq(CryptoTxs)
  <2>1. key' \in CryptoKeys \/ s = "rejected" OBVIOUS
  <2> QED BY <2>1, OwnTxsFacts
<1>2. Pending' = txs' /\ HeadCommits' BY DEF Pending, HeadCommits
<1> QED BY <1>1, <1>2, OpeningHolds

\* The key and the database change nothing else.
LEMMA OthersKeep ==
  ASSUME CryptoInv, UNCHANGED <<key, table, txs, committing, calls, latest>>,
         keyPromise' \in {"unset", "importing", "rejected"} \cup CryptoKeys,
         inner' \in {"unset", "opening", "open", "failed"}
  PROVE  CryptoInv'
<1>1. Shape' BY DEF CryptoInv, Shape, TableFits, Crypto!Plain
<1>2. Unopened => Unopened' BY DEF Unopened, Anything
<1>3. Pending' = Pending BY DEF Pending
<1>4. Opening => Opening' BY <1>3 DEF Opening, Anything, Uniform
<1>5. TxsFit => TxsFit' BY <1>3 DEF TxsFit, TxFits
<1>6. WritesKept => WritesKept'
  BY DEF WritesKept, Left, Due, Effect, Crypto!Plain, Crypto!Found
<1>7. Opened => Opened' BY <1>5, <1>6 DEF Opened, Crypto!Ready, Uniform, CallsFit
<1>8. HeadCommits => HeadCommits' BY DEF HeadCommits, Uniform
<1> QED BY <1>1, <1>2, <1>4, <1>7, <1>8 DEF CryptoInv

LEMMA InitializeKeeps ==
  ASSUME CryptoInv, Crypto!Initialize
  PROVE  CryptoInv'
<1> DEFINE s == IF keyPromise = "unset" THEN "waits for no key" ELSE "waits"
           c == Crypto!Call("initialize", Sentinel, Sentinel, s)
<1>0. calls = <<>> BY DEF Crypto!Initialize
<1>1. Shape /\ Unopened
  <2>1. ~Opening BY <1>0 DEF Opening
  <2>2. ~Opened BY <1>0 DEF Opened, Crypto!Ready
  <2> QED BY <2>1, <2>2 DEF CryptoInv
<1>2. s \in OpeningStages /\ s \notin {"reads", "clears first", "writes again", "writes"}
  BY DEF OpeningStages
<1>3. /\ c \in CallRecords /\ c.kind = "initialize" /\ c.item = Sentinel /\ c.stage = s
  <2>1. latest \in [ItemKeys -> SUBSET (Values \cup {Nothing})] BY <1>1 DEF Shape
  <2> QED BY <1>2, <2>1 DEF Crypto!Call, CallRecords, Kinds, Crypto!Names, Stages
<1>4. /\ calls' = <<c>> /\ inner' = "opening"
      /\ UNCHANGED <<keyPromise, key, table, txs, committing, reloads, latest>>
  BY DEF Crypto!Initialize
<1> HIDE DEF c, s
<1>5. calls' \in Seq(CallRecords) /\ Len(calls') = 1 /\ calls'[1] = c BY <1>3, <1>4
<1>6. Shape' BY <1>1, <1>4, <1>5, TableKept DEF Shape
<1>7. ~committing BY <1>1 DEF CryptoInv, HeadCommits, Unopened
<1>8. OwnTxs(s, key') = <<>> /\ Pending' = <<>> /\ HeadCommits'
  BY <1>1, <1>2, <1>4, <1>7 DEF OwnTxs, Pending, HeadCommits, Unopened
<1>9. Opening'
  BY <1>1, <1>2, <1>3, <1>4, <1>5, <1>7, <1>8 DEF Opening, Unopened, Anything, s
<1> QED BY <1>6, <1>8, <1>9 DEF CryptoInv

LEMMA WaitsKeep ==
  ASSUME CryptoInv, Crypto!Waits
  PROVE  CryptoInv'
<1>1. Shape /\ calls # <<>> /\ calls[1].stage # "resolved"
  BY DEF CryptoInv, Crypto!Waits, Crypto!WaitFails, Crypto!WaitEnds, Crypto!CheckSentinel
<1>2. Opening BY <1>1, FirstFacts
<1>3. "rejected" \in OpeningStages /\ "reads" \in OpeningStages /\ "clears first" \in OpeningStages
      /\ "encrypts the sentinel" \in OpeningStages
  BY DEF OpeningStages
<1>0. ~committing' /\ committing' \in BOOLEAN /\ Pending = txs /\ latest' = Anything
  <2>1. calls[1].stage \in {"waits", "waits for no key", "checks"} /\ UNCHANGED <<committing, latest>>
    BY DEF Crypto!Waits, Crypto!WaitFails, Crypto!WaitEnds, Crypto!CheckSentinel
  <2> QED BY <1>1, <1>2, <2>1 DEF Opening, Pending, Anything, Shape
<1>4. CASE Crypto!WaitFails
  <2>1. txs' = OwnTxs("rejected", key')
    BY <1>0, <1>2, <1>4 DEF Opening, OwnTxs, Crypto!WaitFails, Crypto!session
  <2> QED BY <2>1, <1>1, <1>3, <1>4, <1>0, OpeningAlone, TableKept DEF Crypto!WaitFails, Crypto!session
<1>5. CASE Crypto!WaitEnds
  <2>1. txs = <<>> BY <1>0, <1>2, <1>5 DEF Opening, OwnTxs, Crypto!WaitEnds
  <2>2. txs' = <<Crypto!Tx(1, "read", Sentinel, Nothing)>> BY <2>1, <1>5 DEF Crypto!WaitEnds
  <2>3. txs' = OwnTxs("reads", key') BY <2>2 DEF OwnTxs
  <2> QED BY <2>3, <1>1, <1>3, <1>5, <1>0, OpeningAlone, TableKept DEF Crypto!WaitEnds
<1>6. CASE Crypto!CheckSentinel
  <2>1. txs = <<>> /\ key \in CryptoKeys BY <1>0, <1>2, <1>6 DEF Opening, OwnTxs, Crypto!CheckSentinel
  <2>2. CASE calls[1].value = Sentinel
    <3>1. Uniform BY <1>2, <1>6, <2>2 DEF Opening, Crypto!CheckSentinel
    <3>2. Uniform' BY <3>1, <1>6 DEF Uniform, Crypto!CheckSentinel, Crypto!session
    <3>3. Crypto!Stage(1, "encrypts the sentinel") /\ txs' = OwnTxs("encrypts the sentinel", key')
      BY <1>6, <2>1, <2>2 DEF Crypto!CheckSentinel, Crypto!SentinelMatches, OwnTxs
    <3> QED
      BY <3>2, <3>3, <2>1, <1>1, <1>3, <1>6, <1>0, OpeningAlone, TableKept
         DEF Crypto!CheckSentinel, Crypto!session
  <2>3. CASE calls[1].value # Sentinel
    <3>1. Crypto!Stage(1, "clears first") /\ txs' = <<Crypto!Tx(1, "clear", Sentinel, Nothing)>>
      <4>1. txs' = Append(txs, Crypto!Tx(1, "clear", Sentinel, Nothing))
        BY <1>6, <2>3 DEF Crypto!CheckSentinel, Crypto!SentinelMatches
      <4>2. txs = <<>> BY <2>1
      <4>3. txs' = <<Crypto!Tx(1, "clear", Sentinel, Nothing)>> BY <4>1, <4>2
      <4>4. Crypto!Stage(1, "clears first")
        BY <1>6, <2>3 DEF Crypto!CheckSentinel, Crypto!SentinelMatches
      <4> QED BY <4>3, <4>4
    <3>2. txs' = OwnTxs("clears first", key') BY <3>1 DEF OwnTxs
    <3> QED
      BY <3>1, <3>2, <2>1, <1>1, <1>3, <1>6, <1>0, OpeningAlone, TableKept
         DEF Crypto!CheckSentinel, Crypto!session
  <2> QED BY <2>2, <2>3
<1> QED BY <1>4, <1>5, <1>6 DEF Crypto!Waits

\* The sentinel is encrypted, or not: what was answered goes on committing.
LEMMA FirstEncryption ==
  ASSUME CryptoInv, Opening, Crypto!Encryption(1)
  PROVE  /\ Shape /\ HeadCommits /\ calls # <<>>
         /\ calls[1].stage \in {"encrypts the sentinel", "encrypts the sentinel again"}
         /\ committing => calls[1].stage = "encrypts the sentinel"
         /\ Pending = <<>> /\ key \in CryptoKeys /\ Uniform /\ latest = Anything
         /\ calls[1].kind = "initialize" /\ calls[1].item = Sentinel
<1>1. Shape /\ HeadCommits /\ Len(calls) = 1 /\ calls[1].stage \in OpeningStages
  BY DEF CryptoInv, Opening
<1>2. calls # <<>> BY <1>1
<1>3. calls[1].stage \in {"encrypts the sentinel", "encrypts the sentinel again"}
  BY <1>1 DEF Crypto!Encryption, Crypto!Encrypted, Crypto!EncryptionFails, Crypto!Encrypting,
     OpeningStages
<1>4. /\ committing => calls[1].stage = "encrypts the sentinel"
      /\ Pending = <<>> /\ key \in CryptoKeys /\ Uniform /\ latest = Anything
  BY <1>3 DEF Opening, OwnTxs
<1> QED BY <1>1, <1>2, <1>3, <1>4 DEF Opening

LEMMA FirstEncryptedKeeps ==
  ASSUME CryptoInv, Opening, Crypto!Encrypted(1)
  PROVE  CryptoInv'
<1>1. /\ Shape /\ HeadCommits /\ calls # <<>>
      /\ calls[1].stage \in {"encrypts the sentinel", "encrypts the sentinel again"}
      /\ committing => calls[1].stage = "encrypts the sentinel"
      /\ Pending = <<>> /\ key \in CryptoKeys /\ Uniform /\ latest = Anything
      /\ calls[1].kind = "initialize" /\ calls[1].item = Sentinel
  BY FirstEncryption DEF Crypto!Encryption
<1> DEFINE w == Crypto!Tx(1, "put", Sentinel, Crypto!Cipher(Sentinel, key))
<1>2. txs' = Append(txs, w) BY <1>1 DEF Crypto!Encrypted, Crypto!ToEncrypt
<1>3. w \in CryptoTxs
  BY <1>1 DEF Crypto!Tx, CryptoTxs, Crypto!Names, Ops, Crypto!Cipher, Crypto!Ciphers
<1>4. UNCHANGED <<keyPromise, key, inner, table, committing, latest>>
  BY DEF Crypto!Encrypted, Crypto!session
<1>5. Crypto!AfterEncryption(1) =
        IF calls[1].stage = "encrypts the sentinel again" THEN "writes again" ELSE "writes"
  BY DEF Crypto!AfterEncryption
<1> DEFINE s == Crypto!AfterEncryption(1)
<1>6. OwnTxs(s, key') = <<w>> BY <1>4, <1>5 DEF OwnTxs
<1>7. s \in OpeningStages /\ (committing => s = "writes") BY <1>1, <1>5 DEF OpeningStages
<1>8. Crypto!Stage(1, s) BY DEF Crypto!Encrypted
<1> HIDE DEF w, s
<1>9. txs' \in Seq(CryptoTxs)
  <2>1. txs \in Seq(CryptoTxs) BY <1>1 DEF Shape
  <2> QED BY <1>2, <1>3, <2>1
<1>10. Pending' = <<w>>
  <2>1. Pending' = Append(Pending, w) BY <1>1, <1>2, <1>4, PendingFacts
  <2>2. Append(<<>>, w) = <<w>> OBVIOUS
  <2> QED BY <1>1, <2>1, <2>2
<1>11. DOMAIN calls' = DOMAIN calls BY <1>8 DEF Crypto!Stage
<1>12. HeadCommits' BY <1>1, <1>2, <1>4, <1>11, HeadKept
<1>13. Uniform' BY <1>1, <1>4 DEF Uniform
<1>14. TableFits' BY <1>1, <1>4, TableKept
<1>15. committing' \in BOOLEAN BY <1>1, <1>4 DEF Shape
<1>16. calls[1].stage # "resolved" BY <1>1
<1> QED
  BY <1>1, <1>4, <1>6, <1>7, <1>8, <1>9, <1>10, <1>12, <1>13, <1>14, <1>15, <1>16, OpeningHolds

LEMMA FirstEncryptionFails ==
  ASSUME CryptoInv, Opening, Crypto!EncryptionFails(1)
  PROVE  CryptoInv'
<1>1. /\ Shape /\ HeadCommits /\ calls # <<>>
      /\ calls[1].stage \in {"encrypts the sentinel", "encrypts the sentinel again"}
      /\ Pending = <<>> /\ key \in CryptoKeys /\ latest = Anything
      /\ calls[1].kind = "initialize"
  BY FirstEncryption DEF Crypto!Encryption
<1>2. UNCHANGED <<keyPromise, key, inner, table, txs, committing>> /\ Crypto!Stage(1, "rejected")
  BY DEF Crypto!EncryptionFails, Crypto!session
<1>3. latest' = Anything
  BY <1>1 DEF Crypto!EncryptionFails, Crypto!GivesBack, Anything
<1>4. Pending' = OwnTxs("rejected", key') BY <1>1, <1>2, PendingFacts DEF OwnTxs
<1>5. "rejected" \in OpeningStages BY DEF OpeningStages
<1>6. DOMAIN calls' = DOMAIN calls BY <1>2 DEF Crypto!Stage
<1>7. HeadCommits' BY <1>1, <1>2, <1>6, HeadKept
<1>8. TableFits' BY <1>1, <1>2, TableKept
<1>9. committing' \in BOOLEAN /\ txs' \in Seq(CryptoTxs) BY <1>1, <1>2 DEF Shape
<1>10. calls[1].stage # "resolved" BY <1>1
<1> QED BY <1>1, <1>2, <1>3, <1>4, <1>5, <1>7, <1>8, <1>9, <1>10, OpeningHolds

\* What is found is a value or nothing.
LEMMA FoundTypes ==
  ASSUME Shape, HeadCommits
  PROVE  \A k \in ItemKeys : Crypto!Found(k) \in Values \cup {Nothing}
BY DEF Shape, TableFits, HeadCommits, Crypto!Found

\* initialize() resolves: its sentinel was answered, and commits.
LEMMA OpensNow ==
  ASSUME Shape, Opening, Crypto!Stage(1, "resolved"), Pending' = <<>>, UNCHANGED txs,
         committing' \in BOOLEAN, HeadCommits', UNCHANGED <<Crypto!session, latest, table>>,
         key \in CryptoKeys, Uniform
  PROVE  CryptoInv'
<1>1. Len(calls) = 1 /\ calls[1].kind = "initialize" /\ latest = Anything BY DEF Opening
<1>2. calls # <<>> /\ DOMAIN calls = {1} /\ 1 \in DOMAIN calls BY <1>1, FirstFacts
<1>3. "resolved" \in Stages BY DEF Stages
<1>4. /\ calls' \in Seq(CallRecords) /\ Len(calls') = 1 /\ DOMAIN calls' = {1}
      /\ calls'[1].stage = "resolved" /\ calls'[1].kind = "initialize"
  BY <1>1, <1>2, <1>3, StageFacts
<1>5. calls' # <<>>
  <2>1. Len(<<>>) # 1 OBVIOUS
  <2>2. Len(calls') = 1 BY <1>4
  <2> QED BY <2>1, <2>2, Zenon
<1>6. TableFits' /\ Uniform' BY TableKept DEF Crypto!session
<1>7. Shape' BY <1>4, <1>6 DEF Shape, Crypto!session
<1>8. Crypto!Ready' BY <1>4, <1>5 DEF Crypto!Ready
<1>9. CallsFit' /\ TxsFit' BY <1>4 DEF CallsFit, TxsFit
<1>10. WritesKept'
  <2>1. \A k \in ItemKeys : Crypto!Found(k)' \in Values \cup {Nothing}
    BY <1>7 DEF Shape, TableFits, HeadCommits, Crypto!Found
  <2>2. \A k \in ItemKeys : /\ Crypto!Found(k)' \in latest'[k]
                            /\ Crypto!Plain(k)' \in latest'[k]
    BY <1>1, <1>6, <2>1 DEF TableFits, Anything
  <2>3. \A i \in DOMAIN calls' : \A k : ~Due(i, k)' BY <1>4 DEF Due
  <2> QED BY <2>2, <2>3 DEF WritesKept, Left
<1> QED BY <1>4, <1>6, <1>7, <1>8, <1>9, <1>10 DEF CryptoInv, Opened, Crypto!session

\* The transaction that initialize() waits for is at the head, alone.
LEMMA OwnHead ==
  ASSUME Opening, txs # <<>>, ~committing
  PROVE  /\ Tail(txs) = <<>> /\ Head(txs).by = 1 /\ txs = <<Head(txs)>>
         /\ (Head(txs).op = "read" => calls[1].stage = "reads"
              /\ Head(txs) = Crypto!Tx(1, "read", Sentinel, Nothing))
         /\ (Head(txs).op = "clear" => calls[1].stage = "clears first"
              /\ Head(txs) = Crypto!Tx(1, "clear", Sentinel, Nothing))
         /\ (Head(txs).op = "put" => calls[1].stage \in {"writes again", "writes"}
              /\ Head(txs) = Crypto!Tx(1, "put", Sentinel, Crypto!Cipher(Sentinel, key)))
         /\ Head(txs).op \in {"read", "clear", "put"}
<1> DEFINE r == Crypto!Tx(1, "read", Sentinel, Nothing)
           c == Crypto!Tx(1, "clear", Sentinel, Nothing)
           w == Crypto!Tx(1, "put", Sentinel, Crypto!Cipher(Sentinel, key))
           stage == calls[1].stage
<1>1. \/ stage = "reads" /\ txs = <<r>>
      \/ stage = "clears first" /\ txs = <<c>>
      \/ stage \in {"writes again", "writes"} /\ txs = <<w>>
  <2>1. txs = OwnTxs(stage, key) BY DEF Opening, Pending
  <2> QED BY <2>1 DEF OwnTxs
<1>2. r.by = 1 /\ c.by = 1 /\ w.by = 1 /\ r.op = "read" /\ c.op = "clear" /\ w.op = "put"
  BY TxFields
<1> HIDE DEF r, c, w, stage
<1>3. \A t : txs = <<t>> => Head(txs) = t /\ Tail(txs) = <<>> /\ txs = <<Head(txs)>> OBVIOUS
<1>4. CASE stage = "reads" /\ txs = <<r>> BY <1>2, <1>3, <1>4 DEF r, stage
<1>5. CASE stage = "clears first" /\ txs = <<c>> BY <1>2, <1>3, <1>5 DEF c, stage
<1>6. CASE stage \in {"writes again", "writes"} /\ txs = <<w>> BY <1>2, <1>3, <1>6 DEF w, stage
<1> QED BY <1>1, <1>4, <1>5, <1>6

\* The transaction that initialize() waits for runs.  What is read is the sentinel
\* only if it was encrypted with the key of this session, like all the table.
LEMMA FirstReadKeeps ==
  ASSUME Distinct, CryptoInv, Opening, Crypto!ReadRuns
  PROVE  CryptoInv'
<1>1. Shape /\ DOMAIN calls = {1} /\ 1 \in DOMAIN calls /\ calls[1] \in CallRecords
  <2>1. Shape /\ Len(calls) = 1 BY DEF CryptoInv, Opening
  <2>2. calls # <<>> BY <2>1
  <2> QED BY <2>1, <2>2, FirstFacts
<1>0. txs # <<>> /\ ~committing /\ Head(txs).op = "read" BY DEF Crypto!ReadRuns, Crypto!Runs
<1>2. calls[1].stage = "reads" /\ Head(txs) = Crypto!Tx(1, "read", Sentinel,
      Nothing) /\ Tail(txs) = <<>>
  BY <1>0, OwnHead
<1>3. Head(txs).by = 1 /\ Head(txs).item = Sentinel BY <1>2, TxFields
<1>4. PICK v \in Crypto!Decrypt(table[Sentinel]) :
        calls' = [calls EXCEPT ![1].stage = Crypto!Continuation(1), ![1].value = v]
  BY <1>3 DEF Crypto!ReadRuns
<1>5. Crypto!Continuation(1) = "checks" BY <1>2 DEF Crypto!Continuation
<1>6. table[Sentinel] = Nothing \/ table[Sentinel] \in Crypto!Ciphers
  BY <1>1 DEF Shape, TableFits, Crypto!Names
<1>7. v \in Values \cup {Sentinel, Nothing, Garbage} BY <1>6 DEF Crypto!Decrypt, Crypto!Ciphers
<1> DEFINE c == [calls[1] EXCEPT !.stage = "checks", !.value = v]
<1>8. calls \in Seq(CallRecords) BY <1>1 DEF Shape
<1>9. c \in CallRecords BY <1>1, <1>7 DEF CallRecords, Stages, OpeningStages
<1>10. calls' = [calls EXCEPT ![1] = c] BY <1>1, <1>4, <1>5, <1>8 DEF CallRecords
<1>11. /\ c.stage = "checks" /\ c.value = v /\ c.kind = calls[1].kind /\ c.item = calls[1].item
  BY <1>1 DEF CallRecords
<1> HIDE DEF c
<1>12. calls' \in Seq(CallRecords) /\ Len(calls') = 1 /\ calls'[1] = c
  <2>1. Len(calls) = 1 BY DEF Opening
  <2> QED BY <2>1, <1>1, <1>8, <1>9, <1>10, SMTT(40)
<1>13. UNCHANGED <<Crypto!session, table, committing, latest>> /\ txs' = <<>> /\ ~committing'
  BY <1>0, <1>2 DEF Crypto!ReadRuns
<1>14. Shape' BY <1>1, <1>12, <1>13, TableKept DEF Shape, Crypto!session
<1>15. v = Sentinel => Uniform
  <2> SUFFICES ASSUME v = Sentinel PROVE Uniform
    OBVIOUS
  <2>1. table[Sentinel] # Nothing /\ table[Sentinel].key = key BY <1>4 DEF Crypto!Decrypt, Distinct
  <2> QED BY <2>1, <1>1 DEF Shape, TableFits, Uniform, Crypto!Names
<1>16. Pending' = <<>> /\ HeadCommits' BY <1>13 DEF Pending, HeadCommits
<1>17. Opening'
  BY <1>2, <1>11, <1>12, <1>13, <1>15, <1>16
     DEF Opening, OwnTxs, OpeningStages, Crypto!session, Uniform, Anything
<1> QED BY <1>14, <1>16, <1>17 DEF CryptoInv

\* What initialize() writes is the sentinel, under its key.
LEMMA FirstWriteKeeps ==
  ASSUME Distinct, CryptoInv, Opening, Crypto!WriteSucceeds
  PROVE  CryptoInv'
<1>1. txs # <<>> /\ ~committing /\ Head(txs).op \in {"put", "remove"}
  BY DEF Crypto!WriteSucceeds, Crypto!Runs
<1>2. /\ calls[1].stage \in {"writes again", "writes"} /\ Tail(txs) = <<>>
      /\ Head(txs) = Crypto!Tx(1, "put", Sentinel, Crypto!Cipher(Sentinel, key))
  BY <1>1, OwnHead
<1>3. /\ Head(txs).by = 1 /\ Head(txs).op = "put" /\ Head(txs).item = Sentinel
      /\ Head(txs).cipher = Crypto!Cipher(Sentinel, key)
  <2> DEFINE w == Crypto!Tx(1, "put", Sentinel, Crypto!Cipher(Sentinel, key))
  <2>1. /\ w.by = 1 /\ w.op = "put" /\ w.item = Sentinel
        /\ w.cipher = Crypto!Cipher(Sentinel, key)
    BY TxFields
  <2>2. Head(txs) = w BY <1>2
  <2> QED BY <2>1, <2>2
<1>4. Shape /\ key \in CryptoKeys /\ Uniform /\ latest = Anything
  BY <1>2 DEF CryptoInv, Opening
<1>5. calls # <<>> /\ Len(calls) = 1
  <2>1. Len(calls) = 1 BY DEF Opening
  <2> QED BY <2>1
<1>6. 1 \in DOMAIN calls BY <1>4, <1>5, FirstFacts
<1>7. /\ UNCHANGED <<Crypto!session, latest, table, txs>> /\ committing' = TRUE
      /\ Crypto!Stage(1, Crypto!Continuation(1))
  BY <1>3 DEF Crypto!WriteSucceeds, Crypto!Answered
<1>8. Pending' = <<>> BY <1>2, <1>7 DEF Pending
<1>9. TableFits' /\ Uniform' BY <1>4, <1>7, TableKept DEF Crypto!session
<1>10. HeadCommits'
  <2>1. DOMAIN calls' = DOMAIN calls BY <1>7 DEF Crypto!Stage
  <2>2. Crypto!Cipher(Sentinel, key).key = key BY DEF Crypto!Cipher
  <2> QED BY <1>1, <1>3, <1>6, <1>7, <1>9, <2>1, <2>2 DEF HeadCommits, Distinct, Crypto!session
<1>11. txs' \in Seq(CryptoTxs) /\ committing' \in BOOLEAN
  <2>1. txs \in Seq(CryptoTxs) BY <1>4 DEF Shape
  <2> QED BY <2>1, <1>7
<1>12. CASE calls[1].stage = "writes again"
  <2>1. Crypto!Continuation(1) = "encrypts the sentinel" BY <1>12 DEF Crypto!Continuation
  <2>2. Pending' = OwnTxs("encrypts the sentinel", key') BY <1>8 DEF OwnTxs
  <2>3. calls[1].stage # "resolved" /\ "encrypts the sentinel" \in OpeningStages
    BY <1>12 DEF OpeningStages
  <2>4. Crypto!Stage(1, "encrypts the sentinel") BY <1>7, <2>1
  <2>5. UNCHANGED <<keyPromise, key, inner>> /\ latest' = Anything BY <1>4, <1>7 DEF Crypto!session
  <2> QED BY <1>4, <1>5, <1>9, <1>10, <1>11, <2>2, <2>3, <2>4, <2>5, OpeningHolds
<1>13. CASE calls[1].stage = "writes"
  <2>1. Crypto!Continuation(1) = "resolved" BY <1>13 DEF Crypto!Continuation
  <2>2. Crypto!Stage(1, "resolved") BY <1>7, <2>1
  <2> QED BY <1>4, <1>7, <1>8, <1>10, <1>11, <2>2, OpensNow
<1> QED BY <1>2, <1>12, <1>13

LEMMA FirstClearKeeps ==
  ASSUME CryptoInv, Opening, Crypto!ClearRuns
  PROVE  CryptoInv'
<1>1. txs # <<>> /\ ~committing /\ Head(txs).op = "clear" BY DEF Crypto!ClearRuns, Crypto!Runs
<1>2. calls[1].stage = "clears first" /\ Tail(txs) = <<>> /\ Head(txs).by = 1
  BY <1>1, OwnHead
<1>3. Shape /\ key \in CryptoKeys /\ latest = Anything BY <1>2 DEF CryptoInv, Opening
<1>4. calls # <<>>
  <2>1. Len(calls) = 1 BY DEF Opening
  <2> QED BY <2>1
<1>5. Crypto!Continuation(1) = "encrypts the sentinel again" BY <1>2 DEF Crypto!Continuation
<1>6. /\ UNCHANGED <<keyPromise, key, inner>> /\ latest' = Anything /\ txs' = <<>>
      /\ ~committing' /\ committing' \in BOOLEAN
      /\ Crypto!Stage(1, "encrypts the sentinel again")
      /\ table' = [n \in Crypto!Names |-> Nothing]
  BY <1>1, <1>2, <1>3, <1>5
     DEF Crypto!ClearRuns, Crypto!Done, Crypto!Answered, Crypto!session, Shape
<1>7. txs' = OwnTxs("encrypts the sentinel again", key') BY <1>6 DEF OwnTxs
<1>8. "encrypts the sentinel again" \in OpeningStages BY DEF OpeningStages
<1>9. calls[1].stage # "resolved" BY <1>2
<1> QED BY <1>3, <1>4, <1>6, <1>7, <1>8, <1>9, TableCleared, OpeningAlone

\* What it cannot read it clears; any other transaction that fails rejects it.
LEMMA FirstFailKeeps ==
  ASSUME CryptoInv, Opening, Crypto!Fails
  PROVE  CryptoInv'
<1>1. txs # <<>> /\ ~committing BY DEF Crypto!Fails
<1>2. Tail(txs) = <<>> /\ Head(txs).by = 1 BY <1>1, OwnHead
<1>3. Shape /\ calls # <<>> /\ calls[1].stage # "resolved"
  <2>1. Len(calls) = 1 /\ calls[1].stage \in OpeningStages BY DEF Opening
  <2>2. calls # <<>> BY <2>1
  <2>3. calls[1].stage # "resolved" BY <2>1 DEF OpeningStages
  <2> QED BY <2>2, <2>3 DEF CryptoInv
<1>4. latest' = Anything
  <2>1. latest = Anything BY DEF Opening
  <2>2. calls[1] \in CallRecords BY <1>3, FirstFacts
  <2>3. \A k \in ItemKeys : latest[k] \cup calls[1].before[k] = latest[k]
    BY <2>1, <2>2 DEF Anything, CallRecords
  <2>4. latest' = [k \in ItemKeys |-> latest[k]]
    BY <1>2, <2>3 DEF Crypto!Fails, Crypto!GivesBack
  <2> QED BY <2>1, <2>4 DEF Anything
<1>5. /\ UNCHANGED <<keyPromise, key, inner, table>>
      /\ ~committing' /\ committing' \in BOOLEAN
  BY <1>1, <1>3 DEF Crypto!Fails, Crypto!session, Shape
<1>6. CASE Head(txs).op = "read"
  <2>1. calls[1].stage = "reads" BY <1>1, <1>6, OwnHead
  <2>2. key \in CryptoKeys BY <2>1 DEF Opening
  <2>3. txs' = Append(Tail(txs), Crypto!Tx(1, "clear", Sentinel, Nothing))
    BY <1>2, <1>6 DEF Crypto!Fails
  <2>4. Crypto!Stage(1, "clears first") BY <1>2, <1>6 DEF Crypto!Fails
  <2>5. txs' = <<Crypto!Tx(1, "clear", Sentinel, Nothing)>>
    <3> DEFINE c == Crypto!Tx(1, "clear", Sentinel, Nothing)
    <3>1. Tail(txs) = <<>> /\ txs' = Append(Tail(txs), c) BY <2>3, <1>2
    <3> HIDE DEF c
    <3>2. txs' = Append(<<>>, c) BY <3>1
    <3>3. Append(<<>>, c) = <<c>> OBVIOUS
    <3>4. txs' = <<c>> BY <3>2, <3>3
    <3> QED BY <3>4 DEF c
  <2>6. txs' = OwnTxs("clears first", key') BY <2>5 DEF OwnTxs
  <2>7. "clears first" \in OpeningStages BY DEF OpeningStages
  <2> QED BY <1>3, <1>4, <1>5, <2>2, <2>4, <2>6, <2>7, TableKept, OpeningAlone
<1>7. CASE Head(txs).op # "read"
  <2>1. txs' = <<>> /\ Crypto!Stage(1, "rejected") BY <1>2, <1>7 DEF Crypto!Fails
  <2>2. txs' = OwnTxs("rejected", key') BY <2>1 DEF OwnTxs
  <2>3. "rejected" \in OpeningStages BY DEF OpeningStages
  <2> QED BY <1>3, <1>4, <1>5, <2>1, <2>2, <2>3, TableKept, OpeningAlone
<1> QED BY <1>6, <1>7

--------------------------------------------------------------------------------
(* What was answered commits, or aborts                                    *)

\* The transactions that were not answered stay the same.
LEMMA EndsFacts ==
  ASSUME CryptoInv, committing, ~committing', txs' = Tail(txs), UNCHANGED <<key, calls>>
  PROVE  /\ Shape /\ txs # <<>> /\ txs' \in Seq(CryptoTxs) /\ Head(txs) \in CryptoTxs /\ Uniform
         /\ Pending' = Pending /\ HeadCommits'
         /\ (TxsFit => TxsFit') /\ (CallsFit => CallsFit') /\ (Crypto!Ready => Crypto!Ready')
         /\ \A k \in ItemKeys : Crypto!Found(k)' = Crypto!Plain(k)'
<1>1. Shape /\ txs # <<>> /\ Uniform BY DEF CryptoInv, HeadCommits
<1>2. txs \in Seq(CryptoTxs) BY <1>1 DEF Shape
<1>3. txs' \in Seq(CryptoTxs) /\ Head(txs) \in CryptoTxs BY <1>1, <1>2
<1>4. Pending' = Pending /\ HeadCommits' BY DEF Pending, HeadCommits
<1>5. (TxsFit => TxsFit') /\ (CallsFit => CallsFit') /\ (Crypto!Ready => Crypto!Ready')
  BY <1>4 DEF TxsFit, TxFits, CallsFit, Crypto!Ready
<1>6. \A k \in ItemKeys : Crypto!Found(k)' = Crypto!Plain(k)' BY DEF Crypto!Found
<1> QED BY <1>1, <1>3, <1>4, <1>5, <1>6, Zenon

LEMMA DueSame ==
  ASSUME UNCHANGED calls
  PROVE  \A k \in ItemKeys : \A i \in DOMAIN calls :
           (Due(i, k)' <=> Due(i, k)) /\ Effect(i)' = Effect(i)
BY DEF Due, Effect

LEMMA CommitKeeps ==
  ASSUME Distinct, CryptoInv, Crypto!WriteCommits
  PROVE  CryptoInv'
<1>0. PICK n, c : n = Head(txs).item /\ c = Head(txs).cipher OBVIOUS
<1>1. /\ committing /\ ~committing' /\ committing' \in BOOLEAN /\ txs' = Tail(txs)
      /\ UNCHANGED <<keyPromise, key, inner, calls, latest>>
      /\ table' = [table EXCEPT ![n] = c]
  BY <1>0 DEF Crypto!WriteCommits, Crypto!session
<1>2. /\ Shape /\ txs # <<>> /\ txs' \in Seq(CryptoTxs) /\ Head(txs) \in CryptoTxs /\ Uniform
      /\ Pending' = Pending /\ HeadCommits'
      /\ (TxsFit => TxsFit') /\ (CallsFit => CallsFit') /\ (Crypto!Ready => Crypto!Ready')
      /\ \A k \in ItemKeys : Crypto!Found(k)' = Crypto!Plain(k)'
  BY <1>1, EndsFacts
<1>3. n \in Crypto!Names /\ c \in Crypto!Ciphers \cup {Nothing} BY <1>0, <1>2 DEF CryptoTxs
<1>4. c # Nothing => c.key = key /\ (n \in ItemKeys => c.value \in Values)
  BY <1>0, <1>1 DEF CryptoInv, HeadCommits
<1>5. /\ TableFits' /\ Uniform'
      /\ \A k \in ItemKeys : k # n => Crypto!Plain(k)' = Crypto!Plain(k)
      /\ n \in ItemKeys => Crypto!Plain(n)' = IF c = Nothing THEN Nothing ELSE c.value
  BY <1>1, <1>2, <1>3, <1>4, TableSet
<1>6. \A k \in ItemKeys : Crypto!Found(k)' = Crypto!Found(k)
  BY <1>0, <1>1, <1>2, <1>5 DEF Crypto!Found
<1>7. Shape' BY <1>1, <1>2, <1>5 DEF Shape
<1>8. Opening => Opening'
  BY <1>1, <1>2, <1>5 DEF Opening, Anything
<1>9. WritesKept => WritesKept'
  BY <1>1, <1>2, <1>6, DueSame DEF WritesKept, Left
<1>10. Opened => Opened' BY <1>1, <1>2, <1>5, <1>9 DEF Opened
<1>11. ~Unopened BY <1>2 DEF Unopened
<1> QED BY <1>2, <1>7, <1>8, <1>10, <1>11 DEF CryptoInv

\* The older value is back: nothing has superseded it, or only what aborts or is due.
LEMMA AbortKeeps ==
  ASSUME Distinct, CryptoInv, Crypto!AbortsAnswered
  PROVE  CryptoInv'
<1>0. PICK i, n : i = Head(txs).by /\ n = Head(txs).item OBVIOUS
<1>1. /\ committing /\ ~committing' /\ committing' \in BOOLEAN /\ txs' = Tail(txs)
      /\ UNCHANGED <<keyPromise, key, inner, calls, table>>
  BY DEF Crypto!AbortsAnswered, Crypto!session
<1>2. /\ Shape /\ txs # <<>> /\ txs' \in Seq(CryptoTxs) /\ Uniform
      /\ Pending' = Pending /\ HeadCommits'
      /\ (TxsFit => TxsFit') /\ (CallsFit => CallsFit') /\ (Crypto!Ready => Crypto!Ready')
      /\ \A k \in ItemKeys : Crypto!Found(k)' = Crypto!Plain(k)'
  BY <1>1, EndsFacts
<1>3. i \in DOMAIN calls /\ Head(txs).op \in {"put", "remove"}
  BY <1>0, <1>1 DEF CryptoInv, HeadCommits
<1>4. calls[i] \in CallRecords BY <1>2, <1>3 DEF Shape
<1>5. latest' = [k \in ItemKeys |-> IF k = n THEN latest[k] \cup calls[i].before[k] ELSE latest[k]]
  <2>1. \A k \in ItemKeys : k \in Crypto!Touched(Head(txs)) <=> k = n
    BY <1>0, <1>3 DEF Crypto!Touched
  <2> QED BY <1>0, <2>1 DEF Crypto!AbortsAnswered, Crypto!GivesBack
<1>6. latest \in [ItemKeys -> SUBSET (Values \cup {Nothing})] BY <1>2 DEF Shape
<1>7. /\ latest' \in [ItemKeys -> SUBSET (Values \cup {Nothing})]
      /\ \A k \in ItemKeys : latest[k] \subseteq latest'[k]
      /\ n \in ItemKeys => calls[i].before[n] \subseteq latest'[n]
  BY <1>4, <1>5, <1>6 DEF CallRecords
<1>8. TableFits' /\ Uniform' /\ \A k \in ItemKeys : Crypto!Plain(k)' = Crypto!Plain(k)
  BY <1>1, <1>2, TableKept
<1>9. Shape' BY <1>1, <1>2, <1>7, <1>8 DEF Shape
<1>10. Opening => Opening'
  <2> SUFFICES ASSUME Opening PROVE Opening'
    OBVIOUS
  <2>1. latest' = Anything
    <3>1. latest = Anything BY DEF Opening
    <3>2. \A k \in ItemKeys : latest'[k] = latest[k] BY <1>6, <1>7, <3>1 DEF Anything
    <3> QED BY <1>7, <3>1, <3>2 DEF Anything
  <2> QED BY <1>1, <1>2, <1>8, <2>1 DEF Opening, Anything
<1>11. WritesKept => WritesKept'
  <2> SUFFICES ASSUME WritesKept, NEW k \in ItemKeys
               PROVE  /\ Left(k, Crypto!Plain(k))'
                      /\ \A l \in DOMAIN calls : Due(l, k) => Effect(l) \in latest'[k]
    BY <1>1, <1>2, DueSame DEF WritesKept, Left
  <2>1. \A v : Left(k, v) => Left(k, v)'
    BY <1>1, <1>2, <1>7, DueSame DEF Left
  <2>2. Left(k, Crypto!Plain(k)) \/ (k = n /\ Crypto!Plain(k) \in calls[i].before[k])
    <3>1. CASE k = n BY <1>0, <1>1, <3>1 DEF WritesKept
    <3>2. CASE k # n BY <1>0, <1>1, <3>2 DEF WritesKept, Crypto!Found
    <3> QED BY <3>1, <3>2
  <2>3. Left(k, Crypto!Plain(k))'
    <3>1. Left(k, Crypto!Plain(k)) => Left(k, Crypto!Plain(k))' BY <1>8, <2>1 DEF Left
    <3>2. (k = n /\ Crypto!Plain(k) \in calls[i].before[k]) => Left(k, Crypto!Plain(k))'
      BY <1>7, <1>8 DEF Left
    <3> QED BY <2>2, <3>1, <3>2
  <2>4. \A l \in DOMAIN calls : Due(l, k) => Effect(l) \in latest'[k]
    BY <1>7 DEF WritesKept
  <2> QED BY <2>3, <2>4
<1>12. Opened => Opened' BY <1>1, <1>2, <1>8, <1>11 DEF Opened
<1>13. ~Unopened BY <1>2 DEF Unopened
<1> QED BY <1>2, <1>9, <1>10, <1>12, <1>13 DEF CryptoInv

--------------------------------------------------------------------------------
(* While items are read and written                                        *)

\* The transaction at the head belongs to a call of the client that waits for it.
LEMMA HeadFits ==
  ASSUME Shape, Opened, txs # <<>>, ~committing, NEW i, i = Head(txs).by
  PROVE  /\ i \in DOMAIN calls /\ i # 1 /\ Head(txs) \in CryptoTxs
         /\ CallFits(calls[i]) /\ TxFits(Head(txs), calls[i])
         /\ Crypto!Continuation(i) = IF calls[i].stage = "clears" THEN "encrypts the sentinel" ELSE "resolved"
         /\ \A j \in DOMAIN Tail(txs) : Tail(txs)[j] = txs[j + 1] /\ j + 1 \in DOMAIN txs
         /\ \A j \in DOMAIN Tail(txs) : Tail(txs)[j].by # i
<1>1. txs \in Seq(CryptoTxs) /\ Head(txs) = txs[1] /\ 1 \in DOMAIN txs /\ Head(txs) \in CryptoTxs
  BY DEF Shape
<1>0. Pending = txs BY DEF Pending
<1>2. i \in DOMAIN calls /\ i # 1 /\ TxFits(Head(txs), calls[i]) BY <1>0, <1>1 DEF Opened, TxsFit
<1>3. CallFits(calls[i]) BY <1>2 DEF Opened, CallsFit
<1>4. calls[i].stage \notin {"clears first", "writes again"} BY <1>2 DEF TxFits
<1>5. Crypto!Continuation(i) = IF calls[i].stage = "clears" THEN "encrypts the sentinel" ELSE "resolved"
  BY <1>2, <1>4 DEF Crypto!Continuation
<1>6. \A j \in DOMAIN Tail(txs) : Tail(txs)[j] = txs[j + 1] /\ j + 1 \in DOMAIN txs /\ j + 1 # 1
  BY <1>1
<1>7. \A j \in DOMAIN Tail(txs) : Tail(txs)[j].by # i BY <1>0, <1>1, <1>6 DEF Opened, TxsFit
<1> QED BY <1>1, <1>2, <1>3, <1>5, <1>6, <1>7

LEMMA FitsAfter ==
  ASSUME NEW c, NEW d, CallFits(c), d.kind = c.kind, d.item = c.item,
        d.value = c.value \/ c.kind = "get",
         \/ d.stage \in Crypto!Over
         \/ c.kind \in {"clear", "sweep"} /\ d.stage \in {"encrypts the sentinel", "writes"}
         \/ c.kind = "set" /\ d.stage = "writes"
  PROVE  CallFits(d)
<1>1. c.kind \in {"get", "set", "remove", "clear", "sweep"} BY DEF CallFits
<1>2. CASE c.kind = "get" BY <1>2 DEF CallFits
<1>3. CASE c.kind = "set" BY <1>3 DEF CallFits
<1>4. CASE c.kind = "remove" BY <1>4 DEF CallFits
<1>5. CASE c.kind \in {"clear", "sweep"} BY <1>5 DEF CallFits
<1> QED BY <1>1, <1>2, <1>3, <1>4, <1>5

\* Its call moves on when it is over.
LEMMA TailFits ==
  ASSUME Shape, Opened, txs # <<>>, ~committing, NEW i, i = Head(txs).by,
         calls' \in Seq(CallRecords), DOMAIN calls' = DOMAIN calls,
         \A l \in DOMAIN calls \ {i} : calls'[l] = calls[l], CallFits(calls'[i]),
         Pending' = Tail(txs), UNCHANGED key
  PROVE  /\ Tail(txs) \in Seq(CryptoTxs) /\ CallsFit' /\ TxsFit'
         /\ Crypto!Ready' /\ calls'[1].kind = "initialize"
<1>0. Pending = txs BY DEF Pending
<1>1. txs \in Seq(CryptoTxs) /\ calls \in Seq(CallRecords) BY DEF Shape
<1>2. i \in DOMAIN calls /\ i # 1 BY HeadFits
<1>3. \A j \in DOMAIN Pending' : /\ Pending'[j] = txs[j + 1] /\ j + 1 \in DOMAIN txs
                             /\ Pending'[j].by # i
  BY HeadFits
<1>4. CallsFit'
  <2>1. \A l \in DOMAIN calls : l = 1 \/ CallFits(calls[l]) BY DEF Opened, CallsFit
  <2>2. \A l \in DOMAIN calls' : l = 1 \/ CallFits(calls'[l]) BY <2>1
  <2> QED BY <2>2 DEF CallsFit, CallFits, Crypto!Over
<1>5. \A j \in DOMAIN Pending' : /\ Pending'[j].by \in DOMAIN calls' \ {1}
                             /\ TxFits(Pending'[j], calls'[Pending'[j].by])
  BY <1>0, <1>3 DEF Opened, TxsFit
<1>6. \A j, l \in DOMAIN Pending' : j # l => Pending'[j].by # Pending'[l].by
  <2> SUFFICES ASSUME NEW j \in DOMAIN Pending', NEW l \in DOMAIN Pending', j # l
               PROVE  Pending'[j].by # Pending'[l].by
    OBVIOUS
  <2>1. Pending' \in Seq(CryptoTxs) BY <1>1
  <2>2. j + 1 # l + 1 BY <2>1
  <2> QED BY <1>0, <1>3, <2>2 DEF Opened, TxsFit
<1>7. TxsFit' BY <1>5, <1>6 DEF TxsFit, TxFits
<1>8. 1 \in DOMAIN calls /\ calls'[1] = calls[1] /\ calls' # <<>>
  <2>1. calls # <<>> BY DEF Opened, Crypto!Ready
  <2>2. 1 \in DOMAIN calls BY <1>1, <2>1
  <2> QED BY <1>2, <2>2
<1>9. Crypto!Ready' /\ calls'[1].kind = "initialize" BY <1>8 DEF Opened, Crypto!Ready
<1> QED BY <1>1, <1>4, <1>7, <1>9

\* The writes that are due stay so, but that of one call that takes effect or fails.
LEMMA KeptAfter ==
  ASSUME Shape, HeadCommits, Opened, NEW i \in DOMAIN calls, DOMAIN calls' = DOMAIN calls,
         \A l \in DOMAIN calls \ {i} : calls'[l] = calls[l], calls'[i].before = calls[i].before,
         \A k \in ItemKeys : Due(i, k)' => Due(i, k) /\ Effect(i)' = Effect(i),
         \A k \in ItemKeys : latest[k] \subseteq latest'[k],
         \A k \in ItemKeys :
           \/ /\ Crypto!Found(k)' = Crypto!Found(k)
              /\ Due(i, k) => Due(i, k)' \/ calls[i].before[k] \subseteq latest'[k]
           \/ Crypto!Found(k)' \in latest'[k],
         \/ ~committing'
         \/ /\ committing /\ Head(txs') = Head(txs) /\ UNCHANGED table
            /\ \A k \in ItemKeys :
                 Due(i, k) => Due(i, k)' \/ calls[i].before[k] \subseteq latest'[k]
         \/ ~committing /\ UNCHANGED table /\ Head(txs').by = i
  PROVE  WritesKept'
<1>1. \A l \in DOMAIN calls, k \in ItemKeys : l # i => Due(l, k)' = Due(l,
      k) /\ Effect(l)' = Effect(l)
  BY DEF Due, Effect
<1> SUFFICES ASSUME NEW k \in ItemKeys
             PROVE  /\ Left(k, Crypto!Found(k))'
                    /\ \A l \in DOMAIN calls' : Due(l, k)' => Effect(l)' \in latest'[k]
                    /\ committing' /\ Head(txs').item = k =>
                         \/ Left(k, Crypto!Plain(k))'
                         \/ Crypto!Plain(k)' \in calls'[Head(txs').by].before[k]
  BY DEF WritesKept, Left
<1>2. /\ Left(k, Crypto!Found(k))
      /\ \A l \in DOMAIN calls : Due(l, k) => Effect(l) \in latest[k]
      /\ committing /\ Head(txs).item = k =>
           Left(k, Crypto!Plain(k)) \/ Crypto!Plain(k) \in calls[Head(txs).by].before[k]
  BY DEF Opened, WritesKept
<1>3. \A l \in DOMAIN calls' : Due(l, k)' => Effect(l)' \in latest'[k]
  BY <1>1, <1>2
<1>4. \A l \in DOMAIN calls : calls'[l].before = calls[l].before OBVIOUS
<1>5. ASSUME Due(i, k) => Due(i, k)' \/ calls[i].before[k] \subseteq latest'[k], NEW v, Left(k, v)
      PROVE  v \in latest'[k] \/ \E l \in DOMAIN calls' : Due(l, k)' /\ v \in calls'[l].before[k]
  <2>1. CASE v \in latest[k] BY <2>1
  <2>2. CASE \E l \in DOMAIN calls : Due(l, k) /\ v \in calls[l].before[k]
    <3>1. PICK l \in DOMAIN calls : Due(l, k) /\ v \in calls[l].before[k] BY <2>2
    <3>2. CASE l = i BY <1>4, <1>5, <3>1, <3>2
    <3>3. CASE l # i BY <1>1, <1>4, <3>1, <3>3
    <3> QED BY <3>2, <3>3
  <2> QED BY <1>5, <2>1, <2>2 DEF Left
<1>6. Left(k, Crypto!Found(k))'
  <2>1. CASE Crypto!Found(k)' \in latest'[k] BY <2>1 DEF Left
  <2>2. CASE /\ Crypto!Found(k)' = Crypto!Found(k)
             /\ Due(i, k) => Due(i, k)' \/ calls[i].before[k] \subseteq latest'[k]
    <3> DEFINE v == Crypto!Found(k)
    <3>1. Left(k, v) BY <1>2
    <3> HIDE DEF v
    <3>2. v \in latest'[k] \/ \E l \in DOMAIN calls' : Due(l, k)' /\ v \in calls'[l].before[k]
      BY <1>5, <2>2, <3>1
    <3> QED BY <2>2, <3>2 DEF Left, v
  <2> QED BY <2>1, <2>2
<1>7. ASSUME committing', Head(txs').item = k
      PROVE  \/ Left(k, Crypto!Plain(k))'
             \/ Crypto!Plain(k)' \in calls'[Head(txs').by].before[k]
  <2> DEFINE v == Crypto!Plain(k)
  <2>1. Crypto!Plain(k)' = v BY <1>7 DEF Crypto!Plain
  <2>2. CASE /\ committing /\ Head(txs') = Head(txs)
             /\ Due(i, k) => Due(i, k)' \/ calls[i].before[k] \subseteq latest'[k]
    <3>1. Left(k, v) \/ v \in calls[Head(txs).by].before[k] BY <1>2, <1>7, <2>2
    <3>2. calls'[Head(txs').by].before[k] = calls[Head(txs).by].before[k]
      <4>1. CASE Head(txs).by \in DOMAIN calls BY <1>4, <2>2, <4>1
      <4>2. CASE Head(txs).by \notin DOMAIN calls
        <5>1. FALSE BY <2>2, <4>2 DEF HeadCommits
        <5> QED BY <5>1
      <4> QED BY <4>1, <4>2
    <3> HIDE DEF v
    <3>3. Left(k, v) => v \in latest'[k] \/ \E l \in DOMAIN calls' : Due(l, k)' /\ v \in calls'[l].before[k]
      BY <1>5, <2>2
    <3> QED BY <2>1, <3>1, <3>2, <3>3 DEF Left
  <2>3. CASE ~committing /\ Head(txs').by = i
    <3>1. Left(k, v) BY <1>2, <2>3 DEF Crypto!Found
    <3>2. calls'[Head(txs').by].before[k] = calls[i].before[k] BY <2>3
    <3> HIDE DEF v
    <3>3. CASE v \in calls[i].before[k] BY <2>1, <3>2, <3>3
    <3>4. CASE v \in latest[k] \/ \E l \in DOMAIN calls \ {i} : Due(l, k) /\ v \in calls[l].before[k]
      <4>1. v \in latest'[k] \/ \E l \in DOMAIN calls' : Due(l, k)' /\ v \in calls'[l].before[k]
        BY <1>1, <1>4, <3>4
      <4> QED BY <2>1, <4>1 DEF Left
    <3> QED BY <3>1, <3>3, <3>4 DEF Left
  <2> QED BY <1>7, <2>2, <2>3
<1> QED BY <1>3, <1>6, <1>7

\* What is common to the transactions of the client
LEMMA MovesOn ==
  ASSUME Shape, Opened, txs # <<>>, ~committing, NEW i, i = Head(txs).by,
         NEW s \in {"encrypts the sentinel", "resolved", "rejected"}, Crypto!Stage(i, s),
         s = "encrypts the sentinel" => calls[i].kind \in {"clear", "sweep"},
         Pending' = Tail(txs), UNCHANGED key
  PROVE  /\ calls' \in Seq(CallRecords) /\ DOMAIN calls' = DOMAIN calls
         /\ \A l \in DOMAIN calls \ {i} : calls'[l] = calls[l]
         /\ calls'[i].stage = s /\ calls'[i].kind = calls[i].kind
         /\ calls'[i].item = calls[i].item /\ calls'[i].value = calls[i].value
         /\ calls'[i].before = calls[i].before
         /\ Tail(txs) \in Seq(CryptoTxs) /\ CallsFit' /\ TxsFit'
         /\ Crypto!Ready' /\ calls'[1].kind = "initialize"
<1>1. i \in DOMAIN calls /\ CallFits(calls[i]) BY HeadFits
<1>2. s \in Stages BY DEF Stages, OpeningStages
<1>3. /\ calls' \in Seq(CallRecords) /\ DOMAIN calls' = DOMAIN calls
      /\ \A l \in DOMAIN calls \ {i} : calls'[l] = calls[l]
      /\ calls'[i].stage = s /\ calls'[i].kind = calls[i].kind
      /\ calls'[i].item = calls[i].item /\ calls'[i].value = calls[i].value
      /\ calls'[i].before = calls[i].before
  BY <1>1, <1>2, StageFacts
<1>4. CallFits(calls'[i]) BY <1>1, <1>3, FitsAfter DEF Crypto!Over
<1>5. /\ Tail(txs) \in Seq(CryptoTxs) /\ CallsFit' /\ TxsFit'
      /\ Crypto!Ready' /\ calls'[1].kind = "initialize"
  BY <1>3, <1>4, TailFits
<1> QED BY <1>3, <1>5

LEMMA Answers ==
  ASSUME Shape, Opened, txs # <<>>, ~committing, NEW i, i = Head(txs).by,
         NEW s \in {"resolved", "rejected"}, Crypto!Stage(i, s), Pending' = Tail(txs),
         UNCHANGED key
  PROVE  /\ calls' \in Seq(CallRecords) /\ DOMAIN calls' = DOMAIN calls
         /\ \A l \in DOMAIN calls \ {i} : calls'[l] = calls[l]
         /\ calls'[i].before = calls[i].before
         /\ Tail(txs) \in Seq(CryptoTxs) /\ CallsFit' /\ TxsFit'
         /\ Crypto!Ready' /\ calls'[1].kind = "initialize"
         /\ \A k : ~Due(i, k)'
<1>1. calls'[i].stage = s BY MovesOn
<1>2. \A k : ~Due(i, k)' BY <1>1 DEF Due, Crypto!Over
<1> QED BY <1>2, MovesOn

\* The transaction at the head has ended; none is committing.
LEMMA EndedFacts ==
  ASSUME ~committing, committing \in BOOLEAN, UNCHANGED committing, txs' = Tail(txs)
  PROVE  /\ ~committing' /\ committing' \in BOOLEAN /\ Pending' = Tail(txs) /\ HeadCommits'
         /\ \A k \in ItemKeys : /\ Crypto!Found(k) = Crypto!Plain(k)
                                /\ Crypto!Found(k)' = Crypto!Plain(k)'
BY DEF Pending, HeadCommits, Crypto!Found

LEMMA ReadKeeps ==
  ASSUME CryptoInv, Opened, Crypto!ReadRuns
  PROVE  CryptoInv'
<1>0. PICK i, n : i = Head(txs).by /\ n = Head(txs).item OBVIOUS
<1>1. Shape /\ HeadCommits /\ txs # <<>> /\ ~committing /\ Head(txs).op = "read"
  BY DEF CryptoInv, Crypto!ReadRuns, Crypto!Runs
<1>2. i \in DOMAIN calls /\ i # 1 /\ CallFits(calls[i]) /\ TxFits(Head(txs), calls[i])
  BY <1>0, <1>1, HeadFits
<1>3. calls[i].kind = "get" /\ calls[i].stage = "reads" BY <1>0, <1>1, <1>2 DEF TxFits
<1>4. Crypto!Continuation(i) = "resolved" BY <1>0, <1>1, <1>3, HeadFits
<1>5. PICK v \in Crypto!Decrypt(table[n]) :
        calls' = [calls EXCEPT ![i].stage = Crypto!Continuation(i), ![i].value = v]
  BY <1>0 DEF Crypto!ReadRuns
<1>6. n \in Crypto!Names BY <1>0, <1>1, HeadFits DEF CryptoTxs
<1>7. v \in Values \cup {Sentinel, Nothing, Garbage}
  BY <1>1, <1>5, <1>6 DEF Crypto!Decrypt, Crypto!Ciphers, Shape, TableFits
<1>8. calls \in Seq(CallRecords) /\ calls[i] \in CallRecords BY <1>1, <1>2 DEF Shape
<1> DEFINE c == [calls[i] EXCEPT !.stage = "resolved", !.value = v]
<1>9. c \in CallRecords BY <1>7, <1>8 DEF CallRecords, Stages
<1>10. c.stage = "resolved" /\ c.kind = "get" /\ c.item = calls[i].item /\ c.before = calls[i].before
  BY <1>3, <1>8 DEF CallRecords
<1>11. calls' = [calls EXCEPT ![i] = c] BY <1>4, <1>5, <1>8 DEF CallRecords
<1> HIDE DEF c
<1>12. /\ calls' \in Seq(CallRecords) /\ DOMAIN calls' = DOMAIN calls /\ calls'[i] = c
       /\ \A l \in DOMAIN calls \ {i} : calls'[l] = calls[l]
  BY <1>2, <1>8, <1>9, <1>11
<1>13. CallFits(calls'[i]) BY <1>10, <1>12 DEF CallFits, Crypto!Over
<1>14. txs' = Tail(txs) /\ UNCHANGED <<Crypto!session, table, committing, latest>>
  BY DEF Crypto!ReadRuns
<1>15. UNCHANGED <<key, keyPromise, inner>> BY <1>14 DEF Crypto!session
<1>21. /\ ~committing' /\ committing' \in BOOLEAN /\ Pending' = Tail(txs) /\ HeadCommits'
       /\ \A k \in ItemKeys : /\ Crypto!Found(k) = Crypto!Plain(k)
                              /\ Crypto!Found(k)' = Crypto!Plain(k)'
  <2>1. committing \in BOOLEAN BY <1>1 DEF Shape
  <2> QED BY <1>1, <1>14, <2>1, EndedFacts
<1>16. /\ txs' \in Seq(CryptoTxs) /\ CallsFit' /\ TxsFit'
       /\ Crypto!Ready' /\ calls'[1].kind = "initialize"
  BY <1>1, <1>12, <1>13, <1>14, <1>15, <1>21, <1>0, TailFits
<1>17. \A k \in ItemKeys : ~Due(i, k) /\ ~Due(i, k)' BY <1>3, <1>10, <1>12 DEF Due
<1>18. TableFits' /\ Uniform' /\ \A k \in ItemKeys : Crypto!Plain(k)' = Crypto!Plain(k)
  BY <1>1, <1>14, <1>15, TableKept DEF Opened
<1>19. WritesKept'
  <2>1. \A k \in ItemKeys : latest[k] \subseteq latest'[k] BY <1>14
  <2>2. calls'[i].before = calls[i].before BY <1>10, <1>12
  <2> QED BY <1>1, <1>2, <1>12, <1>17, <1>18, <1>21, <2>1, <2>2, KeptAfter
<1>20. Shape' BY <1>1, <1>12, <1>14, <1>15, <1>16, <1>18, <1>21 DEF Shape
<1> QED BY <1>15, <1>16, <1>18, <1>19, <1>20, <1>21 DEF CryptoInv, Opened

\* A set writes what it was given, a removal nothing; the others write the sentinel.
LEMMA WriteKeeps ==
  ASSUME Distinct, CryptoInv, Opened, Crypto!WriteSucceeds
  PROVE  CryptoInv'
<1>0. PICK i, n, c : i = Head(txs).by /\ n = Head(txs).item /\ c = Head(txs).cipher OBVIOUS
<1>1. /\ Shape /\ HeadCommits /\ txs # <<>> /\ ~committing /\ Head(txs).op \in {"put", "remove"}
  BY DEF CryptoInv, Crypto!WriteSucceeds, Crypto!Runs
<1>2. /\ i \in DOMAIN calls /\ i # 1 /\ CallFits(calls[i]) /\ TxFits(Head(txs), calls[i])
      /\ Head(txs) \in CryptoTxs
  BY <1>0, <1>1, HeadFits
<1>3. calls[i].stage = "writes" BY <1>0, <1>1, <1>2 DEF TxFits, CallFits
<1>4. Crypto!Continuation(i) = "resolved" BY <1>0, <1>1, <1>3, HeadFits
<1>5. /\ committing' = TRUE /\ Crypto!Stage(i, "resolved")
      /\ UNCHANGED <<keyPromise, key, inner, table, txs, latest>>
  BY <1>0, <1>4 DEF Crypto!WriteSucceeds, Crypto!Answered, Crypto!session
<1>6. Pending' = Tail(txs) BY <1>5 DEF Pending
<1>7. \/ calls[i].kind = "set" /\ n = calls[i].item /\ n \in ItemKeys /\ calls[i].value \in Values
            /\ c = Crypto!Cipher(calls[i].value, key)
      \/ calls[i].kind = "remove" /\ n = calls[i].item /\ n \in ItemKeys /\ c = Nothing
      \/ calls[i].kind \in {"clear", "sweep"} /\ n = Sentinel /\ c = Crypto!Cipher(Sentinel, key)
  <2>1. TxFits(Head(txs), calls[i]) /\ CallFits(calls[i]) BY <1>2
  <2>2. calls[i].kind \in {"set", "remove", "clear", "sweep"} BY <1>1, <1>3, <2>1 DEF TxFits
  <2>3. CASE calls[i].kind = "set" BY <1>0, <1>3, <2>1, <2>3 DEF TxFits, CallFits
  <2>4. CASE calls[i].kind = "remove" BY <1>0, <1>3, <2>1, <2>4 DEF TxFits, CallFits
  <2>5. CASE calls[i].kind \in {"clear", "sweep"} BY <1>0, <1>3, <2>1, <2>5 DEF TxFits, CallFits
  <2> QED BY <2>2, <2>3, <2>4, <2>5
<1>8. /\ c # Nothing => c.key = key /\ (n \in ItemKeys => c.value \in Values)
      /\ n \in ItemKeys => /\ Effect(i) = IF c = Nothing THEN Nothing ELSE c.value
                           /\ Due(i, n)
      /\ \A k \in ItemKeys : Due(i, k) => k = n
  <2>1. CASE calls[i].kind = "set" /\ n = calls[i].item /\ n \in ItemKeys /\ calls[i].value \in Values
            /\ c = Crypto!Cipher(calls[i].value, key)
    <3>1. c \in Crypto!Ciphers /\ c.value = calls[i].value /\ c.key = key
      BY <2>1 DEF Opened, Crypto!Ciphers, Crypto!Cipher
    <3>2. c # Nothing BY <3>1 DEF Distinct
    <3> QED BY <1>3, <2>1, <3>1, <3>2 DEF Due, Effect, Crypto!Over
  <2>2. CASE calls[i].kind = "remove" /\ n = calls[i].item /\ n \in ItemKeys /\ c = Nothing
    BY <1>3, <2>2 DEF Due, Effect, Crypto!Over
  <2>3. CASE calls[i].kind \in {"clear", "sweep"} /\ n = Sentinel /\ c = Crypto!Cipher(Sentinel, key)
    BY <1>3, <2>3 DEF Due, Crypto!Cipher, Distinct
  <2> QED BY <1>7, <2>1, <2>2, <2>3
<1>9. /\ calls' \in Seq(CallRecords) /\ DOMAIN calls' = DOMAIN calls
      /\ \A l \in DOMAIN calls \ {i} : calls'[l] = calls[l]
      /\ calls'[i].before = calls[i].before
      /\ CallsFit' /\ TxsFit'
      /\ Crypto!Ready' /\ calls'[1].kind = "initialize"
      /\ \A k : ~Due(i, k)'
  BY <1>0, <1>1, <1>5, <1>6, Answers
<1>10. TableFits' /\ Uniform' BY <1>1, <1>5, TableKept DEF Opened
<1>11. HeadCommits'
  BY <1>0, <1>1, <1>2, <1>5, <1>8, <1>9, <1>10 DEF HeadCommits
<1>12. \A k \in ItemKeys :
         /\ k = n => Crypto!Found(k)' = Effect(i)
         /\ k # n => Crypto!Found(k)' = Crypto!Found(k)
  BY <1>0, <1>1, <1>5, <1>8 DEF Crypto!Found, Crypto!Plain
<1>13. \A k \in ItemKeys : Due(i, k) => Effect(i) \in latest[k]
  BY <1>2 DEF Opened, WritesKept
<1>14. WritesKept'
  <2>1. \A k \in ItemKeys : latest[k] \subseteq latest'[k] BY <1>5
  <2>2. \A k \in ItemKeys :
          \/ /\ Crypto!Found(k)' = Crypto!Found(k)
             /\ Due(i, k) => Due(i, k)' \/ calls[i].before[k] \subseteq latest'[k]
          \/ Crypto!Found(k)' \in latest'[k]
    <3> SUFFICES ASSUME NEW k \in ItemKeys
                 PROVE  \/ Crypto!Found(k)' = Crypto!Found(k) /\ ~Due(i, k)
                        \/ Crypto!Found(k)' \in latest'[k]
      OBVIOUS
    <3>1. CASE k = n BY <1>5, <1>8, <1>12, <1>13, <3>1
    <3>2. CASE k # n BY <1>8, <1>12, <3>2
    <3> QED BY <3>1, <3>2
  <2>3. ~committing /\ UNCHANGED table /\ Head(txs').by = i BY <1>0, <1>1, <1>5
  <2>4. \A k \in ItemKeys : Due(i, k)' => Due(i, k) /\ Effect(i)' = Effect(i) BY <1>9
  <2> QED BY <1>1, <1>2, <1>9, <2>1, <2>2, <2>3, <2>4, KeptAfter
<1>15. Shape' BY <1>1, <1>5, <1>9, <1>10 DEF Shape
<1> QED BY <1>5, <1>9, <1>10, <1>11, <1>14, <1>15 DEF CryptoInv, Opened

\* A clear leaves nothing, and goes on to the sentinel.
LEMMA ClearKeeps ==
  ASSUME CryptoInv, Opened, Crypto!ClearRuns
  PROVE  CryptoInv'
<1>0. PICK i : i = Head(txs).by OBVIOUS
<1>1. Shape /\ HeadCommits /\ txs # <<>> /\ ~committing /\ Head(txs).op = "clear"
  BY DEF CryptoInv, Crypto!ClearRuns, Crypto!Runs
<1>2. i \in DOMAIN calls /\ i # 1 /\ CallFits(calls[i]) /\ TxFits(Head(txs), calls[i])
  BY <1>0, <1>1, HeadFits
<1>3. calls[i].kind = "clear" /\ calls[i].stage = "clears"
  BY <1>0, <1>1, <1>2 DEF TxFits
<1>4. Crypto!Continuation(i) = "encrypts the sentinel" BY <1>0, <1>1, <1>3, HeadFits
<1>5. /\ table' = [n \in Crypto!Names |-> Nothing] /\ txs' = Tail(txs)
      /\ Crypto!Stage(i, "encrypts the sentinel") /\ UNCHANGED <<Crypto!session, committing, latest>>
  BY <1>0, <1>4 DEF Crypto!ClearRuns, Crypto!Done, Crypto!Answered
<1>6. UNCHANGED <<key, keyPromise, inner>> BY <1>5 DEF Crypto!session
<1>12. /\ ~committing' /\ committing' \in BOOLEAN /\ Pending' = Tail(txs) /\ HeadCommits'
       /\ \A k \in ItemKeys : /\ Crypto!Found(k) = Crypto!Plain(k)
                              /\ Crypto!Found(k)' = Crypto!Plain(k)'
  <2>1. committing \in BOOLEAN BY <1>1 DEF Shape
  <2> QED BY <1>1, <1>5, <2>1, EndedFacts
<1>7. TableFits' /\ Uniform' /\ \A k \in ItemKeys : Crypto!Plain(k)' = Nothing BY <1>5, TableCleared
<1>8. /\ calls' \in Seq(CallRecords) /\ DOMAIN calls' = DOMAIN calls
      /\ \A l \in DOMAIN calls \ {i} : calls'[l] = calls[l]
      /\ calls'[i].stage = "encrypts the sentinel" /\ calls'[i].kind = "clear"
      /\ calls'[i].before = calls[i].before
      /\ txs' \in Seq(CryptoTxs) /\ CallsFit' /\ TxsFit'
      /\ Crypto!Ready' /\ calls'[1].kind = "initialize"
  BY <1>1, <1>3, <1>5, <1>6, <1>12, <1>0, MovesOn
<1>9. \A k : Due(i, k) /\ ~Due(i, k)' /\ Effect(i) = Nothing
  BY <1>3, <1>8 DEF Due, Effect
<1>10. WritesKept'
  <2>1. \A k \in ItemKeys : latest[k] \subseteq latest'[k] BY <1>5
  <2>2. \A k \in ItemKeys : Effect(i) \in latest[k] BY <1>2, <1>9 DEF Opened, WritesKept
  <2>3. \A k \in ItemKeys : Crypto!Found(k)' \in latest'[k] BY <2>2, <1>5, <1>7, <1>9, <1>12
  <2> QED BY <1>1, <1>2, <1>8, <1>9, <1>12, <2>1, <2>3, KeptAfter
<1>11. Shape' BY <1>1, <1>5, <1>6, <1>7, <1>8, <1>12 DEF Shape
<1> QED BY <1>6, <1>7, <1>8, <1>10, <1>11, <1>12 DEF CryptoInv, Opened

\* What the adapter below evicts may be gone.
LEMMA EvictedFacts ==
  ASSUME Shape, Opened, NEW K \in SUBSET Crypto!Names, Crypto!Evicted(K), UNCHANGED key
  PROVE  /\ TableFits' /\ Uniform' /\ latest' \in [ItemKeys -> SUBSET (Values \cup {Nothing})]
         /\ \A k \in ItemKeys : latest[k] \subseteq latest'[k]
         /\ \A k \in ItemKeys : Crypto!Plain(k)' = Crypto!Plain(k) \/ Crypto!Plain(k)' \in latest'[k]
<1>1. table' = [n \in Crypto!Names |-> IF n \in K THEN Nothing ELSE table[n]] BY DEF Crypto!Evicted
<1>2. /\ TableFits' /\ Uniform'
      /\ \A k \in ItemKeys : Crypto!Plain(k)' = IF k \in K THEN Nothing ELSE Crypto!Plain(k)
  BY <1>1, TableEvicted DEF Opened
<1>3. latest' = [k \in ItemKeys |-> IF k \in K THEN latest[k] \cup {Nothing} ELSE latest[k]]
  BY DEF Crypto!Evicted
<1>4. latest \in [ItemKeys -> SUBSET (Values \cup {Nothing})] BY DEF Shape
<1>5. /\ latest' \in [ItemKeys -> SUBSET (Values \cup {Nothing})]
      /\ \A k \in ItemKeys : latest[k] \subseteq latest'[k]
      /\ \A k \in ItemKeys : k \in K => Nothing \in latest'[k]
  BY <1>3, <1>4
<1> QED BY <1>2, <1>5

LEMMA SweepKeeps ==
  ASSUME CryptoInv, Opened, Crypto!SweepRuns
  PROVE  CryptoInv'
<1>0. PICK i : i = Head(txs).by OBVIOUS
<1>1. Shape /\ HeadCommits /\ txs # <<>> /\ ~committing /\ Head(txs).op = "sweep"
  BY DEF CryptoInv, Crypto!SweepRuns, Crypto!Runs
<1>2. i \in DOMAIN calls /\ i # 1 /\ CallFits(calls[i]) /\ TxFits(Head(txs), calls[i])
  BY <1>0, <1>1, HeadFits
<1>3. calls[i].kind = "sweep" /\ calls[i].stage = "clears"
  BY <1>0, <1>1, <1>2 DEF TxFits
<1>4. Crypto!Continuation(i) = "encrypts the sentinel" BY <1>0, <1>1, <1>3, HeadFits
<1>5. /\ txs' = Tail(txs) /\ Crypto!Stage(i, "encrypts the sentinel")
      /\ UNCHANGED <<Crypto!session, committing>>
  BY <1>0, <1>4 DEF Crypto!SweepRuns, Crypto!Done, Crypto!Answered
<1>6. UNCHANGED <<key, keyPromise, inner>> BY <1>5 DEF Crypto!session
<1>12. /\ ~committing' /\ committing' \in BOOLEAN /\ Pending' = Tail(txs) /\ HeadCommits'
       /\ \A k \in ItemKeys : /\ Crypto!Found(k) = Crypto!Plain(k)
                              /\ Crypto!Found(k)' = Crypto!Plain(k)'
  <2>1. committing \in BOOLEAN BY <1>1 DEF Shape
  <2> QED BY <1>1, <1>5, <2>1, EndedFacts
<1>7. /\ TableFits' /\ Uniform' /\ latest' \in [ItemKeys -> SUBSET (Values \cup {Nothing})]
      /\ \A k \in ItemKeys : latest[k] \subseteq latest'[k]
      /\ \A k \in ItemKeys : Crypto!Plain(k)' = Crypto!Plain(k) \/ Crypto!Plain(k)' \in latest'[k]
  <2>1. PICK K \in SUBSET Crypto!Names : Crypto!Evicted(K) BY DEF Crypto!SweepRuns
  <2> QED BY <2>1, <1>1, <1>6, EvictedFacts
<1>8. /\ calls' \in Seq(CallRecords) /\ DOMAIN calls' = DOMAIN calls
      /\ \A l \in DOMAIN calls \ {i} : calls'[l] = calls[l]
      /\ calls'[i].stage = "encrypts the sentinel" /\ calls'[i].kind = "sweep"
      /\ calls'[i].before = calls[i].before
      /\ txs' \in Seq(CryptoTxs) /\ CallsFit' /\ TxsFit'
      /\ Crypto!Ready' /\ calls'[1].kind = "initialize"
  BY <1>1, <1>3, <1>5, <1>6, <1>12, <1>0, MovesOn
<1>9. \A k : ~Due(i, k) /\ ~Due(i, k)' BY <1>3, <1>8 DEF Due
<1>10. WritesKept'
  <2>1. \A k \in ItemKeys : \/ Crypto!Found(k)' = Crypto!Found(k) /\ ~Due(i, k)
                           \/ Crypto!Found(k)' \in latest'[k]
    BY <1>7, <1>9, <1>12
  <2>2. \A k \in ItemKeys : Due(i, k)' => Due(i, k) /\ Effect(i)' = Effect(i) BY <1>9
  <2> QED BY <1>1, <1>2, <1>7, <1>8, <1>12, <2>1, <2>2, KeptAfter
<1>11. Shape' BY <1>1, <1>5, <1>6, <1>7, <1>8, <1>12 DEF Shape
<1> QED BY <1>6, <1>7, <1>8, <1>10, <1>11, <1>12 DEF CryptoInv, Opened

LEMMA EvictKeeps ==
  ASSUME CryptoInv, Opened, NEW n \in Crypto!Names, Crypto!AdapterEvicts(n)
  PROVE  CryptoInv'
<1>1. Shape /\ HeadCommits /\ ~committing BY DEF CryptoInv, Crypto!AdapterEvicts
<1>2. UNCHANGED <<key, keyPromise, inner, txs, committing, calls>> /\ Crypto!Evicted({n})
  BY DEF Crypto!AdapterEvicts, Crypto!session
<1>3. /\ TableFits' /\ Uniform' /\ latest' \in [ItemKeys -> SUBSET (Values \cup {Nothing})]
      /\ \A k \in ItemKeys : latest[k] \subseteq latest'[k]
      /\ \A k \in ItemKeys : Crypto!Plain(k)' = Crypto!Plain(k) \/ Crypto!Plain(k)' \in latest'[k]
  BY <1>1, <1>2, EvictedFacts
<1>4. 1 \in DOMAIN calls BY <1>1, FirstFacts DEF Opened, Crypto!Ready
<1>5. \A k : (Due(1, k)' <=> Due(1, k)) /\ Effect(1)' = Effect(1) BY <1>2 DEF Due, Effect
<1>6. /\ ~committing' /\ Pending' = Pending /\ HeadCommits'
      /\ \A k \in ItemKeys : /\ Crypto!Found(k) = Crypto!Plain(k)
                             /\ Crypto!Found(k)' = Crypto!Plain(k)'
  BY <1>1, <1>2 DEF Pending, HeadCommits, Crypto!Found
<1>7. WritesKept' BY <1>1, <1>2, <1>3, <1>4, <1>5, <1>6, KeptAfter
<1>8. Shape' BY <1>1, <1>2, <1>3 DEF Shape
<1>9. Crypto!Ready' /\ calls'[1].kind = "initialize" /\ CallsFit' /\ TxsFit'
  BY <1>2, <1>6 DEF Opened, Crypto!Ready, CallsFit, TxsFit, TxFits
<1> QED BY <1>2, <1>3, <1>6, <1>7, <1>8, <1>9 DEF CryptoInv, Opened

\* A transaction that fails changes nothing: what its write superseded may stay.
LEMMA FailKeeps ==
  ASSUME CryptoInv, Opened, Crypto!Fails
  PROVE  CryptoInv'
<1>0. PICK i : i = Head(txs).by OBVIOUS
<1>1. Shape /\ HeadCommits /\ txs # <<>> /\ ~committing BY DEF CryptoInv, Crypto!Fails
<1>2. /\ i \in DOMAIN calls /\ i # 1 /\ CallFits(calls[i]) /\ TxFits(Head(txs), calls[i])
      /\ calls[i] \in CallRecords
  <2>1. i \in DOMAIN calls /\ i # 1 /\ CallFits(calls[i]) /\ TxFits(Head(txs), calls[i])
    BY <1>0, <1>1, HeadFits
  <2>2. calls \in Seq(CallRecords) BY <1>1 DEF Shape
  <2> QED BY <2>1, <2>2
<1>3. txs' = Tail(txs) /\ Crypto!Stage(i, "rejected") BY <1>0, <1>2 DEF Crypto!Fails
<1>4. UNCHANGED <<key, keyPromise, inner, table, committing>> BY DEF Crypto!Fails, Crypto!session
<1>5. PICK T \in SUBSET ItemKeys : T = Crypto!Touched(Head(txs)) BY DEF Crypto!Touched
<1>6. latest' = [k \in ItemKeys |-> IF k \in T THEN latest[k] \cup calls[i].before[k] ELSE latest[k]]
  BY <1>0, <1>5 DEF Crypto!Fails, Crypto!GivesBack
<1>7. TableFits' /\ Uniform' /\ \A k \in ItemKeys : Crypto!Plain(k)' = Crypto!Plain(k)
  BY <1>1, <1>4, TableKept DEF Opened
<1>8. /\ latest' \in [ItemKeys -> SUBSET (Values \cup {Nothing})]
      /\ \A k \in ItemKeys : latest[k] \subseteq latest'[k]
      /\ \A k \in ItemKeys : k \in T => calls[i].before[k] \subseteq latest'[k]
  <2>1. latest \in [ItemKeys -> SUBSET (Values \cup {Nothing})] BY <1>1 DEF Shape
  <2> QED BY <1>2, <1>6, <2>1 DEF CallRecords
<1>12. /\ ~committing' /\ committing' \in BOOLEAN /\ Pending' = Tail(txs) /\ HeadCommits'
       /\ \A k \in ItemKeys : /\ Crypto!Found(k) = Crypto!Plain(k)
                              /\ Crypto!Found(k)' = Crypto!Plain(k)'
  <2>1. committing \in BOOLEAN BY <1>1 DEF Shape
  <2> QED BY <1>1, <1>3, <1>4, <2>1, EndedFacts
<1>9. /\ calls' \in Seq(CallRecords) /\ DOMAIN calls' = DOMAIN calls
      /\ \A l \in DOMAIN calls \ {i} : calls'[l] = calls[l]
      /\ calls'[i].before = calls[i].before
      /\ txs' \in Seq(CryptoTxs) /\ CallsFit' /\ TxsFit'
      /\ Crypto!Ready' /\ calls'[1].kind = "initialize"
      /\ \A k : ~Due(i, k)'
  BY <1>0, <1>1, <1>3, <1>4, <1>12, Answers
<1>10. \A k \in ItemKeys : Due(i, k) => k \in T
  BY <1>2, <1>5 DEF Due, TxFits, Crypto!Touched
<1>11. WritesKept'
  <2>1. \A k \in ItemKeys : Crypto!Found(k)' = Crypto!Found(k) BY <1>7, <1>12
  <2>2. \A k \in ItemKeys : Due(i, k) => calls[i].before[k] \subseteq latest'[k] BY <1>8, <1>10
  <2> QED BY <1>1, <1>2, <1>8, <1>9, <1>12, <2>1, <2>2, KeptAfter
<1>13. Shape' BY <1>1, <1>4, <1>7, <1>8, <1>9, <1>12 DEF Shape
<1> QED BY <1>4, <1>7, <1>9, <1>11, <1>12, <1>13 DEF CryptoInv, Opened

--------------------------------------------------------------------------------
(* What the client asks for                                                *)

\* A call that is new, or goes on to a transaction
LEMMA CallAdds ==
  ASSUME Shape, HeadCommits, Opened, NEW i, i # 1,
         calls' \in Seq(CallRecords), DOMAIN calls' = DOMAIN calls \cup {i},
         \A l \in DOMAIN calls \ {i} : calls'[l] = calls[l], CallFits(calls'[i]),
         \A j \in DOMAIN Pending : Pending[j].by # i, UNCHANGED <<key, table, committing>>,
         NEW t \in CryptoTxs,
         txs' = txs \/ (txs' = Append(txs, t) /\ t.by = i /\ TxFits(t, calls'[i]))
  PROVE  /\ txs' \in Seq(CryptoTxs) /\ CallsFit' /\ TxsFit'
         /\ Crypto!Ready' /\ calls'[1].kind = "initialize"
         /\ HeadCommits' /\ (committing => Head(txs') = Head(txs))
         /\ \A k \in ItemKeys : Crypto!Found(k)' = Crypto!Found(k)
<1>1. txs \in Seq(CryptoTxs) /\ Pending \in Seq(CryptoTxs) /\ calls \in Seq(CallRecords)
  BY PendingFacts DEF Shape
<1>2. CallsFit'
  <2>1. \A l \in DOMAIN calls : l = 1 \/ CallFits(calls[l]) BY DEF Opened, CallsFit
  <2>2. \A l \in DOMAIN calls' : l = 1 \/ CallFits(calls'[l]) BY <2>1
  <2> QED BY <2>2 DEF CallsFit, CallFits, Crypto!Over
<1>3. \A j \in DOMAIN Pending : /\ Pending[j].by \in DOMAIN calls' \ {1} /\ Pending[j].by # i
                                /\ TxFits(Pending[j], calls'[Pending[j].by])
  BY DEF Opened, TxsFit
<1>4. \A j, l \in DOMAIN Pending : j # l => Pending[j].by # Pending[l].by BY DEF Opened, TxsFit
<1>5. ASSUME txs' = txs PROVE txs' \in Seq(CryptoTxs) /\ TxsFit'
  <2>1. Pending' = Pending BY <1>5, PendingFacts
  <2>2. TxsFit' BY <1>3, <1>4, <2>1 DEF TxsFit, TxFits
  <2> QED BY <1>1, <1>5, <2>2
<1>6. ASSUME txs' = Append(txs, t), t.by = i, TxFits(t, calls'[i])
      PROVE  txs' \in Seq(CryptoTxs) /\ TxsFit'
  <2>1. txs' \in Seq(CryptoTxs) BY <1>1, <1>6
  <2>2. PICK q : q = Pending OBVIOUS
  <2>3. Pending' = Append(q, t) BY <1>6, <2>2, PendingFacts
  <2>4. /\ q \in Seq(CryptoTxs) /\ DOMAIN Pending' = DOMAIN q \cup {Len(q) + 1}
        /\ Pending'[Len(q) + 1] = t /\ Len(q) + 1 \notin DOMAIN q
        /\ \A j \in DOMAIN q : Pending'[j] = q[j]
    BY <1>1, <2>2, <2>3
  <2>5. \A j \in DOMAIN Pending' : /\ Pending'[j].by \in DOMAIN calls' \ {1}
                                   /\ TxFits(Pending'[j], calls'[Pending'[j].by])
    BY <1>3, <1>6, <2>2, <2>4
  <2>6. \A j, l \in DOMAIN Pending' : j # l => Pending'[j].by # Pending'[l].by
    BY <1>3, <1>4, <1>6, <2>2, <2>4
  <2>7. TxsFit' BY <2>5, <2>6 DEF TxsFit, TxFits
  <2> QED BY <2>1, <2>7
<1>7. Crypto!Ready' /\ calls'[1].kind = "initialize"
  <2>1. calls # <<>> BY DEF Opened, Crypto!Ready
  <2>2. 1 \in DOMAIN calls BY <1>1, <2>1
  <2>3. 1 \in DOMAIN calls' /\ calls'[1] = calls[1] BY <2>2
  <2>4. calls' # <<>> BY <2>3
  <2> QED BY <2>3, <2>4 DEF Opened, Crypto!Ready
<1>8. /\ HeadCommits' /\ (committing => Head(txs') = Head(txs))
      /\ \A k \in ItemKeys : Crypto!Found(k)' = Crypto!Found(k)
  <2>1. txs' = txs \/ \E u : txs' = Append(txs, u) OBVIOUS
  <2>2. DOMAIN calls \subseteq DOMAIN calls' OBVIOUS
  <2> QED BY <2>1, <2>2, HeadKept
<1> QED BY <1>2, <1>5, <1>6, <1>7, <1>8

LEMMA EncryptedKeeps ==
  ASSUME CryptoInv, Opened, NEW i \in DOMAIN calls, Crypto!Encrypted(i)
  PROVE  CryptoInv'
<1>1. Shape /\ HeadCommits BY DEF CryptoInv
<1>2. calls[i].stage \in {"encrypts", "encrypts the sentinel", "encrypts the sentinel again"}
  BY DEF Crypto!Encrypted, Crypto!Encrypting
<1>3. i # 1 /\ CallFits(calls[i])
  <2>1. i # 1 BY <1>2 DEF Opened, Crypto!Ready
  <2> QED BY <2>1 DEF Opened, CallsFit
<1>4. \/ /\ calls[i].kind = "set" /\ calls[i].stage = "encrypts"
         /\ calls[i].item \in ItemKeys /\ calls[i].value \in Values
      \/ /\ calls[i].kind \in {"clear", "sweep"} /\ calls[i].stage = "encrypts the sentinel"
         /\ calls[i].item = Sentinel
  BY <1>2, <1>3 DEF CallFits, Crypto!Over
<1>5. PICK v, t : v = Crypto!ToEncrypt(i) /\ t = Crypto!Tx(i, "put", calls[i].item,
      Crypto!Cipher(v, key)) OBVIOUS
<1>6. \/ calls[i].kind = "set" /\ v = calls[i].value
      \/ calls[i].kind \in {"clear", "sweep"} /\ v = Sentinel
  BY <1>4, <1>5 DEF Crypto!ToEncrypt
<1>7. /\ t.by = i /\ t.op = "put" /\ t.item = calls[i].item /\ t.cipher = Crypto!Cipher(v, key)
  BY <1>5, TxFields
<1>8. t \in CryptoTxs
  <2>1. i \in Nat BY <1>1 DEF Shape
  <2>2. Crypto!Cipher(v, key) \in Crypto!Ciphers
    BY <1>4, <1>6 DEF Crypto!Cipher, Crypto!Ciphers, Opened
  <2>3. calls[i].item \in Crypto!Names BY <1>4 DEF Crypto!Names
  <2> QED BY <1>5, <2>1, <2>2, <2>3 DEF Crypto!Tx, CryptoTxs, Ops
<1>9. txs' = Append(txs, t) /\ UNCHANGED <<key, keyPromise, inner, table, committing, latest>>
  BY <1>5 DEF Crypto!Encrypted, Crypto!session
<1>10. Crypto!AfterEncryption(i) = "writes" /\ Crypto!Stage(i, "writes") /\ "writes" \in Stages
  <2>1. Crypto!AfterEncryption(i) = "writes" BY <1>4 DEF Crypto!AfterEncryption
  <2> QED BY <2>1 DEF Crypto!Encrypted, Stages, OpeningStages
<1>11. /\ calls' \in Seq(CallRecords) /\ DOMAIN calls' = DOMAIN calls
       /\ \A l \in DOMAIN calls \ {i} : calls'[l] = calls[l]
       /\ calls'[i].stage = "writes" /\ calls'[i].kind = calls[i].kind
       /\ calls'[i].item = calls[i].item /\ calls'[i].value = calls[i].value
       /\ calls'[i].before = calls[i].before
  BY <1>1, <1>10, StageFacts
<1>12. CallFits(calls'[i]) BY <1>3, <1>4, <1>11, FitsAfter
<1>13. TxFits(t, calls'[i]) BY <1>4, <1>6, <1>7, <1>11 DEF TxFits
<1>14. \A j \in DOMAIN Pending : Pending[j].by # i BY <1>2 DEF Opened, TxsFit, TxFits
<1>15. /\ txs' \in Seq(CryptoTxs) /\ CallsFit' /\ TxsFit'
       /\ Crypto!Ready' /\ calls'[1].kind = "initialize"
       /\ HeadCommits' /\ (committing => Head(txs') = Head(txs))
       /\ \A k \in ItemKeys : Crypto!Found(k)' = Crypto!Found(k)
  BY <1>1, <1>3, <1>7, <1>8, <1>9, <1>11, <1>12, <1>13, <1>14, CallAdds
<1>16. TableFits' /\ Uniform'
  BY <1>1, <1>9, TableKept DEF Opened
<1>17. \A k \in ItemKeys : (Due(i, k)' <=> Due(i, k)) /\ Effect(i)' = Effect(i)
  BY <1>4, <1>11 DEF Due, Effect, Crypto!Over
<1>18. WritesKept'
  <2>1. \A k \in ItemKeys : latest[k] \subseteq latest'[k] BY <1>9
  <2>2. \/ ~committing'
        \/ committing /\ Head(txs') = Head(txs) /\ UNCHANGED table
    BY <1>1, <1>9, <1>15 DEF Shape
  <2> QED BY <1>1, <1>11, <1>15, <1>17, <2>1, <2>2, KeptAfter
<1>19. Shape' BY <1>1, <1>9, <1>11, <1>15, <1>16 DEF Shape
<1> QED BY <1>9, <1>15, <1>16, <1>18, <1>19 DEF CryptoInv, Opened

\* A value that cannot be encrypted rejects its call: what it superseded may stay.
LEMMA EncryptionFailKeeps ==
  ASSUME CryptoInv, Opened, NEW i \in DOMAIN calls, Crypto!EncryptionFails(i)
  PROVE  CryptoInv'
<1>1. Shape /\ HeadCommits BY DEF CryptoInv
<1>2. calls[i].stage \in {"encrypts", "encrypts the sentinel", "encrypts the sentinel again"}
  BY DEF Crypto!EncryptionFails, Crypto!Encrypting
<1>3. i # 1 /\ CallFits(calls[i]) /\ calls[i] \in CallRecords
  <2>1. i # 1 BY <1>2 DEF Opened, Crypto!Ready
  <2>2. calls \in Seq(CallRecords) BY <1>1 DEF Shape
  <2> QED BY <2>1, <2>2 DEF Opened, CallsFit
<1>4. calls[i].kind \in {"set", "clear", "sweep"} BY <1>2, <1>3 DEF CallFits, Crypto!Over
<1>5. /\ Crypto!Stage(i, "rejected") /\ "rejected" \in Stages
      /\ UNCHANGED <<key, keyPromise, inner, table, txs, committing>>
  BY DEF Crypto!EncryptionFails, Crypto!session, Stages, OpeningStages
<1>6. PICK K : K = (IF calls[i].kind = "set" THEN {calls[i].item} ELSE {}) OBVIOUS
<1>7. latest' = [k \in ItemKeys |-> IF k \in K THEN latest[k] \cup calls[i].before[k] ELSE latest[k]]
  BY <1>6 DEF Crypto!EncryptionFails, Crypto!GivesBack
<1>8. /\ latest' \in [ItemKeys -> SUBSET (Values \cup {Nothing})]
      /\ \A k \in ItemKeys : latest[k] \subseteq latest'[k]
      /\ \A k \in ItemKeys : k \in K => calls[i].before[k] \subseteq latest'[k]
  <2>1. latest \in [ItemKeys -> SUBSET (Values \cup {Nothing})] BY <1>1 DEF Shape
  <2> QED BY <1>3, <1>7, <2>1 DEF CallRecords
<1>9. /\ calls' \in Seq(CallRecords) /\ DOMAIN calls' = DOMAIN calls
      /\ \A l \in DOMAIN calls \ {i} : calls'[l] = calls[l]
      /\ calls'[i].stage = "rejected" /\ calls'[i].kind = calls[i].kind
      /\ calls'[i].item = calls[i].item /\ calls'[i].value = calls[i].value
      /\ calls'[i].before = calls[i].before
  BY <1>1, <1>5, StageFacts
<1>10. CallFits(calls'[i]) BY <1>3, <1>9, FitsAfter DEF Crypto!Over
<1>11. \A j \in DOMAIN Pending : Pending[j].by # i BY <1>2 DEF Opened, TxsFit, TxFits
<1>12. PICK t : t = Crypto!Tx(1, "read", Sentinel, Nothing) OBVIOUS
<1>13. t \in CryptoTxs BY <1>12 DEF Crypto!Tx, CryptoTxs, Crypto!Names, Ops
<1>14. /\ txs' \in Seq(CryptoTxs) /\ CallsFit' /\ TxsFit'
       /\ Crypto!Ready' /\ calls'[1].kind = "initialize"
       /\ HeadCommits' /\ (committing => Head(txs') = Head(txs))
       /\ \A k \in ItemKeys : Crypto!Found(k)' = Crypto!Found(k)
  BY <1>1, <1>3, <1>5, <1>9, <1>10, <1>11, <1>13, CallAdds
<1>15. TableFits' /\ Uniform' BY <1>1, <1>5, TableKept DEF Opened
<1>16. \A k \in ItemKeys : ~Due(i, k)' BY <1>9 DEF Due, Crypto!Over
<1>17. \A k \in ItemKeys : Due(i, k) => calls[i].before[k] \subseteq latest'[k]
  BY <1>2, <1>4, <1>6, <1>8 DEF Due
<1>18. WritesKept'
  <2>1. \/ ~committing'
        \/ committing /\ Head(txs') = Head(txs) /\ UNCHANGED table
    BY <1>1, <1>5, <1>14 DEF Shape
  <2> QED BY <1>1, <1>8, <1>9, <1>14, <1>16, <1>17, <2>1, KeptAfter
<1>19. Shape' BY <1>1, <1>5, <1>8, <1>9, <1>14, <1>15 DEF Shape
<1> QED BY <1>5, <1>14, <1>15, <1>18, <1>19 DEF CryptoInv, Opened

\* A call that begins: K are the keys it writes, and v what it leaves there.
LEMMA CallKeeps ==
  ASSUME CryptoInv, Opened, NEW c \in CallRecords, CallFits(c), c.stage \notin Crypto!Over,
         c.before = latest, calls' = Append(calls, c), NEW t \in CryptoTxs,
         txs' = txs \/ (txs' = Append(txs, t) /\ t.by = Len(calls) + 1 /\ TxFits(t, c)),
         UNCHANGED <<Crypto!session, table, committing>>,
         NEW K \in SUBSET ItemKeys, NEW v \in Values \cup {Nothing}, Crypto!Supersede(K, v),
         \/ c.kind \in {"get", "sweep"} /\ K = {}
         \/ c.kind = "set" /\ K = {c.item} /\ v = c.value
         \/ c.kind = "remove" /\ K = {c.item} /\ v = Nothing
         \/ c.kind = "clear" /\ c.stage = "clears" /\ K = ItemKeys /\ v = Nothing
  PROVE  CryptoInv'
<1>1. Shape /\ HeadCommits BY DEF CryptoInv
<1>2. calls \in Seq(CallRecords) /\ txs \in Seq(CryptoTxs) /\ Len(calls) \in Nat /\ Len(calls) # 0
  <2>1. calls # <<>> BY DEF Opened, Crypto!Ready
  <2>2. calls \in Seq(CallRecords) /\ txs \in Seq(CryptoTxs) BY <1>1 DEF Shape
  <2> QED BY <2>1, <2>2
<1>3. PICK i \in Nat : i = Len(calls) + 1 BY <1>2
<1>4. /\ calls' \in Seq(CallRecords) /\ DOMAIN calls' = DOMAIN calls \cup {i} /\ calls'[i] = c
      /\ i \notin DOMAIN calls /\ i # 1
      /\ \A l \in DOMAIN calls : calls'[l] = calls[l]
  BY <1>2, <1>3
<1>5. \A j \in DOMAIN Pending : Pending[j].by # i BY <1>4 DEF Opened, TxsFit
<1>6. UNCHANGED <<key, keyPromise, inner, table, committing>> BY DEF Crypto!session
<1>7. /\ txs' \in Seq(CryptoTxs) /\ CallsFit' /\ TxsFit'
      /\ Crypto!Ready' /\ calls'[1].kind = "initialize"
      /\ HeadCommits' /\ (committing => Head(txs') = Head(txs))
      /\ \A k \in ItemKeys : Crypto!Found(k)' = Crypto!Found(k)
  BY <1>1, <1>3, <1>4, <1>5, <1>6, CallAdds
<1>8. TableFits' /\ Uniform' /\ \A k \in ItemKeys : Crypto!Plain(k)' = Crypto!Plain(k)
  BY <1>1, <1>6, TableKept DEF Opened
<1>9. latest' = [k \in ItemKeys |-> IF k \notin K THEN latest[k]
                                   ELSE IF Crypto!Writing(k) THEN latest[k] \cup {v} ELSE {v}]
  BY DEF Crypto!Supersede
<1>10. latest \in [ItemKeys -> SUBSET (Values \cup {Nothing})] BY <1>1 DEF Shape
<1>11. /\ latest' \in [ItemKeys -> SUBSET (Values \cup {Nothing})]
       /\ \A k \in ItemKeys : k \notin K => latest'[k] = latest[k]
       /\ \A k \in ItemKeys : Crypto!Writing(k) => latest[k] \subseteq latest'[k]
       /\ \A k \in K : v \in latest'[k]
  BY <1>9, <1>10
<1>12. Shape' BY <1>1, <1>4, <1>6, <1>7, <1>8, <1>11 DEF Shape
<1>13. \A k \in ItemKeys : (Due(i, k)' <=> k \in K) /\ (k \in K => Effect(i)' = v)
  BY <1>4 DEF Due, Effect, Crypto!Over
<1>14. \A l \in DOMAIN calls, k \in ItemKeys :
         (Due(l, k)' <=> Due(l, k)) /\ Effect(l)' = Effect(l) /\ (Due(l, k) => Crypto!Writing(k))
  BY <1>4 DEF Due, Effect, Crypto!Writing, Crypto!Over
<1>15. ASSUME NEW k \in ItemKeys, NEW v0, Left(k, v0)
       PROVE  v0 \in latest'[k] \/ \E l \in DOMAIN calls' : Due(l, k)' /\ v0 \in calls'[l].before[k]
  <2>1. CASE \E l \in DOMAIN calls : Due(l, k) /\ v0 \in calls[l].before[k] BY <2>1, <1>4, <1>14
  <2>2. CASE v0 \in latest[k] /\ (k \notin K \/ Crypto!Writing(k)) BY <2>2, <1>11
  <2>3. CASE v0 \in latest[k] /\ k \in K BY <2>3, <1>4, <1>13
  <2> QED BY <1>15, <2>1, <2>2, <2>3 DEF Left
<1>16. WritesKept'
  <2> SUFFICES ASSUME NEW k \in ItemKeys
               PROVE  /\ Left(k, Crypto!Found(k))'
                      /\ \A l \in DOMAIN calls' : Due(l, k)' => Effect(l)' \in latest'[k]
                      /\ committing' /\ Head(txs').item = k =>
                           \/ Left(k, Crypto!Plain(k))'
                           \/ Crypto!Plain(k)' \in calls'[Head(txs').by].before[k]
    BY DEF WritesKept
  <2>1. /\ Left(k, Crypto!Found(k))
        /\ \A l \in DOMAIN calls : Due(l, k) => Effect(l) \in latest[k]
        /\ committing /\ Head(txs).item = k =>
             Left(k, Crypto!Plain(k)) \/ Crypto!Plain(k) \in calls[Head(txs).by].before[k]
    BY DEF Opened, WritesKept
  <2>2. Left(k, Crypto!Found(k))'
    <3>1. PICK v0 : v0 = Crypto!Found(k) OBVIOUS
    <3>2. v0 \in latest'[k] \/ \E l \in DOMAIN calls' : Due(l, k)' /\ v0 \in calls'[l].before[k]
      BY <1>15, <2>1, <3>1
    <3>3. Crypto!Found(k)' = v0 BY <1>7, <3>1
    <3> QED BY <3>2, <3>3 DEF Left
  <2>3. \A l \in DOMAIN calls' : Due(l, k)' => Effect(l)' \in latest'[k]
    BY <1>4, <1>11, <1>13, <1>14, <2>1
  <2>4. ASSUME committing', Head(txs').item = k
        PROVE  \/ Left(k, Crypto!Plain(k))'
               \/ Crypto!Plain(k)' \in calls'[Head(txs').by].before[k]
    <3>1. PICK v0 : v0 = Crypto!Plain(k) OBVIOUS
    <3>2. Crypto!Plain(k)' = v0 BY <1>8, <3>1
    <3>3. committing /\ Head(txs') = Head(txs) BY <1>6, <1>7, <2>4
    <3>4. Left(k, v0) \/ v0 \in calls[Head(txs).by].before[k] BY <2>1, <2>4, <3>1, <3>3
    <3>5. calls'[Head(txs').by] = calls[Head(txs).by]
      BY <1>1, <1>4, <3>3 DEF HeadCommits
    <3>6. Left(k, v0) => v0 \in latest'[k] \/ \E l \in DOMAIN calls' : Due(l, k)' /\ v0 \in calls'[l].before[k]
      BY <1>15
    <3> QED BY <3>2, <3>4, <3>5, <3>6 DEF Left
  <2> QED BY <2>2, <2>3, <2>4
<1> QED BY <1>6, <1>7, <1>8, <1>12, <1>16 DEF CryptoInv, Opened

LEMMA ReadyOpened ==
  ASSUME CryptoInv, Crypto!Ready
  PROVE  Opened
<1>1. ~Unopened BY DEF Unopened, Crypto!Ready
<1>2. ~Opening BY DEF Opening, OpeningStages, Crypto!Ready
<1> QED BY <1>1, <1>2 DEF CryptoInv

LEMMA ClientKeeps ==
  ASSUME CryptoInv, Crypto!Client
  PROVE  CryptoInv'
<1>1. Crypto!Ready /\ Shape
  BY DEF CryptoInv, Crypto!Client, Crypto!GetItems, Crypto!SetItems, Crypto!RemoveItems,
     Crypto!Clear, Crypto!Sweep, Crypto!May
<1>2. Opened BY <1>1, ReadyOpened
<1>3. calls \in Seq(CallRecords) /\ txs \in Seq(CryptoTxs) /\ Crypto!Id = Len(calls) + 1 /\ Crypto!Id \in Nat
  BY <1>1 DEF Shape, Crypto!Id
<1>0. latest \in [ItemKeys -> SUBSET (Values \cup {Nothing})] BY <1>1 DEF Shape
<1>4. \A t : txs \o <<t>> = Append(txs, t) BY <1>3
<1>5. txs \o <<>> = txs BY <1>3
<1>6. latest' = latest => \A v : Crypto!Supersede({}, v)
  BY <1>1 DEF Crypto!Supersede, Shape
<1>7. ASSUME NEW k \in ItemKeys, Crypto!GetItems(k) PROVE CryptoInv'
  <2> DEFINE c == Crypto!Call("get", k, Nothing, "reads")
             t == Crypto!Tx(Crypto!Id, "read", k, Nothing)
  <2>1. c \in CallRecords /\ c.kind = "get" /\ c.stage = "reads" /\ c.before = latest
    BY <1>0 DEF Crypto!Call, CallRecords, Kinds, Crypto!Names, Stages, OpeningStages
  <2>2. t \in CryptoTxs /\ t.by = Crypto!Id /\ t.op = "read"
    BY <1>3 DEF Crypto!Tx, CryptoTxs, Ops, Crypto!Names
  <2>3. /\ calls' = Append(calls, c) /\ txs' = Append(txs, t)
        /\ UNCHANGED <<Crypto!session, table, committing>> /\ latest' = latest
    BY <1>4, <1>7 DEF Crypto!GetItems, Crypto!Starts
  <2> HIDE DEF c, t
  <2>4. CallFits(c) /\ TxFits(t, c) /\ c.stage \notin Crypto!Over
    BY <2>1, <2>2 DEF CallFits, TxFits, Crypto!Over
  <2> QED BY <1>2, <1>3, <1>6, <2>1, <2>2, <2>3, <2>4, CallKeeps
<1>8. ASSUME NEW k \in ItemKeys, NEW v \in Values, Crypto!SetItems(k, v) PROVE CryptoInv'
  <2> DEFINE c == Crypto!Call("set", k, v, "encrypts")
             t == Crypto!Tx(Crypto!Id, "read", k, Nothing)
  <2>1. c \in CallRecords /\ c.kind = "set" /\ c.stage = "encrypts" /\ c.item = k /\ c.value = v /\ c.before = latest
    BY <1>0 DEF Crypto!Call, CallRecords, Kinds, Crypto!Names, Stages
  <2>2. t \in CryptoTxs BY <1>3 DEF Crypto!Tx, CryptoTxs, Ops, Crypto!Names
  <2>3. /\ calls' = Append(calls, c) /\ txs' = txs /\ UNCHANGED <<Crypto!session, table, committing>>
        /\ Crypto!Supersede({k}, v)
    BY <1>5, <1>8 DEF Crypto!SetItems, Crypto!Starts
  <2> HIDE DEF c, t
  <2>4. CallFits(c) /\ c.stage \notin Crypto!Over BY <2>1 DEF CallFits, Crypto!Over
  <2> QED BY <1>2, <2>1, <2>2, <2>3, <2>4, CallKeeps
<1>9. ASSUME NEW k \in ItemKeys, Crypto!RemoveItems(k) PROVE CryptoInv'
  <2> DEFINE c == Crypto!Call("remove", k, Nothing, "writes")
             t == Crypto!Tx(Crypto!Id, "remove", k, Nothing)
  <2>1. c \in CallRecords /\ c.kind = "remove" /\ c.stage = "writes" /\ c.item = k /\ c.before = latest
    BY <1>0 DEF Crypto!Call, CallRecords, Kinds, Crypto!Names, Stages, OpeningStages
  <2>2. t \in CryptoTxs /\ t.by = Crypto!Id /\ t.op = "remove" /\ t.item = k /\ t.cipher = Nothing
    BY <1>3 DEF Crypto!Tx, CryptoTxs, Ops, Crypto!Names
  <2>3. /\ calls' = Append(calls, c) /\ txs' = Append(txs, t) /\ UNCHANGED <<Crypto!session, table, committing>>
        /\ Crypto!Supersede({k}, Nothing)
    BY <1>4, <1>9 DEF Crypto!RemoveItems, Crypto!Starts
  <2> HIDE DEF c, t
  <2>4. CallFits(c) /\ TxFits(t, c) /\ c.stage \notin Crypto!Over
    BY <2>1, <2>2 DEF CallFits, TxFits, Crypto!Over
  <2> QED BY <1>2, <1>3, <2>1, <2>2, <2>3, <2>4, CallKeeps
<1>10. ASSUME Crypto!Clear PROVE CryptoInv'
  <2> DEFINE c == Crypto!Call("clear", Sentinel, Sentinel, "clears")
             t == Crypto!Tx(Crypto!Id, "clear", Sentinel, Nothing)
  <2>1. c \in CallRecords /\ c.kind = "clear" /\ c.stage = "clears" /\ c.item = Sentinel /\ c.before = latest
    BY <1>0 DEF Crypto!Call, CallRecords, Kinds, Crypto!Names, Stages
  <2>2. t \in CryptoTxs /\ t.by = Crypto!Id /\ t.op = "clear"
    BY <1>3 DEF Crypto!Tx, CryptoTxs, Ops, Crypto!Names
  <2>3. /\ calls' = Append(calls, c) /\ txs' = Append(txs, t) /\ UNCHANGED <<Crypto!session, table, committing>>
        /\ Crypto!Supersede(ItemKeys, Nothing)
    BY <1>4, <1>10 DEF Crypto!Clear, Crypto!Starts
  <2> HIDE DEF c, t
  <2>4. CallFits(c) /\ TxFits(t, c) /\ c.stage \notin Crypto!Over
    BY <2>1, <2>2 DEF CallFits, TxFits, Crypto!Over
  <2> QED BY <1>2, <1>3, <2>1, <2>2, <2>3, <2>4, CallKeeps
<1>11. ASSUME Crypto!Sweep PROVE CryptoInv'
  <2> DEFINE c == Crypto!Call("sweep", Sentinel, Sentinel, "clears")
             t == Crypto!Tx(Crypto!Id, "sweep", Sentinel, Nothing)
  <2>1. c \in CallRecords /\ c.kind = "sweep" /\ c.stage = "clears" /\ c.item = Sentinel /\ c.before = latest
    BY <1>0 DEF Crypto!Call, CallRecords, Kinds, Crypto!Names, Stages
  <2>2. t \in CryptoTxs /\ t.by = Crypto!Id /\ t.op = "sweep"
    BY <1>3 DEF Crypto!Tx, CryptoTxs, Ops, Crypto!Names
  <2>3. /\ calls' = Append(calls, c) /\ txs' = Append(txs, t) /\ UNCHANGED <<Crypto!session, table, committing>>
        /\ latest' = latest
    BY <1>4, <1>11 DEF Crypto!Sweep, Crypto!Starts
  <2> HIDE DEF c, t
  <2>4. CallFits(c) /\ TxFits(t, c) /\ c.stage \notin Crypto!Over
    BY <2>1, <2>2 DEF CallFits, TxFits, Crypto!Over
  <2> QED BY <1>2, <1>3, <1>6, <2>1, <2>2, <2>3, <2>4, CallKeeps
<1> QED BY <1>7, <1>8, <1>9, <1>10, <1>11 DEF Crypto!Client

--------------------------------------------------------------------------------
(* The adapter that encrypts: every step                                   *)

LEMMA TransactionKeeps ==
  ASSUME Distinct, CryptoInv, Crypto!Transaction
  PROVE  CryptoInv'
<1>1. CASE Crypto!WriteCommits BY <1>1, CommitKeeps
<1>2. CASE Crypto!AbortsAnswered BY <1>2, AbortKeeps
<1>3. CASE \/ Crypto!ReadRuns \/ Crypto!WriteSucceeds \/ Crypto!ClearRuns \/ Crypto!SweepRuns
           \/ Crypto!Fails
  <2>1. txs # <<>> /\ ~committing
    BY <1>3 DEF Crypto!ReadRuns, Crypto!WriteSucceeds, Crypto!ClearRuns, Crypto!SweepRuns,
       Crypto!Runs, Crypto!Fails
  <2>2. CASE Opened
    BY <1>3, <2>2, ReadKeeps, WriteKeeps, ClearKeeps, SweepKeeps, FailKeeps
  <2>3. CASE Opening
    <3>1. Head(txs).op \in {"read", "clear", "put"} BY <2>1, <2>3, OwnHead
    <3>2. ~Crypto!SweepRuns BY <3>1 DEF Crypto!SweepRuns, Crypto!Runs
    <3> QED
      BY <1>3, <2>3, <3>2, FirstReadKeeps, FirstWriteKeeps, FirstClearKeeps, FirstFailKeeps
  <2> QED BY <2>1, <2>2, <2>3 DEF CryptoInv, Unopened
<1> QED BY <1>1, <1>2, <1>3 DEF Crypto!Transaction

LEMMA ReloadKeeps ==
  ASSUME CryptoInv, Crypto!Reload
  PROVE  CryptoInv'
<1>1. Shape BY DEF CryptoInv
<1>2. /\ keyPromise' = "unset" /\ key' = Crypto!NoKey /\ inner' = "unset" /\ txs' = <<>> /\ calls' = <<>>
      /\ committing' = FALSE /\ latest' = Anything /\ UNCHANGED table
  BY DEF Crypto!Reload, Anything
<1>3. TableFits' BY <1>1, <1>2, TableKept
<1>4. Shape'
  <2>1. committing' \in BOOLEAN BY <1>2
  <2>2. calls' \in Seq(CallRecords) /\ txs' \in Seq(CryptoTxs) BY <1>2
  <2>3. latest' \in [ItemKeys -> SUBSET (Values \cup {Nothing})] BY <1>2 DEF Anything
  <2> QED BY <1>2, <1>3, <2>1, <2>2, <2>3 DEF Shape
<1>5. Unopened' /\ HeadCommits' BY <1>2 DEF Unopened, HeadCommits, Anything
<1> QED BY <1>4, <1>5 DEF CryptoInv

LEMMA NextIInv == Distinct /\ CryptoInv /\ [Crypto!Next]_(Crypto!vars) => CryptoInv'
<1> SUFFICES ASSUME Distinct, CryptoInv, [Crypto!Next]_(Crypto!vars) PROVE CryptoInv'
  OBVIOUS
<1>0. Shape BY DEF CryptoInv
<1>1. ASSUME Crypto!SetKey \/ Crypto!KeyImport \/ Crypto!DatabaseOpens PROVE CryptoInv'
  <2>1. UNCHANGED <<key, table, txs, committing, calls, latest>>
    BY <1>1
       DEF Crypto!SetKey, Crypto!KeyImport, Crypto!ImportKey, Crypto!DatabaseOpens, Crypto!InnerOpens
  <2>2. keyPromise' \in {"unset", "importing", "rejected"} \cup CryptoKeys
    BY <1>0, <1>1 DEF Shape, Crypto!SetKey, Crypto!KeyImport, Crypto!ImportKey,
       Crypto!DatabaseOpens, Crypto!InnerOpens
  <2>3. inner' \in {"unset", "opening", "open", "failed"}
    BY <1>0, <1>1 DEF Shape, Crypto!SetKey, Crypto!KeyImport, Crypto!ImportKey,
       Crypto!DatabaseOpens, Crypto!InnerOpens
  <2> QED BY <2>1, <2>2, <2>3, OthersKeep
<1>2. ASSUME NEW i \in DOMAIN calls, Crypto!Encryption(i) PROVE CryptoInv'
  <2>1. CASE Opened
    BY <1>2, <2>1, EncryptedKeeps, EncryptionFailKeeps DEF Crypto!Encryption
  <2>2. CASE Opening
    <3>1. calls # <<>> /\ Len(calls) = 1
      <4>1. Len(calls) = 1 BY <2>2 DEF Opening
      <4> QED BY <4>1
    <3>2. i = 1 BY <1>0, <3>1, FirstFacts
    <3> QED
      BY <1>2, <2>2, <3>2, FirstEncryptedKeeps, FirstEncryptionFails DEF Crypto!Encryption
  <2>3. CASE Unopened BY <2>3 DEF Unopened
  <2> QED BY <2>1, <2>2, <2>3 DEF CryptoInv
<1>3. ASSUME NEW n \in Crypto!Names, Crypto!AdapterEvicts(n) PROVE CryptoInv'
  <2>1. Crypto!Ready BY <1>3 DEF Crypto!AdapterEvicts
  <2>2. Opened BY <2>1, ReadyOpened
  <2> QED BY <1>3, <2>2, EvictKeeps
<1>4. CASE UNCHANGED Crypto!vars BY <1>0, <1>4, OthersKeep DEF Crypto!vars, Shape
<1> QED
  BY <1>1, <1>2, <1>3, <1>4, InitializeKeeps, WaitsKeep, ClientKeeps, TransactionKeeps,
     ReloadKeeps DEF Crypto!Next

--------------------------------------------------------------------------------
(* The adapter that encrypts: theorems                                     *)

\* The invariant that the others rest on: initialize() is at a stage with
\* the one transaction it waits for, or has resolved and left a table of one
\* key, where every write that is not superseded is in the table or due.
THEOREM CryptoIInv == ASSUME Distinct PROVE Crypto!Spec => []CryptoInv
<1>1. Crypto!Init => CryptoInv BY InitIInv
<1>2. CryptoInv /\ [Crypto!Next]_(Crypto!vars) => CryptoInv' BY NextIInv
<1> QED BY <1>1, <1>2, PTL DEF Crypto!Spec

\* The types of all variables.
THEOREM CryptoTypeOK == ASSUME Distinct PROVE Crypto!Spec => []Crypto!TypeOK
<1>1. CryptoInv => Crypto!TypeOK
  <2> SUFFICES ASSUME CryptoInv PROVE Crypto!TypeOK
    OBVIOUS
  <2>1. Shape BY DEF CryptoInv
  <2>2. \A i \in DOMAIN txs : txs[i] \in CryptoTxs BY <2>1 DEF Shape
  <2>3. \A i \in DOMAIN calls : calls[i] \in CallRecords BY <2>1 DEF Shape
  <2>4. \A i \in DOMAIN txs : txs[i].by \in DOMAIN calls
    <3>4. (\A j \in DOMAIN Pending : Pending[j].by \in DOMAIN calls) =>
            \A j \in DOMAIN txs : txs[j].by \in DOMAIN calls
      <4>1. txs \in Seq(CryptoTxs) BY <2>1 DEF Shape
      <4>2. CASE ~committing BY <4>2 DEF Pending
      <4>3. CASE committing
        <5>1. txs # <<>> /\ Head(txs).by \in DOMAIN calls BY <4>3 DEF CryptoInv, HeadCommits
        <5>2. Pending = Tail(txs) BY <4>3 DEF Pending
        <5>3. \A j \in DOMAIN txs : j = 1 \/ (j - 1 \in DOMAIN Tail(txs) /\ Tail(txs)[j - 1] = txs[j])
          BY <4>1, <5>1
        <5>4. Head(txs) = txs[1] BY <4>1, <5>1
        <5> QED BY <5>1, <5>2, <5>3, <5>4
      <4> QED BY <4>2, <4>3
    <3>1. CASE Unopened BY <3>1 DEF Unopened
    <3>2. CASE Opening
      <4>1. calls # <<>>
        <5>1. Len(calls) = 1 BY <3>2 DEF Opening
        <5> QED BY <5>1
      <4>2. 1 \in DOMAIN calls BY <2>1, <4>1, FirstFacts
      <4>3. \A j \in DOMAIN Pending : Pending[j].by = 1
        <5>1. Pending = OwnTxs(calls[1].stage, key) BY <3>2 DEF Opening
        <5>2. PICK r, c, w : /\ r = Crypto!Tx(1, "read", Sentinel, Nothing)
                             /\ c = Crypto!Tx(1, "clear", Sentinel, Nothing)
                             /\ w = Crypto!Tx(1, "put", Sentinel, Crypto!Cipher(Sentinel, key))
          OBVIOUS
        <5>3. r.by = 1 /\ c.by = 1 /\ w.by = 1 BY <5>2, TxFields
        <5>4. Pending \in {<<r>>, <<c>>, <<w>>, <<>>} BY <5>1, <5>2 DEF OwnTxs
        <5> QED BY <5>3, <5>4
      <4> QED BY <4>2, <4>3, <3>4
    <3>3. CASE Opened BY <3>3, <3>4 DEF Opened, TxsFit
    <3> QED BY <3>1, <3>2, <3>3 DEF CryptoInv
  <2> QED BY <2>1, <2>2, <2>3, <2>4 DEF Crypto!TypeOK, Shape, TableFits, CryptoTxs, CallRecords
<1> QED BY <1>1, CryptoIInv, PTL

\* Nothing in the table is of another key once initialize() has resolved, however
\* many sessions were cut off, at whatever point, before this one.
THEOREM CryptoOneKeyInTable == ASSUME Distinct PROVE Crypto!Spec => []Crypto!OneKeyInTable
<1>1. CryptoInv => Crypto!OneKeyInTable BY ReadyOpened DEF Crypto!OneKeyInTable, Opened, Uniform
<1> QED BY <1>1, CryptoIInv, PTL

\* Writes that do not overlap take effect in the order of their calls, although
\* an answer comes before its commit, and a commit may fail after the answer.
THEOREM CryptoAnsweredWritesStay == ASSUME Distinct PROVE Crypto!Spec => []Crypto!AnsweredWritesStay
<1>1. CryptoInv => Crypto!AnsweredWritesStay
  <2> SUFFICES ASSUME CryptoInv, Crypto!Ready, NEW k \in ItemKeys
               PROVE  Crypto!Writing(k) \/ Crypto!Found(k) \in latest[k]
    BY DEF Crypto!AnsweredWritesStay
  <2>1. Left(k, Crypto!Found(k))
    BY ReadyOpened DEF Opened, WritesKept
  <2>2. \A i \in DOMAIN calls : Due(i, k) => Crypto!Writing(k)
    BY DEF Due, Crypto!Writing, Crypto!Over
  <2> QED BY <2>1, <2>2 DEF Left
<1> QED BY <1>1, CryptoIInv, PTL

LEMMA CryptoIsDistinct == Distinct
BY CryptoAssumption DEF Distinct

--------------------------------------------------------------------------------
(* The three together                                                      *)

(* A behaviour of the three is one of each.                                *)
LEMMA EachIsOne == SafeSpec => Spec /\ Size!Spec /\ Crypto!Spec
<1>1. InitAll => Init /\ Size!Init /\ Crypto!Init
  BY DEF InitAll
<1>2. [NextAll]_all => [Next]_vars
  BY DEF NextAll, all, Opens, Weighs, Encrypts
<1>3. [NextAll]_all => [Size!Next]_(Size!vars)
  <2>1. UNCHANGED sizeVars => UNCHANGED Size!vars
    BY DEF sizeVars, Size!vars, Size!estimate, Size!history
  <2> QED BY <2>1 DEF NextAll, all, Opens, Weighs, Encrypts
<1>4. [NextAll]_all => [Crypto!Next]_(Crypto!vars)
  <2>1. UNCHANGED cryptoVars => UNCHANGED Crypto!vars
    BY DEF cryptoVars, Crypto!vars
  <2> QED BY <2>1 DEF NextAll, all, Opens, Weighs, Encrypts
<1> QED BY <1>1, <1>2, <1>3, <1>4, PTL DEF SafeSpec, Spec, Size!Spec, Crypto!Spec

(* A sweep brings the table below the high-water mark, whatever the guess
   was when it began, and a fresh guess is exact unless the code misled
   itself: for all sizes and marks, however many calls are made, in whatever
   order their transactions follow, and whichever of them fail. *)
THEOREM AdaptersEstimateIsSound == SafeSpec => []EstimateIsSound
<1>1. SizeIInv => EstimateIsSound BY SizeIsSafe DEF EstimateIsSound
<1> QED BY <1>1, EachIsOne, SizeInit, SizeStep, PTL DEF Size!Spec

(* No adapter that opens the database makes another fail or lose its table. *)
THEOREM AdaptersOpenSafely == SafeSpec => []OpeningIsSafe
<1> QED BY EachIsOne, IndexedDBOpenIsSafe, PTL

(* Once initialize() has resolved all ciphers are of this session's key.   *)
THEOREM AdaptersOneKeyInTable == SafeSpec => []OneKeyInTable
<1>1. Crypto!Spec => []Crypto!OneKeyInTable BY CryptoIsDistinct, CryptoOneKeyInTable
<1>2. Crypto!OneKeyInTable => OneKeyInTable BY DEF OneKeyInTable
<1> QED BY <1>1, <1>2, EachIsOne, PTL

(* A write that was answered stays until another supersedes it, unless its
   transaction aborts after the answer: then what it superseded is back, and
   nothing older. *)
THEOREM AdaptersAnsweredWritesStay == SafeSpec => []AnsweredWritesStay
<1>1. Crypto!Spec => []Crypto!AnsweredWritesStay BY CryptoIsDistinct, CryptoAnsweredWritesStay
<1>2. Crypto!AnsweredWritesStay => AnsweredWritesStay BY DEF AnsweredWritesStay
<1> QED BY <1>1, <1>2, EachIsOne, PTL

(* Every variable of the three keeps its type.                             *)
THEOREM AdaptersTypesHold == SafeSpec => []TypesHold
<1>1. Crypto!Spec => []Crypto!TypeOK BY CryptoIsDistinct, CryptoTypeOK
<1>2. SizeIInv => Size!TypeOK BY SizeIsSafe
<1>4. SafeSpec => []SizeIInv BY EachIsOne, SizeInit, SizeStep, PTL DEF Size!Spec
<1>5. TypeOK /\ SizeIInv /\ Crypto!TypeOK => TypesHold BY <1>2 DEF TypesHold
<1> QED BY <1>1, <1>4, <1>5, EachIsOne, IndexedDBOpenTypeOK, PTL
================================================================================
