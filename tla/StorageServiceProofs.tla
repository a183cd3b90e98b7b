------------------------- MODULE StorageServiceProofs --------------------------
(***************************************************************************)
(* What holds of StorageService for every set of keys and calls, however   *)
(* many requests are made and however often the page is loaded: the table  *)
(* gets the requests in their order, so that a read finds what the last    *)
(* write before it left, and sweeps never pile up.                         *)
(***************************************************************************)
EXTENDS StorageService, FiniteSetTheorems, WellFoundedInduction, TLAPS

--------------------------------------------------------------------------------
(* The invariant                                                           *)

\* Request m has changed the table or found something there.
Known(m) == requests[m].applied \/ \E k \in Keys : requests[m].result[k] # Absent

\* What a transaction of a request asks for
Asks(tx, req) ==
  \/ tx.kind = "get" /\ req.op = "get"
  \/ tx.kind = "put" /\ req.op = "set" /\ tx.keys = req.keys
  \/ tx.kind = "remove" /\ req.op = "remove" /\ tx.keys = req.keys
  \/ tx.kind = "clear" /\ req.op = "clear"
  \/ tx.kind = "drop" /\ req.op = "deleteStorage"

\* Where the initialisation is tells what may be in the table's queue and the service's.
Phases ==
  /\ initPhase \in {"opening", "readingKeys", "keysKnown", "clearing", "flipping"} => ready = "undefined"
  /\ initPhase \in {"executing", "complete"} => ready = "true"
  /\ initPhase = "failed" => ready = "false"
  /\ initPhase = "complete" => queue = <<>>
  /\ initPhase = "executing" => queue # <<>>
  /\ initPhase \in {"opening", "keysKnown", "flipping", "failed"} => txs = <<>>
  /\ initPhase = "readingKeys" => txs = <<Tx("getKeys", {}, 0)>>
  /\ initPhase = "clearing" => txs = <<Tx("initClear", Keys, 0)>>
  /\ initPhase \in {"executing", "complete"} =>
       \A i \in DOMAIN txs : txs[i].kind \notin {"getKeys", "initClear"}

\* Requests that wait are of this session, and each waits for what it asked for.
Belong ==
  /\ \A j \in DOMAIN queue : queue[j] \in DOMAIN requests /\ requests[queue[j]].session = session
  /\ \A i \in DOMAIN txs :
       IF txs[i].kind \in {"getKeys", "initClear", "sweep", "scan", "evict"} THEN txs[i].req = 0
       ELSE /\ txs[i].req \in DOMAIN requests
            /\ Asks(txs[i], requests[txs[i].req])
            /\ requests[txs[i].req].session = session

\* Each sweep is in flight once.
OneSweep ==
  /\ \A i, j \in DOMAIN txs : txs[i].kind = "sweep" /\ txs[j].kind = "sweep" => i = j
  /\ sweeping <=> \E i \in DOMAIN txs : txs[i].kind = "sweep"

\* Nothing that waits was made before something that was carried out.
AnsweredFirst ==
  \A m \in DOMAIN requests : Known(m) =>
    /\ \A i \in DOMAIN txs : txs[i].req # 0 => m < txs[i].req
    /\ \A j \in DOMAIN queue : m < queue[j]

\* The table holds what the last write left there, and reads found such.
Fresh ==
  /\ \A k \in Keys : store[k] \in {Absent, LastWrite(Len(requests) + 1, k)}
  /\ \A n \in DOMAIN requests, k \in Keys : requests[n].result[k] \in {Absent, LastWrite(n, k)}

\* When the clear of the initialisation works, nothing of an earlier session is left after it.
OwnSession ==
  ClearOnInit =>
    /\ initPhase \in {"flipping", "executing", "complete"} /\ session \notin uncleared =>
         \A k \in Stored : store[k] # Old /\ requests[store[k]].session = session
    /\ \A n \in DOMAIN requests, k \in Keys :
         LET found == requests[n].result[k]
         IN found # Absent /\ requests[n].session \notin uncleared =>
              found # Old /\ requests[found].session = requests[n].session

Shape == TypeOK /\ Len(requests) <= MaxRequests

IInv ==
  /\ Shape /\ Phases /\ Belong /\ ServedInOrder
  /\ OneSweep /\ AnsweredFirst /\ Fresh /\ OwnSession

--------------------------------------------------------------------------------
(* Lemmas                                                                  *)

LEMMA InitIInv == Init => IInv
<1> SUFFICES ASSUME Init PROVE IInv
  OBVIOUS
<1>0. MaxRequests \in Nat /\ MaxReloads \in Nat BY BoundsAssumption
<1>1. txs = <<>> /\ queue = <<>> /\ requests = <<>> /\ initPhase = "opening" BY DEF Init
<1>2. store \in [Keys -> {Absent, Old}] /\ expired \in SUBSET Stored BY DEF Init
<1>3. Shape
  <2>1. store \in [Keys -> Contents] BY <1>2 DEF Contents
  <2>2. queue \in Seq(1 .. MaxRequests) /\ txs \in Seq(Transactions) /\ requests \in Seq(Requests)
    BY <1>1
  <2>3. session \in 0 .. MaxReloads /\ Len(requests) <= MaxRequests BY <1>0, <1>1 DEF Init
  <2> QED BY <1>2, <2>1, <2>2, <2>3 DEF Init, Shape, TypeOK, InitPhases
<1>4. Phases BY <1>1 DEF Init, Phases
<1>5. Belong /\ ServedInOrder /\ OneSweep /\ AnsweredFirst
  BY <1>1 DEF Init, Belong, ServedInOrder, OneSweep, AnsweredFirst
<1>6. Fresh
  <2>1. Len(requests) = 0 /\ DOMAIN requests = {} BY <1>1
  <2>2. \A k \in Keys : LastWrite(Len(requests) + 1, k) = Old BY <2>1 DEF LastWrite
  <2> QED BY <1>2, <2>1, <2>2 DEF Fresh
<1>7. OwnSession BY <1>1 DEF OwnSession
<1> QED BY <1>3, <1>4, <1>5, <1>6, <1>7 DEF IInv

\* One request gets another status.
LEMMA RequestSet ==
  ASSUME Shape, NEW n \in DOMAIN requests, NEW r \in Requests,
         r.op = requests[n].op, r.keys = requests[n].keys, r.session = requests[n].session,
         requests' = [requests EXCEPT ![n] = r]
  PROVE  /\ requests' \in Seq(Requests) /\ DOMAIN requests' = DOMAIN requests
         /\ Len(requests') = Len(requests) /\ requests'[n] = r
         /\ \A m \in DOMAIN requests : /\ requests'[m].op = requests[m].op
                                       /\ requests'[m].keys = requests[m].keys
                                       /\ requests'[m].session = requests[m].session
         /\ \A m \in DOMAIN requests \ {n} : requests'[m] = requests[m]
<1>1. requests \in Seq(Requests) BY DEF Shape, TypeOK
<1> QED BY <1>1

LEMMA SettleFacts ==
  ASSUME Shape, NEW n \in DOMAIN requests, NEW s \in {"pending", "resolved", "rejected", "dropped"},
         Settle(n, s)
  PROVE  /\ requests' \in Seq(Requests) /\ DOMAIN requests' = DOMAIN requests
         /\ Len(requests') = Len(requests)
         /\ \A m \in DOMAIN requests : /\ requests'[m].op = requests[m].op
                                       /\ requests'[m].keys = requests[m].keys
                                       /\ requests'[m].session = requests[m].session
                                       /\ requests'[m].applied = requests[m].applied
                                       /\ requests'[m].result = requests[m].result
<1> DEFINE r == [requests[n] EXCEPT !.status = s]
<1>1. requests \in Seq(Requests) /\ requests[n] \in Requests BY DEF Shape, TypeOK
<1>2. r \in Requests BY <1>1 DEF Requests
<1>3. /\ r.op = requests[n].op /\ r.keys = requests[n].keys /\ r.session = requests[n].session
      /\ r.applied = requests[n].applied /\ r.result = requests[n].result
  BY <1>1 DEF Requests
<1>4. requests' = [requests EXCEPT ![n] = r] BY <1>1 DEF Settle, Requests
<1> HIDE DEF r
<1> QED BY <1>2, <1>3, <1>4, RequestSet

LEMMA MaxOfNumbers ==
  ASSUME NEW n \in Nat, NEW W \in SUBSET (1 .. n - 1), W # {}
  PROVE  Max(W) \in W /\ \A x \in W : Max(W) >= x
<1> DEFINE R == {ss \in Nat \X Nat : ss[1] < ss[2]}
           D == {n - x : x \in W}
<1>1. IsWellFoundedOn(R, Nat) BY NatLessThanWellFounded, Zenon DEF OpToRel
<1>2. D \subseteq Nat /\ D # {} OBVIOUS
<1>3. PICK d \in D : \A y \in D : ~ (<<y, d>> \in R)
  <2> HIDE DEF R, D
  <2> QED BY <1>1, <1>2, WFMin
<1>4. PICK w \in W : d = n - w OBVIOUS
<1>5. ASSUME NEW x \in W PROVE w >= x
  <2>1. n - x \in D /\ n - x \in Nat /\ d \in Nat BY <1>2
  <2>2. ~ (n - x < d) BY <1>3, <2>1
  <2> QED BY <1>4, <2>1, <2>2
<1> QED BY <1>5 DEF Max

\* What a read should find rests on what was carried out before it.
LEMMA LastWriteKept ==
  ASSUME NEW n \in Nat, NEW l \in Nat,
         \A m \in 1 .. l - 1 : /\ requests'[m].op = requests[m].op
                               /\ requests'[m].keys = requests[m].keys,
         \A m \in 1 .. n - 1 : requests'[m].applied <=> (m < l /\ requests[m].applied),
         \A m \in 1 .. l - 1 : requests[m].applied => m < n
  PROVE  \A k \in Keys : LastWrite(n, k)' = LastWrite(l, k)
<1> SUFFICES ASSUME NEW k \in Keys PROVE LastWrite(n, k)' = LastWrite(l, k)
  OBVIOUS
<1> DEFINE W == {m \in 1 .. l - 1 : /\ requests[m].applied
                                    /\ requests[m].op \in {"set", "remove"} => k \in requests[m].keys}
           V == {m \in 1 .. n - 1 : /\ requests'[m].applied
                                    /\ requests'[m].op \in {"set", "remove"} => k \in requests'[m].keys}
<1>1. V = W OBVIOUS
<1>2. CASE W = {} BY <1>1, <1>2 DEF LastWrite
<1>3. CASE W # {}
  <2>1. Max(W) \in 1 .. l - 1 BY <1>3, MaxOfNumbers
  <2>2. requests'[Max(W)].op = requests[Max(W)].op BY <2>1
  <2>3. LastWrite(l, k) = IF requests[Max(W)].op = "set" THEN Max(W) ELSE Absent
    BY <1>3 DEF LastWrite
  <2>4. LastWrite(n, k)' = IF requests'[Max(V)].op = "set" THEN Max(V) ELSE Absent
    BY <1>1, <1>3 DEF LastWrite
  <2> QED BY <1>1, <2>2, <2>3, <2>4
<1> QED BY <1>2, <1>3

\* A value in the table or in an answer names the request that wrote it.
LEMMA Named ==
  ASSUME IInv
  PROVE  /\ \A k \in Keys : store[k] \in {Absent, Old} \cup DOMAIN requests
         /\ \A n \in DOMAIN requests, k \in Keys :
              requests[n].result[k] \in {Absent, Old} \cup DOMAIN requests
<1>1. requests \in Seq(Requests) /\ Fresh BY DEF IInv, Shape, TypeOK
<1>2. ASSUME NEW n \in Nat, n <= Len(requests) + 1, NEW k \in Keys
      PROVE  LastWrite(n, k) \in {Absent, Old} \cup DOMAIN requests
  <2> DEFINE W == {m \in 1 .. n - 1 : /\ requests[m].applied
                                      /\ requests[m].op \in {"set", "remove"} => k \in requests[m].keys}
  <2>1. W \in SUBSET (1 .. n - 1) /\ 1 .. n - 1 \subseteq DOMAIN requests BY <1>1, <1>2
  <2>2. W # {} => Max(W) \in DOMAIN requests
    <3> HIDE DEF W
    <3> QED BY <2>1, MaxOfNumbers
  <2> QED BY <2>2 DEF LastWrite
<1>3. Len(requests) + 1 \in Nat /\ \A n \in DOMAIN requests : n \in Nat /\ n <= Len(requests) + 1
  BY <1>1
<1>4. \A k \in Keys : store[k] \in {Absent, Old} \cup DOMAIN requests
  BY <1>1, <1>2, <1>3 DEF Fresh
<1>5. \A n \in DOMAIN requests, k \in Keys :
        requests[n].result[k] \in {Absent, Old} \cup DOMAIN requests
  BY <1>1, <1>2, <1>3 DEF Fresh
<1> QED BY <1>4, <1>5

\* The first transaction is over, and a scan may go on with an eviction and another scan.
LEMMA TailKeeps ==
  ASSUME IInv, txs # <<>>, NEW more \in Seq(Transactions), txs' = Tail(txs) \o more,
         more = <<>> \/ \A i \in DOMAIN more : more[i].kind \in {"evict", "scan"} /\ more[i].req = 0,
         DOMAIN requests' = DOMAIN requests, UNCHANGED <<queue, session, uncleared>>,
         \A m \in DOMAIN requests : /\ requests'[m].op = requests[m].op
                                    /\ requests'[m].keys = requests[m].keys
                                    /\ requests'[m].session = requests[m].session,
         \A m \in DOMAIN requests : Known(m)' => Known(m) \/ m = Head(txs).req
  PROVE  txs' \in Seq(Transactions) /\ Belong' /\ ServedInOrder' /\ AnsweredFirst'
<1>1. /\ txs \in Seq(Transactions) /\ queue \in Seq(1 .. MaxRequests) /\ requests \in Seq(Requests)
      /\ MaxRequests \in Nat
  BY BoundsAssumption DEF IInv, Shape, TypeOK
<1>2. txs' \in Seq(Transactions) BY <1>1
<1>3. \A i \in DOMAIN txs' : \/ i + 1 \in DOMAIN txs /\ txs'[i] = txs[i + 1]
                             \/ txs'[i].kind \in {"evict", "scan"} /\ txs'[i].req = 0
  BY <1>1
<1>4. Belong'
  <2>1. \A j \in DOMAIN queue' : queue'[j] \in DOMAIN requests' /\ requests'[queue'[j]].session = session'
    BY DEF IInv, Belong
  <2>2. ASSUME NEW i \in DOMAIN txs'
        PROVE  IF txs'[i].kind \in {"getKeys", "initClear", "sweep", "scan", "evict"} THEN txs'[i].req = 0
               ELSE /\ txs'[i].req \in DOMAIN requests'
                    /\ Asks(txs'[i], requests'[txs'[i].req])
                    /\ requests'[txs'[i].req].session = session'
    <3>1. CASE txs'[i].kind \in {"evict", "scan"} /\ txs'[i].req = 0 BY <3>1
    <3>2. CASE i + 1 \in DOMAIN txs /\ txs'[i] = txs[i + 1]
      BY <3>2 DEF IInv, Belong, Asks
    <3> QED BY <1>3, <3>1, <3>2
  <2> QED BY <2>1, <2>2 DEF Belong, Asks
<1>5. ServedInOrder'
  <2>1. \A i, j \in DOMAIN txs' : i < j /\ txs'[i].req # 0 /\ txs'[j].req # 0 => txs'[i].req < txs'[j].req
    <3> SUFFICES ASSUME NEW i \in DOMAIN txs', NEW j \in DOMAIN txs', i < j,
                        txs'[i].req # 0, txs'[j].req # 0
                 PROVE  txs'[i].req < txs'[j].req
      OBVIOUS
    <3>1. /\ i + 1 \in DOMAIN txs /\ txs'[i] = txs[i + 1]
          /\ j + 1 \in DOMAIN txs /\ txs'[j] = txs[j + 1]
      BY <1>3
    <3>2. i + 1 < j + 1 BY <1>2
    <3> QED BY <3>1, <3>2 DEF IInv, ServedInOrder
  <2>2. \A i \in DOMAIN txs', j \in DOMAIN queue' : txs'[i].req < queue'[j]
    <3>1. \A j \in DOMAIN queue' : queue'[j] \in Nat /\ 0 < queue'[j] BY <1>1, SMTT(40)
    <3>2. \A i \in DOMAIN txs, j \in DOMAIN queue' : txs[i].req < queue'[j] BY DEF IInv, ServedInOrder
    <3> QED BY <1>3, <3>1, <3>2
  <2> QED BY <2>1, <2>2 DEF IInv, ServedInOrder
<1>6. AnsweredFirst'
  <2> SUFFICES ASSUME NEW m \in DOMAIN requests', Known(m)'
               PROVE  /\ \A i \in DOMAIN txs' : txs'[i].req # 0 => m < txs'[i].req
                      /\ \A j \in DOMAIN queue' : m < queue'[j]
    BY DEF AnsweredFirst
  <2>1. CASE Known(m) BY <1>3, <2>1 DEF IInv, AnsweredFirst
  <2>2. CASE m = Head(txs).req
    <3>1. 1 \in DOMAIN txs /\ Head(txs) = txs[1] /\ m # 0 BY <1>1, <2>2
    <3>2. \A i \in DOMAIN txs' : i + 1 \in DOMAIN txs => 1 < i + 1 BY <1>2
    <3> QED BY <1>3, <2>2, <3>1, <3>2 DEF IInv, ServedInOrder
  <2> QED BY <2>1, <2>2
<1> QED BY <1>2, <1>4, <1>5, <1>6

\* Transactions are created, for a request that comes after those that wait for the
\* table and before those that wait for the service.
LEMMA AppendKeeps ==
  ASSUME IInv, NEW add \in Seq(Transactions), txs' = txs \o add, UNCHANGED <<session, uncleared>>,
         DOMAIN requests \subseteq DOMAIN requests', requests' \in Seq(Requests),
         \A m \in DOMAIN requests : /\ requests'[m].op = requests[m].op
                                    /\ requests'[m].keys = requests[m].keys
                                    /\ requests'[m].session = requests[m].session,
         \A m \in DOMAIN requests' : Known(m)' => m \in DOMAIN requests /\ Known(m),
         queue' \in Seq(1 .. MaxRequests),
         \A j \in DOMAIN queue' : queue'[j] \in DOMAIN requests' /\ requests'[queue'[j]].session = session,
         \A i, j \in DOMAIN queue' : i < j => queue'[i] < queue'[j],
         \A i \in DOMAIN txs, j \in DOMAIN queue' : txs[i].req < queue'[j],
         \A m \in DOMAIN requests, j \in DOMAIN queue' : Known(m) => m < queue'[j],
         \A i \in DOMAIN add :
           \/ add[i].kind \in {"getKeys", "initClear", "sweep", "scan"} /\ add[i].req = 0
           \/ /\ add[i].req \in DOMAIN requests' /\ Asks(add[i], requests'[add[i].req])
              /\ requests'[add[i].req].session = session
              /\ \A l \in DOMAIN txs : txs[l].req < add[i].req
              /\ \A j \in DOMAIN queue' : add[i].req < queue'[j]
              /\ \A m \in DOMAIN requests : Known(m) => m < add[i].req,
         \A i, j \in DOMAIN add : add[i].req # 0 /\ add[j].req # 0 => i = j
  PROVE  txs' \in Seq(Transactions) /\ Belong' /\ ServedInOrder' /\ AnsweredFirst'
<1>1. txs \in Seq(Transactions) /\ MaxRequests \in Nat BY BoundsAssumption DEF IInv, Shape, TypeOK
<1>2. txs' \in Seq(Transactions) BY <1>1
<1>3. \A i \in DOMAIN txs' : \/ i \in DOMAIN txs /\ txs'[i] = txs[i]
                             \/ /\ i - Len(txs) \in DOMAIN add /\ txs'[i] = add[i - Len(txs)]
                                /\ \A l \in DOMAIN txs : l < i
  BY <1>1
<1>4. Belong'
  <2>1. ASSUME NEW i \in DOMAIN txs'
        PROVE  IF txs'[i].kind \in {"getKeys", "initClear", "sweep", "scan", "evict"} THEN txs'[i].req = 0
               ELSE /\ txs'[i].req \in DOMAIN requests'
                    /\ Asks(txs'[i], requests'[txs'[i].req])
                    /\ requests'[txs'[i].req].session = session'
    <3>1. CASE i \in DOMAIN txs /\ txs'[i] = txs[i]
      <4>1. IF txs[i].kind \in {"getKeys", "initClear", "sweep", "scan", "evict"} THEN txs[i].req = 0
            ELSE /\ txs[i].req \in DOMAIN requests
                 /\ Asks(txs[i], requests[txs[i].req])
                 /\ requests[txs[i].req].session = session
        BY <3>1 DEF IInv, Belong
      <4> QED BY <3>1, <4>1 DEF Asks
    <3>2. CASE i - Len(txs) \in DOMAIN add /\ txs'[i] = add[i - Len(txs)] BY <3>2 DEF Asks
    <3> QED BY <1>3, <3>1, <3>2
  <2> QED BY <2>1 DEF Belong, Asks
<1>5. ServedInOrder'
  <2>1. \A i, j \in DOMAIN txs' : i < j /\ txs'[i].req # 0 /\ txs'[j].req # 0 => txs'[i].req < txs'[j].req
    <3> SUFFICES ASSUME NEW i \in DOMAIN txs', NEW j \in DOMAIN txs', i < j,
                        txs'[i].req # 0, txs'[j].req # 0
                 PROVE  txs'[i].req < txs'[j].req
      OBVIOUS
    <3>0. i \in Int /\ j \in Int /\ Len(txs) \in Nat BY <1>1, <1>2
    <3>1. CASE j \in DOMAIN txs /\ txs'[j] = txs[j]
      <4>1. i \in DOMAIN txs /\ txs'[i] = txs[i] BY <1>3, <3>0, <3>1
      <4> QED BY <3>1, <4>1 DEF IInv, ServedInOrder
    <3>2. CASE j - Len(txs) \in DOMAIN add /\ txs'[j] = add[j - Len(txs)]
      <4>1. CASE i \in DOMAIN txs /\ txs'[i] = txs[i] BY <3>2, <4>1
      <4>2. CASE i - Len(txs) \in DOMAIN add /\ txs'[i] = add[i - Len(txs)]
        <5>1. i - Len(txs) = j - Len(txs) BY <3>2, <4>2
        <5> QED BY <3>0, <5>1
      <4> QED BY <1>3, <4>1, <4>2
    <3> QED BY <1>3, <3>1, <3>2
  <2>2. \A i \in DOMAIN txs', j \in DOMAIN queue' : txs'[i].req < queue'[j]
    <3> SUFFICES ASSUME NEW i \in DOMAIN txs', NEW j \in DOMAIN queue' PROVE txs'[i].req < queue'[j]
      OBVIOUS
    <3>1. CASE i \in DOMAIN txs /\ txs'[i] = txs[i] BY <3>1
    <3>2. CASE i - Len(txs) \in DOMAIN add /\ txs'[i] = add[i - Len(txs)]
      <4>1. queue'[j] \in Nat /\ 0 < queue'[j] BY <1>1
      <4> QED BY <3>2, <4>1
    <3> QED BY <1>3, <3>1, <3>2
  <2> QED BY <2>1, <2>2 DEF ServedInOrder
<1>6. AnsweredFirst'
  <2> SUFFICES ASSUME NEW m \in DOMAIN requests', Known(m)'
               PROVE  /\ \A i \in DOMAIN txs' : txs'[i].req # 0 => m < txs'[i].req
                      /\ \A j \in DOMAIN queue' : m < queue'[j]
    BY DEF AnsweredFirst
  <2>1. m \in DOMAIN requests /\ Known(m) OBVIOUS
  <2> QED BY <1>3, <2>1 DEF IInv, AnsweredFirst
<1> QED BY <1>2, <1>4, <1>5, <1>6

\* Nothing is written.
LEMMA NothingWritten ==
  ASSUME IInv, DOMAIN requests' = DOMAIN requests, requests' \in Seq(Requests), UNCHANGED session, uncleared \subseteq uncleared',
         \A m \in DOMAIN requests : /\ requests'[m].op = requests[m].op
                                    /\ requests'[m].keys = requests[m].keys
                                    /\ requests'[m].session = requests[m].session
                                    /\ requests'[m].applied = requests[m].applied
                                    /\ requests'[m].result = requests[m].result,
         \A k \in Keys : store'[k] \in {Absent, store[k]}
  PROVE  /\ Fresh'
         /\ \A m \in DOMAIN requests : Known(m)' = Known(m)
         /\ initPhase \in {"flipping", "executing", "complete"} => OwnSession'
         /\ initPhase' \notin {"flipping", "executing", "complete"} => OwnSession'
<1>1. requests \in Seq(Requests) /\ Len(requests') = Len(requests) BY DEF IInv, Shape, TypeOK
<1>2. ASSUME NEW n \in Nat, n <= Len(requests) + 1
      PROVE  \A k \in Keys : LastWrite(n, k)' = LastWrite(n, k)
  <2>1. \A m \in 1 .. n - 1 : m \in DOMAIN requests BY <1>1, <1>2
  <2>2. \A m \in DOMAIN requests : requests[m].applied \in BOOLEAN /\ requests'[m].applied \in BOOLEAN
    <3>1. \A m \in DOMAIN requests : requests[m] \in Requests /\ requests'[m] \in Requests BY <1>1
    <3> QED BY <3>1 DEF Requests
  <2> QED BY <2>1, <2>2, LastWriteKept, SMTT(60)
<1>3. Fresh'
  <2>1. \A k \in Keys : store'[k] \in {Absent, LastWrite(Len(requests) + 1, k)'}
    <3>1. \A k \in Keys : store[k] \in {Absent, LastWrite(Len(requests) + 1, k)} BY DEF IInv, Fresh
    <3>2. Len(requests) + 1 \in Nat BY <1>1
    <3>3. \A k \in Keys : LastWrite(Len(requests) + 1, k)' = LastWrite(Len(requests) + 1, k)
      <4>1. \A m \in 1 .. (Len(requests) + 1) - 1 : m \in DOMAIN requests BY <1>1
      <4> QED BY <3>2, <1>1, <1>2
    <3> QED BY <3>1, <3>3
  <2>2. \A n \in DOMAIN requests', k \in Keys : requests'[n].result[k] \in {Absent, LastWrite(n, k)'}
    BY <1>1, <1>2 DEF IInv, Fresh
  <2> QED BY <2>1, <2>2, <1>1 DEF Fresh
<1>4. \A m \in DOMAIN requests : Known(m)' = Known(m) BY DEF Known
<1>5. ASSUME \/ initPhase \in {"flipping", "executing", "complete"}
             \/ initPhase' \notin {"flipping", "executing", "complete"}
      PROVE  OwnSession'
  <2> SUFFICES ASSUME ClearOnInit
               PROVE /\ initPhase' \in {"flipping", "executing", "complete"} =>
                          \A k \in Keys : store'[k] # Absent /\ session' \notin uncleared' =>
                            store'[k] # Old /\ requests'[store'[k]].session = session'
                     /\ \A n \in DOMAIN requests', k \in Keys :
                          LET found == requests'[n].result[k]
                          IN found # Absent /\ requests'[n].session \notin uncleared' => found # Old /\ requests'[found].session = requests'[n].session
    BY DEF OwnSession, Stored
  <2>1. initPhase \in {"flipping", "executing", "complete"} =>
          \A k \in Keys : store[k] # Absent /\ session \notin uncleared => store[k] # Old /\ requests[store[k]].session = session
    BY DEF IInv, OwnSession, Stored
  <2>2. \A n \in DOMAIN requests, k \in Keys :
          LET found == requests[n].result[k]
          IN found # Absent /\ requests[n].session \notin uncleared => found # Old /\ requests[found].session = requests[n].session
    BY DEF IInv, OwnSession
  <2>3. initPhase' \in {"flipping", "executing", "complete"} =>
          \A k \in Keys : store'[k] # Absent /\ session' \notin uncleared' =>
            store'[k] # Old /\ requests'[store'[k]].session = session'
    BY <1>5, <2>1, Named
  <2>4. \A n \in DOMAIN requests', k \in Keys :
          LET found == requests'[n].result[k]
          IN found # Absent /\ requests'[n].session \notin uncleared' => found # Old /\ requests'[found].session = requests'[n].session
    BY <2>2, Named
  <2> QED BY <2>3, <2>4
<1> QED BY <1>3, <1>4, <1>5

LEMMA EraseFacts ==
  ASSUME Shape, NEW keys, Erase(keys)
  PROVE  /\ store' \in [Keys -> Contents] /\ expired' \in SUBSET Stored'
         /\ \A k \in Keys : store'[k] \in {Absent, store[k]}
         /\ \A k \in keys \cap Keys : store'[k] = Absent
<1>1. store \in [Keys -> Contents] /\ expired \in SUBSET Stored BY DEF Shape, TypeOK
<1>2. store' = [k \in Keys |-> IF k \in keys THEN Absent ELSE store[k]] /\ expired' = expired \ keys
  BY DEF Erase
<1>3. Absent \in Contents BY DEF Contents
<1> QED BY <1>1, <1>2, <1>3 DEF Stored

--------------------------------------------------------------------------------
(* The transactions of the table                                           *)

LEMMA HeadPhase ==
  ASSUME IInv, Idle, txs # <<>>
  PROVE  /\ Head(txs).kind = "getKeys" => initPhase = "readingKeys" /\ Tail(txs) = <<>>
         /\ Head(txs).kind = "initClear" => initPhase = "clearing" /\ Tail(txs) = <<>>
         /\ Head(txs).kind \notin {"getKeys", "initClear"} => initPhase = "complete"
         /\ Head(txs) \in Transactions /\ Head(txs) = txs[1] /\ 1 \in DOMAIN txs
<1>1. txs \in Seq(Transactions) /\ initPhase \in InitPhases BY DEF IInv, Shape, TypeOK
<1>2. Head(txs) \in Transactions /\ Head(txs) = txs[1] /\ 1 \in DOMAIN txs BY <1>1
<1>3. initPhase \in {"readingKeys", "clearing", "complete"}
  BY <1>1 DEF IInv, Phases, Idle, InitPhases
<1>4. \A t : txs = <<t>> => Head(txs) = t /\ Tail(txs) = <<>> OBVIOUS
<1>5. Tx("getKeys", {}, 0).kind = "getKeys" /\ Tx("initClear", Keys, 0).kind = "initClear" BY DEF Tx
<1>6. CASE initPhase = "readingKeys"
  <2>1. txs = <<Tx("getKeys", {}, 0)>> BY <1>6 DEF IInv, Phases
  <2> QED BY <1>2, <1>4, <1>5, <1>6, <2>1
<1>7. CASE initPhase = "clearing"
  <2>1. txs = <<Tx("initClear", Keys, 0)>> BY <1>7 DEF IInv, Phases
  <2> QED BY <1>2, <1>4, <1>5, <1>7, <2>1
<1>8. CASE initPhase = "complete"
  <2>1. Head(txs).kind \notin {"getKeys", "initClear"} BY <1>2, <1>8 DEF IInv, Phases
  <2> QED BY <1>2, <1>8, <2>1
<1> QED BY <1>3, <1>6, <1>7, <1>8

LEMMA HeadAsks ==
  ASSUME IInv, Idle, txs # <<>>,
         Head(txs).kind \notin {"getKeys", "initClear", "sweep", "scan", "evict"},
         NEW n, n = Head(txs).req
  PROVE  /\ n \in DOMAIN requests /\ n \in 1 .. MaxRequests /\ requests[n].session = session
         /\ Asks(Head(txs), requests[n])
         /\ \A m \in DOMAIN requests : Known(m) => m < n
<1>1. Head(txs) = txs[1] /\ 1 \in DOMAIN txs BY HeadPhase
<1>2. n \in DOMAIN requests /\ requests[n].session = session /\ Asks(Head(txs), requests[n])
  BY <1>1 DEF IInv, Belong
<1>3. requests \in Seq(Requests) /\ Len(requests) <= MaxRequests /\ MaxRequests \in Nat
  BY BoundsAssumption DEF IInv, Shape, TypeOK
<1>4. n \in 1 .. MaxRequests BY <1>2, <1>3
<1>5. \A m \in DOMAIN requests : Known(m) => m < n BY <1>1, <1>4 DEF IInv, AnsweredFirst
<1> QED BY <1>2, <1>4, <1>5

LEMMA TailPhases ==
  ASSUME IInv, Idle, txs # <<>>, Head(txs).kind \notin {"getKeys", "initClear"},
         NEW more \in Seq(Transactions), txs' = Tail(txs) \o more,
         more = <<>> \/ \A i \in DOMAIN more : more[i].kind \in {"evict", "scan"} /\ more[i].req = 0,
         UNCHANGED <<initPhase, ready, queue>>,
         sweeping' = (sweeping /\ Head(txs).kind # "sweep")
  PROVE  Phases' /\ OneSweep' /\ initPhase = "complete"
<1>1. initPhase = "complete" /\ Head(txs) = txs[1] /\ 1 \in DOMAIN txs BY HeadPhase
<1>2. txs \in Seq(Transactions) BY DEF IInv, Shape, TypeOK
<1>3. \A i \in DOMAIN txs' : \/ i + 1 \in DOMAIN txs /\ txs'[i] = txs[i + 1] /\ i + 1 # 1
                             \/ txs'[i].kind \in {"evict", "scan"}
  BY <1>2
<1>4. Phases' BY <1>1, <1>3 DEF IInv, Phases
<1>5. \A i, j \in DOMAIN txs' : txs'[i].kind = "sweep" /\ txs'[j].kind = "sweep" => i = j
  <2> SUFFICES ASSUME NEW i \in DOMAIN txs', NEW j \in DOMAIN txs',
                      txs'[i].kind = "sweep", txs'[j].kind = "sweep"
               PROVE  i = j
    OBVIOUS
  <2>1. /\ i + 1 \in DOMAIN txs /\ txs[i + 1].kind = "sweep"
        /\ j + 1 \in DOMAIN txs /\ txs[j + 1].kind = "sweep"
    BY <1>3
  <2>2. i + 1 = j + 1 BY <2>1 DEF IInv, OneSweep
  <2>3. txs' \in Seq(Transactions) BY <1>2
  <2> QED BY <2>2, <2>3
<1>6. sweeping' <=> \E i \in DOMAIN txs' : txs'[i].kind = "sweep"
  <2>1. CASE Head(txs).kind = "sweep"
    <3>1. \A i \in DOMAIN txs : txs[i].kind = "sweep" => i = 1 BY <1>1, <2>1 DEF IInv, OneSweep
    <3> QED BY <1>3, <2>1, <3>1
  <2>2. CASE Head(txs).kind # "sweep"
    <3>1. sweeping' <=> \E i \in DOMAIN txs : txs[i].kind = "sweep"
      BY <2>2 DEF IInv, OneSweep, Shape, TypeOK
    <3>2. \A i \in DOMAIN txs : i # 1 => i - 1 \in DOMAIN txs' /\ txs'[i - 1] = txs[i] BY <1>2
    <3> QED BY <1>1, <1>3, <2>2, <3>1, <3>2
  <2> QED BY <2>1, <2>2
<1> QED BY <1>1, <1>4, <1>5, <1>6 DEF OneSweep

LEMMA KeysReadKeeps ==
  ASSUME IInv, KeysRead
  PROVE  IInv'
<1>1. /\ Idle /\ txs # <<>> /\ Head(txs).kind = "getKeys" /\ txs' = Tail(txs) /\ initPhase' = "keysKnown"
      /\ UNCHANGED <<ready, queue, sweeping, suspended, closed, committing, store, expired, requests, session, uncleared>>
  BY DEF KeysRead, First, sweepVars, tableVars, historyVars
<1>2. initPhase = "readingKeys" /\ txs' = <<>> BY <1>1, HeadPhase
<1>3. keyFilter' \in SUBSET Keys BY DEF KeysRead, Stored
<1>4. Shape' BY <1>1, <1>2, <1>3 DEF IInv, Shape, TypeOK, InitPhases, Stored
<1>5. Phases' BY <1>1, <1>2 DEF IInv, Phases
<1>6. Belong' /\ ServedInOrder' /\ AnsweredFirst'
  BY <1>1, <1>2 DEF IInv, Belong, ServedInOrder, AnsweredFirst, Known
<1>7. OneSweep'
  <2>1. txs = <<Tx("getKeys", {}, 0)>> BY <1>2 DEF IInv, Phases
  <2>2. \A i \in DOMAIN txs : txs[i].kind = "getKeys" BY <2>1 DEF Tx
  <2> QED BY <1>1, <1>2, <2>2 DEF IInv, OneSweep
<1>8. Fresh' /\ OwnSession'
  <2>1. requests' \in Seq(Requests) BY <1>1 DEF IInv, Shape, TypeOK
  <2> QED BY <1>1, <2>1, NothingWritten
<1> QED BY <1>4, <1>5, <1>6, <1>7, <1>8 DEF IInv

LEMMA InitClearedKeeps ==
  ASSUME IInv, InitCleared
  PROVE  IInv'
<1>1. /\ Idle /\ txs # <<>> /\ Head(txs).kind = "initClear" /\ txs' = Tail(txs) /\ initPhase' = "flipping"
      /\ UNCHANGED <<ready, queue, keyFilter, sweeping, suspended, closed, committing, requests, session>>
  BY DEF InitCleared, First, queueVars, sweepVars, historyVars
<1>2. initPhase = "clearing" /\ txs' = <<>> BY <1>1, HeadPhase
<1>3. /\ store' \in [Keys -> Contents] /\ expired' \in SUBSET Stored'
      /\ \A k \in Keys : store'[k] \in {Absent, store[k]}
      /\ uncleared' \subseteq 0 .. MaxReloads /\ uncleared \subseteq uncleared'
      /\ session \notin uncleared' => \A k \in Keys : store'[k] = Absent
  <2>0. Shape BY DEF IInv
  <2>1. CASE Erase(Keys) /\ UNCHANGED uncleared BY <2>0, <2>1, EraseFacts DEF Shape, TypeOK
  <2>2. CASE uncleared' = uncleared \cup {session} /\ UNCHANGED <<store, expired>>
    BY <2>0, <2>2 DEF Shape, TypeOK, Stored
  <2> QED BY <2>1, <2>2 DEF InitCleared
<1>4. Shape' BY <1>1, <1>2, <1>3 DEF IInv, Shape, TypeOK, InitPhases
<1>5. Phases' BY <1>1, <1>2 DEF IInv, Phases
<1>6. Belong' /\ ServedInOrder' /\ AnsweredFirst'
  BY <1>1, <1>2 DEF IInv, Belong, ServedInOrder, AnsweredFirst, Known
<1>7. OneSweep'
  <2>1. txs = <<Tx("initClear", Keys, 0)>> BY <1>2 DEF IInv, Phases
  <2>2. \A i \in DOMAIN txs : txs[i].kind = "initClear" BY <2>1 DEF Tx
  <2> QED BY <1>1, <1>2, <2>2 DEF IInv, OneSweep
<1>8. Fresh'
  <2>1. requests' \in Seq(Requests) BY <1>1 DEF IInv, Shape, TypeOK
  <2> QED BY <1>1, <1>3, <2>1, NothingWritten
<1>9. OwnSession' BY <1>1, <1>3 DEF IInv, OwnSession, Stored
<1> QED BY <1>4, <1>5, <1>6, <1>7, <1>8, <1>9 DEF IInv

\* A read finds what the table holds, which the last write before it left there.
LEMMA GetKeeps ==
  ASSUME IInv, GetCompletes
  PROVE  IInv'
<1>0. PICK n : n = Head(txs).req OBVIOUS
<1>1. /\ Idle /\ txs # <<>> /\ Head(txs).kind = "get" /\ txs' = Tail(txs)
      /\ UNCHANGED <<ready, initPhase, queue, keyFilter, sweeping, suspended, closed, committing,
                     store, expired, session, uncleared>>
  BY DEF GetCompletes, First, initVars, queueVars, sweepVars, tableVars
<1>2. /\ n \in DOMAIN requests /\ n \in 1 .. MaxRequests /\ requests[n].session = session
      /\ \A m \in DOMAIN requests : Known(m) => m < n
  BY <1>0, <1>1, HeadAsks
<1>3. Shape /\ requests \in Seq(Requests) /\ requests[n] \in Requests /\ store \in [Keys -> Contents]
      /\ txs \in Seq(Transactions)
  BY <1>2 DEF IInv, Shape, TypeOK
<1>4. txs' = Tail(txs) \o <<>> /\ <<>> \in Seq(Transactions) BY <1>1, <1>3
<1>5. Phases' /\ OneSweep' /\ initPhase = "complete"
  <2>1. sweeping' = (sweeping /\ Head(txs).kind # "sweep") BY <1>1, <1>3 DEF Shape, TypeOK
  <2> QED BY <1>1, <1>4, <2>1, TailPhases
<1>6. CASE Settle(n, "rejected")
  <2>1. /\ requests' \in Seq(Requests) /\ DOMAIN requests' = DOMAIN requests
        /\ Len(requests') = Len(requests)
        /\ \A m \in DOMAIN requests : /\ requests'[m].op = requests[m].op
                                      /\ requests'[m].keys = requests[m].keys
                                      /\ requests'[m].session = requests[m].session
                                      /\ requests'[m].applied = requests[m].applied
                                      /\ requests'[m].result = requests[m].result
    BY <1>2, <1>3, <1>6, SettleFacts
  <2>2. Fresh' /\ OwnSession' /\ \A m \in DOMAIN requests : Known(m)' = Known(m)
    BY <1>1, <1>5, <2>1, NothingWritten
  <2>3. txs' \in Seq(Transactions) /\ Belong' /\ ServedInOrder' /\ AnsweredFirst'
    BY <1>1, <1>4, <2>1, <2>2, TailKeeps
  <2>4. Shape' BY <1>1, <1>3, <2>1, <2>3 DEF Shape, TypeOK, Stored
  <2> QED BY <1>5, <2>2, <2>3, <2>4 DEF IInv
<1>7. CASE requests' = [requests EXCEPT ![n].status = "resolved", ![n].result = Unexpired(Head(txs).keys)]
  <2> DEFINE found == Unexpired(Head(txs).keys)
             r == [requests[n] EXCEPT !.status = "resolved", !.result = found]
  <2>1. found \in [Keys -> Contents] /\ \A k \in Keys : found[k] \in {Absent, store[k]}
    BY <1>3 DEF Unexpired, Contents
  <2> HIDE DEF found
  <2>2. r \in Requests BY <1>3, <2>1 DEF Requests
  <2>3. /\ r.op = requests[n].op /\ r.keys = requests[n].keys /\ r.session = requests[n].session
        /\ r.applied = requests[n].applied /\ r.result = found
    BY <1>3 DEF Requests
  <2>4. requests' = [requests EXCEPT ![n] = r] BY <1>3, <1>7 DEF Requests, found
  <2> HIDE DEF r
  <2>5. /\ requests' \in Seq(Requests) /\ DOMAIN requests' = DOMAIN requests
        /\ Len(requests') = Len(requests) /\ requests'[n] = r
        /\ \A m \in DOMAIN requests : /\ requests'[m].op = requests[m].op
                                      /\ requests'[m].keys = requests[m].keys
                                      /\ requests'[m].session = requests[m].session
        /\ \A m \in DOMAIN requests \ {n} : requests'[m] = requests[m]
    BY <1>2, <1>3, <2>2, <2>3, <2>4, RequestSet
  <2>6. \A m \in DOMAIN requests : Known(m)' => Known(m) \/ m = n BY <2>5 DEF Known
  <2>7. txs' \in Seq(Transactions) /\ Belong' /\ ServedInOrder' /\ AnsweredFirst'
    BY <1>0, <1>1, <1>4, <2>5, <2>6, TailKeeps
  <2>8. Shape' BY <1>1, <1>3, <2>5, <2>7 DEF Shape, TypeOK, Stored
  <2>9. \A m \in DOMAIN requests : /\ requests'[m].applied = requests[m].applied
                                   /\ requests[m].applied \in BOOLEAN
    <3>1. \A m \in DOMAIN requests : requests[m] \in Requests BY <1>3
    <3> QED BY <2>3, <2>5, <3>1 DEF Requests
  <2>10. ASSUME NEW m \in Nat, NEW l \in Nat, m <= l, l <= Len(requests) + 1,
                \A i \in DOMAIN requests : requests[i].applied => i < m \/ l = m
         PROVE  \A k \in Keys : LastWrite(m, k)' = LastWrite(l, k)
    <3>1. 1 .. l - 1 \subseteq DOMAIN requests BY <1>3, <2>10
    <3>2. \A i \in 1 .. l - 1 : requests'[i].op = requests[i].op /\ requests'[i].keys = requests[i].keys
      BY <2>5, <3>1
    <3>3. \A i \in 1 .. m - 1 : requests'[i].applied <=> (i < l /\ requests[i].applied)
      BY <2>9, <2>10, <3>1
    <3>4. \A i \in 1 .. l - 1 : requests[i].applied => i < m BY <2>10, <3>1
    <3> QED BY <3>2, <3>3, <3>4, LastWriteKept
  <2>11. Fresh'
    <3>1. \A k \in Keys : store'[k] \in {Absent, LastWrite(Len(requests) + 1, k)'}
      <4>1. PICK l \in Nat : l = Len(requests) + 1 BY <1>3
      <4>2. \A k \in Keys : LastWrite(l, k)' = LastWrite(l, k) BY <2>10, <4>1
      <4>3. \A k \in Keys : store[k] \in {Absent, LastWrite(l, k)} BY <4>1 DEF IInv, Fresh
      <4>4. l = Len(requests') + 1 BY <2>5, <4>1
      <4> QED BY <1>1, <4>2, <4>3, <4>4
    <3>2. ASSUME NEW m \in DOMAIN requests, NEW k \in Keys
          PROVE  requests'[m].result[k] \in {Absent, LastWrite(m, k)'}
      <4>0. m \in Nat /\ m <= Len(requests) BY <1>3
      <4>1. CASE m # n
        <5>1. LastWrite(m, k)' = LastWrite(m, k) BY <2>10, <4>0
        <5> QED BY <2>5, <4>1, <5>1 DEF IInv, Fresh
      <4>2. CASE m = n
        <5>1. PICK l \in Nat : l = Len(requests) + 1 BY <1>3
        <5>2. \A i \in DOMAIN requests : requests[i].applied => i < n BY <1>2 DEF Known
        <5>3. LastWrite(n, k)' = LastWrite(l, k) BY <2>10, <4>0, <4>2, <5>1, <5>2
        <5>4. store[k] \in {Absent, LastWrite(l, k)} BY <5>1 DEF IInv, Fresh
        <5> QED BY <2>1, <2>3, <2>5, <4>2, <5>3, <5>4
      <4> QED BY <4>1, <4>2
    <3> QED BY <2>5, <3>1, <3>2 DEF Fresh
  <2>12. OwnSession'
    <3> SUFFICES ASSUME ClearOnInit
                 PROVE /\ \A k \in Keys : store'[k] # Absent /\ session' \notin uncleared' =>
                            store'[k] # Old /\ requests'[store'[k]].session = session'
                       /\ \A m \in DOMAIN requests', k \in Keys :
                            requests'[m].result[k] # Absent /\ requests'[m].session \notin uncleared' =>
                              /\ requests'[m].result[k] # Old
                              /\ requests'[requests'[m].result[k]].session = requests'[m].session
      BY DEF OwnSession, Stored
    <3>1. \A k \in Keys : store[k] # Absent /\ session \notin uncleared => /\ store[k] # Old /\ requests[store[k]].session = session
                                              /\ store[k] \in DOMAIN requests
      BY <1>5, Named DEF IInv, OwnSession, Stored
    <3>2. \A m \in DOMAIN requests, k \in Keys :
            requests[m].result[k] # Absent /\ requests[m].session \notin uncleared =>
              /\ requests[m].result[k] # Old /\ requests[m].result[k] \in DOMAIN requests
              /\ requests[requests[m].result[k]].session = requests[m].session
      BY Named DEF IInv, OwnSession
    <3>3. \A k \in Keys : store'[k] # Absent /\ session' \notin uncleared' =>
            store'[k] # Old /\ requests'[store'[k]].session = session'
      BY <1>1, <2>5, <3>1
    <3>4. ASSUME NEW m \in DOMAIN requests', NEW k \in Keys, requests'[m].result[k] # Absent,
                        requests'[m].session \notin uncleared'
          PROVE  /\ requests'[m].result[k] # Old
                 /\ requests'[requests'[m].result[k]].session = requests'[m].session
      <4>1. CASE m # n BY <1>1, <2>5, <3>2, <3>4, <4>1
      <4>2. CASE m = n
        <5>1. requests'[m].result[k] = store[k] BY <2>1, <2>3, <2>5, <3>4, <4>2
        <5> QED BY <1>1, <1>2, <2>5, <3>1, <3>4, <4>2, <5>1
      <4> QED BY <4>1, <4>2
    <3> QED BY <3>3, <3>4
  <2> QED BY <1>5, <2>7, <2>8, <2>11, <2>12 DEF IInv
<1> QED BY <1>0, <1>6, <1>7 DEF GetCompletes

\* A write is carried out: it is the last for its keys, and concerns no earlier read.
CommitOf(n, r) ==
  /\ Idle /\ txs # <<>> /\ Head(txs).kind \in {"put", "remove", "clear", "drop"}
  /\ n = Head(txs).req /\ txs' = Tail(txs)
  /\ UNCHANGED <<queue, sweeping, initPhase, ready, session, uncleared>>
  /\ r \in Requests /\ requests' = [requests EXCEPT ![n] = r] /\ r.applied
  /\ r.op = requests[n].op /\ r.keys = requests[n].keys /\ r.session = requests[n].session
  /\ r.result = requests[n].result
  /\ \A k \in Keys :
       \/ store'[k] = store[k] /\ requests[n].op \in {"set", "remove"} /\ k \notin requests[n].keys
       \/ store'[k] = n /\ requests[n].op = "set" /\ k \in requests[n].keys
       \/ /\ store'[k] = Absent /\ requests[n].op # "set"
          /\ requests[n].op = "remove" => k \in requests[n].keys
CommitKept ==
  /\ requests' \in Seq(Requests) /\ Len(requests') = Len(requests) /\ txs' \in Seq(Transactions)
  /\ Phases' /\ Belong' /\ ServedInOrder' /\ OneSweep' /\ AnsweredFirst'
  /\ Fresh' /\ OwnSession'

LEMMA CommitKeeps == ASSUME IInv, NEW n, NEW r, CommitOf(n, r) PROVE CommitKept
<1> SUFFICES /\ requests' \in Seq(Requests) /\ Len(requests') = Len(requests)
             /\ txs' \in Seq(Transactions)
             /\ Phases' /\ Belong' /\ ServedInOrder' /\ OneSweep' /\ AnsweredFirst'
             /\ Fresh' /\ OwnSession'
  BY DEF CommitKept
<1> /\ Idle /\ txs # <<>> /\ Head(txs).kind \in {"put", "remove", "clear", "drop"}
      /\ n = Head(txs).req /\ txs' = Tail(txs)
      /\ UNCHANGED <<queue, sweeping, initPhase, ready, session, uncleared>>
      /\ r \in Requests /\ requests' = [requests EXCEPT ![n] = r] /\ r.applied
      /\ r.op = requests[n].op /\ r.keys = requests[n].keys /\ r.session = requests[n].session
      /\ r.result = requests[n].result
      /\ \A k \in Keys :
           \/ store'[k] = store[k] /\ requests[n].op \in {"set", "remove"} /\ k \notin requests[n].keys
           \/ store'[k] = n /\ requests[n].op = "set" /\ k \in requests[n].keys
           \/ /\ store'[k] = Absent /\ requests[n].op # "set"
              /\ requests[n].op = "remove" => k \in requests[n].keys
  BY DEF CommitOf
<1>1. /\ n \in DOMAIN requests /\ n \in 1 .. MaxRequests /\ requests[n].session = session
      /\ \A m \in DOMAIN requests : Known(m) => m < n
  BY HeadAsks
<1>2. Shape /\ requests \in Seq(Requests) /\ txs \in Seq(Transactions) BY DEF IInv, Shape, TypeOK
<1>3. txs' = Tail(txs) \o <<>> /\ <<>> \in Seq(Transactions) BY <1>2
<1>4. Phases' /\ OneSweep' /\ initPhase = "complete"
  <2>1. sweeping' = (sweeping /\ Head(txs).kind # "sweep") BY <1>2 DEF Shape, TypeOK
  <2> QED BY <1>3, <2>1, TailPhases
<1>5. /\ requests' \in Seq(Requests) /\ DOMAIN requests' = DOMAIN requests
      /\ Len(requests') = Len(requests) /\ requests'[n] = r
      /\ \A m \in DOMAIN requests : /\ requests'[m].op = requests[m].op
                                    /\ requests'[m].keys = requests[m].keys
                                    /\ requests'[m].session = requests[m].session
      /\ \A m \in DOMAIN requests \ {n} : requests'[m] = requests[m]
  BY <1>1, <1>2, RequestSet
<1>6. \A m \in DOMAIN requests : Known(m)' => Known(m) \/ m = n BY <1>5 DEF Known
<1>7. txs' \in Seq(Transactions) /\ Belong' /\ ServedInOrder' /\ AnsweredFirst'
  BY <1>3, <1>5, <1>6, TailKeeps
<1>8. \A m \in DOMAIN requests, k \in Keys : requests'[m].result[k] = requests[m].result[k]
  BY <1>5
<1>9. ASSUME NEW m \in DOMAIN requests, NEW k \in Keys
      PROVE  requests'[m].result[k] \in {Absent, LastWrite(m, k)'}
  <2>1. CASE requests[m].result[k] = Absent BY <1>8, <2>1
  <2>2. CASE requests[m].result[k] # Absent
    <3>1. m < n /\ m \in Nat /\ 1 .. m - 1 \subseteq DOMAIN requests \ {n} BY <1>1, <1>2, <2>2 DEF Known
    <3>2. \A i \in 1 .. m - 1 : requests[i].applied \in BOOLEAN
      <4>1. \A i \in 1 .. m - 1 : requests[i] \in Requests BY <1>2, <3>1
      <4> QED BY <4>1 DEF Requests
    <3>3. \A i \in 1 .. m - 1 : /\ requests'[i] = requests[i] /\ i < m
                               /\ requests[i].applied \in BOOLEAN
      BY <1>5, <3>1, <3>2
    <3>4. /\ \A i \in 1 .. m - 1 : /\ requests'[i].op = requests[i].op
                                  /\ requests'[i].keys = requests[i].keys
          /\ \A i \in 1 .. m - 1 : requests'[i].applied <=> (i < m /\ requests[i].applied)
          /\ \A i \in 1 .. m - 1 : requests[i].applied => i < m
      BY <3>3, Zenon
    <3>5. LastWrite(m, k)' = LastWrite(m, k)
      <4>1. m \in Nat BY <3>1
      <4>2. \A l \in Keys : LastWrite(m, l)' = LastWrite(m, l) BY ONLY <4>1, <3>4, LastWriteKept
      <4> QED BY <4>2, Zenon
    <3> QED BY <1>8, <3>5 DEF IInv, Fresh
  <2> QED BY <2>1, <2>2
<1>10. PICK l \in Nat : l = Len(requests) + 1 BY <1>2
<1>11. 1 .. l - 1 = DOMAIN requests BY <1>2, <1>10
<1>12. ASSUME NEW k \in Keys PROVE store'[k] \in {Absent, LastWrite(l, k)'}
  <2> DEFINE W == {m \in 1 .. l - 1 : /\ requests[m].applied
                                      /\ requests[m].op \in {"set", "remove"} => k \in requests[m].keys}
             V == {m \in 1 .. l - 1 : /\ requests'[m].applied
                                      /\ requests'[m].op \in {"set", "remove"} => k \in requests'[m].keys}
  <2>1. LastWrite(l, k) = IF W = {} THEN Old ELSE IF requests[Max(W)].op = "set" THEN Max(W) ELSE Absent
    BY DEF LastWrite
  <2>2. LastWrite(l, k)' = IF V = {} THEN Old ELSE IF requests'[Max(V)].op = "set" THEN Max(V) ELSE Absent
    BY DEF LastWrite
  <2>3. CASE store'[k] = store[k] /\ requests[n].op \in {"set", "remove"} /\ k \notin requests[n].keys
    <3>1. \A m \in DOMAIN requests : m \in V <=> m \in W
      <4>1. n \notin V /\ n \notin W BY <1>5, <2>3
      <4>2. \A m \in DOMAIN requests \ {n} : m \in V <=> m \in W BY <1>5, <1>11
      <4> QED BY <4>1, <4>2
    <3>2. V = W BY <1>11, <3>1
    <3>3. W # {} => Max(W) \in DOMAIN requests
      <4>1. W \in SUBSET (1 .. l - 1) OBVIOUS
      <4> HIDE DEF W
      <4> QED BY <1>11, <4>1, MaxOfNumbers
    <3> HIDE DEF V, W
    <3>4. LastWrite(l, k)' = LastWrite(l, k) BY <1>5, <2>1, <2>2, <3>2, <3>3
    <3> QED BY <1>10, <2>3, <3>4 DEF IInv, Fresh
  <2>4. CASE requests[n].op \notin {"set", "remove"} \/ k \in requests[n].keys
    <3>1. n \in V BY <1>1, <1>5, <1>11, <2>4
    <3>2. \A m \in V : m <= n
      <4>1. \A m \in DOMAIN requests \ {n} : requests'[m].applied => Known(m) BY <1>5 DEF Known
      <4> QED BY <1>1, <1>11, <4>1
    <3>3. Max(V) = n
      <4>1. \A x, y \in V : (\A z \in V : x >= z) /\ (\A z \in V : y >= z) => x = y
        <5>1. V \subseteq Nat OBVIOUS
        <5> HIDE DEF V
        <5> QED BY <5>1
      <4>2. \A m \in V : n >= m BY <3>2, <1>1
      <4> HIDE DEF V
      <4> QED BY <3>1, <4>1, <4>2 DEF Max
    <3> HIDE DEF V, W
    <3>4. LastWrite(l, k)' = IF requests[n].op = "set" THEN n ELSE Absent
      BY <1>1, <1>5, <2>2, <3>1, <3>3
    <3> QED BY <2>4, <3>4
  <2> QED BY <2>3, <2>4
<1>13. Fresh'
  <2>1. l = Len(requests') + 1 BY <1>5, <1>10
  <2> QED BY <1>5, <1>9, <1>12, <2>1 DEF Fresh
<1>14. OwnSession'
  <2> SUFFICES ASSUME ClearOnInit
               PROVE /\ \A k \in Keys : store'[k] # Absent /\ session' \notin uncleared' =>
                          store'[k] # Old /\ requests'[store'[k]].session = session'
                     /\ \A m \in DOMAIN requests', k \in Keys :
                          requests'[m].result[k] # Absent /\ requests'[m].session \notin uncleared' =>
                            /\ requests'[m].result[k] # Old
                            /\ requests'[requests'[m].result[k]].session = requests'[m].session
    BY DEF OwnSession, Stored
  <2>1. \A k \in Keys : store[k] # Absent /\ session \notin uncleared => /\ store[k] # Old /\ requests[store[k]].session = session
                                            /\ store[k] \in DOMAIN requests
    BY <1>4, Named DEF IInv, OwnSession, Stored
  <2>2. \A m \in DOMAIN requests, k \in Keys :
          requests[m].result[k] # Absent /\ requests[m].session \notin uncleared =>
            /\ requests[m].result[k] # Old /\ requests[m].result[k] \in DOMAIN requests
            /\ requests[requests[m].result[k]].session = requests[m].session
    BY Named DEF IInv, OwnSession
  <2>3. \A k \in Keys : store'[k] # Absent /\ session' \notin uncleared' =>
          store'[k] # Old /\ requests'[store'[k]].session = session'
    <3>1. n # Old BY <1>1 DEF Old
    <3> QED BY <1>1, <1>5, <2>1, <3>1
  <2>4. \A m \in DOMAIN requests', k \in Keys :
          requests'[m].result[k] # Absent /\ requests'[m].session \notin uncleared' =>
            /\ requests'[m].result[k] # Old
            /\ requests'[requests'[m].result[k]].session = requests'[m].session
    BY <1>5, <1>8, <2>2, SMTT(40)
  <2> QED BY <2>3, <2>4
<1> QED BY <1>4, <1>5, <1>7, <1>13, <1>14

LEMMA StayKeeps ==
  ASSUME IInv, UNCHANGED <<txs, queue, session, uncleared>>, DOMAIN requests \subseteq DOMAIN requests',
         \A m \in DOMAIN requests : /\ requests'[m].op = requests[m].op
                                    /\ requests'[m].keys = requests[m].keys
                                    /\ requests'[m].session = requests[m].session,
         \A m \in DOMAIN requests' : Known(m)' => m \in DOMAIN requests /\ Known(m)
  PROVE  Belong' /\ ServedInOrder' /\ AnsweredFirst'
<1>1. Belong'
  <2>1. \A j \in DOMAIN queue' : queue'[j] \in DOMAIN requests' /\ requests'[queue'[j]].session = session'
    BY DEF IInv, Belong
  <2>2. ASSUME NEW i \in DOMAIN txs'
        PROVE  IF txs'[i].kind \in {"getKeys", "initClear", "sweep", "scan", "evict"} THEN txs'[i].req = 0
               ELSE /\ txs'[i].req \in DOMAIN requests'
                    /\ Asks(txs'[i], requests'[txs'[i].req])
                    /\ requests'[txs'[i].req].session = session'
    <3>1. IF txs[i].kind \in {"getKeys", "initClear", "sweep", "scan", "evict"} THEN txs[i].req = 0
          ELSE /\ txs[i].req \in DOMAIN requests
               /\ Asks(txs[i], requests[txs[i].req])
               /\ requests[txs[i].req].session = session
      BY <2>2 DEF IInv, Belong
    <3> QED BY <3>1 DEF Asks
  <2> QED BY <2>1, <2>2 DEF Belong, Asks
<1>2. ServedInOrder' BY DEF IInv, ServedInOrder
<1>3. AnsweredFirst'
  <2> SUFFICES ASSUME NEW m \in DOMAIN requests', Known(m)'
               PROVE  /\ \A i \in DOMAIN txs' : txs'[i].req # 0 => m < txs'[i].req
                      /\ \A j \in DOMAIN queue' : m < queue'[j]
    BY DEF AnsweredFirst
  <2> QED BY DEF IInv, AnsweredFirst
<1> QED BY <1>1, <1>2, <1>3

\* A transaction is over that wrote nothing, whatever its request was told.
LEMMA DoneKeeps ==
  ASSUME IInv, Idle, txs # <<>>, Head(txs).kind \notin {"getKeys", "initClear"},
         NEW more \in Seq(Transactions), txs' = Tail(txs) \o more,
         more = <<>> \/ \A i \in DOMAIN more : more[i].kind \in {"evict", "scan"} /\ more[i].req = 0,
         UNCHANGED <<initPhase, ready, queue, keyFilter, suspended, closed, session, uncleared>>,
         sweeping' = (sweeping /\ Head(txs).kind # "sweep"), committing' \in BOOLEAN,
         requests' \in Seq(Requests), DOMAIN requests' = DOMAIN requests, Len(requests') = Len(requests),
         \A m \in DOMAIN requests : /\ requests'[m].op = requests[m].op
                                    /\ requests'[m].keys = requests[m].keys
                                    /\ requests'[m].session = requests[m].session
                                    /\ requests'[m].applied = requests[m].applied
                                    /\ requests'[m].result = requests[m].result,
         store' \in [Keys -> Contents], expired' \in SUBSET Stored',
         \A k \in Keys : store'[k] \in {Absent, store[k]}
  PROVE  IInv'
<1>1. Phases' /\ OneSweep' /\ initPhase = "complete" BY TailPhases
<1>2. Fresh' /\ OwnSession' /\ \A m \in DOMAIN requests : Known(m)' = Known(m)
  BY <1>1, NothingWritten
<1>3. txs' \in Seq(Transactions) /\ Belong' /\ ServedInOrder' /\ AnsweredFirst' BY <1>2, TailKeeps
<1>4. Shape'
  <2>1. Shape BY DEF IInv
  <2> QED BY <1>3, <2>1 DEF Shape, TypeOK
<1> QED BY <1>1, <1>2, <1>3, <1>4 DEF IInv

LEMMA SameRequests ==
  ASSUME Shape, UNCHANGED requests
  PROVE  /\ requests' \in Seq(Requests) /\ DOMAIN requests' = DOMAIN requests
         /\ Len(requests') = Len(requests)
         /\ \A m \in DOMAIN requests : /\ requests'[m].op = requests[m].op
                                       /\ requests'[m].keys = requests[m].keys
                                       /\ requests'[m].session = requests[m].session
                                       /\ requests'[m].applied = requests[m].applied
                                       /\ requests'[m].result = requests[m].result
BY DEF Shape, TypeOK

LEMMA SameStore ==
  ASSUME Shape, UNCHANGED <<store, expired>>
  PROVE  /\ store' \in [Keys -> Contents] /\ expired' \in SUBSET Stored'
         /\ \A k \in Keys : store'[k] \in {Absent, store[k]}
BY DEF Shape, TypeOK, Stored

LEMMA StatusOnly ==
  ASSUME IInv, Idle, txs # <<>>, Head(txs).kind \in {"put", "remove", "clear", "drop"},
         NEW n, n = Head(txs).req, txs' = Tail(txs), committing' \in BOOLEAN,
         UNCHANGED requests \/ Settle(n, "rejected"),
         UNCHANGED <<initPhase, ready, queue, keyFilter, sweeping, suspended, closed, store, expired, session, uncleared>>
  PROVE  IInv'
<1>1. Shape /\ n \in DOMAIN requests
  <2>1. n \in DOMAIN requests BY HeadAsks
  <2> QED BY <2>1 DEF IInv
<1>2. /\ <<>> \in Seq(Transactions) /\ txs' = Tail(txs) \o <<>>
      /\ sweeping' = (sweeping /\ Head(txs).kind # "sweep")
  BY <1>1 DEF Shape, TypeOK
<1>3. /\ requests' \in Seq(Requests) /\ DOMAIN requests' = DOMAIN requests
      /\ Len(requests') = Len(requests)
      /\ \A m \in DOMAIN requests : /\ requests'[m].op = requests[m].op
                                    /\ requests'[m].keys = requests[m].keys
                                    /\ requests'[m].session = requests[m].session
                                    /\ requests'[m].applied = requests[m].applied
                                    /\ requests'[m].result = requests[m].result
  BY <1>1, SameRequests, SettleFacts
<1> QED BY <1>1, <1>2, <1>3, SameStore, DoneKeeps

LEMMA Committed ==
  ASSUME IInv, Idle, txs # <<>>, Head(txs).kind \in {"put", "remove", "clear", "drop"},
         NEW n, n = Head(txs).req, txs' = Tail(txs), committing' \in BOOLEAN,
         UNCHANGED <<initPhase, ready, queue, keyFilter, sweeping, suspended, closed, session, uncleared>>,
         \/ requests' = [requests EXCEPT ![n].applied = TRUE]
         \/ requests' = [requests EXCEPT ![n].status = "resolved", ![n].applied = TRUE],
         store' \in [Keys -> Contents], expired' \in SUBSET Stored',
         \A k \in Keys :
           \/ store'[k] = store[k] /\ requests[n].op \in {"set", "remove"} /\ k \notin requests[n].keys
           \/ store'[k] = n /\ requests[n].op = "set" /\ k \in requests[n].keys
           \/ /\ store'[k] = Absent /\ requests[n].op # "set"
              /\ requests[n].op = "remove" => k \in requests[n].keys
  PROVE  IInv'
<1>1. n \in DOMAIN requests BY HeadAsks
<1>2. Shape /\ requests \in Seq(Requests) /\ requests[n] \in Requests BY <1>1 DEF IInv, Shape, TypeOK
<1>3. PICK r \in Requests :
        /\ requests' = [requests EXCEPT ![n] = r] /\ r.applied
        /\ r.op = requests[n].op /\ r.keys = requests[n].keys
        /\ r.session = requests[n].session /\ r.result = requests[n].result
  <2>1. CASE requests' = [requests EXCEPT ![n].applied = TRUE]
    <3> DEFINE r == [requests[n] EXCEPT !.applied = TRUE]
    <3>1. /\ r \in Requests /\ r.applied /\ r.op = requests[n].op /\ r.keys = requests[n].keys
          /\ r.session = requests[n].session /\ r.result = requests[n].result
      BY <1>2 DEF Requests
    <3>2. requests' = [requests EXCEPT ![n] = r] BY <1>2, <2>1 DEF Requests
    <3> QED BY <3>1, <3>2
  <2>2. CASE requests' = [requests EXCEPT ![n].status = "resolved", ![n].applied = TRUE]
    <3> DEFINE r == [requests[n] EXCEPT !.status = "resolved", !.applied = TRUE]
    <3>1. /\ r \in Requests /\ r.applied /\ r.op = requests[n].op /\ r.keys = requests[n].keys
          /\ r.session = requests[n].session /\ r.result = requests[n].result
      BY <1>2 DEF Requests
    <3>2. requests' = [requests EXCEPT ![n] = r] BY <1>2, <2>2 DEF Requests
    <3> QED BY <3>1, <3>2
  <2> QED BY <2>1, <2>2
<1>4. /\ requests' \in Seq(Requests) /\ Len(requests') = Len(requests) /\ txs' \in Seq(Transactions)
      /\ Phases' /\ Belong' /\ ServedInOrder' /\ OneSweep' /\ AnsweredFirst'
      /\ Fresh' /\ OwnSession'
  <2>1. CommitOf(n, r) BY <1>3 DEF CommitOf
  <2>2. CommitKept BY <2>1, CommitKeeps, Zenon
  <2> QED BY <2>2, Zenon DEF CommitKept
<1>5. Shape' BY <1>2, <1>4 DEF Shape, TypeOK
<1> QED BY <1>4, <1>5 DEF IInv

LEMMA WriteSucceedsKeeps ==
  ASSUME IInv, WriteSucceeds
  PROVE  IInv'
<1>0. PICK n : n = Head(txs).req OBVIOUS
<1>1. /\ Idle /\ txs # <<>> /\ Head(txs).kind \in {"put", "remove"} /\ committing' = TRUE
      /\ UNCHANGED <<initPhase, ready, queue, keyFilter, sweeping, suspended, closed, txs, store,
                     expired, session, uncleared>>
  BY DEF WriteSucceeds, First, initVars, queueVars, sweepVars
<1>2. Shape /\ n \in DOMAIN requests
  <2>1. n \in DOMAIN requests BY <1>0, <1>1, HeadAsks
  <2> QED BY <2>1 DEF IInv
<1>3. /\ requests' \in Seq(Requests) /\ DOMAIN requests' = DOMAIN requests
      /\ Len(requests') = Len(requests)
      /\ \A m \in DOMAIN requests : /\ requests'[m].op = requests[m].op
                                    /\ requests'[m].keys = requests[m].keys
                                    /\ requests'[m].session = requests[m].session
                                    /\ requests'[m].applied = requests[m].applied
                                    /\ requests'[m].result = requests[m].result
  <2>1. UNCHANGED requests \/ Settle(n, "resolved") BY <1>0 DEF WriteSucceeds
  <2> QED BY <1>2, <2>1, SameRequests, SettleFacts
<1>4. initPhase = "complete" BY <1>1, HeadPhase
<1>5. \A k \in Keys : store'[k] \in {Absent, store[k]} BY <1>1
<1>6. Fresh' /\ OwnSession' /\ \A m \in DOMAIN requests : Known(m)' = Known(m)
  BY <1>1, <1>3, <1>4, <1>5, NothingWritten
<1>7. Belong' /\ ServedInOrder' /\ AnsweredFirst' BY <1>1, <1>3, <1>6, StayKeeps
<1>8. Phases' /\ OneSweep' BY <1>1 DEF IInv, Phases, OneSweep
<1>9. Shape' BY <1>1, <1>2, <1>3 DEF Shape, TypeOK, Stored
<1> QED BY <1>6, <1>7, <1>8, <1>9 DEF IInv

LEMMA WriteCommitsKeeps ==
  ASSUME IInv, WriteCommits
  PROVE  IInv'
<1>0. PICK n, keys : n = Head(txs).req /\ keys = Head(txs).keys OBVIOUS
<1>1. /\ Idle /\ txs # <<>> /\ Head(txs).kind \in {"put", "remove"} /\ committing' = FALSE
      /\ txs' = Tail(txs) /\ requests' = [requests EXCEPT ![n].applied = TRUE]
      /\ UNCHANGED <<initPhase, ready, queue, keyFilter, sweeping, suspended, closed, session, uncleared>>
  BY <1>0 DEF WriteCommits, First, initVars, queueVars, sweepVars
<1>2. /\ n \in DOMAIN requests /\ n \in 1 .. MaxRequests
      /\ Asks(Head(txs), requests[n])
  BY <1>0, <1>1, HeadAsks
<1>3. Shape /\ requests \in Seq(Requests) /\ requests[n] \in Requests /\ MaxRequests \in Nat
      /\ store \in [Keys -> Contents] /\ expired \in SUBSET Stored
  BY <1>2, BoundsAssumption DEF IInv, Shape, TypeOK
<1>4. /\ requests[n].op = IF Head(txs).kind = "put" THEN "set" ELSE "remove"
      /\ requests[n].keys = keys
  BY <1>0, <1>1, <1>2 DEF Asks
<1>5. CASE Head(txs).kind = "put"
  <2>1. /\ store' = [k \in Keys |-> IF k \in keys THEN n ELSE store[k]] /\ expired' = expired \ keys
    BY <1>0, <1>5 DEF WriteCommits
  <2>2. /\ store' \in [Keys -> Contents] /\ expired' \in SUBSET Stored'
        /\ \A k \in Keys : store'[k] = IF k \in keys THEN n ELSE store[k]
    <3>1. n \in Contents BY <1>2 DEF Contents
    <3> QED BY <1>2, <1>3, <2>1, <3>1 DEF Stored, Absent
  <2> QED BY <1>0, <1>1, <1>4, <1>5, <2>2, Committed DEF IInv
<1>6. CASE Head(txs).kind = "remove"
  <2>1. Erase(keys) BY <1>0, <1>6 DEF WriteCommits
  <2>2. \A k \in Keys : k \notin keys => store'[k] = store[k] BY <1>3, <2>1 DEF Erase
  <2>3. /\ store' \in [Keys -> Contents] /\ expired' \in SUBSET Stored'
        /\ \A k \in keys \cap Keys : store'[k] = Absent
    BY <1>3, <2>1, EraseFacts
  <2> QED BY <1>0, <1>1, <1>4, <1>6, <2>2, <2>3, Committed DEF IInv
<1> QED BY <1>1, <1>5, <1>6

LEMMA WriteAbortsKeeps ==
  ASSUME IInv, WriteAborts
  PROVE  IInv'
<1>0. PICK n : n = Head(txs).req OBVIOUS
<1>1. /\ Idle /\ txs # <<>> /\ Head(txs).kind \in {"put", "remove"} /\ committing' = FALSE
      /\ txs' = Tail(txs)
      /\ UNCHANGED <<initPhase, ready, queue, keyFilter, sweeping, suspended, closed, store,
                     expired, session, uncleared>>
  BY DEF WriteAborts, First, initVars, queueVars, sweepVars
<1>2. Shape /\ n \in DOMAIN requests
  <2>1. n \in DOMAIN requests BY <1>0, <1>1, HeadAsks
  <2> QED BY <2>1 DEF IInv
<1>3. UNCHANGED requests \/ Settle(n, "rejected") BY <1>0 DEF WriteAborts
<1> QED BY <1>0, <1>1, <1>2, <1>3, StatusOnly

LEMMA ClearCompletesKeeps ==
  ASSUME IInv, ClearCompletes
  PROVE  IInv'
<1>0. PICK n : n = Head(txs).req OBVIOUS
<1>1. /\ Idle /\ txs # <<>> /\ Head(txs).kind \in {"clear", "drop"} /\ txs' = Tail(txs)
      /\ UNCHANGED <<initPhase, ready, queue, keyFilter, sweeping, suspended, closed, committing, session, uncleared>>
  BY DEF ClearCompletes, First, initVars, queueVars, sweepVars
<1>2. n \in DOMAIN requests /\ n \in 1 .. MaxRequests /\ Asks(Head(txs), requests[n])
  BY <1>0, <1>1, HeadAsks
<1>3. Shape /\ requests \in Seq(Requests) /\ requests[n] \in Requests BY <1>2 DEF IInv, Shape, TypeOK
<1>4. CASE Settle(n, "rejected") /\ UNCHANGED <<store, expired>>
  <2>1. committing' \in BOOLEAN BY <1>1, <1>3 DEF Shape, TypeOK
  <2> QED BY <1>0, <1>1, <1>3, <1>4, <2>1, StatusOnly
<1>5. CASE /\ requests' = [requests EXCEPT ![n].status = "resolved", ![n].applied = TRUE]
           /\ Erase(Keys)
  <2>1. /\ store' \in [Keys -> Contents] /\ expired' \in SUBSET Stored'
        /\ \A k \in Keys : store'[k] = Absent
    BY <1>3, <1>5, EraseFacts
  <2>2. requests[n].op \in {"clear", "deleteStorage"} BY <1>1, <1>2 DEF Asks
  <2>3. committing' \in BOOLEAN BY <1>1, <1>3 DEF Shape, TypeOK
  <2> QED BY <1>0, <1>1, <1>5, <2>1, <2>2, <2>3, Committed
<1> QED BY <1>0, <1>4, <1>5 DEF ClearCompletes

LEMMA ScanCompletesKeeps ==
  ASSUME IInv, ScanCompletes
  PROVE  IInv'
<1>1. /\ Idle /\ txs # <<>> /\ Head(txs).kind \in {"sweep", "scan"}
      /\ sweeping' = (sweeping /\ Head(txs).kind # "sweep")
      /\ UNCHANGED <<initPhase, ready, queue, keyFilter, suspended, closed, committing, store,
                     expired, requests, session, uncleared>>
  BY DEF ScanCompletes, First, initVars, queueVars, tableVars, historyVars
<1>2. Shape BY DEF IInv
<1>3. PICK more \in EvictedForSpace, rescan \in Rescans :
        txs' = Tail(txs) \o (IF expired \cup more = {} \/ closed THEN <<>>
                             ELSE <<Tx("evict", expired \cup more, 0)>>) \o rescan
  BY DEF ScanCompletes
<1> DEFINE evict == IF expired \cup more = {} \/ closed THEN <<>>
                    ELSE <<Tx("evict", expired \cup more, 0)>>
<1>4. more \in SUBSET Keys BY <1>3 DEF EvictedForSpace, Stored
<1>5. /\ evict \in Seq(Transactions)
      /\ \A i \in DOMAIN evict : evict[i].kind \in {"evict", "scan"} /\ evict[i].req = 0
  <2> DEFINE t == Tx("evict", expired \cup more, 0)
  <2>1. expired \cup more \in SUBSET Keys BY <1>2, <1>4 DEF Shape, TypeOK, Stored
  <2>2. 0 \in 0 .. MaxRequests BY BoundsAssumption
  <2>3. t \in Transactions /\ t.kind = "evict" /\ t.req = 0
    BY <2>1, <2>2 DEF Tx, Transactions, TxKinds
  <2> HIDE DEF t
  <2>4. evict = <<>> \/ evict = <<t>> BY DEF t
  <2> HIDE DEF evict
  <2>5. CASE evict = <<>>
    <3>1. DOMAIN evict = {} BY <2>5
    <3> QED BY <2>5, <3>1
  <2>6. CASE evict = <<t>>
    <3>1. DOMAIN evict = {1} /\ evict[1] = t BY <2>6
    <3> QED BY <2>3, <2>6, <3>1
  <2> QED BY <2>4, <2>5, <2>6
<1>6. /\ rescan \in Seq(Transactions)
      /\ \A i \in DOMAIN rescan : rescan[i].kind \in {"evict", "scan"} /\ rescan[i].req = 0
  <2> DEFINE t == Tx("scan", {}, 0)
  <2>1. 0 \in 0 .. MaxRequests BY BoundsAssumption
  <2>2. t \in Transactions /\ t.kind = "scan" /\ t.req = 0
    BY <2>1 DEF Tx, Transactions, TxKinds
  <2>3. rescan = <<>> \/ rescan = <<t>> BY <1>3 DEF Rescans
  <2> HIDE DEF t
  <2>4. CASE rescan = <<>>
    <3>1. DOMAIN rescan = {} BY <2>4
    <3> QED BY <2>4, <3>1
  <2>5. CASE rescan = <<t>>
    <3>1. DOMAIN rescan = {1} /\ rescan[1] = t BY <2>5
    <3> QED BY <2>2, <2>5, <3>1
  <2> QED BY <2>3, <2>4, <2>5
<1>8. PICK extra \in Seq(Transactions) :
        /\ txs' = Tail(txs) \o extra
        /\ \A i \in DOMAIN extra : extra[i].kind \in {"evict", "scan"} /\ extra[i].req = 0
  <2>0. txs' = (Tail(txs) \o evict) \o rescan BY <1>3
  <2> HIDE DEF evict
  <2>1. Tail(txs) \in Seq(Transactions) BY <1>1, <1>2 DEF Shape, TypeOK
  <2>2. txs' = Tail(txs) \o (evict \o rescan)
    BY <1>5, <1>6, <2>0, <2>1
  <2>3. evict \o rescan \in Seq(Transactions) BY <1>5, <1>6
  <2>4. \A i \in DOMAIN (evict \o rescan) :
          \/ i \in DOMAIN evict /\ (evict \o rescan)[i] = evict[i]
          \/ i - Len(evict) \in DOMAIN rescan /\ (evict \o rescan)[i] = rescan[i - Len(evict)]
    BY <1>5, <1>6
  <2> QED BY <1>5, <1>6, <2>2, <2>3, <2>4
<1>7. committing' \in BOOLEAN BY <1>1, <1>2 DEF Shape, TypeOK
<1> QED BY <1>1, <1>2, <1>7, <1>8, SameRequests, SameStore, DoneKeeps

LEMMA ScanAbortsKeeps ==
  ASSUME IInv, ScanAborts
  PROVE  IInv'
<1>1. /\ Idle /\ txs # <<>> /\ Head(txs).kind \in {"sweep", "scan"} /\ txs' = Tail(txs)
      /\ sweeping' = (sweeping /\ Head(txs).kind # "sweep")
      /\ UNCHANGED <<initPhase, ready, queue, keyFilter, suspended, closed, committing, store,
                     expired, requests, session, uncleared>>
  BY DEF ScanAborts, First, initVars, queueVars, tableVars, historyVars
<1>2. Shape BY DEF IInv
<1>3. <<>> \in Seq(Transactions) /\ txs' = Tail(txs) \o <<>> /\ committing' \in BOOLEAN
  BY <1>1, <1>2 DEF Shape, TypeOK
<1> QED BY <1>1, <1>2, <1>3, SameRequests, SameStore, DoneKeeps

LEMMA EvictCompletesKeeps ==
  ASSUME IInv, EvictCompletes
  PROVE  IInv'
<1>1. /\ Idle /\ txs # <<>> /\ Head(txs).kind = "evict" /\ txs' = Tail(txs)
      /\ UNCHANGED <<initPhase, ready, queue, keyFilter, sweeping, suspended, closed, committing,
                     requests, session, uncleared>>
  BY DEF EvictCompletes, First, initVars, queueVars, sweepVars, historyVars
<1>2. Shape BY DEF IInv
<1>3. /\ <<>> \in Seq(Transactions) /\ txs' = Tail(txs) \o <<>> /\ committing' \in BOOLEAN
      /\ sweeping' = (sweeping /\ Head(txs).kind # "sweep")
  BY <1>1, <1>2 DEF Shape, TypeOK
<1>4. /\ store' \in [Keys -> Contents] /\ expired' \in SUBSET Stored'
      /\ \A k \in Keys : store'[k] \in {Absent, store[k]}
  <2>1. CASE Erase(Head(txs).keys) BY <1>2, <2>1, EraseFacts
  <2>2. CASE UNCHANGED <<store, expired>> BY <1>2, <2>2, SameStore
  <2> QED BY <2>1, <2>2 DEF EvictCompletes
<1> QED BY <1>1, <1>2, <1>3, <1>4, SameRequests, DoneKeeps

LEMMA ExpireKeeps ==
  ASSUME IInv, NEW k \in Keys, Expire(k)
  PROVE  IInv'
<1>1. /\ k \in Stored /\ expired' = expired \cup {k}
      /\ UNCHANGED <<initPhase, ready, queue, keyFilter, sweeping, suspended, closed, txs, committing,
                     store, requests, session, uncleared>>
  BY DEF Expire, initVars, queueVars, sweepVars, historyVars
<1>2. Shape BY DEF IInv
<1>3. Shape' BY <1>1, <1>2 DEF Shape, TypeOK, Stored
<1>4. Phases' /\ OneSweep' /\ Belong' /\ ServedInOrder' /\ AnsweredFirst'
  BY <1>1 DEF IInv, Phases, OneSweep, Belong, ServedInOrder, AnsweredFirst, Known
<1>5. Fresh' BY <1>1 DEF IInv, Fresh, LastWrite
<1>6. OwnSession' BY <1>1 DEF IInv, OwnSession, Stored
<1> QED BY <1>3, <1>4, <1>5, <1>6 DEF IInv

--------------------------------------------------------------------------------
(* Executing requests                                                      *)

\* A request asks for one transaction at most, and starts a sweep only when none runs.
Addition(add, req, n) ==
  /\ add \in Seq(Transactions)
  /\ \A i \in DOMAIN add : \/ add[i].kind \in {"sweep", "scan"} /\ add[i].req = 0
                           \/ add[i].req = n /\ Asks(add[i], req)
  /\ \A i, j \in DOMAIN add : add[i].req # 0 /\ add[j].req # 0 => i = j
  /\ \A i, j \in DOMAIN add : add[i].kind = "sweep" /\ add[j].kind = "sweep" => i = j
  /\ (\E i \in DOMAIN add : add[i].kind = "sweep") => ~sweeping

LEMMA SetAsks ==
  ASSUME NEW req \in Requests, NEW n \in 1 .. MaxRequests, req.op = "set",
         NEW scan \in ScanChoices, NEW sweep \in SweepChoices, NEW add,
         add = scan \o <<Tx("put", req.keys, n)>> \o sweep
  PROVE  Addition(add, req, n)
<1> DEFINE sc == Tx("scan", {}, 0)
           sw == Tx("sweep", {}, 0)
           p == Tx("put", req.keys, n)
<1>0. MaxRequests \in Nat /\ n # 0 BY BoundsAssumption
<1>1. sc \in Transactions /\ sc.kind = "scan" /\ sc.req = 0
  BY <1>0 DEF Tx, Transactions, TxKinds
<1>2. sw \in Transactions /\ sw.kind = "sweep" /\ sw.req = 0
  BY <1>0 DEF Tx, Transactions, TxKinds
<1>3. p \in Transactions /\ p.kind = "put" /\ p.req = n /\ Asks(p, req)
  BY <1>0 DEF Tx, Transactions, TxKinds, Requests, Asks
<1>4. scan = <<>> \/ scan = <<sc>> BY DEF ScanChoices
<1>5. sweep = <<>> \/ (sweep = <<sw>> /\ ~sweeping) BY DEF SweepChoices, SweepAllowed
<1>6. add = scan \o <<p>> \o sweep OBVIOUS
<1> HIDE DEF sc, sw, p
<1>7. /\ scan \in Seq(Transactions) /\ sweep \in Seq(Transactions) /\ <<p>> \in Seq(Transactions)
      /\ Len(<<p>>) = 1 /\ <<p>>[1] = p
      /\ \A i \in DOMAIN scan : scan[i] = sc
      /\ \A i \in DOMAIN sweep : sweep[i] = sw /\ i = 1
  <2>1. /\ <<p>> \in Seq(Transactions) /\ Len(<<p>>) = 1 /\ <<p>>[1] = p BY <1>3
  <2>2. scan \in Seq(Transactions) /\ \A i \in DOMAIN scan : scan[i] = sc
    <3>1. <<sc>> \in Seq(Transactions) /\ DOMAIN <<sc>> = {1} /\ <<sc>>[1] = sc BY <1>1
    <3>2. CASE scan = <<>> BY <3>2
    <3>3. CASE scan = <<sc>>
      <4>1. \A i \in {1} : <<sc>>[i] = sc BY <3>1
      <4> QED BY <3>1, <3>3, <4>1
    <3> QED BY <1>4, <3>2, <3>3
  <2>3. sweep \in Seq(Transactions) /\ \A i \in DOMAIN sweep : sweep[i] = sw /\ i = 1
    <3>1. <<sw>> \in Seq(Transactions) /\ DOMAIN <<sw>> = {1} /\ <<sw>>[1] = sw BY <1>2
    <3>2. CASE sweep = <<>> BY <3>2
    <3>3. CASE sweep = <<sw>>
      <4>1. \A i \in {1} : <<sw>>[i] = sw BY <3>1
      <4> QED BY <3>1, <3>3, <4>1
    <3> QED BY <1>5, <3>2, <3>3
  <2> QED BY <2>1, <2>2, <2>3
<1> DEFINE mid == <<p>>
<1>8. mid \in Seq(Transactions) /\ Len(mid) = 1 /\ mid[1] = p BY <1>7
<1> HIDE DEF mid
<1> DEFINE front == scan \o mid
<1>9. /\ front \in Seq(Transactions) /\ Len(front) = Len(scan) + 1
      /\ \A i \in DOMAIN front : \/ i \in DOMAIN scan /\ front[i] = scan[i]
                                 \/ i = Len(scan) + 1 /\ front[i] = p
  <2>1. front \in Seq(Transactions) /\ Len(front) = Len(scan) + 1
    <3>1. scan \in Seq(Transactions) /\ mid \in Seq(Transactions) BY <1>7, <1>8
    <3>2. \A S : \A s, t \in Seq(S) : s \o t \in Seq(S) /\ Len(s \o t) = Len(s) + Len(t) OBVIOUS
    <3>3. front \in Seq(Transactions) /\ Len(front) = Len(scan) + Len(mid) BY <3>1, <3>2, Zenon
    <3> QED BY <1>8, <3>3
  <2>2. \A i \in DOMAIN front : IF i <= Len(scan) THEN front[i] = scan[i] ELSE front[i] = mid[i - Len(scan)]
    BY <1>7, <1>8
  <2> HIDE DEF front
  <2>3. ASSUME NEW i \in DOMAIN front
        PROVE  \/ i \in DOMAIN scan /\ front[i] = scan[i]
               \/ i = Len(scan) + 1 /\ front[i] = p
    <3>1. i \in 1 .. Len(scan) + 1 /\ Len(scan) \in Nat BY <1>7, <2>1
    <3>2. CASE i <= Len(scan)
      <4>1. i \in DOMAIN scan BY <1>7, <3>1, <3>2
      <4> QED BY <2>2, <3>2, <4>1
    <3>3. CASE i = Len(scan) + 1
      <4>1. ~ (i <= Len(scan)) /\ i - Len(scan) = 1 BY <3>1, <3>3
      <4> QED BY <1>8, <2>2, <3>3, <4>1
    <3> QED BY <3>1, <3>2, <3>3
  <2> QED BY <2>1, <2>3
<1>10. add = front \o sweep BY <1>6 DEF mid
<1> HIDE DEF front
<1>11. add \in Seq(Transactions) BY <1>7, <1>9, <1>10
<1>12. \A i \in DOMAIN add : \/ add[i] = sc
                             \/ add[i] = p /\ i = Len(scan) + 1
                             \/ add[i] = sw /\ i = Len(scan) + 2 /\ ~sweeping
  <2>4. \A i \in DOMAIN add : \/ i \in DOMAIN front /\ add[i] = front[i]
                              \/ i - Len(front) \in DOMAIN sweep /\ add[i] = sweep[i - Len(front)]
    BY <1>7, <1>9, <1>10
  <2>5. ASSUME NEW i \in DOMAIN add
        PROVE  \/ add[i] = sc
               \/ add[i] = p /\ i = Len(scan) + 1
               \/ add[i] = sw /\ i = Len(scan) + 2 /\ ~sweeping
    <3>1. CASE i \in DOMAIN front /\ add[i] = front[i] BY <1>7, <1>9, <3>1
    <3>2. CASE i - Len(front) \in DOMAIN sweep /\ add[i] = sweep[i - Len(front)]
      <4>1. i - Len(front) = 1 /\ add[i] = sw BY <1>7, <3>2
      <4>2. i = Len(scan) + 2 BY <1>7, <1>9, <1>11, <4>1
      <4>3. ~sweeping BY <1>5, <3>2
      <4> QED BY <4>1, <4>2, <4>3
    <3> QED BY <2>4, <3>1, <3>2
  <2> QED BY <2>5, Zenon
<1>13. \A i \in DOMAIN add : \/ add[i].kind \in {"sweep", "scan"} /\ add[i].req = 0
                             \/ add[i].req = n /\ Asks(add[i], req)
  BY <1>1, <1>2, <1>3, <1>12
<1>14. \A i \in DOMAIN add : /\ add[i].req # 0 => i = Len(scan) + 1
                             /\ add[i].kind = "sweep" => i = Len(scan) + 2 /\ ~sweeping
  BY <1>0, <1>1, <1>2, <1>3, <1>12
<1> QED BY <1>11, <1>13, <1>14, Zenon DEF Addition

LEMMA OutcomeAsks ==
  ASSUME Shape, NEW req \in Requests, NEW n \in 1 .. MaxRequests, NEW outcome \in Outcomes(req, n),
         NEW add, add = outcome.add
  PROVE  /\ outcome.status \in {"pending", "resolved", "rejected"}
         /\ Addition(add, req, n)
<1>0. n # 0 /\ n \in 0 .. MaxRequests BY BoundsAssumption
<1>1. \A s, a : Outcome(s, a).status = s /\ Outcome(s, a).add = a BY DEF Outcome
<1>2. ASSUME NEW s \in {"pending", "resolved", "rejected"}, outcome = Outcome(s, <<>>)
      PROVE  outcome.status \in {"pending", "resolved", "rejected"} /\ add = <<>>
  BY <1>1, <1>2
<1>3. ASSUME NEW t \in Transactions, t.req = n, Asks(t, req), outcome = Outcome("pending", <<t>>)
      PROVE  outcome.status \in {"pending", "resolved", "rejected"} /\ add = <<t>> /\ t.kind # "sweep"
  BY <1>1, <1>3 DEF Asks
<1>4. \A t : Submit(t) \in {Outcome("rejected", <<>>), Outcome("pending", <<t>>)} BY DEF Submit
<1>5. \/ outcome \in {Outcome("resolved", <<>>), Outcome("rejected", <<>>)}
      \/ \E t \in Transactions : t.req = n /\ Asks(t, req) /\ outcome = Outcome("pending", <<t>>)
      \/ req.op = "set" /\ \E scan \in ScanChoices, sweep \in SweepChoices :
           outcome = Outcome("pending", scan \o <<Tx("put", req.keys, n)>> \o sweep)
  <2>0. ASSUME NEW t \in Transactions, t.req = n, Asks(t, req), outcome = Submit(t)
        PROVE  \/ outcome \in {Outcome("resolved", <<>>), Outcome("rejected", <<>>)}
               \/ \E u \in Transactions : u.req = n /\ Asks(u, req) /\ outcome = Outcome("pending", <<u>>)
    BY <1>4, <2>0
  <2>1. CASE req.op = "get"
    <3> DEFINE t == Tx("get", Wanted(req), n)
    <3>1. t \in Transactions /\ t.req = n /\ Asks(t, req)
      BY <1>0, <2>1 DEF Tx, Transactions, TxKinds, Wanted, Requests, Asks
    <3>2. outcome \in GetAllInternal(req, n) BY <2>1 DEF Outcomes
    <3>3. outcome = Outcome("resolved", <<>>) \/ outcome = Submit(t) BY <3>2 DEF GetAllInternal
    <3> QED BY <2>0, <3>1, <3>3
  <2>2. CASE req.op = "set"
    <3>1. outcome \in SetAllInternal(req, n) BY <2>2 DEF Outcomes
    <3> QED BY <2>2, <3>1 DEF SetAllInternal
  <2>3. CASE req.op = "setTooLarge"
    <3>1. outcome \in SetAllTooLarge(req, n) BY <2>3 DEF Outcomes
    <3> QED BY <3>1 DEF SetAllTooLarge
  <2>4. CASE req.op = "remove"
    <3> DEFINE t == Tx("remove", req.keys, n)
    <3>1. t \in Transactions /\ t.req = n /\ Asks(t, req)
      BY <1>0, <2>4 DEF Tx, Transactions, TxKinds, Requests, Asks
    <3>2. outcome \in RemoveAllInternal(req, n) BY <2>4 DEF Outcomes
    <3>3. outcome = Submit(t) BY <3>2 DEF RemoveAllInternal
    <3> QED BY <2>0, <3>1, <3>3
  <2>5. CASE req.op = "clear"
    <3> DEFINE t == Tx("clear", Keys, n)
    <3>1. t \in Transactions /\ t.req = n /\ Asks(t, req)
      BY <1>0, <2>5 DEF Tx, Transactions, TxKinds, Asks
    <3>2. outcome \in ClearInternal(req, n) BY <2>5 DEF Outcomes
    <3>3. outcome = Submit(t) BY <3>2 DEF ClearInternal
    <3> QED BY <2>0, <3>1, <3>3
  <2>6. CASE req.op = "deleteStorage"
    <3> DEFINE t == Tx("drop", Keys, n)
    <3>1. t \in Transactions /\ t.req = n /\ Asks(t, req)
      BY <1>0, <2>6 DEF Tx, Transactions, TxKinds, Asks
    <3>2. outcome \in DeleteStorageInternal(req, n) BY <2>6 DEF Outcomes
    <3>3. outcome = Outcome("pending", <<t>>) BY <3>2 DEF DeleteStorageInternal
    <3> QED BY <3>1, <3>3
  <2> QED BY <2>1, <2>2, <2>3, <2>4, <2>5, <2>6 DEF Requests, Ops
<1>6. CASE outcome \in {Outcome("resolved", <<>>), Outcome("rejected", <<>>)}
  <2>1. outcome.status \in {"pending", "resolved", "rejected"} /\ add = <<>> BY <1>2, <1>6
  <2> QED BY <2>1 DEF Addition
<1>7. CASE \E t \in Transactions : t.req = n /\ Asks(t, req) /\ outcome = Outcome("pending", <<t>>)
  <2>1. PICK t \in Transactions : t.req = n /\ Asks(t, req) /\ outcome = Outcome("pending", <<t>>) BY <1>7
  <2>2. outcome.status \in {"pending", "resolved", "rejected"} /\ add = <<t>> /\ t.kind # "sweep"
    BY <1>3, <2>1
  <2>3. <<t>> \in Seq(Transactions) /\ \A i \in DOMAIN <<t>> : i = 1 /\ <<t>>[i] = t OBVIOUS
  <2>4. add \in Seq(Transactions) /\ \A i \in DOMAIN add : i = 1 /\ add[i] = t BY <2>2, <2>3
  <2> QED BY <2>1, <2>2, <2>4 DEF Addition
<1>8. CASE req.op = "set" /\ \E scan \in ScanChoices, sweep \in SweepChoices :
             outcome = Outcome("pending", scan \o <<Tx("put", req.keys, n)>> \o sweep)
  <2>1. PICK scan \in ScanChoices, sweep \in SweepChoices :
          outcome = Outcome("pending", scan \o <<Tx("put", req.keys, n)>> \o sweep)
    BY <1>8, Zenon
  <2>2. outcome.status = "pending" /\ add = scan \o <<Tx("put", req.keys, n)>> \o sweep BY <1>1, <2>1
  <2>3. outcome.status \in {"pending", "resolved", "rejected"} BY <2>2
  <2>4. Addition(add, req, n)
    <3>1. req.op = "set" BY <1>8
    <3>2. add = scan \o <<Tx("put", req.keys, n)>> \o sweep BY <2>2
    <3> QED BY <2>1, <3>1, <3>2, SetAsks
  <2> QED BY <2>3, <2>4
<1> QED BY <1>5, <1>6, <1>7, <1>8

ExecutionOf(req, n, outcome) ==
  /\ Execute(req, outcome)
  /\ initPhase \in {"executing", "complete"} /\ UNCHANGED <<session, uncleared>>
  /\ DOMAIN requests \subseteq DOMAIN requests' /\ requests' \in Seq(Requests)
  /\ \A m \in DOMAIN requests : /\ requests'[m].op = requests[m].op
                                /\ requests'[m].keys = requests[m].keys
                                /\ requests'[m].session = requests[m].session
  /\ \A m \in DOMAIN requests' : Known(m)' => m \in DOMAIN requests /\ Known(m)
  /\ requests'[n].op = req.op /\ requests'[n].keys = req.keys /\ requests'[n].session = session
  /\ queue' \in Seq(1 .. MaxRequests)
  /\ \A j \in DOMAIN queue' : queue'[j] \in DOMAIN requests' /\ requests'[queue'[j]].session = session
  /\ \A i, j \in DOMAIN queue' : i < j => queue'[i] < queue'[j]
  /\ \A i \in DOMAIN txs, j \in DOMAIN queue' : txs[i].req < queue'[j]
  /\ \A m \in DOMAIN requests, j \in DOMAIN queue' : Known(m) => m < queue'[j]
  /\ \A l \in DOMAIN txs : txs[l].req < n
  /\ \A j \in DOMAIN queue' : n < queue'[j]
  /\ \A m \in DOMAIN requests : Known(m) => m < n
Executed ==
  /\ txs' \in Seq(Transactions) /\ Belong' /\ ServedInOrder' /\ AnsweredFirst' /\ OneSweep'
  /\ sweeping' \in BOOLEAN /\ closed' \in BOOLEAN
  /\ \A i \in DOMAIN txs' : txs'[i].kind \notin {"getKeys", "initClear"}

LEMMA ExecuteKeeps ==
  ASSUME IInv, NEW req \in Requests, NEW n \in DOMAIN requests', n \in 1 .. MaxRequests,
         NEW outcome \in Outcomes(req, n), ExecutionOf(req, n, outcome)
  PROVE  Executed
<1> SUFFICES /\ txs' \in Seq(Transactions) /\ Belong' /\ ServedInOrder' /\ AnsweredFirst' /\ OneSweep'
             /\ sweeping' \in BOOLEAN /\ closed' \in BOOLEAN
             /\ \A i \in DOMAIN txs' : txs'[i].kind \notin {"getKeys", "initClear"}
  BY DEF Executed
<1> /\ Execute(req, outcome)
    /\ initPhase \in {"executing", "complete"} /\ UNCHANGED <<session, uncleared>>
    /\ DOMAIN requests \subseteq DOMAIN requests' /\ requests' \in Seq(Requests)
    /\ \A m \in DOMAIN requests : /\ requests'[m].op = requests[m].op
                                  /\ requests'[m].keys = requests[m].keys
                                  /\ requests'[m].session = requests[m].session
    /\ \A m \in DOMAIN requests' : Known(m)' => m \in DOMAIN requests /\ Known(m)
    /\ requests'[n].op = req.op /\ requests'[n].keys = req.keys /\ requests'[n].session = session
    /\ queue' \in Seq(1 .. MaxRequests)
    /\ \A j \in DOMAIN queue' : queue'[j] \in DOMAIN requests' /\ requests'[queue'[j]].session = session
    /\ \A i, j \in DOMAIN queue' : i < j => queue'[i] < queue'[j]
    /\ \A i \in DOMAIN txs, j \in DOMAIN queue' : txs[i].req < queue'[j]
    /\ \A m \in DOMAIN requests, j \in DOMAIN queue' : Known(m) => m < queue'[j]
    /\ \A l \in DOMAIN txs : txs[l].req < n
    /\ \A j \in DOMAIN queue' : n < queue'[j]
    /\ \A m \in DOMAIN requests : Known(m) => m < n
  BY DEF ExecutionOf
<1>0. PICK add : add = outcome.add OBVIOUS
<1>1. txs \in Seq(Transactions) /\ Shape BY DEF IInv, Shape, TypeOK
<1>2. /\ add \in Seq(Transactions)
      /\ \A i \in DOMAIN add : \/ add[i].kind \in {"sweep", "scan"} /\ add[i].req = 0
                               \/ add[i].req = n /\ Asks(add[i], req)
      /\ \A i, j \in DOMAIN add : add[i].req # 0 /\ add[j].req # 0 => i = j
      /\ \A i, j \in DOMAIN add : add[i].kind = "sweep" /\ add[j].kind = "sweep" => i = j
      /\ (\E i \in DOMAIN add : add[i].kind = "sweep") => ~sweeping
  <2>1. Addition(add, req, n) BY <1>0, <1>1, OutcomeAsks
  <2> QED BY <2>1 DEF Addition
<1>3. /\ txs' = txs \o add
      /\ sweeping' = (sweeping \/ \E i \in DOMAIN add : add[i].kind = "sweep")
      /\ closed' = (closed \/ req.op = "deleteStorage")
  BY <1>0 DEF Execute
<1>4. sweeping' \in BOOLEAN /\ closed' \in BOOLEAN BY <1>1, <1>3 DEF Shape, TypeOK
<1>5. txs' \in Seq(Transactions) /\ Belong' /\ ServedInOrder' /\ AnsweredFirst'
  <2>1. ASSUME NEW i \in DOMAIN add
        PROVE  \/ add[i].kind \in {"getKeys", "initClear", "sweep", "scan"} /\ add[i].req = 0
               \/ /\ add[i].req \in DOMAIN requests' /\ Asks(add[i], requests'[add[i].req])
                  /\ requests'[add[i].req].session = session
                  /\ \A l \in DOMAIN txs : txs[l].req < add[i].req
                  /\ \A j \in DOMAIN queue' : add[i].req < queue'[j]
                  /\ \A m \in DOMAIN requests : Known(m) => m < add[i].req
    <3>1. CASE add[i].kind \in {"sweep", "scan"} /\ add[i].req = 0 BY <3>1
    <3>2. CASE add[i].req = n /\ Asks(add[i], req)
      <4>1. Asks(add[i], requests'[n]) BY <3>2 DEF Asks
      <4> QED BY <3>2, <4>1
    <3> QED BY <1>2, <3>1, <3>2
  <2> QED BY <1>2, <1>3, <2>1, AppendKeeps
<1>6. \A i \in DOMAIN txs' : \/ i \in DOMAIN txs /\ txs'[i] = txs[i]
                             \/ i - Len(txs) \in DOMAIN add /\ txs'[i] = add[i - Len(txs)]
  BY <1>1, <1>2, <1>3
<1>7. OneSweep'
  <2>1. \A i, j \in DOMAIN txs' : txs'[i].kind = "sweep" /\ txs'[j].kind = "sweep" => i = j
    <3> SUFFICES ASSUME NEW i \in DOMAIN txs', NEW j \in DOMAIN txs',
                        txs'[i].kind = "sweep", txs'[j].kind = "sweep"
                 PROVE  i = j
      OBVIOUS
    <3>0. i \in Int /\ j \in Int /\ Len(txs) \in Nat BY <1>1, <1>5
    <3>1. CASE sweeping
      <4>1. \A l \in DOMAIN add : add[l].kind # "sweep" BY <1>2, <3>1
      <4>2. i \in DOMAIN txs /\ txs[i].kind = "sweep" /\ j \in DOMAIN txs /\ txs[j].kind = "sweep"
        BY <1>6, <4>1
      <4> QED BY <4>2 DEF IInv, OneSweep
    <3>2. CASE ~sweeping
      <4>1. \A l \in DOMAIN txs : txs[l].kind # "sweep" BY <3>2 DEF IInv, OneSweep
      <4>2. /\ i - Len(txs) \in DOMAIN add /\ add[i - Len(txs)].kind = "sweep"
            /\ j - Len(txs) \in DOMAIN add /\ add[j - Len(txs)].kind = "sweep"
        BY <1>6, <4>1
      <4>3. i - Len(txs) = j - Len(txs) BY <1>2, <4>2
      <4> QED BY <3>0, <4>3
    <3> QED BY <3>1, <3>2
  <2>2. sweeping' <=> \E i \in DOMAIN txs' : txs'[i].kind = "sweep"
    <3>1. sweeping <=> \E i \in DOMAIN txs : txs[i].kind = "sweep" BY DEF IInv, OneSweep
    <3>2. \A i \in DOMAIN txs : i \in DOMAIN txs' /\ txs'[i] = txs[i] BY <1>1, <1>2, <1>3
    <3>3. \A i \in DOMAIN add : i + Len(txs) \in DOMAIN txs' /\ txs'[i + Len(txs)] = add[i]
      BY <1>1, <1>2, <1>3
    <3>4. ASSUME sweeping' PROVE \E i \in DOMAIN txs' : txs'[i].kind = "sweep"
      <4>1. CASE sweeping BY <3>1, <3>2, <4>1
      <4>2. CASE \E i \in DOMAIN add : add[i].kind = "sweep" BY <3>3, <4>2
      <4> QED BY <1>3, <3>4, <4>1, <4>2
    <3>5. ASSUME NEW i \in DOMAIN txs', txs'[i].kind = "sweep" PROVE sweeping'
      <4>1. CASE i \in DOMAIN txs /\ txs'[i] = txs[i] BY <1>3, <3>1, <3>5, <4>1
      <4>2. CASE i - Len(txs) \in DOMAIN add /\ txs'[i] = add[i - Len(txs)] BY <1>3, <3>5, <4>2
      <4> QED BY <1>6, <4>1, <4>2
    <3> QED BY <3>4, <3>5
  <2> QED BY <2>1, <2>2 DEF OneSweep
<1>8. \A i \in DOMAIN txs' : txs'[i].kind \notin {"getKeys", "initClear"}
  <2>1. \A i \in DOMAIN txs : txs[i].kind \notin {"getKeys", "initClear"} BY DEF IInv, Phases
  <2>2. \A i \in DOMAIN add : add[i].kind \notin {"getKeys", "initClear"} BY <1>2 DEF Asks
  <2> QED BY <1>6, <2>1, <2>2
<1> QED BY <1>4, <1>5, <1>7, <1>8

\* A new request changes nothing for those made before.
LEMMA AddRequest ==
  ASSUME IInv, Len(requests) < MaxRequests, NEW r \in Requests, r.applied = FALSE, r.result = Nothing,
         requests' = Append(requests, r), UNCHANGED <<initPhase, store, session, uncleared>>
  PROVE  /\ requests' \in Seq(Requests) /\ Len(requests') <= MaxRequests
         /\ DOMAIN requests \subseteq DOMAIN requests'
         /\ Len(requests) + 1 \in DOMAIN requests' /\ Len(requests) + 1 \in 1 .. MaxRequests
         /\ requests'[Len(requests) + 1] = r
         /\ \A m \in DOMAIN requests : requests'[m] = requests[m] /\ m < Len(requests) + 1
         /\ \A m \in DOMAIN requests' : Known(m)' => m \in DOMAIN requests /\ Known(m)
         /\ Fresh' /\ OwnSession'
<1>1. requests \in Seq(Requests) /\ MaxRequests \in Nat BY BoundsAssumption DEF IInv, Shape, TypeOK
<1>2. PICK n \in Nat : n = Len(requests) + 1 BY <1>1
<1>3. /\ requests' \in Seq(Requests) /\ Len(requests') = n
      /\ n \in 1 .. MaxRequests /\ requests'[n] = r
      /\ DOMAIN requests' = DOMAIN requests \cup {n}
      /\ \A m \in DOMAIN requests : requests'[m] = requests[m] /\ m < n
  BY <1>1, <1>2
<1>4. ~Known(n)'
  <2>1. \A k \in Keys : r.result[k] = Absent BY DEF Nothing
  <2> QED BY <1>3, <2>1 DEF Known
<1>5. \A m \in DOMAIN requests' : Known(m)' => m \in DOMAIN requests /\ Known(m)
  <2>1. \A m \in DOMAIN requests : Known(m)' = Known(m) BY <1>3 DEF Known
  <2> QED BY <1>3, <1>4, <2>1
<1>6. \A m \in DOMAIN requests' : requests'[m].applied \in BOOLEAN
  <2>1. \A m \in DOMAIN requests' : requests'[m] \in Requests BY <1>3
  <2> QED BY <2>1 DEF Requests
<1>7. Fresh'
  <2>1. ASSUME NEW m \in DOMAIN requests PROVE \A k \in Keys : LastWrite(m, k)' = LastWrite(m, k)
    <3>1. m \in Nat /\ 1 .. m - 1 \subseteq DOMAIN requests BY <1>1
    <3>2. \A i \in 1 .. m - 1 : requests'[i] = requests[i] BY <1>3, <3>1
    <3>3. \A i \in 1 .. m - 1 : requests'[i].applied <=> (i < m /\ requests[i].applied)
      BY <1>3, <1>6, <3>1
    <3> QED BY <3>1, <3>2, <3>3, LastWriteKept
  <2>2. \A k \in Keys : LastWrite(n + 1, k)' = LastWrite(n, k)
    <3>1. n + 1 \in Nat /\ (n + 1) - 1 = n /\ 1 .. n - 1 = DOMAIN requests BY <1>1, <1>2
    <3>2. \A i \in 1 .. n : i \in DOMAIN requests \/ i = n BY <1>1, <1>2
    <3>3. \A i \in 1 .. n : requests'[i].applied <=> (i < n /\ requests[i].applied)
      BY <1>3, <1>6, <3>2
    <3>4. \A i \in 1 .. n - 1 : requests'[i] = requests[i] /\ i < n + 1 BY <1>2, <1>3, <3>1
    <3> QED BY <3>1, <3>3, <3>4, LastWriteKept
  <2>3. \A k \in Keys : store[k] \in {Absent, LastWrite(n, k)} BY <1>2 DEF IInv, Fresh
  <2>4. n + 1 = Len(requests') + 1 /\ \A k \in Keys : store'[k] \in {Absent, LastWrite(n + 1, k)'}
    BY <1>3, <2>2, <2>3
  <2>5. ASSUME NEW m \in DOMAIN requests', NEW k \in Keys
        PROVE  requests'[m].result[k] \in {Absent, LastWrite(m, k)'}
    <3>1. CASE m \in DOMAIN requests BY <1>3, <2>1, <3>1 DEF IInv, Fresh
    <3>2. CASE m = n
      <4>1. r.result[k] = Absent BY DEF Nothing
      <4> QED BY <1>3, <3>2, <4>1
    <3> QED BY <1>3, <3>1, <3>2
  <2> QED BY <2>4, <2>5 DEF Fresh
<1>8. OwnSession'
  <2> SUFFICES ASSUME ClearOnInit
               PROVE /\ initPhase' \in {"flipping", "executing", "complete"} =>
                          \A k \in Keys : store'[k] # Absent /\ session' \notin uncleared' =>
                            store'[k] # Old /\ requests'[store'[k]].session = session'
                     /\ \A m \in DOMAIN requests', k \in Keys :
                          requests'[m].result[k] # Absent /\ requests'[m].session \notin uncleared' =>
                            /\ requests'[m].result[k] # Old
                            /\ requests'[requests'[m].result[k]].session = requests'[m].session
    BY DEF OwnSession, Stored
  <2>1. initPhase \in {"flipping", "executing", "complete"} =>
          \A k \in Keys : store[k] # Absent /\ session \notin uncleared =>
            store[k] # Old /\ store[k] \in DOMAIN requests /\ requests[store[k]].session = session
    BY Named DEF IInv, OwnSession, Stored
  <2>2. \A m \in DOMAIN requests, k \in Keys :
          requests[m].result[k] # Absent /\ requests[m].session \notin uncleared =>
            /\ requests[m].result[k] # Old /\ requests[m].result[k] \in DOMAIN requests
            /\ requests[requests[m].result[k]].session = requests[m].session
    BY Named DEF IInv, OwnSession
  <2>3. \A k \in Keys : r.result[k] = Absent BY DEF Nothing
  <2>4. initPhase' \in {"flipping", "executing", "complete"} =>
          \A k \in Keys : store'[k] # Absent /\ session' \notin uncleared' =>
            store'[k] # Old /\ requests'[store'[k]].session = session'
    BY <1>3, <2>1
  <2>5. \A m \in DOMAIN requests', k \in Keys :
          requests'[m].result[k] # Absent /\ requests'[m].session \notin uncleared' =>
            /\ requests'[m].result[k] # Old
            /\ requests'[requests'[m].result[k]].session = requests'[m].session
    <3> SUFFICES ASSUME NEW m \in DOMAIN requests', NEW k \in Keys, requests'[m].result[k] # Absent,
                        requests'[m].session \notin uncleared'
                 PROVE  /\ requests'[m].result[k] # Old
                        /\ requests'[requests'[m].result[k]].session = requests'[m].session
      OBVIOUS
    <3>1. m \in DOMAIN requests BY <1>3, <2>3
    <3> QED BY <1>3, <2>2, <3>1
  <2> QED BY <2>4, <2>5
<1> QED BY <1>2, <1>3, <1>5, <1>7, <1>8

LEMMA NewRequestFacts ==
  ASSUME Shape, NEW call \in Calls, NEW s \in {"pending", "resolved", "rejected"},
         NEW r, r = [NewRequest(call) EXCEPT !.status = s]
  PROVE  /\ NewRequest(call) \in Requests /\ r \in Requests
         /\ r.op = NewRequest(call).op /\ r.keys = NewRequest(call).keys
         /\ r.session = session /\ r.applied = FALSE /\ r.result = Nothing
<1>1. call.op \in Ops /\ call.keys \in SUBSET Keys BY CallsAssumption
<1>2. Nothing \in [Keys -> Contents] BY DEF Nothing, Contents
<1>3. session \in 0 .. MaxReloads BY DEF Shape, TypeOK
<1> QED BY <1>1, <1>2, <1>3 DEF NewRequest, Requests

LEMMA RequestWhenReadyKeeps ==
  ASSUME IInv, NEW call \in Calls, RequestWhenReady(call)
  PROVE  IInv'
<1> DEFINE req == NewRequest(call)
           n == Len(requests) + 1
<1>1. /\ Idle /\ Len(requests) + 1 <= MaxRequests /\ ready = "true"
      /\ UNCHANGED <<ready, initPhase, queue, keyFilter, suspended, committing, store, expired, session, uncleared>>
  BY DEF RequestWhenReady, initVars, queueVars, tableVars
<1>2. PICK outcome \in Outcomes(req, n) :
        Execute(req, outcome) /\ requests' = Append(requests, [req EXCEPT !.status = outcome.status])
  BY DEF RequestWhenReady
<1>3. Shape /\ requests \in Seq(Requests) /\ MaxRequests \in Nat /\ initPhase \in InitPhases
      /\ txs \in Seq(Transactions)
  BY BoundsAssumption DEF IInv, Shape, TypeOK
<1>4. initPhase = "complete" /\ queue = <<>> BY <1>1, <1>3 DEF IInv, Phases, Idle, InitPhases
<1>5. Len(requests) < MaxRequests /\ n \in 1 .. MaxRequests BY <1>1, <1>3
<1>6. PICK r : r = [req EXCEPT !.status = outcome.status] OBVIOUS
<1>7. req \in Requests BY <1>3, NewRequestFacts
<1> HIDE DEF req
<1>8. outcome.status \in {"pending", "resolved", "rejected"} BY <1>3, <1>5, <1>7, OutcomeAsks
<1>9. /\ r \in Requests /\ r.op = req.op /\ r.keys = req.keys
      /\ r.session = session /\ r.applied = FALSE /\ r.result = Nothing
  BY <1>3, <1>6, <1>8, NewRequestFacts DEF req
<1>10. requests' = Append(requests, r) BY <1>2, <1>6
<1>11. /\ requests' \in Seq(Requests) /\ Len(requests') <= MaxRequests
       /\ DOMAIN requests \subseteq DOMAIN requests'
       /\ n \in DOMAIN requests' /\ requests'[n] = r
       /\ \A m \in DOMAIN requests : requests'[m] = requests[m] /\ m < n
       /\ \A m \in DOMAIN requests' : Known(m)' => m \in DOMAIN requests /\ Known(m)
       /\ Fresh' /\ OwnSession'
  BY <1>1, <1>5, <1>9, <1>10, AddRequest
<1>12. \A l \in DOMAIN txs : txs[l].req < n
  <2>1. \A l \in DOMAIN txs : txs[l].req = 0 \/ txs[l].req \in DOMAIN requests BY DEF IInv, Belong
  <2> QED BY <1>5, <1>11, <2>1
<1> HIDE DEF n
<1>13. /\ txs' \in Seq(Transactions) /\ Belong' /\ ServedInOrder' /\ AnsweredFirst' /\ OneSweep'
       /\ sweeping' \in BOOLEAN /\ closed' \in BOOLEAN
       /\ \A i \in DOMAIN txs' : txs'[i].kind \notin {"getKeys", "initClear"}
  <2>1. queue' = <<>> /\ queue' \in Seq(1 .. MaxRequests) /\ DOMAIN queue' = {} BY <1>1, <1>4
  <2>2. ExecutionOf(req, n, outcome)
    BY <1>1, <1>2, <1>3, <1>4, <1>5, <1>9, <1>11, <1>12, <2>1 DEF ExecutionOf
  <2>3. Executed BY <1>3, <1>5, <1>7, <1>11, <2>2, ExecuteKeeps, Zenon
  <2> QED BY <2>3, Zenon DEF Executed
<1>14. Phases' BY <1>1, <1>4, <1>13 DEF Phases
<1>15. Shape' BY <1>1, <1>3, <1>11, <1>13 DEF Shape, TypeOK, Stored
<1> QED BY <1>11, <1>13, <1>14, <1>15 DEF IInv

LEMMA RequestWhenFailedKeeps ==
  ASSUME IInv, NEW call \in Calls, RequestWhenFailed(call)
  PROVE  IInv'
<1>1. /\ Len(requests) < MaxRequests
      /\ UNCHANGED <<ready, initPhase, queue, keyFilter, sweeping, suspended, closed, txs, committing,
                     store, expired, session, uncleared>>
  BY DEF RequestWhenFailed, initVars, queueVars, sweepVars, tableVars
<1>2. PICK r : r = [NewRequest(call) EXCEPT !.status = "rejected"] OBVIOUS
<1>3. Shape BY DEF IInv
<1>4. r \in Requests /\ r.applied = FALSE /\ r.result = Nothing BY <1>2, <1>3, NewRequestFacts
<1>5. requests' = Append(requests, r) BY <1>2 DEF RequestWhenFailed
<1>6. /\ requests' \in Seq(Requests) /\ Len(requests') <= MaxRequests
      /\ DOMAIN requests \subseteq DOMAIN requests'
      /\ \A m \in DOMAIN requests : requests'[m] = requests[m]
      /\ \A m \in DOMAIN requests' : Known(m)' => m \in DOMAIN requests /\ Known(m)
      /\ Fresh' /\ OwnSession'
  BY <1>1, <1>4, <1>5, AddRequest
<1>7. Belong' /\ ServedInOrder' /\ AnsweredFirst' BY <1>1, <1>6, StayKeeps
<1>8. Phases' /\ OneSweep' BY <1>1 DEF IInv, Phases, OneSweep
<1>9. Shape' BY <1>1, <1>3, <1>6 DEF Shape, TypeOK, Stored
<1> QED BY <1>6, <1>7, <1>8, <1>9 DEF IInv

LEMMA RequestWhenInitializingKeeps ==
  ASSUME IInv, NEW call \in Calls, RequestWhenInitializing(call)
  PROVE  IInv'
<1> DEFINE n == Len(requests) + 1
<1>1. /\ Len(requests) < MaxRequests /\ ready = "undefined" /\ queue' = Append(queue, n)
      /\ UNCHANGED <<ready, initPhase, keyFilter, sweeping, suspended, closed, txs, committing,
                     store, expired, session, uncleared>>
  BY DEF RequestWhenInitializing, initVars, sweepVars, tableVars
<1>2. PICK r : r = NewRequest(call) OBVIOUS
<1>3. Shape /\ queue \in Seq(1 .. MaxRequests) /\ requests \in Seq(Requests) /\ txs \in Seq(Transactions)
  BY DEF IInv, Shape, TypeOK
<1>4. r \in Requests /\ r.applied = FALSE /\ r.result = Nothing /\ r.session = session
  BY <1>2, <1>3, NewRequestFacts DEF NewRequest
<1>5. requests' = Append(requests, r) BY <1>2 DEF RequestWhenInitializing
<1>6. /\ requests' \in Seq(Requests) /\ Len(requests') <= MaxRequests
      /\ DOMAIN requests \subseteq DOMAIN requests'
      /\ n \in DOMAIN requests' /\ n \in 1 .. MaxRequests /\ requests'[n] = r
      /\ \A m \in DOMAIN requests : requests'[m] = requests[m] /\ m < n
      /\ \A m \in DOMAIN requests' : Known(m)' => m \in DOMAIN requests /\ Known(m)
      /\ Fresh' /\ OwnSession'
  BY <1>1, <1>4, <1>5, AddRequest
<1>7. \A l \in DOMAIN txs : txs[l].req < n
  <2>1. \A l \in DOMAIN txs : txs[l].req = 0 \/ txs[l].req \in DOMAIN requests BY DEF IInv, Belong
  <2> QED BY <1>6, <2>1
<1>8. \A j \in DOMAIN queue : queue[j] \in DOMAIN requests /\ requests[queue[j]].session = session
  BY DEF IInv, Belong
<1> HIDE DEF n
<1>9. /\ queue' \in Seq(1 .. MaxRequests)
      /\ \A j \in DOMAIN queue' : \/ j \in DOMAIN queue /\ queue'[j] = queue[j]
                                  \/ queue'[j] = n /\ \A i \in DOMAIN queue' : i <= j
  BY <1>1, <1>3, <1>6
<1>10. Belong' /\ ServedInOrder' /\ AnsweredFirst'
  <2>1. txs' = txs \o <<>> /\ <<>> \in Seq(Transactions) BY <1>1, <1>3
  <2>2. \A j \in DOMAIN queue' : queue'[j] \in DOMAIN requests' /\ requests'[queue'[j]].session = session
    BY <1>4, <1>6, <1>8, <1>9
  <2>3. ASSUME NEW i \in DOMAIN queue', NEW j \in DOMAIN queue', i < j
        PROVE  queue'[i] < queue'[j]
    <3>0. i \in Int /\ j \in Int BY <1>9
    <3>1. i \in DOMAIN queue /\ queue'[i] = queue[i] BY <1>9, <2>3, <3>0
    <3>2. CASE j \in DOMAIN queue /\ queue'[j] = queue[j] BY <2>3, <3>1, <3>2 DEF IInv, ServedInOrder
    <3>3. CASE queue'[j] = n BY <1>6, <1>8, <3>1, <3>3
    <3> QED BY <1>9, <3>2, <3>3
  <2>4. \A i \in DOMAIN txs, j \in DOMAIN queue' : txs[i].req < queue'[j]
    BY <1>7, <1>9 DEF IInv, ServedInOrder
  <2>5. \A m \in DOMAIN requests, j \in DOMAIN queue' : Known(m) => m < queue'[j]
    BY <1>6, <1>9 DEF IInv, AnsweredFirst
  <2>6. DOMAIN <<>> = {} OBVIOUS
  <2> QED BY <1>1, <1>6, <1>9, <2>1, <2>2, <2>3, <2>4, <2>5, <2>6, AppendKeeps
<1>11. OneSweep' BY <1>1 DEF IInv, OneSweep
<1>12. Phases'
  <2>1. initPhase \notin {"executing", "complete"} BY <1>1 DEF IInv, Phases
  <2> QED BY <1>1, <2>1 DEF IInv, Phases
<1>13. Shape' BY <1>1, <1>3, <1>6, <1>9 DEF Shape, TypeOK, Stored
<1> QED BY <1>6, <1>10, <1>11, <1>12, <1>13 DEF IInv

LEMMA ExecuteQueuedKeeps ==
  ASSUME IInv, ExecuteQueued
  PROVE  IInv'
<1>1. PICK n : n = Head(queue) OBVIOUS
<1>2. /\ initPhase = "executing" /\ queue' = Tail(queue)
      /\ initPhase' = IF Len(queue) = 1 THEN "complete" ELSE "executing"
      /\ UNCHANGED <<ready, keyFilter, suspended, committing, store, expired, session, uncleared>>
  BY DEF ExecuteQueued, NextQueued, tableVars
<1>3. PICK outcome \in Outcomes(requests[n], n) :
        Execute(requests[n], outcome) /\ Settle(n, outcome.status)
  BY <1>1 DEF ExecuteQueued, NextQueued, Settle
<1>4. Shape /\ queue \in Seq(1 .. MaxRequests) /\ requests \in Seq(Requests) BY DEF IInv, Shape, TypeOK
<1>5. queue # <<>> /\ ready = "true" BY <1>2 DEF IInv, Phases
<1>6. 1 \in DOMAIN queue /\ n = queue[1] /\ n \in 1 .. MaxRequests
  <2>1. queue \in Seq(1 .. MaxRequests) /\ queue # <<>> BY <1>4, <1>5
  <2>2. 1 \in DOMAIN queue /\ Head(queue) = queue[1] BY <2>1
  <2>3. \A S : \A q \in Seq(S) : \A i \in DOMAIN q : q[i] \in S OBVIOUS
  <2>4. queue[1] \in 1 .. MaxRequests BY <2>1, <2>2, <2>3, Zenon
  <2> QED BY <1>1, <2>2, <2>4, Zenon
<1>7. n \in DOMAIN requests /\ requests[n] \in Requests /\ requests[n].session = session
  BY <1>4, <1>6 DEF IInv, Belong
<1>8. outcome.status \in {"pending", "resolved", "rejected"} BY <1>3, <1>4, <1>6, <1>7, OutcomeAsks
<1>9. /\ requests' \in Seq(Requests) /\ DOMAIN requests' = DOMAIN requests
      /\ Len(requests') = Len(requests)
      /\ \A m \in DOMAIN requests : /\ requests'[m].op = requests[m].op
                                    /\ requests'[m].keys = requests[m].keys
                                    /\ requests'[m].session = requests[m].session
                                    /\ requests'[m].applied = requests[m].applied
                                    /\ requests'[m].result = requests[m].result
  BY <1>3, <1>4, <1>7, <1>8, SettleFacts
<1>10. Fresh' /\ OwnSession' /\ \A m \in DOMAIN requests : Known(m)' = Known(m)
  BY <1>2, <1>9, NothingWritten
<1>11. /\ queue' \in Seq(1 .. MaxRequests) /\ (queue' = <<>> <=> Len(queue) = 1)
       /\ \A j \in DOMAIN queue' : j + 1 \in DOMAIN queue /\ queue'[j] = queue[j + 1] /\ j \in Nat /\ 1 < j + 1
  <2>1. queue \in Seq(1 .. MaxRequests) /\ queue # <<>> /\ queue' = Tail(queue) BY <1>2, <1>4, <1>5
  <2>2. queue' \in Seq(1 .. MaxRequests) /\ Len(queue') = Len(queue) - 1 BY <2>1
  <2>3. \A j \in DOMAIN queue' : j + 1 \in DOMAIN queue /\ queue'[j] = queue[j + 1] BY <2>1
  <2>4. queue' = <<>> <=> Len(queue) = 1
    <3>1. \A S : \A q \in Seq(S) : q = <<>> <=> Len(q) = 0 OBVIOUS
    <3>2. queue' = <<>> <=> Len(queue') = 0 BY <2>2, <3>1, Zenon
    <3> QED BY <2>1, <2>2, <3>2
  <2> QED BY <2>2, <2>3, <2>4
<1>12. /\ txs' \in Seq(Transactions) /\ Belong' /\ ServedInOrder' /\ AnsweredFirst' /\ OneSweep'
       /\ sweeping' \in BOOLEAN /\ closed' \in BOOLEAN
       /\ \A i \in DOMAIN txs' : txs'[i].kind \notin {"getKeys", "initClear"}
  <2>1. \A m \in DOMAIN requests' : Known(m)' => m \in DOMAIN requests /\ Known(m) BY <1>9, <1>10
  <2>2. \A j \in DOMAIN queue' : queue'[j] \in DOMAIN requests' /\ requests'[queue'[j]].session = session
    BY <1>9, <1>11 DEF IInv, Belong
  <2>3. ASSUME NEW i \in DOMAIN queue', NEW j \in DOMAIN queue', i < j PROVE queue'[i] < queue'[j]
    <3>1. i + 1 < j + 1 BY <1>11, <2>3
    <3> QED BY <1>11, <3>1 DEF IInv, ServedInOrder
  <2>4. \A i \in DOMAIN txs, j \in DOMAIN queue' : txs[i].req < queue'[j]
    BY <1>11 DEF IInv, ServedInOrder
  <2>5. \A m \in DOMAIN requests, j \in DOMAIN queue' : Known(m) => m < queue'[j]
    BY <1>11 DEF IInv, AnsweredFirst
  <2>6. \A l \in DOMAIN txs : txs[l].req < n BY <1>6 DEF IInv, ServedInOrder
  <2>7. \A j \in DOMAIN queue' : n < queue'[j] BY <1>6, <1>11 DEF IInv, ServedInOrder
  <2>8. \A m \in DOMAIN requests : Known(m) => m < n BY <1>6 DEF IInv, AnsweredFirst
  <2>9. ExecutionOf(requests[n], n, outcome)
    <3>1. Execute(requests[n], outcome) BY <1>3
    <3>2. initPhase \in {"executing", "complete"} /\ UNCHANGED <<session, uncleared>> BY <1>2
    <3>3. /\ DOMAIN requests \subseteq DOMAIN requests' /\ requests' \in Seq(Requests)
          /\ \A m \in DOMAIN requests : /\ requests'[m].op = requests[m].op
                                        /\ requests'[m].keys = requests[m].keys
                                        /\ requests'[m].session = requests[m].session
      BY <1>9
    <3>4. requests'[n].op = requests[n].op /\ requests'[n].keys = requests[n].keys
          /\ requests'[n].session = session
      BY <1>7, <1>9
    <3>5. queue' \in Seq(1 .. MaxRequests) BY <1>11
    <3>6. \A i, j \in DOMAIN queue' : i < j => queue'[i] < queue'[j] BY <2>3
    <3> QED BY <3>1, <3>2, <3>3, <3>4, <3>5, <3>6, <2>1, <2>2, <2>4, <2>5, <2>6, <2>7, <2>8,
               Zenon DEF ExecutionOf
  <2>10. n \in DOMAIN requests' BY <1>7, <1>9
  <2>11. Executed BY <1>3, <1>6, <1>7, <2>9, <2>10, ExecuteKeeps, Zenon
  <2> QED BY <2>11, Zenon DEF Executed
<1>13. Phases' BY <1>2, <1>5, <1>11, <1>12 DEF Phases
<1>14. Shape' BY <1>2, <1>4, <1>9, <1>11, <1>12 DEF Shape, TypeOK, Stored, InitPhases
<1> QED BY <1>10, <1>12, <1>13, <1>14 DEF IInv

--------------------------------------------------------------------------------
(* Sweeps, the initialisation and the page                                 *)

\* Nothing happens to the requests and the table.
LEMMA Undisturbed ==
  ASSUME IInv, UNCHANGED <<store, expired, requests, session, uncleared>>,
         \/ initPhase \in {"flipping", "executing", "complete"}
         \/ initPhase' \notin {"flipping", "executing", "complete"}
         \/ ~ClearOnInit
  PROVE  Fresh' /\ OwnSession'
<1>1. Fresh'
  <2>1. \A n, k : LastWrite(n, k)' = LastWrite(n, k) BY DEF LastWrite
  <2> QED BY <2>1 DEF IInv, Fresh
<1>2. OwnSession' BY DEF IInv, OwnSession, Stored
<1> QED BY <1>1, <1>2

LEMMA StartSweepKeeps ==
  ASSUME IInv, initPhase = "complete", ~sweeping, StartSweep, suspended' \in BOOLEAN,
         UNCHANGED <<ready, initPhase, queue, keyFilter, closed, committing, store, expired, requests, session, uncleared>>
  PROVE  IInv'
<1>0. PICK t : t = Tx("sweep", {}, 0) OBVIOUS
<1>1. t \in Transactions /\ t.kind = "sweep" /\ t.req = 0
  <2>1. 0 \in 0 .. MaxRequests BY BoundsAssumption
  <2> QED BY <1>0, <2>1 DEF Tx, Transactions, TxKinds
<1>2. sweeping' = TRUE /\ txs' = Append(txs, t) BY <1>0 DEF StartSweep
<1>3. txs \in Seq(Transactions) /\ Shape BY DEF IInv, Shape, TypeOK
<1>4. /\ txs' \in Seq(Transactions) /\ Len(txs) + 1 \in DOMAIN txs' /\ txs'[Len(txs) + 1] = t
      /\ \A i \in DOMAIN txs' : \/ i \in DOMAIN txs /\ txs'[i] = txs[i]
                                \/ i = Len(txs) + 1 /\ txs'[i] = t
  BY <1>1, <1>2, <1>3
<1>5. Belong'
  <2>1. \A j \in DOMAIN queue' : queue'[j] \in DOMAIN requests' /\ requests'[queue'[j]].session = session'
    BY DEF IInv, Belong
  <2>2. ASSUME NEW i \in DOMAIN txs'
        PROVE  IF txs'[i].kind \in {"getKeys", "initClear", "sweep", "scan", "evict"} THEN txs'[i].req = 0
               ELSE /\ txs'[i].req \in DOMAIN requests'
                    /\ Asks(txs'[i], requests'[txs'[i].req])
                    /\ requests'[txs'[i].req].session = session'
    <3>1. CASE i \in DOMAIN txs /\ txs'[i] = txs[i]
      <4>1. IF txs[i].kind \in {"getKeys", "initClear", "sweep", "scan", "evict"} THEN txs[i].req = 0
            ELSE /\ txs[i].req \in DOMAIN requests
                 /\ Asks(txs[i], requests[txs[i].req])
                 /\ requests[txs[i].req].session = session
        BY <3>1 DEF IInv, Belong
      <4> QED BY <3>1, <4>1 DEF Asks
    <3>2. CASE i = Len(txs) + 1 /\ txs'[i] = t BY <1>1, <3>2
    <3> QED BY <1>4, <3>1, <3>2
  <2> QED BY <2>1, <2>2 DEF Belong, Asks
<1>6. ServedInOrder'
  <2>1. ASSUME NEW i \in DOMAIN txs', NEW j \in DOMAIN txs', i < j, txs'[i].req # 0, txs'[j].req # 0
        PROVE  txs'[i].req < txs'[j].req
    <3>1. /\ i \in DOMAIN txs /\ txs'[i] = txs[i]
          /\ j \in DOMAIN txs /\ txs'[j] = txs[j]
      BY <1>1, <1>4, <2>1
    <3> QED BY <2>1, <3>1 DEF IInv, ServedInOrder
  <2>2. \A i \in DOMAIN txs', j \in DOMAIN queue' : txs'[i].req < queue'[j]
    <3>1. queue = <<>> BY DEF IInv, Phases
    <3> QED BY <3>1
  <2> QED BY <2>1, <2>2 DEF IInv, ServedInOrder
<1>7. AnsweredFirst'
  <2> SUFFICES ASSUME NEW m \in DOMAIN requests', Known(m)'
               PROVE  /\ \A i \in DOMAIN txs' : txs'[i].req # 0 => m < txs'[i].req
                      /\ \A j \in DOMAIN queue' : m < queue'[j]
    BY DEF AnsweredFirst
  <2>1. Known(m) BY DEF Known
  <2> QED BY <1>1, <1>4, <2>1 DEF IInv, AnsweredFirst
<1>8. OneSweep'
  <2>1. \A i \in DOMAIN txs : txs[i].kind # "sweep" BY DEF IInv, OneSweep
  <2> QED BY <1>1, <1>2, <1>4, <2>1 DEF OneSweep
<1>9. Phases' BY <1>1, <1>4 DEF IInv, Phases
<1>10. Fresh' /\ OwnSession' BY Undisturbed
<1>11. Shape' BY <1>2, <1>3, <1>4 DEF Shape, TypeOK, Stored
<1> QED BY <1>5, <1>6, <1>7, <1>8, <1>9, <1>10, <1>11 DEF IInv

LEMMA ReadyPhase ==
  ASSUME IInv, Idle, ready = "true"
  PROVE  initPhase = "complete"
<1>1. initPhase \in InitPhases BY DEF IInv, Shape, TypeOK
<1> QED BY <1>1 DEF IInv, Phases, Idle, InitPhases

LEMMA SuspensionKeeps ==
  ASSUME IInv, suspended' \in BOOLEAN,
         UNCHANGED <<ready, initPhase, queue, keyFilter, sweeping, closed, txs, committing, store,
                     expired, requests, session, uncleared>>
  PROVE  IInv'
<1>1. Shape BY DEF IInv
<1>2. Shape' BY <1>1 DEF Shape, TypeOK, Stored
<1>3. Phases' /\ OneSweep' /\ Belong' /\ ServedInOrder' /\ AnsweredFirst'
  BY DEF IInv, Phases, OneSweep, Belong, ServedInOrder, AnsweredFirst, Known
<1>4. Fresh' /\ OwnSession' BY SMTT(40) DEF IInv, Fresh, LastWrite, OwnSession, Stored
<1> QED BY <1>2, <1>3, <1>4 DEF IInv

LEMMA SweepingKeeps ==
  ASSUME IInv, Sweep \/ SuspendSweeping \/ ResumeSweeping
  PROVE  IInv'
<1> USE DEF queueVars, initVars, tableVars, historyVars
<1>1. CASE Sweep
  <2>1. initPhase = "complete" BY <1>1, ReadyPhase DEF Sweep
  <2>2. suspended' \in BOOLEAN BY <1>1 DEF Sweep, IInv, Shape, TypeOK
  <2> QED BY <1>1, <2>1, <2>2, StartSweepKeeps DEF Sweep, SweepAllowed
<1>2. CASE SuspendSweeping BY <1>2, SuspensionKeeps DEF SuspendSweeping
<1>3. CASE ResumeSweeping
  <2>1. /\ Idle /\ suspended' = FALSE
        /\ UNCHANGED <<ready, initPhase, queue, keyFilter, closed, committing, store, expired,
                       requests, session, uncleared>>
    BY <1>3 DEF ResumeSweeping
  <2>2. CASE UNCHANGED <<sweeping, txs>> BY <2>1, <2>2, SuspensionKeeps
  <2>3. CASE ready = "true" /\ ~sweeping /\ ~closed /\ StartSweep
    <3>1. initPhase = "complete" BY <2>1, <2>3, ReadyPhase
    <3> QED BY <2>1, <2>3, <3>1, StartSweepKeeps
  <2> QED BY <1>3, <2>2, <2>3 DEF ResumeSweeping
<1> QED BY <1>1, <1>2, <1>3

\* The initialisation creates the first transaction.
LEMMA FirstTransactionKeeps ==
  ASSUME IInv, txs = <<>>, NEW t \in Transactions, txs' = <<t>>, t.req = 0,
         \/ t = Tx("getKeys", {}, 0) /\ initPhase' = "readingKeys"
         \/ t = Tx("initClear", Keys, 0) /\ initPhase' = "clearing",
         initPhase \in {"opening", "keysKnown"},
         UNCHANGED <<ready, queue, keyFilter, sweeping, suspended, closed, committing, store,
                     expired, requests, session, uncleared>>
  PROVE  IInv'
<1>1. Shape BY DEF IInv
<1>2. t.kind \in {"getKeys", "initClear"} BY DEF Tx
<1>3. txs' \in Seq(Transactions) /\ \A i \in DOMAIN txs' : i = 1 /\ txs'[i] = t OBVIOUS
<1>4. Shape' BY <1>1, <1>3 DEF Shape, TypeOK, Stored, InitPhases
<1>5. Phases' BY DEF IInv, Phases
<1>6. Belong' BY <1>2, <1>3 DEF IInv, Belong
<1>7. ServedInOrder'
  <2>1. \A j \in DOMAIN queue : queue[j] \in DOMAIN requests BY DEF IInv, Belong
  <2>2. requests \in Seq(Requests) BY <1>1 DEF Shape, TypeOK
  <2>3. \A j \in DOMAIN queue' : 0 < queue'[j] BY <2>1, <2>2
  <2> QED BY <1>3, <2>3 DEF IInv, ServedInOrder
<1>8. AnsweredFirst' BY <1>3 DEF IInv, AnsweredFirst, Known
<1>9. OneSweep' BY <1>2, <1>3 DEF IInv, OneSweep
<1>10. Fresh' /\ OwnSession' BY Undisturbed
<1> QED BY <1>4, <1>5, <1>6, <1>7, <1>8, <1>9, <1>10 DEF IInv

\* The initialisation goes on without a transaction.
LEMMA PhaseKeeps ==
  ASSUME IInv, initPhase \in {"opening", "keysKnown", "flipping"}, Phases',
         initPhase' \in InitPhases, ready' \in {"undefined", "true", "false"},
         initPhase = "flipping" \/ initPhase' = "failed" \/ ~ClearOnInit,
         UNCHANGED <<queue, keyFilter, sweeping, suspended, closed, txs, committing, store,
                     expired, requests, session, uncleared>>
  PROVE  IInv'
<1>1. Shape BY DEF IInv
<1>2. Shape' BY <1>1 DEF Shape, TypeOK, Stored
<1>3. OneSweep' /\ Belong' /\ ServedInOrder' /\ AnsweredFirst'
  BY DEF IInv, OneSweep, Belong, ServedInOrder, AnsweredFirst, Known
<1>4. Fresh' /\ OwnSession' BY Undisturbed
<1> QED BY <1>2, <1>3, <1>4 DEF IInv

LEMMA InitializeKeeps ==
  ASSUME IInv, Initialize
  PROVE  IInv'
<1> USE DEF queueVars, sweepVars, tableVars, historyVars
<1>0. /\ initPhase \in {"opening", "keysKnown", "flipping"} => txs = <<>> /\ ready = "undefined"
      /\ ready \in {"undefined", "true", "false"}
  BY DEF IInv, Phases, Shape, TypeOK
<1>1. 0 \in 0 .. MaxRequests BY BoundsAssumption
<1>2. CASE AdapterOpens
  <2>1. Tx("getKeys", {}, 0) \in Transactions /\ Tx("getKeys", {}, 0).req = 0
    BY <1>1 DEF Tx, Transactions, TxKinds
  <2>2. txs' = Append(<<>>, Tx("getKeys", {}, 0)) BY <1>0, <1>2 DEF AdapterOpens
  <2>3. txs' = <<Tx("getKeys", {}, 0)>> BY <2>2
  <2> QED BY <1>0, <1>2, <2>1, <2>3, FirstTransactionKeeps DEF AdapterOpens
<1>3. CASE AdapterFails
  <2>1. Phases' BY <1>0, <1>3 DEF AdapterFails, Phases
  <2> QED BY <1>3, <2>1, PhaseKeeps DEF AdapterFails, InitPhases
<1>4. CASE OnAdapterInitialized
  <2>1. CASE ClearOnInit
    <3>1. Tx("initClear", Keys, 0) \in Transactions /\ Tx("initClear", Keys, 0).req = 0
      BY <1>1 DEF Tx, Transactions, TxKinds
    <3>2. txs' = Append(<<>>, Tx("initClear", Keys, 0)) BY <1>0, <1>4, <2>1 DEF OnAdapterInitialized
    <3>3. txs' = <<Tx("initClear", Keys, 0)>> BY <3>2
    <3> QED BY <1>0, <1>4, <2>1, <3>1, <3>3, FirstTransactionKeeps DEF OnAdapterInitialized
  <2>2. CASE ~ClearOnInit
    <3>1. Phases' BY <1>0, <1>4, <2>2 DEF OnAdapterInitialized, Phases
    <3> QED BY <1>0, <1>4, <2>2, <3>1, PhaseKeeps DEF OnAdapterInitialized, InitPhases
  <2> QED BY <2>1, <2>2
<1>5. CASE FlipReady
  <2>1. Phases' BY <1>0, <1>5 DEF FlipReady, Phases
  <2> QED BY <1>5, <2>1, PhaseKeeps DEF FlipReady, InitPhases
<1>6. CASE ExecuteQueued BY <1>6, ExecuteQueuedKeeps
<1> QED BY <1>2, <1>3, <1>4, <1>5, <1>6 DEF Initialize

\* What the table holds outlives the page; what waited for it is gone.
LEMMA ReloadKeeps ==
  ASSUME IInv, Reload
  PROVE  IInv'
<1>1. /\ session < MaxReloads /\ session' = session + 1 /\ ready' = "undefined" /\ initPhase' = "opening"
      /\ queue' = <<>> /\ keyFilter' = {} /\ sweeping' = FALSE /\ suspended' = FALSE
      /\ closed' = FALSE /\ txs' = <<>> /\ committing' = FALSE /\ UNCHANGED <<store, expired, uncleared>>
      /\ requests' = [n \in DOMAIN requests |->
                        IF requests[n].status = "pending"
                        THEN [requests[n] EXCEPT !.status = "dropped"] ELSE requests[n]]
  BY DEF Reload
<1>2. Shape /\ requests \in Seq(Requests) /\ session \in 0 .. MaxReloads /\ MaxReloads \in Nat
  BY BoundsAssumption DEF IInv, Shape, TypeOK
<1>3. /\ DOMAIN requests' = DOMAIN requests
      /\ \A m \in DOMAIN requests : /\ requests'[m] \in Requests
                                    /\ requests'[m].op = requests[m].op
                                    /\ requests'[m].keys = requests[m].keys
                                    /\ requests'[m].session = requests[m].session
                                    /\ requests'[m].applied = requests[m].applied
                                    /\ requests'[m].result = requests[m].result
  <2>1. \A m \in DOMAIN requests : requests[m] \in Requests BY <1>2
  <2> QED BY <1>1, <2>1 DEF Requests
<1>4. requests' \in Seq(Requests) /\ Len(requests') = Len(requests)
  <2>1. requests' \in [1 .. Len(requests) -> Requests] BY <1>1, <1>2, <1>3
  <2> QED BY <1>2, <2>1
<1>5. Shape'
  <2>1. session' \in 0 .. MaxReloads BY <1>1, <1>2
  <2>2. queue' \in Seq(1 .. MaxRequests) /\ txs' \in Seq(Transactions) BY <1>1
  <2>3. Len(requests') <= MaxRequests BY <1>2, <1>4 DEF Shape
  <2>4. store' \in [Keys -> Contents] /\ expired' \in SUBSET Stored'
    BY <1>1, <1>2 DEF Shape, TypeOK, Stored
  <2>5. uncleared' \subseteq 0 .. MaxReloads BY <1>1, <1>2 DEF Shape, TypeOK
  <2> QED BY <1>1, <1>4, <2>1, <2>2, <2>3, <2>4, <2>5 DEF Shape, TypeOK, InitPhases
<1>6. Phases' /\ Belong' /\ ServedInOrder' /\ AnsweredFirst' /\ OneSweep'
  BY <1>1 DEF Phases, Belong, ServedInOrder, AnsweredFirst, OneSweep
<1>7. Fresh'
  <2>1. ASSUME NEW n \in Nat, n <= Len(requests) + 1
        PROVE  \A k \in Keys : LastWrite(n, k)' = LastWrite(n, k)
    <3>1. \A m \in 1 .. n - 1 : m \in DOMAIN requests BY <1>2, <2>1
    <3>2. \A m \in 1 .. n - 1 : requests[m].applied \in BOOLEAN /\ requests'[m].applied \in BOOLEAN
      BY <1>3, <3>1 DEF Requests
    <3> QED BY <1>3, <3>1, <3>2, LastWriteKept
  <2>2. PICK l \in Nat : l = Len(requests) + 1 BY <1>2
  <2>3. \A k \in Keys : store'[k] \in {Absent, LastWrite(l, k)'} BY <1>1, <2>1, <2>2 DEF IInv, Fresh
  <2>4. \A n \in DOMAIN requests', k \in Keys : requests'[n].result[k] \in {Absent, LastWrite(n, k)'}
    BY <1>2, <1>3, <2>1 DEF IInv, Fresh
  <2> QED BY <1>4, <2>2, <2>3, <2>4 DEF Fresh
<1>8. OwnSession'
  <2> SUFFICES ASSUME ClearOnInit
               PROVE  \A m \in DOMAIN requests', k \in Keys :
                        requests'[m].result[k] # Absent /\ requests'[m].session \notin uncleared' =>
                          /\ requests'[m].result[k] # Old
                          /\ requests'[requests'[m].result[k]].session = requests'[m].session
    BY <1>1 DEF OwnSession
  <2>1. \A m \in DOMAIN requests, k \in Keys :
          requests[m].result[k] # Absent /\ requests[m].session \notin uncleared =>
            /\ requests[m].result[k] # Old /\ requests[m].result[k] \in DOMAIN requests
            /\ requests[requests[m].result[k]].session = requests[m].session
    BY Named DEF IInv, OwnSession
  <2> QED BY <1>1, <1>3, <2>1
<1> QED BY <1>5, <1>6, <1>7, <1>8 DEF IInv

--------------------------------------------------------------------------------
(* The theorems                                                            *)

LEMMA NextIInv == IInv /\ [Next]_vars => IInv'
<1> SUFFICES ASSUME IInv, [Next]_vars PROVE IInv'
  OBVIOUS
<1>1. CASE UNCHANGED vars
  <2>1. UNCHANGED <<ready, initPhase, queue, keyFilter, sweeping, suspended, closed, txs, committing,
                    store, expired, requests, session, uncleared>>
    BY <1>1 DEF vars, initVars, queueVars, sweepVars, tableVars, historyVars
  <2>2. suspended' \in BOOLEAN BY <2>1 DEF IInv, Shape, TypeOK
  <2> QED BY <2>1, <2>2, SuspensionKeeps
<1>2. ASSUME NEW call \in Calls,
             RequestWhenReady(call) \/ RequestWhenFailed(call) \/ RequestWhenInitializing(call)
      PROVE  IInv'
  BY <1>2, RequestWhenReadyKeeps, RequestWhenFailedKeeps, RequestWhenInitializingKeeps
<1>3. CASE Sweep \/ SuspendSweeping \/ ResumeSweeping BY <1>3, SweepingKeeps
<1>4. CASE Initialize BY <1>4, InitializeKeeps
<1>5. CASE RunTransaction
  <2>1. CASE KeysRead \/ InitCleared BY <2>1, KeysReadKeeps, InitClearedKeeps
  <2>2. CASE GetCompletes BY <2>2, GetKeeps
  <2>3. CASE WriteSucceeds \/ WriteCommits \/ WriteAborts
    BY <2>3, WriteSucceedsKeeps, WriteCommitsKeeps, WriteAbortsKeeps
  <2>4. CASE ClearCompletes BY <2>4, ClearCompletesKeeps
  <2>5. CASE ScanCompletes \/ ScanAborts \/ EvictCompletes
    BY <2>5, ScanCompletesKeeps, ScanAbortsKeeps, EvictCompletesKeeps
  <2> QED BY <1>5, <2>1, <2>2, <2>3, <2>4, <2>5 DEF RunTransaction
<1>6. CASE \E k \in Keys : Expire(k) BY <1>6, ExpireKeeps
<1>7. CASE Reload BY <1>7, ReloadKeeps
<1> QED BY <1>1, <1>2, <1>3, <1>4, <1>5, <1>6, <1>7 DEF Next

\* The invariant: where each request is, and what the table holds.
THEOREM StorageIInv == Spec => []IInv
<1> QED BY InitIInv, NextIInv, PTL DEF Spec

\* The types of all variables.
THEOREM StorageTypeOK == Spec => []TypeOK
<1>1. IInv => TypeOK BY DEF IInv, Shape
<1> QED BY <1>1, StorageIInv, PTL

\* Requests reach the table in the order they were made, before and after the moment
\* at which the service becomes ready (StorageService._enqueue, _executeQueue).
THEOREM StorageServedInOrder == Spec => []ServedInOrder
<1>1. IInv => ServedInOrder BY DEF IInv
<1> QED BY <1>1, StorageIInv, PTL

\* No read answers with anything older than what the last write before it left.
THEOREM StorageReadsAreFresh == Spec => []ReadsAreFresh
<1>1. IInv => ReadsAreFresh BY DEF IInv, Fresh, ReadsAreFresh
<1> QED BY <1>1, StorageIInv, PTL

\* Sweeps never pile up, and #sweepPromise is set exactly while one is in flight.
THEOREM StorageOneSweepAtATime == Spec => []OneSweepAtATime
<1>1. IInv => OneSweepAtATime
  <2> SUFFICES ASSUME IInv PROVE OneSweepAtATime
    OBVIOUS
  <2> DEFINE Sweeps == {i \in DOMAIN txs : txs[i].kind = "sweep"}
  <2>1. \A i, j \in Sweeps : i = j BY DEF IInv, OneSweep
  <2>2. Cardinality(Sweeps) <= 1
    <3>1. CASE Sweeps = {}
      <4>1. Cardinality({}) = 0 BY FS_EmptySet
      <4> QED BY <3>1, <4>1
    <3>2. CASE Sweeps # {}
      <4>1. PICK i : i \in Sweeps BY <3>2
      <4>2. Sweeps = {i} BY <2>1, <4>1
      <4>3. Cardinality({i}) = 1 BY FS_Singleton
      <4> QED BY <4>2, <4>3
    <3> QED BY <3>1, <3>2
  <2> QED BY <2>2 DEF IInv, OneSweep, OneSweepAtATime
<1> QED BY <1>1, StorageIInv, PTL

\* With clearOnInit no read finds anything of an earlier session, in any session but
\* those whose own clear failed (StorageService._onAdapterInitialized swallows that).
THEOREM StorageClearedOnInit == Spec => []ClearedOnInit
<1>1. IInv => ClearedOnInit BY DEF IInv, OwnSession, ClearedOnInit
<1> QED BY <1>1, StorageIInv, PTL
================================================================================
