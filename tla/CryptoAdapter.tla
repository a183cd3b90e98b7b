----------------------------- MODULE CryptoAdapter -----------------------------
(***************************************************************************)
(* The adapter that encrypts what it hands to IndexedDB                    *)
(* (CryptoAdapter.js).                                                     *)
(*                                                                         *)
(* A session of the page gets a key, opens the table below and checks it   *)
(* with a sentinel that an earlier session encrypted: when that cannot be  *)
(* decrypted the table is cleared.  Encryption is asynchronous and comes   *)
(* before the transaction, so calls made one after the other may reach the *)
(* table in another order.  Transactions run in the order they were made.  *)
(* The success of a put or of a removal answers its call; the transaction  *)
(* commits after that, or aborts.                                          *)
(* The client is StorageService, which calls only after initialize().      *)
(***************************************************************************)
EXTENDS Naturals, Sequences, FiniteSets

CONSTANTS
  ItemKeys, Sentinel,   \* the keys of items, and that of the sentinel
  Values,               \* plain values
  CryptoKeys,           \* the keys a server hands out
  Nothing, Garbage,     \* no item; what a wrong key may decrypt to
  MaxCalls, MaxReloads  \* bounds on the calls of a session and on the reloads

Names == ItemKeys \cup {Sentinel}
NoKey == "no key"

VARIABLES
  keyPromise,   \* the static keyPromise: "unset", "importing", "rejected" or a key
  key,          \* CryptoAdapter.key
  inner,        \* initialize() of the adapter below: "unset", "opening", "open", "failed"
  table,        \* the items of the table: Nothing or a cipher
  txs,          \* transactions that have not ended
  committing,   \* the first of them was answered: a put or a removal that has to commit
  calls,        \* the calls of this session, the first being initialize()
  reloads,
  latest        \* latest[k]: what the writes of k not yet superseded leave there (history)

vars == <<keyPromise, key, inner, table, txs, committing, calls, reloads, latest>>
session == <<keyPromise, key, inner>>

Cipher(v, k) == [value |-> v, key |-> k]
Plain(k) == IF table[k] = Nothing THEN Nothing ELSE table[k].value

\* An earlier session left a table that its key can read, or none.
Leftover(old, v) == [n \in Names |-> IF n = Sentinel THEN Cipher(Sentinel, old) ELSE v]
Init ==
  /\ keyPromise = "unset" /\ key = NoKey /\ inner = "unset"
  /\ \/ table = [n \in Names |-> Nothing]
     \/ \E old \in CryptoKeys, v \in Values : table = Leftover(old, Cipher(v, old))
  /\ txs = <<>> /\ committing = FALSE /\ calls = <<>> /\ reloads = 0
  /\ latest = [k \in ItemKeys |-> Values \cup {Nothing}]

\* "before" is what the writes made before this call may leave (history).
Call(kind, k, v, stage) ==
  [kind |-> kind, item |-> k, value |-> v, stage |-> stage, before |-> latest]
Over == {"resolved", "rejected"}
Ready == calls # <<>> /\ calls[1].stage = "resolved"
Stage(i, s) == calls' = [calls EXCEPT ![i].stage = s]
Tx(i, op, k, c) == [by |-> i, op |-> op, item |-> k, cipher |-> c]

(***************************************************************************)
(* The key, and initialize().                                              *)
(***************************************************************************)
\* A second key is ignored: the first promise stays.
SetKey ==
  /\ keyPromise = "unset"
  /\ keyPromise' = "importing"
  /\ UNCHANGED <<key, inner, table, txs, committing, calls, reloads, latest>>

ImportKey(k) ==
  /\ keyPromise = "importing"
  /\ keyPromise' = k
  /\ UNCHANGED <<key, inner, table, txs, committing, calls, reloads, latest>>

\* Promise.all takes the key promise as it is now: without setKey() it holds undefined.
Initialize ==
  /\ calls = <<>>
  /\ inner' = "opening"
  /\ calls' = <<Call("initialize", Sentinel, Sentinel,
                     IF keyPromise = "unset" THEN "waits for no key" ELSE "waits")>>
  /\ UNCHANGED <<keyPromise, key, table, txs, committing, reloads, latest>>

InnerOpens(outcome) ==
  /\ inner = "opening"
  /\ inner' = outcome
  /\ UNCHANGED <<keyPromise, key, table, txs, committing, calls, reloads, latest>>

\* The first two steps of _initializeInternal.
WaitFails ==
  /\ calls # <<>>
  /\ \/ calls[1].stage = "waits" /\ (keyPromise = "rejected" \/ inner = "failed")
     \/ calls[1].stage = "waits for no key" /\ inner \in {"open", "failed"}
  /\ Stage(1, "rejected")
  /\ UNCHANGED <<session, table, txs, committing, reloads, latest>>

WaitEnds ==
  /\ calls # <<>> /\ calls[1].stage = "waits"
  /\ keyPromise \in CryptoKeys /\ inner = "open"
  /\ key' = keyPromise
  /\ txs' = Append(txs, Tx(1, "read", Sentinel, Nothing))
  /\ Stage(1, "reads")
  /\ UNCHANGED <<keyPromise, inner, table, committing, reloads, latest>>

\* A mutant: a table without a sentinel is taken to be empty.
MissingIsFine(found) == found = Sentinel \/ found = Nothing

SentinelMatches(found) == found = Sentinel

\* The sentinel is decrypted: the table is kept, or cleared.
CheckSentinel ==
  /\ calls # <<>> /\ calls[1].stage = "checks"
  /\ IF SentinelMatches(calls[1].value)
     THEN Stage(1, "encrypts the sentinel") /\ UNCHANGED txs
     ELSE Stage(1, "clears first") /\ txs' = Append(txs, Tx(1, "clear", Sentinel, Nothing))
  /\ UNCHANGED <<session, table, committing, reloads, latest>>

(***************************************************************************)
(* Calls of the client.                                                    *)
(***************************************************************************)
Writing(k) == \E i \in DOMAIN calls : /\ calls[i].stage \notin Over
                                      /\ \/ calls[i].kind \in {"set", "remove"} /\ calls[i].item = k
                                         \/ calls[i].kind = "clear"
\* A write that overlaps none on its key supersedes them all.
Supersede(K, v) ==
  latest' = [k \in ItemKeys |-> IF k \notin K THEN latest[k]
                                ELSE IF Writing(k) THEN latest[k] \cup {v} ELSE {v}]

\* A write of K that fails may leave what it superseded.
GivesBack(i, K) ==
  latest' = [k \in ItemKeys |-> IF k \in K THEN latest[k] \cup calls[i].before[k] ELSE latest[k]]

May == Ready /\ Len(calls) <= MaxCalls
Starts(c, ops) == calls' = Append(calls, c) /\ txs' = txs \o ops
Id == Len(calls) + 1

GetItems(k) ==
  /\ May /\ Starts(Call("get", k, Nothing, "reads"), <<Tx(Id, "read", k, Nothing)>>)
  /\ UNCHANGED <<session, table, committing, reloads, latest>>

SetItems(k, v) ==
  /\ May /\ Starts(Call("set", k, v, "encrypts"), <<>>)
  /\ Supersede({k}, v)
  /\ UNCHANGED <<session, table, committing, reloads>>

RemoveItems(k) ==
  /\ May /\ Starts(Call("remove", k, Nothing, "writes"), <<Tx(Id, "remove", k, Nothing)>>)
  /\ Supersede({k}, Nothing)
  /\ UNCHANGED <<session, table, committing, reloads>>

Clear ==
  /\ May /\ Starts(Call("clear", Sentinel, Sentinel, "clears"), <<Tx(Id, "clear", Sentinel, Nothing)>>)
  /\ Supersede(ItemKeys, Nothing)
  /\ UNCHANGED <<session, table, committing, reloads>>

Sweep ==
  /\ May /\ Starts(Call("sweep", Sentinel, Sentinel, "clears"), <<Tx(Id, "sweep", Sentinel, Nothing)>>)
  /\ UNCHANGED <<session, table, committing, reloads, latest>>

(***************************************************************************)
(* The steps of a call.                                                    *)
(***************************************************************************)
\* A mutant: the promise of the transaction is not returned.
ResolvesAtOnce(i) == "resolved"

AfterEncryption(i) == IF calls[i].stage = "encrypts the sentinel again" THEN "writes again" ELSE "writes"

ToEncrypt(i) == IF calls[i].kind = "set" THEN calls[i].value ELSE Sentinel

Encrypting == {"encrypts", "encrypts the sentinel", "encrypts the sentinel again"}

\* _encrypt, then the put.  The sentinel is a value like any other.
Encrypted(i) ==
  /\ calls[i].stage \in Encrypting
  /\ txs' = Append(txs, Tx(i, "put", calls[i].item, Cipher(ToEncrypt(i), key)))
  /\ Stage(i, AfterEncryption(i))
  /\ UNCHANGED <<session, table, committing, reloads, latest>>

\* _encrypt rejects, and the call with it, initialize() too.
EncryptionFails(i) ==
  /\ calls[i].stage \in Encrypting
  /\ Stage(i, "rejected")
  /\ GivesBack(i, IF calls[i].kind = "set" THEN {calls[i].item} ELSE {})
  /\ UNCHANGED <<session, table, txs, committing, reloads>>

\* _decrypt: a wrong key fails, or is not noticed.  What fails is left out.
Decrypt(c) == IF c = Nothing THEN {Nothing}
              ELSE IF c.key = key THEN {c.value} ELSE {Nothing, Garbage}

Continuation(i) ==
  CASE calls[i].stage = "reads" /\ i = 1      -> "checks"
    [] calls[i].stage = "clears first"        -> "encrypts the sentinel again"
    [] calls[i].stage = "writes again"        -> "encrypts the sentinel"
    [] calls[i].stage = "clears"              -> "encrypts the sentinel"
    [] OTHER                                  -> "resolved"

Runs(op) == txs # <<>> /\ ~committing /\ Head(txs).op = op
Answered == LET i == Head(txs).by IN Stage(i, Continuation(i))
Done == Answered /\ txs' = Tail(txs)

ReadRuns ==
  /\ Runs("read")
  /\ LET i == Head(txs).by IN
     \E v \in Decrypt(table[Head(txs).item]) :
       calls' = [calls EXCEPT ![i].stage = Continuation(i), ![i].value = v]
  /\ txs' = Tail(txs)
  /\ UNCHANGED <<session, table, committing, reloads, latest>>

\* The requests of a put or of a removal succeed: that answers the call ...
WriteSucceeds ==
  /\ Runs("put") \/ Runs("remove")
  /\ Answered /\ committing' = TRUE
  /\ UNCHANGED <<session, table, txs, reloads, latest>>

\* ... and the transaction commits.
WriteCommits ==
  /\ committing /\ committing' = FALSE
  /\ table' = [table EXCEPT ![Head(txs).item] = Head(txs).cipher]
  /\ txs' = Tail(txs)
  /\ UNCHANGED <<session, calls, reloads, latest>>

ClearRuns ==
  /\ Runs("clear")
  /\ table' = [n \in Names |-> Nothing]
  /\ Done /\ UNCHANGED <<session, committing, reloads, latest>>

\* The adapter below may evict anything, the sentinel too, in a sweep it was asked for ...
Evicted(K) ==
  /\ table' = [n \in Names |-> IF n \in K THEN Nothing ELSE table[n]]
  /\ latest' = [k \in ItemKeys |-> IF k \in K THEN latest[k] \cup {Nothing} ELSE latest[k]]

SweepRuns ==
  /\ Runs("sweep")
  /\ \E K \in SUBSET Names : Evicted(K)
  /\ Done /\ UNCHANGED <<session, committing, reloads>>

\* ... or in one of its own, in a transaction too.
AdapterEvicts(n) ==
  /\ Ready /\ ~committing /\ table[n] # Nothing
  /\ Evicted({n})
  /\ UNCHANGED <<session, txs, committing, calls, reloads>>

Touched(tx) == {k \in ItemKeys : tx.op = "clear" \/ (tx.op # "read" /\ tx.item = k)}

\* A transaction that fails rejects its call; initialize() clears when it cannot read.
Fails ==
  /\ txs # <<>> /\ ~committing
  /\ LET tx == Head(txs) IN
     /\ IF tx.by = 1 /\ tx.op = "read"
        THEN /\ txs' = Append(Tail(txs), Tx(1, "clear", Sentinel, Nothing))
             /\ Stage(1, "clears first")
        ELSE txs' = Tail(txs) /\ Stage(tx.by, "rejected")
     /\ GivesBack(tx.by, Touched(tx))
  /\ UNCHANGED <<session, table, committing, reloads>>

\* One that aborts after the answer rejects a promise that was resolved.
AbortsAnswered ==
  /\ committing /\ committing' = FALSE
  /\ txs' = Tail(txs)
  /\ GivesBack(Head(txs).by, Touched(Head(txs)))
  /\ UNCHANGED <<session, table, calls, reloads>>

\* The page goes away with everything but the table.
Reload ==
  /\ reloads < MaxReloads /\ reloads' = reloads + 1
  /\ keyPromise' = "unset" /\ key' = NoKey /\ inner' = "unset"
  /\ txs' = <<>> /\ committing' = FALSE /\ calls' = <<>>
  /\ latest' = [k \in ItemKeys |-> Values \cup {Nothing}]
  /\ UNCHANGED table

KeyImport == \E k \in CryptoKeys \cup {"rejected"} : ImportKey(k)
DatabaseOpens == \E o \in {"open", "failed"} : InnerOpens(o)
Waits == WaitFails \/ WaitEnds \/ CheckSentinel
Encryption(i) == Encrypted(i) \/ EncryptionFails(i)
Transaction == \/ ReadRuns \/ WriteSucceeds \/ WriteCommits \/ ClearRuns \/ SweepRuns
               \/ Fails \/ AbortsAnswered
Client == \/ \E k \in ItemKeys : \/ GetItems(k) \/ RemoveItems(k)
                                 \/ \E v \in Values : SetItems(k, v)
          \/ Clear \/ Sweep
Next ==
  \/ SetKey \/ Initialize \/ KeyImport \/ DatabaseOpens \/ Waits \/ Client \/ Transaction \/ Reload
  \/ \E i \in DOMAIN calls : Encryption(i)
  \/ \E n \in Names : AdapterEvicts(n)

Spec == Init /\ [][Next]_vars
\* The browser imports keys, opens databases, encrypts and runs transactions.
Fairness == /\ WF_vars(KeyImport) /\ WF_vars(DatabaseOpens) /\ WF_vars(Waits)
            /\ WF_vars(Transaction)
            /\ \A i \in 1..(MaxCalls + 1) : WF_vars(i \in DOMAIN calls /\ Encryption(i))

(***************************************************************************)
(* Properties.                                                             *)
(***************************************************************************)
\* The types of all variables.
Ciphers == [value : Values \cup {Sentinel}, key : CryptoKeys]
TypeOK ==
  /\ keyPromise \in {"unset", "importing", "rejected"} \cup CryptoKeys
  /\ key \in CryptoKeys \cup {NoKey}
  /\ inner \in {"unset", "opening", "open", "failed"}
  /\ table \in [Names -> Ciphers \cup {Nothing}]
  /\ \A i \in DOMAIN txs : /\ txs[i].by \in DOMAIN calls
                           /\ txs[i].item \in Names /\ txs[i].cipher \in Ciphers \cup {Nothing}
  /\ committing \in BOOLEAN
  /\ latest \in [ItemKeys -> SUBSET (Values \cup {Nothing})]
  /\ \A i \in DOMAIN calls : /\ calls[i].item \in Names
                             /\ calls[i].before \in [ItemKeys -> SUBSET (Values \cup {Nothing})]

\* Once initialize() has resolved, everything in the table was encrypted
\* with the key of this session: what an earlier key left is gone, wherever
\* that session was cut off.  Hence nothing is decrypted with a wrong key,
\* which AES-CBC does not reliably notice.
OneKeyInTable == Ready => \A n \in Names : table[n] # Nothing => table[n].key = key

\* What a read that is made now will find, unless a transaction fails: the
\* write that was answered commits first.
Found(k) == IF committing /\ Head(txs).item = k
            THEN IF Head(txs).cipher = Nothing THEN Nothing ELSE Head(txs).cipher.value
            ELSE Plain(k)

\* Writes of a key that do not overlap take effect in the order they were
\* made: a write that begins after another was answered supersedes it,
\* although it may be encrypted faster.  A write that fails leaves what it
\* superseded, one that aborts after its answer too.
AnsweredWritesStay == Ready => \A k \in ItemKeys : Writing(k) \/ Found(k) \in latest[k]

\* initialize() is answered whatever the key import, the database and its
\* transactions do, unless the page goes away.
InitSettles ==
  (calls # <<>> /\ keyPromise # "unset") ~> (calls = <<>> \/ calls[1].stage \in Over)
================================================================================
