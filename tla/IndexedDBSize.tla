----------------------------- MODULE IndexedDBSize -----------------------------
(***************************************************************************)
(* What IndexedDBAdapter believes about the size of its table, and the     *)
(* sweeps it starts for it (IndexedDBAdapter.js: getSize, _walkInternal,   *)
(* setItems, removeItems, clear, sweep, _expireCache, _updateSize,         *)
(* _refreshSize, _setSize).                                                *)
(*                                                                         *)
(* The items are numbers, in the order of their expiry: that is the order  *)
(* in which a sweep meets them.  Transactions run in the order they were   *)
(* made; a cursor sees the table as it is when its transaction runs.  The  *)
(* success of a put or of a removal changes the estimate; the transaction  *)
(* commits after that, or aborts.  Any transaction may also fail before.   *)
(***************************************************************************)
EXTENDS Integers, Sequences, FiniteSets, FiniteSetsExt

CONSTANTS
  Items,        \* 1..n
  Sizes,        \* what an item may weigh, even numbers
  MaxSize,      \* config.maxSize
  AgeLimit,     \* updates after which getSize walks the table (50)
  MaxCalls      \* bound on the calls

VARIABLES
  table,        \* the size of each item, 0 when it is not there
  clock,        \* the items up to this one have expired
  txs,          \* transactions that have not ended
  committing,   \* the requests of the first of them succeeded: a put or a removal that has to commit
  guess, bar, age, avg,   \* #sizeGuess, #sizeErrorBar, #sizeAge, #sizeAvg
  suspended,    \* #sweepingSuspended
  recent,       \* the last sweep is less than #sweepInterval ago
  calls,        \* calls made
  swept,        \* a scan ran to its end with sweeping enabled; since then nothing was
                \* written, and no scan and no removal failed (history)
  misled        \* since the guess was last set, clear() was called with transactions under
                \* way, or a removal or a clear failed (history)

estimate == <<guess, bar, age, avg>>
history == <<swept, misled>>
vars == <<table, clock, txs, committing, estimate, suspended, recent, calls, history>>

\* The marks of the constructor: 90%, 70% and 50% of the maximum.
High == (9 * MaxSize) \div 10
Low == (7 * MaxSize) \div 10
ErrorLimit == (5 * MaxSize) \div 10

Weight(S) == MapThenSumSet(LAMBDA k : table[k], S)
Present == {k \in Items : table[k] > 0}
Total == Weight(Items)

Init ==
  /\ table = [k \in Items |-> 0] /\ clock = 0 /\ txs = <<>> /\ committing = FALSE
  /\ guess = 0 /\ bar = 0 /\ age = AgeLimit /\ avg = 2
  /\ suspended = FALSE /\ recent = FALSE /\ calls = 0
  /\ swept = FALSE /\ misled = FALSE

(***************************************************************************)
(* The estimate.                                                           *)
(***************************************************************************)
UpdateSize(change, error) ==
  /\ guess' = guess + change /\ bar' = bar + error /\ age' = age + 1
  /\ UNCHANGED avg

\* _setSize; _refreshSize adds statistics that nothing reads.
SetSize(size, count) ==
  /\ guess' = size /\ bar' = 0 /\ age' = 0
  /\ avg' = IF count > 0 THEN size \div count ELSE avg

(***************************************************************************)
(* _expireCache, up to its cursor: the transactions it adds.  "believed"   *)
(* is the guess it starts from.                                            *)
(***************************************************************************)
Skips(believed) == suspended \/ (recent /\ believed < High)

ToRemove(requested, believed) ==
  requested + (IF believed > Low THEN believed - Low ELSE 0)

Scan(requested, believed) ==
  IF Skips(believed) THEN <<>>
  ELSE <<[op |-> "scan", size |-> ToRemove(requested, believed), until |-> clock]>>

Begun(scan) == recent' = (recent \/ scan # <<>>)

(***************************************************************************)
(* Calls.                                                                  *)
(***************************************************************************)
Called == calls < MaxCalls /\ calls' = calls + 1

SetItems(k, s) ==
  /\ Called /\ k > clock
  /\ LET crowded == s + guess + bar > High \/ bar > ErrorLimit
         scan == IF crowded THEN Scan(s, guess) ELSE <<>>
     IN /\ txs' = txs \o scan \o <<[op |-> "put", item |-> k, size |-> s]>>
        /\ Begun(scan)
  /\ UNCHANGED <<table, clock, committing, estimate, suspended, history>>

RemoveItems(k) ==
  /\ Called
  /\ txs' = Append(txs, [op |-> "remove", items |-> {k}, avg |-> avg])
  /\ UNCHANGED <<table, clock, committing, estimate, suspended, recent, history>>

\* The size is set at once, the table is cleared later, if at all.
Clear ==
  /\ Called
  /\ txs' = Append(txs, [op |-> "clear"])
  /\ SetSize(0, 0)
  /\ misled' = (txs # <<>>)
  /\ UNCHANGED <<table, clock, committing, suspended, recent, swept>>

\* The guess while it is young, else a walk over the table (_walkInternal).
GetSize ==
  /\ Called /\ age >= AgeLimit
  /\ txs' = Append(txs, [op |-> "walk"])
  /\ UNCHANGED <<table, clock, committing, estimate, suspended, recent, history>>

Sweep ==
  /\ Called
  /\ LET scan == Scan(0, guess) IN
     /\ txs' = txs \o scan
     /\ Begun(scan)
  /\ UNCHANGED <<table, clock, committing, estimate, suspended, history>>

SetSuspended(b) ==
  /\ Called /\ suspended # b
  /\ suspended' = b
  /\ UNCHANGED <<table, clock, txs, committing, estimate, recent, history>>

(***************************************************************************)
(* Transactions.                                                           *)
(***************************************************************************)
Runs(op) == txs # <<>> /\ ~committing /\ Head(txs).op = op
Commits(op) == committing /\ committing' = FALSE /\ Head(txs).op = op
Quiet == UNCHANGED <<clock, suspended, calls>>

\* onsuccess answers the call and changes the estimate.
Succeeds(change, error) ==
  /\ committing' = TRUE
  /\ UpdateSize(change, error)
  /\ UNCHANGED <<table, txs, recent, history>> /\ Quiet

PutSucceeds == Runs("put") /\ Succeeds(Head(txs).size \div 2, Head(txs).size \div 2)

\* A mutant: the error bar shrinks with the guess.
RemoveShrinksBar == Runs("remove") /\ Succeeds(-Head(txs).avg, -Head(txs).avg)

RemoveSucceeds == Runs("remove") /\ Succeeds(-Head(txs).avg, Head(txs).avg)

PutCommits ==
  /\ Commits("put")
  /\ table' = [table EXCEPT ![Head(txs).item] = Head(txs).size]
  /\ txs' = Tail(txs) /\ swept' = FALSE
  /\ UNCHANGED <<estimate, recent, misled>> /\ Quiet

RemoveCommits ==
  /\ Commits("remove")
  /\ table' = [k \in Items |-> IF k \in Head(txs).items THEN 0 ELSE table[k]]
  /\ txs' = Tail(txs)
  /\ UNCHANGED <<estimate, recent, history>> /\ Quiet

ClearRuns ==
  /\ Runs("clear")
  /\ table' = [k \in Items |-> 0]
  /\ txs' = Tail(txs)
  /\ UNCHANGED <<committing, estimate, recent, history>> /\ Quiet

\* The error and abort handlers reject a promise, which nobody reads after the
\* call was answered, nor that of a removal a sweep made (line 689): the
\* estimate stays as it is.
Fails ==
  /\ txs # <<>>
  /\ txs' = Tail(txs) /\ committing' = FALSE
  /\ swept' = (swept /\ Head(txs).op \notin {"remove", "scan"})
  /\ misled' = (misled \/ Head(txs).op \in {"remove", "clear"})
  /\ UNCHANGED <<table, estimate, recent>> /\ Quiet

\* After a scan that found "size" a sweep follows when that is too much.
\* The guess is exact now, unless a clear() is still to come.
ThenSweepAbove(size, more) ==
  LET scan == IF size > High THEN Scan(0, size) ELSE <<>> IN
  /\ txs' = Tail(txs) \o more \o scan
  /\ Begun(scan)

\* A mutant: the check of line 698 is gone.
NoSecondSweep(size, more) == txs' = Tail(txs) \o more /\ UNCHANGED recent

AfterScan(size, more) == ThenSweepAbove(size, more)

Counted == misled' = \E i \in DOMAIN Tail(txs) : Tail(txs)[i].op = "clear"

WalkRuns ==
  /\ Runs("walk")
  /\ SetSize(Total, Cardinality(Present))
  /\ AfterScan(Total, <<>>) /\ Counted
  /\ UNCHANGED <<table, committing, swept>> /\ Quiet

\* What a scan removes: what has expired, and more from the front until it is enough.
Chosen(tx) ==
  LET earlier(k) == {j \in Present : j < k}
      chosen[k \in Items] ==
        k <= tx.until \/ MapThenSumSet(LAMBDA j : IF chosen[j] THEN table[j] ELSE 0, earlier(k)) < tx.size
  IN {k \in Present : chosen[k]}

ScanRuns ==
  /\ Runs("scan")
  /\ LET gone == Chosen(Head(txs))
         kept == Present \ gone
     IN /\ SetSize(Weight(kept), Cardinality(kept))
        /\ AfterScan(Weight(kept),
             IF gone = {} THEN <<>>
             ELSE <<[op |-> "remove", items |-> gone,
                     avg |-> IF kept = {} THEN avg ELSE Weight(kept) \div Cardinality(kept)]>>)
  /\ Counted /\ swept' = ~suspended
  /\ UNCHANGED <<table, committing>> /\ Quiet

Transaction ==
  \/ PutSucceeds \/ RemoveSucceeds \/ PutCommits \/ RemoveCommits
  \/ ClearRuns \/ WalkRuns \/ ScanRuns \/ Fails

\* Time: an item expires; the interval between sweeps is over.
Expire ==
  /\ clock < Cardinality(Items) /\ calls < MaxCalls
  /\ clock' = clock + 1
  /\ UNCHANGED <<table, txs, committing, estimate, suspended, recent, calls, history>>

IntervalOver ==
  /\ recent /\ recent' = FALSE
  /\ UNCHANGED <<table, clock, txs, committing, estimate, suspended, calls, history>>

Next ==
  \/ \E k \in Items : RemoveItems(k) \/ \E s \in Sizes : SetItems(k, s)
  \/ Clear \/ GetSize \/ Sweep
  \/ \E b \in BOOLEAN : SetSuspended(b)
  \/ Transaction \/ Expire \/ IntervalOver

Spec == Init /\ [][Next]_vars
Fairness == WF_vars(Transaction)

(***************************************************************************)
(* Properties.                                                             *)
(***************************************************************************)
\* The types of all variables.  The guess may be negative: a sweep counts
\* what it keeps, and the removal of the rest is subtracted from that again.
TypeOK ==
  /\ table \in [Items -> Sizes \cup {0}]
  /\ \A i \in DOMAIN txs : txs[i].op \in {"put", "remove", "clear", "walk", "scan"}
  /\ guess \in Int /\ bar \in Nat /\ age \in Nat /\ avg \in Nat
  /\ {committing, suspended, recent, swept, misled} \subseteq BOOLEAN

\* "brings the store size below max size" (line 531): when a scan has run with
\* sweeping enabled, nothing was written since, no transaction of the sweep
\* failed and nothing is under way, the table is not above the high-water
\* mark, whatever the guess was when the sweep began.
SweepBringsDown == txs = <<>> /\ swept => Total <= High

\* A fresh estimate is exact once nothing is under way, whatever puts were
\* answered and then aborted, unless the code misled itself after it counted:
\* it set the size for a clear() that failed, or that had transactions ahead
\* of it (a walk among them sets the old size again), or it subtracted
\* the items of a sweep whose removal failed, and ignored that.
FreshGuessIsExact == txs = <<>> /\ age = 0 /\ ~misled => guess = Total /\ bar = 0

\* A sweep that starts another ends, unless its removals keep failing: the
\* table comes to rest.
SweepsEnd == []<><<Fails>>_vars \/ (txs # <<>> ~> txs = <<>>)
================================================================================
