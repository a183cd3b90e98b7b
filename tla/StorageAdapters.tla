---------------------------- MODULE StorageAdapters ----------------------------
(***************************************************************************)
(* The storage adapters, each by itself: a behaviour is one of adapters    *)
(* that open a database (IndexedDBOpen), of an adapter that keeps track of *)
(* the size of its table (IndexedDBSize), or of an adapter that encrypts   *)
(* (CryptoAdapter).                                                        *)
(***************************************************************************)
EXTENDS IndexedDBOpen

CONSTANTS
  Items, ItemSizes, MaxSize, AgeLimit, SizeCalls,                           \* IndexedDBSize
  ItemKeys, Sentinel, Values, CryptoKeys, Garbage, CryptoCalls, MaxReloads, \* CryptoAdapter
  Nothing

VARIABLES part,
  sizes, clock, sizeTxs, sizeCommitting, guess, bar, age, avg, suspended, recent, sizeCalls,
  swept, misled,
  keyPromise, key, inner, table, txs, committing, calls, reloads, latest

Size == INSTANCE IndexedDBSize WITH
       Sizes <- ItemSizes, MaxCalls <- SizeCalls,
       table <- sizes, txs <- sizeTxs, committing <- sizeCommitting, calls <- sizeCalls
Crypto == INSTANCE CryptoAdapter WITH MaxCalls <- CryptoCalls

\* An item that is there weighs something.
ASSUME SizesAssumption ==
  /\ IsFiniteSet(Items) /\ ItemSizes \subseteq Nat \ {0}
  /\ MaxSize \in Nat /\ AgeLimit \in Nat

\* The sentinel is no item, and neither it nor a cipher looks like nothing.
ASSUME CryptoAssumption ==
  /\ Sentinel \notin ItemKeys /\ Sentinel \notin {Nothing, Garbage}
  /\ Nothing \notin Crypto!Ciphers

sizeVars == <<sizes, clock, sizeTxs, sizeCommitting, guess, bar, age, avg, suspended, recent,
              sizeCalls, swept, misled>>
cryptoVars == <<keyPromise, key, inner, table, txs, committing, calls, reloads, latest>>
all == <<part, vars, sizeVars, cryptoVars>>

InitAll ==
  /\ part \in {"open", "size", "crypto"} /\ Init /\ Size!Init /\ Crypto!Init
  /\ part = "crypto" \/ \A n \in DOMAIN table : table[n] = Nothing
Opens(A) == part = "open" /\ UNCHANGED <<part, sizeVars, cryptoVars>> /\ A
Weighs(A) == part = "size" /\ UNCHANGED <<part, vars, cryptoVars>> /\ A
Encrypts(A) == part = "crypto" /\ UNCHANGED <<part, vars, sizeVars>> /\ A
NextAll == Opens(Next) \/ Weighs(Size!Next) \/ Encrypts(Crypto!Next)

SafeSpec == InitAll /\ [][NextAll]_all

\* The fairness of each module, for the behaviours that are about it.
FairSpec ==
  /\ SafeSpec
  /\ WF_all(Opens(Browser)) /\ \A a \in Adapters : WF_all(Opens(Handlers(a)))
  /\ WF_all(Weighs(Size!Transaction))
  /\ WF_all(Encrypts(Crypto!KeyImport)) /\ WF_all(Encrypts(Crypto!DatabaseOpens))
  /\ WF_all(Encrypts(Crypto!Waits)) /\ WF_all(Encrypts(Crypto!Transaction))
  /\ \A i \in 1..(CryptoCalls + 1) : WF_all(Encrypts(i \in DOMAIN calls /\ Crypto!Encryption(i)))

\* The types of all variables of the three.
TypesHold == TypeOK /\ Size!TypeOK /\ Crypto!TypeOK

\* A sweep brings the table below the mark, and a fresh guess of the size of
\* the table is exact once nothing is under way (IndexedDBSize).
EstimateIsSound == Size!SweepBringsDown /\ Size!FreshGuessIsExact

\* What was encrypted with another key is gone once initialize() has
\* resolved, and writes that were answered stay (CryptoAdapter).
OneKeyInTable == Crypto!OneKeyInTable
AnsweredWritesStay == Crypto!AnsweredWritesStay

\* Adapters that open do not wait for each other in a circle, and the
\* time-out ends the wait for a lost answer; sweeps end; the initialize() of
\* the encrypting adapter is answered.
EverythingSettles == OpensWithoutTimer /\ EveryInitSettles /\ Size!SweepsEnd /\ Crypto!InitSettles
================================================================================
