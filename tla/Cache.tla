--------------------------------- MODULE Cache ---------------------------------
(***************************************************************************)
(* src/Common/src/collection/Cache.js: an LRU cache kept as a Map from     *)
(* keys to entries and a doubly-linked list of the entries, the oldest at  *)
(* the head.  The Map holds one entry of a key, so an entry is named by    *)
(* its key.  Values are not null (with a null value getOrPut takes a hit   *)
(* for a miss), and a getValue given to getOrPut does not use the cache.   *)
(***************************************************************************)
EXTENDS Integers, Sequences, Functions

CONSTANTS
  Keys,
  Values,
  None,         \* undefined
  FirstLimits,  \* limits given to the constructor
  LaterLimits   \* limits given to setLimit afterwards

NoLimit == -1

ASSUME NoneAssumption == None \notin Keys
ASSUME LimitsAssumption == FirstLimits \subseteq Nat \cup {NoLimit} /\ LaterLimits \subseteq Nat

VARIABLES
  cache,  \* the fields of the Cache, and those of the entries
  used    \* history: the key of the last put or hit

vars == <<cache, used>>

Pointers == Keys \cup {None}

TypeOK ==
  /\ used \in Pointers
  /\ cache \in [map : SUBSET Keys, size : Nat, limit : Nat \cup {NoLimit},
                head : Pointers, tail : Pointers,
                older : [Keys -> Pointers], newer : [Keys -> Pointers],
                value : [Keys -> Values \cup {None}]]

Init ==
  /\ used = None
  /\ \E limit \in FirstLimits :
       LET undefined == [k \in Keys |-> None]
       IN cache = [map |-> {}, size |-> 0, limit |-> limit, head |-> None, tail |-> None,
                   older |-> undefined, newer |-> undefined, value |-> undefined]

--------------------------------------------------------------------------------
(* _remove, _insert and the entries                                        *)

\* A mutant: the newer neighbour keeps its pointer to the removed entry.
RemovedHalf(c, node) ==
  IF node = None THEN c
  ELSE LET older == c.older[node]
           newer == c.newer[node]
       IN [c EXCEPT !.map = @ \ {node},
                    !.tail = IF newer = None THEN older ELSE @,
                    !.newer = IF older = None THEN @ ELSE [@ EXCEPT ![older] = newer],
                    !.head = IF older = None THEN newer ELSE @,
                    !.size = @ - 1]

\* The cache without the entry, which keeps its own pointers
Removed(c, node) ==
  IF node = None THEN c
  ELSE LET older == c.older[node]
           newer == c.newer[node]
       IN [c EXCEPT !.map = @ \ {node},
                    !.older = IF newer = None THEN @ ELSE [@ EXCEPT ![newer] = older],
                    !.tail = IF newer = None THEN older ELSE @,
                    !.newer = IF older = None THEN @ ELSE [@ EXCEPT ![older] = newer],
                    !.head = IF older = None THEN newer ELSE @,
                    !.size = @ - 1]

\* The cache with the entry linked behind the tail
Linked(c, node) ==
  IF c.tail = None
  THEN [c EXCEPT !.map = @ \cup {node}, !.newer[node] = None, !.head = node, !.tail = node]
  ELSE [c EXCEPT !.map = @ \cup {node}, !.newer = [@ EXCEPT ![c.tail] = node, ![node] = None],
                 !.older[node] = c.tail, !.tail = node]

\* Linked, and the head pruned when the size was at the limit
Inserted(c, node) ==
  LET linked == Linked(c, node)
      pruned == IF c.size = c.limit THEN Removed(linked, linked.head) ELSE linked
  IN [pruned EXCEPT !.size = @ + 1]

\* s is what a walk from the head along the newer pointers finds.
Walked(c, s) ==
  /\ c.head = IF s = <<>> THEN None ELSE s[1]
  /\ \A i \in DOMAIN s : c.newer[s[i]] = IF i = Len(s) THEN None ELSE s[i + 1]

\* The keys of the entries, oldest first (keys() lists them)
Chain == CHOOSE s \in [1 .. cache.size -> Keys] : Walked(cache, s)

\* A new entry object {key, value} is inserted.
InsertNew(k, v) ==
  cache' = Inserted([cache EXCEPT !.value[k] = v, !.older[k] = None, !.newer[k] = None], k)

--------------------------------------------------------------------------------
(* The operations                                                          *)

Put(k, v) ==
  /\ IF k \notin cache.map THEN InsertNew(k, v)
     ELSE cache' = Inserted(Removed([cache EXCEPT !.value[k] = v], k), k)
  /\ used' = k

\* A mutant: a hit leaves the entry where it is.
HitInPlace(k) == UNCHANGED cache

\* A hit moves the entry to the tail.
Hit(k) == cache' = Inserted(Removed(cache, k), k)

Get(k) ==
  /\ k \in cache.map
  /\ Hit(k)
  /\ used' = k

\* A miss inserts what getValue returned.
GetOrPut(k, v) ==
  /\ IF k \in cache.map THEN Hit(k) ELSE InsertNew(k, v)
  /\ used' = k

Delete(k) ==
  /\ k \in cache.map
  /\ cache' = Removed(cache, k)
  /\ UNCHANGED used

Shift ==
  /\ cache' = Removed(cache, cache.head)
  /\ UNCHANGED used

Flush ==
  /\ cache' = [cache EXCEPT !.head = None, !.tail = None, !.size = 0, !.map = {}]
  /\ UNCHANGED used

\* The cache after n calls of shift
Shifted(c, n) ==
  LET after[i \in Nat] == IF i = 0 THEN c ELSE Removed(after[i - 1], after[i - 1].head)
  IN after[n]

\* let n = size - limit; if (n > 0) while (--n) shift()
SetLimit(max) ==
  LET limited == [cache EXCEPT !.limit = max]
  IN /\ cache' = IF cache.size > max THEN Shifted(limited, cache.size - max - 1) ELSE limited
     /\ UNCHANGED used

Next ==
  \/ \E k \in Keys, v \in Values : Put(k, v) \/ GetOrPut(k, v)
  \/ \E k \in Keys : Get(k) \/ Delete(k)
  \/ Shift
  \/ Flush
  \/ \E max \in LaterLimits : SetLimit(max)

Spec == Init /\ [][Next]_vars

--------------------------------------------------------------------------------
(* Properties                                                              *)

\* The list is doubly linked from the head to the tail, the Map holds exactly its
\* entries, and the size counts them: whatever sequence of operations re-linked
\* entries that kept their old pointers.
ListIsSound ==
  \E s \in [1 .. cache.size -> Keys] :
    /\ Walked(cache, s)
    /\ Range(s) = cache.map
    /\ \A i, j \in DOMAIN s : s[i] = s[j] => i = j
    /\ cache.tail = IF s = <<>> THEN None ELSE s[Len(s)]
    /\ \A i \in DOMAIN s : cache.older[s[i]] = IF i = 1 THEN None ELSE s[i - 1]

\* The cache is a least-recently-used cache: what a key holds, which key goes when
\* room is needed, and how many may stay.
Lru == INSTANCE LruCache WITH
  Limits <- (FirstLimits \cup LaterLimits) \ {NoLimit},
  NoValue <- None,
  order <- Chain,
  value <- [k \in Keys |-> IF k \in cache.map THEN cache.value[k] ELSE None],
  limit <- cache.limit

ImplementsLru == Lru!Spec

\* Cache.js:117: setLimit removes any extra objects.
LimitKept == cache.limit # NoLimit => cache.size <= cache.limit
================================================================================
