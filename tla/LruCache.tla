------------------------------- MODULE LruCache --------------------------------
(***************************************************************************)
(* What a least-recently-used cache promises: the keys in the order of     *)
(* their last use, oldest first, never more of them than the limit; room   *)
(* is made by dropping the oldest.  Cache implements this module.          *)
(***************************************************************************)
EXTENDS Integers, Sequences

CONSTANTS
  Keys,
  Values,
  Limits,   \* the limits that may be set
  NoLimit,  \* an unlimited cache
  NoValue   \* what a key without an entry has

VARIABLES
  order,  \* the keys with an entry, least recently used first
  value,  \* the value of each key
  limit,
  used    \* the key used last, if any

lruVars == <<order, value, limit, used>>

\* The newest entries of s that fit
Fit(s, max) ==
  IF max = NoLimit \/ Len(s) <= max THEN s ELSE SubSeq(s, Len(s) - max + 1, Len(s))

Contains(s, k) == \E i \in DOMAIN s : s[i] = k

\* s, which has no key twice, without k
Without(s, k) ==
  IF ~ Contains(s, k) THEN s
  ELSE LET i == CHOOSE i \in DOMAIN s : s[i] = k
       IN SubSeq(s, 1, i - 1) \o SubSeq(s, i + 1, Len(s))

\* The cache holds exactly the keys of s, with the values in f.
Hold(s, f) ==
  /\ order' = s
  /\ value' = [k \in Keys |-> IF Contains(s, k) THEN f[k] ELSE NoValue]

Init ==
  /\ order = <<>>
  /\ value = [k \in Keys |-> NoValue]
  /\ limit \in Limits \cup {NoLimit}
  /\ used = NoValue

Use(k, f) ==
  /\ Hold(Fit(Append(Without(order, k), k), limit), f)
  /\ used' = k

Put(k, v) == Use(k, [value EXCEPT ![k] = v]) /\ UNCHANGED limit
Get(k) == Contains(order, k) /\ Use(k, value) /\ UNCHANGED limit
Drop(k) == Hold(Without(order, k), value) /\ UNCHANGED <<limit, used>>
Flush == Hold(<<>>, value) /\ UNCHANGED <<limit, used>>
SetLimit(max) == Hold(Fit(order, max), value) /\ limit' = max /\ UNCHANGED used

Next ==
  \/ \E k \in Keys : Get(k) \/ Drop(k) \/ \E v \in Values : Put(k, v)
  \/ Flush
  \/ \E max \in Limits : SetLimit(max)

Spec == Init /\ [][Next]_lruVars
================================================================================
