------------------------------ MODULE CacheProofs ------------------------------
(***************************************************************************)
(* Theorems about Cache, for any keys, values and limits: its types, that  *)
(* its list stays sound, and that it is a least-recently-used cache as     *)
(* long as no limit is set below the number of entries.                    *)
(***************************************************************************)
EXTENDS Cache, WellFoundedInduction, TLAPS

(* A Cache in the middle of an operation: the size may be off by one.      *)
Caches == [map : SUBSET Keys, size : Int, limit : Nat \cup {NoLimit},
           head : Pointers, tail : Pointers,
           older : [Keys -> Pointers], newer : [Keys -> Pointers],
           value : [Keys -> Values \cup {None}]]

(* s is the list of c, whatever its size says.                             *)
ListOf(c, s) ==
  /\ s \in Seq(Keys)
  /\ \A i, j \in 1 .. Len(s) : s[i] = s[j] => i = j
  /\ \A k \in Keys : k \in c.map <=> \E i \in 1 .. Len(s) : s[i] = k
  /\ c.head = IF Len(s) = 0 THEN None ELSE s[1]
  /\ c.tail = IF Len(s) = 0 THEN None ELSE s[Len(s)]
  /\ \A i \in 1 .. Len(s) : c.newer[s[i]] = IF i = Len(s) THEN None ELSE s[i + 1]
  /\ \A i \in 1 .. Len(s) : c.older[s[i]] = IF i = 1 THEN None ELSE s[i - 1]

(* s without its p-th element.                                             *)
Cut(s, p) == SubSeq(s, 1, p - 1) \o SubSeq(s, p + 1, Len(s))

--------------------------------------------------------------------------------
(* Sequences                                                               *)

LEMMA CutFacts ==
  ASSUME NEW S, NEW s \in Seq(S), NEW p \in 1 .. Len(s)
  PROVE  /\ Cut(s, p) \in Seq(S)
         /\ Len(Cut(s, p)) = Len(s) - 1
         /\ \A i \in 1 .. Len(s) - 1 : Cut(s, p)[i] = IF i < p THEN s[i] ELSE s[i + 1]
<1>1. /\ SubSeq(s, 1, p - 1) \in Seq(S)
      /\ Len(SubSeq(s, 1, p - 1)) = p - 1
      /\ \A i \in 1 .. p - 1 : SubSeq(s, 1, p - 1)[i] = s[i]
  OBVIOUS
<1>2. /\ SubSeq(s, p + 1, Len(s)) \in Seq(S)
      /\ Len(SubSeq(s, p + 1, Len(s))) = Len(s) - p
      /\ \A i \in 1 .. Len(s) - p : SubSeq(s, p + 1, Len(s))[i] = s[p + i]
  OBVIOUS
<1> DEFINE a == SubSeq(s, 1, p - 1)
           b == SubSeq(s, p + 1, Len(s))
<1>3. Cut(s, p) = a \o b BY DEF Cut
<1>4. Len(s) \in Nat /\ p \in Int OBVIOUS
<1> HIDE DEF a, b
<1>5. /\ a \in Seq(S) /\ Len(a) = p - 1 /\ \A i \in 1 .. p - 1 : a[i] = s[i] BY <1>1 DEF a
<1>6. /\ b \in Seq(S) /\ Len(b) = Len(s) - p /\ \A i \in 1 .. Len(s) - p : b[i] = s[p + i]
  BY <1>2 DEF b
<1>7. a \o b \in Seq(S) /\ Len(a \o b) = Len(s) - 1
  <2>1. \A A : \A x, y \in Seq(A) : x \o y \in Seq(A) /\ Len(x \o y) = Len(x) + Len(y) OBVIOUS
  <2>2. a \o b \in Seq(S) /\ Len(a \o b) = Len(a) + Len(b) BY <2>1, <1>5, <1>6, Zenon
  <2> QED BY <2>2, <1>4, <1>5, <1>6
<1>8. ASSUME NEW i \in 1 .. Len(s) - 1 PROVE (a \o b)[i] = IF i < p THEN s[i] ELSE s[i + 1]
  <2>1. (a \o b)[i] = IF i <= Len(a) THEN a[i] ELSE b[i - Len(a)]
    BY <1>4, <1>5, <1>6
  <2>2. CASE i < p BY <2>1, <2>2, <1>4, <1>5
  <2>3. CASE i >= p
    <3>1. i - (p - 1) \in 1 .. Len(s) - p BY <2>3, <1>4
    <3>2. b[i - (p - 1)] = s[p + (i - (p - 1))] BY <3>1, <1>6
    <3> QED BY <3>2, <2>1, <2>3, <1>4, <1>5
  <2>4. i < p \/ i >= p BY <1>4
  <2> QED BY <2>2, <2>3, <2>4, Zenon
<1> QED BY <1>3, <1>7, <1>8

LEMMA AppendFacts ==
  ASSUME NEW S, NEW s \in Seq(S), NEW k \in S
  PROVE  /\ Append(s, k) \in Seq(S)
         /\ Len(Append(s, k)) = Len(s) + 1
         /\ Append(s, k)[Len(s) + 1] = k
         /\ \A i \in 1 .. Len(s) : Append(s, k)[i] = s[i]
OBVIOUS

--------------------------------------------------------------------------------
(* What the operations do with the list                                    *)

(* The fields after an entry was removed.                                  *)
LEMMA RemovedFields ==
  ASSUME NEW c \in Caches, NEW k \in Keys
  PROVE  LET o == c.older[k]
             n == c.newer[k]
             r == Removed(c, k)
         IN /\ r \in Caches
            /\ r.map = c.map \ {k} /\ r.size = c.size - 1
            /\ r.limit = c.limit /\ r.value = c.value
            /\ r.head = IF o = None THEN n ELSE c.head
            /\ r.tail = IF n = None THEN o ELSE c.tail
            /\ r.older = IF n = None THEN c.older ELSE [c.older EXCEPT ![n] = o]
            /\ r.newer = IF o = None THEN c.newer ELSE [c.newer EXCEPT ![o] = n]
<1>1. k # None BY NoneAssumption
<1>2. c.older[k] \in Pointers /\ c.newer[k] \in Pointers BY DEF Caches
<1> DEFINE o == c.older[k]
           n == c.newer[k]
           older == IF n = None THEN c.older ELSE [c.older EXCEPT ![n] = o]
           newer == IF o = None THEN c.newer ELSE [c.newer EXCEPT ![o] = n]
           removed == [map |-> c.map \ {k}, size |-> c.size - 1, limit |-> c.limit,
                       head |-> IF o = None THEN n ELSE c.head,
                       tail |-> IF n = None THEN o ELSE c.tail,
                       older |-> older, newer |-> newer, value |-> c.value]
<1>3. /\ c.older \in [Keys -> Pointers] /\ c.newer \in [Keys -> Pointers]
      /\ c.head \in Pointers /\ c.tail \in Pointers
      /\ c.map \in SUBSET Keys /\ c.size \in Int
  BY DEF Caches
<1>4. older \in [Keys -> Pointers] /\ newer \in [Keys -> Pointers] BY <1>2, <1>3 DEF Pointers
<1>5. Removed(c, k) = removed
  <2>1. c = [map |-> c.map, size |-> c.size, limit |-> c.limit, head |-> c.head, tail |-> c.tail,
             older |-> c.older, newer |-> c.newer, value |-> c.value]
    BY DEF Caches
  <2> QED BY <2>1, <1>1 DEF Removed
<1>6. removed \in Caches
  <2> HIDE DEF older, newer
  <2> QED BY <1>2, <1>3, <1>4 DEF Caches
<1> QED BY <1>5, <1>6

(* An entry of the list removed.                                           *)
LEMMA RemovedList ==
  ASSUME NEW c \in Caches, NEW s, ListOf(c, s), NEW p \in 1 .. Len(s)
  PROVE  ListOf(Removed(c, s[p]), Cut(s, p))
<1> DEFINE k == s[p]
           r == Removed(c, k)
           t == Cut(s, p)
           o == c.older[k]
           n == c.newer[k]
<1>1. s \in Seq(Keys) /\ k \in Keys /\ Len(s) \in Nat BY DEF ListOf
<1>2. /\ o = IF p = 1 THEN None ELSE s[p - 1]
      /\ n = IF p = Len(s) THEN None ELSE s[p + 1]
  BY DEF ListOf
<1>3. /\ t \in Seq(Keys) /\ Len(t) = Len(s) - 1
      /\ \A i \in 1 .. Len(s) - 1 : t[i] = IF i < p THEN s[i] ELSE s[i + 1]
  BY <1>1, CutFacts
<1>4. \A i \in 1 .. Len(s) : s[i] \in Keys /\ s[i] # None BY <1>1, NoneAssumption
<1>5. \A i, j \in 1 .. Len(s) : s[i] = s[j] => i = j BY DEF ListOf
<1>6. /\ r.map = c.map \ {k}
      /\ r.head = IF o = None THEN n ELSE c.head
      /\ r.tail = IF n = None THEN o ELSE c.tail
      /\ r.older = IF n = None THEN c.older ELSE [c.older EXCEPT ![n] = o]
      /\ r.newer = IF o = None THEN c.newer ELSE [c.newer EXCEPT ![o] = n]
  BY <1>1, RemovedFields
<1>7. c.older \in [Keys -> Pointers] /\ c.newer \in [Keys -> Pointers] BY DEF Caches
<1> HIDE DEF k, r, t, o, n
<1>8. \A i, j \in 1 .. Len(t) : t[i] = t[j] => i = j
  BY <1>1, <1>3, <1>5
<1>9. ASSUME NEW l \in Keys PROVE l \in r.map <=> \E i \in 1 .. Len(t) : t[i] = l
  <2>1. l \in c.map <=> \E i \in 1 .. Len(s) : s[i] = l BY DEF ListOf
  <2>2. ASSUME NEW i \in 1 .. Len(s), s[i] = l, l # k PROVE \E j \in 1 .. Len(t) : t[j] = l
    <3>1. i # p BY <2>2 DEF k
    <3>2. CASE i < p
      <4>1. i \in 1 .. Len(t) BY <3>2, <1>1, <1>3
      <4> QED BY <4>1, <3>2, <2>2, <1>3
    <3>3. CASE i > p
      <4>1. i - 1 \in 1 .. Len(t) BY <3>3, <1>1, <1>3
      <4>2. t[i - 1] = s[i] BY <4>1, <3>3, <1>1, <1>3
      <4> QED BY <4>1, <4>2, <2>2
    <3> QED BY <3>1, <3>2, <3>3
  <2>3. ASSUME NEW j \in 1 .. Len(t), t[j] = l PROVE l # k /\ \E i \in 1 .. Len(s) : s[i] = l
    <3>1. CASE j < p BY <3>1, <2>3, <1>1, <1>3, <1>5 DEF k
    <3>2. CASE j >= p
      <4>1. j + 1 \in 1 .. Len(s) /\ t[j] = s[j + 1] /\ j + 1 # p BY <3>2, <1>1, <1>3
      <4> QED BY <4>1, <2>3, <1>5 DEF k
    <3> QED BY <3>1, <3>2
  <2> QED BY <2>1, <2>2, <2>3, <1>6
<1>10. /\ r.head = IF Len(t) = 0 THEN None ELSE t[1]
       /\ r.tail = IF Len(t) = 0 THEN None ELSE t[Len(t)]
  <2>1. /\ c.head = IF Len(s) = 0 THEN None ELSE s[1]
        /\ c.tail = IF Len(s) = 0 THEN None ELSE s[Len(s)]
    BY DEF ListOf
  <2>2. r.head = IF Len(t) = 0 THEN None ELSE t[1] BY <2>1, <1>1, <1>2, <1>3, <1>4, <1>6
  <2>3. r.tail = IF Len(t) = 0 THEN None ELSE t[Len(t)]
    BY <2>1, <1>1, <1>2, <1>3, <1>4, <1>6
  <2> QED BY <2>2, <2>3
<1>11. ASSUME NEW i \in 1 .. Len(t)
       PROVE  /\ r.newer[t[i]] = IF i = Len(t) THEN None ELSE t[i + 1]
              /\ r.older[t[i]] = IF i = 1 THEN None ELSE t[i - 1]
  <2>1. \A j \in 1 .. Len(s) : c.newer[s[j]] = IF j = Len(s) THEN None ELSE s[j + 1] BY DEF ListOf
  <2>2. \A j \in 1 .. Len(s) : c.older[s[j]] = IF j = 1 THEN None ELSE s[j - 1] BY DEF ListOf
  <2>3. CASE i < p
    <3>1. i \in 1 .. Len(s) /\ t[i] = s[i] BY <2>3, <1>1, <1>3
    <3>2. r.newer[s[i]] = IF i = p - 1 THEN n ELSE c.newer[s[i]]
      BY <3>1, <2>3, <1>1, <1>2, <1>4, <1>5, <1>6, <1>7
    <3>3. r.older[s[i]] = c.older[s[i]]
      BY <3>1, <2>3, <1>1, <1>2, <1>4, <1>5, <1>6, <1>7
    <3>4. r.newer[t[i]] = IF i = Len(t) THEN None ELSE t[i + 1]
      <4>1. CASE i = p - 1
        <5>1. i + 1 = p /\ r.newer[t[i]] = n BY <4>1, <3>1, <3>2, <1>1
        <5>2. CASE p = Len(s) BY <5>1, <5>2, <4>1, <1>1, <1>2, <1>3
        <5>3. CASE p # Len(s)
          <6>1. i + 1 \in 1 .. Len(t) /\ i # Len(t) BY <5>3, <4>1, <1>1, <1>3
          <6>2. t[i + 1] = s[p + 1] BY <6>1, <5>1, <1>1, <1>3
          <6> QED BY <6>1, <6>2, <5>1, <5>3, <1>2
        <5> QED BY <5>2, <5>3
      <4>2. CASE i # p - 1
        <5>1. i + 1 \in 1 .. Len(t) /\ i # Len(t) /\ i # Len(s) BY <4>2, <2>3, <1>1, <1>3
        <5>2. t[i + 1] = s[i + 1] BY <5>1, <4>2, <2>3, <1>1, <1>3
        <5> QED BY <5>1, <5>2, <4>2, <3>1, <3>2, <2>1
      <4> QED BY <4>1, <4>2
    <3>5. r.older[t[i]] = IF i = 1 THEN None ELSE t[i - 1]
      BY <3>1, <3>3, <2>2, <2>3, <1>1, <1>3
    <3> QED BY <3>4, <3>5
  <2>4. CASE i >= p
    <3>1. i + 1 \in 1 .. Len(s) /\ t[i] = s[i + 1] /\ i + 1 # p BY <2>4, <1>1, <1>3
    <3>2. r.newer[s[i + 1]] = c.newer[s[i + 1]]
      BY <3>1, <2>4, <1>1, <1>2, <1>4, <1>5, <1>6, <1>7
    <3>3. r.older[s[i + 1]] = IF i = p THEN o ELSE c.older[s[i + 1]]
      BY <3>1, <2>4, <1>1, <1>2, <1>4, <1>5, <1>6, <1>7
    <3>4. r.newer[t[i]] = IF i = Len(t) THEN None ELSE t[i + 1]
      BY <3>1, <3>2, <2>1, <2>4, <1>1, <1>3, SMTT(40)
    <3>5. r.older[t[i]] = IF i = 1 THEN None ELSE t[i - 1]
      BY <3>1, <3>3, <2>2, <2>4, <1>1, <1>2, <1>3
    <3> QED BY <3>4, <3>5
  <2> QED BY <2>3, <2>4, <1>1
<1> QED BY <1>3, <1>8, <1>9, <1>10, <1>11 DEF ListOf, k, r, t

(* The fields after an entry was linked.                                   *)
LEMMA LinkedFields ==
  ASSUME NEW c \in Caches, NEW k \in Keys
  PROVE  LET t == c.tail
             r == Linked(c, k)
         IN /\ r \in Caches
            /\ r.map = c.map \cup {k} /\ r.size = c.size
            /\ r.limit = c.limit /\ r.value = c.value
            /\ r.head = IF t = None THEN k ELSE c.head
            /\ r.tail = k
            /\ r.older = IF t = None THEN c.older ELSE [c.older EXCEPT ![k] = t]
            /\ r.newer = IF t = None THEN [c.newer EXCEPT ![k] = None]
                         ELSE [c.newer EXCEPT ![t] = k, ![k] = None]
<1> DEFINE t == c.tail
           older == IF t = None THEN c.older ELSE [c.older EXCEPT ![k] = t]
           newer == IF t = None THEN [c.newer EXCEPT ![k] = None]
                    ELSE [c.newer EXCEPT ![t] = k, ![k] = None]
           linked == [map |-> c.map \cup {k}, size |-> c.size, limit |-> c.limit,
                      head |-> IF t = None THEN k ELSE c.head, tail |-> k,
                      older |-> older, newer |-> newer, value |-> c.value]
<1>1. /\ c.older \in [Keys -> Pointers] /\ c.newer \in [Keys -> Pointers]
      /\ c.head \in Pointers /\ c.tail \in Pointers
      /\ c.map \in SUBSET Keys /\ c.size \in Int
      /\ k \in Pointers /\ None \in Pointers
  BY DEF Caches, Pointers
<1>2. older \in [Keys -> Pointers] /\ newer \in [Keys -> Pointers] BY <1>1
<1>3. Linked(c, k) = linked
  <2>1. c = [map |-> c.map, size |-> c.size, limit |-> c.limit, head |-> c.head, tail |-> c.tail,
             older |-> c.older, newer |-> c.newer, value |-> c.value]
    BY DEF Caches
  <2> QED BY <2>1 DEF Linked
<1>4. linked \in Caches
  <2> HIDE DEF older, newer
  <2> QED BY <1>1, <1>2 DEF Caches
<1> QED BY <1>3, <1>4

(* An entry that is not in the list linked behind it: an entry that comes  *)
(* back into an empty list has no older neighbour left.                    *)
LEMMA LinkedList ==
  ASSUME NEW c \in Caches, NEW s, ListOf(c, s), NEW k \in Keys, k \notin c.map,
         Len(s) = 0 => c.older[k] = None
  PROVE  ListOf(Linked(c, k), Append(s, k))
<1> DEFINE r == Linked(c, k)
           t == Append(s, k)
           o == c.tail
<1>1. s \in Seq(Keys) /\ Len(s) \in Nat BY DEF ListOf
<1>2. o = IF Len(s) = 0 THEN None ELSE s[Len(s)] BY DEF ListOf
<1>3. /\ t \in Seq(Keys) /\ Len(t) = Len(s) + 1 /\ t[Len(s) + 1] = k
      /\ \A i \in 1 .. Len(s) : t[i] = s[i]
  BY <1>1, AppendFacts
<1>4. \A i \in 1 .. Len(s) : s[i] \in Keys /\ s[i] # None BY <1>1, NoneAssumption
<1>5. \A i, j \in 1 .. Len(s) : s[i] = s[j] => i = j BY DEF ListOf
<1>6. \A i \in 1 .. Len(s) : s[i] # k BY <1>4 DEF ListOf
<1>7. /\ r.map = c.map \cup {k}
      /\ r.head = IF o = None THEN k ELSE c.head
      /\ r.tail = k
      /\ r.older = IF o = None THEN c.older ELSE [c.older EXCEPT ![k] = o]
      /\ r.newer = IF o = None THEN [c.newer EXCEPT ![k] = None]
                   ELSE [c.newer EXCEPT ![o] = k, ![k] = None]
  BY LinkedFields
<1>8. c.older \in [Keys -> Pointers] /\ c.newer \in [Keys -> Pointers] BY DEF Caches
<1>9. o = None <=> Len(s) = 0 BY <1>1, <1>2, <1>4
<1> HIDE DEF r, t, o
<1>10. \A i, j \in 1 .. Len(t) : t[i] = t[j] => i = j
  <2>1. \A i \in 1 .. Len(t) : i = Len(s) + 1 \/ i \in 1 .. Len(s) BY <1>1, <1>3
  <2> QED BY <2>1, <1>3, <1>5, <1>6
<1>11. ASSUME NEW l \in Keys PROVE l \in r.map <=> \E i \in 1 .. Len(t) : t[i] = l
  <2>1. l \in c.map <=> \E i \in 1 .. Len(s) : s[i] = l BY DEF ListOf
  <2>2. ASSUME NEW i \in 1 .. Len(s), s[i] = l PROVE \E j \in 1 .. Len(t) : t[j] = l
    <3>1. i \in 1 .. Len(t) BY <1>1, <1>3
    <3> QED BY <3>1, <2>2, <1>3
  <2>3. Len(s) + 1 \in 1 .. Len(t) BY <1>1, <1>3
  <2>4. ASSUME NEW j \in 1 .. Len(t), t[j] = l PROVE l = k \/ \E i \in 1 .. Len(s) : s[i] = l
    <3>1. CASE j = Len(s) + 1 BY <3>1, <2>4, <1>3
    <3>2. CASE j # Len(s) + 1
      <4>1. j \in 1 .. Len(s) BY <3>2, <1>1, <1>3
      <4> QED BY <4>1, <2>4, <1>3
    <3> QED BY <3>1, <3>2
  <2> QED BY <2>1, <2>2, <2>3, <2>4, <1>3, <1>7
<1>12. /\ r.head = IF Len(t) = 0 THEN None ELSE t[1]
       /\ r.tail = IF Len(t) = 0 THEN None ELSE t[Len(t)]
  <2>1. c.head = IF Len(s) = 0 THEN None ELSE s[1] BY DEF ListOf
  <2>2. Len(t) # 0 BY <1>1, <1>3
  <2>3. r.tail = t[Len(t)] BY <1>3, <1>7
  <2>4. CASE Len(s) = 0 BY <2>2, <2>3, <2>4, <1>3, <1>7, <1>9
  <2>5. CASE Len(s) # 0
    <3>1. 1 \in 1 .. Len(s) BY <2>5, <1>1
    <3>2. t[1] = s[1] BY <3>1, <1>3
    <3> QED BY <3>2, <2>1, <2>2, <2>3, <2>5, <1>7, <1>9
  <2> QED BY <2>4, <2>5
<1>13. ASSUME NEW i \in 1 .. Len(t)
       PROVE  /\ r.newer[t[i]] = IF i = Len(t) THEN None ELSE t[i + 1]
              /\ r.older[t[i]] = IF i = 1 THEN None ELSE t[i - 1]
  <2>1. \A j \in 1 .. Len(s) : c.newer[s[j]] = IF j = Len(s) THEN None ELSE s[j + 1] BY DEF ListOf
  <2>2. \A j \in 1 .. Len(s) : c.older[s[j]] = IF j = 1 THEN None ELSE s[j - 1] BY DEF ListOf
  <2>3. CASE i = Len(s) + 1
    <3>1. t[i] = k /\ i = Len(t) BY <2>3, <1>3
    <3>2. r.newer[k] = None BY <1>7, <1>8
    <3>3. CASE Len(s) = 0 BY <3>1, <3>2, <3>3, <2>3, <1>7, <1>9
    <3>4. CASE Len(s) # 0
      <4>1. r.older[k] = o BY <3>4, <1>7, <1>8, <1>9
      <4>2. i - 1 = Len(s) /\ i # 1 /\ Len(s) \in 1 .. Len(s) BY <3>4, <2>3, <1>1
      <4>3. t[i - 1] = s[Len(s)] BY <4>2, <1>3
      <4> QED BY <4>1, <4>2, <4>3, <3>1, <3>2, <3>4, <1>2
    <3> QED BY <3>3, <3>4
  <2>4. CASE i # Len(s) + 1
    <3>1. i \in 1 .. Len(s) /\ Len(s) # 0 /\ i # Len(t) BY <2>4, <1>1, <1>3
    <3>2. t[i] = s[i] /\ s[i] # k BY <3>1, <1>3, <1>6
    <3>3. r.older[s[i]] = c.older[s[i]] BY <3>1, <3>2, <1>7, <1>8
    <3>4. r.older[t[i]] = IF i = 1 THEN None ELSE t[i - 1]
      <4>1. i # 1 => i - 1 \in 1 .. Len(s) BY <3>1, <1>1
      <4> QED BY <4>1, <3>1, <3>2, <3>3, <2>2, <1>3
    <3>5. CASE i = Len(s)
      <4>1. s[i] = o BY <3>1, <3>5, <1>2
      <4>2. r.newer[s[i]] = k BY <4>1, <3>1, <3>2, <1>4, <1>7, <1>8, <1>9
      <4> QED BY <4>2, <3>1, <3>2, <3>4, <3>5, <1>3
    <3>6. CASE i # Len(s)
      <4>1. Len(s) \in 1 .. Len(s) /\ i + 1 \in 1 .. Len(s) BY <3>1, <3>6, <1>1
      <4>2. s[i] # o BY <4>1, <3>1, <3>6, <1>2, <1>5
      <4>3. r.newer[s[i]] = c.newer[s[i]] BY <4>2, <3>1, <3>2, <1>4, <1>7, <1>8, <1>9
      <4> QED BY <4>1, <4>3, <3>1, <3>2, <3>4, <3>6, <2>1, <1>3
    <3> QED BY <3>5, <3>6
  <2> QED BY <2>3, <2>4
<1> QED BY <1>3, <1>10, <1>11, <1>12, <1>13 DEF ListOf, r, t

(* The head of the list is its first element.                              *)
LEMMA HeadRemoved ==
  ASSUME NEW c \in Caches, NEW s, ListOf(c, s), Len(s) # 0
  PROVE  /\ c.head = s[1] /\ s[1] \in Keys /\ 1 \in 1 .. Len(s)
         /\ Removed(c, c.head) \in Caches
         /\ ListOf(Removed(c, c.head), Cut(s, 1))
         /\ Removed(c, c.head).size = c.size - 1
         /\ Removed(c, c.head).map \subseteq c.map
         /\ Removed(c, c.head).limit = c.limit
         /\ Removed(c, c.head).value = c.value
<1>1. s \in Seq(Keys) /\ Len(s) \in Nat /\ c.head = s[1] BY DEF ListOf
<1>2. 1 \in 1 .. Len(s) /\ s[1] \in Keys BY <1>1
<1>3. ListOf(Removed(c, s[1]), Cut(s, 1)) BY <1>2, RemovedList
<1>4. LET r == Removed(c, s[1])
      IN /\ r \in Caches /\ r.map = c.map \ {s[1]} /\ r.size = c.size - 1
         /\ r.limit = c.limit /\ r.value = c.value
  BY <1>2, RemovedFields
<1> QED BY <1>1, <1>2, <1>3, <1>4

(* What an insertion leaves: the oldest key makes room.                    *)
Room(s, c) == IF c.size = c.limit THEN Cut(s, 1) ELSE s

LEMMA InsertedList ==
  ASSUME NEW c \in Caches, NEW s, ListOf(c, s), NEW k \in Keys, k \notin c.map,
         Len(s) = 0 => c.older[k] = None
  PROVE  LET r == Inserted(c, k)
         IN /\ r \in Caches
            /\ ListOf(r, Room(Append(s, k), c))
            /\ r.size = IF c.size = c.limit THEN c.size ELSE c.size + 1
            /\ r.map \subseteq c.map \cup {k}
            /\ r.limit = c.limit
            /\ r.value = c.value
<1> DEFINE l == Linked(c, k)
           t == Append(s, k)
<1>1. /\ l \in Caches /\ ListOf(l, t) /\ l.size = c.size /\ l.limit = c.limit
      /\ l.value = c.value /\ l.map = c.map \cup {k}
  BY LinkedFields, LinkedList
<1>2. s \in Seq(Keys) /\ Len(t) # 0 BY DEF ListOf
<1> DEFINE p == IF c.size = c.limit THEN Removed(l, l.head) ELSE l
           n == IF c.size = c.limit THEN c.size - 1 ELSE c.size
<1> HIDE DEF l, t
<1>3. /\ p \in Caches /\ ListOf(p, Room(t, c)) /\ p.size = n /\ p.limit = c.limit
      /\ p.value = c.value /\ p.map \subseteq c.map \cup {k}
  BY <1>1, <1>2, HeadRemoved DEF Room
<1> HIDE DEF p
<1> DEFINE r == [p EXCEPT !.size = @ + 1]
<1>4. c.size \in Int /\ p.size \in Int BY <1>3 DEF Caches
<1>5. /\ r \in Caches /\ r.size = p.size + 1 /\ r.limit = p.limit /\ r.value = p.value
      /\ r.map = p.map /\ r.head = p.head /\ r.tail = p.tail
      /\ r.older = p.older /\ r.newer = p.newer
  BY <1>3, <1>4 DEF Caches
<1>6. Inserted(c, k) = r BY DEF Inserted, r, p, l
<1> HIDE DEF r
<1>7. ListOf(r, Room(t, c)) BY <1>3, <1>5 DEF ListOf
<1>8. r.size = IF c.size = c.limit THEN c.size ELSE c.size + 1 BY <1>3, <1>4, <1>5
<1> QED BY <1>3, <1>5, <1>6, <1>7, <1>8 DEF t

--------------------------------------------------------------------------------
(* shift in a loop                                                         *)

LEMMA LeastNumber ==
  ASSUME NEW W \in SUBSET Nat, W # {}
  PROVE  \E w \in W : \A x \in W : w <= x
<1> DEFINE R == {ss \in Nat \X Nat : ss[1] < ss[2]}
<1>1. IsWellFoundedOn(R, Nat) BY NatLessThanWellFounded, Zenon DEF OpToRel
<1>2. PICK w \in W : \A x \in W : ~ (<<x, w>> \in R)
  <2> HIDE DEF R
  <2> QED BY <1>1, WFMin
<1>3. ASSUME NEW x \in W PROVE w <= x
  <2>1. ~ (x < w) BY <1>2
  <2> QED BY <2>1
<1> QED BY <1>3

(* h holds the first n results of applying f again and again, from a on.   *)
Upto(f, a, S, h, n) ==
  h \in [0 .. n -> S] /\ h[0] = a /\ \A i \in 0 .. n - 1 : h[i + 1] = f[h[i]]

LEMMA UptoUnique ==
  ASSUME NEW S, NEW a, NEW f, NEW h, NEW g, NEW m \in Nat, NEW n \in Nat, m <= n,
         Upto(f, a, S, h, m), Upto(f, a, S, g, n)
  PROVE  \A i \in 0 .. m : h[i] = g[i]
<1> DEFINE W == {i \in 0 .. m : h[i] # g[i]}
<1>1. SUFFICES ASSUME W # {} PROVE FALSE BY Zenon
<1>2. W \in SUBSET Nat OBVIOUS
<1>3. PICK w \in W : \A x \in W : w <= x
  <2> HIDE DEF W
  <2> QED BY <1>1, <1>2, LeastNumber
<1>4. w # 0 BY DEF Upto
<1>5. w - 1 \in 0 .. m /\ w - 1 \in 0 .. m - 1 /\ w - 1 \in 0 .. n - 1 BY <1>4
<1>6. ~ (w - 1 \in W) BY <1>3, <1>5
<1>7. h[w - 1] = g[w - 1] BY <1>5, <1>6
<1>8. h[(w - 1) + 1] = f[h[w - 1]] /\ g[(w - 1) + 1] = f[g[w - 1]] BY <1>5 DEF Upto
<1>9. (w - 1) + 1 = w BY <1>5
<1> QED BY <1>7, <1>8, <1>9

LEMMA UptoExists ==
  ASSUME NEW S, NEW a \in S, NEW f \in [S -> S], NEW n \in Nat
  PROVE  \E h : Upto(f, a, S, h, n)
<1> DEFINE W == {i \in Nat : ~ \E h : Upto(f, a, S, h, i)}
<1>1. SUFFICES ASSUME W # {} PROVE FALSE BY Zenon
<1>2. W \in SUBSET Nat OBVIOUS
<1>3. PICK w \in W : \A x \in W : w <= x
  <2> HIDE DEF W
  <2> QED BY <1>1, <1>2, LeastNumber
<1>4. w \in Nat /\ ~ \E h : Upto(f, a, S, h, w) BY <1>3
<1>5. CASE w = 0
  <2> DEFINE h == [i \in 0 .. 0 |-> a]
  <2>1. Upto(f, a, S, h, 0) BY DEF Upto
  <2> QED BY <2>1, <1>4, <1>5
<1>6. CASE w # 0
  <2>1. w - 1 \in Nat BY <1>6, <1>4
  <2>2. ~ (w - 1 \in W)
    <3>1. ~ (w <= w - 1) BY <1>4
    <3> HIDE DEF W
    <3> QED BY <3>1, <1>3
  <2>3. PICK g : Upto(f, a, S, g, w - 1) BY <2>1, <2>2
  <2> DEFINE h == [i \in 0 .. w |-> IF i = w THEN f[g[w - 1]] ELSE g[i]]
  <2>4. g \in [0 .. w - 1 -> S] /\ g[0] = a BY <2>3 DEF Upto
  <2>5. \A i \in 0 .. w - 1 : i \in 0 .. w /\ i # w BY <1>4
  <2>6. \A i \in 0 .. w : i = w \/ i \in 0 .. w - 1 BY <1>4
  <2>7. w - 1 \in 0 .. w - 1 /\ 0 \in 0 .. w - 1 BY <2>1
  <2>8. h \in [0 .. w -> S] BY <2>4, <2>6, <2>7
  <2>9. h[0] = a BY <2>4, <2>5, <2>7
  <2>10. ASSUME NEW i \in 0 .. w - 1 PROVE h[i + 1] = f[h[i]]
    <3>1. h[i] = g[i] BY <2>5
    <3>2. CASE i = w - 1
      <4>1. i + 1 = w /\ w \in 0 .. w BY <3>2, <1>4
      <4> QED BY <4>1, <3>1, <3>2
    <3>3. CASE i # w - 1
      <4>1. i \in 0 .. (w - 1) - 1 /\ i + 1 \in 0 .. w - 1 BY <3>3, <1>4
      <4>2. g[i + 1] = f[g[i]] BY <4>1, <2>3 DEF Upto
      <4>3. h[i + 1] = g[i + 1] BY <4>1, <2>5
      <4> QED BY <4>2, <4>3, <3>1
    <3> QED BY <3>2, <3>3
  <2>11. Upto(f, a, S, h, w)
    <3> HIDE DEF h
    <3> QED BY <2>8, <2>9, <2>10 DEF Upto
  <2> QED BY <2>11, <1>4
<1> QED BY <1>5, <1>6

LEMMA Iterates ==
  ASSUME NEW S, NEW a \in S, NEW f \in [S -> S]
  PROVE  \E g \in [Nat -> S] : g[0] = a /\ \A n \in Nat : g[n + 1] = f[g[n]]
<1> DEFINE H(n) == CHOOSE h : Upto(f, a, S, h, n)
           g == [n \in Nat |-> H(n)[n]]
<1>1. \A n \in Nat : Upto(f, a, S, H(n), n) BY UptoExists
<1> HIDE DEF H
<1>2. \A n \in Nat : H(n)[n] \in S
  <2> TAKE n \in Nat
  <2>1. H(n) \in [0 .. n -> S] /\ n \in 0 .. n BY <1>1 DEF Upto
  <2> QED BY <2>1
<1>3. g \in [Nat -> S] BY <1>2
<1>4. g[0] = a BY <1>1 DEF Upto
<1>5. ASSUME NEW n \in Nat PROVE g[n + 1] = f[g[n]]
  <2>1. n + 1 \in Nat /\ n <= n + 1 /\ n \in 0 .. n /\ n \in 0 .. (n + 1) - 1 OBVIOUS
  <2>2. H(n)[n] = H(n + 1)[n] BY <2>1, <1>1, UptoUnique
  <2>3. H(n + 1)[n + 1] = f[H(n + 1)[n]] BY <2>1, <1>1 DEF Upto
  <2> QED BY <2>1, <2>2, <2>3
<1> QED BY <1>3, <1>4, <1>5

LEMMA ShiftedFacts ==
  ASSUME NEW c \in Caches
  PROVE  /\ Shifted(c, 0) = c
         /\ \A n \in Nat :
              /\ Shifted(c, n) \in Caches
              /\ Shifted(c, n + 1) = Removed(Shifted(c, n), Shifted(c, n).head)
<1> DEFINE f == [d \in Caches |-> Removed(d, d.head)]
           Body(g) == [i \in Nat |-> IF i = 0 THEN c ELSE Removed(g[i - 1], g[i - 1].head)]
           after == CHOOSE g : g = Body(g)
<1>1. f \in [Caches -> Caches]
  <2> SUFFICES ASSUME NEW d \in Caches PROVE Removed(d, d.head) \in Caches OBVIOUS
  <2>1. d.head \in Keys \/ d.head = None BY DEF Caches, Pointers
  <2>2. CASE d.head = None BY <2>2 DEF Removed
  <2> QED BY <2>1, <2>2, RemovedFields
<1> HIDE DEF f
<1>2. PICK g \in [Nat -> Caches] : g[0] = c /\ \A n \in Nat : g[n + 1] = f[g[n]]
  BY <1>1, Iterates
<1>3. g = Body(g)
  <2>1. g = [i \in Nat |-> g[i]] OBVIOUS
  <2>2. ASSUME NEW i \in Nat
        PROVE  g[i] = IF i = 0 THEN c ELSE Removed(g[i - 1], g[i - 1].head)
    <3>1. CASE i = 0 BY <3>1, <1>2
    <3>2. CASE i # 0
      <4>1. i - 1 \in Nat /\ (i - 1) + 1 = i BY <3>2
      <4>2. g[i] = f[g[i - 1]] BY <4>1, <1>2
      <4> QED BY <4>1, <4>2, <3>2 DEF f
    <3> QED BY <3>1, <3>2
  <2> QED BY <2>1, <2>2
<1> HIDE DEF Body
<1>4. after = Body(after) BY <1>3
<1> USE DEF Body
<1>5. \A n \in Nat : Shifted(c, n) = after[n] BY DEF Shifted
<1> HIDE DEF after
<1>6. after[0] = c /\ \A n \in Nat : after[n + 1] = Removed(after[n], after[n].head)
  <2>1. after[0] = c BY <1>4
  <2>2. ASSUME NEW n \in Nat PROVE after[n + 1] = Removed(after[n], after[n].head)
    <3>1. n + 1 \in Nat /\ n + 1 # 0 /\ (n + 1) - 1 = n OBVIOUS
    <3> QED BY <3>1, <1>4
  <2> QED BY <2>1, <2>2
<1> DEFINE W == {n \in Nat : ~ (after[n] \in Caches)}
<1>7. W = {}
  <2> SUFFICES ASSUME W # {} PROVE FALSE OBVIOUS
  <2>1. PICK w \in W : \A x \in W : w <= x
    <3>1. W \in SUBSET Nat OBVIOUS
    <3> HIDE DEF W
    <3> QED BY <3>1, LeastNumber
  <2>2. w # 0 BY <1>6
  <2>3. w - 1 \in Nat /\ ~ (w - 1 \in W) BY <2>1, <2>2
  <2>4. after[w - 1] \in Caches BY <2>3
  <2>5. after[(w - 1) + 1] = f[after[w - 1]] /\ (w - 1) + 1 = w BY <2>3, <2>4, <1>6 DEF f
  <2> QED BY <2>4, <2>5, <1>1
<1> QED BY <1>5, <1>6, <1>7

LEMMA SameSequence ==
  ASSUME NEW S, NEW s \in Seq(S), NEW t \in Seq(S), Len(s) = Len(t),
         \A i \in 1 .. Len(s) : s[i] = t[i]
  PROVE  s = t
OBVIOUS

(* Its newest elements from the n-th on.                                   *)
From(s, n) == SubSeq(s, n, Len(s))

LEMMA FromFacts ==
  ASSUME NEW S, NEW s \in Seq(S), NEW n \in 1 .. Len(s) + 1
  PROVE  /\ From(s, n) \in Seq(S)
         /\ Len(From(s, n)) = Len(s) - n + 1
         /\ \A i \in 1 .. Len(s) - n + 1 : From(s, n)[i] = s[n + i - 1]
BY DEF From

LEMMA CutHead ==
  ASSUME NEW S, NEW s \in Seq(S), NEW n \in 1 .. Len(s)
  PROVE  Cut(From(s, n), 1) = From(s, n + 1)
<1> DEFINE a == From(s, n)
           b == From(s, n + 1)
<1>1. /\ a \in Seq(S) /\ Len(a) = Len(s) - n + 1
      /\ \A i \in 1 .. Len(s) - n + 1 : a[i] = s[n + i - 1]
  BY FromFacts
<1>2. /\ b \in Seq(S) /\ Len(b) = Len(s) - n
      /\ \A i \in 1 .. Len(s) - n : b[i] = s[n + i]
  <2>1. n + 1 \in 1 .. Len(s) + 1 OBVIOUS
  <2>2. /\ b \in Seq(S) /\ Len(b) = Len(s) - (n + 1) + 1
        /\ \A i \in 1 .. Len(s) - (n + 1) + 1 : b[i] = s[(n + 1) + i - 1]
    BY <2>1, FromFacts
  <2>3. Len(s) - (n + 1) + 1 = Len(s) - n OBVIOUS
  <2>4. \A i \in 1 .. Len(s) - n : (n + 1) + i - 1 = n + i OBVIOUS
  <2> HIDE DEF b
  <2> QED BY <2>2, <2>3, <2>4
<1>3. Len(s) \in Nat /\ n \in Int OBVIOUS
<1> HIDE DEF a, b
<1>4. 1 \in 1 .. Len(a) BY <1>1, <1>3
<1>5. /\ Cut(a, 1) \in Seq(S) /\ Len(Cut(a, 1)) = Len(a) - 1
      /\ \A i \in 1 .. Len(a) - 1 : Cut(a, 1)[i] = IF i < 1 THEN a[i] ELSE a[i + 1]
  BY <1>1, <1>4, CutFacts
<1>6. Len(Cut(a, 1)) = Len(b)
  <2>1. Len(Cut(a, 1)) = Len(a) - 1 /\ Len(a) = Len(s) - n + 1 /\ Len(b) = Len(s) - n
    BY <1>1, <1>2, <1>5
  <2>2. (Len(s) - n + 1) - 1 = Len(s) - n BY <1>3
  <2> QED BY <2>1, <2>2, Zenon
<1>7. ASSUME NEW i \in 1 .. Len(b) PROVE Cut(a, 1)[i] = b[i]
  <2>1. i \in 1 .. Len(a) - 1 /\ ~ (i < 1) /\ i \in 1 .. Len(s) - n BY <1>1, <1>2, <1>3
  <2>2. i + 1 \in 1 .. Len(s) - n + 1 /\ n + (i + 1) - 1 = n + i BY <2>1, <1>3
  <2>3. Cut(a, 1)[i] = a[i + 1] BY <2>1, <1>5
  <2>4. a[i + 1] = s[n + (i + 1) - 1] BY <2>2, <1>1
  <2>5. b[i] = s[n + i] BY <2>1, <1>2
  <2> QED BY <2>2, <2>3, <2>4, <2>5
<1>8. Cut(a, 1) = b BY <1>2, <1>5, <1>6, <1>7, SameSequence
<1> QED BY <1>8 DEF a, b

(* The head shifted n times leaves the newest keys.                        *)
LEMMA ShiftedList ==
  ASSUME NEW c \in Caches, NEW s, ListOf(c, s), NEW n \in 0 .. Len(s)
  PROVE  LET r == Shifted(c, n)
         IN /\ r \in Caches
            /\ ListOf(r, From(s, n + 1))
            /\ r.size = c.size - n
            /\ r.limit = c.limit
            /\ r.value = c.value
<1> DEFINE Good(i) == /\ ListOf(Shifted(c, i), From(s, i + 1))
                      /\ Shifted(c, i).size = c.size - i
                      /\ Shifted(c, i).limit = c.limit
                      /\ Shifted(c, i).value = c.value
           W == {i \in 0 .. Len(s) : ~ Good(i)}
<1>1. s \in Seq(Keys) /\ Len(s) \in Nat /\ c.size \in Int BY DEF ListOf, Caches
<1>2. Good(0)
  <2>1. 1 \in 1 .. Len(s) + 1 /\ 0 + 1 = 1 BY <1>1
  <2>2. /\ From(s, 1) \in Seq(Keys) /\ Len(From(s, 1)) = Len(s) - 1 + 1
        /\ \A i \in 1 .. Len(s) - 1 + 1 : From(s, 1)[i] = s[1 + i - 1]
    BY <2>1, <1>1, FromFacts
  <2>3. Len(s) - 1 + 1 = Len(s) /\ \A i \in 1 .. Len(s) : 1 + i - 1 = i BY <1>1
  <2>4. From(s, 1) = s BY <2>2, <2>3, <1>1, SameSequence
  <2>5. Shifted(c, 0) = c BY ShiftedFacts
  <2>6. c.size - 0 = c.size BY <1>1
  <2> QED BY <2>1, <2>4, <2>5, <2>6, Zenon
<1>3. ASSUME NEW i \in 0 .. Len(s) - 1, Good(i) PROVE Good(i + 1)
  <2> DEFINE d == Shifted(c, i)
             t == From(s, i + 1)
  <2>1. i \in Nat /\ i + 1 \in 1 .. Len(s) + 1 /\ i + 1 \in 1 .. Len(s) BY <1>1
  <2>2. Len(t) = Len(s) - (i + 1) + 1 BY <2>1, <1>1, FromFacts
  <2>3. Len(t) # 0 BY <2>1, <2>2, <1>1
  <2>4. d \in Caches /\ Shifted(c, i + 1) = Removed(d, d.head) BY <2>1, ShiftedFacts
  <2>5. Cut(t, 1) = From(s, (i + 1) + 1) BY <2>1, <1>1, CutHead
  <2>6. ListOf(d, t) /\ d.size = c.size - i /\ d.limit = c.limit /\ d.value = c.value BY <1>3
  <2> HIDE DEF d, t
  <2>7. /\ ListOf(Removed(d, d.head), Cut(t, 1))
        /\ Removed(d, d.head).size = d.size - 1
        /\ Removed(d, d.head).limit = d.limit
        /\ Removed(d, d.head).value = d.value
    BY <2>3, <2>4, <2>6, HeadRemoved
  <2>8. (c.size - i) - 1 = c.size - (i + 1) BY <2>1, <1>1
  <2> QED BY <2>4, <2>5, <2>6, <2>7, <2>8
<1> HIDE DEF Good
<1>4. W = {}
  <2> SUFFICES ASSUME W # {} PROVE FALSE OBVIOUS
  <2>1. PICK w \in W : \A x \in W : w <= x
    <3>1. W \in SUBSET Nat OBVIOUS
    <3> HIDE DEF W
    <3> QED BY <3>1, LeastNumber
  <2>2. w # 0 BY <1>2
  <2>3. w - 1 \in 0 .. Len(s) - 1 /\ ~ (w - 1 \in W) /\ (w - 1) + 1 = w BY <2>1, <2>2, <1>1
  <2>4. Good(w - 1) BY <2>3, <1>1
  <2> QED BY <2>3, <2>4, <1>3
<1>5. Good(n) BY <1>4
<1> QED BY <1>5, ShiftedFacts DEF Good

--------------------------------------------------------------------------------
(* The invariant: the list of cache is some s                              *)

Holds(c, s) == c \in Caches /\ ListOf(c, s) /\ Len(s) = c.size

(* ListIsSound, of any cache.                                              *)
SoundWith(c, s) ==
  /\ Walked(c, s)
  /\ Range(s) = c.map
  /\ \A i, j \in DOMAIN s : s[i] = s[j] => i = j
  /\ c.tail = IF s = <<>> THEN None ELSE s[Len(s)]
  /\ \A i \in DOMAIN s : c.older[s[i]] = IF i = 1 THEN None ELSE s[i - 1]

LEMMA FunctionsAreSequences ==
  ASSUME NEW S, NEW n \in Nat, NEW s
  PROVE  s \in [1 .. n -> S] <=> s \in Seq(S) /\ Len(s) = n
OBVIOUS

LEMMA SoundIsHolding ==
  ASSUME NEW c \in Caches, c.size \in Nat, NEW s \in [1 .. c.size -> Keys]
  PROVE  SoundWith(c, s) <=> Holds(c, s)
<1>1. s \in Seq(Keys) /\ Len(s) = c.size /\ DOMAIN s = 1 .. Len(s)
  BY FunctionsAreSequences
<1>2. s = <<>> <=> Len(s) = 0 BY <1>1
<1>3. Range(s) = {s[i] : i \in 1 .. Len(s)} BY <1>1 DEF Range
<1>4. c.map \in SUBSET Keys BY DEF Caches
<1>5. \A i \in 1 .. Len(s) : s[i] \in Keys BY <1>1
<1>6. Range(s) = c.map <=> \A k \in Keys : k \in c.map <=> \E i \in 1 .. Len(s) : s[i] = k
  BY <1>3, <1>4, <1>5
<1> QED BY <1>1, <1>2, <1>6 DEF SoundWith, Walked, Holds, ListOf

(* Only one list can be walked.                                            *)
LEMMA WalkIsUnique ==
  ASSUME NEW c, NEW s \in Seq(Keys), NEW t \in Seq(Keys), Len(s) = Len(t),
         Walked(c, s), Walked(c, t)
  PROVE  s = t
<1> DEFINE W == {i \in 1 .. Len(s) : s[i] # t[i]}
<1>1. Len(s) \in Nat /\ DOMAIN s = 1 .. Len(s) /\ DOMAIN t = 1 .. Len(s) OBVIOUS
<1>2. W = {}
  <2> SUFFICES ASSUME W # {} PROVE FALSE OBVIOUS
  <2>1. PICK w \in W : \A x \in W : w <= x
    <3>1. W \in SUBSET Nat OBVIOUS
    <3> HIDE DEF W
    <3> QED BY <3>1, LeastNumber
  <2>2. w # 1
    <3>1. s # <<>> /\ t # <<>> BY <1>1
    <3> QED BY <3>1 DEF Walked
  <2>3. /\ w - 1 \in 1 .. Len(s) /\ ~ (w - 1 \in W)
        /\ w - 1 # Len(s) /\ (w - 1) + 1 = w
    BY <2>1, <2>2, <1>1
  <2>4. s[w - 1] = t[w - 1] BY <2>3
  <2>5. c.newer[s[w - 1]] = s[w] /\ c.newer[t[w - 1]] = t[w] BY <2>3, <1>1 DEF Walked
  <2> QED BY <2>4, <2>5
<1> QED BY <1>2, SameSequence

LEMMA ChainIsList ==
  ASSUME NEW c, NEW s, Holds(c, s)
  PROVE  (CHOOSE t \in [1 .. c.size -> Keys] : Walked(c, t)) = s
<1>1. c.size \in Nat /\ s \in Seq(Keys) /\ Len(s) = c.size /\ c \in Caches BY DEF Holds, ListOf
<1>2. s \in [1 .. c.size -> Keys] BY <1>1, FunctionsAreSequences
<1>3. Walked(c, s) BY <1>1, <1>2, SoundIsHolding DEF SoundWith
<1>4. \A t \in [1 .. c.size -> Keys] : Walked(c, t) => t = s
  <2> TAKE t \in [1 .. c.size -> Keys]
  <2>1. t \in Seq(Keys) /\ Len(t) = c.size BY <1>1, FunctionsAreSequences
  <2> QED BY <2>1, <1>1, <1>3, WalkIsUnique
<1> QED BY <1>2, <1>3, <1>4

(* The state is typed and sound when its cache has a list.                 *)
HasList(c) == c.size \in Nat /\ \E s : Holds(c, s)

LEMMA Typed ==
  ASSUME NEW c
  PROVE  /\ c \in Caches /\ c.size \in Nat
            <=> c \in [map : SUBSET Keys, size : Nat, limit : Nat \cup {NoLimit},
                       head : Pointers, tail : Pointers,
                       older : [Keys -> Pointers], newer : [Keys -> Pointers],
                       value : [Keys -> Values \cup {None}]]
BY DEF Caches

LEMMA HasListIsSound ==
  ASSUME NEW c
  PROVE  HasList(c) <=> /\ c \in Caches /\ c.size \in Nat
                        /\ \E s \in [1 .. c.size -> Keys] : SoundWith(c, s)
<1>1. ASSUME HasList(c)
      PROVE  c \in Caches /\ \E s \in [1 .. c.size -> Keys] : SoundWith(c, s)
  <2>1. PICK s : Holds(c, s) BY <1>1 DEF HasList
  <2>2. c.size \in Nat /\ s \in Seq(Keys) /\ Len(s) = c.size /\ c \in Caches
    BY <1>1, <2>1 DEF Holds, ListOf, HasList
  <2>3. s \in [1 .. c.size -> Keys] BY <2>2, FunctionsAreSequences
  <2> QED BY <2>1, <2>2, <2>3, SoundIsHolding
<1> QED BY <1>1, SoundIsHolding DEF HasList

--------------------------------------------------------------------------------
(* What each operation makes of the list                                   *)

LEMMA RoomFacts ==
  ASSUME NEW c, NEW s \in Seq(Keys), NEW k \in Keys
  PROVE  /\ Room(Append(s, k), c) \in Seq(Keys)
         /\ Len(Room(Append(s, k), c)) = IF c.size = c.limit THEN Len(s) ELSE Len(s) + 1
<1> DEFINE t == Append(s, k)
<1>1. Len(s) \in Nat OBVIOUS
<1>2. t \in Seq(Keys) /\ Len(t) = Len(s) + 1 BY AppendFacts
<1> HIDE DEF t
<1>3. 1 \in 1 .. Len(t) BY <1>1, <1>2
<1>4. Cut(t, 1) \in Seq(Keys) /\ Len(Cut(t, 1)) = Len(t) - 1 BY <1>2, <1>3, CutFacts
<1>5. Len(t) - 1 = Len(s) BY <1>1, <1>2
<1> QED BY <1>2, <1>4, <1>5 DEF Room, t

LEMMA InsertedHolds ==
  ASSUME NEW c, NEW s, Holds(c, s), NEW k \in Keys, k \notin c.map,
         Len(s) = 0 => c.older[k] = None
  PROVE  LET r == Inserted(c, k)
         IN /\ Holds(r, Room(Append(s, k), c)) /\ r.limit = c.limit /\ r.value = c.value
            /\ r.map \subseteq c.map \cup {k}
<1>1. c \in Caches /\ ListOf(c, s) /\ Len(s) = c.size /\ s \in Seq(Keys) BY DEF Holds, ListOf
<1>2. Len(Room(Append(s, k), c)) = IF c.size = c.limit THEN Len(s) ELSE Len(s) + 1
  BY <1>1, RoomFacts
<1> QED BY <1>1, <1>2, InsertedList DEF Holds

(* A new entry object: nothing is known of its pointers yet.               *)
Fresh(c, k, v) == [c EXCEPT !.value[k] = v, !.older[k] = None, !.newer[k] = None]

LEMMA NewHolds ==
  ASSUME NEW c, NEW s, Holds(c, s), NEW k \in Keys, k \notin c.map, NEW v \in Values
  PROVE  LET r == Inserted(Fresh(c, k, v), k)
         IN /\ Holds(r, Room(Append(s, k), c))
            /\ r.limit = c.limit /\ r.value = [c.value EXCEPT ![k] = v]
            /\ r.map \subseteq c.map \cup {k}
<1> DEFINE d == Fresh(c, k, v)
<1>1. c \in Caches /\ ListOf(c, s) /\ Len(s) = c.size BY DEF Holds
<1>2. None \in Pointers BY DEF Pointers
<1>3. /\ d \in Caches /\ d.map = c.map /\ d.size = c.size /\ d.limit = c.limit
      /\ d.head = c.head /\ d.tail = c.tail
      /\ d.older = [c.older EXCEPT ![k] = None]
      /\ d.newer = [c.newer EXCEPT ![k] = None]
      /\ d.value = [c.value EXCEPT ![k] = v]
  BY <1>1, <1>2 DEF Caches, Fresh
<1>4. c.older \in [Keys -> Pointers] /\ c.newer \in [Keys -> Pointers] BY <1>1 DEF Caches
<1> HIDE DEF d
<1>5. \A i \in 1 .. Len(s) : s[i] \in Keys /\ s[i] # k BY <1>1 DEF ListOf
<1>6. \A i \in 1 .. Len(s) : d.older[s[i]] = c.older[s[i]] /\ d.newer[s[i]] = c.newer[s[i]]
  BY <1>3, <1>4, <1>5
<1>7. ListOf(d, s) BY <1>1, <1>3, <1>6 DEF ListOf
<1>8. d.older[k] = None BY <1>3, <1>4
<1>9. Holds(d, s) BY <1>1, <1>3, <1>7 DEF Holds
<1>10. Room(Append(s, k), d) = Room(Append(s, k), c) BY <1>3 DEF Room
<1>11. k \notin d.map BY <1>3
<1>12. LET r == Inserted(d, k)
       IN /\ Holds(r, Room(Append(s, k), d)) /\ r.limit = d.limit /\ r.value = d.value
          /\ r.map \subseteq d.map \cup {k}
  BY <1>8, <1>9, <1>11, InsertedHolds
<1> QED BY <1>3, <1>10, <1>12 DEF d

LEMMA RemovedHolds ==
  ASSUME NEW c, NEW s, Holds(c, s), NEW p \in 1 .. Len(s)
  PROVE  LET r == Removed(c, s[p])
         IN /\ Holds(r, Cut(s, p))
            /\ r.limit = c.limit /\ r.value = c.value /\ r.size = c.size - 1
            /\ r.map = c.map \ {s[p]}
<1>1. c \in Caches /\ ListOf(c, s) /\ Len(s) = c.size /\ s \in Seq(Keys) BY DEF Holds, ListOf
<1>2. s[p] \in Keys /\ c.size \in Int BY <1>1
<1>3. Len(Cut(s, p)) = Len(s) - 1 BY <1>1, CutFacts
<1>4. ListOf(Removed(c, s[p]), Cut(s, p)) BY <1>1, RemovedList
<1>5. LET r == Removed(c, s[p])
      IN /\ r \in Caches /\ r.limit = c.limit /\ r.value = c.value /\ r.size = c.size - 1
         /\ r.map = c.map \ {s[p]}
  BY <1>1, <1>2, RemovedFields
<1> QED BY <1>1, <1>3, <1>4, <1>5 DEF Holds

(* A hit: the entry removed and inserted again.                            *)
LEMMA MovedHolds ==
  ASSUME NEW c, NEW s, Holds(c, s), NEW p \in 1 .. Len(s)
  PROVE  LET d == Removed(c, s[p])
             r == Inserted(d, s[p])
         IN /\ Holds(r, Room(Append(Cut(s, p), s[p]), d))
            /\ r.limit = c.limit /\ r.value = c.value
            /\ r.map \subseteq c.map /\ d.size = c.size - 1 /\ d.limit = c.limit
<1> DEFINE k == s[p]
           d == Removed(c, k)
           t == Cut(s, p)
<1>1. c \in Caches /\ ListOf(c, s) /\ s \in Seq(Keys) /\ k \in Keys
  <2>1. c \in Caches /\ ListOf(c, s) BY Zenon DEF Holds
  <2>2. s \in Seq(Keys) BY <2>1, Zenon DEF ListOf
  <2>3. k \in Keys BY <2>2
  <2> QED BY <2>1, <2>2, <2>3
<1>2. /\ Holds(d, t) /\ d.limit = c.limit /\ d.value = c.value /\ d.map = c.map \ {k}
      /\ d.size = c.size - 1 /\ k \in c.map
  BY <1>1, RemovedHolds DEF ListOf
<1>3. Len(t) = Len(s) - 1 BY <1>1, CutFacts
<1>4. Len(t) = 0 => d.older[k] = None
  <2>1. SUFFICES ASSUME Len(t) = 0 PROVE d.older[k] = None OBVIOUS
  <2>2. p = 1 /\ p = Len(s) BY <2>1, <1>1, <1>3, SMTT(40)
  <2>3. c.older[k] = None /\ c.newer[k] = None BY <2>2, <1>1 DEF ListOf
  <2> QED BY <2>3, <1>1, RemovedFields
<1> HIDE DEF k, d, t
<1>5. k \in Keys /\ k \notin d.map BY <1>1, <1>2
<1>6. /\ Holds(Inserted(d, k), Room(Append(t, k), d))
      /\ Inserted(d, k).limit = d.limit /\ Inserted(d, k).value = d.value
      /\ Inserted(d, k).map \subseteq d.map \cup {k}
  BY <1>2, <1>4, <1>5, InsertedHolds
<1> QED BY <1>2, <1>6 DEF k, d, t

LEMMA ValueHolds ==
  ASSUME NEW c, NEW s, Holds(c, s), NEW k \in Keys, NEW v \in Values
  PROVE  LET r == [c EXCEPT !.value[k] = v]
         IN /\ Holds(r, s) /\ r.size = c.size /\ r.limit = c.limit /\ r.map = c.map
            /\ r.value = [c.value EXCEPT ![k] = v]
<1> DEFINE r == [c EXCEPT !.value[k] = v]
<1>1. c \in Caches BY DEF Holds
<1>2. /\ r \in Caches /\ r.map = c.map /\ r.size = c.size /\ r.limit = c.limit
      /\ r.head = c.head /\ r.tail = c.tail /\ r.older = c.older /\ r.newer = c.newer
      /\ r.value = [c.value EXCEPT ![k] = v]
  <2>1. c.value \in [Keys -> Values \cup {None}] /\ v \in Values \cup {None} BY <1>1 DEF Caches
  <2>2. [c.value EXCEPT ![k] = v] \in [Keys -> Values \cup {None}] BY <2>1, Zenon
  <2> QED BY <2>2, <1>1 DEF Caches
<1> HIDE DEF r
<1>3. Holds(r, s) BY <1>2 DEF Holds, ListOf
<1> QED BY <1>2, <1>3 DEF r

LEMMA FlushedHolds ==
  ASSUME NEW c \in Caches
  PROVE  LET r == [c EXCEPT !.head = None, !.tail = None, !.size = 0, !.map = {}]
         IN Holds(r, <<>>) /\ r.size = 0 /\ r.limit = c.limit /\ r.value = c.value /\ r.map = {}
<1> DEFINE r == [c EXCEPT !.head = None, !.tail = None, !.size = 0, !.map = {}]
<1>1. None \in Pointers BY DEF Pointers
<1>2. /\ r \in Caches /\ r.map = {} /\ r.size = 0 /\ r.limit = c.limit
      /\ r.head = None /\ r.tail = None /\ r.value = c.value
  <2>1. {} \in SUBSET Keys /\ 0 \in Int OBVIOUS
  <2>2. r \in Caches BY <1>1, <2>1 DEF Caches
  <2>3. r.map = {} /\ r.size = 0 /\ r.limit = c.limit BY DEF Caches
  <2>4. r.head = None /\ r.tail = None /\ r.value = c.value BY DEF Caches
  <2> QED BY <2>2, <2>3, <2>4
<1> HIDE DEF r
<1>3. <<>> \in Seq(Keys) /\ Len(<<>>) = 0 OBVIOUS
<1>4. Holds(r, <<>>) BY <1>2, <1>3 DEF Holds, ListOf
<1> QED BY <1>2, <1>4 DEF r

(* setLimit keeps the newest entries, one too many when there are too many. *)
Limited(c, max) ==
  LET limited == [c EXCEPT !.limit = max]
  IN IF c.size > max THEN Shifted(limited, c.size - max - 1) ELSE limited

LEMMA LimitedHolds ==
  ASSUME NEW c, NEW s, Holds(c, s), NEW max \in Nat
  PROVE  LET r == Limited(c, max)
         IN /\ Holds(r, IF c.size > max THEN From(s, c.size - max) ELSE s)
            /\ r.limit = max /\ r.value = c.value
<1> DEFINE d == [c EXCEPT !.limit = max]
           n == c.size - max - 1
<1>1. c \in Caches /\ ListOf(c, s) /\ Len(s) = c.size /\ s \in Seq(Keys) /\ c.size \in Nat
  BY DEF Holds, ListOf
<1>2. /\ d \in Caches /\ d.map = c.map /\ d.size = c.size /\ d.limit = max
      /\ d.head = c.head /\ d.tail = c.tail /\ d.older = c.older /\ d.newer = c.newer
      /\ d.value = c.value
  BY <1>1 DEF Caches
<1>3. Limited(c, max) = IF c.size > max THEN Shifted(d, n) ELSE d BY DEF Limited
<1> HIDE DEF d
<1>4. ListOf(d, s) BY <1>1, <1>2 DEF ListOf
<1>5. CASE c.size > max
  <2>1. n \in 0 .. Len(s) /\ n + 1 = c.size - max /\ c.size - n = max + 1 BY <1>1, <1>5
  <2>2. c.size - max \in 1 .. Len(s) + 1 BY <1>1, <1>5
  <2> HIDE DEF n
  <2>3. /\ Shifted(d, n) \in Caches
        /\ ListOf(Shifted(d, n), From(s, n + 1))
        /\ Shifted(d, n).size = d.size - n
        /\ Shifted(d, n).limit = d.limit /\ Shifted(d, n).value = d.value
    BY <2>1, <1>2, <1>4, ShiftedList
  <2>4. Len(From(s, c.size - max)) = Len(s) - (c.size - max) + 1 BY <2>2, <1>1, FromFacts
  <2>5. Len(s) - (c.size - max) + 1 = max + 1 BY <1>1
  <2> QED BY <2>1, <2>3, <2>4, <2>5, <1>2, <1>3, <1>5 DEF Holds
<1>6. CASE ~ (c.size > max) BY <1>1, <1>2, <1>3, <1>4, <1>6 DEF Holds
<1> QED BY <1>5, <1>6

--------------------------------------------------------------------------------
(* The steps                                                               *)

(* The inductive invariant: it says of cache what TypeOK and ListIsSound   *)
(* say together, whatever limits are set.                                  *)
IInv == used \in Pointers /\ HasList(cache)

LEMMA IInvIsSound == IInv => TypeOK /\ ListIsSound
<1> SUFFICES ASSUME IInv PROVE TypeOK /\ ListIsSound OBVIOUS
<1>1. /\ cache \in Caches /\ cache.size \in Nat
      /\ \E s \in [1 .. cache.size -> Keys] : SoundWith(cache, s)
  BY HasListIsSound DEF IInv
<1>2. TypeOK BY <1>1, Typed DEF TypeOK, IInv
<1>3. ListIsSound BY <1>1 DEF ListIsSound, SoundWith
<1> QED BY <1>2, <1>3

LEMMA InitIsSound == Init => IInv
<1> SUFFICES ASSUME Init PROVE IInv OBVIOUS
<1>1. PICK limit \in FirstLimits :
        cache = [map |-> {}, size |-> 0, limit |-> limit, head |-> None, tail |-> None,
                 older |-> [k \in Keys |-> None], newer |-> [k \in Keys |-> None],
                 value |-> [k \in Keys |-> None]]
  BY DEF Init
<1>2. limit \in Nat \cup {NoLimit} BY LimitsAssumption
<1>3. cache \in Caches BY <1>1, <1>2 DEF Caches, Pointers
<1>4. <<>> \in Seq(Keys) /\ Len(<<>>) = 0 OBVIOUS
<1>5. Holds(cache, <<>>) BY <1>1, <1>3, <1>4 DEF Holds, ListOf
<1>6. used \in Pointers BY DEF Init, Pointers
<1> QED BY <1>1, <1>5, <1>6 DEF IInv, HasList

LEMMA HoldsIsSound ==
  ASSUME NEW c, NEW s, Holds(c, s)
  PROVE  HasList(c)
BY DEF Holds, ListOf, HasList

(* Where the entry of a key is.                                            *)
LEMMA Position ==
  ASSUME NEW c, NEW s, Holds(c, s), NEW k \in c.map
  PROVE  k \in Keys /\ \E p \in 1 .. Len(s) : s[p] = k
BY DEF Holds, ListOf, Caches

LEMMA NextKeepsList == IInv /\ [Next]_vars => IInv'
<1> SUFFICES ASSUME IInv, [Next]_vars PROVE IInv' OBVIOUS
<1>1. PICK s : Holds(cache, s) BY DEF IInv, HasList
<1>2. used \in Pointers /\ cache \in Caches BY <1>1 DEF IInv, Holds
<1>3. SUFFICES used' \in Pointers /\ HasList(cache') BY DEF IInv
<1>4. ASSUME NEW k \in Keys, NEW v \in Values, k \notin cache.map, InsertNew(k, v)
      PROVE  HasList(cache')
  <2>1. cache' = Inserted(Fresh(cache, k, v), k) BY <1>4 DEF InsertNew, Fresh
  <2> QED BY <2>1, <1>1, <1>4, NewHolds, HoldsIsSound
<1>5. ASSUME NEW k \in cache.map, Hit(k) PROVE HasList(cache')
  <2>1. PICK p \in 1 .. Len(s) : s[p] = k BY <1>1, Position
  <2> QED BY <2>1, <1>1, <1>5, MovedHolds, HoldsIsSound DEF Hit
<1>6. ASSUME NEW k \in Keys, NEW v \in Values, Put(k, v) PROVE IInv'
  <2>1. used' \in Pointers BY <1>6 DEF Put, Pointers
  <2>2. CASE k \notin cache.map BY <2>1, <2>2, <1>4, <1>6 DEF Put, IInv
  <2>3. CASE k \in cache.map
    <3> DEFINE d == [cache EXCEPT !.value[k] = v]
    <3>1. Holds(d, s) /\ d.map = cache.map BY <1>1, ValueHolds
    <3>2. cache' = Inserted(Removed(d, k), k) BY <2>3, <1>6 DEF Put
    <3>3. PICK p \in 1 .. Len(s) : s[p] = k BY <2>3, <1>1, Position
    <3> HIDE DEF d
    <3>4. HasList(cache') BY <3>1, <3>2, <3>3, MovedHolds, HoldsIsSound
    <3> QED BY <2>1, <3>4 DEF IInv
  <2> QED BY <2>2, <2>3
<1>7. ASSUME NEW k \in Keys, NEW v \in Values, GetOrPut(k, v) PROVE IInv'
  <2>1. used' \in Pointers BY <1>7 DEF GetOrPut, Pointers
  <2>2. HasList(cache') BY <1>4, <1>5, <1>7 DEF GetOrPut
  <2> QED BY <2>1, <2>2 DEF IInv
<1>8. ASSUME NEW k \in Keys, Get(k) PROVE IInv'
  <2>1. used' \in Pointers BY <1>8 DEF Get, Pointers
  <2>2. HasList(cache') BY <1>5, <1>8 DEF Get
  <2> QED BY <2>1, <2>2 DEF IInv
<1>9. ASSUME NEW k \in Keys, Delete(k) PROVE IInv'
  <2>1. PICK p \in 1 .. Len(s) : s[p] = k BY <1>1, <1>9, Position DEF Delete
  <2>2. HasList(cache') BY <2>1, <1>1, <1>9, RemovedHolds, HoldsIsSound DEF Delete
  <2> QED BY <2>2, <1>2, <1>9 DEF Delete, IInv
<1>10. ASSUME Shift PROVE IInv'
  <2>1. HasList(cache')
    <3>1. ListOf(cache, s) /\ s \in Seq(Keys) /\ Len(s) \in Nat BY <1>1 DEF Holds, ListOf
    <3>2. CASE Len(s) = 0
      <4>1. cache.head = None BY <3>1, <3>2 DEF ListOf
      <4> QED BY <4>1, <1>1, <1>10, HoldsIsSound DEF Shift, Removed
    <3>3. CASE Len(s) # 0
      <4>1. cache.head = s[1] /\ 1 \in 1 .. Len(s) BY <3>1, <3>3, <1>2, HeadRemoved
      <4> QED BY <4>1, <1>1, <1>10, RemovedHolds, HoldsIsSound DEF Shift
    <3> QED BY <3>2, <3>3
  <2> QED BY <2>1, <1>2, <1>10 DEF Shift, IInv
<1>11. ASSUME Flush PROVE IInv'
  <2>1. HasList(cache') BY <1>2, <1>11, FlushedHolds, HoldsIsSound DEF Flush
  <2> QED BY <2>1, <1>2, <1>11 DEF Flush, IInv
<1>12. ASSUME NEW max \in LaterLimits, SetLimit(max) PROVE IInv'
  <2>1. cache' = Limited(cache, max) /\ max \in Nat
    BY <1>12, LimitsAssumption DEF SetLimit, Limited
  <2>2. HasList(cache') BY <2>1, <1>1, LimitedHolds, HoldsIsSound
  <2> QED BY <2>2, <1>2, <1>12 DEF SetLimit, IInv
<1>13. CASE UNCHANGED vars BY <1>2, <1>13 DEF vars, IInv
<1> QED BY <1>6, <1>7, <1>8, <1>9, <1>10, <1>11, <1>12, <1>13 DEF Next, IInv

LEMMA Soundness == Spec => []IInv
<1>1. Init => IInv BY InitIsSound
<1>2. IInv /\ [Next]_vars => IInv' BY NextKeepsList
<1> QED BY <1>1, <1>2, PTL DEF Spec

(* The fields of a cache have their types, in every behaviour.             *)
THEOREM TypesHold == Spec => []TypeOK
<1>1. IInv => TypeOK BY IInvIsSound
<1> QED BY <1>1, Soundness, PTL

(* Whatever sequence of operations re-links the entries, the list, the Map *)
(* and the size agree.                                                     *)
THEOREM ListStaysSound == Spec => []ListIsSound
<1>1. IInv => ListIsSound BY IInvIsSound
<1> QED BY <1>1, Soundness, PTL

--------------------------------------------------------------------------------
(* The operations of LruCache on the list                                  *)

(* No more entries than the limit allows.                                  *)
Fits(c) == c.limit = NoLimit \/ c.size <= c.limit

(* The value of each key, as LruCache sees it.                             *)
ValueOf(c) == [k \in Keys |-> IF k \in c.map THEN c.value[k] ELSE None]

LEMMA ContainsIsMember ==
  ASSUME NEW c, NEW s, Holds(c, s), NEW k \in Keys
  PROVE  Lru!Contains(s, k) <=> k \in c.map
<1>1. s \in Seq(Keys) /\ DOMAIN s = 1 .. Len(s) BY DEF Holds, ListOf
<1> QED BY <1>1 DEF Lru!Contains, Holds, ListOf

LEMMA WithoutIsCut ==
  ASSUME NEW c, NEW s, Holds(c, s), NEW p \in 1 .. Len(s)
  PROVE  Lru!Without(s, s[p]) = Cut(s, p)
<1>1. s \in Seq(Keys) /\ DOMAIN s = 1 .. Len(s) BY DEF Holds, ListOf
<1>2. Lru!Contains(s, s[p]) BY <1>1 DEF Lru!Contains
<1>3. \A i \in DOMAIN s : s[i] = s[p] => i = p BY <1>1 DEF Holds, ListOf
<1>4. (CHOOSE i \in DOMAIN s : s[i] = s[p]) = p BY <1>1, <1>3
<1> QED BY <1>2, <1>4 DEF Lru!Without, Cut

(* What makes room is the oldest key.                                      *)
LEMMA RoomIsFit ==
  ASSUME NEW c \in Caches, c.size \in Nat, Fits(c), NEW s \in Seq(Keys), NEW k \in Keys,
         Len(s) = c.size
  PROVE  Room(Append(s, k), c) = Lru!Fit(Append(s, k), c.limit)
<1> DEFINE t == Append(s, k)
<1>1. t \in Seq(Keys) /\ Len(t) = Len(s) + 1 /\ Len(t) \in Nat BY AppendFacts
<1>2. c.limit \in Nat \cup {NoLimit} BY DEF Caches
<1> HIDE DEF t
<1>3. CASE c.size = c.limit
  <2>1. c.limit # NoLimit /\ ~ (Len(t) <= c.limit) /\ Len(t) - c.limit + 1 = 2
    BY <1>1, <1>2, <1>3 DEF NoLimit
  <2>2. Lru!Fit(t, c.limit) = From(t, 2) BY <2>1 DEF Lru!Fit, From
  <2>3. 1 \in 1 .. Len(t) /\ 1 \in 1 .. Len(t) + 1 BY <1>1
  <2>4. Cut(From(t, 1), 1) = From(t, 1 + 1) BY <2>3, <1>1, CutHead
  <2>5. /\ From(t, 1) \in Seq(Keys) /\ Len(From(t, 1)) = Len(t) - 1 + 1
        /\ \A i \in 1 .. Len(t) - 1 + 1 : From(t, 1)[i] = t[1 + i - 1]
    BY <2>3, <1>1, FromFacts
  <2>6. Len(t) - 1 + 1 = Len(t) /\ \A i \in 1 .. Len(t) : 1 + i - 1 = i BY <1>1
  <2>7. From(t, 1) = t BY <2>5, <2>6, <1>1, SameSequence
  <2>8. Cut(t, 1) = From(t, 2) BY <2>4, <2>7
  <2> QED BY <2>2, <2>8, <1>3 DEF Room, t
<1>4. CASE c.size # c.limit
  <2>1. c.limit = NoLimit \/ Len(t) <= c.limit BY <1>1, <1>2, <1>4 DEF Fits, NoLimit
  <2>2. Lru!Fit(t, c.limit) = t BY <2>1 DEF Lru!Fit
  <2> QED BY <2>2, <1>4 DEF Room, t
<1> QED BY <1>3, <1>4

LEMMA FitsAlready ==
  ASSUME NEW c, NEW s, Holds(c, s), NEW max, c.size <= max
  PROVE  Lru!Fit(s, max) = s
BY DEF Lru!Fit, Holds

--------------------------------------------------------------------------------
(* The refinement, step by step                                            *)

(* A step that leaves the list t with the values in f is one of Hold.      *)
LEMMA HoldStep ==
  ASSUME NEW t, Holds(cache', t), NEW f, \A l \in cache'.map : cache'.value[l] = f[l]
  PROVE  Lru!Hold(t, f)
<1>1. Chain' = t BY ChainIsList DEF Chain
<1>2. \A k \in Keys : Lru!Contains(t, k) <=> k \in cache'.map BY ContainsIsMember
<1>3. [k \in Keys |-> IF k \in cache'.map THEN cache'.value[k] ELSE None]
        = [k \in Keys |-> IF Lru!Contains(t, k) THEN f[k] ELSE None]
  BY <1>2
<1> QED BY <1>1, <1>3 DEF Lru!Hold

LEMMA InitImplements == Init => Lru!Init
<1> SUFFICES ASSUME Init PROVE Lru!Init OBVIOUS
<1>1. PICK limit \in FirstLimits :
        cache = [map |-> {}, size |-> 0, limit |-> limit, head |-> None, tail |-> None,
                 older |-> [k \in Keys |-> None], newer |-> [k \in Keys |-> None],
                 value |-> [k \in Keys |-> None]]
  BY DEF Init
<1>2. limit \in Nat \cup {NoLimit} BY LimitsAssumption
<1>3. cache \in Caches BY <1>1, <1>2 DEF Caches, Pointers
<1>4. <<>> \in Seq(Keys) /\ Len(<<>>) = 0 OBVIOUS
<1>5. Holds(cache, <<>>) BY <1>1, <1>3, <1>4 DEF Holds, ListOf
<1>6. Chain = <<>> BY <1>5, ChainIsList DEF Chain
<1>7. [k \in Keys |-> IF k \in cache.map THEN cache.value[k] ELSE None] = [k \in Keys |-> None]
  BY <1>1
<1>8. cache.limit \in ((FirstLimits \cup LaterLimits) \ {NoLimit}) \cup {NoLimit} BY <1>1
<1> QED BY <1>6, <1>7, <1>8 DEF Lru!Init, Init

(* A key used that had no entry.                                           *)
LEMMA NewImplements ==
  ASSUME IInv, Fits(cache), NEW k \in Keys, NEW v \in Values, k \notin cache.map,
         InsertNew(k, v), used' = k
  PROVE  Lru!Put(k, v) /\ Fits(cache')
<1>1. PICK s : Holds(cache, s) BY DEF IInv, HasList
<1>2. /\ cache \in Caches /\ s \in Seq(Keys) /\ Len(s) = cache.size /\ cache.size \in Nat
      /\ cache.value \in [Keys -> Values \cup {None}] /\ cache.limit \in Nat \cup {NoLimit}
  BY <1>1 DEF Holds, ListOf, Caches
<1>3. Chain = s BY <1>1, ChainIsList DEF Chain
<1>0. PICK c : c = cache OBVIOUS
<1> DEFINE t == Room(Append(s, k), c)
           f == [ValueOf(c) EXCEPT ![k] = v]
<1>4. /\ Holds(cache', t) /\ cache'.limit = cache.limit
      /\ cache'.value = [cache.value EXCEPT ![k] = v]
      /\ cache'.map \subseteq cache.map \cup {k}
  <2>1. cache' = Inserted(Fresh(cache, k, v), k) BY DEF InsertNew, Fresh
  <2>2. LET r == Inserted(Fresh(cache, k, v), k)
        IN /\ Holds(r, t) /\ r.limit = cache.limit
           /\ r.value = [cache.value EXCEPT ![k] = v]
           /\ r.map \subseteq cache.map \cup {k}
    BY <1>0, <1>1, NewHolds
  <2> HIDE DEF t
  <2> QED BY <2>1, <2>2
<1>5. t = Lru!Fit(Append(s, k), cache.limit) BY <1>0, <1>2, RoomIsFit
<1>6. Lru!Without(s, k) = s BY <1>1, ContainsIsMember DEF Lru!Without
<1>7. \A l \in cache'.map : cache'.value[l] = f[l]
  <2>1. cache.map \in SUBSET Keys BY <1>2 DEF Caches
  <2> QED BY <2>1, <1>0, <1>2, <1>4 DEF ValueOf
<1>8. Lru!Hold(t, f)
  <2> HIDE DEF t, f
  <2>1. \A l \in cache'.map : cache'.value[l] = f[l] BY <1>7
  <2>2. Holds(cache', t) BY <1>4
  <2> QED BY <2>1, <2>2, HoldStep
<1>9. Lru!Put(k, v)
  <2> HIDE DEF t
  <2> QED BY <1>0, <1>3, <1>4, <1>5, <1>6, <1>8 DEF Lru!Put, Lru!Use, Lru!Hold, ValueOf
<1>10. Len(t) = IF cache.size = cache.limit THEN Len(s) ELSE Len(s) + 1 BY <1>0, <1>2, RoomFacts
<1>11. Len(t) = cache'.size BY <1>4 DEF Holds
<1>12. Fits(cache') BY <1>2, <1>4, <1>10, <1>11 DEF Fits, NoLimit
<1> QED BY <1>9, <1>12

(* A key used that had one: moved from a cache d that differs from cache   *)
(* in the value of the key at most.                                        *)
LEMMA MovedImplements ==
  ASSUME NEW s, Holds(cache, s), Fits(cache), NEW d, Holds(d, s), d.limit = cache.limit,
         d.map = cache.map, NEW k \in cache.map, NEW f, \A l \in cache.map : d.value[l] = f[l],
         cache' = Inserted(Removed(d, k), k), used' = k
  PROVE  Lru!Use(k, f) /\ cache'.limit = cache.limit /\ Fits(cache')
<1>1. PICK p \in 1 .. Len(s) : s[p] = k BY Position
<1> DEFINE e == Removed(d, k)
           u == Cut(s, p)
           t == Room(Append(u, k), e)
<1>2. /\ cache \in Caches /\ s \in Seq(Keys) /\ Len(s) = cache.size /\ cache.size \in Nat
      /\ cache.limit \in Nat \cup {NoLimit} /\ k \in Keys /\ d.size = Len(s)
  BY DEF Holds, ListOf, Caches
<1>3. /\ Holds(cache', t) /\ cache'.limit = d.limit /\ cache'.value = d.value
      /\ cache'.map \subseteq d.map /\ e.size = d.size - 1 /\ e.limit = d.limit
  BY <1>1, MovedHolds
<1>4. Holds(e, u) BY <1>1, RemovedHolds
<1>5. Lru!Without(s, k) = u BY <1>1, WithoutIsCut
<1> HIDE DEF e
<1>6. u \in Seq(Keys) /\ Len(u) = e.size /\ e \in Caches BY <1>4 DEF Holds, ListOf
<1> HIDE DEF u
<1>7. e.size \in Nat BY <1>6
<1>8. Fits(e) BY <1>2, <1>3, <1>7 DEF Fits
<1>9. t = Lru!Fit(Append(u, k), e.limit) BY <1>2, <1>6, <1>7, <1>8, RoomIsFit
<1>10. Chain = s BY ChainIsList DEF Chain
<1>11. Lru!Hold(t, f)
  <2> HIDE DEF t
  <2>1. \A l \in cache'.map : cache'.value[l] = f[l] BY <1>3
  <2> QED BY <2>1, <1>3, HoldStep
<1>12. Lru!Use(k, f)
  <2> HIDE DEF t
  <2> QED BY <1>3, <1>5, <1>9, <1>10, <1>11 DEF Lru!Use
<1>13. Len(t) = IF e.size = e.limit THEN Len(u) ELSE Len(u) + 1 BY <1>2, <1>6, RoomFacts
<1>14. Len(t) = cache'.size BY <1>3 DEF Holds
<1>15. Fits(cache') BY <1>2, <1>3, <1>6, <1>13, <1>14 DEF Fits, NoLimit
<1> QED BY <1>3, <1>12, <1>15

(* No step sets a limit below the number of entries: setLimit would leave  *)
(* one too many (see LimitKept).                                           *)
NeverBelow == cache'.limit # cache.limit => cache.size <= cache'.limit

LEMMA StepImplements ==
  IInv /\ Fits(cache) /\ [Next]_vars /\ [NeverBelow]_vars => [Lru!Next]_(Lru!lruVars) /\ Fits(cache')
<1> SUFFICES ASSUME IInv, Fits(cache), [Next]_vars, [NeverBelow]_vars
             PROVE  [Lru!Next]_(Lru!lruVars) /\ Fits(cache')
  OBVIOUS
<1>1. PICK s : Holds(cache, s) BY DEF IInv, HasList
<1>2. /\ cache \in Caches /\ s \in Seq(Keys) /\ Len(s) = cache.size /\ cache.size \in Nat
      /\ ListOf(cache, s) /\ cache.map \in SUBSET Keys
      /\ cache.value \in [Keys -> Values \cup {None}] /\ cache.limit \in Nat \cup {NoLimit}
  BY <1>1 DEF Holds, ListOf, Caches
<1>3. Chain = s BY <1>1, ChainIsList DEF Chain
<1>4. PICK f : f = ValueOf(cache) OBVIOUS
<1>5. ASSUME NEW k \in cache.map, Hit(k), used' = k
      PROVE  Lru!Get(k) /\ Fits(cache')
  <2>1. PICK d : d = cache OBVIOUS
  <2>2. Lru!Use(k, f) /\ cache'.limit = cache.limit /\ Fits(cache')
    <3>1. cache' = Inserted(Removed(d, k), k) BY <2>1, <1>5 DEF Hit
    <3>2. \A l \in cache.map : d.value[l] = f[l] BY <2>1, <1>2, <1>4 DEF ValueOf
    <3> QED BY <3>1, <3>2, <2>1, <1>1, <1>5, MovedImplements
  <2>3. Lru!Contains(s, k) BY <1>1, <1>2, ContainsIsMember
  <2> QED BY <2>2, <2>3, <1>3, <1>4 DEF Lru!Get, ValueOf
<1>6. ASSUME NEW k \in Keys, NEW v \in Values, Put(k, v)
      PROVE  Lru!Put(k, v) /\ Fits(cache')
  <2>1. CASE k \notin cache.map BY <2>1, <1>6, NewImplements DEF Put
  <2>2. CASE k \in cache.map
    <3>1. PICK d : d = [cache EXCEPT !.value[k] = v] OBVIOUS
    <3>2. PICK g : g = [f EXCEPT ![k] = v] OBVIOUS
    <3>3. /\ Holds(d, s) /\ d.limit = cache.limit /\ d.map = cache.map
          /\ d.value = [cache.value EXCEPT ![k] = v]
      BY <3>1, <1>1, ValueHolds
    <3>4. \A l \in cache.map : d.value[l] = g[l] BY <3>2, <3>3, <1>2, <1>4 DEF ValueOf
    <3>5. cache' = Inserted(Removed(d, k), k) /\ used' = k BY <3>1, <2>2, <1>6 DEF Put
    <3>6. Lru!Use(k, g) /\ cache'.limit = cache.limit /\ Fits(cache')
      BY <3>3, <3>4, <3>5, <2>2, <1>1, MovedImplements
    <3> QED BY <3>2, <3>6, <1>4 DEF Lru!Put, ValueOf
  <2> QED BY <2>1, <2>2
<1>7. ASSUME NEW k \in Keys, NEW v \in Values, GetOrPut(k, v)
      PROVE  (Lru!Put(k, v) \/ Lru!Get(k)) /\ Fits(cache')
  <2>1. CASE k \notin cache.map BY <2>1, <1>7, NewImplements DEF GetOrPut
  <2>2. CASE k \in cache.map BY <2>2, <1>5, <1>7 DEF GetOrPut
  <2> QED BY <2>1, <2>2
<1>8. ASSUME NEW k \in Keys, Get(k) PROVE Lru!Get(k) /\ Fits(cache')
  BY <1>5, <1>8 DEF Get
<1>9. ASSUME NEW k \in cache.map, cache' = Removed(cache, k), UNCHANGED used
      PROVE  Lru!Drop(k) /\ Fits(cache')
  <2>1. PICK p \in 1 .. Len(s) : s[p] = k BY <1>1, Position
  <2>2. /\ Holds(cache', Cut(s, p)) /\ cache'.limit = cache.limit /\ cache'.value = cache.value
        /\ cache'.size = cache.size - 1 /\ cache'.map = cache.map \ {k}
    BY <2>1, <1>1, <1>9, RemovedHolds
  <2>3. Lru!Without(s, k) = Cut(s, p) BY <2>1, <1>1, WithoutIsCut
  <2>4. \A l \in cache'.map : cache'.value[l] = f[l] BY <2>2, <1>2, <1>4 DEF ValueOf
  <2>5. Lru!Hold(Cut(s, p), f) BY <2>2, <2>4, HoldStep
  <2>6. Fits(cache') BY <2>2, <1>2 DEF Fits
  <2> QED BY <2>2, <2>3, <2>5, <2>6, <1>3, <1>4, <1>9 DEF Lru!Drop, Lru!Hold, ValueOf
<1>10. ASSUME NEW k \in Keys, Delete(k) PROVE Lru!Drop(k) /\ Fits(cache')
  BY <1>9, <1>10 DEF Delete
<1>11. ASSUME UNCHANGED vars PROVE UNCHANGED Lru!lruVars /\ Fits(cache')
  <2>1. cache' = cache /\ used' = used BY <1>11 DEF vars
  <2>2. Chain' = Chain BY <2>1 DEF Chain
  <2> QED BY <2>1, <2>2 DEF Lru!lruVars
<1>12. ASSUME Shift
       PROVE  /\ Fits(cache')
              /\ (\E k \in Keys : Lru!Drop(k)) \/ UNCHANGED Lru!lruVars
  <2>1. CASE Len(s) = 0
    <3>1. cache.head = None BY <2>1, <1>2 DEF ListOf
    <3>2. UNCHANGED vars BY <3>1, <1>12 DEF Shift, Removed, vars
    <3> QED BY <3>2, <1>11
  <2>2. CASE Len(s) # 0
    <3>1. cache.head = s[1] /\ s[1] \in Keys /\ 1 \in 1 .. Len(s) BY <2>2, <1>2, HeadRemoved
    <3>2. s[1] \in cache.map BY <3>1, <1>2 DEF ListOf
    <3> QED BY <3>1, <3>2, <1>9, <1>12 DEF Shift
  <2> QED BY <2>1, <2>2
<1>13. ASSUME Flush PROVE Lru!Flush /\ Fits(cache')
  <2>1. /\ Holds(cache', <<>>) /\ cache'.size = 0 /\ cache'.limit = cache.limit /\ cache'.map = {}
    BY <1>2, <1>13, FlushedHolds DEF Flush
  <2>2. \A l \in cache'.map : cache'.value[l] = f[l] BY <2>1
  <2>3. Lru!Hold(<<>>, f) BY <2>1, <2>2, HoldStep
  <2>4. Fits(cache') BY <2>1, <1>2 DEF Fits
  <2> QED BY <2>1, <2>3, <2>4, <1>4, <1>13 DEF Lru!Flush, Lru!Hold, Flush, ValueOf
<1>14. ASSUME NEW max \in LaterLimits, SetLimit(max)
       PROVE  /\ max \in (FirstLimits \cup LaterLimits) \ {NoLimit}
              /\ Lru!SetLimit(max) /\ Fits(cache')
  <2>1. max \in Nat /\ cache' = Limited(cache, max) BY <1>14, LimitsAssumption DEF SetLimit, Limited
  <2>2. /\ Holds(cache', IF cache.size > max THEN From(s, cache.size - max) ELSE s)
        /\ cache'.limit = max /\ cache'.value = cache.value
    BY <2>1, <1>1, LimitedHolds
  <2>3. cache.size <= max
    <3>1. CASE cache.limit = max BY <3>1, <2>1 DEF Fits, NoLimit
    <3>2. CASE cache.limit # max BY <3>2, <2>2 DEF NeverBelow, vars
    <3> QED BY <3>1, <3>2
  <2>4. Holds(cache', s) BY <2>1, <2>2, <2>3, <1>2
  <2>5. cache'.size = cache.size BY <2>4, <1>2 DEF Holds
  <2>6. \A l \in cache'.map : cache'.value[l] = f[l]
    <3>1. cache'.map = cache.map
      <4>1. cache'.map \in SUBSET Keys BY <2>4 DEF Holds, Caches
      <4> QED BY <4>1, <2>4, <1>2 DEF Holds, ListOf
    <3> QED BY <3>1, <2>2, <1>2, <1>4 DEF ValueOf
  <2>7. Lru!Hold(s, f) BY <2>4, <2>6, HoldStep
  <2>8. Lru!Fit(s, max) = s BY <2>3, <1>1, FitsAlready
  <2>9. Fits(cache') BY <2>2, <2>3, <2>5 DEF Fits
  <2> QED BY <2>1, <2>2, <2>7, <2>8, <2>9, <1>3, <1>4, <1>14 DEF Lru!SetLimit, Lru!Hold, SetLimit, ValueOf, NoLimit
<1> QED
  BY <1>6, <1>7, <1>8, <1>10, <1>11, <1>12, <1>13, <1>14 DEF Next, Lru!Next

LEMMA InitFits == Init => Fits(cache)
<1> SUFFICES ASSUME Init PROVE Fits(cache) OBVIOUS
<1>1. PICK limit \in FirstLimits : cache.size = 0 /\ cache.limit = limit BY DEF Init
<1>2. limit \in Nat \cup {NoLimit} BY LimitsAssumption
<1> QED BY <1>1, <1>2 DEF Fits

(* As long as no limit is set below the number of entries, the cache does  *)
(* what LruCache promises: a key has the value last put, a use makes it    *)
(* the newest, and what makes room is the least recently used.             *)
THEOREM CacheIsLru == Spec /\ [][NeverBelow]_vars => ImplementsLru
<1> DEFINE Inv == IInv /\ Fits(cache)
           AbstractInit == Lru!Init
           AbstractNext == [Lru!Next]_(Lru!lruVars)
<1>1. Init => Inv BY InitIsSound, InitFits
<1>2. Inv /\ [Next]_vars /\ [NeverBelow]_vars => Inv' /\ AbstractNext
  <2>1. IInv /\ [Next]_vars => IInv' BY NextKeepsList
  <2>2. IInv /\ Fits(cache) /\ [Next]_vars /\ [NeverBelow]_vars => AbstractNext /\ Fits(cache')
    BY StepImplements
  <2>3. Fits(cache') => Fits(cache)' BY DEF Fits
  <2> QED BY <2>1, <2>2, <2>3
<1>3. Init => AbstractInit BY InitImplements
<1> HIDE DEF Inv
<1>4. Spec /\ [][NeverBelow]_vars => Lru!Spec
  BY <1>1, <1>2, <1>3, PTL DEF Spec, Lru!Spec
<1> QED BY <1>4 DEF ImplementsLru

(* And it holds no more entries than its limit then (Cache.js:117).        *)
THEOREM LimitStaysKept == Spec /\ [][NeverBelow]_vars => []LimitKept
<1> DEFINE Inv == IInv /\ Fits(cache)
<1>1. Init => Inv BY InitIsSound, InitFits
<1>2. Inv /\ [Next]_vars /\ [NeverBelow]_vars => Inv'
  <2>1. IInv /\ [Next]_vars => IInv' BY NextKeepsList
  <2>2. IInv /\ Fits(cache) /\ [Next]_vars /\ [NeverBelow]_vars => Fits(cache') BY StepImplements
  <2>3. Fits(cache') => Fits(cache)' BY DEF Fits
  <2> QED BY <2>1, <2>2, <2>3
<1>3. Inv => LimitKept BY DEF Fits, LimitKept
<1> HIDE DEF Inv
<1> QED BY <1>1, <1>2, <1>3, PTL DEF Spec

(* A limit set below the number of entries always leaves one too many: the *)
(* run cache_limit shows it once.                                          *)
THEOREM LimitMissedByOne ==
  Spec => [][\A max \in LaterLimits :
               SetLimit(max) /\ cache.size > max => cache'.size = max + 1]_vars
<1> DEFINE Missed == \A max \in LaterLimits :
                       SetLimit(max) /\ cache.size > max => cache'.size = max + 1
<1>1. IInv /\ [Next]_vars => [Missed]_vars
  <2> SUFFICES ASSUME IInv, NEW max \in LaterLimits, SetLimit(max), cache.size > max
               PROVE  cache'.size = max + 1
    OBVIOUS
  <2>1. PICK s : Holds(cache, s) BY DEF IInv, HasList
  <2>2. max \in Nat /\ cache' = Limited(cache, max) BY LimitsAssumption DEF SetLimit, Limited
  <2>3. Holds(cache', From(s, cache.size - max)) BY <2>1, <2>2, LimitedHolds
  <2>4. s \in Seq(Keys) /\ Len(s) = cache.size /\ cache.size \in Nat BY <2>1 DEF Holds, ListOf
  <2>5. cache.size - max \in 1 .. Len(s) + 1 BY <2>2, <2>4
  <2>6. Len(From(s, cache.size - max)) = Len(s) - (cache.size - max) + 1 BY <2>4, <2>5, FromFacts
  <2>7. Len(s) - (cache.size - max) + 1 = max + 1 BY <2>2, <2>4
  <2> QED BY <2>3, <2>6, <2>7 DEF Holds
<1> QED BY <1>1, Soundness, PTL DEF Spec
================================================================================
