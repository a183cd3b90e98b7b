--------------------------- MODULE DragAndDropProofs ---------------------------
(***************************************************************************)
(* What a drag leaves behind, and where a drop lands, for every value of   *)
(* the constants (DragAndDropRC and DragAndDropStore), when no parent is   *)
(* controlled: a controlled parent takes the element of the dragged item   *)
(* away before the drag has ended, and both properties fail then.          *)
(*                                                                         *)
(* DragIInv says where every item is while the pointer drags, after the    *)
(* drop and while the keyboard carries one.  In the zones it drags over,   *)
(* nothing moves until the drop; so what the parent works out from the     *)
(* two payloads, and what the zones work out each for itself, begin from   *)
(* the same lists.  GoneIInv says what holds when an item was deleted      *)
(* while it was picked, until that is cancelled.                           *)
(***************************************************************************)
EXTENDS Library, FiniteSetTheorems, TLAPS

--------------------------------------------------------------------------------
(* Lists: what taking out, putting in and moving do                        *)
Place(s, i) == IF i > Len(s) THEN Len(s) ELSE i

(* w is s with x after its first p elements, or without the element there. *)
Widened(w, s, p, x) ==
  /\ Len(w) = Len(s) + 1
  /\ \A k \in 1 .. Len(s) + 1 : w[k] = IF k <= p THEN s[k] ELSE IF k = p + 1 THEN x ELSE s[k - 1]
Narrowed(w, s, p) ==
  /\ Len(w) = Len(s) - 1
  /\ \A k \in 1 .. Len(s) - 1 : w[k] = IF k <= p THEN s[k] ELSE s[k + 1]

LEMMA WithoutFacts ==
  ASSUME NEW S, NEW s \in Seq(S), NEW i \in Nat, i + 1 \in 1 .. Len(s)
  PROVE  Drags!Without(s, i) \in Seq(S) /\ Narrowed(Drags!Without(s, i), s, i)
<1> DEFINE a == SubSeq(s, 1, i)
           b == SubSeq(s, i + 2, Len(s))
<1>1. Len(s) \in Nat OBVIOUS
<1>2. a \in Seq(S) /\ Len(a) = i /\ \A k \in 1 .. i : a[k] = s[k] OBVIOUS
<1>3. b \in Seq(S) /\ Len(b) = Len(s) - (i + 1) /\ \A k \in 1 .. Len(s) - (i + 1) : b[k] = s[i + 1 + k]
  OBVIOUS
<1>4. Drags!Without(s, i) = a \o b
  <2>1. (i + 1) - 1 = i /\ (i + 1) + 1 = i + 2 OBVIOUS
  <2> QED BY <2>1 DEF Drags!Without, Drags!RemoveAt
<1> HIDE DEF a, b
<1>5. a \o b \in Seq(S) /\ Len(a \o b) = Len(s) - 1
  <2>1. \A A : \A x, y \in Seq(A) : x \o y \in Seq(A) /\ Len(x \o y) = Len(x) + Len(y) OBVIOUS
  <2>2. a \o b \in Seq(S) /\ Len(a \o b) = Len(a) + Len(b) BY <2>1, <1>2, <1>3, Zenon
  <2> QED BY <2>2, <1>1, <1>2, <1>3
<1>6. ASSUME NEW k \in 1 .. Len(s) - 1 PROVE (a \o b)[k] = IF k <= i THEN s[k] ELSE s[k + 1]
  <2>1. (a \o b)[k] = IF k <= Len(a) THEN a[k] ELSE b[k - Len(a)] BY <1>1, <1>2, <1>3
  <2>2. CASE k <= i BY <2>1, <2>2, <1>1, <1>2
  <2>3. CASE k > i
    <3>1. k - i \in 1 .. Len(s) - (i + 1) /\ i + 1 + (k - i) = k + 1 BY <2>3, <1>1
    <3>2. b[k - i] = s[k + 1] BY <3>1, <1>3
    <3> QED BY <3>2, <2>1, <2>3, <1>1, <1>2
  <2>4. k <= i \/ k > i BY <1>1
  <2> QED BY <2>2, <2>3, <2>4, Zenon
<1> QED BY <1>4, <1>5, <1>6 DEF Narrowed

LEMMA WithFacts ==
  ASSUME NEW S, NEW s \in Seq(S), NEW i \in Nat, NEW x \in S
  PROVE  /\ Place(s, i) \in 0 .. Len(s)
         /\ Drags!With(s, i, x) \in Seq(S) /\ Widened(Drags!With(s, i, x), s, Place(s, i), x)
<1> DEFINE p == Place(s, i)
           a == SubSeq(s, 1, p)
           b == SubSeq(s, p + 1, Len(s))
           c == <<x>>
<1>1. Len(s) \in Nat /\ p \in Nat /\ p <= Len(s) BY DEF Place
<1>2. Drags!With(s, i, x) = a \o c \o b
  <2>1. Drags!With(s, i, x) = Drags!InsertAt(s, p + 1, x) BY DEF Drags!With, Place
  <2> HIDE DEF p
  <2>2. (p + 1) - 1 = p BY <1>1
  <2> QED BY <2>1, <2>2 DEF Drags!InsertAt
<1> HIDE DEF p
<1>3. a \in Seq(S) /\ Len(a) = p /\ \A k \in 1 .. p : a[k] = s[k] BY <1>1
<1>4. b \in Seq(S) /\ Len(b) = Len(s) - p /\ \A k \in 1 .. Len(s) - p : b[k] = s[p + k] BY <1>1
<1>5. c \in Seq(S) /\ Len(c) = 1 /\ c[1] = x OBVIOUS
<1> HIDE DEF a, b, c
<1> DEFINE d == a \o c
<1>6. d \in Seq(S) /\ Len(d) = p + 1 /\ \A k \in 1 .. p + 1 : d[k] = IF k <= p THEN s[k] ELSE x
  <2>1. \A A : \A u, v \in Seq(A) : u \o v \in Seq(A) /\ Len(u \o v) = Len(u) + Len(v) OBVIOUS
  <2>2. d \in Seq(S) /\ Len(d) = Len(a) + Len(c) BY <2>1, <1>3, <1>5, Zenon
  <2>3. ASSUME NEW k \in 1 .. p + 1 PROVE d[k] = IF k <= p THEN s[k] ELSE x
    <3>1. k \in 1 .. Len(a) + Len(c) BY <1>1, <1>3, <1>5
    <3>2. d[k] = IF k <= Len(a) THEN a[k] ELSE c[k - Len(a)]
      <4>1. \A A : \A u, v \in Seq(A) : \A j \in 1 .. Len(u) + Len(v) :
              (u \o v)[j] = IF j <= Len(u) THEN u[j] ELSE v[j - Len(u)]
        OBVIOUS
      <4> QED BY <4>1, <3>1, <1>3, <1>5, Zenon
    <3>3. k <= p \/ (~(k <= p) /\ k - p = 1) BY <1>1
    <3> HIDE DEF d
    <3> QED BY <3>2, <3>3, <1>1, <1>3, <1>5
  <2> QED BY <2>2, <2>3, <1>1, <1>3, <1>5
<1> HIDE DEF d
<1>7. d \o b \in Seq(S) /\ Len(d \o b) = Len(s) + 1
  <2>1. \A A : \A u, v \in Seq(A) : u \o v \in Seq(A) /\ Len(u \o v) = Len(u) + Len(v) OBVIOUS
  <2>2. d \o b \in Seq(S) /\ Len(d \o b) = Len(d) + Len(b) BY <2>1, <1>4, <1>6, Zenon
  <2> QED BY <2>2, <1>1, <1>4, <1>6
<1>8. ASSUME NEW k \in 1 .. Len(s) + 1
      PROVE (d \o b)[k] = IF k <= p THEN s[k] ELSE IF k = p + 1 THEN x ELSE s[k - 1]
  <2>1. (d \o b)[k] = IF k <= p + 1 THEN d[k] ELSE b[k - (p + 1)] BY <1>1, <1>4, <1>6
  <2>2. CASE k <= p + 1 BY <2>1, <2>2, <1>1, <1>6
  <2>3. CASE k > p + 1
    <3>1. k - (p + 1) \in 1 .. Len(s) - p /\ p + (k - (p + 1)) = k - 1 BY <2>3, <1>1
    <3>2. b[k - (p + 1)] = s[k - 1] BY <3>1, <1>4
    <3> QED BY <3>2, <2>1, <2>3, <1>1
  <2>4. k <= p + 1 \/ k > p + 1 BY <1>1
  <2> QED BY <2>2, <2>3, <2>4, Zenon
<1> QED BY <1>1, <1>2, <1>7, <1>8 DEF p, d, Widened

LEMMA ListsEqual ==
  ASSUME NEW S, NEW s \in Seq(S), NEW t \in Seq(S), Len(s) = Len(t),
         \A k \in 1 .. Len(s) : s[k] = t[k]
  PROVE  s = t
OBVIOUS

(* What is put in and taken out again leaves the list as it was.           *)
LEMMA WithoutWith ==
  ASSUME NEW S, NEW s \in Seq(S), NEW i \in 0 .. Len(s), NEW x \in S
  PROVE  /\ i + 1 \in 1 .. Len(Drags!With(s, i, x))
         /\ Drags!With(s, i, x)[i + 1] = x
         /\ Drags!Without(Drags!With(s, i, x), i) = s
<1> DEFINE w == Drags!With(s, i, x)
           v == Drags!Without(w, i)
<1>1. Len(s) \in Nat /\ i \in Nat /\ Place(s, i) = i BY DEF Place
<1>2. w \in Seq(S) /\ Widened(w, s, i, x)
  <2>1. i \in Nat OBVIOUS
  <2>2. w \in Seq(S) /\ Widened(w, s, Place(s, i), x) BY <2>1, WithFacts, Zenon
  <2> QED BY <2>2, <1>1
<1> HIDE DEF w
<1>3. i + 1 \in 1 .. Len(w) /\ w[i + 1] = x BY <1>1, <1>2 DEF Widened
<1>4. v \in Seq(S) /\ Narrowed(v, w, i) BY <1>1, <1>2, <1>3, WithoutFacts, Zenon
<1> HIDE DEF v
<1>5. Len(v) = Len(s) BY <1>1, <1>2, <1>4 DEF Widened, Narrowed
<1>6. ASSUME NEW k \in 1 .. Len(v) PROVE v[k] = s[k]
  <2>1. k \in 1 .. Len(s) /\ k \in 1 .. Len(s) + 1 /\ k + 1 \in 1 .. Len(s) + 1 BY <1>1, <1>5
  <2>2. v[k] = IF k <= i THEN w[k] ELSE w[k + 1] BY <2>1, <1>1, <1>2, <1>4 DEF Widened, Narrowed
  <2>3. w[k] = IF k <= i THEN s[k] ELSE IF k = i + 1 THEN x ELSE s[k - 1] BY <2>1, <1>2 DEF Widened
  <2>4. w[k + 1] = IF k + 1 <= i THEN s[k + 1] ELSE IF k + 1 = i + 1 THEN x ELSE s[(k + 1) - 1]
    BY <2>1, <1>2 DEF Widened
  <2> QED BY <2>1, <2>2, <2>3, <2>4, <1>1
<1>7. v = s BY <1>2, <1>4, <1>5, <1>6, ListsEqual
<1> QED BY <1>3, <1>7 DEF w, v

(* A place past the end is the end.                                        *)
LEMMA WithInEmpty ==
  ASSUME NEW x, NEW i \in Nat PROVE Drags!With(<<>>, i, x) = Drags!With(<<>>, 0, x)
<1>1. (IF i > Len(<<>>) THEN Len(<<>>) ELSE i) = (IF 0 > Len(<<>>) THEN Len(<<>>) ELSE 0) OBVIOUS
<1> QED BY <1>1 DEF Drags!With

Lists == [Zones -> Seq(Drags!Items)]
(* No item is in two places.                                               *)
EachOnce(l) ==
  \A y, z \in Zones : \A j \in 1 .. Len(l[y]), k \in 1 .. Len(l[z]) :
    l[y][j] = l[z][k] => y = z /\ j = k

LEMMA OnceWithout ==
  ASSUME NEW l \in Lists, EachOnce(l), NEW z \in Zones, NEW i \in Nat, i + 1 \in 1 .. Len(l[z]),
         NEW m, m = [l EXCEPT ![z] = Drags!Without(@, i)]
  PROVE  /\ m \in Lists /\ EachOnce(m)
         /\ \A y \in Zones : \A k \in 1 .. Len(m[y]) : m[y][k] # l[z][i + 1]
<1> DEFINE w == Drags!Without(l[z], i)
           At(y, k) == IF y = z /\ k > i THEN k + 1 ELSE k
<1>1. \A y \in Zones : l[y] \in Seq(Drags!Items) /\ Len(l[y]) \in Nat BY DEF Lists
<1>2. /\ w \in Seq(Drags!Items) /\ Len(w) = Len(l[z]) - 1
      /\ \A k \in 1 .. Len(l[z]) - 1 : w[k] = IF k <= i THEN l[z][k] ELSE l[z][k + 1]
  <2>1. w \in Seq(Drags!Items) /\ Narrowed(w, l[z], i) BY <1>1, WithoutFacts, Zenon
  <2> QED BY <2>1, Zenon DEF Narrowed
<1> HIDE DEF w
<1>3. m[z] = w /\ \A y \in Zones : y # z => m[y] = l[y] BY DEF Lists, w
<1>4. m \in Lists BY <1>2 DEF Lists, w
<1>5. ASSUME NEW y \in Zones, NEW k \in 1 .. Len(m[y])
      PROVE  /\ At(y, k) \in 1 .. Len(l[y]) /\ m[y][k] = l[y][At(y, k)]
             /\ ~(y = z /\ At(y, k) = i + 1)
  <2>1. CASE y = z
    <3>1. k \in 1 .. Len(l[z]) - 1 BY <2>1, <1>2, <1>3
    <3>2. m[y][k] = IF k <= i THEN l[z][k] ELSE l[z][k + 1] BY <3>1, <2>1, <1>2, <1>3
    <3>3. Len(l[z]) \in Nat /\ k \in Int BY <1>1
    <3>4. CASE k <= i BY <3>1, <3>2, <3>3, <3>4, <2>1
    <3>5. CASE k > i BY <3>1, <3>2, <3>3, <3>5, <2>1
    <3> QED BY <3>3, <3>4, <3>5
  <2>2. CASE y # z BY <2>2, <1>3
  <2> QED BY <2>1, <2>2
<1> HIDE DEF At
<1>6. ASSUME NEW x \in Zones, NEW y \in Zones, NEW j \in 1 .. Len(m[x]), NEW k \in 1 .. Len(m[y]),
             m[x][j] = m[y][k]
      PROVE  x = y /\ j = k
  <2>1. At(x, j) \in 1 .. Len(l[x]) /\ m[x][j] = l[x][At(x, j)] BY <1>5, Zenon
  <2>2. At(y, k) \in 1 .. Len(l[y]) /\ m[y][k] = l[y][At(y, k)] BY <1>5, Zenon
  <2>3. x = y /\ At(x, j) = At(y, k)
    <3>1. PICK h \in 1 .. Len(l[x]) : h = At(x, j) BY <2>1
    <3>2. PICK o \in 1 .. Len(l[y]) : o = At(y, k) BY <2>2
    <3>3. l[x][h] = l[y][o] BY <3>1, <3>2, <2>1, <2>2, <1>6
    <3>4. x = y /\ h = o BY <3>3 DEF EachOnce
    <3> QED BY <3>1, <3>2, <3>4
  <2>4. Len(m[x]) \in Nat /\ Len(m[y]) \in Nat BY <1>4 DEF Lists
  <2>5. j \in Int /\ k \in Int BY <2>4
  <2> QED BY <2>3, <2>5 DEF At
<1>7. ASSUME NEW y \in Zones, NEW k \in 1 .. Len(m[y]) PROVE m[y][k] # l[z][i + 1]
  <2>1. At(y, k) \in 1 .. Len(l[y]) /\ m[y][k] = l[y][At(y, k)] /\ ~(y = z /\ At(y, k) = i + 1)
    BY <1>5, Zenon
  <2> QED BY <2>1 DEF EachOnce
<1> QED BY <1>4, <1>6, <1>7 DEF EachOnce

LEMMA OnceWith ==
  ASSUME NEW l \in Lists, EachOnce(l), NEW z \in Zones, NEW i \in Nat, NEW x \in Drags!Items,
         \A y \in Zones : \A k \in 1 .. Len(l[y]) : l[y][k] # x,
         NEW m, m = [l EXCEPT ![z] = Drags!With(@, i, x)]
  PROVE  m \in Lists /\ EachOnce(m)
<1> DEFINE p == Place(l[z], i)
           w == Drags!With(l[z], i, x)
<1>1. \A y \in Zones : l[y] \in Seq(Drags!Items) /\ Len(l[y]) \in Nat BY DEF Lists
<1>2. /\ p \in 0 .. Len(l[z])
      /\ w \in Seq(Drags!Items) /\ Len(w) = Len(l[z]) + 1
      /\ \A k \in 1 .. Len(l[z]) + 1 :
           w[k] = IF k <= p THEN l[z][k] ELSE IF k = p + 1 THEN x ELSE l[z][k - 1]
  <2>1. p \in 0 .. Len(l[z]) /\ w \in Seq(Drags!Items) /\ Widened(w, l[z], p, x)
    BY <1>1, WithFacts, Zenon
  <2> QED BY <2>1, Zenon DEF Widened
<1> HIDE DEF p, w
<1>3. m[z] = w /\ \A y \in Zones : y # z => m[y] = l[y] BY DEF Lists, w
<1>4. m \in Lists BY <1>2 DEF Lists, w
<1>5. ASSUME NEW y \in Zones, NEW k \in 1 .. Len(m[y])
      PROVE  IF y = z /\ k = p + 1 THEN m[y][k] = x
             ELSE LET h == IF y = z /\ k > p THEN k - 1 ELSE k
                  IN h \in 1 .. Len(l[y]) /\ m[y][k] = l[y][h]
  <2>1. CASE y = z
    <3>1. k \in 1 .. Len(l[z]) + 1 BY <2>1, <1>2, <1>3
    <3>2. m[y][k] = IF k <= p THEN l[z][k] ELSE IF k = p + 1 THEN x ELSE l[z][k - 1]
      BY <3>1, <2>1, <1>2, <1>3
    <3>3. Len(l[z]) \in Nat /\ k \in Int /\ p \in Int /\ p <= Len(l[z]) BY <1>1, <1>2
    <3>4. CASE k <= p BY <3>1, <3>2, <3>3, <3>4, <2>1
    <3>5. CASE k = p + 1 BY <3>1, <3>2, <3>3, <3>5, <2>1
    <3>6. CASE k > p + 1 BY <3>1, <3>2, <3>3, <3>6, <2>1, <1>2
    <3> QED BY <3>3, <3>4, <3>5, <3>6
  <2>2. CASE y # z BY <2>2, <1>3
  <2> QED BY <2>1, <2>2
<1>6. ASSUME NEW u \in Zones, NEW y \in Zones, NEW j \in 1 .. Len(m[u]), NEW k \in 1 .. Len(m[y]),
             m[u][j] = m[y][k]
      PROVE  u = y /\ j = k
  <2>1. Len(m[u]) \in Nat /\ Len(m[y]) \in Nat BY <1>4 DEF Lists
  <2>2. j \in Int /\ k \in Int /\ p \in Int BY <2>1, <1>1, <1>2
  <2>3. CASE u = z /\ j = p + 1
    <3>1. m[u][j] = x BY <2>3, <1>5
    <3>2. SUFFICES ASSUME ~(y = z /\ k = p + 1) PROVE FALSE BY <2>3
    <3>3. PICK h \in 1 .. Len(l[y]) : m[y][k] = l[y][h] BY <3>2, <1>5
    <3> QED BY <3>1, <3>3, <1>6
  <2>4. CASE y = z /\ k = p + 1
    <3>1. m[y][k] = x BY <2>4, <1>5
    <3>2. SUFFICES ASSUME ~(u = z /\ j = p + 1) PROVE FALSE BY <2>4
    <3>3. PICK h \in 1 .. Len(l[u]) : m[u][j] = l[u][h] BY <3>2, <1>5
    <3> QED BY <3>1, <3>3, <1>6
  <2>5. CASE ~(u = z /\ j = p + 1) /\ ~(y = z /\ k = p + 1)
    <3>1. PICK h \in 1 .. Len(l[u]) : m[u][j] = l[u][h] /\ h = IF u = z /\ j > p THEN j - 1 ELSE j
      BY <2>5, <1>5
    <3>2. PICK o \in 1 .. Len(l[y]) : m[y][k] = l[y][o] /\ o = IF y = z /\ k > p THEN k - 1 ELSE k
      BY <2>5, <1>5
    <3>3. u = y /\ h = o BY <3>1, <3>2, <1>6 DEF EachOnce
    <3> QED BY <3>1, <3>2, <3>3, <2>2, <2>5
  <2> QED BY <2>3, <2>4, <2>5
<1> QED BY <1>4, <1>6 DEF EachOnce

(* m is what the parent has when the i-th item of s is dropped in z.       *)
Rearranged(m, s, i, z, to) ==
  \A y \in Zones :
    LET rest == IF y = s THEN Drags!Without(told[y], i) ELSE told[y]
    IN m[y] = IF y = z THEN Drags!With(rest, to, told[s][i + 1]) ELSE rest

LEMMA ArrangedOnce ==
  ASSUME told \in Lists, EachOnce(told),
         NEW s \in Zones, NEW i \in Nat, i + 1 \in 1 .. Len(told[s]),
         NEW z \in Zones, NEW to \in Nat, NEW drag, NEW drop,
         drag.zone = s, drag.index = i, drop.zone = z, drop.index = to
  PROVE  /\ Drags!Arrangement(drag, drop) \in Lists /\ EachOnce(Drags!Arrangement(drag, drop))
         /\ Rearranged(Drags!Arrangement(drag, drop), s, i, z, to)
<1> DEFINE rest == [told EXCEPT ![s] = Drags!Without(@, i)]
           x == told[s][i + 1]
           m == [rest EXCEPT ![z] = Drags!With(@, to, x)]
<1>1. Drags!Arrangement(drag, drop) = m BY DEF Drags!Arrangement
<1>2. rest \in Lists /\ EachOnce(rest) /\ \A y \in Zones : \A k \in 1 .. Len(rest[y]) : rest[y][k] # x
  BY OnceWithout
<1>3. x \in Drags!Items BY DEF Lists
<1>4. \A y \in Zones : rest[y] = IF y = s THEN Drags!Without(told[y], i) ELSE told[y]
  BY DEF Lists
<1> HIDE DEF rest, x
<1>5. m \in Lists /\ EachOnce(m) BY <1>2, <1>3, OnceWith
<1>6. \A y \in Zones : m[y] = IF y = z THEN Drags!With(rest[y], to, x) ELSE rest[y]
  BY <1>2 DEF Lists
<1> HIDE DEF m
<1> QED BY <1>1, <1>4, <1>5, <1>6 DEF x, Rearranged

LEMMA ItemsFinite == IsFiniteSet(Drags!Items)
<1> DEFINE Sets == {Drags!ToSet(Start[z]) : z \in Zones}
<1>1. \A z \in Zones : Start[z] \in Seq(Drags!Items) BY ZonesAssumption
<1>2. ASSUME NEW z \in Zones PROVE IsFiniteSet(Drags!ToSet(Start[z]))
  <2> DEFINE n == Len(Start[z])
             f == [i \in 1 .. n |-> Start[z][i]]
  <2>1. n \in Nat /\ DOMAIN Start[z] = 1 .. n BY <1>1
  <2>2. f \in Surjection(1 .. n, Drags!ToSet(Start[z])) BY <2>1 DEF Surjection, Drags!ToSet
  <2>3. IsFiniteSet(1 .. n) BY <2>1, 1 \in Int, n \in Int, FS_Interval
  <2> QED BY <2>2, <2>3, FS_Surjection
<1>3. IsFiniteSet(Sets)
  <2> DEFINE f == [z \in Zones |-> Drags!ToSet(Start[z])]
  <2>1. f \in Surjection(Zones, Sets) BY DEF Surjection
  <2> QED BY <2>1, ZonesAssumption, FS_Surjection
<1>4. \A T \in Sets : IsFiniteSet(T) BY <1>2
<1> HIDE DEF Sets
<1>5. IsFiniteSet(UNION Sets) BY <1>3, <1>4, FS_UNION
<1> QED BY <1>5 DEF Drags!Items, Sets

(* A list in which no item is twice is no longer than there are items.     *)
LEMMA BoundedLists ==
  ASSUME NEW l \in Lists, EachOnce(l), NEW z \in Zones
  PROVE  Cardinality(Drags!Items) \in Nat /\ Len(l[z]) <= Cardinality(Drags!Items)
<1> DEFINE s == l[z]
           n == Len(s)
<1>1. s \in Seq(Drags!Items) /\ n \in Nat BY DEF Lists
<1>2. \A j, k \in 1 .. n : s[j] = s[k] => j = k BY DEF EachOnce
<1> HIDE DEF s, n
<1>3. s \in Injection(1 .. n, Drags!Items) BY <1>1, <1>2 DEF Injection, IsInjective, n
<1>4. Cardinality(1 .. n) = n
  <2>1. 1 \in Int /\ n \in Int BY <1>1
  <2>2. Cardinality(1 .. n) = IF 1 > n THEN 0 ELSE n - 1 + 1 BY <2>1, FS_Interval, Zenon
  <2> QED BY <2>2, <1>1
<1>5. Cardinality(Drags!Items) \in Nat BY ItemsFinite, FS_CardinalityType
<1>6. Cardinality(1 .. n) <= Cardinality(Drags!Items) BY <1>3, ItemsFinite, FS_Injection
<1> QED BY <1>4, <1>5, <1>6 DEF s, n

--------------------------------------------------------------------------------
(* The inductive invariant: what is always so without a controlled parent  *)
Ends == {"up", "down"}
DragStates == {"none", "within zone", "to other zone", "from other zone"}
ZoneType ==
  [children : Seq(Drags!Items), rendered : Seq(Drags!Items), prev : Seq(Drags!Items) \cup {None},
   active : Nat \cup {-1}, dragging : Nat \cup {-1}, placeholder : Nat \cup {-1},
   state : DragStates, counter : Int, back : [Ends -> Zones \cup {None}]]
SessionType ==
  [source : Zones \cup {None}, item : Drags!Items \cup {None}, entered : BOOLEAN,
   inside : Zones \cup {None}, leaving : Zones \cup {None}, accepted : Zones \cup {None},
   done : BOOLEAN]
Dragged == [zone : Zones, index : Nat, item : Drags!Items]
Dropped == [zone : Zones, index : Nat]

DragTypes ==
  /\ mode \in {"skip", "own"}
  /\ zone \in [Zones -> ZoneType] /\ told \in Lists
  /\ payload \in Dragged \cup {None} /\ over \in Dropped \cup {None}
  /\ dropped \in BOOLEAN /\ activeZone \in Zones \cup {None} /\ byMouse \in BOOLEAN
  /\ pointer \in SessionType

(* A zone that is cancelled shows what the parent was told, and no zone    *)
(* goes back to itself.                                                    *)
GoesBackTo(r) == IF r.prev = None THEN r.rendered ELSE r.prev
Kept ==
  /\ EachOnce(told)
  /\ \A z \in Zones : GoesBackTo(zone[z]) = told[z] /\ \A d \in Ends : zone[z].back[d] # z

Clean(r) == r.dragging = -1 /\ r.placeholder = -1 /\ r.state = "none" /\ r.counter = 0
Resting(z) == zone[z].active = -1 /\ zone[z].children = told[z]
Still == \A z \in Zones : Resting(z)

(* Without a drag there is nothing left of one.                            *)
NoDrag ==
  pointer.source = None =>
    /\ pointer = Drags!NoSession /\ over = None /\ ~dropped
    /\ \A z \in Zones : Clean(zone[z])
    /\ byMouse => payload = None /\ Still

(* The item picked with the keyboard is in zone y, where it is active, and *)
(* all else is where the parent has it.                                    *)
Rest(z) == IF z = payload.zone THEN Drags!Without(told[z], payload.index) ELSE told[z]
Carried(y) ==
  /\ ~byMouse /\ payload \in Dragged
  /\ payload.index + 1 \in 1 .. Len(told[payload.zone])
  /\ payload.item = told[payload.zone][payload.index + 1]
  /\ zone[y].active \in 0 .. Len(Rest(y))
  /\ zone[y].children = Drags!With(Rest(y), zone[y].active, payload.item)
  /\ \A z \in Zones : z # y => zone[z].active = -1 /\ zone[z].children = Rest(z)
ByKeys == pointer.source = None => Still \/ \E y \in Zones : Carried(y)

(* While the pointer drags, the zones count how often it is in them, and   *)
(* only those it is in, or has not left yet, are in a state.               *)
Inside(z) == (IF pointer.inside = z THEN 1 ELSE 0) + (IF pointer.leaving = z THEN 1 ELSE 0)
TellsTruth(z) ==
  LET p == zone[z].placeholder IN
  p >= 0 /\ ~(payload.zone = z /\ p \in {payload.index, payload.index + 1}) =>
    over.index = IF payload.zone = z /\ payload.index < p THEN p - 1
                 ELSE IF zone[z].children = <<>> THEN 1 ELSE p
Accepted ==
  pointer.accepted # None =>
    /\ pointer.accepted = pointer.inside /\ pointer.leaving = None
    /\ over \in Dropped /\ over.zone = pointer.accepted /\ TellsTruth(pointer.accepted)
UnderwayIn(z) ==
  /\ zone[z].counter = Inside(z)
  /\ zone[z].placeholder <= Len(zone[z].children)
  /\ Inside(z) = 0 => zone[z].placeholder = -1
  /\ z # pointer.source => zone[z].dragging = -1 /\ (Inside(z) = 0 => zone[z].state = "none")
  /\ z = pointer.source /\ pointer.entered /\ Inside(z) = 0 => zone[z].state = "to other zone"
  /\ z = pointer.source /\ Inside(z) # 0 => zone[z].state = "within zone"
  /\ ~pointer.entered => Inside(z) = 0
Taken ==
  LET s == pointer.source IN
  /\ payload = [zone |-> s, index |-> zone[s].dragging, item |-> pointer.item]
  /\ zone[s].dragging + 1 \in 1 .. Len(told[s]) /\ pointer.item = told[s][zone[s].dragging + 1]
Underway == Taken /\ Still /\ ~dropped /\ Accepted /\ \A z \in Zones : UnderwayIn(z)

(* After a drop, the zone it was dropped in is done; that where it began   *)
(* is so too, or still has what it is to lose.                             *)
LandedWithin ==
  payload = None /\ over = None /\ ~dropped /\ Still /\ \A z \in Zones : Clean(zone[z])
LandedInOther ==
  LET s == pointer.source
      r == zone[s]
  IN /\ dropped /\ payload \in Dragged /\ payload.zone = s /\ over \in Dropped
     /\ r.dragging + 1 \in 1 .. Len(r.children) /\ r.children[r.dragging + 1] = pointer.item
     /\ Drags!Without(r.children, r.dragging) = told[s]
     /\ r.active = -1 /\ r.placeholder = -1 /\ r.counter = 0 /\ r.state = "to other zone"
     /\ \A z \in Zones : z # s => Clean(zone[z]) /\ Resting(z)
ByPointer ==
  pointer.source # None =>
    /\ mode = "skip" /\ byMouse
    /\ IF pointer.done THEN pointer.leaving = None /\ (LandedWithin \/ LandedInOther) ELSE Underway

DragIInv == DragTypes /\ Kept /\ NoDrag /\ ByKeys /\ ByPointer

(* The item that was picked is gone: its position in y stays active, and   *)
(* the zones show what the parent was told.                                *)
Gone(y) ==
  /\ zone[y].active \in 0 .. Len(told[y])
  /\ \A z \in Zones : zone[z].children = told[z] /\ (z # y => zone[z].active = -1)
GoneIInv ==
  /\ DragTypes /\ Kept /\ NoDrag
  /\ pointer.source = None /\ ~byMouse /\ payload \in Dragged /\ \E y \in Zones : Gone(y)
DragsIInv == pickGone \in BOOLEAN /\ IF pickGone THEN GoneIInv ELSE DragIInv

(* None is nothing that is dragged or dropped.                              *)
LEMMA NoneFacts ==
  /\ None \notin Zones /\ None \notin Drags!Items /\ None \notin Seq(Drags!Items)
  /\ None \notin Dragged /\ None \notin Dropped
BY LibraryNoneAssumption, DragNoneAssumption DEF Dragged, Dropped

(* The zones as they are first rendered (getInitialState).                  *)
LEMMA DragsBegin == "controlled" \notin Modes /\ Drags!Init => DragIInv
<1> SUFFICES ASSUME "controlled" \notin Modes, Drags!Init PROVE DragIInv OBVIOUS
<1>1. /\ mode \in Modes /\ zone = [z \in Zones |-> Drags!Fresh(Start[z])] /\ told = Start
      /\ payload = None /\ over = None /\ dropped = FALSE /\ activeZone = None
      /\ pointer = Drags!NoSession /\ byMouse = FALSE
  BY DEF Drags!Init
<1>2. told \in Lists BY <1>1, ZonesAssumption DEF Lists
<1>3. \A z \in Zones : zone[z] \in ZoneType
  BY <1>1, <1>2 DEF Lists, Drags!Fresh, ZoneType, DragStates, Ends, Drags!Back, Drags!Up, Drags!Down,
     Drags!NoState
<1>4. \A z \in Zones :
        /\ zone[z].children = told[z] /\ zone[z].rendered = told[z] /\ zone[z].prev = None
        /\ zone[z].active = -1 /\ Clean(zone[z])
        /\ \A d \in Ends : zone[z].back[d] = None
  BY <1>1 DEF Drags!Fresh, Clean, Drags!Back, Drags!Up, Drags!Down, Ends, Drags!NoState
<1>5. pointer \in SessionType /\ pointer.source = None BY <1>1 DEF SessionType, Drags!NoSession
<1>6. DragTypes
  <2>1. mode \in {"skip", "own"} BY <1>1, ModesAssumption
  <2>2. zone \in [Zones -> ZoneType] BY <1>1, <1>3
  <2> QED BY <2>1, <2>2, <1>1, <1>2, <1>5 DEF DragTypes
<1>7. EachOnce(told)
  <2>1. \A z \in Zones : DOMAIN Start[z] = 1 .. Len(Start[z]) BY ZonesAssumption
  <2> QED BY <2>1, <1>1, ZonesAssumption DEF EachOnce
<1>8. Kept BY <1>4, <1>7, NoneFacts DEF Kept, GoesBackTo
<1>9. Still BY <1>4 DEF Still, Resting
<1>10. NoDrag BY <1>1, <1>4 DEF NoDrag
<1> QED BY <1>5, <1>6, <1>8, <1>9, <1>10 DEF DragIInv, ByKeys, ByPointer

(* What TypeOK says of the numbers of a zone.                              *)
Numbers(z) ==
  LET n == Cardinality(Drags!Items) IN
  /\ zone[z].active \in -1 .. n /\ zone[z].dragging \in -1 .. n /\ zone[z].placeholder \in -1 .. n
  /\ zone[z].counter \in 0 .. 2

LEMMA NumbersBounded == ASSUME DragIInv, NEW z \in Zones PROVE Numbers(z)
<1> DEFINE n == Cardinality(Drags!Items)
<1>1. n \in Nat /\ Len(told[z]) <= n BY BoundedLists DEF DragIInv, DragTypes, Kept
<1>2. /\ zone[z] \in ZoneType /\ pointer \in SessionType /\ told \in Lists
      /\ told[z] \in Seq(Drags!Items) /\ Len(told[z]) \in Nat
  BY DEF DragIInv, DragTypes, Lists
<1>3. /\ zone[z].active \in Nat \cup {-1} /\ zone[z].dragging \in Nat \cup {-1}
      /\ zone[z].placeholder \in Nat \cup {-1}
  BY <1>2 DEF ZoneType
<1> HIDE DEF n
<1>4. CASE pointer.source = None
  <2>1. zone[z].dragging = -1 /\ zone[z].placeholder = -1 /\ zone[z].counter = 0
    BY <1>4 DEF DragIInv, NoDrag, Clean
  <2>2. CASE Still BY <2>1, <2>2, <1>1 DEF Still, Resting, Numbers, n
  <2>3. ASSUME NEW y \in Zones, Carried(y) PROVE zone[z].active \in -1 .. n
    <3>1. CASE z # y BY <3>1, <2>3, <1>1 DEF Carried
    <3>2. CASE z = y
      <4>1. zone[z].active \in 0 .. Len(Rest(z)) BY <3>2, <2>3 DEF Carried
      <4>2. CASE z = payload.zone
        <5>1. payload.index \in Nat /\ payload.index + 1 \in 1 .. Len(told[z])
          BY <4>2, <2>3 DEF Carried, Dragged
        <5>2. Len(Rest(z)) = Len(told[z]) - 1
          BY <5>1, <4>2, <1>2, WithoutFacts DEF Rest, Narrowed
        <5> QED BY <5>2, <4>1, <1>1, <1>2
      <4>3. CASE z # payload.zone BY <4>1, <4>3, <1>1, <1>2 DEF Rest
      <4> QED BY <4>2, <4>3
    <3> QED BY <3>1, <3>2
  <2>4. zone[z].active \in -1 .. n
    BY <2>2, <2>3, <1>1, <1>4 DEF DragIInv, ByKeys, Still, Resting
  <2> QED BY <2>1, <2>4, <1>1 DEF Numbers, n
<1>5. CASE pointer.source # None
  <2>1. pointer.source \in Zones BY <1>2, <1>5 DEF SessionType
  <2>2. CASE Underway
    <3>1. Resting(z) /\ UnderwayIn(z) BY <2>2 DEF Underway, Still
    <3>0. /\ zone[z].counter = Inside(z) /\ zone[z].placeholder <= Len(zone[z].children)
          /\ z # pointer.source => zone[z].dragging = -1
      BY <3>1, Zenon DEF UnderwayIn
    <3>2. zone[z].dragging \in -1 .. n
      <4>1. CASE z = pointer.source
        <5>1. zone[z].dragging + 1 \in 1 .. Len(told[z]) BY <4>1, <2>2 DEF Underway, Taken
        <5> QED BY <5>1, <1>1, <1>2, <1>3
      <4>2. CASE z # pointer.source BY <4>2, <3>0, <1>1
      <4> QED BY <4>1, <4>2
    <3>3. zone[z].counter \in 0 .. 2 BY <3>0 DEF Inside
    <3>4. zone[z].placeholder \in -1 .. n BY <3>0, <3>1, <1>1, <1>2, <1>3 DEF Resting
    <3> QED BY <3>1, <3>2, <3>3, <3>4, <1>1 DEF Resting, Numbers, n
  <2>3. CASE LandedWithin
    BY <2>3, <1>1 DEF LandedWithin, Still, Resting, Clean, Numbers, n
  <2>4. CASE LandedInOther
    <3>1. CASE z # pointer.source
      <4>1. Clean(zone[z]) /\ Resting(z) BY <3>1, <2>4, Zenon DEF LandedInOther
      <4> QED BY <4>1, <1>1 DEF Clean, Resting, Numbers, n
    <3>2. CASE z = pointer.source
      <4> DEFINE c == zone[z].children
                 i == zone[z].dragging
      <4>1. i + 1 \in 1 .. Len(c) /\ Drags!Without(c, i) = told[z] BY <3>2, <2>4 DEF LandedInOther
      <4>2. c \in Seq(Drags!Items) /\ Len(c) \in Nat BY <1>2 DEF ZoneType
      <4>3. i \in Nat BY <4>1, <4>2, <1>3
      <4> HIDE DEF c
      <4>4. Len(told[z]) = Len(c) - 1 BY <4>1, <4>2, <4>3, WithoutFacts DEF Narrowed
      <4>5. i \in -1 .. n BY <4>1, <4>2, <4>3, <4>4, <1>1, <1>2
      <4>6. zone[z].active = -1 /\ zone[z].placeholder = -1 /\ zone[z].counter = 0
        BY <3>2, <2>4 DEF LandedInOther
      <4> QED BY <4>5, <4>6, <1>1 DEF Numbers, n
    <3> QED BY <3>1, <3>2
  <2> QED BY <2>2, <2>3, <2>4, <1>5 DEF DragIInv, ByPointer
<1> QED BY <1>4, <1>5

LEMMA GoneNumbers == ASSUME GoneIInv, NEW z \in Zones PROVE Numbers(z)
<1> DEFINE n == Cardinality(Drags!Items)
<1>1. told \in Lists /\ EachOnce(told) BY DEF GoneIInv, DragTypes, Kept
<1>2. n \in Nat /\ \A y \in Zones : Len(told[y]) <= n BY <1>1, BoundedLists
<1>3. \A y \in Zones : Len(told[y]) \in Nat BY <1>1 DEF Lists
<1> HIDE DEF n
<1>4. zone[z].dragging = -1 /\ zone[z].placeholder = -1 /\ zone[z].counter = 0
  BY DEF GoneIInv, NoDrag, Clean
<1>5. PICK y \in Zones : Gone(y) BY DEF GoneIInv
<1>6. zone[z].active \in -1 .. n
  <2>1. CASE z = y BY <2>1, <1>2, <1>3, <1>5 DEF Gone
  <2>2. CASE z # y BY <2>2, <1>2, <1>5 DEF Gone
  <2> QED BY <2>1, <2>2
<1> QED BY <1>2, <1>4, <1>6 DEF Numbers, n

LEMMA DragsAreTyped == DragsIInv => Drags!TypeOK
<1> SUFFICES ASSUME DragsIInv PROVE Drags!TypeOK OBVIOUS
<1>1. DragTypes /\ pickGone \in BOOLEAN BY DEF DragsIInv, GoneIInv, DragIInv
<1>2. ASSUME NEW z \in Zones
      PROVE  /\ zone[z].children \in Seq(Drags!Items) /\ told[z] \in Seq(Drags!Items)
             /\ zone[z].state \in DragStates
  BY <1>1 DEF DragTypes, ZoneType, Lists
<1>3. payload = None \/ (payload.zone \in Zones /\ payload.item \in Drags!Items)
  BY <1>1 DEF DragTypes, Dragged
<1>4. over = None \/ over.zone \in Zones BY <1>1 DEF DragTypes, Dropped
<1>5. activeZone \in Zones \cup {None} /\ dropped \in BOOLEAN BY <1>1 DEF DragTypes
<1>6. \A z \in Zones : Numbers(z) BY NumbersBounded, GoneNumbers DEF DragsIInv
<1>7. Drags!Cardinality(Drags!Items) = Cardinality(Drags!Items) BY DEF Drags!Cardinality, Cardinality
<1> QED BY <1>1, <1>2, <1>3, <1>4, <1>5, <1>6, <1>7, Zenon
        DEF Drags!TypeOK, Numbers, DragStates, Drags!NoState

LEMMA ParentStaysAgreed == DragsIInv => Drags!ParentAgrees
<1> SUFFICES ASSUME DragsIInv, Drags!Idle \/ pickGone, NEW z \in Zones
             PROVE  zone[z].children = told[z]
  BY DEF Drags!ParentAgrees
<1>0. CASE pickGone BY <1>0 DEF DragsIInv, GoneIInv, Gone
<1> SUFFICES ASSUME DragIInv, Drags!Idle PROVE zone[z].children = told[z] BY <1>0 DEF DragsIInv
<1>1. pointer.source = None /\ \A y \in Zones : ~(zone[y].active >= 0)
  BY DEF Drags!Idle, Drags!Dragging, Drags!Picked
<1>2. \A y \in Zones : ~Carried(y)
  <2> SUFFICES ASSUME NEW y \in Zones, Carried(y) PROVE FALSE OBVIOUS
  <2>1. zone[y].active \in 0 .. Len(Rest(y)) BY DEF Carried
  <2> QED BY <2>1, <1>1
<1> QED BY <1>1, <1>2 DEF DragIInv, ByKeys, Still, Resting

LEMMA PlaceholderStaysTrue == DragsIInv => Drags!PlaceholderTellsTruth
<1> SUFFICES ASSUME DragsIInv, NEW z \in Zones, Drags!Moving, pointer.accepted = z, Drags!Shown(z)
             PROVE  LET p == zone[z].placeholder IN
                    over.index = (IF payload.zone = z /\ payload.index < p THEN p - 1
                                  ELSE IF zone[z].children = <<>> THEN 1 ELSE p)
  BY DEF Drags!PlaceholderTellsTruth
<1>1. pointer.source # None /\ ~pointer.done BY DEF Drags!Moving, Drags!Dragging
<1>2. Underway BY <1>1 DEF DragsIInv, GoneIInv, DragIInv, ByPointer
<1>3. TellsTruth(z) BY <1>2, NoneFacts DEF Underway, Accepted
<1> QED BY <1>3 DEF TellsTruth, Drags!Shown

LEMMA StateStaysCleared == DragsIInv => Drags!StateCleared
<1> SUFFICES ASSUME DragsIInv, Drags!Idle, byMouse
             PROVE  /\ payload = None /\ over = None /\ ~dropped
                    /\ \A z \in Zones : zone[z].dragging = -1 /\ zone[z].placeholder = -1
                                        /\ zone[z].state = Drags!NoState
  BY DEF Drags!StateCleared
<1>1. pointer.source = None BY DEF Drags!Idle, Drags!Dragging
<1> QED BY <1>1 DEF DragsIInv, GoneIInv, DragIInv, NoDrag, Clean, Drags!NoState

--------------------------------------------------------------------------------
(* The mouse                                                               *)

(* While the pointer moves, nothing but its session, the states of zones   *)
(* and the place to drop at changes.                                       *)
SameGround ==
  /\ mode' = mode /\ told' = told /\ byMouse' = byMouse /\ dropped' = dropped
  /\ zone' \in [Zones -> ZoneType]
  /\ \A z \in Zones :
       /\ zone'[z].children = zone[z].children /\ zone'[z].active = zone[z].active
       /\ zone'[z].rendered = zone[z].rendered /\ zone'[z].prev = zone[z].prev
       /\ zone'[z].back = zone[z].back

LEMMA GroundKept == ASSUME DragIInv, SameGround PROVE Kept' /\ (Still => Still')
<1>1. Kept' BY DEF DragIInv, SameGround, Kept, GoesBackTo
<1>2. Still => Still' BY DEF SameGround, Still, Resting
<1> QED BY <1>1, <1>2

LEMMA ZoneFields ==
  ASSUME NEW r \in ZoneType
  PROVE  /\ r.children \in Seq(Drags!Items) /\ r.rendered \in Seq(Drags!Items)
         /\ r.prev \in Seq(Drags!Items) \cup {None}
         /\ r.active \in Nat \cup {-1} /\ r.dragging \in Nat \cup {-1}
         /\ r.placeholder \in Nat \cup {-1} /\ r.state \in DragStates /\ r.counter \in Int
         /\ r.back \in [Ends -> Zones \cup {None}]
BY DEF ZoneType

LEMMA StatesOf ==
  ASSUME NEW z \in Zones, NEW drag \in Dragged, NEW active
  PROVE  /\ Drags!GetDragAndDropState(z, drag, active) \in DragStates
         /\ drag.zone = z /\ active = z => Drags!GetDragAndDropState(z, drag, active) = "within zone"
         /\ drag.zone = z /\ active # z => Drags!GetDragAndDropState(z, drag, active) = "to other zone"
         /\ drag.zone # z /\ active # z => Drags!GetDragAndDropState(z, drag, active) = "none"
BY NoneFacts DEF Drags!GetDragAndDropState, DragStates, Drags!NoState

LEMMA StillAtFirst ==
  ASSUME DragIInv, Drags!Idle
  PROVE  /\ pointer.source = None /\ pointer = Drags!NoSession /\ over = None /\ ~dropped
         /\ Still /\ \A z \in Zones : Clean(zone[z])
<1>1. pointer.source = None BY DEF Drags!Idle, Drags!Dragging
<1>2. Still
  <2>1. \A z \in Zones : ~(zone[z].active >= 0) BY DEF Drags!Idle, Drags!Picked
  <2>2. \A y \in Zones : ~Carried(y)
    <3> SUFFICES ASSUME NEW y \in Zones, Carried(y) PROVE FALSE OBVIOUS
    <3>1. zone[y].active \in 0 .. Len(Rest(y)) BY DEF Carried
    <3> QED BY <3>1, <2>1
  <2> QED BY <1>1, <2>2 DEF DragIInv, ByKeys
<1> QED BY <1>1, <1>2 DEF DragIInv, NoDrag

LEMMA DragStartKeeps ==
  ASSUME DragIInv, NEW z \in Zones, NEW i \in Drags!Positions(z), Drags!OnDragStart(z, i)
  PROVE  DragIInv'
<1> DEFINE drag == [zone |-> z, index |-> i, item |-> zone[z].children[i + 1]]
<1>1. DragTypes /\ Kept BY DEF DragIInv
<1>2. Drags!Idle /\ byMouse' = TRUE BY DEF Drags!OnDragStart, Drags!Begins
<1>3. mode = "skip" BY <1>1 DEF Drags!OnDragStart, DragTypes
<1>4. /\ pointer.source = None /\ over = None /\ ~dropped
      /\ Still /\ \A y \in Zones : Clean(zone[y])
  BY <1>2, StillAtFirst
<1>5. zone[z] \in ZoneType /\ zone[z].children = told[z] /\ told[z] \in Seq(Drags!Items)
  BY <1>1, <1>4 DEF DragTypes, Still, Resting, Lists
<1>6. i \in Nat /\ i + 1 \in 1 .. Len(told[z]) BY <1>5 DEF Drags!Positions
<1>7. told[z][i + 1] \in Drags!Items BY <1>5, <1>6
<1>8. drag \in Dragged /\ drag # None BY <1>5, <1>6, <1>7, NoneFacts DEF Dragged
<1>9. /\ payload' = drag /\ activeZone' = z
      /\ zone' = [zone EXCEPT ![z].dragging = i,
                              ![z].state = Drags!GetDragAndDropState(z, drag, z)]
      /\ pointer' = [Drags!NoSession EXCEPT !.source = z, !.item = drag.item]
      /\ mode' = mode /\ told' = told /\ over' = over /\ dropped' = dropped
  BY DEF Drags!OnDragStart
<1>10. /\ pointer' \in SessionType /\ pointer'.source = z /\ pointer'.item = told[z][i + 1]
       /\ ~pointer'.entered /\ pointer'.inside = None /\ pointer'.leaving = None
       /\ pointer'.accepted = None /\ ~pointer'.done
  BY <1>5, <1>7, <1>9 DEF SessionType, Drags!NoSession
<1>11. Drags!GetDragAndDropState(z, drag, z) \in DragStates BY <1>8, StatesOf
<1> DEFINE st == Drags!GetDragAndDropState(z, drag, z)
           r == [zone[z] EXCEPT !.dragging = i, !.state = st]
<1> HIDE DEF st
<1>12. r \in ZoneType BY <1>5, <1>6, <1>11 DEF ZoneType, st
<1>13. /\ r.children = zone[z].children /\ r.active = zone[z].active /\ r.rendered = zone[z].rendered
       /\ r.prev = zone[z].prev /\ r.back = zone[z].back /\ r.dragging = i
       /\ r.placeholder = zone[z].placeholder /\ r.counter = zone[z].counter
  BY <1>5 DEF ZoneType
<1> HIDE DEF r
<1>14. zone' \in [Zones -> ZoneType] /\ zone'[z] = r /\ \A y \in Zones : y # z => zone'[y] = zone[y]
  BY <1>1, <1>9, <1>12 DEF DragTypes, r, st
<1> HIDE DEF drag
<1>15. /\ Kept' /\ Still'
  <2>1. Kept' BY <1>1, <1>9, <1>13, <1>14 DEF Kept, GoesBackTo
  <2>2. Still' BY <1>4, <1>9, <1>13, <1>14 DEF Still, Resting
  <2> QED BY <2>1, <2>2
<1>16. DragTypes'
  BY <1>1, <1>2, <1>8, <1>9, <1>10, <1>14 DEF DragTypes
<1>17. Taken' BY <1>5, <1>6, <1>9, <1>10, <1>13, <1>14 DEF Taken, drag
<1>18. \A y \in Zones : UnderwayIn(y)'
  <2> TAKE y \in Zones
  <2>1. Inside(y)' = 0 BY <1>10, NoneFacts DEF Inside
  <2>2. /\ zone'[y].counter = 0 /\ zone'[y].placeholder = -1
        /\ y # z => zone'[y].dragging = -1 /\ zone'[y].state = "none"
    BY <1>4, <1>13, <1>14 DEF Clean
  <2>3. Len(zone'[y].children) \in Nat BY <1>14 DEF ZoneType
  <2>4. zone'[y].placeholder <= Len(zone'[y].children) BY <2>2, <2>3
  <2> QED BY <2>1, <2>2, <2>4, <1>10, Zenon DEF UnderwayIn
<1>19. Underway' BY <1>4, <1>9, <1>10, <1>15, <1>17, <1>18 DEF Underway, Accepted
<1>20. pointer'.source # None BY <1>10, NoneFacts
<1> QED BY <1>2, <1>3, <1>9, <1>10, <1>15, <1>16, <1>19, <1>20
        DEF DragIInv, NoDrag, ByKeys, ByPointer

LEMMA MovingIsUnderway ==
  ASSUME DragIInv, pointer.source # None, ~pointer.done
  PROVE  /\ Underway /\ mode = "skip" /\ byMouse /\ pointer.source \in Zones
         /\ payload \in Dragged /\ payload.zone = pointer.source
<1>1. Underway /\ mode = "skip" /\ byMouse BY DEF DragIInv, ByPointer
<1>2. pointer.source \in Zones BY DEF DragIInv, DragTypes, SessionType
<1>3. payload = [zone |-> pointer.source, index |-> zone[pointer.source].dragging,
                 item |-> pointer.item]
  BY <1>1 DEF Underway, Taken
<1>4. payload.zone = pointer.source BY <1>3
<1>5. payload # None
  <2>1. zone[pointer.source] \in ZoneType /\ told[pointer.source] \in Seq(Drags!Items)
    BY <1>2 DEF DragIInv, DragTypes, Lists
  <2>2. zone[pointer.source].dragging + 1 \in 1 .. Len(told[pointer.source])
        /\ pointer.item = told[pointer.source][zone[pointer.source].dragging + 1]
    BY <1>1, Zenon DEF Underway, Taken
  <2>3. zone[pointer.source].dragging \in Nat BY <2>1, <2>2, ZoneFields
  <2>4. pointer.item \in Drags!Items BY <2>1, <2>2
  <2>5. payload \in Dragged BY <1>2, <1>3, <2>3, <2>4 DEF Dragged
  <2> QED BY <2>5, NoneFacts
<1>6. payload \in Dragged BY <1>5 DEF DragIInv, DragTypes
<1> QED BY <1>1, <1>2, <1>4, <1>6

(* A drag that goes on.                                                    *)
LEMMA StillUnderway ==
  ASSUME DragIInv, pointer.source # None, ~pointer.done, SameGround, payload' = payload,
         over' \in Dropped \cup {None}, activeZone' \in Zones \cup {None},
         pointer' \in SessionType, pointer'.source = pointer.source, pointer'.item = pointer.item,
         ~pointer'.done,
         \A y \in Zones : zone'[y].dragging = zone[y].dragging /\ UnderwayIn(y)',
         Accepted'
  PROVE  DragIInv'
<1>1. /\ Underway /\ mode = "skip" /\ byMouse /\ pointer.source \in Zones
  BY MovingIsUnderway, Zenon
<1>2. DragTypes' BY DEF DragIInv, DragTypes, SameGround
<1>3. Kept' /\ Still' BY <1>1, GroundKept DEF Underway
<1>4. Taken'
  <2>1. payload' = [zone |-> pointer'.source, index |-> zone'[pointer'.source].dragging,
                    item |-> pointer'.item]
    BY <1>1, Zenon DEF Underway, Taken
  <2>2. /\ zone'[pointer'.source].dragging + 1 \in 1 .. Len(told'[pointer'.source])
        /\ pointer'.item = told'[pointer'.source][zone'[pointer'.source].dragging + 1]
    BY <1>1, Zenon DEF Underway, Taken, SameGround
  <2> QED BY <2>1, <2>2, Zenon DEF Taken
<1>5. ~dropped' /\ mode' = "skip" /\ byMouse' BY <1>1, Zenon DEF Underway, SameGround
<1>6. Underway' BY <1>3, <1>4, <1>5, Zenon DEF Underway
<1>7. pointer'.source # None OBVIOUS
<1> QED BY <1>2, <1>3, <1>5, <1>6, <1>7, Zenon DEF DragIInv, NoDrag, ByKeys, ByPointer

LEMMA DragEnterKeeps ==
  ASSUME DragIInv, NEW z \in Zones, Drags!OnDragEnter(z)
  PROVE  DragIInv'
<1> DEFINE st == Drags!GetDragAndDropState(z, payload, z)
           r == [zone[z] EXCEPT !.counter = @ + 1, !.state = st]
<1>1. DragTypes BY DEF DragIInv
<1>2. /\ pointer.source # None /\ ~pointer.done /\ pointer.leaving = None
      /\ (pointer.entered \/ z = pointer.source)
  BY DEF Drags!OnDragEnter, Drags!Moving, Drags!Dragging
<1>3. /\ Underway /\ pointer.source \in Zones /\ payload \in Dragged /\ payload.zone = pointer.source
  BY <1>2, MovingIsUnderway
<1>4. /\ pointer' = [pointer EXCEPT !.entered = TRUE, !.inside = z, !.leaving = pointer.inside,
                                    !.accepted = None]
      /\ activeZone' = z /\ zone' = [zone EXCEPT ![z].counter = @ + 1, ![z].state = st]
      /\ mode' = mode /\ told' = told /\ payload' = payload /\ over' = over /\ dropped' = dropped
      /\ byMouse' = byMouse
  BY DEF Drags!OnDragEnter
<1>5. st \in DragStates /\ (z = pointer.source => st = "within zone")
  <2>1. st \in DragStates /\ (payload.zone = z /\ z = z => st = "within zone")
    BY <1>3, StatesOf, Zenon
  <2> QED BY <2>1, <1>3
<1> HIDE DEF st
<1>6. zone[z] \in ZoneType /\ pointer \in SessionType BY <1>1 DEF DragTypes
<1>7. r \in ZoneType
  <2> DEFINE c == zone[z].counter + 1
  <2>1. c \in Int BY <1>6, ZoneFields
  <2>2. r = [zone[z] EXCEPT !.counter = c, !.state = st] BY <1>6 DEF ZoneType
  <2> HIDE DEF c, r
  <2>3. [zone[z] EXCEPT !.counter = c, !.state = st] \in ZoneType BY <2>1, <1>5, <1>6 DEF ZoneType
  <2> QED BY <2>2, <2>3
<1>8. /\ r.children = zone[z].children /\ r.active = zone[z].active /\ r.rendered = zone[z].rendered
      /\ r.prev = zone[z].prev /\ r.back = zone[z].back /\ r.dragging = zone[z].dragging
      /\ r.placeholder = zone[z].placeholder /\ r.counter = zone[z].counter + 1 /\ r.state = st
  BY <1>6 DEF ZoneType
<1> HIDE DEF r
<1>9. zone' \in [Zones -> ZoneType] /\ zone'[z] = r /\ \A y \in Zones : y # z => zone'[y] = zone[y]
  BY <1>1, <1>4, <1>7 DEF DragTypes, r
<1>10. /\ pointer' \in SessionType /\ pointer'.source = pointer.source
       /\ pointer'.item = pointer.item /\ pointer'.entered /\ pointer'.inside = z
       /\ pointer'.leaving = pointer.inside /\ pointer'.accepted = None /\ ~pointer'.done
  BY <1>2, <1>4, <1>6 DEF SessionType
<1>11. SameGround BY <1>4, <1>8, <1>9 DEF SameGround
<1>12. ASSUME NEW y \in Zones PROVE zone'[y].dragging = zone[y].dragging /\ UnderwayIn(y)'
  <2>1. UnderwayIn(y) BY <1>3 DEF Underway
  <2>2. Inside(y) = (IF pointer.inside = y THEN 1 ELSE 0)
        /\ Inside(y)' = (IF y = z THEN 1 ELSE 0) + (IF pointer.inside = y THEN 1 ELSE 0)
    BY <1>2, <1>10, NoneFacts DEF Inside
  <2>3. zone'[y].dragging = zone[y].dragging /\ zone'[y].placeholder = zone[y].placeholder
        /\ zone'[y].children = zone[y].children
    BY <1>8, <1>9
  <2>4. zone'[y].counter = Inside(y)'
    <3>1. zone[y].counter = Inside(y) BY <2>1, Zenon DEF UnderwayIn
    <3> QED BY <3>1, <2>2, <1>8, <1>9
  <2>5. y = z => ~(Inside(y)' = 0) BY <2>2
  <2>6. y # z => (Inside(y)' = 0 <=> Inside(y) = 0) BY <2>2
  <2>7. /\ y # z => zone'[y].state = zone[y].state
        /\ y = z /\ y = pointer.source => zone'[y].state = "within zone"
    BY <1>5, <1>8, <1>9
  <2> QED BY <2>1, <2>3, <2>4, <2>5, <2>6, <2>7, <1>2, <1>10, Zenon DEF UnderwayIn
<1>13. Accepted' BY <1>10 DEF Accepted
<1>14. over' \in Dropped \cup {None} BY <1>1, <1>4 DEF DragTypes
<1> QED BY <1>2, <1>4, <1>10, <1>11, <1>12, <1>13, <1>14, StillUnderway

LEMMA OutsideKeeps == ASSUME DragIInv, Drags!MovesOutside PROVE DragIInv'
<1>1. DragTypes BY DEF DragIInv
<1>2. /\ pointer.source # None /\ ~pointer.done /\ pointer.leaving = None
      /\ pointer' = [pointer EXCEPT !.inside = None, !.leaving = pointer.inside, !.accepted = None]
      /\ mode' = mode /\ told' = told /\ payload' = payload /\ over' = over /\ dropped' = dropped
      /\ byMouse' = byMouse /\ activeZone' = activeZone /\ zone' = zone
  BY DEF Drags!MovesOutside, Drags!Moving, Drags!Dragging, Drags!store
<1>3. Underway BY <1>2, MovingIsUnderway
<1>4. pointer \in SessionType BY <1>1 DEF DragTypes
<1>5. /\ pointer' \in SessionType /\ pointer'.source = pointer.source
      /\ pointer'.item = pointer.item /\ pointer'.entered = pointer.entered /\ pointer'.inside = None
      /\ pointer'.leaving = pointer.inside /\ pointer'.accepted = None /\ ~pointer'.done
  BY <1>2, <1>4 DEF SessionType
<1>6. SameGround BY <1>1, <1>2 DEF SameGround, DragTypes
<1>7. ASSUME NEW y \in Zones PROVE zone'[y].dragging = zone[y].dragging /\ UnderwayIn(y)'
  <2>1. UnderwayIn(y) BY <1>3 DEF Underway
  <2>2. Inside(y)' = Inside(y) BY <1>2, <1>5, NoneFacts DEF Inside
  <2> QED BY <2>1, <2>2, <1>2, <1>5, Zenon DEF UnderwayIn
<1>8. Accepted' BY <1>5 DEF Accepted
<1>9. over' \in Dropped \cup {None} /\ activeZone' \in Zones \cup {None} BY <1>1, <1>2 DEF DragTypes
<1> QED BY <1>2, <1>5, <1>6, <1>7, <1>8, <1>9, StillUnderway

LEMMA DragLeaveKeeps == ASSUME DragIInv, Drags!OnDragLeave PROVE DragIInv'
<1> DEFINE z == pointer.leaving
           left == zone[z].counter = 1
           st == Drags!GetDragAndDropState(z, payload, None)
           r == [zone[z] EXCEPT !.counter = @ - 1, !.placeholder = IF left THEN -1 ELSE @,
                                !.state = IF left THEN st ELSE @]
<1>1. DragTypes /\ pointer \in SessionType BY DEF DragIInv, DragTypes
<1>2. /\ z # None /\ activeZone' = (IF left THEN None ELSE activeZone)
      /\ zone' = [zone EXCEPT ![z].counter = @ - 1, ![z].placeholder = IF left THEN -1 ELSE @,
                              ![z].state = IF left THEN st ELSE @]
      /\ pointer' = [pointer EXCEPT !.leaving = None]
      /\ mode' = mode /\ told' = told /\ payload' = payload /\ over' = over /\ dropped' = dropped
      /\ byMouse' = byMouse
  BY DEF Drags!OnDragLeave
<1>3. z \in Zones BY <1>1, <1>2 DEF SessionType
<1>4. pointer.source # None /\ ~pointer.done
  <2>1. pointer.source # None BY <1>2 DEF DragIInv, NoDrag, Drags!NoSession
  <2>2. pointer.done => z = None BY <2>1 DEF DragIInv, ByPointer
  <2> QED BY <2>1, <2>2, <1>2
<1>5. Underway /\ payload \in Dragged /\ payload.zone = pointer.source BY <1>4, MovingIsUnderway
<1>6. /\ st \in DragStates
      /\ z = pointer.source => st = "to other zone"
      /\ z # pointer.source => st = "none"
  <2>1. None # z BY <1>3, NoneFacts
  <2>2. /\ st \in DragStates
        /\ payload.zone = z /\ None # z => st = "to other zone"
        /\ payload.zone # z /\ None # z => st = "none"
    BY <1>3, <1>5, StatesOf, Zenon
  <2> QED BY <2>1, <2>2, <1>5, Zenon
<1> HIDE DEF st
<1>7. zone[z] \in ZoneType BY <1>1, <1>3 DEF DragTypes
<1>8. r \in ZoneType
  <2> DEFINE c == zone[z].counter - 1
             p == IF left THEN -1 ELSE zone[z].placeholder
             t == IF left THEN st ELSE zone[z].state
  <2>0. /\ zone[z].counter \in Int /\ zone[z].placeholder \in Nat \cup {-1}
        /\ zone[z].state \in DragStates
    BY <1>7, ZoneFields, Zenon
  <2>1. c \in Int /\ p \in Nat \cup {-1} BY <2>0
  <2>4. t \in DragStates BY <1>6, <2>0, Zenon
  <2>2. r = [zone[z] EXCEPT !.counter = c, !.placeholder = p, !.state = t] BY <1>7 DEF ZoneType
  <2> HIDE DEF c, p, t, r
  <2>3. [zone[z] EXCEPT !.counter = c, !.placeholder = p, !.state = t] \in ZoneType
    BY <2>1, <2>4, <1>7 DEF ZoneType
  <2> QED BY <2>2, <2>3
<1>9. /\ r.children = zone[z].children /\ r.active = zone[z].active /\ r.rendered = zone[z].rendered
      /\ r.prev = zone[z].prev /\ r.back = zone[z].back /\ r.dragging = zone[z].dragging
      /\ r.placeholder = (IF left THEN -1 ELSE zone[z].placeholder)
      /\ r.state = (IF left THEN st ELSE zone[z].state) /\ r.counter = zone[z].counter - 1
  BY <1>7 DEF ZoneType
<1> HIDE DEF r
<1>10. zone' \in [Zones -> ZoneType] /\ zone'[z] = r /\ \A y \in Zones : y # z => zone'[y] = zone[y]
  BY <1>1, <1>2, <1>3, <1>8 DEF DragTypes, r
<1>11. /\ pointer' \in SessionType /\ pointer'.source = pointer.source
       /\ pointer'.item = pointer.item /\ pointer'.entered = pointer.entered
       /\ pointer'.inside = pointer.inside /\ pointer'.leaving = None
       /\ pointer'.accepted = pointer.accepted /\ ~pointer'.done
  BY <1>1, <1>2, <1>4 DEF SessionType
<1>12. SameGround BY <1>2, <1>9, <1>10 DEF SameGround
<1>13. ASSUME NEW y \in Zones PROVE zone'[y].dragging = zone[y].dragging /\ UnderwayIn(y)'
  <2>1. UnderwayIn(y) /\ zone[y].counter = Inside(y) BY <1>5 DEF Underway, UnderwayIn
  <2>2. CASE y # z
    <3>1. Inside(y)' = Inside(y) BY <2>2, <1>3, <1>11, NoneFacts DEF Inside
    <3> QED BY <3>1, <2>1, <2>2, <1>10, <1>11, Zenon DEF UnderwayIn
  <2>3. CASE y = z
    <3>1. Inside(y) = (IF pointer.inside = y THEN 1 ELSE 0) + 1
          /\ Inside(y)' = (IF pointer.inside = y THEN 1 ELSE 0)
      BY <2>3, <1>3, <1>11, NoneFacts DEF Inside
    <3>2. left <=> Inside(y)' = 0 BY <3>1, <2>1, <2>3
    <3>3. zone'[y].counter = Inside(y)' BY <3>1, <2>1, <2>3, <1>9, <1>10
    <3>4. zone'[y].placeholder = (IF left THEN -1 ELSE zone[y].placeholder)
          /\ zone'[y].state = (IF left THEN st ELSE zone[y].state)
          /\ zone'[y].dragging = zone[y].dragging /\ zone'[y].children = zone[y].children
      BY <2>3, <1>9, <1>10
    <3>5. zone'[y].placeholder <= Len(zone'[y].children)
      <4>1. Len(zone'[y].children) \in Nat /\ -1 <= Len(zone'[y].children) BY <1>10 DEF ZoneType
      <4>2. zone[y].placeholder <= Len(zone[y].children) BY <2>1, Zenon DEF UnderwayIn
      <4> QED BY <4>1, <4>2, <3>4
    <3>6. Inside(y) # 0 BY <3>1
    <3>7. pointer.entered BY <3>6, <2>1, Zenon DEF UnderwayIn
    <3> HIDE DEF left, z
    <3> QED BY <3>2, <3>3, <3>4, <3>5, <3>6, <3>7, <2>1, <2>3, <1>6, <1>11, Zenon DEF UnderwayIn
  <2> QED BY <2>2, <2>3
<1>14. Accepted'
  <2>1. pointer'.accepted = None BY <1>2, <1>5, <1>11 DEF Underway, Accepted
  <2> QED BY <2>1 DEF Accepted
<1>15. over' \in Dropped \cup {None} /\ activeZone' \in Zones \cup {None} BY <1>1, <1>2 DEF DragTypes
<1> QED BY <1>2, <1>4, <1>11, <1>12, <1>13, <1>14, <1>15, StillUnderway

(* Where the pointer is, in whole numbers.                                 *)
LEMMA HoveredFacts ==
  ASSUME NEW z \in Zones, zone[z] \in ZoneType,
         zone[z].placeholder <= Len(zone[z].children), NEW hover \in Drags!Hovered(z)
  PROVE  /\ hover.index \in Nat /\ hover.index <= Len(zone[z].children)
         /\ hover.after \in BOOLEAN /\ hover.onPlaceholder \in BOOLEAN
         /\ zone[z].children = <<>> =>
              hover.index = 0 /\ hover.after = TRUE /\ hover.onPlaceholder = FALSE
         /\ zone[z].children # <<>> /\ ~hover.onPlaceholder => hover.index + 1 <= Len(zone[z].children)
         /\ hover.onPlaceholder => hover.index = zone[z].placeholder
<1> DEFINE c == zone[z].children
           p == zone[z].placeholder
<1>1. c \in Seq(Drags!Items) /\ Len(c) \in Nat /\ p \in Nat \cup {-1} BY DEF ZoneType
<1>2. CASE c = <<>>
  <2>1. hover = [index |-> 0, after |-> TRUE, onPlaceholder |-> FALSE] BY <1>2 DEF Drags!Hovered
  <2> QED BY <2>1, <1>1, <1>2
<1>3. CASE c # <<>>
  <2>1. \/ hover \in [index : Drags!Positions(z), after : BOOLEAN, onPlaceholder : {FALSE}]
        \/ \E b \in BOOLEAN : ~(p < 0) /\ hover = [index |-> p, after |-> b, onPlaceholder |-> TRUE]
    BY <1>3 DEF Drags!Hovered
  <2> HIDE DEF c, p
  <2>2. CASE hover \in [index : Drags!Positions(z), after : BOOLEAN, onPlaceholder : {FALSE}]
    <3>1. hover.index \in 0 .. (Len(c) - 1) /\ hover.onPlaceholder = FALSE /\ hover.after \in BOOLEAN
      BY <2>2 DEF Drags!Positions, c
    <3>2. hover.index \in Nat /\ hover.index <= Len(c) /\ hover.index + 1 <= Len(c) BY <3>1, <1>1
    <3> QED BY <3>1, <3>2, <1>3 DEF c
  <2>3. CASE \E b \in BOOLEAN : ~(p < 0) /\ hover = [index |-> p, after |-> b, onPlaceholder |-> TRUE]
    <3>1. ~(p < 0) /\ hover.index = p /\ hover.onPlaceholder = TRUE /\ hover.after \in BOOLEAN
      BY <2>3
    <3>2. p \in Nat /\ p <= Len(c) BY <3>1, <1>1 DEF c, p
    <3> QED BY <3>1, <3>2, <1>3 DEF c, p
  <2> QED BY <2>1, <2>2, <2>3
<1> QED BY <1>2, <1>3

(* The place told to the parent is that where the placeholder is put.      *)
LEMMA PlacesAgree ==
  ASSUME NEW c, NEW i \in Nat, NEW h \in Nat, NEW after \in BOOLEAN, NEW same \in BOOLEAN,
         c = <<>> => h = 0 /\ after, same => c # <<>>,
         NEW p, p = IF i = h /\ same THEN -1 ELSE IF c = <<>> THEN 0 ELSE IF after THEN h + 1 ELSE h,
         NEW to, to = IF same THEN IF i < h /\ ~after THEN h - 1 ELSE IF i >= h /\ after THEN h + 1 ELSE h
                      ELSE IF after THEN h + 1 ELSE h
  PROVE  /\ p \in Nat \cup {-1} /\ to \in Nat
         /\ p >= 0 /\ ~(same /\ p \in {i, i + 1}) =>
              to = IF same /\ i < p THEN p - 1 ELSE IF c = <<>> THEN 1 ELSE p
<1>1. CASE same
  <2>1. c # <<>> /\ to = (IF i < h /\ ~after THEN h - 1 ELSE IF i >= h /\ after THEN h + 1 ELSE h)
        /\ p = (IF i = h THEN -1 ELSE IF after THEN h + 1 ELSE h)
    BY <1>1
  <2>2. CASE after BY <2>1, <2>2, <1>1
  <2>3. CASE ~after BY <2>1, <2>3, <1>1
  <2> QED BY <2>2, <2>3
<1>2. CASE ~same
  <2>1. to = (IF after THEN h + 1 ELSE h)
        /\ p = (IF c = <<>> THEN 0 ELSE IF after THEN h + 1 ELSE h)
    BY <1>2
  <2>2. CASE c = <<>> BY <2>1, <2>2, <1>2
  <2>3. CASE c # <<>> BY <2>1, <2>3, <1>2
  <2> QED BY <2>2, <2>3
<1> QED BY <1>1, <1>2

LEMMA DragOverKeeps ==
  ASSUME DragIInv, NEW z \in Zones, NEW hover \in Drags!Hovered(z), NEW refused \in BOOLEAN,
         Drags!OnDragOver(z, hover, refused)
  PROVE  DragIInv'
<1> DEFINE c == zone[z].children
           i == payload.index
           same == payload.zone = z
           to == Drags!GetDropIndex(z, hover)
           p == IF refused \/ hover.onPlaceholder THEN zone[z].placeholder
                ELSE Drags!GetPlaceHolderIndex(z, hover)
           r == [zone[z] EXCEPT !.placeholder = p]
<1>1. DragTypes /\ pointer \in SessionType BY DEF DragIInv, DragTypes
<1>2. /\ pointer.source # None /\ ~pointer.done /\ pointer.leaving = None /\ pointer.inside = z
      /\ pointer' = [pointer EXCEPT !.accepted = IF refused THEN None ELSE z]
      /\ over' = (IF refused THEN over ELSE [zone |-> z, index |-> to])
      /\ zone' = (IF refused \/ hover.onPlaceholder THEN zone
                  ELSE [zone EXCEPT ![z].placeholder = Drags!GetPlaceHolderIndex(z, hover)])
      /\ mode' = mode /\ told' = told /\ payload' = payload /\ dropped' = dropped
      /\ activeZone' = activeZone /\ byMouse' = byMouse
  BY DEF Drags!OnDragOver, Drags!Moving, Drags!Dragging
<1>3. Underway /\ payload \in Dragged /\ payload.zone = pointer.source BY <1>2, MovingIsUnderway
<1>4. zone[z] \in ZoneType /\ c = told[z] /\ c \in Seq(Drags!Items) /\ Len(c) \in Nat
  BY <1>1, <1>3 DEF DragTypes, Lists, Underway, Still, Resting
<1>5. zone[z].placeholder <= Len(c) /\ Inside(z) # 0
  <2>1. UnderwayIn(z) BY <1>3 DEF Underway
  <2>2. Inside(z) # 0 BY <1>2, NoneFacts DEF Inside
  <2> QED BY <2>1, <2>2, Zenon DEF UnderwayIn
<1>6. /\ hover.index \in Nat /\ hover.index <= Len(c)
      /\ hover.after \in BOOLEAN /\ hover.onPlaceholder \in BOOLEAN
      /\ c = <<>> => hover.index = 0 /\ hover.after = TRUE /\ hover.onPlaceholder = FALSE
      /\ c # <<>> /\ ~hover.onPlaceholder => hover.index + 1 <= Len(c)
      /\ hover.onPlaceholder => hover.index = zone[z].placeholder
  BY <1>4, <1>5, HoveredFacts, Zenon
<1>7. i \in Nat /\ (same => c # <<>>)
  <2>1. i \in Nat BY <1>3 DEF Dragged
  <2>2. same => Len(c) # 0
    <3>1. zone[pointer.source].dragging + 1 \in 1 .. Len(told[pointer.source])
      BY <1>3, Zenon DEF Underway, Taken
    <3> QED BY <3>1, <1>3, <1>4
  <2> QED BY <2>1, <2>2
<1>8. /\ to \in Nat /\ p \in Nat \cup {-1} /\ p <= Len(c)
      /\ ~refused => (p >= 0 /\ ~(same /\ p \in {i, i + 1}) =>
                        to = IF same /\ i < p THEN p - 1 ELSE IF c = <<>> THEN 1 ELSE p)
  <2> DEFINE h == hover.index
             put == IF i = h /\ same THEN -1 ELSE IF c = <<>> THEN 0
                    ELSE IF hover.after THEN h + 1 ELSE h
             there == IF same THEN IF i < h /\ ~hover.after THEN h - 1
                                   ELSE IF i >= h /\ hover.after THEN h + 1 ELSE h
                      ELSE IF hover.after THEN h + 1 ELSE h
  <2>1. zone[z].placeholder \in Nat \cup {-1} BY <1>4, ZoneFields
  <2>2. /\ put \in Nat \cup {-1} /\ there \in Nat
        /\ put >= 0 /\ ~(same /\ put \in {i, i + 1}) =>
             there = IF same /\ i < put THEN put - 1 ELSE IF c = <<>> THEN 1 ELSE put
    <3> DEFINE b == same
               a == hover.after
               k == h
    <3>1. /\ i \in Nat /\ k \in Nat /\ a \in BOOLEAN /\ b \in BOOLEAN
          /\ (c = <<>> => k = 0 /\ a) /\ (b => c # <<>>)
      BY <1>6, <1>7
    <3> HIDE DEF a, b, k, c, i
    <3>2. \A u, v : u = (IF i = k /\ b THEN -1 ELSE IF c = <<>> THEN 0 ELSE IF a THEN k + 1 ELSE k)
            /\ v = (IF b THEN IF i < k /\ ~a THEN k - 1 ELSE IF i >= k /\ a THEN k + 1 ELSE k
                    ELSE IF a THEN k + 1 ELSE k)
            => /\ u \in Nat \cup {-1} /\ v \in Nat
               /\ u >= 0 /\ ~(b /\ u \in {i, i + 1}) =>
                    v = IF b /\ i < u THEN u - 1 ELSE IF c = <<>> THEN 1 ELSE u
      BY <3>1, PlacesAgree
    <3> QED BY <3>2 DEF a, b, k
  <2>3. Drags!GetPlaceHolderIndex(z, hover) = put BY DEF Drags!GetPlaceHolderIndex
  <2>4. ~hover.onPlaceholder => put <= Len(c) BY <1>4, <1>6, <1>7
  <2>5. CASE hover.onPlaceholder
    <3>1. to = IF i < h /\ same THEN h - 1 ELSE h BY <2>5 DEF Drags!GetDropIndex
    <3>2. p = zone[z].placeholder /\ h = p /\ c # <<>> BY <2>5, <1>6
    <3> HIDE DEF to, p
    <3> QED BY <3>1, <3>2, <2>1, <1>5, <1>6, <1>7
  <2>6. CASE ~hover.onPlaceholder
    <3>1. to = there BY <2>6 DEF Drags!GetDropIndex
    <3>2. p = (IF refused THEN zone[z].placeholder ELSE put) BY <2>3, <2>6
    <3> HIDE DEF to, p, there, put
    <3> QED BY <3>1, <3>2, <2>1, <2>2, <2>4, <2>6, <1>5
  <2> QED BY <2>5, <2>6
<1> HIDE DEF to, p
<1>9. r \in ZoneType BY <1>4, <1>8 DEF ZoneType
<1>10. /\ r.children = c /\ r.active = zone[z].active /\ r.rendered = zone[z].rendered
       /\ r.prev = zone[z].prev /\ r.back = zone[z].back /\ r.dragging = zone[z].dragging
       /\ r.placeholder = p /\ r.counter = zone[z].counter /\ r.state = zone[z].state
  BY <1>4 DEF ZoneType
<1>11. zone' = [zone EXCEPT ![z] = r]
  <2>1. CASE refused \/ hover.onPlaceholder
    <3>1. zone' = zone /\ p = zone[z].placeholder BY <2>1, <1>2 DEF p
    <3>2. r = zone[z] BY <3>1, <1>4 DEF ZoneType
    <3> QED BY <3>1, <3>2, <1>1 DEF DragTypes
  <2>2. CASE ~(refused \/ hover.onPlaceholder) BY <2>2, <1>2 DEF p
  <2> QED BY <2>1, <2>2
<1> HIDE DEF r
<1>12. zone' \in [Zones -> ZoneType] /\ zone'[z] = r /\ \A y \in Zones : y # z => zone'[y] = zone[y]
  BY <1>1, <1>9, <1>11 DEF DragTypes
<1>13. /\ pointer' \in SessionType /\ pointer'.source = pointer.source
       /\ pointer'.item = pointer.item /\ pointer'.entered = pointer.entered
       /\ pointer'.inside = z /\ pointer'.leaving = None
       /\ pointer'.accepted = (IF refused THEN None ELSE z) /\ ~pointer'.done
  BY <1>1, <1>2 DEF SessionType
<1>14. SameGround BY <1>2, <1>10, <1>12 DEF SameGround
<1>15. ASSUME NEW y \in Zones PROVE zone'[y].dragging = zone[y].dragging /\ UnderwayIn(y)'
  <2>1. UnderwayIn(y) BY <1>3 DEF Underway
  <2>2. Inside(y)' = Inside(y) BY <1>2, <1>13 DEF Inside
  <2>3. /\ zone'[y].dragging = zone[y].dragging /\ zone'[y].counter = zone[y].counter
        /\ zone'[y].state = zone[y].state /\ zone'[y].children = zone[y].children
        /\ y # z => zone'[y].placeholder = zone[y].placeholder
        /\ y = z => zone'[y].placeholder = p
    BY <1>10, <1>12
  <2>4. zone'[y].placeholder <= Len(zone'[y].children)
    <3>1. zone[y].placeholder <= Len(zone[y].children) BY <2>1, Zenon DEF UnderwayIn
    <3> QED BY <3>1, <2>3, <1>8
  <2> QED BY <2>1, <2>2, <2>3, <2>4, <1>5, <1>13, Zenon DEF UnderwayIn
<1>16. over' \in Dropped \cup {None} BY <1>1, <1>2, <1>8 DEF DragTypes, Dropped
<1>17. Accepted'
  <2>1. CASE refused BY <2>1, <1>13 DEF Accepted
  <2>2. CASE ~refused
    <3>1. over' = [zone |-> z, index |-> to] BY <2>2, <1>2
    <3>2. over' \in Dropped /\ over'.zone = z /\ over'.index = to BY <3>1, <1>8 DEF Dropped
    <3>3. zone'[z].placeholder = p /\ zone'[z].children = c BY <1>10, <1>12
    <3>4. TellsTruth(z)' BY <3>2, <3>3, <2>2, <1>2, <1>8 DEF TellsTruth
    <3>5. pointer'.accepted = z BY <2>2, <1>13
    <3> QED BY <3>2, <3>4, <3>5, <1>13, Zenon DEF Accepted
  <2> QED BY <2>1, <2>2
<1>18. activeZone' \in Zones \cup {None} BY <1>1, <1>2 DEF DragTypes
<1> QED BY <1>2, <1>13, <1>14, <1>15, <1>16, <1>17, <1>18, StillUnderway

(* The parent renders its zones again, or does not.                        *)
SameIn(r, q) ==
  /\ r.children = q.children /\ r.active = q.active /\ r.dragging = q.dragging
  /\ r.placeholder = q.placeholder /\ r.state = q.state /\ r.counter = q.counter /\ r.back = q.back

LEMMA Rerendered ==
  ASSUME mode \in {"skip", "own"}, NEW zs \in [Zones -> ZoneType], NEW a \in Lists,
         Drags!Rerender(zs, a), mode = "own" => \A z \in Zones : GoesBackTo(zs[z]) = a[z]
  PROVE  /\ told' = a /\ zone' \in [Zones -> ZoneType]
         /\ \A z \in Zones : GoesBackTo(zone'[z]) = a[z] /\ SameIn(zone'[z], zs[z])
<1>1. CASE mode = "own"
  <2>1. told' = a /\ zone' = zs BY <1>1 DEF Drags!Rerender
  <2> QED BY <2>1, <1>1 DEF SameIn
<1>2. CASE mode = "skip"
  <2>1. told' = a /\ zone' = [z \in Zones |-> Drags!ReceiveProps(zs[z], a[z])]
    BY <1>2 DEF Drags!Rerender
  <2>2. ASSUME NEW z \in Zones
        PROVE  LET r == Drags!ReceiveProps(zs[z], a[z])
               IN r \in ZoneType /\ GoesBackTo(r) = a[z] /\ SameIn(r, zs[z])
    <3> DEFINE q == zs[z]
               r == [q EXCEPT !.prev = None, !.rendered = a[z]]
    <3>1. q \in ZoneType /\ a[z] \in Seq(Drags!Items) BY DEF Lists
    <3> HIDE DEF q
    <3>2. Drags!ReceiveProps(q, a[z]) = r BY <1>2, <3>1 DEF Drags!ReceiveProps, ZoneType
    <3>3. r \in ZoneType BY <3>1 DEF ZoneType
    <3>4. r.prev = None /\ r.rendered = a[z] /\ SameIn(r, q) BY <3>1 DEF ZoneType, SameIn
    <3> HIDE DEF r
    <3> QED BY <3>2, <3>3, <3>4 DEF q, GoesBackTo
  <2> QED BY <2>1, <2>2
<1> QED BY <1>1, <1>2

(* What is reset in a zone.                                                *)
LEMMA ResetFacts ==
  ASSUME NEW r \in ZoneType
  PROVE  LET q == Drags!ResetRenderState(r) IN
         /\ q \in ZoneType /\ Clean(q) /\ q.active = -1 /\ q.children = r.children
         /\ q.prev = r.prev /\ q.rendered = r.rendered /\ q.back = r.back
<1> DEFINE q == [r EXCEPT !.dragging = -1, !.placeholder = -1, !.active = -1, !.state = "none",
                          !.counter = 0]
<1>1. Drags!ResetRenderState(r) = q BY DEF Drags!ResetRenderState, Drags!NoState
<1>2. q \in ZoneType
  <2>1. -1 \in Nat \cup {-1} /\ "none" \in DragStates /\ 0 \in Int BY DEF DragStates
  <2> QED BY <2>1 DEF ZoneType
<1>3. /\ q.dragging = -1 /\ q.placeholder = -1 /\ q.active = -1 /\ q.state = "none" /\ q.counter = 0
      /\ q.children = r.children /\ q.prev = r.prev /\ q.rendered = r.rendered /\ q.back = r.back
  BY DEF ZoneType
<1> HIDE DEF q
<1> QED BY <1>1, <1>2, <1>3, Zenon DEF Clean

(* Where the zones go when something was dropped.                          *)
LEMMA DropKeeps ==
  ASSUME DragIInv, NEW z \in Zones, Drags!OnDrop(z)
  PROVE  DragIInv'
<1> DEFINE s == pointer.source
           i == payload.index
           to == over.index
           x == payload.item
           a == Drags!Arrangement(payload, over)
<1>1. DragTypes /\ Kept /\ pointer \in SessionType BY DEF DragIInv, DragTypes
<1>2. /\ s # None /\ ~pointer.done /\ pointer.leaving = None /\ pointer.accepted = z
      /\ activeZone' = None /\ pointer' = [pointer EXCEPT !.done = TRUE]
      /\ mode' = mode /\ byMouse' = byMouse
      /\ IF payload.zone = z THEN Drags!DropWithin(z) ELSE Drags!DropFromOther(z)
  BY DEF Drags!OnDrop, Drags!Moving, Drags!Dragging
<1>3. Underway /\ mode = "skip" /\ byMouse /\ s \in Zones /\ payload \in Dragged /\ payload.zone = s
  BY <1>2, MovingIsUnderway
<1>4. pointer.inside = z /\ over \in Dropped /\ over.zone = z /\ TellsTruth(z)
  BY <1>2, <1>3, NoneFacts DEF Underway, Accepted
<1>5. i \in Nat /\ to \in Nat /\ x \in Drags!Items BY <1>3, <1>4 DEF Dragged, Dropped
<1>6. /\ zone[s].dragging = i /\ i + 1 \in 1 .. Len(told[s]) /\ x = told[s][i + 1]
      /\ x = pointer.item
  <2>1. /\ payload = [zone |-> s, index |-> zone[s].dragging, item |-> pointer.item]
        /\ zone[s].dragging + 1 \in 1 .. Len(told[s]) /\ pointer.item = told[s][zone[s].dragging + 1]
    BY <1>3, Zenon DEF Underway, Taken
  <2>2. i = zone[s].dragging /\ x = pointer.item BY <2>1
  <2> QED BY <2>1, <2>2, Zenon
<1>7. /\ a \in Lists /\ EachOnce(a)
      /\ \A y \in Zones :
           LET rest == IF y = s THEN Drags!Without(told[y], i) ELSE told[y]
           IN a[y] = IF y = z THEN Drags!With(rest, to, told[s][i + 1]) ELSE rest
  <2>1. told \in Lists /\ EachOnce(told) BY <1>1 DEF DragTypes, Kept
  <2>2. payload.zone = s /\ payload.index = i /\ over.zone = z /\ over.index = to BY <1>3, <1>4
  <2>3. a \in Lists /\ EachOnce(a) /\ Rearranged(a, s, i, z, to)
    BY <2>1, <2>2, <1>3, <1>5, <1>6, ArrangedOnce, Zenon
  <2> QED BY <2>3, Zenon DEF Rearranged
<1>8. ASSUME NEW y \in Zones
      PROVE  /\ zone[y] \in ZoneType /\ zone[y].active = -1 /\ zone[y].children = told[y]
             /\ told[y] \in Seq(Drags!Items) /\ UnderwayIn(y) /\ (Inside(y) = 0 <=> y # z)
  <2>1. zone[y] \in ZoneType /\ told[y] \in Seq(Drags!Items) BY <1>1 DEF DragTypes, Lists
  <2>2. Resting(y) /\ UnderwayIn(y) BY <1>3 DEF Underway, Still
  <2>3. Inside(y) = 0 <=> y # z BY <1>2, <1>4, NoneFacts DEF Inside
  <2> QED BY <2>1, <2>2, <2>3 DEF Resting
<1>9. /\ pointer' \in SessionType /\ pointer'.source = s /\ pointer'.item = pointer.item
      /\ pointer'.leaving = None /\ pointer'.done
  BY <1>1, <1>2 DEF SessionType
<1>10. \A y \in Zones : y # z /\ y # s => Clean(zone[y])
  <2> SUFFICES ASSUME NEW y \in Zones, y # z, y # s PROVE Clean(zone[y]) OBVIOUS
  <2>1. UnderwayIn(y) /\ Inside(y) = 0 BY <1>8
  <2> QED BY <2>1, Zenon DEF UnderwayIn, Clean
<1> HIDE DEF a, x, to, i
<1>11. CASE s = z
  <2> DEFINE c == Drags!Moved(zone[z].children, i, to)
             m == [zone[z] EXCEPT !.children = c, !.active = to]
             q == Drags!ResetRenderState(m)
             zs == [zone EXCEPT ![z] = q]
  <2>1. c = a[z] /\ c \in Seq(Drags!Items)
    <3>1. c = Drags!With(Drags!Without(told[z], i), to, told[z][i + 1]) BY <1>8 DEF Drags!Moved
    <3>2. c = a[z] BY <3>1, <1>7, <1>11
    <3> QED BY <3>2, <1>7 DEF Lists
  <2>2. zone[z].state = "within zone"
    <3>1. UnderwayIn(z) /\ Inside(z) # 0 BY <1>8
    <3> QED BY <3>1, <1>11, Zenon DEF UnderwayIn
  <2>3. Drags!Rerender([zone EXCEPT ![z] = Drags!AfterDragEnd(
                          Drags!MoveItem(zone[z], zone[z].dragging, over.index), TRUE)],
                       Drags!Arrangement(payload, over))
        /\ payload' = None /\ over' = None /\ dropped' = FALSE
    BY <1>2, <1>3, <1>11 DEF Drags!DropWithin, Drags!StoreReset
  <2>4. Drags!MoveItem(zone[z], zone[z].dragging, over.index) = m
    BY <1>6, <1>8, <1>11 DEF Drags!MoveItem, to, ZoneType
  <2> HIDE DEF c
  <2>5. m \in ZoneType /\ m.state = "within zone" /\ m.children = c
    BY <2>1, <2>2, <1>5, <1>8 DEF ZoneType
  <2>6. Drags!AfterDragEnd(m, TRUE) = q BY <2>5 DEF Drags!AfterDragEnd
  <2> HIDE DEF m
  <2>7. q \in ZoneType /\ Clean(q) /\ q.active = -1 /\ q.children = c
    BY <2>5, ResetFacts
  <2>8. m.back = zone[z].back BY <1>8 DEF m, ZoneType
  <2>9. q.back = zone[z].back BY <2>5, <2>8, ResetFacts
  <2> HIDE DEF q
  <2>10. zs \in [Zones -> ZoneType] /\ zs[z] = q /\ \A y \in Zones : y # z => zs[y] = zone[y]
    BY <2>7, <1>1 DEF DragTypes
  <2>11. Drags!Rerender(zs, a) BY <2>3, <2>4, <2>6, Zenon DEF a
  <2> HIDE DEF zs
  <2>12. /\ told' = a /\ zone' \in [Zones -> ZoneType]
         /\ \A y \in Zones : GoesBackTo(zone'[y]) = a[y] /\ SameIn(zone'[y], zs[y])
    BY <2>10, <2>11, <1>3, <1>7, Rerendered
  <2>13. ASSUME NEW y \in Zones PROVE Clean(zone'[y]) /\ Resting(y)'
    <3>1. CASE y = z BY <3>1, <2>1, <2>7, <2>10, <2>12 DEF SameIn, Clean, Resting
    <3>2. CASE y # z
      <4>1. Clean(zone[y]) /\ zs[y] = zone[y] BY <3>2, <1>10, <1>11, <2>10
      <4>2. a[y] = told[y] BY <3>2, <1>7, <1>11
      <4>3. SameIn(zone'[y], zone[y]) BY <4>1, <2>12
      <4> QED BY <4>1, <4>2, <4>3, <1>8, <2>12 DEF SameIn, Clean, Resting
    <3> QED BY <3>1, <3>2
  <2>14. LandedWithin' BY <2>3, <2>13 DEF LandedWithin, Still
  <2>15. Kept'
    <3>1. \A y \in Zones : zone'[y].back = zone[y].back BY <2>9, <2>10, <2>12 DEF SameIn
    <3> QED BY <3>1, <2>12, <1>1, <1>7 DEF Kept
  <2>16. DragTypes' BY <2>3, <2>12, <1>1, <1>2, <1>7, <1>9 DEF DragTypes
  <2> QED BY <2>14, <2>15, <2>16, <1>2, <1>3, <1>9, Zenon DEF DragIInv, NoDrag, ByKeys, ByPointer
<1>12. CASE s # z
  <2> DEFINE d == IF zone[z].placeholder >= 0 THEN zone[z].placeholder ELSE to
             c == Drags!With(zone[z].children, d, x)
             m == [zone[z] EXCEPT !.children = c, !.active = d]
             q == Drags!ResetRenderState(m)
             zs == [zone EXCEPT ![z] = q]
  <2>1. d \in Nat BY <1>5, <1>8, ZoneFields DEF to
  <2>2. c = a[z] /\ c \in Seq(Drags!Items)
    <3>1. a[z] = Drags!With(told[z], to, x) BY <1>6, <1>7, <1>12
    <3>2. zone[z].placeholder <= Len(told[z])
      <4>1. zone[z].placeholder <= Len(zone[z].children)
        <5>1. UnderwayIn(z) BY <1>8
        <5> QED BY <5>1, Zenon DEF UnderwayIn
      <4> QED BY <4>1, <1>8
    <3>3. CASE zone[z].placeholder >= 0
      <4>1. to = IF told[z] = <<>> THEN 1 ELSE d
        BY <3>3, <1>3, <1>4, <1>8, <1>12 DEF TellsTruth, to
      <4>2. CASE told[z] = <<>>
        <5>1. d = 0 BY <3>2, <3>3, <4>2, <2>1
        <5>2. to = 1 /\ 1 \in Nat /\ zone[z].children = <<>> BY <4>1, <4>2, <1>8
        <5>3. Drags!With(<<>>, 1, x) = Drags!With(<<>>, 0, x) BY WithInEmpty
        <5>4. c = a[z]
          <6> HIDE DEF d
          <6> QED BY <5>1, <5>2, <5>3, <4>2, <3>1
        <5> QED BY <5>4, <1>7 DEF Lists
      <4>3. CASE told[z] # <<>>
        <5>1. c = a[z] BY <4>1, <4>3, <3>1, <1>8
        <5> QED BY <5>1, <1>7 DEF Lists
      <4> QED BY <4>2, <4>3
    <3>4. CASE ~(zone[z].placeholder >= 0)
      <4>1. c = a[z] BY <3>1, <3>4, <1>8
      <4> QED BY <4>1, <1>7 DEF Lists
    <3> QED BY <3>3, <3>4
  <2>3. Drags!Rerender([zone EXCEPT ![z] = Drags!ResetRenderState(
                          Drags!RenderItemOnDropFromOtherZone(@, over.index))],
                       Drags!Arrangement(payload, over))
        /\ payload' = payload /\ over' = over /\ dropped' = TRUE
    BY <1>2, <1>3, <1>12 DEF Drags!DropFromOther
  <2>4. Drags!RenderItemOnDropFromOtherZone(zone[z], over.index) = m
    BY <1>8 DEF Drags!RenderItemOnDropFromOtherZone, to, x, ZoneType
  <2> HIDE DEF c, d
  <2>5. m \in ZoneType /\ m.children = c /\ m.back = zone[z].back BY <2>1, <2>2, <1>8 DEF ZoneType
  <2> HIDE DEF m
  <2>6. q \in ZoneType /\ Clean(q) /\ q.active = -1 /\ q.children = c /\ q.back = zone[z].back
    BY <2>5, ResetFacts
  <2>7. [zone EXCEPT ![z] = Drags!ResetRenderState(
           Drags!RenderItemOnDropFromOtherZone(@, over.index))] = zs
    BY <2>4, <1>1 DEF DragTypes
  <2> HIDE DEF q
  <2>8. zs \in [Zones -> ZoneType] /\ zs[z] = q /\ \A y \in Zones : y # z => zs[y] = zone[y]
    BY <2>6, <1>1 DEF DragTypes
  <2> HIDE DEF zs
  <2>9. Drags!Rerender(zs, a) BY <2>3, <2>7, Zenon DEF a
  <2>10. /\ told' = a /\ zone' \in [Zones -> ZoneType]
         /\ \A y \in Zones : GoesBackTo(zone'[y]) = a[y] /\ SameIn(zone'[y], zs[y])
    BY <2>8, <2>9, <1>3, <1>7, Rerendered
  <2>11. ASSUME NEW y \in Zones, y # s PROVE Clean(zone'[y]) /\ Resting(y)'
    <3>1. CASE y = z BY <3>1, <2>2, <2>6, <2>8, <2>10 DEF SameIn, Clean, Resting
    <3>2. CASE y # z
      <4>1. Clean(zone[y]) /\ zs[y] = zone[y] BY <3>2, <2>11, <1>10, <2>8
      <4>2. a[y] = told[y] BY <3>2, <2>11, <1>7
      <4>3. SameIn(zone'[y], zone[y]) BY <4>1, <2>10
      <4> QED BY <4>1, <4>2, <4>3, <1>8, <2>10 DEF SameIn, Clean, Resting
    <3> QED BY <3>1, <3>2
  <2>12. /\ zone'[s].children = told[s] /\ zone'[s].dragging = i /\ zone'[s].active = -1
         /\ zone'[s].placeholder = -1 /\ zone'[s].counter = 0 /\ zone'[s].state = "to other zone"
    <3>1. UnderwayIn(s) /\ Inside(s) = 0 /\ UnderwayIn(z) /\ Inside(z) # 0 BY <1>3, <1>8, <1>12
    <3>2. pointer.entered BY <3>1, Zenon DEF UnderwayIn
    <3>3. zone[s].placeholder = -1 /\ zone[s].counter = 0 /\ zone[s].state = "to other zone"
      BY <3>1, <3>2, <1>3, Zenon DEF UnderwayIn
    <3>4. SameIn(zone'[s], zone[s]) BY <1>3, <1>12, <2>8, <2>10
    <3> QED BY <3>3, <3>4, <1>3, <1>6, <1>8 DEF SameIn
  <2>13. told'[s] = Drags!Without(told[s], i) BY <2>10, <1>3, <1>7, <1>12
  <2>14. LandedInOther'
    BY <2>3, <2>11, <2>12, <2>13, <1>3, <1>4, <1>6, <1>9 DEF LandedInOther
  <2>15. Kept'
    <3>1. \A y \in Zones : zone'[y].back = zone[y].back BY <2>6, <2>8, <2>10 DEF SameIn
    <3> QED BY <3>1, <2>10, <1>1, <1>7 DEF Kept
  <2>16. DragTypes' BY <2>3, <2>10, <1>1, <1>2, <1>7, <1>9 DEF DragTypes
  <2> QED BY <2>14, <2>15, <2>16, <1>2, <1>3, <1>9, Zenon DEF DragIInv, NoDrag, ByKeys, ByPointer
<1> QED BY <1>11, <1>12

LEMMA RemovedItem ==
  ASSUME NEW r \in ZoneType, NEW i \in Nat, i + 1 \in 1 .. Len(r.children)
  PROVE  LET q == Drags!RemoveItem(r, i) IN
         /\ q \in ZoneType /\ q.children = Drags!Without(r.children, i) /\ q.active = -1
         /\ q.prev = r.prev /\ q.rendered = r.rendered /\ q.back = r.back
         /\ q.dragging = r.dragging /\ q.placeholder = r.placeholder /\ q.state = r.state
         /\ q.counter = r.counter
<1> DEFINE c == Drags!Without(r.children, i)
           q == [r EXCEPT !.children = c, !.active = -1]
<1>1. c \in Seq(Drags!Items) BY ZoneFields, WithoutFacts, Zenon
<1>2. Drags!RemoveItem(r, i) = q BY DEF Drags!RemoveItem, ZoneType
<1> HIDE DEF c
<1>3. q \in ZoneType BY <1>1 DEF ZoneType
<1>4. /\ q.children = c /\ q.active = -1
      /\ q.prev = r.prev /\ q.rendered = r.rendered /\ q.back = r.back
      /\ q.dragging = r.dragging /\ q.placeholder = r.placeholder /\ q.state = r.state
      /\ q.counter = r.counter
  BY DEF ZoneType
<1> HIDE DEF q
<1> QED BY <1>2, <1>3, <1>4, Zenon DEF c

LEMMA DragEndKeeps == ASSUME DragIInv, Drags!OnDragEnd PROVE DragIInv'
<1> DEFINE s == pointer.source
<1>1. DragTypes /\ Kept BY DEF DragIInv
<1>2. /\ s # None /\ pointer.leaving = None /\ (pointer.done \/ pointer.inside = None)
      /\ pointer' = Drags!NoSession /\ mode' = mode /\ told' = told /\ activeZone' = activeZone
      /\ byMouse' = byMouse
      /\ IF Drags!Delivered
         THEN /\ zone' = [zone EXCEPT ![s] = Drags!AfterDragEnd(@, dropped)]
              /\ payload' = None /\ over' = None /\ dropped' = FALSE
         ELSE zone' = zone /\ payload' = payload /\ over' = over /\ dropped' = dropped
  BY DEF Drags!OnDragEnd, Drags!Dragging, Drags!StoreReset
<1>3. s \in Zones /\ zone[s] \in ZoneType /\ mode = "skip" /\ byMouse
  BY <1>1, <1>2 DEF DragIInv, DragTypes, SessionType, ByPointer
<1>4. pointer' \in SessionType /\ pointer'.source = None BY <1>2 DEF SessionType, Drags!NoSession
(* It is enough that the zones are as the parent has them, and in no state. *)
<1>5. ASSUME zone' \in [Zones -> ZoneType], payload' = None, over' = None, ~dropped', dropped' \in BOOLEAN,
             NEW q \in ZoneType, zone' = [zone EXCEPT ![s] = q],
             Clean(q), q.active = -1, q.children = told[s],
             q.prev = zone[s].prev, q.rendered = zone[s].rendered, q.back = zone[s].back,
             \A y \in Zones : y # s => Clean(zone[y]) /\ Resting(y)
      PROVE  DragIInv'
  <2>1. \A y \in Zones : zone'[y] = IF y = s THEN q ELSE zone[y] BY <1>1, <1>5 DEF DragTypes
  <2>2. \A y \in Zones : Clean(zone'[y]) /\ Resting(y)' BY <2>1, <1>2, <1>5 DEF Resting
  <2>3. Kept' BY <2>1, <1>1, <1>2, <1>5 DEF Kept, GoesBackTo
  <2>4. DragTypes' BY <1>1, <1>2, <1>4, <1>5 DEF DragTypes
  <2>5. Still' BY <2>2 DEF Still
  <2> QED BY <2>2, <2>3, <2>4, <2>5, <1>2, <1>4, <1>5, Zenon
          DEF DragIInv, NoDrag, ByKeys, ByPointer
<1>6. CASE ~pointer.done
  <2>1. Underway /\ payload \in Dragged /\ payload.zone = s BY <1>2, <1>6, MovingIsUnderway
  <2>2. \A y \in Zones : Inside(y) = 0 BY <1>2, <1>6, NoneFacts DEF Inside
  <2>3. Still /\ dropped = FALSE BY <2>1, <1>1 DEF Underway, DragTypes
  <2>4. Drags!Delivered
    <3>1. /\ zone[s].dragging + 1 \in 1 .. Len(told[s])
          /\ pointer.item = told[s][zone[s].dragging + 1]
      BY <2>1, Zenon DEF Underway, Taken
    <3>2. zone[s].children = told[s] BY <2>3, <1>3 DEF Still, Resting
    <3> QED BY <3>1, <3>2, Zenon DEF Drags!Delivered, Drags!Contains
  <2> DEFINE q == Drags!ResetRenderState(zone[s])
  <2>5. /\ zone' = [zone EXCEPT ![s] = q] /\ payload' = None /\ over' = None /\ dropped' = FALSE
    BY <2>3, <2>4, <1>2 DEF Drags!AfterDragEnd
  <2>6. /\ q \in ZoneType /\ Clean(q) /\ q.active = -1 /\ q.children = zone[s].children
        /\ q.prev = zone[s].prev /\ q.rendered = zone[s].rendered /\ q.back = zone[s].back
    BY <1>3, ResetFacts, Zenon
  <2> HIDE DEF q
  <2>7. q.children = told[s] BY <2>3, <2>6, <1>3 DEF Still, Resting
  <2>8. \A y \in Zones : y # s => Clean(zone[y]) /\ Resting(y)
    <3> SUFFICES ASSUME NEW y \in Zones, y # s PROVE Clean(zone[y]) /\ Resting(y) OBVIOUS
    <3>1. UnderwayIn(y) /\ Resting(y) /\ Inside(y) = 0 BY <2>1, <2>2 DEF Underway, Still
    <3> QED BY <3>1, Zenon DEF UnderwayIn, Clean
  <2>9. zone' \in [Zones -> ZoneType] BY <2>5, <2>6, <1>1 DEF DragTypes
  <2> QED BY <2>5, <2>6, <2>7, <2>8, <2>9, <1>5
<1>7. CASE LandedWithin
  <2>1. \A y \in Zones : Clean(zone[y]) /\ Resting(y) BY <1>7 DEF LandedWithin, Still
  <2>2. payload = None /\ over = None /\ dropped = FALSE BY <1>1, <1>7 DEF LandedWithin, DragTypes
  <2> DEFINE q == IF Drags!Delivered THEN Drags!ResetRenderState(zone[s]) ELSE zone[s]
  <2>3. /\ zone' = [zone EXCEPT ![s] = q] /\ payload' = None /\ over' = None /\ dropped' = FALSE
    BY <2>2, <1>1, <1>2 DEF Drags!AfterDragEnd, DragTypes
  <2>4. /\ q \in ZoneType /\ Clean(q) /\ q.active = -1 /\ q.children = zone[s].children
        /\ q.prev = zone[s].prev /\ q.rendered = zone[s].rendered /\ q.back = zone[s].back
    <3>1. LET p == Drags!ResetRenderState(zone[s]) IN
          /\ p \in ZoneType /\ Clean(p) /\ p.active = -1 /\ p.children = zone[s].children
          /\ p.prev = zone[s].prev /\ p.rendered = zone[s].rendered /\ p.back = zone[s].back
      BY <1>3, ResetFacts, Zenon
    <3>2. Clean(zone[s]) /\ zone[s].active = -1 BY <2>1, <1>3 DEF Resting
    <3> QED BY <3>1, <3>2, <1>3, Zenon
  <2> HIDE DEF q
  <2>5. q.children = told[s] BY <2>1, <2>4, <1>3 DEF Resting
  <2>6. zone' \in [Zones -> ZoneType] BY <2>3, <2>4, <1>1 DEF DragTypes
  <2> QED BY <2>1, <2>3, <2>4, <2>5, <2>6, <1>5
<1>8. CASE LandedInOther
  <2> DEFINE i == zone[s].dragging
  <2>1. /\ dropped /\ i + 1 \in 1 .. Len(zone[s].children)
        /\ zone[s].children[i + 1] = pointer.item /\ Drags!Without(zone[s].children, i) = told[s]
        /\ zone[s].state = "to other zone"
        /\ \A y \in Zones : y # s => Clean(zone[y]) /\ Resting(y)
    BY <1>8, Zenon DEF LandedInOther
  <2>2. dropped = TRUE BY <2>1, <1>1 DEF DragTypes
  <2>3. Drags!Delivered BY <2>1, Zenon DEF Drags!Delivered, Drags!Contains
  <2>4. i \in Nat
    <3>1. i \in Nat \cup {-1} /\ zone[s].children \in Seq(Drags!Items) BY <1>3, ZoneFields, Zenon
    <3>2. i + 1 \in 1 .. Len(zone[s].children) BY <2>1, Zenon
    <3>3. Len(zone[s].children) \in Nat BY <3>1
    <3> HIDE DEF i
    <3> QED BY <3>1, <3>2, <3>3 DEF i
  <2> DEFINE p == Drags!RemoveItem(zone[s], i)
             q == Drags!ResetRenderState(p)
  <2>5. /\ zone' = [zone EXCEPT ![s] = q] /\ payload' = None /\ over' = None /\ dropped' = FALSE
    <3>1. Drags!AfterDragEnd(zone[s], dropped) = q BY <2>1, <2>2 DEF Drags!AfterDragEnd
    <3>2. zone' = [zone EXCEPT ![s] = Drags!AfterDragEnd(zone[s], dropped)] BY <2>3, <1>2
    <3> QED BY <3>1, <3>2, <2>3, <1>2
  <2>6. /\ p \in ZoneType /\ p.children = told[s]
        /\ p.prev = zone[s].prev /\ p.rendered = zone[s].rendered /\ p.back = zone[s].back
    BY <2>1, <2>4, <1>3, RemovedItem
  <2> HIDE DEF p
  <2>7. /\ q \in ZoneType /\ Clean(q) /\ q.active = -1 /\ q.children = p.children
        /\ q.prev = p.prev /\ q.rendered = p.rendered /\ q.back = p.back
    BY <2>6, ResetFacts, Zenon
  <2> HIDE DEF q
  <2>8. zone' \in [Zones -> ZoneType] BY <2>5, <2>7, <1>1 DEF DragTypes
  <2> QED BY <2>1, <2>5, <2>6, <2>7, <2>8, <1>5
<1>9. pointer.done => LandedWithin \/ LandedInOther BY <1>2 DEF DragIInv, ByPointer
<1> QED BY <1>6, <1>7, <1>8, <1>9

--------------------------------------------------------------------------------
(* The keyboard                                                            *)

(* What is taken out and put in again leaves the list as it was.           *)
LEMMA WithWithout ==
  ASSUME NEW S, NEW s \in Seq(S), NEW i \in Nat, i + 1 \in 1 .. Len(s)
  PROVE  /\ i \in 0 .. Len(Drags!Without(s, i))
         /\ Drags!With(Drags!Without(s, i), i, s[i + 1]) = s
<1> DEFINE v == Drags!Without(s, i)
           x == s[i + 1]
           w == Drags!With(v, i, x)
<1>1. Len(s) \in Nat /\ x \in S OBVIOUS
<1>2. v \in Seq(S) /\ Narrowed(v, s, i) BY WithoutFacts, Zenon
<1> HIDE DEF v, x
<1>3. Len(v) = Len(s) - 1 /\ Len(v) \in Nat BY <1>2 DEF Narrowed
<1>4. i \in 0 .. Len(v) /\ Place(v, i) = i BY <1>1, <1>3 DEF Place
<1>5. w \in Seq(S) /\ Widened(w, v, Place(v, i), x) BY <1>1, <1>2, WithFacts, Zenon
<1> HIDE DEF w
<1>6. Len(w) = Len(s) BY <1>1, <1>3, <1>5 DEF Widened
<1>7. ASSUME NEW k \in 1 .. Len(w) PROVE w[k] = s[k]
  <2>1. k \in 1 .. Len(v) + 1 /\ k \in Nat BY <1>1, <1>3, <1>6
  <2>2. w[k] = IF k <= i THEN v[k] ELSE IF k = i + 1 THEN x ELSE v[k - 1]
    BY <2>1, <1>4, <1>5 DEF Widened
  <2>3. CASE k <= i
    <3>1. k \in 1 .. Len(s) - 1 BY <2>1, <2>3, <1>1, <1>3, <1>4
    <3> QED BY <3>1, <2>2, <2>3, <1>2 DEF Narrowed
  <2>4. CASE k = i + 1 BY <2>2, <2>4 DEF x
  <2>5. CASE k > i + 1
    <3>1. k - 1 \in 1 .. Len(s) - 1 /\ ~(k - 1 <= i) /\ (k - 1) + 1 = k /\ ~(k <= i) /\ k # i + 1
      BY <2>1, <2>5, <1>1, <1>3
    <3>2. v[k - 1] = s[(k - 1) + 1] BY <3>1, <1>2 DEF Narrowed
    <3> QED BY <3>1, <3>2, <2>2
  <2> QED BY <2>1, <2>3, <2>4, <2>5
<1>8. w = s BY <1>5, <1>6, <1>7, ListsEqual
<1> QED BY <1>4, <1>8 DEF v, x, w

(* Nothing is dragged before or after a step of the keyboard.              *)
LEMMA KeysRest ==
  ASSUME DragTypes, NoDrag, pointer.source = None, pointer' = pointer, over' = over, dropped' = dropped,
         activeZone' = activeZone, mode' = mode,
         byMouse' = FALSE, payload' \in Dragged \cup {None},
         zone' \in [Zones -> ZoneType], told' \in Lists, EachOnce(told)',
         \A y \in Zones : /\ GoesBackTo(zone'[y]) = told'[y] /\ Clean(zone'[y])
                          /\ \A d \in Ends : zone'[y].back[d] # y,
         Still' \/ \E y \in Zones : Carried(y)'
  PROVE  DragIInv'
<1>1. DragTypes' BY DEF DragTypes
<1>2. Kept' BY DEF Kept
<1>3. NoDrag' BY DEF NoDrag
<1> QED BY <1>1, <1>2, <1>3 DEF DragIInv, ByKeys, ByPointer

LEMMA KeysKeep ==
  ASSUME DragIInv, pointer.source = None, pointer' = pointer, over' = over, dropped' = dropped,
         activeZone' = activeZone, mode' = mode,
         byMouse' = FALSE, payload' \in Dragged \cup {None},
         zone' \in [Zones -> ZoneType], told' \in Lists, EachOnce(told)',
         \A y \in Zones : /\ GoesBackTo(zone'[y]) = told'[y] /\ Clean(zone'[y])
                          /\ \A d \in Ends : zone'[y].back[d] # y,
         Still' \/ \E y \in Zones : Carried(y)'
  PROVE  DragIInv'
BY KeysRest DEF DragIInv

LEMMA PickKeeps ==
  ASSUME DragIInv, NEW z \in Zones, NEW i \in Drags!Positions(z), Drags!Pick(z, i)
  PROVE  DragIInv'
<1> DEFINE drag == [zone |-> z, index |-> i, item |-> zone[z].children[i + 1]]
           r == [zone[z] EXCEPT !.active = i]
<1>1. DragTypes /\ Kept BY DEF DragIInv
<1>2. /\ Drags!Idle /\ byMouse' = FALSE /\ payload' = drag
      /\ zone' = [zone EXCEPT ![z].active = i] /\ mode' = mode /\ told' = told /\ over' = over
      /\ dropped' = dropped /\ activeZone' = activeZone /\ pointer' = pointer
  BY DEF Drags!Pick, Drags!Begins
<1>3. pointer.source = None /\ Still /\ \A y \in Zones : Clean(zone[y]) BY <1>2, StillAtFirst
<1>4. zone[z] \in ZoneType /\ zone[z].children = told[z] /\ told[z] \in Seq(Drags!Items)
  BY <1>1, <1>3 DEF DragTypes, Still, Resting, Lists
<1>5. i \in Nat /\ i + 1 \in 1 .. Len(told[z]) /\ told[z][i + 1] \in Drags!Items
  BY <1>4 DEF Drags!Positions
<1>6. /\ payload' \in Dragged /\ payload'.zone = z /\ payload'.index = i
      /\ payload'.item = told[z][i + 1]
  BY <1>2, <1>4, <1>5 DEF Dragged
<1> HIDE DEF drag
<1>7. r \in ZoneType BY <1>4, <1>5 DEF ZoneType
<1>8. /\ r.children = told[z] /\ r.active = i /\ r.rendered = zone[z].rendered
      /\ r.prev = zone[z].prev /\ r.back = zone[z].back /\ r.dragging = zone[z].dragging
      /\ r.placeholder = zone[z].placeholder /\ r.counter = zone[z].counter /\ r.state = zone[z].state
  BY <1>4 DEF ZoneType
<1>9. zone' \in [Zones -> ZoneType] /\ zone'[z] = r /\ \A y \in Zones : y # z => zone'[y] = zone[y]
  BY <1>1, <1>2, <1>7 DEF DragTypes
<1> HIDE DEF r
<1>10. ASSUME NEW y \in Zones
       PROVE  /\ GoesBackTo(zone'[y]) = told'[y] /\ Clean(zone'[y])
              /\ \A d \in Ends : zone'[y].back[d] # y
  BY <1>1, <1>2, <1>3, <1>8, <1>9 DEF Kept, GoesBackTo, Clean
<1>11. i \in 0 .. Len(Rest(z)') /\ Drags!With(Rest(z)', i, told[z][i + 1]) = told[z]
  <2>1. Rest(z)' = Drags!Without(told[z], i) BY <1>2, <1>6 DEF Rest
  <2> QED BY <2>1, <1>4, <1>5, WithWithout
<1>12. \A y \in Zones : y # z => zone'[y].active = -1 /\ zone'[y].children = Rest(y)'
  BY <1>2, <1>3, <1>6, <1>9 DEF Rest, Still, Resting
<1>13. Carried(z)'
  BY <1>2, <1>5, <1>6, <1>8, <1>9, <1>11, <1>12 DEF Carried
<1>14. EachOnce(told)' /\ told' \in Lists BY <1>1, <1>2 DEF Kept, DragTypes
<1> QED BY <1>2, <1>3, <1>6, <1>9, <1>10, <1>13, <1>14, KeysKeep

LEMMA PickedFacts ==
  ASSUME DragIInv, NEW z \in Drags!Picked
  PROVE  /\ z \in Zones /\ pointer.source = None /\ Carried(z) /\ ~byMouse
         /\ \A y \in Zones : Clean(zone[y])
<1>1. z \in Zones /\ zone[z].active >= 0 BY DEF Drags!Picked
<1>2. zone[z].active # -1 BY <1>1
<1>3. pointer.source = None
  <2> SUFFICES ASSUME pointer.source # None PROVE FALSE OBVIOUS
  <2>1. CASE Underway BY <2>1, <1>1, <1>2 DEF Underway, Still, Resting
  <2>2. CASE LandedWithin BY <2>2, <1>1, <1>2 DEF LandedWithin, Still, Resting
  <2>3. CASE LandedInOther BY <2>3, <1>1, <1>2 DEF LandedInOther, Resting
  <2> QED BY <2>1, <2>2, <2>3 DEF DragIInv, ByPointer
<1>4. ~Still BY <1>1, <1>2 DEF Still, Resting
<1>5. PICK y \in Zones : Carried(y) BY <1>3, <1>4 DEF DragIInv, ByKeys
<1>6. y = z BY <1>1, <1>2, <1>5 DEF Carried
<1>7. \A x \in Zones : Clean(zone[x]) BY <1>3 DEF DragIInv, NoDrag
<1> QED BY <1>1, <1>3, <1>5, <1>6, <1>7 DEF Carried

(* Where the item is that is carried.                                      *)
LEMMA CarriedFacts ==
  ASSUME DragIInv, NEW z \in Zones, Carried(z)
  PROVE  /\ payload \in Dragged /\ payload.zone \in Zones /\ payload.index \in Nat
         /\ payload.item \in Drags!Items /\ payload.index + 1 \in 1 .. Len(told[payload.zone])
         /\ payload.item = told[payload.zone][payload.index + 1]
         /\ zone[z].active \in Nat
         /\ \A y \in Zones : Rest(y) \in Seq(Drags!Items)
         /\ zone[z].active + 1 \in 1 .. Len(zone[z].children)
         /\ zone[z].children[zone[z].active + 1] = payload.item
         /\ Drags!Without(zone[z].children, zone[z].active) = Rest(z)
         /\ Len(zone[z].children) = Len(Rest(z)) + 1
<1>1. payload \in Dragged /\ payload.zone \in Zones /\ payload.index \in Nat
      /\ payload.item \in Drags!Items
  BY DEF Carried, Dragged
<1>2. payload.index + 1 \in 1 .. Len(told[payload.zone])
      /\ payload.item = told[payload.zone][payload.index + 1]
  BY DEF Carried
<1>3. ASSUME NEW y \in Zones PROVE Rest(y) \in Seq(Drags!Items)
  <2>1. told[y] \in Seq(Drags!Items) BY DEF DragIInv, DragTypes, Lists
  <2>2. CASE y = payload.zone
    <3>1. Drags!Without(told[y], payload.index) \in Seq(Drags!Items)
      BY <2>1, <2>2, <1>1, <1>2, WithoutFacts
    <3> QED BY <3>1, <2>2 DEF Rest
  <2>3. CASE y # payload.zone BY <2>1, <2>3 DEF Rest
  <2> QED BY <2>2, <2>3
<1> DEFINE s == Rest(z)
           a == zone[z].active
           x == payload.item
<1>4. s \in Seq(Drags!Items) /\ a \in 0 .. Len(s) /\ zone[z].children = Drags!With(s, a, x)
  BY <1>3 DEF Carried
<1> HIDE DEF s, a, x
<1>5. x \in Drags!Items BY <1>1 DEF x
<1>6. /\ a + 1 \in 1 .. Len(Drags!With(s, a, x)) /\ Drags!With(s, a, x)[a + 1] = x
      /\ Drags!Without(Drags!With(s, a, x), a) = s
  BY <1>4, <1>5, WithoutWith
<1>7. a \in Nat BY <1>4
<1>8. Len(Drags!With(s, a, x)) = Len(s) + 1
  <2>1. Widened(Drags!With(s, a, x), s, Place(s, a), x) BY <1>4, <1>5, <1>7, WithFacts, Zenon
  <2> QED BY <2>1, Zenon DEF Widened
<1> QED BY <1>1, <1>2, <1>3, <1>4, <1>6, <1>7, <1>8 DEF s, a, x

(* What is put in at a place, when no placeholder is shown.                *)
LEMMA PutIn ==
  ASSUME NEW r \in ZoneType, NEW to \in Nat, r.placeholder = -1, payload.item \in Drags!Items
  PROVE  LET q == Drags!RenderItemOnDropFromOtherZone(r, to) IN
         /\ q \in ZoneType /\ q.children = Drags!With(r.children, to, payload.item) /\ q.active = to
         /\ q.prev = r.prev /\ q.rendered = r.rendered /\ q.back = r.back
         /\ q.dragging = r.dragging /\ q.placeholder = r.placeholder /\ q.state = r.state
         /\ q.counter = r.counter
<1> DEFINE c == Drags!With(r.children, to, payload.item)
           q == [r EXCEPT !.children = c, !.active = to]
<1>1. c \in Seq(Drags!Items) BY ZoneFields, WithFacts, Zenon
<1>2. Drags!RenderItemOnDropFromOtherZone(r, to) = q
  BY DEF Drags!RenderItemOnDropFromOtherZone, ZoneType
<1> HIDE DEF c
<1>3. q \in ZoneType BY <1>1 DEF ZoneType
<1>4. /\ q.children = c /\ q.active = to
      /\ q.prev = r.prev /\ q.rendered = r.rendered /\ q.back = r.back
      /\ q.dragging = r.dragging /\ q.placeholder = r.placeholder /\ q.state = r.state
      /\ q.counter = r.counter
  BY DEF ZoneType
<1> HIDE DEF q
<1> QED BY <1>2, <1>3, <1>4, Zenon DEF c

LEMMA MoveWithinKeeps ==
  ASSUME DragIInv, NEW z, NEW step \in Int, Drags!MoveWithin(z, step)
  PROVE  DragIInv'
<1> DEFINE a == zone[z].active
           to == a + step
           c == Drags!Moved(zone[z].children, a, to)
           r == [zone[z] EXCEPT !.children = c, !.active = to]
<1>1. DragTypes /\ Kept BY DEF DragIInv
<1>2. /\ z \in Drags!Picked /\ to \in Drags!Positions(z)
      /\ zone' = [zone EXCEPT ![z] = Drags!MoveItem(zone[z], a, to)]
      /\ mode' = mode /\ told' = told /\ payload' = payload /\ over' = over /\ dropped' = dropped
      /\ activeZone' = activeZone /\ pointer' = pointer /\ byMouse' = byMouse
  BY DEF Drags!MoveWithin, Drags!store
<1>3. /\ z \in Zones /\ pointer.source = None /\ Carried(z) /\ ~byMouse
      /\ \A y \in Zones : Clean(zone[y])
  BY <1>2, PickedFacts
<1>4. /\ payload \in Dragged /\ payload.item \in Drags!Items /\ a \in Nat
      /\ Rest(z) \in Seq(Drags!Items)
      /\ a + 1 \in 1 .. Len(zone[z].children) /\ zone[z].children[a + 1] = payload.item
      /\ Drags!Without(zone[z].children, a) = Rest(z)
      /\ Len(zone[z].children) = Len(Rest(z)) + 1
  BY <1>3, CarriedFacts
<1>5. zone[z] \in ZoneType BY <1>1, <1>3 DEF DragTypes
<1>6. to \in 0 .. Len(Rest(z)) /\ to \in Nat
  <2>1. to \in 0 .. (Len(zone[z].children) - 1) BY <1>2 DEF Drags!Positions
  <2>2. Len(Rest(z)) \in Nat BY <1>4
  <2> QED BY <2>1, <2>2, <1>4
<1>7. c = Drags!With(Rest(z), to, payload.item) BY <1>4 DEF Drags!Moved
<1>8. c \in Seq(Drags!Items) BY <1>4, <1>6, <1>7, WithFacts, Zenon
<1>9. Drags!MoveItem(zone[z], a, to) = r BY <1>5 DEF Drags!MoveItem, ZoneType
<1> HIDE DEF c, to
<1>10. r \in ZoneType BY <1>5, <1>6, <1>8 DEF ZoneType
<1>11. /\ r.children = c /\ r.active = to /\ r.prev = zone[z].prev /\ r.rendered = zone[z].rendered
       /\ r.back = zone[z].back /\ r.dragging = zone[z].dragging
       /\ r.placeholder = zone[z].placeholder /\ r.counter = zone[z].counter
       /\ r.state = zone[z].state
  BY <1>5 DEF ZoneType
<1> HIDE DEF r
<1>12. zone' = [zone EXCEPT ![z] = r] BY <1>2, <1>9
<1>13. /\ zone' \in [Zones -> ZoneType] /\ zone'[z] = r
       /\ \A y \in Zones : y # z => zone'[y] = zone[y]
  BY <1>1, <1>3, <1>10, <1>12 DEF DragTypes
<1>14. ASSUME NEW y \in Zones
       PROVE  /\ GoesBackTo(zone'[y]) = told'[y] /\ Clean(zone'[y])
              /\ \A d \in Ends : zone'[y].back[d] # y
  BY <1>1, <1>2, <1>3, <1>11, <1>13 DEF Kept, GoesBackTo, Clean
<1>15. \A y \in Zones : Rest(y)' = Rest(y) BY <1>2 DEF Rest
<1>16. Carried(z)'
  BY <1>2, <1>3, <1>6, <1>7, <1>11, <1>13, <1>15 DEF Carried
<1>17. EachOnce(told)' /\ told' \in Lists /\ payload' \in Dragged /\ byMouse' = FALSE
  BY <1>1, <1>2, <1>3, <1>4 DEF Kept, DragTypes
<1> QED BY <1>2, <1>3, <1>13, <1>14, <1>16, <1>17, KeysKeep

LEMMA MoveAcrossKeeps ==
  ASSUME DragIInv, NEW z, NEW d \in Ends, Drags!MoveAcross(z, d)
  PROVE  DragIInv'
<1> DEFINE a == zone[z].active
           o == Drags!Opposite(d)
           p == Drags!RemoveItem(zone[z], a)
<1>1. DragTypes /\ Kept BY DEF DragIInv
<1>3. /\ z \in Zones /\ pointer.source = None /\ Carried(z) /\ ~byMouse
      /\ \A y \in Zones : Clean(zone[y])
  BY PickedFacts DEF Drags!MoveAcross
<1>4. /\ payload \in Dragged /\ payload.item \in Drags!Items /\ a \in Nat
      /\ \A y \in Zones : Rest(y) \in Seq(Drags!Items)
      /\ a + 1 \in 1 .. Len(zone[z].children) /\ Drags!Without(zone[z].children, a) = Rest(z)
  BY <1>3, CarriedFacts
<1>5. zone[z] \in ZoneType BY <1>1, <1>3 DEF DragTypes
<1>6. PICK n \in Zones : n = Drags!NeighborOf(z, d) /\ n # z
  <2>1. zone[z].back \in [Ends -> Zones \cup {None}] /\ zone[z].back[d] # z
    BY <1>1, <1>3, <1>5, ZoneFields DEF Kept
  <2>2. Neighbors[z][d] \in (Zones \ {z}) \cup {None}
    BY <1>3, NeighborsAssumption DEF Ends, Drags!Up, Drags!Down
  <2>3. Drags!NeighborOf(z, d) # None BY DEF Drags!MoveAcross
  <2> QED BY <2>1, <2>2, <2>3 DEF Drags!NeighborOf
<1> DEFINE to == IF d = Drags!Down THEN 0 ELSE Len(zone[n].children)
           b == [zone[n].back EXCEPT ![o] = z]
           m == [zone[n] EXCEPT !.back = b]
           q == Drags!RenderItemOnDropFromOtherZone(m, to)
<1>2. /\ zone' = [zone EXCEPT
                    ![z] = Drags!RemoveItem(@, @.active),
                    ![n] = Drags!RenderItemOnDropFromOtherZone([@ EXCEPT !.back[o] = z], to)]
      /\ mode' = mode /\ told' = told /\ payload' = payload /\ over' = over /\ dropped' = dropped
      /\ activeZone' = activeZone /\ pointer' = pointer /\ byMouse' = byMouse
  BY <1>6 DEF Drags!MoveAcross, Drags!store
<1>7. zone[n] \in ZoneType /\ o \in Ends /\ Clean(zone[n])
  BY <1>1, <1>3, <1>6 DEF DragTypes, Drags!Opposite, Ends, Drags!Up, Drags!Down
<1>8. zone[n].active = -1 /\ zone[n].children = Rest(n) BY <1>3, <1>6 DEF Carried
<1>9. to \in Nat /\ to \in 0 .. Len(Rest(n))
  <2>1. Len(Rest(n)) \in Nat BY <1>4, <1>6
  <2> QED BY <2>1, <1>8
<1>10. zone' = [zone EXCEPT ![z] = p, ![n] = q]
  BY <1>1, <1>2, <1>3, <1>6 DEF DragTypes
<1>11. b \in [Ends -> Zones \cup {None}] /\ \A e \in Ends : b[e] # n
  <2>1. zone[n].back \in [Ends -> Zones \cup {None}] BY <1>7, ZoneFields
  <2>2. \A e \in Ends : zone[n].back[e] # n BY <1>1, <1>6 DEF Kept
  <2> QED BY <2>1, <2>2, <1>3, <1>6, <1>7
<1> HIDE DEF b, to, o
<1>12. m \in ZoneType BY <1>7, <1>11 DEF ZoneType
<1>13. /\ m.children = zone[n].children /\ m.prev = zone[n].prev /\ m.rendered = zone[n].rendered
       /\ m.back = b /\ m.dragging = zone[n].dragging /\ m.placeholder = zone[n].placeholder
       /\ m.counter = zone[n].counter /\ m.state = zone[n].state
  BY <1>7 DEF ZoneType
<1> HIDE DEF m
<1>14. m.placeholder = -1 BY <1>7, <1>13 DEF Clean
<1>15. /\ q \in ZoneType /\ q.children = Drags!With(m.children, to, payload.item) /\ q.active = to
       /\ q.prev = m.prev /\ q.rendered = m.rendered /\ q.back = m.back
       /\ q.dragging = m.dragging /\ q.placeholder = m.placeholder /\ q.state = m.state
       /\ q.counter = m.counter
  BY <1>4, <1>9, <1>12, <1>14, PutIn
<1>16. /\ p \in ZoneType /\ p.children = Rest(z) /\ p.active = -1
       /\ p.prev = zone[z].prev /\ p.rendered = zone[z].rendered /\ p.back = zone[z].back
       /\ p.dragging = zone[z].dragging /\ p.placeholder = zone[z].placeholder
       /\ p.state = zone[z].state /\ p.counter = zone[z].counter
  BY <1>4, <1>5, RemovedItem
<1> HIDE DEF p, q
<1>17. /\ zone' \in [Zones -> ZoneType] /\ zone'[z] = p /\ zone'[n] = q
       /\ \A y \in Zones : y # z /\ y # n => zone'[y] = zone[y]
  BY <1>1, <1>3, <1>6, <1>10, <1>15, <1>16 DEF DragTypes
<1>18. ASSUME NEW y \in Zones
       PROVE  /\ GoesBackTo(zone'[y]) = told'[y] /\ Clean(zone'[y])
              /\ \A e \in Ends : zone'[y].back[e] # y
  <2>1. GoesBackTo(zone[y]) = told[y] /\ Clean(zone[y]) /\ \A e \in Ends : zone[y].back[e] # y
    BY <1>1, <1>3 DEF Kept
  <2>2. CASE y = z BY <2>1, <2>2, <1>2, <1>16, <1>17 DEF GoesBackTo, Clean
  <2>3. CASE y = n BY <2>1, <2>3, <1>2, <1>11, <1>13, <1>15, <1>17 DEF GoesBackTo, Clean
  <2>4. CASE y # z /\ y # n BY <2>1, <2>4, <1>2, <1>17
  <2> QED BY <2>2, <2>3, <2>4
<1>19. \A y \in Zones : Rest(y)' = Rest(y) BY <1>2 DEF Rest
<1>20. Carried(n)'
  <2>1. \A y \in Zones : y # n => zone'[y].active = -1 /\ zone'[y].children = Rest(y)'
    BY <1>3, <1>16, <1>17, <1>19 DEF Carried
  <2>2. zone'[n].active = to /\ zone'[n].children = Drags!With(Rest(n)', to, payload.item)
    BY <1>6, <1>8, <1>13, <1>15, <1>17, <1>19
  <2>3. zone'[n].active \in 0 .. Len(Rest(n)') BY <2>2, <1>6, <1>9, <1>19
  <2> QED BY <2>1, <2>2, <2>3, <1>2, <1>3 DEF Carried
<1>21. EachOnce(told)' /\ told' \in Lists /\ payload' \in Dragged /\ byMouse' = FALSE
  BY <1>1, <1>2, <1>3, <1>4 DEF Kept, DragTypes
<1> QED BY <1>2, <1>3, <1>6, <1>17, <1>18, <1>20, <1>21, KeysKeep

LEMMA CancelBringsBack ==
  ASSUME DragTypes, Kept, NoDrag, NEW z \in Zones, Drags!Cancel(z), pointer.source = None, ~byMouse,
         payload \in Dragged, \A y \in Zones \ {z, payload.zone} : Resting(y)
  PROVE  DragIInv'
<1> DEFINE s == payload.zone
           backed(r) == [r EXCEPT !.active = -1, !.back = Drags!Back, !.children = GoesBackTo(r)]
<1>1. DragTypes /\ Kept OBVIOUS
<1>2. /\ z \in Drags!Picked
      /\ zone' = [y \in Zones |-> IF y \in {z, s} THEN Drags!ResetToPreviousState(zone[y]) ELSE zone[y]]
      /\ mode' = mode /\ told' = told /\ payload' = payload /\ over' = over /\ dropped' = dropped
      /\ activeZone' = activeZone /\ pointer' = pointer /\ byMouse' = byMouse
  BY DEF Drags!Cancel, Drags!store
<1>3. /\ z \in Zones /\ pointer.source = None /\ ~byMouse
      /\ \A y \in Zones : Clean(zone[y])
  BY DEF NoDrag
<1>4. payload \in Dragged /\ s \in Zones BY DEF Dragged
<1>5. Drags!Back \in [Ends -> Zones \cup {None}] /\ \A d \in Ends : Drags!Back[d] = None
  BY DEF Drags!Back, Ends, Drags!Up, Drags!Down
<1>6. ASSUME NEW y \in Zones
      PROVE  /\ backed(zone[y]) \in ZoneType /\ GoesBackTo(backed(zone[y])) = told[y]
             /\ Clean(backed(zone[y])) /\ (\A d \in Ends : backed(zone[y]).back[d] # y)
             /\ backed(zone[y]).active = -1 /\ backed(zone[y]).children = told[y]
             /\ Drags!ResetToPreviousState(zone[y]) = backed(zone[y])
  <2> DEFINE r == zone[y]
             c == GoesBackTo(r)
             q == [r EXCEPT !.active = -1, !.back = Drags!Back, !.children = c]
  <2>1. r \in ZoneType /\ c = told[y] /\ told[y] \in Seq(Drags!Items) /\ Clean(r)
    BY <1>1, <1>3 DEF DragTypes, Kept, Lists
  <2>2. Drags!ResetToPreviousState(r) = q BY DEF Drags!ResetToPreviousState, GoesBackTo
  <2>3. q = backed(zone[y]) OBVIOUS
  <2> HIDE DEF r, c, backed
  <2>4. q \in ZoneType BY <2>1, <1>5 DEF ZoneType
  <2>5. /\ q.active = -1 /\ q.back = Drags!Back /\ q.children = c /\ q.prev = r.prev
        /\ q.rendered = r.rendered /\ q.dragging = r.dragging /\ q.placeholder = r.placeholder
        /\ q.state = r.state /\ q.counter = r.counter
    BY <2>1 DEF ZoneType
  <2> HIDE DEF q
  <2>6. GoesBackTo(q) = c BY <2>5 DEF GoesBackTo, c
  <2>7. Clean(q) BY <2>1, <2>5 DEF Clean
  <2>8. \A d \in Ends : q.back[d] # y BY <2>5, <1>5, NoneFacts
  <2>9. Drags!ResetToPreviousState(zone[y]) = q BY <2>2 DEF r
  <2> QED BY <2>1, <2>3, <2>4, <2>5, <2>6, <2>7, <2>8, <2>9, Zenon
<1> HIDE DEF backed
<1>7. /\ zone' \in [Zones -> ZoneType]
      /\ \A y \in Zones : zone'[y] = IF y \in {z, s} THEN backed(zone[y]) ELSE zone[y]
  BY <1>1, <1>2, <1>6 DEF DragTypes
<1>8. ASSUME NEW y \in Zones
      PROVE  /\ GoesBackTo(zone'[y]) = told'[y] /\ Clean(zone'[y])
             /\ \A d \in Ends : zone'[y].back[d] # y
  BY <1>1, <1>2, <1>3, <1>6, <1>7 DEF Kept
<1>9. Still'
  <2> SUFFICES ASSUME NEW y \in Zones PROVE zone'[y].active = -1 /\ zone'[y].children = told'[y]
    BY DEF Still, Resting
  <2>1. CASE y \in {z, s} BY <2>1, <1>2, <1>6, <1>7
  <2>2. CASE y \notin {z, s}
    <3>1. zone[y].active = -1 /\ zone[y].children = told[y] BY <2>2 DEF Resting
    <3> QED BY <3>1, <2>2, <1>2, <1>7
  <2> QED BY <2>1, <2>2
<1>10. EachOnce(told)' /\ told' \in Lists /\ payload' \in Dragged /\ byMouse' = FALSE
  BY <1>1, <1>2, <1>3, <1>4 DEF Kept, DragTypes
<1> QED BY <1>2, <1>3, <1>7, <1>8, <1>9, <1>10, KeysRest

LEMMA CancelKeeps ==
  ASSUME DragIInv, NEW z, Drags!Cancel(z)
  PROVE  DragIInv'
<1>1. z \in Drags!Picked BY DEF Drags!Cancel
<1>2. z \in Zones /\ pointer.source = None /\ Carried(z) /\ ~byMouse BY <1>1, PickedFacts
<1>3. payload \in Dragged BY <1>2, CarriedFacts
<1>4. \A y \in Zones \ {z, payload.zone} : Resting(y) BY <1>2 DEF Carried, Rest, Resting
<1> QED BY <1>2, <1>3, <1>4, CancelBringsBack DEF DragIInv

LEMMA CancelGoneKeeps ==
  ASSUME GoneIInv, NEW z \in Zones, Drags!CancelGone(z)
  PROVE  DragIInv'
<1>1. z \in Drags!Picked /\ zone[z].active >= 0 /\ Drags!Cancel(z)
  BY DEF Drags!CancelGone, Drags!Cancel, Drags!Picked
<1>2. PICK y \in Zones : Gone(y) BY DEF GoneIInv
<1>3. y = z BY <1>1, <1>2 DEF Gone
<1>4. \A x \in Zones \ {z, payload.zone} : Resting(x) BY <1>2, <1>3 DEF Gone, Resting
<1> QED BY <1>1, <1>4, CancelBringsBack DEF GoneIInv

(* What the keyboard has moved is where the parent then has it.            *)
LEMMA ConfirmKeeps ==
  ASSUME DragIInv, NEW z, Drags!Confirm(z)
  PROVE  DragIInv'
<1> DEFINE s == payload.zone
           i == payload.index
           at == zone[z].active
           drop == [zone |-> z, index |-> at]
           a == Drags!Arrangement(payload, drop)
           m == [zone[z] EXCEPT !.prev = zone[z].children, !.back = Drags!Back]
           r == Drags!ResetRenderState(m)
           o == [zone[s] EXCEPT !.prev = zone[s].children]
           zs == [zone EXCEPT ![s] = o, ![z] = r]
<1>1. DragTypes /\ Kept BY DEF DragIInv
<1>2. /\ z \in Drags!Picked
      /\ Drags!Rerender([zone EXCEPT ![s] = Drags!Settled(@),
                           ![z] = Drags!ResetRenderState([Drags!Settled(zone[z]) EXCEPT !.back = Drags!Back])],
                        a)
      /\ mode' = mode /\ payload' = payload /\ over' = over /\ dropped' = dropped
      /\ activeZone' = activeZone /\ pointer' = pointer /\ byMouse' = byMouse
  BY DEF Drags!Confirm, Drags!store
<1>3. /\ z \in Zones /\ pointer.source = None /\ Carried(z) /\ ~byMouse
      /\ \A y \in Zones : Clean(zone[y])
  BY <1>2, PickedFacts
<1>4. /\ payload \in Dragged /\ s \in Zones /\ i \in Nat /\ i + 1 \in 1 .. Len(told[s])
      /\ payload.item = told[s][i + 1] /\ at \in Nat
  BY <1>3, CarriedFacts
<1>5. a \in Lists /\ EachOnce(a) /\ Rearranged(a, s, i, z, at)
  <2>1. told \in Lists /\ EachOnce(told) BY <1>1 DEF DragTypes, Kept
  <2>2. drop.zone = z /\ drop.index = at OBVIOUS
  <2> HIDE DEF drop
  <2> QED BY <2>1, <2>2, <1>3, <1>4, ArrangedOnce, Zenon
<1>6. ASSUME NEW y \in Zones PROVE zone[y].children = a[y]
  <2>1. a[y] = IF y = z THEN Drags!With(Rest(y), at, payload.item) ELSE Rest(y)
    BY <1>4, <1>5, Zenon DEF Rearranged, Rest
  <2> QED BY <2>1, <1>3 DEF Carried
<1>7. \A y \in Zones : zone[y] \in ZoneType /\ zone[y].children \in Seq(Drags!Items)
  BY <1>1, ZoneFields DEF DragTypes
<1>8. Drags!Back \in [Ends -> Zones \cup {None}] /\ \A d \in Ends : Drags!Back[d] = None
  BY DEF Drags!Back, Ends, Drags!Up, Drags!Down
<1>9. Drags!Rerender(zs, a)
  <2>1. Drags!Settled(zone[z]) = [zone[z] EXCEPT !.prev = zone[z].children] BY DEF Drags!Settled
  <2>2. [Drags!Settled(zone[z]) EXCEPT !.back = Drags!Back] = m BY <2>1, <1>3, <1>7 DEF ZoneType
  <2>3. [zone EXCEPT ![s] = Drags!Settled(@)] = [zone EXCEPT ![s] = o]
    BY <1>1, <1>4 DEF DragTypes, Drags!Settled
  <2> QED BY <2>2, <2>3, <1>1, <1>2, <1>3, <1>4 DEF DragTypes, Drags!Settled
<1> HIDE DEF a, drop, at
<1>10. m \in ZoneType
  <2> DEFINE c == zone[z].children
  <2>1. zone[z] \in ZoneType /\ c \in Seq(Drags!Items) BY <1>3, <1>7
  <2> HIDE DEF c
  <2>2. [zone[z] EXCEPT !.prev = c, !.back = Drags!Back] \in ZoneType BY <2>1, <1>8 DEF ZoneType
  <2> QED BY <2>2 DEF c
<1>11. m.children = zone[z].children /\ m.prev = zone[z].children /\ m.back = Drags!Back
  BY <1>3, <1>7 DEF ZoneType
<1> HIDE DEF m
<1>12. /\ r \in ZoneType /\ Clean(r) /\ r.active = -1 /\ r.children = m.children
       /\ r.prev = m.prev /\ r.back = m.back
  BY <1>10, ResetFacts
<1> HIDE DEF r
<1>13. o \in ZoneType
  <2> DEFINE c == zone[s].children
  <2>1. zone[s] \in ZoneType /\ c \in Seq(Drags!Items) BY <1>4, <1>7
  <2> HIDE DEF c
  <2>2. [zone[s] EXCEPT !.prev = c] \in ZoneType BY <2>1 DEF ZoneType
  <2> QED BY <2>2 DEF c
<1>14. /\ o.children = zone[s].children /\ o.prev = zone[s].children /\ o.back = zone[s].back
       /\ o.active = zone[s].active /\ o.dragging = zone[s].dragging
       /\ o.placeholder = zone[s].placeholder /\ o.state = zone[s].state
       /\ o.counter = zone[s].counter
  BY <1>4, <1>7 DEF ZoneType
<1> HIDE DEF o
<1>15. /\ zs \in [Zones -> ZoneType]
       /\ \A y \in Zones : zs[y] = IF y = z THEN r ELSE IF y = s THEN o ELSE zone[y]
  BY <1>1, <1>3, <1>4, <1>12, <1>13 DEF DragTypes
<1> HIDE DEF zs
<1>16. ASSUME NEW y \in Zones
       PROVE  /\ GoesBackTo(zs[y]) = a[y] /\ zs[y].children = a[y] /\ zs[y].active = -1
              /\ Clean(zs[y]) /\ \A d \in Ends : zs[y].back[d] # y
  <2>1. zone[y].children = a[y] /\ zone[y].children # None BY <1>6, <1>7, NoneFacts
  <2>2. /\ GoesBackTo(zone[y]) = told[y] /\ Clean(zone[y])
        /\ \A d \in Ends : zone[y].back[d] # y
    BY <1>1, <1>3 DEF Kept
  <2>3. CASE y = z
    <3>1. zs[y] = r BY <2>3, <1>15
    <3>2. \A d \in Ends : r.back[d] # y BY <1>8, <1>11, <1>12, NoneFacts
    <3> QED BY <3>1, <3>2, <2>1, <2>3, <1>11, <1>12 DEF GoesBackTo
  <2>4. CASE y # z /\ y = s
    <3>1. zs[y] = o BY <2>4, <1>15
    <3>2. zone[y].active = -1 BY <2>4, <1>3 DEF Carried
    <3> QED BY <3>1, <3>2, <2>1, <2>2, <2>4, <1>14 DEF GoesBackTo, Clean
  <2>5. CASE y # z /\ y # s
    <3>1. zs[y] = zone[y] BY <2>5, <1>15
    <3>2. zone[y].active = -1 /\ zone[y].children = told[y] BY <2>5, <1>3 DEF Carried, Rest
    <3> QED BY <3>1, <3>2, <2>1, <2>2
  <2> QED BY <2>3, <2>4, <2>5
<1>17. /\ told' = a /\ zone' \in [Zones -> ZoneType]
       /\ \A y \in Zones : GoesBackTo(zone'[y]) = a[y] /\ SameIn(zone'[y], zs[y])
  <2>1. mode \in {"skip", "own"} BY <1>1 DEF DragTypes
  <2>2. \A y \in Zones : GoesBackTo(zs[y]) = a[y] BY <1>16
  <2> QED BY <2>1, <2>2, <1>5, <1>9, <1>15, Rerendered, Zenon
<1>18. ASSUME NEW y \in Zones
       PROVE  /\ GoesBackTo(zone'[y]) = told'[y] /\ Clean(zone'[y]) /\ Resting(y)'
              /\ \A d \in Ends : zone'[y].back[d] # y
  BY <1>16, <1>17 DEF SameIn, Clean, Resting
<1>19. Still' BY <1>18 DEF Still
<1>20. EachOnce(told)' /\ told' \in Lists /\ payload' \in Dragged /\ byMouse' = FALSE
  BY <1>1, <1>2, <1>3, <1>4, <1>5, <1>17 DEF DragTypes
<1> QED BY <1>2, <1>3, <1>17, <1>18, <1>19, <1>20, KeysKeep

LEMMA DeleteKeeps ==
  ASSUME DragIInv, NEW z \in Zones, NEW i \in Drags!Positions(z), Drags!DeleteItem(z, i)
  PROVE  DragIInv'
<1> DEFINE c == Drags!Without(zone[z].children, i)
           q == [zone[z] EXCEPT !.children = c]
           zs == [zone EXCEPT ![z] = q]
           a == [told EXCEPT ![z] = Drags!Without(@, i)]
<1>1. DragTypes /\ Kept BY DEF DragIInv
<1>2. /\ Drags!Idle /\ mode # "own" /\ byMouse' = FALSE
      /\ Drags!Rerender([zone EXCEPT ![z].children = Drags!Without(@, i)], a)
      /\ mode' = mode /\ payload' = payload /\ over' = over /\ dropped' = dropped
      /\ activeZone' = activeZone /\ pointer' = pointer
  BY DEF Drags!DeleteItem, Drags!store, Drags!Begins
<1>3. pointer.source = None /\ Still /\ \A y \in Zones : Clean(zone[y]) BY <1>2, StillAtFirst
<1>4. /\ zone[z] \in ZoneType /\ zone[z].children = told[z] /\ told[z] \in Seq(Drags!Items)
      /\ told \in Lists /\ EachOnce(told)
  BY <1>1, <1>3 DEF DragTypes, Still, Resting, Lists, Kept
<1>5. i \in Nat /\ i + 1 \in 1 .. Len(told[z]) BY <1>4 DEF Drags!Positions
<1>6. a \in Lists /\ EachOnce(a) BY <1>4, <1>5, OnceWithout
<1>7. /\ a[z] = c /\ \A y \in Zones : y # z => a[y] = told[y] BY <1>4 DEF Lists
<1>8. Drags!Rerender(zs, a) BY <1>2
<1> HIDE DEF a
<1>9. c \in Seq(Drags!Items) BY <1>6, <1>7 DEF Lists
<1> HIDE DEF c
<1>10. /\ q \in ZoneType /\ q.children = c /\ q.active = zone[z].active /\ q.back = zone[z].back
       /\ q.dragging = zone[z].dragging /\ q.placeholder = zone[z].placeholder
       /\ q.state = zone[z].state /\ q.counter = zone[z].counter
  BY <1>4, <1>9 DEF ZoneType
<1> HIDE DEF q
<1>11. zs \in [Zones -> ZoneType] /\ zs[z] = q /\ \A y \in Zones : y # z => zs[y] = zone[y]
  BY <1>1, <1>10 DEF DragTypes
<1> HIDE DEF zs
<1>12. /\ told' = a /\ zone' \in [Zones -> ZoneType]
       /\ \A y \in Zones : GoesBackTo(zone'[y]) = a[y] /\ SameIn(zone'[y], zs[y])
  <2>1. mode \in {"skip", "own"} BY <1>1 DEF DragTypes
  <2> QED BY <2>1, <1>2, <1>6, <1>8, <1>11, Rerendered, Zenon
<1>13. ASSUME NEW y \in Zones
       PROVE  /\ zs[y].children = a[y] /\ zs[y].active = -1 /\ Clean(zs[y])
              /\ \A d \in Ends : zs[y].back[d] # y
  <2>1. /\ zone[y].children = told[y] /\ zone[y].active = -1 /\ Clean(zone[y])
        /\ \A d \in Ends : zone[y].back[d] # y
    BY <1>1, <1>3 DEF Still, Resting, Kept
  <2>2. CASE y = z BY <2>1, <2>2, <1>7, <1>10, <1>11 DEF Clean
  <2>3. CASE y # z BY <2>1, <2>3, <1>7, <1>11
  <2> QED BY <2>2, <2>3
<1>14. ASSUME NEW y \in Zones
       PROVE  /\ GoesBackTo(zone'[y]) = told'[y] /\ Clean(zone'[y]) /\ Resting(y)'
              /\ \A d \in Ends : zone'[y].back[d] # y
  BY <1>12, <1>13 DEF SameIn, Clean, Resting
<1>15. Still' BY <1>14 DEF Still
<1>16. payload' \in Dragged \cup {None} BY <1>1, <1>2 DEF DragTypes
<1>17. EachOnce(told)' /\ told' \in Lists BY <1>6, <1>12
<1> QED BY <1>2, <1>3, <1>12, <1>14, <1>15, <1>16, <1>17, KeysKeep

(* The parent takes the item away from where it has it, the zone from     *)
(* where it was carried to.                                                *)
LEMMA DeletePickedGoes ==
  ASSUME DragIInv, NEW z \in Zones, Drags!DeletePicked(z)
  PROVE  GoneIInv'
<1> DEFINE s == payload.zone
           i == payload.index
           at == zone[z].active
           c == Drags!Without(zone[z].children, at)
           q == [zone[z] EXCEPT !.children = c]
           zs == [zone EXCEPT ![z] = q]
           a == [told EXCEPT ![s] = Drags!Without(@, i)]
<1>1. DragTypes /\ Kept /\ NoDrag BY DEF DragIInv
<1>2. /\ z \in Drags!Picked /\ mode # "own"
      /\ Drags!Rerender([zone EXCEPT ![z].children = Drags!Without(@, zone[z].active)], a)
      /\ mode' = mode /\ payload' = payload /\ over' = over /\ dropped' = dropped
      /\ activeZone' = activeZone /\ pointer' = pointer /\ byMouse' = byMouse
  BY DEF Drags!DeletePicked, Drags!store
<1>3. pointer.source = None /\ Carried(z) /\ ~byMouse /\ \A y \in Zones : Clean(zone[y])
  BY <1>2, PickedFacts
<1>4. /\ payload \in Dragged /\ s \in Zones /\ i \in Nat /\ i + 1 \in 1 .. Len(told[s])
      /\ at \in Nat /\ c = Rest(z) /\ Rest(z) \in Seq(Drags!Items)
  BY <1>3, CarriedFacts
<1>5. told \in Lists /\ EachOnce(told) BY <1>1 DEF DragTypes, Kept
<1>6. a \in Lists /\ EachOnce(a)
  <2>1. PICK m : m = a OBVIOUS
  <2> QED BY <2>1, <1>4, <1>5, OnceWithout
<1>7. \A y \in Zones : a[y] = Rest(y) BY <1>4, <1>5 DEF Lists, Rest
<1>8. Drags!Rerender(zs, a) BY <1>1, <1>2 DEF DragTypes
<1>9. at \in 0 .. Len(a[z]) BY <1>3, <1>7 DEF Carried
<1> HIDE DEF a
<1> HIDE DEF c, at
<1>10. /\ q \in ZoneType /\ q.children = c /\ q.active = zone[z].active /\ q.back = zone[z].back
       /\ q.dragging = zone[z].dragging /\ q.placeholder = zone[z].placeholder
       /\ q.state = zone[z].state /\ q.counter = zone[z].counter
  BY <1>1, <1>4 DEF DragTypes, ZoneType
<1> HIDE DEF q
<1>11. zs \in [Zones -> ZoneType] /\ zs[z] = q /\ \A y \in Zones : y # z => zs[y] = zone[y]
  BY <1>1, <1>10 DEF DragTypes
<1> HIDE DEF zs
<1>12. /\ told' = a /\ zone' \in [Zones -> ZoneType]
       /\ \A y \in Zones : GoesBackTo(zone'[y]) = a[y] /\ SameIn(zone'[y], zs[y])
  <2>1. mode \in {"skip", "own"} BY <1>1 DEF DragTypes
  <2> QED BY <2>1, <1>2, <1>6, <1>8, <1>11, Rerendered, Zenon
<1>13. ASSUME NEW y \in Zones
       PROVE  /\ zs[y].children = a[y] /\ Clean(zs[y]) /\ \A d \in Ends : zs[y].back[d] # y
              /\ zs[y].active = IF y = z THEN at ELSE -1
  <2>1. Clean(zone[y]) /\ \A d \in Ends : zone[y].back[d] # y BY <1>1, <1>3 DEF Kept
  <2>2. CASE y = z BY <2>1, <2>2, <1>4, <1>7, <1>10, <1>11 DEF Clean, at
  <2>3. CASE y # z BY <2>1, <2>3, <1>3, <1>7, <1>11 DEF Carried
  <2> QED BY <2>2, <2>3
<1>14. ASSUME NEW y \in Zones
       PROVE  /\ GoesBackTo(zone'[y]) = told'[y] /\ Clean(zone'[y])
              /\ (\A d \in Ends : zone'[y].back[d] # y) /\ zone'[y].children = told'[y]
              /\ zone'[y].active = IF y = z THEN at ELSE -1
  BY <1>12, <1>13 DEF SameIn, Clean
<1>15. Gone(z)' BY <1>9, <1>12, <1>14 DEF Gone
<1>16. DragTypes' BY <1>1, <1>2, <1>6, <1>12 DEF DragTypes
<1>17. Kept' BY <1>6, <1>12, <1>14 DEF Kept
<1>18. NoDrag' BY <1>1, <1>2, <1>3, <1>14 DEF NoDrag
<1> QED BY <1>2, <1>3, <1>4, <1>15, <1>16, <1>17, <1>18 DEF GoneIInv

--------------------------------------------------------------------------------
(* The theorems                                                            *)

LEMMA MouseKeeps == ASSUME DragIInv, Drags!Mouse PROVE DragIInv'
<1>1. CASE \E z \in Zones : Drags!OnDragEnter(z) BY <1>1, DragEnterKeeps
<1>2. CASE \E z \in Zones : Drags!OnDrop(z) BY <1>2, DropKeeps
<1>3. CASE \E z \in Zones : \E i \in Drags!Positions(z) : Drags!OnDragStart(z, i)
  BY <1>3, DragStartKeeps
<1>4. CASE \E z \in Zones : \E h \in Drags!Hovered(z), refused \in BOOLEAN :
             Drags!OnDragOver(z, h, refused)
  BY <1>4, DragOverKeeps
<1>5. CASE Drags!MovesOutside BY <1>5, OutsideKeeps
<1>6. CASE Drags!OnDragLeave BY <1>6, DragLeaveKeeps
<1>7. CASE Drags!OnDragEnd BY <1>7, DragEndKeeps
<1> QED BY <1>1, <1>2, <1>3, <1>4, <1>5, <1>6, <1>7, Zenon DEF Drags!Mouse

LEMMA KeyboardKeeps == ASSUME DragIInv, Drags!Keyboard PROVE DragIInv'
<1>0. Drags!Up \in Ends /\ Drags!Down \in Ends /\ 1 \in Int /\ -1 \in Int
  BY DEF Drags!Up, Drags!Down, Ends
<1> SUFFICES ASSUME NEW z \in Zones,
                    \/ Drags!Confirm(z) \/ Drags!Cancel(z)
                    \/ Drags!MoveWithin(z, 1) \/ Drags!MoveWithin(z, -1)
                    \/ Drags!MoveAcross(z, Drags!Up) \/ Drags!MoveAcross(z, Drags!Down)
                    \/ \E i \in Drags!Positions(z) : Drags!Pick(z, i) \/ Drags!DeleteItem(z, i)
             PROVE  DragIInv'
  BY Zenon DEF Drags!Keyboard
<1>1. CASE Drags!Confirm(z) BY <1>1, ConfirmKeeps
<1>2. CASE Drags!Cancel(z) BY <1>2, CancelKeeps
<1>3. CASE Drags!MoveWithin(z, 1) BY <1>0, <1>3, MoveWithinKeeps
<1>4. CASE Drags!MoveWithin(z, -1) BY <1>0, <1>4, MoveWithinKeeps
<1>5. CASE Drags!MoveAcross(z, Drags!Up) BY <1>0, <1>5, MoveAcrossKeeps
<1>6. CASE Drags!MoveAcross(z, Drags!Down) BY <1>0, <1>6, MoveAcrossKeeps
<1>7. ASSUME NEW i \in Drags!Positions(z), Drags!Pick(z, i) PROVE DragIInv' BY <1>7, PickKeeps
<1>8. ASSUME NEW i \in Drags!Positions(z), Drags!DeleteItem(z, i) PROVE DragIInv'
  BY <1>8, DeleteKeeps
<1> QED BY <1>1, <1>2, <1>3, <1>4, <1>5, <1>6, <1>7, <1>8, Zenon

LEMMA DragRests == ASSUME DragIInv, UNCHANGED Drags!vars PROVE DragIInv'
<1>1. /\ mode' = mode /\ zone' = zone /\ told' = told /\ payload' = payload /\ over' = over
      /\ dropped' = dropped /\ activeZone' = activeZone /\ pointer' = pointer
      /\ byMouse' = byMouse
  BY DEF Drags!vars, Drags!store
<1>2. DragTypes' /\ Kept' BY <1>1 DEF DragIInv, DragTypes, Kept
<1>3. NoDrag' BY <1>1 DEF DragIInv, NoDrag, Still, Resting
<1>4. ByKeys' BY <1>1 DEF DragIInv, ByKeys, Still, Resting, Carried, Rest
<1>5. ByPointer'
  <2>1. Underway => Underway'
    <3>1. Taken' = Taken /\ Still' = Still /\ Accepted' = Accepted
      BY <1>1 DEF Taken, Still, Resting, Accepted, TellsTruth
    <3>2. \A z \in Zones : UnderwayIn(z)' = UnderwayIn(z) BY <1>1 DEF UnderwayIn, Inside
    <3> QED BY <1>1, <3>1, <3>2, Zenon DEF Underway
  <2>2. LandedWithin => LandedWithin' BY <1>1 DEF LandedWithin, Still, Resting
  <2>3. LandedInOther => LandedInOther' BY <1>1 DEF LandedInOther, Resting
  <2> QED BY <1>1, <2>1, <2>2, <2>3 DEF DragIInv, ByPointer
<1> QED BY <1>2, <1>3, <1>4, <1>5 DEF DragIInv

LEMMA DragStays == ASSUME DragsIInv, [Drags!Next]_(Drags!vars) PROVE DragsIInv'
<1>1. CASE ~pickGone /\ (Drags!Mouse \/ Drags!Keyboard) /\ UNCHANGED pickGone
  BY <1>1, MouseKeeps, KeyboardKeeps DEF DragsIInv
<1>2. ASSUME NEW z \in Zones, Drags!DeletePicked(z) PROVE DragsIInv'
  <2>1. ~pickGone /\ pickGone' = TRUE BY <1>2 DEF Drags!DeletePicked
  <2> QED BY <2>1, <1>2, DeletePickedGoes DEF DragsIInv
<1>3. ASSUME NEW z \in Zones, Drags!CancelGone(z) PROVE DragsIInv'
  <2>1. pickGone /\ pickGone' = FALSE BY <1>3 DEF Drags!CancelGone
  <2> QED BY <2>1, <1>3, CancelGoneKeeps DEF DragsIInv
<1>4. CASE UNCHANGED Drags!vars
  <2>1. /\ mode' = mode /\ zone' = zone /\ told' = told /\ payload' = payload /\ over' = over
        /\ dropped' = dropped /\ activeZone' = activeZone /\ pointer' = pointer
        /\ byMouse' = byMouse /\ pickGone' = pickGone
    BY <1>4 DEF Drags!vars, Drags!store
  <2>2. CASE pickGone
    <3>1. GoneIInv BY <2>2 DEF DragsIInv
    <3>2. DragTypes' /\ Kept' /\ NoDrag' BY <3>1, <2>1 DEF GoneIInv, DragTypes, Kept, NoDrag, Still, Resting
    <3>3. \E y \in Zones : Gone(y)' BY <3>1, <2>1 DEF GoneIInv, Gone
    <3> QED BY <3>1, <3>2, <3>3, <2>1, <2>2 DEF GoneIInv, DragsIInv
  <2>3. CASE ~pickGone BY <2>1, <2>3, <1>4, DragRests DEF DragsIInv
  <2> QED BY <2>2, <2>3
<1> QED BY <1>1, <1>2, <1>3, <1>4 DEF Drags!Next

DragStep == LibraryOthers /\ LibraryNext

LEMMA OfDrag == ASSUME [DragStep]_libraryVars PROVE [Drags!Next]_(Drags!vars)
<1>0. UNCHANGED dragVars => UNCHANGED Drags!vars BY DEF dragVars, Drags!vars, Drags!store
<1>1. CASE UNCHANGED libraryVars BY <1>0, <1>1, Zenon DEF libraryVars
<1>2. CASE DragStep
  <2>1. CASE part = "drag" BY <1>2, <2>1, Zenon DEF DragStep, LibraryNext
  <2>2. CASE part # "drag"
    <3>1. UNCHANGED dragVars BY <1>2, <2>2, Zenon DEF DragStep, LibraryOthers
    <3> QED BY <1>0, <3>1
  <2> QED BY <2>1, <2>2
<1> QED BY <1>1, <1>2

LEMMA DragIsSound == "controlled" \notin Modes /\ LibrarySpec => []DragsIInv
<1>1. "controlled" \notin Modes /\ LibraryInit => DragsIInv BY DragsBegin, Zenon DEF LibraryInit, DragsIInv, Drags!Init
<1>2. DragsIInv /\ [DragStep]_libraryVars => DragsIInv' BY OfDrag, DragStays, Zenon
<1> QED BY <1>1, <1>2, PTL DEF LibrarySpec, DragStep

\* After every drag, dropped or given up, the store is empty and no zone is
\* in a state of the drag (_onDragEnd and DragAndDropStore.reset), unless a
\* parent is controlled.
THEOREM DragsEndClean == "controlled" \notin Modes /\ LibrarySpec => []StateCleared
<1>1. DragsIInv => StateCleared BY StateStaysCleared DEF StateCleared
<1> QED BY <1>1, DragIsSound, PTL

\* Between gestures the zones show what the parent was told, and where a zone
\* accepts a drop, it lands at the placeholder that is shown (onDrop, _onDrop,
\* getDropIndex and getPlaceHolderIndex), unless a parent is controlled.
THEOREM DropsLand == "controlled" \notin Modes /\ LibrarySpec => []DropsLandWhereShown
<1>1. DragsIInv => DropsLandWhereShown
  BY DragsAreTyped, ParentStaysAgreed, PlaceholderStaysTrue DEF DropsLandWhereShown
<1> QED BY <1>1, DragIsSound, PTL
================================================================================
