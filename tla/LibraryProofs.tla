----------------------------- MODULE LibraryProofs -----------------------------
(***************************************************************************)
(* Proofs about the parts of Library, for every value of the constants:    *)
(* of each part an inductive invariant, and that it begins with it, keeps  *)
(* it and has what it says; at the end, of all of them together.           *)
(***************************************************************************)
EXTENDS Library, CacheProofs, FiniteSetTheorems, SequenceTheorems, Selection, TLAPS

(* f can be applied to a again and again, and g after so many turns.       *)
CanRepeat(S, a, f) == \E q \in [Nat -> S] : q[0] = a /\ \A n \in Nat : q[n + 1] = f[q[n]]
CanLoop(c, g, N) == \E h : h = [i \in 0 .. N |-> IF i = 0 THEN c ELSE g[<<i, h[i - 1]>>]]

LEMMA Repeats ==
  ASSUME NEW S, NEW a \in S, NEW f \in [S -> S]
  PROVE  CanRepeat(S, a, f)
BY Iterates DEF CanRepeat

(* What is computed in a loop: h[i] is had after the i-th turn.            *)
LEMMA Loops ==
  ASSUME NEW X, NEW c \in X, NEW g \in [Nat \X X -> X], NEW N \in Nat
  PROVE  CanLoop(c, g, N)
<1> DEFINE S == Nat \X X
           f == [p \in S |-> <<p[1] + 1, g[<<p[1] + 1, p[2]>>]>>]
<1>1. <<0, c>> \in S OBVIOUS
<1>2. f \in [S -> S]
  <2>1. \A p \in S : p[1] + 1 \in Nat /\ p[2] \in X OBVIOUS
  <2>2. \A p \in S : g[<<p[1] + 1, p[2]>>] \in X BY <2>1
  <2> QED BY <2>1, <2>2
<1>3. \A p \in S : f[p] = <<p[1] + 1, g[<<p[1] + 1, p[2]>>]>> OBVIOUS
<1> HIDE DEF f
<1>4. PICK q \in [Nat -> S] : q[0] = <<0, c>> /\ \A n \in Nat : q[n + 1] = f[q[n]]
  <2> DEFINE a == <<0, c>>
  <2>1. a \in S BY <1>1
  <2> HIDE DEF S, a
  <2>2. CanRepeat(S, a, f) BY <2>1, <1>2, Repeats, Zenon
  <2> QED BY <2>2, Zenon DEF CanRepeat, a
<1>5. \A n \in Nat : q[n][1] = n
  <2> DEFINE W == {n \in Nat : q[n][1] # n}
  <2>1. SUFFICES ASSUME W # {} PROVE FALSE OBVIOUS
  <2>2. W \in SUBSET Nat OBVIOUS
  <2>3. PICK w \in W : \A x \in W : w <= x
    <3> HIDE DEF W
    <3> QED BY <2>1, <2>2, LeastNumber
  <2>4. w # 0 BY <1>4
  <2>5. w - 1 \in Nat /\ ~ (w - 1 \in W) /\ (w - 1) + 1 = w BY <2>3, <2>4
  <2>6. q[w - 1][1] = w - 1 /\ q[w - 1] \in S BY <2>5
  <2>7. q[w] = f[q[w - 1]] BY <1>4, <2>5
  <2>8. f[q[w - 1]] = <<q[w - 1][1] + 1, g[<<q[w - 1][1] + 1, q[w - 1][2]>>]>> BY <2>6, <1>3, Zenon
  <2>9. f[q[w - 1]][1] = q[w - 1][1] + 1 BY <2>8
  <2> QED BY <2>5, <2>6, <2>7, <2>9
<1> DEFINE h == [i \in 0 .. N |-> q[i][2]]
<1>6. ASSUME NEW i \in 0 .. N PROVE h[i] = IF i = 0 THEN c ELSE g[<<i, h[i - 1]>>]
  <2>1. CASE i = 0 BY <2>1, <1>4
  <2>2. CASE i # 0
    <3>1. i - 1 \in Nat /\ i - 1 \in 0 .. N /\ (i - 1) + 1 = i BY <2>2
    <3>2. q[i] = f[q[i - 1]] /\ q[i - 1] \in S /\ q[i - 1][1] = i - 1 BY <3>1, <1>4, <1>5
    <3>4. f[q[i - 1]] = <<q[i - 1][1] + 1, g[<<q[i - 1][1] + 1, q[i - 1][2]>>]>> BY <3>2, <1>3, Zenon
    <3>3. q[i][2] = g[<<i, q[i - 1][2]>>] BY <3>1, <3>2, <3>4
    <3> QED BY <3>1, <3>3, <2>2
  <2> QED BY <2>1, <2>2
<1>7. h = [i \in 0 .. N |-> IF i = 0 THEN c ELSE g[<<i, h[i - 1]>>]]
  <2>1. h = [i \in 0 .. N |-> h[i]] OBVIOUS
  <2> HIDE DEF h
  <2> QED BY <1>6, <2>1
<1> QED BY <1>7 DEF CanLoop

--------------------------------------------------------------------------------
(* Selected                                                                *)

SelectedUpTo(s, T, h) ==
  h = [i \in 0 .. Len(s) |->
         IF i = 0 THEN <<>> ELSE IF s[i] \in T THEN Append(h[i - 1], s[i]) ELSE h[i - 1]]

LEMMA SelectedLoop ==
  ASSUME NEW S, NEW s \in Seq(S), NEW T
  PROVE  \E h \in [0 .. Len(s) -> Seq(S)] : SelectedUpTo(s, T, h) /\ Selected(s, T) = h[Len(s)]
<1> DEFINE X == Seq(S)
           g == [p \in Nat \X X |-> IF p[1] \in 1 .. Len(s) /\ s[p[1]] \in T THEN Append(p[2], s[p[1]])
                                    ELSE p[2]]
<1>1. Len(s) \in Nat /\ <<>> \in X OBVIOUS
<1>2. g \in [Nat \X X -> X] OBVIOUS
<1>3. \A i \in Nat, x \in X :
        g[<<i, x>>] = IF i \in 1 .. Len(s) /\ s[i] \in T THEN Append(x, s[i]) ELSE x
  <2>1. \A i \in Nat, x \in X : <<i, x>> \in Nat \X X /\ <<i, x>>[1] = i /\ <<i, x>>[2] = x OBVIOUS
  <2> QED BY <2>1
<1> HIDE DEF g, X
<1>4. PICK k : k = [i \in 0 .. Len(s) |-> IF i = 0 THEN <<>> ELSE g[<<i, k[i - 1]>>]]
  <2> DEFINE N == Len(s)
             c == <<>>
  <2>1. N \in Nat /\ c \in X BY <1>1
  <2> HIDE DEF N, c
  <2>2. CanLoop(c, g, N) BY <2>1, <1>2, Loops, Zenon
  <2> QED BY <2>2, Zenon DEF CanLoop, N, c
<1>5. k \in [0 .. Len(s) -> X]
  <2> DEFINE W == {i \in 0 .. Len(s) : k[i] \notin X}
  <2>1. SUFFICES ASSUME W # {} PROVE FALSE BY <1>4
  <2>2. W \in SUBSET Nat BY <1>1
  <2>3. PICK w \in W : \A x \in W : w <= x
    <3> HIDE DEF W
    <3> QED BY <2>1, <2>2, LeastNumber
  <2>4. w # 0 BY <1>1, <1>4
  <2>5. w - 1 \in 0 .. Len(s) /\ ~ (w - 1 \in W) /\ w \in Nat BY <2>3, <2>4, <1>1
  <2>6. k[w - 1] \in X BY <2>5
  <2>7. g[<<w, k[w - 1]>>] \in X BY <2>5, <2>6, <1>2
  <2> QED BY <2>3, <2>4, <2>7, <1>4
<1>6. SelectedUpTo(s, T, k)
  <2>1. ASSUME NEW i \in 0 .. Len(s)
        PROVE (IF i = 0 THEN <<>> ELSE g[<<i, k[i - 1]>>])
                = IF i = 0 THEN <<>> ELSE IF s[i] \in T THEN Append(k[i - 1], s[i]) ELSE k[i - 1]
    <3>1. CASE i # 0
      <4>1. i - 1 \in 0 .. Len(s) /\ i \in 1 .. Len(s) /\ i \in Nat BY <3>1, <1>1
      <4>2. k[i - 1] \in X BY <4>1, <1>5
      <4> QED BY <4>1, <4>2, <1>3
    <3> QED BY <3>1
  <2> QED BY <1>4, <2>1 DEF SelectedUpTo
<1> DEFINE h == CHOOSE h : SelectedUpTo(s, T, h)
<1>7. SelectedUpTo(s, T, h) BY <1>6
<1>8. Selected(s, T) = h[Len(s)] BY Zenon DEF Selected, SelectedUpTo
<1> HIDE DEF h
<1>9. h = k
  <2>1. DOMAIN h = 0 .. Len(s) /\ DOMAIN k = 0 .. Len(s) BY <1>6, <1>7, Zenon DEF SelectedUpTo
  <2> DEFINE W == {i \in 0 .. Len(s) : k[i] # h[i]}
  <2>2. SUFFICES ASSUME W # {} PROVE FALSE
    <3>1. h = [i \in 0 .. Len(s) |-> h[i]] BY <1>7, Zenon DEF SelectedUpTo
    <3>2. k = [i \in 0 .. Len(s) |-> k[i]] BY <1>6, Zenon DEF SelectedUpTo
    <3> QED BY <3>1, <3>2
  <2>3. W \in SUBSET Nat BY <1>1
  <2>4. PICK w \in W : \A x \in W : w <= x
    <3> HIDE DEF W
    <3> QED BY <2>2, <2>3, LeastNumber
  <2>5. w # 0 BY <1>1, <1>6, <1>7 DEF SelectedUpTo
  <2>6. w - 1 \in 0 .. Len(s) /\ ~ (w - 1 \in W) BY <2>4, <2>5, <1>1
  <2>7. k[w - 1] = h[w - 1] BY <2>6
  <2>8. k[w] = IF s[w] \in T THEN Append(k[w - 1], s[w]) ELSE k[w - 1]
    BY <2>5, <1>6, Zenon DEF SelectedUpTo
  <2>9. h[w] = IF s[w] \in T THEN Append(h[w - 1], s[w]) ELSE h[w - 1]
    BY <2>5, <1>7, Zenon DEF SelectedUpTo
  <2> QED BY <2>7, <2>8, <2>9
<1> QED BY <1>5, <1>6, <1>8, <1>9 DEF X

(* e tells the places, among the first n, of the elements of s that t has. *)
Picks(s, T, n, t, e) ==
  /\ e \in [1 .. Len(t) -> 1 .. n] /\ Len(t) <= n
  /\ Len(t) = n => \A j \in 1 .. n : s[j] \in T
  /\ \A i, j \in 1 .. Len(t) : i < j => e[i] < e[j]
  /\ \A i \in 1 .. Len(t) : t[i] = s[e[i]]
  /\ \A j \in 1 .. n : s[j] \in T <=> \E i \in 1 .. Len(t) : e[i] = j

LEMMA PicksOneMore ==
  ASSUME NEW S, NEW s \in Seq(S), NEW T, NEW n \in 1 .. Len(s), NEW t \in Seq(S), NEW e,
         Picks(s, T, n - 1, t, e)
  PROVE  \E d : Picks(s, T, n, IF s[n] \in T THEN Append(t, s[n]) ELSE t, d)
<1>1. /\ Len(s) \in Nat /\ n \in Nat /\ Len(t) \in Nat /\ n - 1 \in Nat /\ s[n] \in S
      /\ e \in [1 .. Len(t) -> 1 .. n - 1]
  BY DEF Picks
<1>2. CASE s[n] \notin T
  <2>1. e \in [1 .. Len(t) -> 1 .. n] /\ Len(t) <= n /\ Len(t) # n
    <3>1. Len(t) <= n - 1 BY Zenon DEF Picks
    <3>2. \A i \in 1 .. Len(t) : e[i] \in 1 .. n BY <1>1
    <3> QED BY <1>1, <3>1, <3>2
  <2>2. ASSUME NEW j \in 1 .. n PROVE s[j] \in T <=> \E i \in 1 .. Len(t) : e[i] = j
    <3>1. CASE j = n
      <4>1. \A i \in 1 .. Len(t) : e[i] # n BY <1>1
      <4> QED BY <4>1, <3>1, <1>2
    <3>2. CASE j # n
      <4>1. j \in 1 .. n - 1 BY <3>2, <1>1
      <4> QED BY <4>1, Zenon DEF Picks
    <3> QED BY <3>1, <3>2
  <2>3. Picks(s, T, n, t, e) BY <2>1, <2>2 DEF Picks
  <2> QED BY <2>3, <1>2
<1>3. CASE s[n] \in T
  <2> DEFINE u == Append(t, s[n])
             L == Len(t) + 1
             d == [i \in 1 .. L |-> IF i = L THEN n ELSE e[i]]
  <2>1. Len(u) = L /\ u[L] = s[n] /\ \A i \in 1 .. Len(t) : u[i] = t[i] BY <1>1
  <2>2. \A i \in 1 .. L : i = L \/ i \in 1 .. Len(t) BY <1>1
  <2>3. \A i \in 1 .. Len(t) : i \in 1 .. L /\ i # L BY <1>1
  <2>4. L \in 1 .. L /\ d[L] = n BY <1>1
  <2>5. \A i \in 1 .. Len(t) : d[i] = e[i] /\ e[i] \in 1 .. n - 1 BY <2>3, <1>1
  <2>6. d \in [1 .. L -> 1 .. n] BY <1>1, <2>2
  <2> HIDE DEF u, d
  <2>7. L <= n BY <1>1 DEF Picks
  <2>8. ASSUME NEW i \in 1 .. L, NEW j \in 1 .. L, i < j PROVE d[i] < d[j]
    <3>1. i \in 1 .. Len(t) BY <2>8, <1>1
    <3>2. CASE j = L BY <3>1, <3>2, <2>4, <2>5, <1>1
    <3>3. CASE j \in 1 .. Len(t)
      <4>1. e[i] < e[j] BY <3>1, <3>3, <2>8, Zenon DEF Picks
      <4> QED BY <4>1, <3>1, <3>3, <2>5
    <3> QED BY <3>2, <3>3, <2>2
  <2>9. ASSUME NEW i \in 1 .. L PROVE u[i] = s[d[i]]
    <3>1. CASE i = L BY <3>1, <2>1, <2>4
    <3>2. CASE i \in 1 .. Len(t)
      <4>1. t[i] = s[e[i]] BY <3>2, Zenon DEF Picks
      <4> QED BY <4>1, <3>2, <2>1, <2>5
    <3> QED BY <3>1, <3>2, <2>2
  <2>10. ASSUME NEW j \in 1 .. n PROVE s[j] \in T <=> \E i \in 1 .. L : d[i] = j
    <3>1. CASE j = n BY <3>1, <2>4, <1>3
    <3>2. CASE j # n
      <4>1. j \in 1 .. n - 1 BY <3>2, <1>1
      <4>2. s[j] \in T <=> \E i \in 1 .. Len(t) : e[i] = j BY <4>1, Zenon DEF Picks
      <4>3. (\E i \in 1 .. Len(t) : e[i] = j) <=> \E i \in 1 .. L : d[i] = j
        BY <2>2, <2>3, <2>4, <2>5, <3>2
      <4> QED BY <4>2, <4>3
    <3> QED BY <3>1, <3>2
  <2>12. L = n => \A j \in 1 .. n : s[j] \in T
    <3> SUFFICES ASSUME L = n, NEW j \in 1 .. n PROVE s[j] \in T BY Zenon
    <3>1. Len(t) = n - 1 BY <1>1
    <3>2. \A l \in 1 .. n - 1 : s[l] \in T BY <3>1, Zenon DEF Picks
    <3>3. j = n \/ j \in 1 .. n - 1 BY <1>1
    <3> QED BY <3>2, <3>3, <1>3
  <2>11. Picks(s, T, n, u, d) BY <2>1, <2>6, <2>7, <2>8, <2>9, <2>10, <2>12, Zenon DEF Picks
  <2> QED BY <2>11, <1>3 DEF u
<1> QED BY <1>2, <1>3

SelectedTurn(S, s, T, h) ==
  /\ h \in [0 .. Len(s) -> Seq(S)] /\ h[0] = <<>> /\ Selected(s, T) = h[Len(s)]
  /\ \A i \in 1 .. Len(s) : h[i] = IF s[i] \in T THEN Append(h[i - 1], s[i]) ELSE h[i - 1]

LEMMA SelectedTurns ==
  ASSUME NEW S, NEW s \in Seq(S), NEW T
  PROVE  \E h : SelectedTurn(S, s, T, h)
<1>1. PICK h \in [0 .. Len(s) -> Seq(S)] : SelectedUpTo(s, T, h) /\ Selected(s, T) = h[Len(s)]
  BY SelectedLoop
<1>2. Len(s) \in Nat OBVIOUS
<1>3. ASSUME NEW i \in 0 .. Len(s)
      PROVE  h[i] = IF i = 0 THEN <<>>
                    ELSE IF s[i] \in T THEN Append(h[i - 1], s[i]) ELSE h[i - 1]
  BY <1>1, Zenon DEF SelectedUpTo
<1>4. h[0] = <<>> BY <1>2, <1>3
<1>5. ASSUME NEW i \in 1 .. Len(s)
      PROVE  h[i] = IF s[i] \in T THEN Append(h[i - 1], s[i]) ELSE h[i - 1]
  <2>1. i \in 0 .. Len(s) /\ i # 0 BY <1>2
  <2> QED BY <2>1, <1>3, Zenon
<1> QED BY <1>1, <1>4, <1>5, Zenon DEF SelectedTurn

AppendedLast(S) == \A a, q \in Seq(S), y \in S : Append(a \o q, y) = a \o Append(q, y)

LEMMA ConcatAppend == ASSUME NEW S PROVE AppendedLast(S)
<1> SUFFICES ASSUME NEW a \in Seq(S), NEW q \in Seq(S), NEW y \in S
             PROVE  Append(a \o q, y) = a \o Append(q, y)
  BY DEF AppendedLast
<1>1. Append(q, y) = q \o <<y>> /\ Append(a \o q, y) = (a \o q) \o <<y>> /\ <<y>> \in Seq(S)
  OBVIOUS
<1> QED BY <1>1, ConcatAssociative

LEMMA SelectedPicks ==
  ASSUME NEW S, NEW s \in Seq(S), NEW T
  PROVE  Selected(s, T) \in Seq(S) /\ \E e : Picks(s, T, Len(s), Selected(s, T), e)
<1>0. PICK h : SelectedTurn(S, s, T, h) BY SelectedTurns, Zenon
<1>1. /\ h \in [0 .. Len(s) -> Seq(S)] /\ h[0] = <<>> /\ Selected(s, T) = h[Len(s)]
      /\ \A i \in 1 .. Len(s) : h[i] = IF s[i] \in T THEN Append(h[i - 1], s[i]) ELSE h[i - 1]
  BY <1>0, Zenon DEF SelectedTurn
<1>2. Len(s) \in Nat OBVIOUS
<1>5. \A n \in 0 .. Len(s) : \E e : Picks(s, T, n, h[n], e)
  <2> DEFINE W == {n \in 0 .. Len(s) : ~ \E e : Picks(s, T, n, h[n], e)}
  <2>1. SUFFICES ASSUME W # {} PROVE FALSE BY Zenon
  <2>2. W \in SUBSET Nat BY <1>2
  <2>3. PICK w \in W : \A x \in W : w <= x
    <3> HIDE DEF W
    <3> QED BY <2>1, <2>2, LeastNumber
  <2>4. w # 0
    <3>1. Picks(s, T, 0, <<>>, <<>>) BY DEF Picks
    <3> QED BY <3>1, <1>1
  <2>5. w \in 1 .. Len(s) /\ w - 1 \in 0 .. Len(s) /\ ~ (w - 1 \in W)
    <3>1. w \in 0 .. Len(s) BY <2>3
    <3>2. w \in 1 .. Len(s) /\ w - 1 \in 0 .. Len(s) /\ ~ (w <= w - 1) BY <3>1, <2>4, <1>2
    <3> HIDE DEF W
    <3> QED BY <3>2, <2>3
  <2>6. PICK e : Picks(s, T, w - 1, h[w - 1], e) BY <2>5
  <2>7. h[w - 1] \in Seq(S)
    <3>1. h \in [0 .. Len(s) -> Seq(S)] /\ w - 1 \in 0 .. Len(s) BY <1>1, <2>5, Zenon
    <3> QED BY <3>1, Zenon
  <2>8. \E d : Picks(s, T, w, IF s[w] \in T THEN Append(h[w - 1], s[w]) ELSE h[w - 1], d)
    BY <2>5, <2>6, <2>7, PicksOneMore
  <2>9. \E d : Picks(s, T, w, h[w], d) BY <2>5, <2>8, <1>1
  <2> QED BY <2>9, <2>3
<1>6. Len(s) \in 0 .. Len(s) BY <1>2
<1> QED BY <1>1, <1>5, <1>6

(* What is selected is in T, is all of T there is, and is no more.         *)
IsSelection(S, s, T, t) ==
  /\ t \in Seq(S) /\ Len(t) <= Len(s)
  /\ \A i \in 1 .. Len(t) : t[i] \in T /\ \E j \in 1 .. Len(s) : s[j] = t[i]
  /\ \A j \in 1 .. Len(s) : s[j] \in T => \E i \in 1 .. Len(t) : t[i] = s[j]
  /\ (\E j \in 1 .. Len(s) : s[j] \notin T) => Len(t) < Len(s)

LEMMA SelectedFacts ==
  ASSUME NEW S, NEW s \in Seq(S), NEW T
  PROVE  IsSelection(S, s, T, Selected(s, T))
<1>1. PICK e : Picks(s, T, Len(s), Selected(s, T), e) BY SelectedPicks
<1>2. Selected(s, T) \in Seq(S) BY SelectedPicks
<1> DEFINE t == Selected(s, T)
<1> HIDE DEF t
<1>3. /\ e \in [1 .. Len(t) -> 1 .. Len(s)] /\ Len(t) <= Len(s)
      /\ Len(t) = Len(s) => \A j \in 1 .. Len(s) : s[j] \in T
      /\ \A i \in 1 .. Len(t) : t[i] = s[e[i]]
      /\ \A j \in 1 .. Len(s) : s[j] \in T <=> \E i \in 1 .. Len(t) : e[i] = j
  BY <1>1, Zenon DEF Picks, t
<1>4. \A i \in 1 .. Len(t) : e[i] \in 1 .. Len(s) BY <1>3
<1>5. \A i \in 1 .. Len(t) : t[i] \in T /\ \E j \in 1 .. Len(s) : s[j] = t[i] BY <1>3, <1>4, Zenon
<1>6. \A j \in 1 .. Len(s) : s[j] \in T => \E i \in 1 .. Len(t) : t[i] = s[j]
  <2> SUFFICES ASSUME NEW j \in 1 .. Len(s), s[j] \in T PROVE \E i \in 1 .. Len(t) : t[i] = s[j]
    OBVIOUS
  <2>1. PICK i \in 1 .. Len(t) : e[i] = j BY <1>3
  <2> QED BY <2>1, <1>3
<1>7. (\E j \in 1 .. Len(s) : s[j] \notin T) => Len(t) < Len(s)
  <2> SUFFICES ASSUME NEW j \in 1 .. Len(s), s[j] \notin T PROVE Len(t) < Len(s) BY Zenon
  <2>1. Len(t) # Len(s) BY <1>3
  <2>2. Len(t) \in Nat /\ Len(s) \in Nat BY <1>2 DEF t
  <2> QED BY <2>1, <2>2, <1>3
<1> QED BY <1>2, <1>3, <1>5, <1>6, <1>7, Zenon DEF t, IsSelection

LEMMA SelectedEmpty == ASSUME NEW T PROVE Selected(<<>>, T) = <<>>
<1>1. <<>> \in Seq({}) OBVIOUS
<1>2. Selected(<<>>, T) \in Seq({})
  <2>1. IsSelection({}, <<>>, T, Selected(<<>>, T)) BY <1>1, SelectedFacts, Zenon
  <2> QED BY <2>1, Zenon DEF IsSelection
<1> QED BY <1>2

(* s is v with one more before it, and a is what is selected of that.      *)
FromSecond(S, v, s, a, T) ==
  /\ v \in Seq(S) /\ s \in Seq(S) /\ a \in Seq(S)
  /\ Len(s) = Len(v) + 1 /\ \A i \in 1 .. Len(v) : s[i + 1] = v[i]
  /\ s[1] \in T => a = <<s[1]>>
  /\ s[1] \notin T => a = <<>>

SelectedAfter(s, a, v, T) == Selected(s, T) = a \o Selected(v, T)

LEMMA SelectedFromSecond ==
  ASSUME NEW S, NEW v, NEW s, NEW a, NEW T, FromSecond(S, v, s, a, T)
  PROVE  SelectedAfter(s, a, v, T)
<1>0. /\ v \in Seq(S) /\ s \in Seq(S) /\ a \in Seq(S)
      /\ Len(s) = Len(v) + 1 /\ \A i \in 1 .. Len(v) : s[i + 1] = v[i]
      /\ s[1] \in T => a = <<s[1]>>
      /\ s[1] \notin T => a = <<>>
  BY Zenon DEF FromSecond
<1>1. Len(s) = Len(v) + 1 /\ Len(v) \in Nat BY <1>0
<1>2. \A i \in 1 .. Len(v) : s[i + 1] = v[i] /\ v[i] \in S
  <2>1. \A i \in 1 .. Len(v) : v[i] \in S BY <1>0
  <2> QED BY <2>1, <1>0, Zenon
<1>3. PICK h : SelectedTurn(S, s, T, h) BY <1>0, SelectedTurns, Zenon
<1>4. PICK k : SelectedTurn(S, v, T, k) BY <1>0, SelectedTurns, Zenon
<1>5. /\ h \in [0 .. Len(s) -> Seq(S)] /\ h[0] = <<>> /\ Selected(s, T) = h[Len(s)]
      /\ \A i \in 1 .. Len(s) : h[i] = IF s[i] \in T THEN Append(h[i - 1], s[i]) ELSE h[i - 1]
  BY <1>3, Zenon DEF SelectedTurn
<1>6. /\ k \in [0 .. Len(v) -> Seq(S)] /\ k[0] = <<>> /\ Selected(v, T) = k[Len(v)]
      /\ \A i \in 1 .. Len(v) : k[i] = IF v[i] \in T THEN Append(k[i - 1], v[i]) ELSE k[i - 1]
  BY <1>4, Zenon DEF SelectedTurn
<1>7. h[1] = a
  <2>1. 1 \in 1 .. Len(s) BY <1>1
  <2>2. h[1] = IF s[1] \in T THEN Append(h[1 - 1], s[1]) ELSE h[1 - 1] BY <2>1, <1>5
  <2>3. h[1 - 1] = <<>> BY <1>5
  <2>4. h[1] = IF s[1] \in T THEN Append(<<>>, s[1]) ELSE <<>> BY <2>2, <2>3, Zenon
  <2> QED BY <2>4, <1>0
<1>8. \A i \in 0 .. Len(v) : h[i + 1] = a \o k[i]
  <2> DEFINE W == {i \in 0 .. Len(v) : h[i + 1] # a \o k[i]}
  <2>1. SUFFICES ASSUME W # {} PROVE FALSE OBVIOUS
  <2>2. W \in SUBSET Nat BY <1>1
  <2>3. PICK w \in W : \A y \in W : w <= y
    <3> HIDE DEF W
    <3> QED BY <2>1, <2>2, LeastNumber
  <2>4. w # 0
    <3>1. h[0 + 1] = a \o k[0]
      <4>1. a \o <<>> = a BY <1>0
      <4> QED BY <4>1, <1>6, <1>7
    <3> QED BY <3>1, <2>3
  <2>5. w \in 1 .. Len(v) /\ w - 1 \in 0 .. Len(v) /\ ~ (w - 1 \in W) /\ w + 1 \in 1 .. Len(s)
        /\ (w + 1) - 1 = w /\ (w - 1) + 1 = w
    <3>1. w \in 0 .. Len(v) BY <2>3
    <3>2. w \in 1 .. Len(v) /\ w - 1 \in 0 .. Len(v) /\ ~ (w <= w - 1) /\ w + 1 \in 1 .. Len(s)
          /\ (w + 1) - 1 = w /\ (w - 1) + 1 = w
      BY <3>1, <2>4, <1>1
    <3> HIDE DEF W
    <3> QED BY <3>2, <2>3
  <2>6. h[w] = a \o k[w - 1] BY <2>5
  <2>7. h[w + 1] = IF v[w] \in T THEN Append(h[w], v[w]) ELSE h[w] BY <2>5, <1>2, <1>5
  <2>8. k[w] = IF v[w] \in T THEN Append(k[w - 1], v[w]) ELSE k[w - 1] BY <2>5, <1>6
  <2>9. k[w - 1] \in Seq(S) /\ v[w] \in S /\ a \in Seq(S)
    <3>1. k \in [0 .. Len(v) -> Seq(S)] /\ w - 1 \in 0 .. Len(v) BY <1>6, <2>5, Zenon
    <3>2. k[w - 1] \in Seq(S) BY <3>1, Zenon
    <3>3. v[w] \in S BY <1>2, <2>5, Zenon
    <3> QED BY <3>2, <3>3, <1>0
  <2>10. Append(a \o k[w - 1], v[w]) = a \o Append(k[w - 1], v[w]) 
    <3>1. PICK b \in Seq(S) : b = k[w - 1] BY <2>9, Zenon
    <3>2. PICK y \in S : y = v[w] BY <2>9, Zenon
    <3>3. AppendedLast(S) BY ConcatAppend, Zenon
    <3>4. Append(a \o b, y) = a \o Append(b, y) BY <2>9, <3>3, Zenon DEF AppendedLast
    <3> QED BY <3>1, <3>2, <3>4, Zenon
  <2>11. h[w + 1] = a \o k[w] BY <2>6, <2>7, <2>8, <2>10
  <2> QED BY <2>3, <2>11
<1>9. h[Len(v) + 1] = a \o k[Len(v)]
  <2>1. Len(v) \in 0 .. Len(v) BY <1>1
  <2> QED BY <2>1, <1>8, Zenon
<1> QED BY <1>1, <1>5, <1>6, <1>9 DEF SelectedAfter

SelectedWithFirst(x, v, T) ==
  Selected(<<x>> \o v, T) = (IF x \in T THEN <<x>> ELSE <<>>) \o Selected(v, T)

LEMMA SelectedCons ==
  ASSUME NEW S, NEW x \in S, NEW v \in Seq(S), NEW T PROVE SelectedWithFirst(x, v, T)
<1> DEFINE s0 == <<x>> \o v
           a0 == IF x \in T THEN <<x>> ELSE <<>>
<1>0. s0 \in Seq(S) /\ a0 \in Seq(S) OBVIOUS
<1>1. PICK s \in Seq(S) : s = s0 BY <1>0, Zenon
<1>2. Len(s) = Len(v) + 1 /\ s[1] = x /\ \A i \in 1 .. Len(v) : s[i + 1] = v[i] BY <1>1
<1>3. PICK a \in Seq(S) : a = a0 BY <1>0, Zenon
<1>4. Selected(s, T) = a \o Selected(v, T)
  <2>1. s[1] \in T => a = <<s[1]>> BY <1>2, <1>3
  <2>2. s[1] \notin T => a = <<>> BY <1>2, <1>3
  <2>3. Len(s) = Len(v) + 1 BY <1>2
  <2>4. \A i \in 1 .. Len(v) : s[i + 1] = v[i] BY <1>2, Zenon
  <2>5. FromSecond(S, v, s, a, T) BY <2>1, <2>2, <2>3, <2>4 DEF FromSecond
  <2>6. SelectedAfter(s, a, v, T) BY <2>5, SelectedFromSecond, Zenon
  <2> QED BY <2>6, Zenon DEF SelectedAfter
<1> QED BY <1>1, <1>3, <1>4 DEF SelectedWithFirst
--------------------------------------------------------------------------------
(* Queues                                                                  *)

LEMMA ReverseFacts ==
  ASSUME NEW S, NEW s \in Seq(S)
  PROVE  /\ Bounded!Reverse(s) \in Seq(S) /\ Len(Bounded!Reverse(s)) = Len(s)
         /\ \A i \in 1 .. Len(s) : Bounded!Reverse(s)[i] = s[Len(s) - i + 1]
<1>1. Len(s) \in Nat /\ \A i \in 1 .. Len(s) : s[i] \in S /\ Len(s) - i + 1 \in 1 .. Len(s) OBVIOUS
<1>2. \A i \in 1 .. Len(s) : s[Len(s) - i + 1] \in S BY <1>1, Zenon
<1>3. Bounded!Reverse(s) = [i \in 1 .. Len(s) |-> s[Len(s) - i + 1]] BY DEF Bounded!Reverse
<1> QED BY <1>1, <1>2, <1>3

LEMMA ReversedTwice ==
  ASSUME NEW S, NEW s \in Seq(S) PROVE Bounded!Reverse(Bounded!Reverse(s)) = s
<1>1. PICK r \in Seq(S) : r = Bounded!Reverse(s) BY ReverseFacts
<1>2. Len(r) = Len(s) /\ \A i \in 1 .. Len(s) : r[i] = s[Len(s) - i + 1] BY <1>1, ReverseFacts
<1>3. PICK q \in Seq(S) : q = Bounded!Reverse(r) BY ReverseFacts
<1>4. Len(q) = Len(r) /\ \A i \in 1 .. Len(r) : q[i] = r[Len(r) - i + 1] BY <1>3, ReverseFacts
<1>5. ASSUME NEW i \in 1 .. Len(s) PROVE q[i] = s[i]
  <2>1. Len(s) - i + 1 \in 1 .. Len(s) /\ Len(s) - (Len(s) - i + 1) + 1 = i OBVIOUS
  <2>2. r[Len(s) - i + 1] = s[i] BY <2>1, <1>2
  <2>3. q[i] = r[Len(s) - i + 1] BY <1>2, <1>4
  <2> QED BY <2>2, <2>3
<1>6. q = s BY <1>2, <1>4, <1>5, SeqEqual
<1> QED BY <1>1, <1>3, <1>6

LEMMA ReversedCons ==
  ASSUME NEW S, NEW x \in S, NEW t \in Seq(S)
  PROVE  Bounded!Reverse(<<x>> \o t) = Append(Bounded!Reverse(t), x)
<1>0. <<x>> \o t \in Seq(S) OBVIOUS
<1>1. PICK s \in Seq(S) : s = <<x>> \o t BY <1>0, Zenon
<1>2. Len(s) = Len(t) + 1 /\ s[1] = x /\ \A i \in 1 .. Len(t) : s[i + 1] = t[i] BY <1>1
<1>3. PICK q \in Seq(S) : q = Bounded!Reverse(s) BY ReverseFacts
<1>4. Len(q) = Len(s) /\ \A i \in 1 .. Len(s) : q[i] = s[Len(s) - i + 1] BY <1>3, ReverseFacts
<1>5. PICK r \in Seq(S) : r = Bounded!Reverse(t) BY ReverseFacts
<1>6. Len(r) = Len(t) /\ \A i \in 1 .. Len(t) : r[i] = t[Len(t) - i + 1] BY <1>5, ReverseFacts
<1>11. Append(r, x) \in Seq(S) OBVIOUS
<1>7. PICK a \in Seq(S) : a = Append(r, x) BY <1>11, Zenon
<1>8. Len(a) = Len(t) + 1 /\ a[Len(t) + 1] = x /\ \A i \in 1 .. Len(t) : a[i] = r[i] BY <1>6, <1>7
<1>9. ASSUME NEW i \in 1 .. Len(q) PROVE q[i] = a[i]
  <2>0. Len(t) \in Nat /\ Len(q) = Len(t) + 1 BY <1>2, <1>4
  <2>1. q[i] = s[Len(t) + 1 - i + 1] BY <1>2, <1>4
  <2>2. CASE i = Len(t) + 1 BY <2>0, <2>1, <2>2, <1>2, <1>8
  <2>3. CASE i \in 1 .. Len(t)
    <3>1. Len(t) - i + 1 \in 1 .. Len(t) /\ Len(t) + 1 - i + 1 = (Len(t) - i + 1) + 1 BY <2>0, <2>3
    <3>2. s[(Len(t) - i + 1) + 1] = t[Len(t) - i + 1] BY <3>1, <1>2
    <3>3. a[i] = t[Len(t) - i + 1] BY <2>3, <1>6, <1>8
    <3> QED BY <3>1, <3>2, <3>3, <2>1
  <2> QED BY <2>0, <2>2, <2>3
<1>10. q = a BY <1>2, <1>4, <1>8, <1>9, SeqEqual
<1> QED BY <1>1, <1>3, <1>5, <1>7, <1>10

(* The element after u is taken out.                                       *)
LEMMA RemovedBetween ==
  ASSUME NEW S, NEW u \in Seq(S), NEW x \in S, NEW v \in Seq(S)
  PROVE  /\ ((u \o <<x>>) \o v)[Len(u) + 1] = x
         /\ Bounded!RemoveAt((u \o <<x>>) \o v, Len(u) + 1) = u \o v
<1>0. (u \o <<x>>) \in Seq(S) /\ (u \o <<x>>) \o v \in Seq(S) /\ u \o v \in Seq(S) OBVIOUS
<1>1. PICK s \in Seq(S) : s = (u \o <<x>>) \o v BY <1>0, Zenon
<1>2. /\ Len(s) = Len(u) + 1 + Len(v) /\ s[Len(u) + 1] = x
      /\ \A i \in 1 .. Len(u) : s[i] = u[i]
      /\ \A i \in 1 .. Len(v) : s[Len(u) + 1 + i] = v[i]
  <2>1. PICK w \in Seq(S) : w = u \o <<x>> BY <1>0, Zenon
  <2>2. Len(w) = Len(u) + 1 /\ w[Len(u) + 1] = x /\ \A i \in 1 .. Len(u) : w[i] = u[i] BY <2>1
  <2>3. s = w \o v BY <1>1, <2>1
  <2>4. Len(s) = Len(w) + Len(v) /\ (\A i \in 1 .. Len(w) : s[i] = w[i])
        /\ \A i \in 1 .. Len(v) : s[Len(w) + i] = v[i]
    BY <2>3
  <2> QED BY <2>2, <2>4
<1>3. Len(u) + 1 \in 1 .. Len(s) /\ Len(u) \in Nat /\ Len(v) \in Nat BY <1>2
<1>4. Bounded!RemoveAt(s, Len(u) + 1) = Cut(s, Len(u) + 1) BY DEF Bounded!RemoveAt, Cut
<1>5. PICK c \in Seq(S) : c = Cut(s, Len(u) + 1) BY <1>3, CutFacts
<1>6. /\ Len(c) = Len(s) - 1
      /\ \A i \in 1 .. Len(s) - 1 : c[i] = IF i < Len(u) + 1 THEN s[i] ELSE s[i + 1]
  BY <1>3, <1>5, CutFacts
<1>7. PICK r \in Seq(S) : r = u \o v BY <1>0, Zenon
<1>8. Len(r) = Len(u) + Len(v)
      /\ \A i \in 1 .. Len(u) + Len(v) : r[i] = IF i <= Len(u) THEN u[i] ELSE v[i - Len(u)]
  BY <1>7, ConcatProperties
<1>9. ASSUME NEW i \in 1 .. Len(c) PROVE c[i] = r[i]
  <2>0. i \in 1 .. Len(u) + Len(v) /\ i \in 1 .. Len(s) - 1 BY <1>2, <1>3, <1>6
  <2>1. CASE i <= Len(u)
    <3>1. i \in 1 .. Len(u) /\ i < Len(u) + 1 BY <2>0, <2>1, <1>3
    <3> QED BY <3>1, <2>0, <2>1, <1>2, <1>6, <1>8
  <2>2. CASE ~(i <= Len(u))
    <3>1. i - Len(u) \in 1 .. Len(v) /\ Len(u) + 1 + (i - Len(u)) = i + 1 /\ ~(i < Len(u) + 1)
      BY <2>0, <2>2, <1>3
    <3>2. s[i + 1] = v[i - Len(u)] BY <3>1, <1>2
    <3> QED BY <3>1, <3>2, <2>0, <2>2, <1>6, <1>8
  <2> QED BY <2>1, <2>2
<1>11. Len(c) = Len(r) BY <1>2, <1>3, <1>6, <1>8
<1>10. c = r BY <1>9, <1>11, SeqEqual
<1> QED BY <1>1, <1>2, <1>4, <1>5, <1>7, <1>10

--------------------------------------------------------------------------------
(* removeMatching: what the loop has after n turns                         *)

MatchingTurn(s, P, n, so) ==
  LET i == Len(s) - n + 1
  IN IF so.rest[i] \notin P THEN so
     ELSE [rest |-> Bounded!RemoveAt(so.rest, i), matched |-> Append(so.matched, so.rest[i])]

MatchingUpTo(s, P, h) ==
  h = [n \in 0 .. Len(s) |->
         IF n = 0 THEN [rest |-> s, matched |-> <<>>] ELSE MatchingTurn(s, P, n, h[n - 1])]

(* What was looked at, from the n-th element from the end, and what was not. *)
Behind(s, n) == SubSeq(s, Len(s) - n + 1, Len(s))
Before(s, n) == SubSeq(s, 1, Len(s) - n)
AfterTurns(S, s, P, n) ==
  [rest |-> Before(s, n) \o Selected(Behind(s, n), S \ P),
   matched |-> Bounded!Reverse(Selected(Behind(s, n), P))]

Regrouped(u, w, r) == (u \o w) \o r = u \o (w \o r)

LEMMA ConcatRegrouped ==
  ASSUME NEW S, NEW u \in Seq(S), NEW w \in Seq(S), NEW r \in Seq(S) PROVE Regrouped(u, w, r)
BY ConcatAssociative DEF Regrouped

LEMMA OneTurnMore ==
  ASSUME NEW S, NEW s \in Seq(S), NEW P, NEW n \in 1 .. Len(s)
  PROVE  MatchingTurn(s, P, n, AfterTurns(S, s, P, n - 1)) = AfterTurns(S, s, P, n)
<1> DEFINE i == Len(s) - n + 1
<1>1. Len(s) \in Nat /\ i \in 1 .. Len(s) /\ i - 1 = Len(s) - n /\ i + 1 = Len(s) - (n - 1) + 1
      /\ i = Len(s) - (n - 1) /\ Len(s) \in i .. Len(s) /\ i \in 1 .. i /\ 1 \in 1 .. Len(s)
      /\ i \in 1 .. Len(s) /\ s[i] \in S
  OBVIOUS
<1> HIDE DEF i
<1>2. PICK x \in S : x = s[i] BY <1>1
<1>3. Before(s, n) \in Seq(S) /\ Len(Before(s, n)) = i - 1 BY <1>1 DEF Before
<1>4. PICK u \in Seq(S) : u = Before(s, n) BY <1>3
<1>17. Behind(s, n - 1) \in Seq(S)
  <2>1. \A j \in i + 1 .. Len(s) : s[j] \in S BY <1>1
  <2>2. SubSeq(s, i + 1, Len(s)) \in Seq(S)
    <3>1. i + 1 \in Int /\ Len(s) \in Int BY <1>1
    <3> QED BY <3>1, <2>1, SubSeqProperties
  <2> QED BY <2>2, <1>1 DEF Behind
<1>5. PICK v \in Seq(S) : v = Behind(s, n - 1) BY <1>17, Zenon
<1>6. Behind(s, n) = <<x>> \o v
  <2>1. SubSeq(s, i, Len(s)) = <<s[i]>> \o SubSeq(s, i + 1, Len(s)) BY <1>1, SubSeqRecursiveFirst
  <2>2. Behind(s, n) = SubSeq(s, i, Len(s)) BY DEF Behind, i
  <2>3. Behind(s, n - 1) = SubSeq(s, i + 1, Len(s)) BY <1>1 DEF Behind
  <2> QED BY <2>1, <2>2, <2>3, <1>2, <1>5
<1>7. Before(s, n - 1) = u \o <<x>>
  <2>1. SubSeq(s, 1, i) = SubSeq(s, 1, i - 1) \o <<s[i]>> BY <1>1, SubSeqRecursiveSecond
  <2>2. Before(s, n - 1) = SubSeq(s, 1, i) /\ Before(s, n) = SubSeq(s, 1, i - 1) BY <1>1 DEF Before
  <2> QED BY <2>1, <2>2, <1>2, <1>4
<1>8. PICK r \in Seq(S) : r = Selected(v, S \ P) BY SelectedPicks
<1>9. PICK m \in Seq(S) : m = Selected(v, P) BY SelectedPicks
<1>10. /\ Selected(Behind(s, n), S \ P) = (IF x \in S \ P THEN <<x>> ELSE <<>>) \o r
       /\ Selected(Behind(s, n), P) = (IF x \in P THEN <<x>> ELSE <<>>) \o m
  <2>1. SelectedWithFirst(x, v, S \ P) /\ SelectedWithFirst(x, v, P) BY SelectedCons, Zenon
  <2> QED BY <2>1, <1>6, <1>8, <1>9, Zenon DEF SelectedWithFirst
<1>11. AfterTurns(S, s, P, n - 1) = [rest |-> (u \o <<x>>) \o r, matched |-> Bounded!Reverse(m)]
  BY <1>5, <1>7, <1>8, <1>9 DEF AfterTurns
<1>12. /\ ((u \o <<x>>) \o r)[i] = x
       /\ Bounded!RemoveAt((u \o <<x>>) \o r, i) = u \o r
  <2>1. i = Len(u) + 1 BY <1>1, <1>3, <1>4
  <2> QED BY <2>1, RemovedBetween
<1>13. AfterTurns(S, s, P, n) = [rest |-> u \o Selected(Behind(s, n), S \ P),
                                 matched |-> Bounded!Reverse(Selected(Behind(s, n), P))]
  BY <1>4 DEF AfterTurns
<1>14. MatchingTurn(s, P, n, AfterTurns(S, s, P, n - 1))
         = IF x \notin P THEN AfterTurns(S, s, P, n - 1)
           ELSE [rest |-> u \o r, matched |-> Append(Bounded!Reverse(m), x)]
  <2>1. AfterTurns(S, s, P, n - 1).rest = (u \o <<x>>) \o r
        /\ AfterTurns(S, s, P, n - 1).matched = Bounded!Reverse(m)
    <3>1. (u \o <<x>>) \o r \in Seq(S) /\ Bounded!Reverse(m) \in Seq(S) BY ReverseFacts
    <3>2. PICK f \in Seq(S) : f = (u \o <<x>>) \o r BY <3>1, Zenon
    <3>3. PICK g \in Seq(S) : g = Bounded!Reverse(m) BY <3>1, Zenon
    <3>4. AfterTurns(S, s, P, n - 1) = [rest |-> f, matched |-> g] BY <1>11, <3>2, <3>3, Zenon
    <3>5. AfterTurns(S, s, P, n - 1).rest = f /\ AfterTurns(S, s, P, n - 1).matched = g BY <3>4
    <3> QED BY <3>2, <3>3, <3>5, Zenon
  <2>2. AfterTurns(S, s, P, n - 1).rest[i] = x
        /\ Bounded!RemoveAt(AfterTurns(S, s, P, n - 1).rest, i) = u \o r
    BY <2>1, <1>12
  <2> QED BY <2>1, <2>2, Zenon DEF MatchingTurn, i
<1>15. CASE x \notin P
  <2>1. Selected(Behind(s, n), S \ P) = <<x>> \o r /\ Selected(Behind(s, n), P) = <<>> \o m
    BY <1>10, <1>15
  <2>2. <<>> \o m = m BY ConcatEmptySeq
  <2>3. (u \o <<x>>) \o r = u \o (<<x>> \o r)
    <3>1. <<x>> \in Seq(S) OBVIOUS
    <3>2. PICK w \in Seq(S) : w = <<x>> BY <3>1, Zenon
    <3>3. Regrouped(u, w, r) BY ConcatRegrouped, Zenon
    <3>4. (u \o w) \o r = u \o (w \o r) BY <3>3, Zenon DEF Regrouped
    <3> QED BY <3>2, <3>4, Zenon
  <2> QED BY <2>1, <2>2, <2>3, <1>11, <1>13, <1>14, <1>15, Zenon
<1>16. CASE x \in P
  <2>1. Selected(Behind(s, n), S \ P) = <<>> \o r /\ Selected(Behind(s, n), P) = <<x>> \o m
    BY <1>10, <1>16
  <2>2. <<>> \o r = r BY ConcatEmptySeq
  <2>3. Bounded!Reverse(<<x>> \o m) = Append(Bounded!Reverse(m), x) BY ReversedCons
  <2> QED BY <2>1, <2>2, <2>3, <1>13, <1>14, <1>16, Zenon
<1> QED BY <1>15, <1>16

LEMMA OneMatching ==
  ASSUME NEW S, NEW s \in Seq(S), NEW P, NEW h, MatchingUpTo(s, P, h),
         NEW k, MatchingUpTo(s, P, k)
  PROVE  h = k
<1>0. Len(s) \in Nat OBVIOUS
<1>1. ASSUME NEW n \in 0 .. Len(s)
      PROVE  /\ h[n] = IF n = 0 THEN [rest |-> s, matched |-> <<>>] ELSE MatchingTurn(s, P, n, h[n - 1])
             /\ k[n] = IF n = 0 THEN [rest |-> s, matched |-> <<>>] ELSE MatchingTurn(s, P, n, k[n - 1])
  BY Zenon DEF MatchingUpTo
<1> DEFINE W == {n \in 0 .. Len(s) : k[n] # h[n]}
<1>2. SUFFICES ASSUME W # {} PROVE FALSE
  <2>1. h = [n \in 0 .. Len(s) |-> h[n]] BY Zenon DEF MatchingUpTo
  <2>2. k = [n \in 0 .. Len(s) |-> k[n]] BY Zenon DEF MatchingUpTo
  <2> QED BY <2>1, <2>2
<1>3. W \in SUBSET Nat BY <1>0
<1>4. PICK w \in W : \A y \in W : w <= y
  <2> HIDE DEF W
  <2> QED BY <1>2, <1>3, LeastNumber
<1>5. w # 0 BY <1>0, <1>1
<1>6. w - 1 \in 0 .. Len(s) /\ ~ (w - 1 \in W) BY <1>4, <1>5, <1>0
<1>7. k[w - 1] = h[w - 1] BY <1>6
<1>8. w \in 0 .. Len(s) /\ k[w] # h[w] BY <1>4
<1> QED BY <1>1, <1>5, <1>7, <1>8, Zenon

(* A loop from the end takes out what matches, and leaves the rest in order. *)
IsMatching(S, s, P) ==
  /\ Bounded!Matching(s, P).rest = Selected(s, S \ P)
  /\ Bounded!Matching(s, P).matched = Selected(s, P)

LEMMA MatchingFacts ==
  ASSUME NEW S, NEW s \in Seq(S), NEW P PROVE IsMatching(S, s, P)
<1> DEFINE k == [n \in 0 .. Len(s) |-> AfterTurns(S, s, P, n)]
           h == CHOOSE h : MatchingUpTo(s, P, h)
<1>0. Len(s) \in Nat OBVIOUS
<1>1. Before(s, 0) = s /\ Behind(s, 0) = <<>>
  <2>1. SubSeq(s, 1, Len(s)) = s BY SubSeqFull
  <2>2. SubSeq(s, Len(s) + 1, Len(s)) = <<>> BY <1>0, SubSeqEmpty
  <2>3. Len(s) - 0 = Len(s) BY <1>0
  <2> QED BY <2>1, <2>2, <2>3 DEF Before, Behind
<1>2. Before(s, Len(s)) = <<>> /\ Behind(s, Len(s)) = s
  <2>1. SubSeq(s, 1, 0) = <<>> BY SubSeqEmpty
  <2>2. SubSeq(s, 1, Len(s)) = s BY SubSeqFull
  <2>3. Len(s) - Len(s) = 0 /\ 0 + 1 = 1 BY <1>0
  <2> QED BY <2>1, <2>2, <2>3 DEF Before, Behind
<1>3. AfterTurns(S, s, P, 0) = [rest |-> s, matched |-> <<>>]
  <2>1. Selected(<<>>, S \ P) = <<>> /\ Selected(<<>>, P) = <<>> BY SelectedEmpty
  <2>2. Bounded!Reverse(<<>>) = <<>>
    <3>1. <<>> \in Seq({}) /\ Len(<<>>) = 0 OBVIOUS
    <3>2. Bounded!Reverse(<<>>) \in Seq({}) BY <3>1, ReverseFacts
    <3> QED BY <3>2
  <2>3. s \o <<>> = s BY ConcatEmptySeq
  <2> QED BY <2>1, <2>2, <2>3, <1>1, Zenon DEF AfterTurns
<1>4. ASSUME NEW n \in 0 .. Len(s)
      PROVE k[n] = IF n = 0 THEN [rest |-> s, matched |-> <<>>] ELSE MatchingTurn(s, P, n, k[n - 1])
  <2>1. CASE n = 0 BY <2>1, <1>3
  <2>2. CASE n # 0
    <3>1. n \in 1 .. Len(s) /\ n - 1 \in 0 .. Len(s) BY <2>2, <1>0
    <3>2. k[n - 1] = AfterTurns(S, s, P, n - 1) BY <3>1
    <3>3. MatchingTurn(s, P, n, AfterTurns(S, s, P, n - 1)) = AfterTurns(S, s, P, n)
      BY <3>1, OneTurnMore
    <3>4. k[n] = AfterTurns(S, s, P, n) OBVIOUS
    <3> HIDE DEF k
    <3> QED BY <3>2, <3>3, <3>4, <2>2, Zenon
  <2> QED BY <2>1, <2>2
<1>5. k = [n \in 0 .. Len(s) |-> k[n]] OBVIOUS
<1>6. k[Len(s)] = AfterTurns(S, s, P, Len(s))
  <2>1. Len(s) \in 0 .. Len(s) BY <1>0
  <2> QED BY <2>1
<1> HIDE DEF k
<1>7. MatchingUpTo(s, P, k) BY <1>4, <1>5 DEF MatchingUpTo
<1>8. MatchingUpTo(s, P, h) BY <1>7
<1>9. Bounded!Matching(s, P) = [h[Len(s)] EXCEPT !.matched = Bounded!Reverse(@)]
  BY Zenon DEF Bounded!Matching, MatchingUpTo, MatchingTurn
<1> HIDE DEF h
<1>10. h = k BY <1>7, <1>8, OneMatching
<1>11. PICK r \in Seq(S) : r = Selected(s, S \ P) BY SelectedPicks
<1>12. PICK m \in Seq(S) : m = Selected(s, P) BY SelectedPicks
<1>13. h[Len(s)] = [rest |-> r, matched |-> Bounded!Reverse(m)]
  <2>1. <<>> \o r = r BY ConcatEmptySeq
  <2> QED BY <2>1, <1>2, <1>6, <1>10, <1>11, <1>12, Zenon DEF AfterTurns
<1>14. Bounded!Matching(s, P) = [rest |-> r, matched |-> Bounded!Reverse(Bounded!Reverse(m))]
  BY <1>9, <1>13
<1>15. Bounded!Reverse(Bounded!Reverse(m)) = m BY ReversedTwice
<1> QED BY <1>11, <1>12, <1>14, <1>15 DEF IsMatching

(* s has, in the order in which they were added, some of the first n.      *)
InOrder(s, n) ==
  /\ s \in Seq(1 .. n)
  /\ \A i, j \in 1 .. Len(s) : i < j => s[i] < s[j]

LEMMA InOrderFacts ==
  ASSUME NEW n \in Nat, NEW s, InOrder(s, n)
  PROVE  /\ InOrder(s, n + 1)
         /\ Bounded!Ascending(s)
         /\ \A i \in 1 .. Len(s) : s[i] \in 1 .. n
<1>1. s \in Seq(1 .. n) /\ Len(s) \in Nat BY DEF InOrder
<1>2. \A i, j \in 1 .. Len(s) : i < j => s[i] < s[j] BY Zenon DEF InOrder
<1>3. s \in Seq(1 .. n + 1)
  <2>1. 1 .. n \subseteq 1 .. n + 1 OBVIOUS
  <2> QED BY <1>1, <2>1, SeqMonotonic
<1>4. \A i \in 1 .. Len(s) : s[i] \in 1 .. n BY <1>1
<1>5. InOrder(s, n + 1) BY <1>2, <1>3, Zenon DEF InOrder
<1>6. Bounded!Ascending(s)
  <2>1. ASSUME NEW i \in 1 .. (Len(s) - 1) PROVE s[i] < s[i + 1]
    <3>1. i \in 1 .. Len(s) /\ i + 1 \in 1 .. Len(s) /\ i < i + 1 BY <1>1
    <3> QED BY <3>1, <1>2, Zenon
  <2> QED BY <2>1 DEF Bounded!Ascending
<1> QED BY <1>4, <1>5, <1>6

LEMMA AddedInOrder ==
  ASSUME NEW n \in Nat, NEW s, InOrder(s, n)
  PROVE  InOrder(Append(s, n + 1), n + 1) /\ Len(Append(s, n + 1)) = Len(s) + 1
<1>1. /\ s \in Seq(1 .. n + 1) /\ n + 1 \in 1 .. n + 1
      /\ \A i \in 1 .. Len(s) : s[i] \in 1 .. n
  <2>1. s \in Seq(1 .. n + 1) BY InOrderFacts DEF InOrder
  <2> QED BY <2>1, InOrderFacts
<1>2. \A i, j \in 1 .. Len(s) : i < j => s[i] < s[j] BY Zenon DEF InOrder
<1>3. Append(s, n + 1) \in Seq(1 .. n + 1) BY <1>1
<1>4. PICK t \in Seq(1 .. n + 1) : t = Append(s, n + 1) BY <1>3, Zenon
<1>5. Len(t) = Len(s) + 1 /\ t[Len(s) + 1] = n + 1 /\ Len(s) \in Nat
      /\ \A i \in 1 .. Len(s) : t[i] = s[i]
  BY <1>1, <1>4
<1>6. ASSUME NEW i \in 1 .. Len(t), NEW j \in 1 .. Len(t), i < j PROVE t[i] < t[j]
  <2>1. i \in 1 .. Len(s) BY <1>5, <1>6
  <2>2. CASE j = Len(s) + 1
    <3>1. t[j] = n + 1 /\ t[i] = s[i] /\ s[i] \in 1 .. n BY <2>1, <2>2, <1>1, <1>5
    <3> QED BY <3>1
  <2>3. CASE j \in 1 .. Len(s)
    <3>1. s[i] < s[j] BY <2>1, <2>3, <1>2, <1>6
    <3> QED BY <3>1, <2>1, <2>3, <1>5
  <2> QED BY <2>2, <2>3, <1>5
<1>7. InOrder(t, n + 1) BY <1>6 DEF InOrder
<1> QED BY <1>4, <1>5, <1>7

(* t has the elements of s at the places e tells.                          *)
LEMMA ChosenInOrder ==
  ASSUME NEW n \in Nat, NEW s, InOrder(s, n), NEW t \in Seq(1 .. n),
         NEW e \in [1 .. Len(t) -> 1 .. Len(s)],
         \A i, j \in 1 .. Len(t) : i < j => e[i] < e[j],
         \A i \in 1 .. Len(t) : t[i] = s[e[i]]
  PROVE  InOrder(t, n)
<1>1. \A i, j \in 1 .. Len(s) : i < j => s[i] < s[j] BY Zenon DEF InOrder
<1>2. ASSUME NEW i \in 1 .. Len(t), NEW j \in 1 .. Len(t), i < j PROVE t[i] < t[j]
  <2>1. e[i] \in 1 .. Len(s) /\ e[j] \in 1 .. Len(s) /\ e[i] < e[j] BY <1>2
  <2>2. s[e[i]] < s[e[j]] BY <2>1, <1>1, Zenon
  <2> QED BY <2>2
<1> QED BY <1>2 DEF InOrder

LEMMA CutInOrder ==
  ASSUME NEW n \in Nat, NEW s, InOrder(s, n), NEW p \in 1 .. Len(s)
  PROVE  InOrder(Cut(s, p), n) /\ Len(Cut(s, p)) = Len(s) - 1
<1>1. s \in Seq(1 .. n) /\ Len(s) \in Nat BY DEF InOrder
<1>2. Cut(s, p) \in Seq(1 .. n) BY <1>1, CutFacts
<1>3. PICK t \in Seq(1 .. n) : t = Cut(s, p) BY <1>2, Zenon
<1>4. Len(t) = Len(s) - 1 /\ \A i \in 1 .. Len(s) - 1 : t[i] = IF i < p THEN s[i] ELSE s[i + 1]
  BY <1>1, <1>3, CutFacts
<1> DEFINE e == [i \in 1 .. Len(t) |-> IF i < p THEN i ELSE i + 1]
<1>9. Len(t) = Len(s) - 1 /\ Len(s) \in Nat /\ p \in Nat BY <1>1, <1>4
<1>5. e \in [1 .. Len(t) -> 1 .. Len(s)]
  <2>1. \A i \in 1 .. Len(t) : (IF i < p THEN i ELSE i + 1) \in 1 .. Len(s) BY <1>9
  <2> QED BY <2>1
<1>6. \A i, j \in 1 .. Len(t) : i < j => e[i] < e[j]
  <2> SUFFICES ASSUME NEW i \in 1 .. Len(t), NEW j \in 1 .. Len(t), i < j PROVE e[i] < e[j]
    OBVIOUS
  <2> QED BY <1>9
<1>7. \A i \in 1 .. Len(t) : t[i] = s[e[i]] BY <1>1, <1>4
<1> HIDE DEF e
<1>8. InOrder(t, n) BY <1>5, <1>6, <1>7, ChosenInOrder
<1> QED BY <1>3, <1>4, <1>8

LEMMA TailInOrder ==
  ASSUME NEW n \in Nat, NEW s, InOrder(s, n), s # <<>>
  PROVE  InOrder(Tail(s), n) /\ Len(Tail(s)) = Len(s) - 1
<1>1. s \in Seq(1 .. n) BY DEF InOrder
<1>2. Tail(s) \in Seq(1 .. n) /\ Len(s) \in Nat /\ Len(s) # 0 BY <1>1
<1>3. PICK t \in Seq(1 .. n) : t = Tail(s) BY <1>2, Zenon
<1>4. Len(t) = Len(s) - 1 /\ \A i \in 1 .. Len(t) : t[i] = s[i + 1] BY <1>1, <1>3, HeadTailProperties
<1> DEFINE e == [i \in 1 .. Len(t) |-> i + 1]
<1>9. Len(t) = Len(s) - 1 /\ Len(s) \in Nat BY <1>2, <1>4
<1>5. e \in [1 .. Len(t) -> 1 .. Len(s)]
  <2>1. \A i \in 1 .. Len(t) : i + 1 \in 1 .. Len(s) BY <1>9
  <2> QED BY <2>1
<1>6. \A i, j \in 1 .. Len(t) : i < j => e[i] < e[j] OBVIOUS
<1>7. \A i \in 1 .. Len(t) : t[i] = s[e[i]] BY <1>4
<1> HIDE DEF e
<1>8. InOrder(t, n) BY <1>5, <1>6, <1>7, ChosenInOrder
<1> QED BY <1>3, <1>4, <1>8

LEMMA FrontInOrder ==
  ASSUME NEW n \in Nat, NEW s, InOrder(s, n), s # <<>>
  PROVE  InOrder(Bounded!Front(s), n) /\ Len(Bounded!Front(s)) = Len(s) - 1
<1>1. s \in Seq(1 .. n) BY DEF InOrder
<1>2. Len(s) \in Nat /\ Len(s) # 0 BY <1>1
<1>3. Bounded!Front(s) = SubSeq(s, 1, Len(s) - 1) BY DEF Bounded!Front
<1>9. SubSeq(s, 1, Len(s) - 1) \in Seq(1 .. n) BY <1>1, <1>2
<1>4. PICK t \in Seq(1 .. n) : t = SubSeq(s, 1, Len(s) - 1) BY <1>9, Zenon
<1>5. Len(t) = Len(s) - 1 /\ \A i \in 1 .. Len(t) : t[i] = s[i]
  <2>1. \A i \in 1 .. Len(s) - 1 : s[i] \in 1 .. n BY <1>1, <1>2
  <2> DEFINE N == Len(s) - 1
  <2>2. N \in Nat BY <1>2
  <2>3. Len(t) = N /\ \A i \in 1 .. N : t[i] = s[i]
    <3> HIDE DEF N
    <3>1. \A i \in 1 .. N : s[i] \in 1 .. n BY <2>1 DEF N
    <3>2. t = SubSeq(s, 1, N) BY <1>4 DEF N
    <3> QED BY <3>1, <3>2, <2>2, SubSeqProperties
  <2> QED BY <2>3
<1> DEFINE e == [i \in 1 .. Len(t) |-> i]
<1>6. e \in [1 .. Len(t) -> 1 .. Len(s)] BY <1>2, <1>5
<1>7. \A i, j \in 1 .. Len(t) : i < j => e[i] < e[j] OBVIOUS
<1>8. \A i \in 1 .. Len(t) : t[i] = s[e[i]] BY <1>5
<1> HIDE DEF e
<1>10. InOrder(t, n) BY <1>6, <1>7, <1>8, ChosenInOrder
<1> QED BY <1>3, <1>4, <1>5, <1>10

LEMMA SelectedInOrder ==
  ASSUME NEW n \in Nat, NEW s, InOrder(s, n), NEW T
  PROVE  InOrder(Selected(s, T), n) /\ Len(Selected(s, T)) <= Len(s)
<1>1. s \in Seq(1 .. n) BY DEF InOrder
<1>2. PICK t \in Seq(1 .. n) : t = Selected(s, T) BY <1>1, SelectedPicks
<1>3. PICK e : Picks(s, T, Len(s), t, e) BY <1>1, <1>2, SelectedPicks
<1>4. /\ e \in [1 .. Len(t) -> 1 .. Len(s)] /\ Len(t) <= Len(s)
      /\ \A i, j \in 1 .. Len(t) : i < j => e[i] < e[j]
      /\ \A i \in 1 .. Len(t) : t[i] = s[e[i]]
  BY <1>3, Zenon DEF Picks
<1>5. InOrder(t, n) BY <1>4, ChosenInOrder
<1> QED BY <1>2, <1>4, <1>5

--------------------------------------------------------------------------------
(* No queue and no stack has more than its capacity, and all are in the    *)
(* order in which was added.                                               *)
QueueKept(s, n) == InOrder(s, n) /\ Len(s) <= Capacity
QueuesIInv ==
  added \in 0 .. MaxAdds /\ QueueKept(queue, added) /\ QueueKept(evicting, added)
  /\ QueueKept(stack, added)

LEMMA QueuesBegin == Bounded!Init => QueuesIInv
<1> SUFFICES ASSUME Bounded!Init PROVE QueuesIInv OBVIOUS
<1>1. queue = <<>> /\ evicting = <<>> /\ stack = <<>> /\ added = 0 BY DEF Bounded!Init
<1>2. 0 \in 0 .. MaxAdds /\ 0 <= Capacity BY LimitsOfQueuesAssumption
<1>3. InOrder(<<>>, 0) /\ Len(<<>>) = 0 BY DEF InOrder
<1> QED BY <1>1, <1>2, <1>3 DEF QueuesIInv, QueueKept

LEMMA QueueKeptOnAdd ==
  ASSUME NEW n \in Nat, NEW s, QueueKept(s, n)
  PROVE  /\ QueueKept(s, n + 1)
         /\ Len(s) \in Nat
         /\ Len(s) < Capacity => QueueKept(Append(s, n + 1), n + 1)
         /\ s # <<>> => QueueKept(Append(Tail(s), n + 1), n + 1)
<1>1. InOrder(s, n) /\ Len(s) <= Capacity BY DEF QueueKept
<1>2. Len(s) \in Nat /\ Capacity \in Nat BY <1>1, LimitsOfQueuesAssumption DEF InOrder
<1>3. InOrder(s, n + 1) BY <1>1, InOrderFacts
<1>4. InOrder(Append(s, n + 1), n + 1) /\ Len(Append(s, n + 1)) = Len(s) + 1
  BY <1>1, AddedInOrder
<1>5. ASSUME s # <<>> PROVE QueueKept(Append(Tail(s), n + 1), n + 1)
  <2>1. InOrder(Tail(s), n) /\ Len(Tail(s)) = Len(s) - 1 BY <1>1, <1>5, TailInOrder
  <2>2. InOrder(Append(Tail(s), n + 1), n + 1)
        /\ Len(Append(Tail(s), n + 1)) = Len(Tail(s)) + 1
    BY <2>1, AddedInOrder
  <2>4. (Len(s) - 1) + 1 = Len(s) BY <1>2
  <2>5. Len(Append(Tail(s), n + 1)) = Len(s) BY <2>1, <2>2, <2>4, Zenon
  <2>3. Len(Append(Tail(s), n + 1)) <= Capacity BY <2>5, <1>1, Zenon
  <2> QED BY <2>2, <2>3, Zenon DEF QueueKept
<1> QED BY <1>1, <1>2, <1>3, <1>4, <1>5 DEF QueueKept

(* Push takes out the oldest after it has added; it comes to the same.     *)
LEMMA TailOfAppend ==
  ASSUME NEW S, NEW s \in Seq(S), NEW x \in S, s # <<>>
  PROVE  Tail(Append(s, x)) = Append(Tail(s), x)
BY HeadTailAppend

LEMMA QueuesStay == QueuesIInv /\ [Bounded!Next]_(Bounded!vars) => QueuesIInv'
<1> SUFFICES ASSUME QueuesIInv, [Bounded!Next]_(Bounded!vars) PROVE QueuesIInv' OBVIOUS
<1>0. /\ added \in 0 .. MaxAdds /\ added \in Nat /\ MaxAdds \in Nat /\ Capacity \in Nat \ {0}
      /\ QueueKept(queue, added) /\ QueueKept(evicting, added) /\ QueueKept(stack, added)
  BY LimitsOfQueuesAssumption DEF QueuesIInv
<1>a. \A s \in {queue, evicting, stack} : InOrder(s, added) /\ Len(s) <= Capacity /\ Len(s) \in Nat
  BY <1>0 DEF QueueKept, InOrder
<1>b. \A s \in {queue, evicting, stack} :
        /\ QueueKept(s, added + 1)
        /\ Len(s) < Capacity => QueueKept(Append(s, added + 1), added + 1)
        /\ s # <<>> => QueueKept(Append(Tail(s), added + 1), added + 1)
  BY <1>0, QueueKeptOnAdd
<1>c. \A s \in {queue, evicting, stack} : s # <<>> => QueueKept(Tail(s), added)
  <2> SUFFICES ASSUME NEW s \in {queue, evicting, stack}, s # <<>> PROVE QueueKept(Tail(s), added)
    OBVIOUS
  <2>1. InOrder(s, added) /\ Len(s) <= Capacity /\ Len(s) \in Nat BY <1>a
  <2>2. InOrder(Tail(s), added) /\ Len(Tail(s)) = Len(s) - 1 BY <2>1, <1>0, TailInOrder
  <2> QED BY <2>1, <2>2, <1>0 DEF QueueKept
<1>d. ASSUME Bounded!Adds PROVE added' = added + 1 /\ added' \in 0 .. MaxAdds
  BY <1>0, <1>d DEF Bounded!Adds, Bounded!New
<1>1. CASE Bounded!Offer
  <2>1. /\ added' = added + 1 /\ added' \in 0 .. MaxAdds /\ evicting' = evicting /\ stack' = stack
        /\ queue' = IF Len(queue) >= Capacity THEN queue ELSE Append(queue, added + 1)
    BY <1>1, <1>d DEF Bounded!Offer, Bounded!New
  <2>2. QueueKept(queue', added + 1)
    <3>1. CASE Len(queue) >= Capacity BY <3>1, <2>1, <1>b
    <3>2. CASE ~(Len(queue) >= Capacity)
      <4>1. Len(queue) < Capacity BY <3>2, <1>0, <1>a
      <4> QED BY <4>1, <3>2, <2>1, <1>b
    <3> QED BY <3>1, <3>2
  <2> QED BY <2>1, <2>2, <1>b DEF QueuesIInv
<1>2. CASE Bounded!Poll BY <1>2, <1>0, <1>c DEF Bounded!Poll, QueuesIInv
<1>3. CASE Bounded!OfferEvicting
  <2>1. /\ added' = added + 1 /\ added' \in 0 .. MaxAdds /\ queue' = queue /\ stack' = stack
        /\ evicting' = Append(IF Len(evicting) = Capacity THEN Tail(evicting) ELSE evicting, added + 1)
    BY <1>3, <1>d DEF Bounded!OfferEvicting, Bounded!New
  <2>2. QueueKept(evicting', added + 1)
    <3>1. CASE Len(evicting) = Capacity
      <4>1. evicting # <<>> BY <3>1, <1>0
      <4> QED BY <4>1, <3>1, <2>1, <1>b
    <3>2. CASE Len(evicting) # Capacity
      <4>1. Len(evicting) < Capacity BY <3>2, <1>0, <1>a
      <4> QED BY <4>1, <3>2, <2>1, <1>b
    <3> QED BY <3>1, <3>2
  <2> QED BY <2>1, <2>2, <1>b DEF QueuesIInv
<1>4. CASE Bounded!PollEvicting BY <1>4, <1>0, <1>c DEF Bounded!PollEvicting, QueuesIInv
<1>5. CASE Bounded!Push
  <2> DEFINE pushed == Append(stack, added + 1)
  <2>1. /\ added' = added + 1 /\ added' \in 0 .. MaxAdds /\ queue' = queue /\ evicting' = evicting
        /\ stack' = IF Len(pushed) > Capacity THEN Tail(pushed) ELSE pushed
    BY <1>5, <1>d DEF Bounded!Push, Bounded!New
  <2>2. Len(pushed) = Len(stack) + 1 BY <1>0, <1>a, AddedInOrder
  <2>3. QueueKept(stack', added + 1)
    <3>1. CASE Len(pushed) > Capacity
      <4>1. Len(stack) = Capacity BY <3>1, <2>2, <1>0, <1>a
      <4>2. stack # <<>> BY <4>1, <1>0
      <4>3. stack \in Seq(1 .. added + 1) /\ added + 1 \in 1 .. added + 1
        <5>1. InOrder(stack, added + 1) BY <1>b DEF QueueKept
        <5> QED BY <5>1, <1>0 DEF InOrder
      <4>4. Tail(pushed) = Append(Tail(stack), added + 1) BY <4>2, <4>3, TailOfAppend
      <4>5. stack' = Append(Tail(stack), added + 1) BY <3>1, <4>4, <2>1
      <4> QED BY <4>2, <4>5, <1>b
    <3>2. CASE ~(Len(pushed) > Capacity)
      <4>1. Len(stack) < Capacity BY <3>2, <2>2, <1>0, <1>a
      <4>2. stack' = Append(stack, added + 1) BY <3>2, <2>1
      <4> QED BY <4>1, <4>2, <1>b
    <3> QED BY <3>1, <3>2
  <2> QED BY <2>1, <2>3, <1>b DEF QueuesIInv
<1>6. CASE Bounded!Pop
  <2>1. /\ stack # <<>> /\ stack' = Bounded!Front(stack)
        /\ UNCHANGED <<queue, evicting, added>>
    BY <1>6 DEF Bounded!Pop
  <2>2. InOrder(Bounded!Front(stack), added) /\ Len(Bounded!Front(stack)) = Len(stack) - 1
    BY <2>1, <1>0, <1>a, FrontInOrder
  <2>3. QueueKept(stack', added) BY <2>1, <2>2, <1>0, <1>a DEF QueueKept
  <2> QED BY <2>1, <2>3, <1>0 DEF QueuesIInv
<1>7. CASE Bounded!Drain
  <2>1. stack' = <<>> /\ UNCHANGED <<queue, evicting, added>> BY <1>7 DEF Bounded!Drain
  <2>2. QueueKept(<<>>, added) BY <1>0 DEF QueueKept, InOrder
  <2> QED BY <2>1, <2>2, <1>0 DEF QueuesIInv
<1>8. ASSUME NEW i \in 1 .. Capacity, Bounded!RemoveIndex(i) PROVE QueuesIInv'
  <2>1. /\ i \in DOMAIN queue /\ queue' = Cut(queue, i)
        /\ UNCHANGED <<evicting, stack, added>>
    BY <1>8 DEF Bounded!RemoveIndex, Bounded!RemoveAt, Cut
  <2>2. InOrder(queue, added) /\ i \in 1 .. Len(queue)
    <3>1. queue \in Seq(1 .. added) BY <1>a DEF InOrder
    <3> QED BY <3>1, <2>1, <1>a
  <2>3. InOrder(Cut(queue, i), added) /\ Len(Cut(queue, i)) = Len(queue) - 1
    BY <2>2, <1>0, CutInOrder
  <2>4. QueueKept(queue', added) BY <2>1, <2>3, <1>0, <1>a DEF QueueKept
  <2> QED BY <2>1, <2>4, <1>0 DEF QueuesIInv
<1>9. ASSUME NEW P, Bounded!RemoveMatching(P) PROVE QueuesIInv'
  <2>1. queue' = Bounded!Matching(queue, P).rest /\ UNCHANGED <<evicting, stack, added>>
    BY <1>9 DEF Bounded!RemoveMatching
  <2>2. InOrder(queue, added) BY <1>a
  <2>3. IsMatching(1 .. added, queue, P)
    <3>1. queue \in Seq(1 .. added) BY <2>2 DEF InOrder
    <3> QED BY <3>1, MatchingFacts, Zenon
  <2>4. queue' = Selected(queue, (1 .. added) \ P) BY <2>1, <2>3, Zenon DEF IsMatching
  <2> DEFINE T == (1 .. added) \ P
  <2>5. InOrder(Selected(queue, T), added) /\ Len(Selected(queue, T)) <= Len(queue)
    <3> HIDE DEF T
    <3> QED BY <2>2, <1>0, SelectedInOrder
  <2>7. Len(Selected(queue, T)) \in Nat BY <2>5 DEF InOrder
  <2>6. QueueKept(queue', added)
    <3> HIDE DEF T
    <3>1. queue' = Selected(queue, T) BY <2>4 DEF T
    <3> QED BY <3>1, <2>5, <2>7, <1>0, <1>a DEF QueueKept
  <2> QED BY <2>1, <2>6, <1>0 DEF QueuesIInv
<1>10. CASE UNCHANGED Bounded!vars BY <1>10, <1>0 DEF Bounded!vars, QueuesIInv
<1> QED BY <1>1, <1>2, <1>3, <1>4, <1>5, <1>6, <1>7, <1>8, <1>9, <1>10 DEF Bounded!Next

LEMMA QueuesAreRight == QueuesIInv => Bounded!InOrderAndBounded
<1> SUFFICES ASSUME QueuesIInv PROVE Bounded!InOrderAndBounded OBVIOUS
<1>0. /\ added \in 0 .. MaxAdds /\ added \in Nat /\ MaxAdds \in Nat /\ Capacity \in Nat \ {0}
      /\ QueueKept(queue, added) /\ QueueKept(evicting, added) /\ QueueKept(stack, added)
  BY LimitsOfQueuesAssumption DEF QueuesIInv
<1>1. \A s \in {queue, evicting, stack} : Len(s) <= Capacity /\ Bounded!Ascending(s)
  BY <1>0, InOrderFacts DEF QueueKept
<1>2. ASSUME NEW P \in SUBSET (1 .. MaxAdds)
      PROVE  /\ Bounded!Matching(queue, P).matched = Bounded!Selected(queue, P)
             /\ Bounded!Matching(queue, P).rest = Bounded!Selected(queue, 1 .. MaxAdds \ P)
  <2> DEFINE S == 1 .. MaxAdds
  <2>1. queue \in Seq(S)
    <3>1. queue \in Seq(1 .. added) BY <1>0 DEF QueueKept, InOrder
    <3>2. 1 .. added \subseteq S BY <1>0
    <3> HIDE DEF S
    <3> QED BY <3>1, <3>2, SeqMonotonic
  <2> HIDE DEF S
  <2>2. IsMatching(S, queue, P) BY <2>1, MatchingFacts, Zenon
  <2>3. \A T : Bounded!Selected(queue, T) = Selected(queue, T)
    BY Zenon DEF Bounded!Selected, Selected
  <2> QED BY <2>2, <2>3, Zenon DEF IsMatching, S
<1>3. Bounded!Copy(stack) = stack
  <2>1. PICK s \in Seq(1 .. added) : s = stack BY <1>0 DEF QueueKept, InOrder
  <2>2. Len(s) \in Nat /\ Len(s) <= Capacity BY <2>1, <1>0 DEF QueueKept
  <2>3. (IF Capacity > Len(s) THEN 0 ELSE Len(s) - Capacity) + 1 = 1 BY <2>2, <1>0
  <2>4. Bounded!Peek(s, Capacity) = Bounded!Reverse(SubSeq(s, 1, Len(s)))
    BY <2>3, Zenon DEF Bounded!Peek
  <2>5. SubSeq(s, 1, Len(s)) = s BY SubSeqFull
  <2>6. Bounded!Reverse(Bounded!Reverse(s)) = s BY ReversedTwice
  <2> QED BY <2>1, <2>4, <2>5, <2>6, Zenon DEF Bounded!Copy
<1> QED BY <1>1, <1>2, <1>3, Zenon DEF Bounded!InOrderAndBounded
--------------------------------------------------------------------------------
(* Observable: a merge has completed only when all sources have, and the   *)
(* last event is that; a source is stopped when it was asked for and what  *)
(* unsubscribes is there, and then once.                                   *)
Happenings == {"value", "error", "complete"}
MergeTypes ==
  /\ kind \in [Sources -> Kinds] /\ events \in Seq(Happenings) /\ completed \subseteq Sources
  /\ subscribed \in BOOLEAN /\ unsubscribed \in Nat
  /\ result \in [Sources -> {"none", "pending", "fn"}]
  /\ didUnsubscribe \in [Sources -> BOOLEAN] /\ stopped \in [Sources -> Nat]
MergeIInv ==
  /\ MergeTypes
  /\ \A i \in DOMAIN events : events[i] = "complete" => i = Len(events) /\ completed = Sources
  /\ ~subscribed => unsubscribed = 0
  /\ \A s \in Sources : didUnsubscribe[s] <=> unsubscribed > 0
  /\ \A s \in Sources :
       stopped[s] \in {0, 1} /\ (stopped[s] = 1 => didUnsubscribe[s] /\ result[s] = "fn")

LEMMA AppendEvent ==
  ASSUME NEW S, NEW s \in Seq(S), NEW x \in S
  PROVE  /\ Append(s, x) \in Seq(S) /\ Len(Append(s, x)) = Len(s) + 1
         /\ DOMAIN Append(s, x) = 1 .. Len(s) + 1 /\ DOMAIN s = 1 .. Len(s) /\ Len(s) \in Nat
         /\ Append(s, x)[Len(s) + 1] = x
         /\ \A i \in DOMAIN s : Append(s, x)[i] = s[i]
OBVIOUS

LEMMA MergeBegins == Merge!Init => MergeIInv
<1> SUFFICES ASSUME Merge!Init PROVE MergeIInv OBVIOUS
<1>1. /\ kind \in [Sources -> Kinds] /\ events = <<>> /\ completed = {} /\ subscribed = FALSE
      /\ unsubscribed = 0 /\ result \in [Sources -> {"none", "pending", "fn"}]
      /\ didUnsubscribe \in [Sources -> BOOLEAN] /\ stopped \in [Sources -> Nat]
  BY DEF Merge!Init
<1>2. MergeTypes
  <2>1. events \in Seq(Happenings) BY <1>1
  <2>2. completed \subseteq Sources /\ subscribed \in BOOLEAN /\ unsubscribed \in Nat BY <1>1
  <2> QED BY <1>1, <2>1, <2>2, Zenon DEF MergeTypes
<1>3. \A s \in Sources : didUnsubscribe[s] = FALSE /\ stopped[s] = 0 BY DEF Merge!Init
<1> QED BY <1>1, <1>2, <1>3 DEF MergeIInv

LEMMA EventKeeps ==
  ASSUME MergeIInv, NEW e \in Happenings, events' = Append(events, e), completed # Sources,
         e # "complete"
  PROVE  /\ events' \in Seq(Happenings)
         /\ \A i \in DOMAIN events' :
              events'[i] = "complete" => i = Len(events') /\ completed' = Sources
<1>1. events \in Seq(Happenings) /\ \A i \in DOMAIN events : events[i] # "complete"
  BY DEF MergeIInv, MergeTypes
<1> QED BY <1>1, AppendEvent

LEMMA MergeStays == MergeIInv /\ [Merge!Next]_(Merge!vars) => MergeIInv'
<1> SUFFICES ASSUME MergeIInv, [Merge!Next]_(Merge!vars) PROVE MergeIInv' OBVIOUS
<1>1. CASE Merge!Subscribe
  <2>1. /\ completed' \subseteq Sources /\ subscribed' = TRUE
        /\ UNCHANGED <<kind, unsubscribed, didUnsubscribe, stopped>>
    BY <1>1 DEF Merge!Subscribe, Merge!OfKind
  <2>6. result' \in [Sources -> {"none", "pending", "fn"}]
    <3>1. \A s \in Sources : (CASE kind[s] = "stream" -> "fn" [] kind[s] = "late" -> "pending"
                                [] OTHER -> "none") \in {"none", "pending", "fn"} OBVIOUS
    <3> QED BY <1>1, <3>1 DEF Merge!Subscribe
  <2>2. Cardinality(Merge!OfKind({"sync"})) \in Nat
    <3>1. Merge!OfKind({"sync"}) \subseteq Sources BY DEF Merge!OfKind
    <3> QED BY <3>1, SourcesAssumption, FS_Subset, FS_CardinalityType
  <2>3. events' = [i \in 1 .. Cardinality(Merge!OfKind({"sync"})) |-> "value"]
    BY <1>1 DEF Merge!Subscribe, Merge!Cardinality, Cardinality
  <2>4. /\ events' \in Seq(Happenings)
        /\ \A i \in DOMAIN events' : events'[i] # "complete"
    BY <2>2, <2>3 DEF Happenings
  <2>5. \A s \in Sources : stopped[s] = 0 BY <1>1 DEF MergeIInv, MergeTypes, Merge!Subscribe
  <2> QED BY <2>1, <2>4, <2>5, <2>6 DEF MergeIInv, MergeTypes
<1>2. CASE Merge!MergeCompletes
  <2>1. /\ events \in Seq(Happenings) /\ "complete" \in Happenings
        /\ \A i \in DOMAIN events : events[i] # "complete"
        /\ events' = Append(events, "complete") /\ completed' = completed /\ completed = Sources
    BY <1>2 DEF MergeIInv, MergeTypes, Merge!MergeCompletes, Happenings
  <2>2. /\ events' \in Seq(Happenings)
        /\ \A i \in DOMAIN events' :
              events'[i] = "complete" => i = Len(events') /\ completed' = Sources
    BY <2>1, AppendEvent
  <2> QED BY <1>2, <2>2 DEF MergeIInv, MergeTypes, Merge!MergeCompletes
<1>3. CASE Merge!Unsubscribe
  BY <1>3 DEF MergeIInv, MergeTypes, Merge!Unsubscribe
<1>4. ASSUME NEW s \in Sources, Merge!Settle(s) PROVE MergeIInv'
  <2>1. PICK e \in {"value", "error"} : events' = Append(events, e) BY <1>4 DEF Merge!Settle
  <2>2. completed # Sources BY <1>4 DEF Merge!Settle, Merge!Running
  <2>3. e \in Happenings /\ e # "complete" BY DEF Happenings
  <2>4. /\ events' \in Seq(Happenings)
        /\ \A i \in DOMAIN events' :
              events'[i] = "complete" => i = Len(events') /\ completed' = Sources
    BY <2>1, <2>2, <2>3, EventKeeps
  <2> QED BY <1>4, <2>4 DEF MergeIInv, MergeTypes, Merge!Settle
<1>5. ASSUME NEW s \in Sources, Merge!Value(s) PROVE MergeIInv'
  <2>1. completed # Sources BY <1>5 DEF Merge!Value, Merge!Running
  <2>2. "value" \in Happenings BY DEF Happenings
  <2>3. /\ events' \in Seq(Happenings)
        /\ \A i \in DOMAIN events' :
              events'[i] = "complete" => i = Len(events') /\ completed' = Sources
    BY <1>5, <2>1, <2>2, EventKeeps DEF Merge!Value
  <2> QED BY <1>5, <2>3 DEF MergeIInv, MergeTypes, Merge!Value
<1>6. ASSUME NEW s \in Sources, Merge!Complete(s) PROVE MergeIInv'
  <2>1. completed # Sources BY <1>6 DEF Merge!Complete, Merge!Running
  <2> QED BY <1>6, <2>1 DEF MergeIInv, MergeTypes, Merge!Complete
<1>7. ASSUME NEW s \in Sources, Merge!Performed(s) PROVE MergeIInv'
  BY <1>7 DEF MergeIInv, MergeTypes, Merge!Performed
<1>8. CASE UNCHANGED Merge!vars BY <1>8 DEF Merge!vars, MergeIInv, MergeTypes
<1> QED BY <1>1, <1>2, <1>3, <1>4, <1>5, <1>6, <1>7, <1>8 DEF Merge!Next

LEMMA MergeIsRight == MergeIInv => Merge!MergeEndsOnce
<1> SUFFICES ASSUME MergeIInv PROVE Merge!MergeEndsOnce OBVIOUS
<1>1. \A i \in DOMAIN events : events[i] = "complete" => i = Len(events) BY DEF MergeIInv
<1>2. ASSUME NEW s \in Sources PROVE stopped[s] <= (IF unsubscribed > 0 THEN 1 ELSE 0)
  <2>1. stopped[s] \in {0, 1} /\ (stopped[s] = 1 => unsubscribed > 0) BY DEF MergeIInv
  <2> QED BY <2>1
<1> QED BY <1>1, <1>2 DEF Merge!MergeEndsOnce

--------------------------------------------------------------------------------
(* usePromise: the one effect that is not cleaned up is the last that ran. *)
LateTypes ==
  /\ alive \in BOOLEAN /\ deps \in Nat /\ effect \in Nat
  /\ state \in [status : {"idle", "pending", "fulfilled", "rejected"}, of : Nat]
  /\ hidden \in BOOLEAN /\ domVisible \in BOOLEAN /\ observed \in BOOLEAN /\ backgrounded \in BOOLEAN
PromiseIInv ==
  /\ LateTypes /\ effect <= deps /\ unsettled \subseteq 1 .. effect
  /\ mounted = IF alive /\ effect > 0 THEN {effect} ELSE {}
  /\ Late!StateIsOfLastEffect
(* useBackgrounded: the state is what the last of the two events told.     *)
PageIInv == alive => backgrounded = hidden \/ backgrounded = ~observed

LEMMA HooksBegin == Late!Init => PromiseIInv /\ PageIInv
BY DEF Late!Init, Late!State, PromiseIInv, LateTypes, PageIInv, Late!StateIsOfLastEffect

LEMMA HooksStay ==
  PromiseIInv /\ PageIInv /\ [Late!Next]_(Late!vars) => PromiseIInv' /\ PageIInv'
<1> SUFFICES ASSUME PromiseIInv, PageIInv, [Late!Next]_(Late!vars) PROVE PromiseIInv' /\ PageIInv'
  OBVIOUS
<1> USE DEF PromiseIInv, PageIInv, LateTypes, Late!StateIsOfLastEffect, Late!promised, Late!page,
            Late!deferred, Late!State
<1>1. CASE Late!Render BY <1>1 DEF Late!Render
<1>2. CASE Late!RunEffect BY <1>2 DEF Late!RunEffect
<1>3. CASE Late!Unmount BY <1>3 DEF Late!Unmount
<1>4. ASSUME NEW e \in unsettled, Late!Settle(e) PROVE PromiseIInv' /\ PageIInv'
  BY <1>4 DEF Late!Settle
<1>5. CASE Late!SwitchTab BY <1>5 DEF Late!SwitchTab
<1>6. CASE Late!ChangeDom BY <1>6 DEF Late!ChangeDom
<1>7. CASE Late!Observe BY <1>7 DEF Late!Observe
<1>8. ASSUME NEW d \in Late!Left, Late!Resolve(d) \/ Late!Reject(d)
      PROVE  PromiseIInv' /\ PageIInv'
  <2>1. UNCHANGED <<alive, Late!promised, Late!page>> BY <1>8 DEF Late!Resolve, Late!Reject
  <2> QED BY <2>1
<1>9. CASE UNCHANGED Late!vars BY <1>9 DEF Late!vars
<1> QED BY <1>1, <1>2, <1>3, <1>4, <1>5, <1>6, <1>7, <1>8, <1>9 DEF Late!Next

LEMMA HooksAreRight ==
  PromiseIInv /\ PageIInv => Late!StateIsOfLastEffect /\ Late!BackgroundedWhenBothAgree
BY DEF PromiseIInv, PageIInv, LateTypes, Late!BackgroundedWhenBothAgree
--------------------------------------------------------------------------------
(* whenAll: what is left is counted, the error is that of the first        *)
(* rejection, and the promise is settled when nothing is left.             *)
Settlements == [by : Deferreds, how : {"rejected", "resolved"}]
FirstError(s, e) ==
  IF e = None THEN \A i \in DOMAIN s : s[i].how # "rejected"
  ELSE \E first \in DOMAIN s :
         /\ s[first].how = "rejected" /\ s[first].by = e
         /\ \A i \in DOMAIN s : s[i].how = "rejected" => first <= i
AllIInv ==
  /\ settled \in Seq(Settlements) /\ error \in Deferreds \cup {None}
  /\ count = Cardinality(Late!Left) /\ FirstError(settled, error)
  /\ master = IF Late!Left = {} THEN (IF error = None THEN "resolved" ELSE error) ELSE None

LEMMA AllBegins == Late!Init => AllIInv
<1> SUFFICES ASSUME Late!Init PROVE AllIInv OBVIOUS
<1>1. settled = <<>> /\ error = None /\ count = Cardinality(Deferreds)
      /\ master = IF Deferreds = {} THEN "resolved" ELSE None
  BY DEF Late!Init, Late!Cardinality, Cardinality
<1>2. Late!Left = Deferreds BY <1>1 DEF Late!Left
<1> QED BY <1>1, <1>2 DEF AllIInv, FirstError

LEMMA LeftAppended ==
  ASSUME NEW s \in Seq(Settlements), NEW x \in Settlements
  PROVE  LET left(u) == {d \in Deferreds : \A i \in DOMAIN u : u[i].by # d}
         IN left(Append(s, x)) = left(s) \ {x.by}
<1>1. \A i \in DOMAIN s : i \in DOMAIN Append(s, x) /\ Append(s, x)[i] = s[i] OBVIOUS
<1>2. Len(s) + 1 \in DOMAIN Append(s, x) /\ Append(s, x)[Len(s) + 1] = x OBVIOUS
<1>3. \A i \in DOMAIN Append(s, x) : i = Len(s) + 1 \/ i \in DOMAIN s OBVIOUS
<1> QED BY <1>1, <1>2, <1>3, Zenon

LEMMA FirstErrorAppended ==
  ASSUME NEW s \in Seq(Settlements), NEW x \in Settlements, NEW e, FirstError(s, e)
  PROVE  FirstError(Append(s, x), IF e = None /\ x.how = "rejected" THEN x.by ELSE e)
<1>1. \A i \in DOMAIN s : i \in DOMAIN Append(s, x) /\ Append(s, x)[i] = s[i] OBVIOUS
<1>2. Len(s) + 1 \in DOMAIN Append(s, x) /\ Append(s, x)[Len(s) + 1] = x OBVIOUS
<1>3. \A i \in DOMAIN Append(s, x) : i \in Nat /\ (i = Len(s) + 1 \/ (i \in DOMAIN s /\ i <= Len(s)))
  <2>1. DOMAIN Append(s, x) = 1 .. Len(s) + 1 /\ DOMAIN s = 1 .. Len(s) /\ Len(s) \in Nat OBVIOUS
  <2> QED BY <2>1
<1>4. x.by # None /\ Len(s) \in Nat /\ DOMAIN s \subseteq Nat BY LibraryNoneAssumption DEF Settlements
<1> DEFINE t == Append(s, x)
<1> HIDE DEF t
<1>5. CASE e = None /\ x.how = "rejected"
  BY <1>5, <1>1, <1>2, <1>3, <1>4 DEF FirstError, t
<1>6. CASE e = None /\ x.how # "rejected"
  BY <1>6, <1>1, <1>2, <1>3, <1>4 DEF FirstError, t
<1>7. CASE e # None
  <2>1. PICK first \in DOMAIN s :
          /\ s[first].how = "rejected" /\ s[first].by = e
          /\ \A i \in DOMAIN s : s[i].how = "rejected" => first <= i
    BY <1>7 DEF FirstError
  <2>2. first \in DOMAIN Append(s, x) /\ Append(s, x)[first] = s[first] BY <1>1
  <2>3. first <= Len(s) BY <1>3, <2>2, <1>4
  <2>4. \A i \in DOMAIN Append(s, x) : Append(s, x)[i].how = "rejected" => first <= i
    BY <1>1, <1>3, <1>4, <2>1, <2>3
  <2> QED BY <1>7, <2>1, <2>2, <2>4, Zenon DEF FirstError
<1> QED BY <1>5, <1>6, <1>7

LEMMA SettledKeeps ==
  ASSUME AllIInv, NEW d \in Late!Left, NEW how \in {"rejected", "resolved"},
         settled' = Append(settled, [by |-> d, how |-> how]), count' = count - 1,
         error' = IF error = None /\ how = "rejected" THEN d ELSE error,
         master' = IF count' = 0 THEN (IF error' = None THEN "resolved" ELSE error') ELSE master
  PROVE  AllIInv'
<1> DEFINE x == [by |-> d, how |-> how]
<1>1. d \in Deferreds BY DEF Late!Left
<1>2. x \in Settlements /\ x.by = d /\ x.how = how BY <1>1 DEF Settlements
<1>3. settled \in Seq(Settlements) /\ settled' = Append(settled, x) BY DEF AllIInv
<1> HIDE DEF x
<1>4. settled' \in Seq(Settlements) BY <1>2, <1>3
<1>5. Late!Left' = Late!Left \ {d}
  <2>1. Late!Left' = {c \in Deferreds : \A i \in DOMAIN Append(settled, x) : Append(settled, x)[i].by # c}
    BY <1>3 DEF Late!Left
  <2> QED BY <2>1, <1>2, <1>3, LeftAppended DEF Late!Left
<1>6. IsFiniteSet(Late!Left)
  <2>1. Late!Left \subseteq Deferreds BY DEF Late!Left
  <2> QED BY <2>1, DeferredsAssumption, FS_Subset
<1>7. Cardinality(Late!Left') = Cardinality(Late!Left) - 1 /\ IsFiniteSet(Late!Left')
  BY <1>5, <1>6, FS_RemoveElement
<1>8. count' = Cardinality(Late!Left') BY <1>7 DEF AllIInv
<1>9. count' = 0 <=> Late!Left' = {} BY <1>7, <1>8, FS_EmptySet
<1>10. FirstError(settled', error') BY <1>2, <1>3, FirstErrorAppended DEF AllIInv
<1>11. error' \in Deferreds \cup {None} BY <1>1 DEF AllIInv
<1>12. master = None BY DEF AllIInv
<1> QED BY <1>4, <1>8, <1>9, <1>10, <1>11, <1>12 DEF AllIInv

LEMMA AllStays == AllIInv /\ [Late!Next]_(Late!vars) => AllIInv'
<1> SUFFICES ASSUME AllIInv, [Late!Next]_(Late!vars) PROVE AllIInv' OBVIOUS
<1>1. ASSUME NEW d \in Late!Left, Late!Reject(d) PROVE AllIInv'
  <2>1. d # None /\ error \in Deferreds \cup {None}
    BY LibraryNoneAssumption DEF Late!Left, AllIInv
  <2>2. /\ settled' = Append(settled, [by |-> d, how |-> "rejected"]) /\ count' = count - 1
        /\ error' = IF error = None THEN d ELSE error
        /\ master' = IF count' = 0 THEN error' ELSE master
    BY <1>1 DEF Late!Reject
  <2> QED BY <2>1, <2>2, SettledKeeps
<1>2. ASSUME NEW d \in Late!Left, Late!Resolve(d) PROVE AllIInv'
  <2>1. /\ settled' = Append(settled, [by |-> d, how |-> "resolved"]) /\ count' = count - 1
        /\ error' = error
        /\ master' = IF count' # 0 THEN master ELSE IF error # None THEN error ELSE "resolved"
    BY <1>2 DEF Late!Resolve
  <2> QED BY <2>1, SettledKeeps
<1>3. CASE UNCHANGED Late!deferred
  BY <1>3 DEF Late!deferred, AllIInv, Late!Left
<1>4. Late!Render \/ Late!RunEffect \/ Late!Unmount \/ (\E e \in unsettled : Late!Settle(e))
      \/ Late!SwitchTab \/ Late!ChangeDom \/ Late!Observe \/ UNCHANGED Late!vars
      => UNCHANGED Late!deferred
  BY DEF Late!Render, Late!RunEffect, Late!Unmount, Late!Settle, Late!SwitchTab, Late!ChangeDom,
         Late!Observe, Late!vars
<1> QED BY <1>1, <1>2, <1>3, <1>4 DEF Late!Next

LEMMA AllIsRight == AllIInv => Late!WhenAllSettlesLast
<1> SUFFICES ASSUME AllIInv PROVE Late!WhenAllSettlesLast OBVIOUS
<1>1. None # "resolved" /\ None \notin Deferreds BY LibraryNoneAssumption
<1>2. master # None <=> Late!Left = {} BY <1>1 DEF AllIInv
<1> DEFINE rejections == {i \in DOMAIN settled : settled[i].how = "rejected"}
<1>3. ASSUME master # None
      PROVE  IF rejections = {} THEN master = "resolved"
             ELSE \E first \in rejections :
                    master = settled[first].by /\ \A i \in rejections : first <= i
  <2>1. master = IF error = None THEN "resolved" ELSE error BY <1>2, <1>3 DEF AllIInv
  <2>2. CASE error = None
    <3>1. rejections = {} BY <2>2 DEF AllIInv, FirstError
    <3> QED BY <3>1, <2>1, <2>2
  <2>3. CASE error # None
    <3>1. PICK first \in DOMAIN settled :
            /\ settled[first].how = "rejected" /\ settled[first].by = error
            /\ \A i \in DOMAIN settled : settled[i].how = "rejected" => first <= i
      BY <2>3 DEF AllIInv, FirstError
    <3> QED BY <3>1, <2>1, <2>3
  <2> QED BY <2>2, <2>3
<1> QED BY <1>2, <1>3 DEF Late!WhenAllSettlesLast
--------------------------------------------------------------------------------
(* LightningCacheService: what the evicting cache holds is queued.         *)
AnswersIInv ==
  /\ cachedResults \in [ResultKeys -> Results \cup {None}]
  /\ resultQueue \in Seq(ResultKeys) /\ Len(resultQueue) <= MaxQueries
  /\ \A k \in ResultKeys :
       cachedResults[k] # None => \E i \in 1 .. Len(resultQueue) : resultQueue[i] = k

LEMMA PulledFacts ==
  ASSUME AnswersIInv, NEW k \in ResultKeys
  PROVE  /\ Answers!Pulled(k) \in Seq(ResultKeys)
         /\ Len(Answers!Pulled(k)) \in Nat /\ Len(Answers!Pulled(k)) <= Len(resultQueue)
         /\ cachedResults[k] # None => Len(Answers!Pulled(k)) < Len(resultQueue)
         /\ \A l \in ResultKeys \ {k} :
              cachedResults[l] # None =>
                \E i \in 1 .. Len(Answers!Pulled(k)) : Answers!Pulled(k)[i] = l
<1> DEFINE T == ResultKeys \ {k}
           t == Selected(resultQueue, T)
<1>1. Answers!Pulled(k) = t BY DEF Answers!Pulled, Answers!Selected, Selected
<1>2. resultQueue \in Seq(ResultKeys) BY DEF AnswersIInv
<1>3. /\ t \in Seq(ResultKeys) /\ Len(t) <= Len(resultQueue)
      /\ \A j \in 1 .. Len(resultQueue) : resultQueue[j] \in T => \E i \in 1 .. Len(t) : t[i] = resultQueue[j]
      /\ (\E j \in 1 .. Len(resultQueue) : resultQueue[j] \notin T) => Len(t) < Len(resultQueue)
  <2>1. IsSelection(ResultKeys, resultQueue, T, t)
    <3> HIDE DEF T
    <3> QED BY <1>2, SelectedFacts, Zenon
  <2> HIDE DEF T, t
  <2> QED BY <2>1, Zenon DEF IsSelection
<1> HIDE DEF t
<1>4. Len(t) \in Nat BY <1>3
<1>5. ASSUME cachedResults[k] # None PROVE Len(t) < Len(resultQueue)
  <2>1. PICK i \in 1 .. Len(resultQueue) : resultQueue[i] = k BY <1>5, Zenon DEF AnswersIInv
  <2>2. resultQueue[i] \notin T BY <2>1
  <2> QED BY <2>2, <1>3, Zenon
<1>6. ASSUME NEW l \in T, cachedResults[l] # None PROVE \E i \in 1 .. Len(t) : t[i] = l
  <2>1. PICK j \in 1 .. Len(resultQueue) : resultQueue[j] = l BY <1>6, Zenon DEF AnswersIInv
  <2> QED BY <2>1, <1>3, Zenon
<1> QED BY <1>1, <1>3, <1>4, <1>5, <1>6, Zenon

LEMMA AnswersBegin == Answers!Init => AnswersIInv
<1> SUFFICES ASSUME Answers!Init PROVE AnswersIInv OBVIOUS
<1>1. resultQueue = <<>> /\ cachedResults = [k \in ResultKeys |-> None]
  BY DEF Answers!Init, Answers!Empty
<1> QED BY <1>1, LimitsOfQueuesAssumption DEF AnswersIInv

LEMMA AnswersStay == AnswersIInv /\ [Answers!Next]_(Answers!vars) => AnswersIInv'
<1> SUFFICES ASSUME AnswersIInv, [Answers!Next]_(Answers!vars) PROVE AnswersIInv' OBVIOUS
<1>0. /\ cachedResults \in [ResultKeys -> Results \cup {None}]
      /\ resultQueue \in Seq(ResultKeys) /\ Len(resultQueue) <= MaxQueries /\ MaxQueries \in Nat
  BY LimitsOfQueuesAssumption DEF AnswersIInv
<1>1. CASE Answers!Reset
  <2>1. resultQueue' = <<>> /\ cachedResults' = [k \in ResultKeys |-> None]
    BY <1>1 DEF Answers!Reset, Answers!Empty
  <2> QED BY <2>1, LimitsOfQueuesAssumption DEF AnswersIInv
<1>2. ASSUME NEW k \in ResultKeys, Answers!GetResult(k) PROVE AnswersIInv'
  <2> DEFINE p == Answers!Pulled(k)
  <2>1. cachedResults[k] # None /\ resultQueue' = Append(p, k) /\ UNCHANGED cachedResults
    BY <1>2 DEF Answers!GetResult
  <2>2. /\ p \in Seq(ResultKeys) /\ Len(p) \in Nat /\ Len(p) < Len(resultQueue)
        /\ \A l \in ResultKeys \ {k} : cachedResults[l] # None => \E i \in 1 .. Len(p) : p[i] = l
    BY <2>1, PulledFacts, Zenon
  <2> HIDE DEF p
  <2>3. /\ resultQueue' \in Seq(ResultKeys) /\ Len(resultQueue') = Len(p) + 1
        /\ \A i \in 1 .. Len(p) : resultQueue'[i] = p[i]
        /\ resultQueue'[Len(p) + 1] = k
    BY <2>1, <2>2
  <2>4. Len(resultQueue') <= MaxQueries BY <2>2, <2>3, <1>0
  <2>5. ASSUME NEW l \in ResultKeys, cachedResults[l] # None
        PROVE \E i \in 1 .. Len(resultQueue') : resultQueue'[i] = l
    <3>1. CASE l = k BY <3>1, <2>2, <2>3
    <3>2. CASE l # k
      <4>1. PICK i \in 1 .. Len(p) : p[i] = l BY <3>2, <2>2, <2>5
      <4>2. i \in 1 .. Len(p) + 1 BY <2>2
      <4> QED BY <4>1, <4>2, <2>3
    <3> QED BY <3>1, <3>2
  <2> QED BY <2>1, <2>3, <2>4, <2>5, <1>0 DEF AnswersIInv
<1>3. ASSUME NEW k \in ResultKeys, NEW v \in Results, Answers!AddResult(k, v) PROVE AnswersIInv'
  <2> DEFINE q == Append(resultQueue, k)
             a == [cachedResults EXCEPT ![k] = v]
  <2>1. \/ /\ Len(q) > MaxQueries
           /\ resultQueue' = Tail(q) /\ cachedResults' = [a EXCEPT ![Head(q)] = None]
        \/ /\ ~(Len(q) > MaxQueries) /\ resultQueue' = q /\ cachedResults' = a
    BY <1>3 DEF Answers!AddResult
  <2>2. /\ q \in Seq(ResultKeys) /\ Len(q) = Len(resultQueue) + 1 /\ Len(resultQueue) \in Nat
        /\ \A i \in 1 .. Len(resultQueue) : q[i] = resultQueue[i]
        /\ q[Len(resultQueue) + 1] = k
    BY <1>0
  <2>3. /\ a \in [ResultKeys -> Results \cup {None}]
        /\ \A l \in ResultKeys \ {k} : a[l] = cachedResults[l]
    BY <1>0
  <2> HIDE DEF q, a
  <2>4. ASSUME NEW l \in ResultKeys, a[l] # None PROVE \E i \in 1 .. Len(q) : q[i] = l
    <3>1. CASE l = k BY <3>1, <2>2
    <3>2. CASE l # k
      <4>1. PICK i \in 1 .. Len(resultQueue) : resultQueue[i] = l
        BY <3>2, <2>3, <2>4 DEF AnswersIInv
      <4>2. i \in 1 .. Len(q) BY <2>2
      <4> QED BY <4>1, <4>2, <2>2
    <3> QED BY <3>1, <3>2
  <2>5. CASE ~(Len(q) > MaxQueries) /\ resultQueue' = q /\ cachedResults' = a
    <3>1. Len(q) <= MaxQueries BY <2>5, <2>2, <1>0
    <3> QED BY <3>1, <2>2, <2>3, <2>4, <2>5 DEF AnswersIInv
  <2>6. CASE Len(q) > MaxQueries /\ resultQueue' = Tail(q) /\ cachedResults' = [a EXCEPT ![Head(q)] = None]
    <3>1. /\ q # <<>> /\ Head(q) = q[1] /\ Head(q) \in ResultKeys
          /\ Tail(q) \in Seq(ResultKeys) /\ Len(Tail(q)) = Len(q) - 1
          /\ \A i \in 1 .. Len(q) - 1 : Tail(q)[i] = q[i + 1]
      BY <2>2
    <3>2. Len(resultQueue') <= MaxQueries BY <3>1, <2>2, <2>6, <1>0
    <3>3. /\ cachedResults' \in [ResultKeys -> Results \cup {None}]
          /\ cachedResults'[Head(q)] = None
          /\ \A l \in ResultKeys : l # Head(q) => cachedResults'[l] = a[l]
      BY <2>3, <2>6, <3>1
    <3>4. ASSUME NEW l \in ResultKeys, cachedResults'[l] # None
          PROVE \E i \in 1 .. Len(resultQueue') : resultQueue'[i] = l
      <4>1. l # q[1] /\ a[l] # None BY <3>1, <3>3, <3>4, Zenon
      <4>2. PICK i \in 1 .. Len(q) : q[i] = l BY <4>1, <2>4
      <4>3. i - 1 \in 1 .. Len(q) - 1 /\ (i - 1) + 1 = i BY <4>1, <4>2, <2>2
      <4>4. Tail(q)[i - 1] = l BY <4>2, <4>3, <3>1, Zenon
      <4> QED BY <4>3, <4>4, <3>1, <2>6, Zenon
    <3> QED BY <2>6, <3>1, <3>2, <3>3, <3>4, Zenon DEF AnswersIInv
  <2> QED BY <2>1, <2>5, <2>6
<1>4. ASSUME NEW k \in ResultKeys, Answers!ClearResult(k) PROVE AnswersIInv'
  <2> DEFINE p == Answers!Pulled(k)
  <2>1. resultQueue' = p /\ cachedResults' = [cachedResults EXCEPT ![k] = None]
    BY <1>4 DEF Answers!ClearResult
  <2>2. /\ p \in Seq(ResultKeys) /\ Len(p) \in Nat /\ Len(p) <= Len(resultQueue)
        /\ \A l \in ResultKeys \ {k} : cachedResults[l] # None => \E i \in 1 .. Len(p) : p[i] = l
    BY <2>1, PulledFacts, Zenon
  <2> HIDE DEF p
  <2>3. /\ cachedResults' \in [ResultKeys -> Results \cup {None}] /\ cachedResults'[k] = None
        /\ \A l \in ResultKeys \ {k} : cachedResults'[l] = cachedResults[l]
    BY <2>1, <1>0
  <2>4. Len(p) <= MaxQueries BY <2>2, <1>0
  <2>5. \A l \in ResultKeys :
          cachedResults'[l] # None => \E i \in 1 .. Len(p) : p[i] = l
    BY <2>2, <2>3, Zenon
  <2> QED BY <2>1, <2>2, <2>3, <2>4, <2>5, Zenon DEF AnswersIInv
<1>5. ASSUME UNCHANGED <<cachedResults, resultQueue>> PROVE AnswersIInv'
  BY <1>5 DEF AnswersIInv
<1>6. CASE UNCHANGED Answers!vars
  BY <1>5, <1>6 DEF Answers!vars, Answers!lightning
<1>7. ASSUME NEW k \in ResultKeys,
             Answers!SetInLocalStorage(k) \/ Answers!RemoveFromLocalStorage(k)
               \/ \E v \in Results : Answers!AddNoEvictionResult(k, v)
      PROVE AnswersIInv'
  BY <1>5, <1>7 DEF Answers!SetInLocalStorage, Answers!RemoveFromLocalStorage,
     Answers!AddNoEvictionResult, Answers!lightning
<1>8. ASSUME Answers!ClearStorageForCurrentPrefix
               \/ \E p \in StoragePrefixes : Answers!SetLocalStorageKeyPrefix(p)
      PROVE AnswersIInv'
  BY <1>5, <1>8 DEF Answers!ClearStorageForCurrentPrefix, Answers!SetLocalStorageKeyPrefix,
     Answers!lightning
<1> QED BY <1>1, <1>2, <1>3, <1>4, <1>6, <1>7, <1>8, Zenon DEF Answers!Next

LEMMA AnswersAreBounded == AnswersIInv => Answers!CacheIsBounded
BY DEF AnswersIInv, Answers!CacheIsBounded, Answers!Contains

(* LocalStorageUtil.                                                       *)
LEMMA AnswersKeepPrefixes ==
  ASSUME [Answers!Next]_(Answers!vars), NEW s \in storage, s[1] # keyPrefix
  PROVE  s \in storage'
<1>0. \A x : <<keyPrefix, x>>[1] = keyPrefix OBVIOUS
<1>1. \A x : s # <<keyPrefix, x>> BY <1>0
<1>2. ASSUME storage' = Answers!Cleared PROVE s \in storage'
  BY <1>1, <1>2 DEF Answers!Cleared, Answers!StorageKey
<1>3. ASSUME NEW k, Answers!SetInLocalStorage(k) PROVE s \in storage'
  BY <1>3 DEF Answers!SetInLocalStorage
<1>4. ASSUME NEW k, Answers!RemoveFromLocalStorage(k) PROVE s \in storage'
  BY <1>1, <1>4 DEF Answers!RemoveFromLocalStorage, Answers!StorageKey
<1>5. ASSUME UNCHANGED Answers!local PROVE s \in storage'
  BY <1>5 DEF Answers!local
<1>6. CASE Answers!Reset BY <1>5, <1>6 DEF Answers!Reset
<1>7. ASSUME NEW k, Answers!GetResult(k) \/ Answers!ClearResult(k) PROVE s \in storage'
  BY <1>5, <1>7 DEF Answers!GetResult, Answers!ClearResult, Answers!local
<1>8. ASSUME NEW k, NEW v, Answers!AddResult(k, v) \/ Answers!AddNoEvictionResult(k, v)
      PROVE s \in storage'
  BY <1>5, <1>8 DEF Answers!AddResult, Answers!AddNoEvictionResult, Answers!local
<1>9. CASE Answers!ClearStorageForCurrentPrefix
  BY <1>2, <1>9 DEF Answers!ClearStorageForCurrentPrefix
<1>10. ASSUME NEW p, Answers!SetLocalStorageKeyPrefix(p) PROVE s \in storage'
  BY <1>2, <1>10 DEF Answers!SetLocalStorageKeyPrefix
<1>11. CASE UNCHANGED Answers!vars BY <1>5, <1>11 DEF Answers!vars
<1> QED BY <1>3, <1>4, <1>6, <1>7, <1>8, <1>9, <1>10, <1>11, Zenon DEF Answers!Next
--------------------------------------------------------------------------------
(* Promises: a function that waits to be called is the last one, or its    *)
(* clean-up is to come, or it was called after that.                       *)
PromisedIInv ==
  /\ original = Promised!Pending \/ original \in Promised!Outcomes
  /\ debounced \in Seq(BOOLEAN) /\ callbacks \in Seq(Nat)
  /\ current \in 1 .. Len(debounced) \cup {None}
  /\ \A i \in 1 .. Len(debounced) : debounced[i] => i \in {current, inEffect} \cup recalled

LEMMA PromisedBegins == Promised!Init => PromisedIInv
<1> SUFFICES ASSUME Promised!Init PROVE PromisedIInv OBVIOUS
<1>1. original = Promised!Pending /\ debounced = <<FALSE>> /\ current = 1 /\ callbacks = <<>>
  BY DEF Promised!Init
<1> QED BY <1>1 DEF PromisedIInv

LEMMA PromisedStays == PromisedIInv /\ [Promised!Next]_(Promised!promiseVars) => PromisedIInv'
<1> SUFFICES ASSUME PromisedIInv, [Promised!Next]_(Promised!promiseVars) PROVE PromisedIInv' OBVIOUS
<1>0. /\ debounced \in Seq(BOOLEAN) /\ callbacks \in Seq(Nat) /\ Len(debounced) \in Nat
      /\ DOMAIN debounced = 1 .. Len(debounced)
      /\ current \in 1 .. Len(debounced) \cup {None}
      /\ \A i \in 1 .. Len(debounced) : debounced[i] => i \in {current, inEffect} \cup recalled
  BY DEF PromisedIInv
<1>00. None \notin Nat BY LibraryNoneAssumption
<1>1. CASE Promised!Settle BY <1>1 DEF Promised!Settle, Promised!debounceVars, PromisedIInv
<1>2. CASE Promised!Continue BY <1>2 DEF Promised!Continue, Promised!debounceVars, PromisedIInv
<1>3. CASE Promised!Cancel BY <1>3 DEF Promised!Cancel, Promised!debounceVars, PromisedIInv
<1>4. CASE Promised!CallDebounced
  <2>1. PICK i \in 1 .. Len(debounced) :
             /\ debounced' = [debounced EXCEPT ![i] = TRUE]
             /\ recalled' = IF i \in {current, inEffect} THEN recalled ELSE recalled \cup {i}
    BY <1>4, <1>0 DEF Promised!CallDebounced
  <2>2. UNCHANGED <<original, current, inEffect, callbacks>> BY <1>4 DEF Promised!CallDebounced
  <2>3. /\ debounced' \in Seq(BOOLEAN) /\ Len(debounced') = Len(debounced)
        /\ \A j \in 1 .. Len(debounced) : j # i => debounced'[j] = debounced[j]
    BY <2>1, <1>0
  <2>4. i \in {current, inEffect} \cup recalled' /\ recalled \subseteq recalled' BY <2>1
  <2>5. \A j \in 1 .. Len(debounced') : debounced'[j] => j \in ({current, inEffect} \cup recalled)'
    BY <2>2, <2>3, <2>4, <1>0
  <2> QED BY <2>2, <2>3, <2>5, <1>0 DEF PromisedIInv
<1>5. CASE Promised!TimePasses
  <2>1. PICK i \in 1 .. Len(debounced) :
             debounced' = [debounced EXCEPT ![i] = FALSE] /\ callbacks' = Append(callbacks, i)
    BY <1>5, <1>0 DEF Promised!TimePasses
  <2>2. UNCHANGED <<original, current, inEffect, recalled>> BY <1>5 DEF Promised!TimePasses
  <2>3. /\ debounced' \in Seq(BOOLEAN) /\ Len(debounced') = Len(debounced) /\ ~debounced'[i]
        /\ \A j \in 1 .. Len(debounced) : j # i => debounced'[j] = debounced[j]
    BY <2>1, <1>0
  <2>4. callbacks' \in Seq(Nat) BY <2>1, <1>0
  <2> QED BY <2>2, <2>3, <2>4, <1>0 DEF PromisedIInv
<1>6. CASE Promised!ChangeCallback
  <2>1. /\ inEffect = current
        /\ debounced' = Append(debounced, FALSE) /\ current' = Len(debounced) + 1
        /\ UNCHANGED <<original, inEffect, recalled, callbacks>>
    BY <1>6, <1>0 DEF Promised!ChangeCallback
  <2>3. /\ debounced' \in Seq(BOOLEAN) /\ Len(debounced') = Len(debounced) + 1
        /\ \A j \in 1 .. Len(debounced) : debounced'[j] = debounced[j]
        /\ ~debounced'[Len(debounced) + 1]
    <3>1. PICK B, no : B = BOOLEAN /\ no = FALSE OBVIOUS
    <3>4. debounced \in Seq(B) /\ no \in B BY <3>1, <1>0
    <3>5. /\ Append(debounced, no) \in Seq(B) /\ Len(Append(debounced, no)) = Len(debounced) + 1
          /\ \A j \in DOMAIN debounced : Append(debounced, no)[j] = debounced[j]
          /\ Append(debounced, no)[Len(debounced) + 1] = no
      BY <3>4, AppendEvent
    <3> QED BY <2>1, <3>1, <3>5, <1>0, Zenon
  <2>4. \A j \in 1 .. Len(debounced') :
           debounced'[j] => j \in ({current, inEffect} \cup recalled)'
    BY <2>1, <2>3, <1>0
  <2>5. current' \in 1 .. Len(debounced') BY <2>1, <2>3, <1>0
  <2> QED BY <2>1, <2>3, <2>4, <2>5, <1>0 DEF PromisedIInv
<1>7. CASE Promised!Unmount
  <2>1. /\ inEffect = current /\ current' = None
        /\ UNCHANGED <<original, debounced, inEffect, recalled, callbacks>>
    BY <1>7 DEF Promised!Unmount
  <2> QED BY <2>1, <1>0 DEF PromisedIInv
<1>8. CASE Promised!RunEffects
  <2>1. /\ debounced' = [i \in DOMAIN debounced |-> debounced[i] /\ i # inEffect]
        /\ inEffect' = current /\ UNCHANGED <<original, current, recalled, callbacks>>
    BY <1>8 DEF Promised!RunEffects
  <2>2. PICK n \in Nat : n = Len(debounced) BY <1>0
  <2>3. debounced \in [1 .. n -> BOOLEAN] BY <2>2, <1>0
  <2>4. /\ debounced' \in [1 .. n -> BOOLEAN]
        /\ \A j \in 1 .. n : debounced'[j] => debounced[j] /\ j # inEffect
    BY <2>1, <2>3, Zenon
  <2>5. debounced' \in Seq(BOOLEAN) /\ Len(debounced') = n BY <2>4
  <2>6. \A j \in 1 .. Len(debounced') :
           debounced'[j] => j \in ({current, inEffect} \cup recalled)'
    BY <2>1, <2>2, <2>4, <2>5, <1>0
  <2> QED BY <2>1, <2>2, <2>5, <2>6, <1>0 DEF PromisedIInv
<1>9. CASE UNCHANGED Promised!promiseVars
  BY <1>9 DEF Promised!promiseVars, Promised!debounceVars, PromisedIInv
<1> QED BY <1>1, <1>2, <1>3, <1>4, <1>5, <1>6, <1>7, <1>8, <1>9 DEF Promised!Next

PromisedGivenUp ==
  /\ isCanceled /\ wrapped = Promised!Pending => wrapped' \in {Promised!Pending, Promised!Token}
  /\ callbacks' # callbacks => callbacks'[Len(callbacks')] \in {current, inEffect} \cup recalled

LEMMA PromisedGivesUp ==
  ASSUME PromisedIInv, [Promised!Next]_(Promised!promiseVars)
  PROVE  PromisedGivenUp
<1>1. ASSUME UNCHANGED <<wrapped, callbacks>> PROVE PromisedGivenUp BY <1>1 DEF PromisedGivenUp
<1>2. CASE Promised!Settle
  BY <1>1, <1>2 DEF Promised!Settle, Promised!debounceVars
<1>3. CASE Promised!Continue
  BY <1>3 DEF Promised!Continue, Promised!debounceVars, PromisedGivenUp
<1>4. CASE Promised!Cancel
  BY <1>1, <1>4 DEF Promised!Cancel, Promised!debounceVars
<1>5. CASE Promised!CallDebounced BY <1>1, <1>5 DEF Promised!CallDebounced
<1>6. CASE Promised!TimePasses
  <2>1. PICK i \in DOMAIN debounced : debounced[i] /\ callbacks' = Append(callbacks, i)
    BY <1>6 DEF Promised!TimePasses
  <2>2. debounced \in Seq(BOOLEAN) /\ callbacks \in Seq(Nat) BY DEF PromisedIInv
  <2>3. i \in 1 .. Len(debounced) /\ i \in Nat BY <2>2
  <2>4. i \in {current, inEffect} \cup recalled BY <2>1, <2>3 DEF PromisedIInv
  <2>5. callbacks'[Len(callbacks')] = i BY <2>1, <2>2, <2>3
  <2>6. wrapped' = wrapped BY <1>6 DEF Promised!TimePasses
  <2> QED BY <2>4, <2>5, <2>6 DEF PromisedGivenUp
<1>7. CASE Promised!ChangeCallback BY <1>1, <1>7 DEF Promised!ChangeCallback
<1>8. CASE Promised!Unmount BY <1>1, <1>8 DEF Promised!Unmount
<1>9. CASE Promised!RunEffects BY <1>1, <1>9 DEF Promised!RunEffects
<1>10. CASE UNCHANGED Promised!promiseVars
  BY <1>1, <1>10 DEF Promised!promiseVars, Promised!debounceVars
<1> QED BY <1>2, <1>3, <1>4, <1>5, <1>6, <1>7, <1>8, <1>9, <1>10 DEF Promised!Next

LEMMA NotNullFacts ==
  ASSUME NEW n \in Nat, NEW v \in [1 .. n -> PromisedElements \cup {None}]
  PROVE  /\ Promised!NotNull(v) \in Seq(PromisedElements)
         /\ (\A i \in 1 .. n : v[i] # None) => (n = 0 <=> Promised!NotNull(v) = <<>>)
         /\ \A i \in DOMAIN Promised!NotNull(v) : Promised!NotNull(v)[i] # None
<1> DEFINE T == {v[i] : i \in DOMAIN v} \ {None}
           t == Selected(v, T)
<1>1. Promised!NotNull(v) = t BY DEF Promised!NotNull, Promised!Selected, Selected
<1>2. v \in Seq(PromisedElements \cup {None}) /\ Len(v) = n /\ DOMAIN v = 1 .. n OBVIOUS
<1>3. IsSelection(PromisedElements \cup {None}, v, T, t) BY <1>2, SelectedFacts, Zenon
<1>4. T \subseteq PromisedElements /\ \A i \in 1 .. n : v[i] # None => v[i] \in T BY <1>2
<1> HIDE DEF t, T
<1>5. /\ t \in Seq(PromisedElements \cup {None}) /\ Len(t) <= n
      /\ \A i \in 1 .. Len(t) : t[i] \in T
      /\ \A j \in 1 .. n : v[j] \in T => \E i \in 1 .. Len(t) : t[i] = v[j]
  BY <1>2, <1>3, Zenon DEF IsSelection
<1>6. Len(t) \in Nat /\ DOMAIN t = 1 .. Len(t) BY <1>5
<1>7. t \in Seq(PromisedElements)
  <2>1. \A i \in 1 .. Len(t) : t[i] \in PromisedElements BY <1>4, <1>5
  <2> QED BY <2>1, <1>5, <1>6, SeqDef
<1>8. \A i \in DOMAIN t : t[i] # None BY <1>5, <1>6 DEF T
<1>9. ASSUME \A i \in 1 .. n : v[i] # None PROVE n = 0 <=> t = <<>>
  <2>1. CASE n = 0 BY <2>1, <1>5, <1>6
  <2>2. CASE n # 0
    <3>1. n \in 1 .. n BY <2>2
    <3>2. PICK i \in 1 .. Len(t) : t[i] = v[n] BY <3>1, <1>9, <1>4, <1>5
    <3> QED BY <3>2, <2>2, <1>6
  <2> QED BY <2>1, <2>2
<1> QED BY <1>1, <1>7, <1>8, <1>9

itself == [r \in {"error", Promised!NoValue, Promised!Filtered} |-> r]
reasonOf(p) == Promised!GetOrElsePromise(p, itself)
sameAs(p) == Promised!MapPromise(p, Promised!Resolved(p.value))
chosen == Promised!FilterPromise(original, Len(original.value) # 1)

LEMMA Reasons ==
  /\ itself["error"] = "error" /\ itself[Promised!NoValue] = Promised!NoValue
  /\ itself[Promised!Filtered] = Promised!Filtered
BY DEF itself

(* What the combinators do with what has failed, with nothing and with     *)
(* something                                                               *)
LEMMA OfRejected ==
  ASSUME NEW r \in {"error", Promised!NoValue, Promised!Filtered}, NEW p, p = Promised!Rejected(r)
  PROVE  /\ p.is = "rejected" /\ p.reason = r /\ reasonOf(p) = r
         /\ Promised!EitherOf(p, itself) = <<"left", r>>
         /\ \A x : Promised!MapPromise(p, x) = p /\ Promised!FilterPromise(p, x) = p
<1>1. p.is = "rejected" /\ p.reason = r BY DEF Promised!Rejected
<1>2. itself[r] = r BY DEF itself
<1> QED BY <1>1, <1>2 DEF reasonOf, Promised!GetOrElsePromise, Promised!EitherOf,
           Promised!MapPromise, Promised!FilterPromise, Promised!Then

LEMMA OfNothing ==
  ASSUME NEW v, NEW p, p = Promised!Resolved(v), v = None \/ v = <<>>
  PROVE  /\ p.is = "resolved" /\ p.value = v /\ reasonOf(p) = Promised!NoValue
         /\ Promised!EitherOf(p, itself) = <<"left", Promised!NoValue>>
         /\ \A x : /\ Promised!MapPromise(p, x) = Promised!Rejected(Promised!NoValue)
                   /\ Promised!FilterPromise(p, x) = Promised!Rejected(Promised!Filtered)
<1>1. p.is = "resolved" /\ p.value = v BY DEF Promised!Resolved
<1>2. Promised!IsReallyNone(v) BY DEF Promised!IsReallyNone
<1> QED BY <1>1, <1>2, Reasons DEF reasonOf, Promised!GetOrElsePromise, Promised!EitherOf,
           Promised!MapPromise, Promised!FilterPromise, Promised!Then

IsSomething(p, v) ==
  /\ p.is = "resolved" /\ p.value = v /\ reasonOf(p) = v
  /\ Promised!EitherOf(p, itself) = <<"right", v>>
  /\ Promised!Empty(p) = Promised!Resolved(FALSE)
  /\ \A x : /\ Promised!MapPromise(p, x) = x
            /\ x => Promised!FilterPromise(p, x) = p
            /\ ~x => Promised!FilterPromise(p, x) = Promised!Rejected(Promised!Filtered)

LEMMA OfSomething ==
  ASSUME NEW v, NEW p, p = Promised!Resolved(v), v # None, v # <<>>
  PROVE  IsSomething(p, v)
<1>1. p.is = "resolved" /\ p.value = v BY DEF Promised!Resolved
<1>2. ~Promised!IsReallyNone(v) BY DEF Promised!IsReallyNone
<1>3. reasonOf(p) = v BY <1>1, <1>2 DEF reasonOf, Promised!GetOrElsePromise
<1>4. Promised!EitherOf(p, itself) = <<"right", v>> BY <1>1, <1>2 DEF Promised!EitherOf
<1>5. Promised!Empty(p) = Promised!Resolved(FALSE)
  <2>1. Promised!IsReallyNone(v) = FALSE BY <1>2 DEF Promised!IsReallyNone
  <2>2. Promised!Empty(p) = Promised!Resolved(Promised!IsReallyNone(v))
    BY <1>1, Zenon DEF Promised!Empty, Promised!Then
  <2> QED BY <2>1, <2>2, Zenon
<1>6. ASSUME NEW x PROVE Promised!MapPromise(p, x) = x
  BY <1>1, <1>2 DEF Promised!MapPromise, Promised!Then
<1>7. ASSUME NEW x PROVE x => Promised!FilterPromise(p, x) = p
  BY <1>1, <1>2, Zenon DEF Promised!FilterPromise, Promised!Then
<1>8. ASSUME NEW x PROVE ~x => Promised!FilterPromise(p, x) = Promised!Rejected(Promised!Filtered)
  BY <1>1, <1>2, Zenon DEF Promised!FilterPromise, Promised!Then
<1> QED BY <1>1, <1>3, <1>4, <1>5, <1>6, <1>7, <1>8, Zenon DEF IsSomething

passing == [e \in PromisedElements |-> Promised!Resolved(e)]
failing == [e \in PromisedElements |-> Promised!Rejected("error")]
passed == Promised!FlatMapEach(original, passing)
stuck == Promised!FlatMapEach(original, failing)
ofEach == Promised!MapEach(original, [e \in PromisedElements |-> e])

ChainsOf ==
  /\ reasonOf(sameAs(original)) = reasonOf(original)
  /\ chosen.is = "rejected" => reasonOf(sameAs(chosen)) = chosen.reason
  /\ chosen.is = "resolved" => chosen = original /\ Promised!Empty(original) = Promised!Resolved(FALSE)
  /\ Promised!EitherOf(original, itself)
       = <<IF original.is = "resolved" /\ ~Promised!IsReallyNone(original.value) THEN "right" ELSE "left",
           reasonOf(original)>>
  /\ ofEach = sameAs(original)
  /\ passed.is = sameAs(original).is
  /\ passed.is = "resolved" =>
       /\ \A i \in DOMAIN passed.value : passed.value[i] # None
       /\ stuck.is = "rejected" <=> passed.value # <<>>

LEMMA ChainsOfRejected ==
  ASSUME original = Promised!Rejected("error")
  PROVE  ChainsOf
<1>1. /\ original.is = "rejected" /\ original.reason = "error" /\ reasonOf(original) = "error"
      /\ Promised!EitherOf(original, itself) = <<"left", "error">>
      /\ \A x : /\ Promised!MapPromise(original, x) = original
                /\ Promised!FilterPromise(original, x) = original
  BY OfRejected
<1>2. sameAs(original) = original /\ chosen = original BY <1>1, Zenon DEF sameAs, chosen
<1>3. ofEach = original /\ passed = original
  BY <1>1, Zenon DEF ofEach, passed, Promised!MapEach, Promised!FlatMapEach
<1> QED BY <1>1, <1>2, <1>3 DEF ChainsOf

LEMMA ChainsOfNothing ==
  ASSUME NEW v, original = Promised!Resolved(v), v = None \/ v = <<>>
  PROVE  ChainsOf
<1>1. /\ original.is = "resolved" /\ original.value = v /\ reasonOf(original) = Promised!NoValue
      /\ Promised!EitherOf(original, itself) = <<"left", Promised!NoValue>>
      /\ \A x : /\ Promised!MapPromise(original, x) = Promised!Rejected(Promised!NoValue)
                /\ Promised!FilterPromise(original, x) = Promised!Rejected(Promised!Filtered)
  BY OfNothing
<1>2. /\ sameAs(original) = Promised!Rejected(Promised!NoValue)
      /\ chosen = Promised!Rejected(Promised!Filtered)
  BY <1>1, Zenon DEF sameAs, chosen
<1>3. /\ reasonOf(sameAs(original)) = Promised!NoValue /\ sameAs(original).is = "rejected"
      /\ chosen.is = "rejected" /\ chosen.reason = Promised!Filtered
      /\ sameAs(chosen) = chosen /\ reasonOf(chosen) = Promised!Filtered
  BY <1>2, OfRejected DEF sameAs
<1>4. ofEach = sameAs(original) /\ passed = sameAs(original)
  BY <1>1, <1>2, Zenon DEF ofEach, passed, Promised!MapEach, Promised!FlatMapEach
<1>5. Promised!IsReallyNone(v) BY DEF Promised!IsReallyNone
<1> QED BY <1>1, <1>3, <1>4, <1>5 DEF ChainsOf

LEMMA ChainsOfArray ==
  ASSUME NEW n \in Nat, NEW v \in [1 .. n -> PromisedElements \cup {None}], v # None, v # <<>>,
         original = Promised!Resolved(v)
  PROVE  ChainsOf
<1>1. /\ original.is = "resolved" /\ original.value = v /\ reasonOf(original) = v
      /\ Promised!EitherOf(original, itself) = <<"right", v>>
      /\ Promised!Empty(original) = Promised!Resolved(FALSE)
      /\ \A x : /\ Promised!MapPromise(original, x) = x
                /\ x => Promised!FilterPromise(original, x) = original
                /\ ~x => Promised!FilterPromise(original, x) = Promised!Rejected(Promised!Filtered)
  <2>1. IsSomething(original, v) BY OfSomething
  <2> QED BY <2>1, Zenon DEF IsSomething
<1>2. sameAs(original) = original BY <1>1, Zenon DEF sameAs
<1>3. \/ chosen = original
      \/ chosen = Promised!Rejected(Promised!Filtered)
  BY <1>1, Zenon DEF chosen
<1>4. chosen.is = "rejected" => reasonOf(sameAs(chosen)) = chosen.reason
  <2>1. CASE chosen = original BY <2>1, <1>1
  <2>2. CASE chosen = Promised!Rejected(Promised!Filtered)
    BY <2>2, OfRejected DEF sameAs
  <2> QED BY <1>3, <2>1, <2>2
<1>5. chosen.is = "resolved" => chosen = original
  <2>1. Promised!Rejected(Promised!Filtered).is = "rejected" BY OfRejected
  <2> QED BY <1>3, <2>1
<1>6. ~Promised!IsReallyNone(v) BY DEF Promised!IsReallyNone
<1>7. ofEach = original
  <2> DEFINE f == [e \in PromisedElements |-> e]
  <2>1. [i \in DOMAIN v |-> IF v[i] = None THEN None ELSE f[v[i]]] = v
    <3>1. \A i \in DOMAIN v : v[i] \in PromisedElements \cup {None} OBVIOUS
    <3>2. \A i \in DOMAIN v : (IF v[i] = None THEN None ELSE f[v[i]]) = v[i] BY <3>1
    <3>3. v = [i \in DOMAIN v |-> v[i]] OBVIOUS
    <3> HIDE DEF f
    <3> QED BY <3>2, <3>3
  <2> HIDE DEF f
  <2>2. ofEach = Promised!Resolved(v) 
    <3> DEFINE w == [i \in DOMAIN v |-> IF v[i] = None THEN None ELSE f[v[i]]]
    <3>1. Promised!MapEach(original, f) = Promised!MapPromise(original, Promised!Resolved(w))
      BY <1>1 DEF Promised!MapEach
    <3> HIDE DEF w
    <3>2. w = v BY <2>1 DEF w
    <3>3. ofEach = Promised!MapEach(original, f) BY DEF ofEach, f
    <3> QED BY <3>1, <3>2, <3>3, <1>1, Zenon
  <2> QED BY <2>2
<1> DEFINE t == Promised!NotNull(v)
<1>8. t \in Seq(PromisedElements) /\ DOMAIN t = 1 .. Len(t) /\ Len(t) \in Nat
  <2>1. t \in Seq(PromisedElements) BY NotNullFacts, Zenon
  <2> HIDE DEF t
  <2> QED BY <2>1
<1>9. \A i \in DOMAIN t : t[i] \in PromisedElements /\ t[i] # None
  <2>1. \A i \in DOMAIN t : t[i] # None BY NotNullFacts, Zenon
  <2> HIDE DEF t
  <2> QED BY <2>1, <1>8
<1> HIDE DEF t
<1>10. passed = Promised!Resolved(Promised!NotNull(t))
  <2> DEFINE m == [i \in DOMAIN t |-> passing[t[i]]]
  <2>1. \A i \in DOMAIN m : m[i] = Promised!Resolved(t[i]) BY <1>9 DEF passing
  <2>2. \A i \in DOMAIN m : m[i].is = "resolved" /\ m[i].value = t[i]
    <3>1. \A x : Promised!Resolved(x).is = "resolved" /\ Promised!Resolved(x).value = x
      BY DEF Promised!Resolved
    <3> HIDE DEF m
    <3> QED BY <2>1, <3>1
  <2>3. ~ \E i \in DOMAIN m : m[i].is = "rejected" BY <2>2
  <2>4. [i \in DOMAIN m |-> m[i].value] = t
    <3>1. t = [i \in DOMAIN t |-> t[i]] BY <1>8
    <3>2. DOMAIN m = DOMAIN t OBVIOUS
    <3> HIDE DEF m
    <3> QED BY <2>2, <3>1, <3>2
  <2> HIDE DEF m
  <2>5. passed = IF \E i \in DOMAIN m : m[i].is = "rejected"
                 THEN m[CHOOSE i \in DOMAIN m : m[i].is = "rejected"]
                 ELSE Promised!Resolved(Promised!NotNull([i \in DOMAIN m |-> m[i].value]))
    BY <1>1, Zenon DEF passed, Promised!FlatMapEach, m, t
  <2> QED BY <2>3, <2>4, <2>5
<1>11. stuck.is = "rejected" <=> t # <<>>
  <2> DEFINE m == [i \in DOMAIN t |-> failing[t[i]]]
  <2>1. \A i \in DOMAIN m : m[i] = Promised!Rejected("error") BY <1>9 DEF failing
  <2>2. \A i \in DOMAIN m : m[i].is = "rejected" BY <2>1 DEF Promised!Rejected
  <2>3. DOMAIN m = DOMAIN t OBVIOUS
  <2> HIDE DEF m
  <2>5. stuck = IF \E i \in DOMAIN m : m[i].is = "rejected"
                THEN m[CHOOSE i \in DOMAIN m : m[i].is = "rejected"]
                ELSE Promised!Resolved(Promised!NotNull([i \in DOMAIN m |-> m[i].value]))
    BY <1>1, Zenon DEF stuck, Promised!FlatMapEach, m, t
  <2>6. CASE t = <<>>
    <3>1. ~ \E i \in DOMAIN m : m[i].is = "rejected" BY <2>3, <2>6
    <3>2. \A x : Promised!Resolved(x).is = "resolved" BY DEF Promised!Resolved
    <3> QED BY <2>5, <2>6, <3>1, <3>2
  <2>7. CASE t # <<>>
    <3>1. 1 \in DOMAIN m BY <1>8, <2>3, <2>7
    <3>2. \E i \in DOMAIN m : m[i].is = "rejected" BY <3>1, <2>2
    <3>3. stuck.is = "rejected" BY <2>5, <3>2, Zenon
    <3> QED BY <3>3, <2>7
  <2> QED BY <2>6, <2>7
<1>12. /\ \A i \in DOMAIN Promised!NotNull(t) : Promised!NotNull(t)[i] # None
       /\ Promised!NotNull(t) # <<>> <=> t # <<>>
  <2>1. PICK l \in Nat : l = Len(t) BY <1>8
  <2>2. t \in [1 .. l -> PromisedElements \cup {None}] BY <2>1, <1>8
  <2>3. \A i \in 1 .. l : t[i] # None BY <2>1, <1>8, <1>9
  <2>4. l = 0 <=> t = <<>> BY <2>1, <1>8
  <2>5. /\ \A i \in DOMAIN Promised!NotNull(t) : Promised!NotNull(t)[i] # None
        /\ l = 0 <=> Promised!NotNull(t) = <<>>
    BY <2>2, <2>3, NotNullFacts, Zenon
  <2> QED BY <2>4, <2>5, Zenon
<1>13. passed.is = "resolved" /\ passed.value = Promised!NotNull(t)
  BY <1>10 DEF Promised!Resolved
<1> QED BY <1>1, <1>2, <1>4, <1>5, <1>6, <1>7, <1>11, <1>12, <1>13, Zenon DEF ChainsOf

LEMMA PromisedIsRight == PromisedIInv => Promised!ChainsEndOnce
<1> SUFFICES ASSUME PromisedIInv PROVE Promised!ChainsEndOnce OBVIOUS
<1>1. ASSUME original # Promised!Pending PROVE ChainsOf
  <2>1. original \in Promised!Outcomes BY <1>1 DEF PromisedIInv
  <2>2. CASE original = Promised!Rejected("error") BY <2>2, ChainsOfRejected
  <2>3. ASSUME NEW v \in Promised!Arrays \cup {None}, original = Promised!Resolved(v) PROVE ChainsOf
    <3>1. CASE v = None \/ v = <<>> BY <3>1, <2>3, ChainsOfNothing
    <3>2. CASE v # None /\ v # <<>>
      <4>1. PICK n \in 0 .. 2 : v \in [1 .. n -> PromisedElements \cup {None}]
        BY <2>3, <3>2 DEF Promised!Arrays
      <4> QED BY <4>1, <3>2, <2>3, ChainsOfArray
    <3> QED BY <3>1, <3>2
  <2> QED BY <2>1, <2>2, <2>3 DEF Promised!Outcomes
<1> QED BY <1>1, Zenon DEF Promised!ChainsEndOnce, ChainsOf, chosen, sameAs, itself, reasonOf, ofEach,
           passed, stuck, passing, failing
--------------------------------------------------------------------------------
(* LinkedMap: the list has the entries of the map, each once.              *)
MapEntries == [key : Keys, value : Values]
MapListed(l, n, m) ==
  /\ \A k \in Keys : m[k] # None => m[k].key = k
  /\ \A i \in 1 .. n : m[l[i].key] = l[i]
  /\ \A i, j \in 1 .. n : l[i].key = l[j].key => i = j
  /\ \A k \in Keys : m[k] # None => \E i \in 1 .. n : l[i] = m[k]
MapIInv ==
  /\ list \in Seq(MapEntries) /\ map \in [Keys -> MapEntries \cup {None}]
  /\ MapListed(list, Len(list), map)

LEMMA MapTyped ==
  MapIInv => /\ list \in Seq(MapEntries) /\ Len(list) \in Nat
             /\ map \in [Keys -> MapEntries \cup {None}]
             /\ \A i \in 1 .. Len(list) : list[i] \in MapEntries /\ list[i].key \in Keys
             /\ DOMAIN list = 1 .. Len(list)
<1> SUFFICES ASSUME MapIInv
             PROVE  /\ list \in Seq(MapEntries) /\ Len(list) \in Nat
                    /\ map \in [Keys -> MapEntries \cup {None}]
                    /\ \A i \in 1 .. Len(list) : list[i] \in MapEntries /\ list[i].key \in Keys
                    /\ DOMAIN list = 1 .. Len(list)
  OBVIOUS
<1>1. list \in Seq(MapEntries) /\ map \in [Keys -> MapEntries \cup {None}]
  BY Zenon DEF MapIInv, MapListed
<1>2. \A e \in MapEntries : e.key \in Keys BY DEF MapEntries
<1>3. \A i \in 1 .. Len(list) : list[i] \in MapEntries BY <1>1
<1> QED BY <1>1, <1>2, <1>3

LEMMA MinFacts ==
  ASSUME NEW I \in SUBSET Nat, I # {}
  PROVE  Maps!Min(I) \in I /\ \A y \in I : Maps!Min(I) <= y
<1>1. PICK m \in I : \A y \in I : m <= y BY LeastNumber
<1>2. Maps!Min(I) = CHOOSE x \in I : \A y \in I : x <= y BY DEF Maps!Min
<1> QED BY <1>1, <1>2, Zenon

LEMMA IndexOfFacts ==
  ASSUME list \in Seq(MapEntries), NEW e, NEW i \in 1 .. Len(list), list[i] = e
  PROVE  Maps!IndexOf(e) \in 1 .. Len(list) /\ list[Maps!IndexOf(e)] = e
<1> DEFINE I == {j \in 1 .. Len(list) : list[j] = e}
<1>1. Maps!IndexOf(e) = IF I # {} THEN Maps!Min(I) ELSE 0
  BY DEF Maps!IndexOf, Maps!SelectInSeq
<1>2. I \in SUBSET Nat /\ i \in I OBVIOUS
<1>3. Maps!Min(I) \in I
  <2> HIDE DEF I
  <2> QED BY <1>2, MinFacts
<1>4. Maps!IndexOf(e) \in I
  <2> HIDE DEF I
  <2> QED BY <1>1, <1>2, <1>3
<1> QED BY <1>4

LEMMA MapBegins == Maps!Init => MapIInv
<1> SUFFICES ASSUME Maps!Init PROVE MapIInv OBVIOUS
<1>1. list = <<>> /\ map = [k \in Keys |-> None] BY DEF Maps!Init
<1> QED BY <1>1 DEF MapIInv, MapListed

(* The order of those that stay                                            *)
HasKey(l, k) == \E i \in 1 .. Len(l) : l[i].key = k
StaysBefore(l, m, j, k) ==
  HasKey(l, j) /\ HasKey(l, k) /\ HasKey(m, j) /\ HasKey(m, k)
    => (Maps!Precedes(l, j, k) <=> Maps!Precedes(m, j, k))
MapStep == MapIInv' /\ \A j, k \in Keys : StaysBefore(list, list', j, k)

LEMMA MapAppended ==
  ASSUME MapIInv, NEW k \in Keys, NEW v \in Values, map[k] = None,
         map' = [map EXCEPT ![k] = Maps!Entry(k, v)], list' = Append(list, Maps!Entry(k, v))
  PROVE  MapStep
<1> DEFINE L == Len(list)
           e == Maps!Entry(k, v)
<1>0. e \in MapEntries /\ e.key = k BY DEF MapEntries, Maps!Entry
<1> HIDE DEF e
<1>1. /\ list \in Seq(MapEntries) /\ L \in Nat /\ map \in [Keys -> MapEntries \cup {None}]
      /\ \A i \in 1 .. L : list[i] \in MapEntries /\ list[i].key \in Keys
  BY MapTyped
<1>2. None \notin MapEntries BY LibraryNoneAssumption DEF MapEntries
<1>3. \A i \in 1 .. L : list[i].key # k
  <2> SUFFICES ASSUME NEW i \in 1 .. L, list[i].key = k PROVE FALSE OBVIOUS
  <2>1. map[k] = list[i] BY Zenon DEF MapIInv, MapListed
  <2> QED BY <2>1, <1>1, <1>2
<1>4. /\ list' \in Seq(MapEntries) /\ Len(list') = L + 1 /\ list'[L + 1] = e
      /\ \A i \in 1 .. L : list'[i] = list[i]
  BY <1>0, <1>1 DEF e
<1>5. /\ map' \in [Keys -> MapEntries \cup {None}] /\ map'[k] = e
      /\ \A l \in Keys : l # k => map'[l] = map[l]
  BY <1>0, <1>1 DEF e
<1>6. \A i \in 1 .. L + 1 : i = L + 1 \/ i \in 1 .. L BY <1>1
<1>7. L + 1 \in 1 .. L + 1 /\ (\A i \in 1 .. L : i \in 1 .. L + 1 /\ i < L + 1) BY <1>1
<1>8. MapIInv'
  <2>1. ASSUME NEW l \in Keys, map'[l] # None
        PROVE map'[l].key = l /\ \E i \in 1 .. L + 1 : list'[i] = map'[l]
    <3>1. CASE l = k BY <3>1, <1>0, <1>4, <1>5, <1>7
    <3>2. CASE l # k
      <4>1. map'[l] = map[l] BY <3>2, <1>5
      <4>2. map[l].key = l BY <4>1, <2>1, Zenon DEF MapIInv, MapListed
      <4>3. PICK i \in 1 .. L : list[i] = map[l] BY <4>1, <2>1, Zenon DEF MapIInv, MapListed
      <4> QED BY <4>1, <4>2, <4>3, <1>4, <1>7
    <3> QED BY <3>1, <3>2
  <2>2. ASSUME NEW i \in 1 .. L + 1 PROVE map'[list'[i].key] = list'[i]
    <3>1. CASE i = L + 1 BY <3>1, <1>0, <1>4, <1>5
    <3>2. CASE i \in 1 .. L
      <4>1. map[list[i].key] = list[i] BY <3>2, Zenon DEF MapIInv, MapListed
      <4>2. list[i].key \in Keys /\ list[i].key # k BY <3>2, <1>1, <1>3
      <4> QED BY <4>1, <4>2, <3>2, <1>4, <1>5
    <3> QED BY <3>1, <3>2, <1>6
  <2>3. ASSUME NEW i \in 1 .. L + 1, NEW j \in 1 .. L + 1, list'[i].key = list'[j].key PROVE i = j
    <3>1. CASE i \in 1 .. L /\ j \in 1 .. L
      <4>1. list[i].key = list[j].key BY <2>3, <3>1, <1>4
      <4> QED BY <3>1, <4>1, Zenon DEF MapIInv, MapListed
    <3>2. CASE i = L + 1 /\ j \in 1 .. L BY <2>3, <3>2, <1>0, <1>3, <1>4
    <3>3. CASE j = L + 1 /\ i \in 1 .. L BY <2>3, <3>3, <1>0, <1>3, <1>4
    <3> QED BY <3>1, <3>2, <3>3, <1>6
  <2>4. MapListed(list', Len(list'), map')
    <3>1. MapListed(list', L + 1, map') BY <2>1, <2>2, <2>3, Zenon DEF MapListed
    <3> QED BY <3>1, <1>4
  <2> QED BY <1>4, <1>5, <2>4, Zenon DEF MapIInv
<1>9. ASSUME NEW a \in Keys, NEW b \in Keys, HasKey(list, a), HasKey(list, b)
      PROVE Maps!Precedes(list, a, b) <=> Maps!Precedes(list', a, b)
  <2>1. DOMAIN list = 1 .. L /\ DOMAIN list' = 1 .. L + 1 BY <1>1, <1>4
  <2>2. ASSUME Maps!Precedes(list, a, b) PROVE Maps!Precedes(list', a, b)
    <3>1. PICK m, n \in 1 .. L : m < n /\ list[m].key = a /\ list[n].key = b
      BY <2>1, <2>2 DEF Maps!Precedes
    <3> QED BY <3>1, <2>1, <1>4, <1>7 DEF Maps!Precedes
  <2>3. ASSUME Maps!Precedes(list', a, b) PROVE Maps!Precedes(list, a, b)
    <3>1. PICK m, n \in 1 .. L + 1 : m < n /\ list'[m].key = a /\ list'[n].key = b
      BY <2>1, <2>3 DEF Maps!Precedes
    <3>2. b # k BY <1>3, <1>9 DEF HasKey
    <3>3. n \in 1 .. L BY <3>1, <3>2, <1>0, <1>4, <1>6
    <3>4. m \in 1 .. L BY <3>1, <3>3, <1>1
    <3> QED BY <3>1, <3>3, <3>4, <2>1, <1>4 DEF Maps!Precedes
  <2> QED BY <2>2, <2>3
<1> QED BY <1>8, <1>9, Zenon DEF MapStep, StaysBefore

LEMMA MapReplaced ==
  ASSUME MapIInv, NEW k \in Keys, NEW v \in Values, map[k] # None,
         map' = [map EXCEPT ![k] = Maps!Entry(k, v)],
         list' = [list EXCEPT ![Maps!IndexOf(map[k])] = Maps!Entry(k, v)]
  PROVE  MapStep
<1> DEFINE L == Len(list)
           e == Maps!Entry(k, v)
           p == Maps!IndexOf(map[k])
<1>0. e \in MapEntries /\ e.key = k BY DEF MapEntries, Maps!Entry
<1>1. /\ list \in Seq(MapEntries) /\ L \in Nat /\ map \in [Keys -> MapEntries \cup {None}]
      /\ \A i \in 1 .. L : list[i] \in MapEntries /\ list[i].key \in Keys
  BY MapTyped
<1>2. PICK q \in 1 .. L : list[q] = map[k] BY Zenon DEF MapIInv, MapListed
<1>3. p \in 1 .. L /\ list[p] = map[k] BY <1>1, <1>2, IndexOfFacts, Zenon
<1> HIDE DEF e, p
<1>4. /\ list' \in Seq(MapEntries) /\ Len(list') = L /\ list'[p] = e
      /\ \A i \in 1 .. L : i # p => list'[i] = list[i]
  BY <1>0, <1>1, <1>3 DEF e, p
<1>5. /\ map' \in [Keys -> MapEntries \cup {None}] /\ map'[k] = e
      /\ \A l \in Keys : l # k => map'[l] = map[l]
  BY <1>0, <1>1 DEF e
<1>6. list[p].key = k
  <2>1. map[k].key = k BY Zenon DEF MapIInv, MapListed
  <2> QED BY <2>1, <1>3
<1>7. \A i \in 1 .. L : list'[i].key = list[i].key BY <1>0, <1>4, <1>6
<1>8. \A i \in 1 .. L : i # p => list[i].key # k
  <2>1. \A i, j \in 1 .. L : list[i].key = list[j].key => i = j BY Zenon DEF MapIInv, MapListed
  <2> QED BY <2>1, <1>3, <1>6
<1>9. MapIInv'
  <2>1. ASSUME NEW l \in Keys, map'[l] # None
        PROVE map'[l].key = l /\ \E i \in 1 .. L : list'[i] = map'[l]
    <3>1. CASE l = k BY <3>1, <1>0, <1>3, <1>4, <1>5
    <3>2. CASE l # k
      <4>1. map'[l] = map[l] BY <3>2, <1>5
      <4>2. map[l].key = l BY <4>1, <2>1, Zenon DEF MapIInv, MapListed
      <4>3. PICK i \in 1 .. L : list[i] = map[l] BY <4>1, <2>1, Zenon DEF MapIInv, MapListed
      <4>4. i # p BY <4>2, <4>3, <3>2, <1>6
      <4> QED BY <4>1, <4>2, <4>3, <4>4, <1>4
    <3> QED BY <3>1, <3>2
  <2>2. ASSUME NEW i \in 1 .. L PROVE map'[list'[i].key] = list'[i]
    <3>1. CASE i = p BY <3>1, <1>0, <1>4, <1>5
    <3>2. CASE i # p
      <4>1. map[list[i].key] = list[i] BY Zenon DEF MapIInv, MapListed
      <4> QED BY <4>1, <3>2, <1>1, <1>4, <1>5, <1>8
    <3> QED BY <3>1, <3>2
  <2>3. \A i, j \in 1 .. L : list'[i].key = list'[j].key => i = j
    <3>1. \A i, j \in 1 .. L : list[i].key = list[j].key => i = j BY Zenon DEF MapIInv, MapListed
    <3> QED BY <3>1, <1>7
  <2>4. MapListed(list', Len(list'), map')
    <3>1. MapListed(list', L, map') BY <2>1, <2>2, <2>3, Zenon DEF MapListed
    <3> QED BY <3>1, <1>4
  <2> QED BY <1>4, <1>5, <2>4, Zenon DEF MapIInv
<1>10. ASSUME NEW a \in Keys, NEW b \in Keys
       PROVE Maps!Precedes(list, a, b) <=> Maps!Precedes(list', a, b)
  <2>1. DOMAIN list = 1 .. L /\ DOMAIN list' = 1 .. L BY <1>1, <1>4
  <2> QED BY <2>1, <1>7 DEF Maps!Precedes
<1> QED BY <1>9, <1>10, Zenon DEF MapStep, StaysBefore

LEMMA MapRemoved ==
  ASSUME MapIInv, NEW p \in 1 .. Len(list), NEW k \in Keys, k = list[p].key,
         map' = [map EXCEPT ![k] = None], list' = Cut(list, p)
  PROVE  MapStep
<1> DEFINE L == Len(list)
<1>1. /\ list \in Seq(MapEntries) /\ L \in Nat /\ map \in [Keys -> MapEntries \cup {None}]
      /\ \A i \in 1 .. L : list[i] \in MapEntries /\ list[i].key \in Keys
  BY MapTyped
<1>4. /\ list' \in Seq(MapEntries) /\ Len(list') = L - 1
      /\ \A i \in 1 .. L - 1 : list'[i] = IF i < p THEN list[i] ELSE list[i + 1]
  BY <1>1, CutFacts
<1>5. /\ map' \in [Keys -> MapEntries \cup {None}] /\ map'[k] = None
      /\ \A l \in Keys : l # k => map'[l] = map[l]
  BY <1>1
<1> DEFINE f == [i \in 1 .. L - 1 |-> IF i < p THEN i ELSE i + 1]
           g == [i \in 1 .. L |-> IF i < p THEN i ELSE i - 1]
<1>2. \A i \in 1 .. L - 1 : f[i] \in 1 .. L /\ f[i] # p /\ list'[i] = list[f[i]] BY <1>1, <1>4
<1>3. \A i \in 1 .. L : i # p => g[i] \in 1 .. L - 1 /\ f[g[i]] = i BY <1>1
<1>6. \A i, j \in 1 .. L - 1 : (i < j <=> f[i] < f[j]) /\ (f[i] = f[j] => i = j) BY <1>1
<1>12. \A i, j \in 1 .. L : i # p /\ j # p => (i < j <=> g[i] < g[j]) BY <1>1
<1> HIDE DEF f, g
<1>7. \A i, j \in 1 .. L : list[i].key = list[j].key => i = j BY Zenon DEF MapIInv, MapListed
<1>8. \A i \in 1 .. L : i # p => list[i].key # k BY <1>7
<1>9. MapIInv'
  <2>1. ASSUME NEW l \in Keys, map'[l] # None
        PROVE map'[l].key = l /\ \E i \in 1 .. L - 1 : list'[i] = map'[l]
    <3>1. l # k /\ map'[l] = map[l] BY <2>1, <1>5
    <3>2. map[l].key = l BY <3>1, <2>1, Zenon DEF MapIInv, MapListed
    <3>3. PICK i \in 1 .. L : list[i] = map[l] BY <3>1, <2>1, Zenon DEF MapIInv, MapListed
    <3>4. i # p BY <3>1, <3>2, <3>3
    <3>6. g[i] \in 1 .. L - 1 /\ f[g[i]] = i BY <3>3, <3>4, <1>3
    <3>5. g[i] \in 1 .. L - 1 /\ list'[g[i]] = list[i]
      <4>1. list'[g[i]] = list[f[g[i]]] BY <3>6, <1>2, Zenon
      <4> QED BY <4>1, <3>6
    <3> QED BY <3>1, <3>2, <3>3, <3>5
  <2>2. ASSUME NEW i \in 1 .. L - 1 PROVE map'[list'[i].key] = list'[i]
    <3>1. f[i] \in 1 .. L /\ f[i] # p /\ list'[i] = list[f[i]] BY <1>2
    <3>2. map[list[f[i]].key] = list[f[i]] BY <3>1, Zenon DEF MapIInv, MapListed
    <3>3. list[f[i]].key # k /\ list[f[i]].key \in Keys BY <3>1, <1>1, <1>8
    <3> QED BY <3>1, <3>2, <3>3, <1>5
  <2>3. ASSUME NEW i \in 1 .. L - 1, NEW j \in 1 .. L - 1, list'[i].key = list'[j].key PROVE i = j
    <3>2. f[i] \in 1 .. L /\ f[j] \in 1 .. L /\ list'[i] = list[f[i]] /\ list'[j] = list[f[j]]
      BY <1>2, Zenon
    <3>3. list[f[i]].key = list[f[j]].key BY <3>2, <2>3
    <3>1. f[i] = f[j] BY <3>2, <3>3, <1>7, Zenon
    <3> QED BY <3>1, <1>6
  <2>4. MapListed(list', Len(list'), map')
    <3>1. MapListed(list', L - 1, map') BY <2>1, <2>2, <2>3, Zenon DEF MapListed
    <3> QED BY <3>1, <1>4
  <2> QED BY <1>4, <1>5, <2>4, Zenon DEF MapIInv
<1>10. ASSUME NEW a \in Keys, NEW b \in Keys, HasKey(list', a), HasKey(list', b)
       PROVE Maps!Precedes(list, a, b) <=> Maps!Precedes(list', a, b)
  <2>1. DOMAIN list = 1 .. L /\ DOMAIN list' = 1 .. L - 1 BY <1>1, <1>4
  <2>2. ASSUME Maps!Precedes(list, a, b) PROVE Maps!Precedes(list', a, b)
    <3>1. PICK m, n \in 1 .. L : m < n /\ list[m].key = a /\ list[n].key = b
      BY <2>1, <2>2 DEF Maps!Precedes
    <3>2. a # k /\ b # k
      <4>1. \A i \in 1 .. L - 1 : list'[i].key # k BY <1>2, <1>8
      <4> QED BY <4>1, <1>4, <1>10 DEF HasKey
    <3>3. m # p /\ n # p BY <3>1, <3>2
    <3>4. g[m] \in 1 .. L - 1 /\ g[n] \in 1 .. L - 1 /\ g[m] < g[n]
          /\ list'[g[m]] = list[m] /\ list'[g[n]] = list[n]
      BY <3>1, <3>3, <1>2, <1>3, <1>12
    <3> QED BY <3>1, <3>4, <2>1 DEF Maps!Precedes
  <2>3. ASSUME Maps!Precedes(list', a, b) PROVE Maps!Precedes(list, a, b)
    <3>1. PICK m, n \in 1 .. L - 1 : m < n /\ list'[m].key = a /\ list'[n].key = b
      BY <2>1, <2>3 DEF Maps!Precedes
    <3>2. /\ f[m] \in 1 .. L /\ f[n] \in 1 .. L /\ f[m] < f[n]
          /\ list[f[m]].key = a /\ list[f[n]].key = b
      BY <3>1, <1>2, <1>6
    <3> QED BY <3>2, <2>1 DEF Maps!Precedes
  <2> QED BY <2>2, <2>3
<1> QED BY <1>9, <1>10, Zenon DEF MapStep, StaysBefore

LEMMA MapMoves == MapIInv /\ Maps!Next => MapStep
<1> SUFFICES ASSUME MapIInv, Maps!Next PROVE MapStep OBVIOUS
<1>0. /\ list \in Seq(MapEntries) /\ Len(list) \in Nat /\ map \in [Keys -> MapEntries \cup {None}]
      /\ \A i \in 1 .. Len(list) : list[i] \in MapEntries /\ list[i].key \in Keys
  BY MapTyped
<1>1. ASSUME NEW k \in Keys, NEW v \in Values, NEW replace \in BOOLEAN, Maps!Put(k, v, replace)
      PROVE MapStep
  <2>1. map' = [map EXCEPT ![k] = Maps!Entry(k, v)] BY <1>1 DEF Maps!Put
  <2>2. list' = IF map[k] = None THEN Append(list, Maps!Entry(k, v))
                ELSE [list EXCEPT ![Maps!IndexOf(map[k])] = Maps!Entry(k, v)]
    BY <1>1 DEF Maps!Put, Maps!PutInList, Maps!ReplaceAt
  <2>3. CASE map[k] = None BY <2>1, <2>2, <2>3, MapAppended
  <2>4. CASE map[k] # None BY <2>1, <2>2, <2>4, MapReplaced
  <2> QED BY <2>3, <2>4
<1>2. ASSUME NEW k \in Keys, Maps!RemoveKey(k) PROVE MapStep
  <2> DEFINE p == Maps!IndexOf(map[k])
  <2>1. map[k] # None /\ map' = [map EXCEPT ![k] = None] /\ list' = Cut(list, p)
    BY <1>2 DEF Maps!RemoveKey, Maps!RemoveAt, Cut
  <2>2. PICK q \in 1 .. Len(list) : list[q] = map[k] BY <2>1, Zenon DEF MapIInv, MapListed
  <2>3. p \in 1 .. Len(list) /\ list[p] = map[k] BY <1>0, <2>2, IndexOfFacts, Zenon
  <2>4. map[k].key = k BY <2>1, Zenon DEF MapIInv, MapListed
  <2> HIDE DEF p
  <2> QED BY <2>1, <2>3, <2>4, MapRemoved
<1>3. CASE Maps!Pop
  <2> DEFINE p == Len(list)
             k == list[p].key
  <2>1. list # <<>> /\ map' = [map EXCEPT ![k] = None] /\ list' = SubSeq(list, 1, p - 1)
    BY <1>3 DEF Maps!Pop, Maps!Last, Maps!Front
  <2>2. p \in 1 .. Len(list) BY <2>1, <1>0
  <2>3. SubSeq(list, 1, p - 1) = Cut(list, p)
    <3>1. SubSeq(list, 1, p - 1) \in Seq(MapEntries) /\ SubSeq(list, p + 1, Len(list)) = <<>>
      BY <1>0
    <3> QED BY <3>1 DEF Cut
  <2>4. k \in Keys BY <1>0, <2>2
  <2> HIDE DEF p, k
  <2> QED BY <2>1, <2>2, <2>3, <2>4, MapRemoved DEF k
<1> QED BY <1>1, <1>2, <1>3 DEF Maps!Next

LEMMA MapStays == MapIInv /\ [Maps!Next]_(Maps!vars) => MapStep
<1>1. MapIInv /\ UNCHANGED Maps!vars => MapStep
  BY DEF MapStep, StaysBefore, MapIInv, Maps!vars
<1> QED BY <1>1, MapMoves

LEMMA MapKeepsOrder ==
  ASSUME MapIInv, MapStep, NEW j \in Keys, NEW k \in Keys,
         {j, k} \subseteq Maps!ToSet(Maps!KeysOf(list)) \cap Maps!ToSet(Maps!KeysOf(list'))
  PROVE  Maps!Precedes(list, j, k) <=> Maps!Precedes(list', j, k)
<1>1. list \in Seq(MapEntries) /\ list' \in Seq(MapEntries) BY DEF MapIInv, MapStep
<1>2. DOMAIN list = 1 .. Len(list) /\ DOMAIN list' = 1 .. Len(list') BY <1>1
<1>3. HasKey(list, j) /\ HasKey(list, k) /\ HasKey(list', j) /\ HasKey(list', k)
  BY <1>2 DEF HasKey, Maps!ToSet, Maps!KeysOf
<1> QED BY <1>3 DEF MapStep, StaysBefore

LEMMA MapIsRight == MapIInv => Maps!ListIsMap
<1> SUFFICES ASSUME MapIInv PROVE Maps!ListIsMap OBVIOUS
<1> DEFINE L == Len(list)
<1>1. /\ list \in Seq(MapEntries) /\ L \in Nat /\ map \in [Keys -> MapEntries \cup {None}]
      /\ \A i \in 1 .. L : list[i] \in MapEntries /\ list[i].key \in Keys
      /\ DOMAIN list = 1 .. L
  BY MapTyped
<1>2. None \notin MapEntries BY LibraryNoneAssumption DEF MapEntries
<1>3. Maps!IsInjective(Maps!KeysOf(list))
  BY <1>1 DEF MapIInv, MapListed, Maps!IsInjective, Maps!KeysOf
<1>4. Maps!ToSet(list) = {map[k] : k \in Keys} \ {None}
  <2>1. ASSUME NEW i \in 1 .. L PROVE list[i] \in {map[k] : k \in Keys} \ {None}
    <3>1. map[list[i].key] = list[i] BY Zenon DEF MapIInv, MapListed
    <3> QED BY <3>1, <1>1, <1>2
  <2>2. ASSUME NEW k \in Keys, map[k] # None PROVE map[k] \in {list[i] : i \in 1 .. L}
    <3>1. PICK i \in 1 .. L : list[i] = map[k] BY <2>2, Zenon DEF MapIInv, MapListed
    <3> QED BY <3>1
  <2> QED BY <2>1, <2>2, <1>1, Zenon DEF Maps!ToSet
<1>5. \A k \in Keys : map[k] # None => map[k].key = k BY Zenon DEF MapIInv, MapListed
<1>6. ASSUME NEW v \in Values
      PROVE \/ Maps!GetIndex(v) = -1 /\ \A e \in Maps!ToSet(list) : e.value # v
            \/ Maps!ValueAt(Maps!GetIndex(v)) = v
  <2> DEFINE I == {i \in 1 .. L : list[i].value = v}
             m == Maps!Min(I)
  <2>1. Maps!GetIndex(v) = (IF I # {} THEN m ELSE 0) - 1
    BY DEF Maps!GetIndex, Maps!SelectInSeq
  <2>2. CASE I = {}
    <3>1. Maps!GetIndex(v) = -1
      <4> HIDE DEF I
      <4> QED BY <2>1, <2>2
    <3>2. \A e \in Maps!ToSet(list) : e.value # v BY <2>2, <1>1 DEF Maps!ToSet
    <3> QED BY <3>1, <3>2
  <2>3. CASE I # {}
    <3>1. m \in I
      <4>1. I \in SUBSET Nat OBVIOUS
      <4> HIDE DEF I
      <4> QED BY <4>1, <2>3, MinFacts
    <3>2. m \in 1 .. L /\ list[m].value = v
      <4> HIDE DEF m
      <4> QED BY <3>1
    <3>3. Maps!GetIndex(v) = m - 1
      <4> HIDE DEF I, m
      <4> QED BY <2>1, <2>3
    <3> HIDE DEF m
    <3>4. (m - 1) + 1 = m BY <3>2
    <3> QED BY <3>2, <3>3, <3>4, <1>1 DEF Maps!ValueAt
  <2> QED BY <2>2, <2>3
<1>7. ASSUME NEW v \in Values
      PROVE Maps!IsPrefix(Maps!EachValue([w \in Values |-> w # v]), list)
  <2> DEFINE f == [w \in Values |-> w # v]
             I == {i \in 1 .. L : ~f[list[i].value]}
             m == Maps!Min(I)
             q == Maps!EachValue(f)
  <2>1. q = IF (IF I # {} THEN m ELSE 0) = 0 THEN list
            ELSE SubSeq(list, 1, IF I # {} THEN m ELSE 0)
    <3> HIDE DEF f
    <3> QED BY DEF Maps!EachValue, Maps!SelectInSeq
  <2>2. I = {} \/ m \in 1 .. L
    <3>1. I \in SUBSET Nat /\ I \subseteq 1 .. L OBVIOUS
    <3> HIDE DEF I
    <3> QED BY <3>1, MinFacts
  <2> HIDE DEF I, m
  <2>3. q = list \/ (m \in 1 .. L /\ q = SubSeq(list, 1, m))
    <3> HIDE DEF q
    <3> QED BY <2>1, <2>2
  <2> HIDE DEF q
  <2>4. ASSUME q = list PROVE Len(q) <= L /\ SubSeq(q, 1, Len(q)) = SubSeq(list, 1, Len(q))
    BY <2>4, <1>1
  <2>5. ASSUME m \in 1 .. L, q = SubSeq(list, 1, m)
        PROVE  Len(q) <= L /\ SubSeq(q, 1, Len(q)) = SubSeq(list, 1, Len(q))
    <3>1. q \in Seq(MapEntries) /\ Len(q) = m BY <2>5, <1>1
    <3>2. SubSeq(q, 1, Len(q)) = q BY <3>1
    <3> QED BY <2>5, <3>1, <3>2
  <2>6. Maps!IsPrefix(q, list) BY <2>3, <2>4, <2>5, Zenon DEF Maps!IsPrefix
  <2> QED BY <2>6 DEF q
<1> QED BY <1>3, <1>4, <1>5, <1>6, <1>7, Zenon DEF Maps!ListIsMap
--------------------------------------------------------------------------------
(* DragAndDropStore: the store knows the zones that are mounted.           *)
HeldIInv ==
  /\ failed = FALSE /\ zonesMounted \in [Zones -> [now : BOOLEAN, times : Nat]]
  /\ registered = None => \A z \in Zones : ~zonesMounted[z].now
  /\ registered # None =>
       /\ registered \in [Zones -> Nat \cup {None}]
       /\ \A z \in Zones : /\ registered[z] # None <=> zonesMounted[z].now
                           /\ registered[z] # None => registered[z] = zonesMounted[z].times

LEMMA HeldBegins == Held!Init => HeldIInv
<1> SUFFICES ASSUME Held!Init PROVE HeldIInv OBVIOUS
<1>1. failed = FALSE /\ registered = None /\ zonesMounted = [z \in Zones |-> [now |-> FALSE, times |-> 0]]
  BY DEF Held!Init
<1> QED BY <1>1 DEF HeldIInv

LEMMA HeldStays == HeldIInv /\ [Held!Next]_(Held!payloadVars) => HeldIInv'
<1> SUFFICES ASSUME HeldIInv, [Held!Next]_(Held!payloadVars) PROVE HeldIInv' OBVIOUS
<1>0. zonesMounted \in [Zones -> [now : BOOLEAN, times : Nat]] /\ None \notin Nat /\ failed = FALSE
  BY LibraryNoneAssumption DEF HeldIInv
<1>00. \A z \in Zones : zonesMounted[z].now => registered # None BY Zenon DEF HeldIInv
<1>000. registered # None =>
          /\ registered \in [Zones -> Nat \cup {None}]
          /\ \A z \in Zones : /\ registered[z] # None <=> zonesMounted[z].now
                              /\ registered[z] # None => registered[z] = zonesMounted[z].times
  BY Zenon DEF HeldIInv
<1>1. ASSUME UNCHANGED <<failed, registered, zonesMounted>> PROVE HeldIInv'
  BY <1>1, Zenon DEF HeldIInv
<1>2. CASE Held!SetDragPayload BY <1>1, <1>2 DEF Held!SetDragPayload
<1>3. CASE Held!Reset BY <1>1, <1>3 DEF Held!Reset
<1>4. ASSUME NEW z \in Zones, Held!RegisterZoneNavigation(z) PROVE HeldIInv'
  <2> DEFINE t == zonesMounted[z].times + 1
             r == [y \in Zones |-> IF y = z THEN t ELSE IF registered = None THEN None ELSE registered[y]]
  <2>1. /\ ~zonesMounted[z].now /\ registered' = r /\ UNCHANGED failed
        /\ zonesMounted' = [zonesMounted EXCEPT ![z] = [now |-> TRUE, times |-> t]]
    BY <1>4 DEF Held!RegisterZoneNavigation
  <2>2. t \in Nat BY <1>0
  <2>3. /\ zonesMounted' \in [Zones -> [now : BOOLEAN, times : Nat]]
        /\ zonesMounted'[z].now /\ zonesMounted'[z].times = t
        /\ \A y \in Zones : y # z => zonesMounted'[y] = zonesMounted[y]
    BY <1>0, <2>1, <2>2
  <2>4. r \in [Zones -> Nat \cup {None}] BY <2>2, <1>000
  <2>5. r # None BY <2>4, LibraryNoneAssumption, Zenon
  <2>6. ASSUME NEW y \in Zones
        PROVE  /\ r[y] # None <=> zonesMounted'[y].now
               /\ r[y] # None => r[y] = zonesMounted'[y].times
    <3>1. CASE y = z BY <3>1, <2>2, <2>3, <1>0
    <3>2. CASE y # z /\ registered = None
      <4>1. ~zonesMounted[y].now BY <3>2, <1>00
      <4> QED BY <3>2, <4>1, <2>3
    <3>3. CASE y # z /\ registered # None
      <4>1. r[y] = registered[y] BY <3>3
      <4> HIDE DEF r
      <4> QED BY <4>1, <3>3, <2>3, <1>000
    <3> QED BY <3>1, <3>2, <3>3
  <2> HIDE DEF r
  <2> QED BY <2>1, <2>3, <2>4, <2>5, <2>6, <1>0, Zenon DEF HeldIInv
<1>5. ASSUME NEW z \in Zones, Held!RemoveZoneNavigation(z) PROVE HeldIInv'
  <2>1. /\ zonesMounted[z].now /\ registered' = [registered EXCEPT ![z] = None] /\ UNCHANGED failed
        /\ zonesMounted' = [zonesMounted EXCEPT ![z].now = FALSE]
    BY <1>5 DEF Held!RemoveZoneNavigation
  <2>2. registered # None BY <2>1, <1>00
  <2>3. /\ registered' \in [Zones -> Nat \cup {None}] /\ registered'[z] = None
        /\ \A y \in Zones : y # z => registered'[y] = registered[y]
    BY <2>1, <2>2, <1>000
  <2>4. /\ zonesMounted' \in [Zones -> [now : BOOLEAN, times : Nat]]
        /\ zonesMounted'[z].now = FALSE
        /\ \A y \in Zones : y # z => zonesMounted'[y] = zonesMounted[y]
    BY <2>1, <1>0
  <2>5. registered' # None BY <2>3, LibraryNoneAssumption, Zenon
  <2>6. ASSUME NEW y \in Zones
        PROVE  /\ registered'[y] # None <=> zonesMounted'[y].now
               /\ registered'[y] # None => registered'[y] = zonesMounted'[y].times
    <3>1. CASE y = z BY <3>1, <2>3, <2>4
    <3>2. CASE y # z BY <3>2, <2>2, <2>3, <2>4, <1>000
    <3> QED BY <3>1, <3>2
  <2> QED BY <2>1, <2>3, <2>4, <2>5, <2>6, <1>0, Zenon DEF HeldIInv
<1>6. ASSUME NEW from \in Zones, NEW z \in Zones, Held!NotifyOtherZone(from, z) PROVE HeldIInv'
  <2>1. /\ zonesMounted[from].now /\ failed' = (failed \/ registered = None)
        /\ UNCHANGED <<registered, zonesMounted>>
    BY <1>6 DEF Held!NotifyOtherZone
  <2>2. failed' = FALSE BY <2>1, <1>0, <1>00
  <2> QED BY <2>1, <2>2, <1>0, <1>1
<1>7. CASE UNCHANGED Held!payloadVars BY <1>1, <1>7 DEF Held!payloadVars
<1> QED BY <1>2, <1>3, <1>4, <1>5, <1>6, <1>7 DEF Held!Next

LEMMA HeldIsRight == HeldIInv => Held!MountedZonesAreTold
BY Zenon DEF HeldIInv, Held!MountedZonesAreTold
--------------------------------------------------------------------------------
(* Enum and Codeable: while no add() has thrown, the map lists each        *)
(* constant once, where its ordinal says.                                  *)
NamedTyped ==
  /\ nameToEnum \in Seq(Names \X Constants)
  /\ codeToEnum \in [Codes -> Constants \cup {None}] /\ class \in [Names -> Constants \cup {None}]
  /\ own \in [Constants -> [name : Names \cup {None}, ordinal : Nat \cup {None}, code : Codes \cup {None}]]
  /\ frozen \in BOOLEAN

(* Over the map l of length n, the class p, the constants o and what threw *)
NamesOnce(l, n) == \A i, j \in 1 .. n : l[i][1] = l[j][1] => i = j
ClassListed(l, n, p, o, t) ==
  /\ \A x \in Names : p[x] # None => \E i \in 1 .. n : l[i][1] = x
  /\ \A i \in 1 .. n : l[i][1] \notin t => p[l[i][1]] = l[i][2] /\ o[l[i][2]].name = l[i][1]
ConstantsListed(l, n, o) ==
  /\ \A c \in Constants : o[c].name = None <=> o[c].ordinal = None
  /\ \A c \in Constants : o[c].name = None <=> o[c].code = None
  /\ \A c \in Constants :
       o[c].name # None => \E i \in 1 .. n : l[i] = <<o[c].name, c>> /\ o[c].ordinal = i - 1
  /\ \A i \in 1 .. n : o[l[i][2]].name = l[i][1]
CodesKnown(o, d) ==
  /\ \A k \in Codes : d[k] # None => o[d[k]].code = k
  /\ \A c \in Constants : o[c].code # None => d[o[c].code] # None

NamedIInv ==
  /\ NamedTyped /\ NamesOnce(nameToEnum, Len(nameToEnum))
  /\ ClassListed(nameToEnum, Len(nameToEnum), class, own, threw)
  /\ threw = {} => ConstantsListed(nameToEnum, Len(nameToEnum), own) /\ CodesKnown(own, codeToEnum)

LEMMA NamedBegins == Named!Init => NamedIInv
<1> SUFFICES ASSUME Named!Init PROVE NamedIInv OBVIOUS
<1>1. /\ nameToEnum = <<>> /\ codeToEnum = [c \in Codes |-> None] /\ class = [n \in Names |-> None]
      /\ own = [c \in Constants |-> [name |-> None, ordinal |-> None, code |-> None]]
      /\ frozen = FALSE
  BY DEF Named!Init, Named!NoFields
<1>2. NamedTyped
  <2>1. nameToEnum \in Seq(Names \X Constants) BY <1>1
  <2>2. codeToEnum \in [Codes -> Constants \cup {None}] /\ class \in [Names -> Constants \cup {None}]
    BY <1>1
  <2>3. own \in [Constants -> [name : Names \cup {None}, ordinal : Nat \cup {None}, code : Codes \cup {None}]]
    BY <1>1
  <2>4. frozen \in BOOLEAN BY <1>1
  <2> QED BY <2>1, <2>2, <2>3, <2>4, Zenon DEF NamedTyped
<1>3. NamesOnce(nameToEnum, Len(nameToEnum)) BY <1>1 DEF NamesOnce
<1>4. ClassListed(nameToEnum, Len(nameToEnum), class, own, threw) BY <1>1 DEF ClassListed
<1>5. ConstantsListed(nameToEnum, Len(nameToEnum), own) /\ CodesKnown(own, codeToEnum)
  BY <1>1 DEF ConstantsListed, CodesKnown
<1> QED BY <1>2, <1>3, <1>4, <1>5 DEF NamedIInv

LEMMA FromNameFacts ==
  ASSUME NamedIInv, NEW x \in Names
  PROVE  /\ \A i \in 1 .. Len(nameToEnum) : nameToEnum[i][1] = x => Named!FromName(x) = nameToEnum[i][2]
         /\ (\A i \in 1 .. Len(nameToEnum) : nameToEnum[i][1] # x) => Named!FromName(x) = None
<1>1. nameToEnum \in Seq(Names \X Constants) /\ DOMAIN nameToEnum = 1 .. Len(nameToEnum)
  BY DEF NamedIInv, NamedTyped
<1> DEFINE F == {i \in 1 .. Len(nameToEnum) : nameToEnum[i][1] = x}
<1>2. Named!FromName(x) = IF F = {} THEN None ELSE nameToEnum[CHOOSE i \in F : TRUE][2]
  BY <1>1 DEF Named!FromName
<1>3. ASSUME NEW i \in 1 .. Len(nameToEnum), nameToEnum[i][1] = x
      PROVE Named!FromName(x) = nameToEnum[i][2]
  <2>1. i \in F BY <1>3
  <2>2. (CHOOSE j \in F : TRUE) \in F
    <3> HIDE DEF F
    <3> QED BY <2>1, Zenon
  <2>3. PICK j \in F : j = CHOOSE k \in F : TRUE BY <2>2, Zenon
  <2>4. j = i BY <1>3, <2>3, Zenon DEF NamedIInv, NamesOnce
  <2> HIDE DEF F
  <2> QED BY <1>2, <2>1, <2>3, <2>4
<1>4. ASSUME \A i \in 1 .. Len(nameToEnum) : nameToEnum[i][1] # x PROVE Named!FromName(x) = None
  <2>1. F = {} BY <1>4
  <2> HIDE DEF F
  <2> QED BY <1>2, <2>1
<1> QED BY <1>3, <1>4

(* What MapSet does with the pair of a name: a place p of the longer list  *)
(* has it, and the others have what they had.                              *)
SetAt(l, n, m, k, p, x, c) ==
  /\ p \in 1 .. k /\ m[p] = <<x, c>>
  /\ \A i \in 1 .. k : i # p => i \in 1 .. n /\ m[i] = l[i] /\ l[i][1] # x
  /\ \A i \in 1 .. n : i \in 1 .. k
  /\ \/ k = n /\ l[p][1] = x
     \/ k = n + 1 /\ p = k /\ \A i \in 1 .. n : l[i][1] # x

LEMMA MapSetFacts ==
  ASSUME NamedIInv, NEW x \in Names, NEW c \in Constants
  PROVE  /\ Named!MapSet(x, c) \in Seq(Names \X Constants)
         /\ \E p : SetAt(nameToEnum, Len(nameToEnum), Named!MapSet(x, c), Len(Named!MapSet(x, c)), p, x, c)
<1> DEFINE l == nameToEnum
           n == Len(l)
           m == Named!MapSet(x, c)
<1>1. /\ l \in Seq(Names \X Constants) /\ n \in Nat /\ DOMAIN l = 1 .. n
      /\ \A i \in 1 .. n : l[i] \in Names \X Constants /\ l[i][2] \in Constants
  <2>1. l \in Seq(Names \X Constants) BY DEF NamedIInv, NamedTyped
  <2>2. \A q \in Names \X Constants : q[2] \in Constants OBVIOUS
  <2> QED BY <2>1, <2>2
<1>2. None \notin Constants BY LibraryNoneAssumption
<1>0. <<x, c>> \in Names \X Constants OBVIOUS
<1>3. CASE \E p \in 1 .. n : l[p][1] = x
  <2>1. PICK p \in 1 .. n : l[p][1] = x BY <1>3
  <2>2. Named!HasName(x)
    <3>1. Named!FromName(x) = l[p][2] BY <2>1, FromNameFacts
    <3> QED BY <3>1, <1>1, <1>2, <2>1 DEF Named!HasName
  <2>3. m = [i \in 1 .. n |-> IF l[i][1] = x THEN <<x, c>> ELSE l[i]]
    BY <2>2, <1>1 DEF Named!MapSet
  <2>4. \A i \in 1 .. n : i # p => l[i][1] # x
    BY <2>1, Zenon DEF NamedIInv, NamesOnce
  <2> HIDE DEF m
  <2>5. m \in Seq(Names \X Constants) /\ Len(m) = n
    <3>1. m \in [1 .. n -> Names \X Constants] BY <2>3, <1>0, <1>1
    <3> QED BY <3>1, <1>1
  <2>6. m[p] = <<x, c>> /\ \A i \in 1 .. n : i # p => m[i] = l[i] BY <2>1, <2>3, <2>4
  <2>7. SetAt(l, n, m, Len(m), p, x, c) BY <2>1, <2>4, <2>5, <2>6, Zenon DEF SetAt
  <2> QED BY <2>5, <2>7 DEF m
<1>4. CASE \A i \in 1 .. n : l[i][1] # x
  <2>1. ~Named!HasName(x) BY <1>4, FromNameFacts DEF Named!HasName
  <2>2. m = Append(l, <<x, c>>) BY <2>1 DEF Named!MapSet
  <2> HIDE DEF m
  <2>3. /\ m \in Seq(Names \X Constants) /\ Len(m) = n + 1 /\ m[n + 1] = <<x, c>>
        /\ \A i \in 1 .. n : m[i] = l[i]
    BY <2>2, <1>0, <1>1
  <2>4. /\ n + 1 \in 1 .. n + 1 /\ (\A i \in 1 .. n + 1 : i # n + 1 => i \in 1 .. n)
        /\ \A i \in 1 .. n : i \in 1 .. n + 1
    BY <1>1
  <2>5. SetAt(l, n, m, n + 1, n + 1, x, c) BY <1>4, <2>3, <2>4, Zenon DEF SetAt
  <2> QED BY <2>3, <2>5 DEF m
<1> QED BY <1>3, <1>4

LEMMA SetNames ==
  ASSUME NEW l, NEW n, NEW m, NEW k, NEW p, NEW x, NEW c, SetAt(l, n, m, k, p, x, c), NamesOnce(l, n)
  PROVE  NamesOnce(m, k)
<1> SUFFICES ASSUME NEW i \in 1 .. k, NEW j \in 1 .. k, m[i][1] = m[j][1] PROVE i = j
  BY DEF NamesOnce
<1>1. m[p] = <<x, c>> /\ m[p][1] = x BY DEF SetAt
<1>2. \A q \in 1 .. k : q # p => q \in 1 .. n /\ m[q] = l[q] /\ l[q][1] # x BY Zenon DEF SetAt
<1>3. CASE i # p /\ j # p
  <2>1. i \in 1 .. n /\ j \in 1 .. n /\ l[i][1] = l[j][1] BY <1>2, <1>3
  <2> QED BY <2>1, Zenon DEF NamesOnce
<1> QED BY <1>1, <1>2, <1>3

(* add() fails: what is known of the names that never threw stays.         *)
LEMMA ThrowsKeep ==
  ASSUME NEW l, NEW n \in Nat, NEW m, NEW k, NEW p, NEW x \in Names, NEW c,
         NEW cls \in [Names -> Constants \cup {None}], NEW o, NEW t, NEW q,
         SetAt(l, n, m, k, p, x, c), ClassListed(l, n, cls, o, t), q \in [Names -> Constants \cup {None}],
         \A y \in Names : y # x => q[y] = cls[y],
         \A i \in 1 .. n : l[i][1] \in Names
  PROVE  ClassListed(m, k, q, o, t \cup {x})
<1>1. m[p] = <<x, c>> /\ m[p][1] = x /\ p \in 1 .. k BY DEF SetAt
<1>2. \A i \in 1 .. k : i # p => i \in 1 .. n /\ m[i] = l[i] /\ l[i][1] # x BY Zenon DEF SetAt
<1>3. \A i \in 1 .. n : i \in 1 .. k BY Zenon DEF SetAt
<1>4. ASSUME NEW y \in Names, q[y] # None PROVE \E i \in 1 .. k : m[i][1] = y
  <2>1. CASE y = x BY <2>1, <1>1
  <2>2. CASE y # x
    <3>1. cls[y] # None BY <2>2, <1>4
    <3>2. PICK i \in 1 .. n : l[i][1] = y BY <3>1, Zenon DEF ClassListed
    <3>3. i # p
      <4>2. (k = n /\ l[p][1] = x) \/ (k = n + 1 /\ p = k) BY Zenon DEF SetAt
      <4>1. p \in 1 .. n => l[p][1] = x BY <4>2
      <4> QED BY <4>1, <3>2, <2>2
    <3> QED BY <3>2, <3>3, <1>2, <1>3
  <2> QED BY <2>1, <2>2
<1>5. ASSUME NEW i \in 1 .. k, m[i][1] \notin t \cup {x}
      PROVE q[m[i][1]] = m[i][2] /\ o[m[i][2]].name = m[i][1]
  <2>1. i # p BY <1>1, <1>5
  <2>2. i \in 1 .. n /\ m[i] = l[i] /\ l[i][1] # x /\ l[i][1] \notin t BY <2>1, <1>2, <1>5
  <2>3. cls[l[i][1]] = l[i][2] /\ o[l[i][2]].name = l[i][1] BY <2>2, Zenon DEF ClassListed
  <2>4. q[l[i][1]] = cls[l[i][1]] BY <2>2
  <2> QED BY <2>2, <2>3, <2>4
<1> QED BY <1>4, <1>5, Zenon DEF ClassListed

(* What add() defines when nothing throws: a constant that had no fields,  *)
(* or the last one again.                                                  *)
Defined(o, u, x, k, d, c) ==
  /\ u = [o EXCEPT ![c] = [name |-> x, ordinal |-> k - 1, code |-> d]]
  /\ o[c].name = None \/ o[c].name = x
  /\ o[c].ordinal = None \/ o[c].ordinal = k - 1
  /\ o[c].code = None \/ o[c].code = d
OwnFields == [name : Names \cup {None}, ordinal : Nat \cup {None}, code : Codes \cup {None}]

LEMMA DefinedFacts ==
  ASSUME NEW o \in [Constants -> OwnFields], NEW u, NEW x \in Names, NEW k \in Nat \ {0},
         NEW d \in Codes, NEW c \in Constants, Defined(o, u, x, k, d, c)
  PROVE  /\ u \in [Constants -> OwnFields]
         /\ u[c].name = x /\ u[c].ordinal = k - 1 /\ u[c].code = d
         /\ \A b \in Constants : b # c => u[b] = o[b]
<1>1. [name |-> x, ordinal |-> k - 1, code |-> d] \in OwnFields BY DEF OwnFields
<1>2. u = [o EXCEPT ![c] = [name |-> x, ordinal |-> k - 1, code |-> d]] BY DEF Defined
<1>3. u \in [Constants -> OwnFields] /\ u[c] = [name |-> x, ordinal |-> k - 1, code |-> d]
  BY <1>1, <1>2
<1>4. \A b \in Constants : b # c => u[b] = o[b] BY <1>2
<1> QED BY <1>3, <1>4

LEMMA AddsClass ==
  ASSUME NEW l, NEW n \in Nat, NEW m, NEW k \in Nat \ {0}, NEW p, NEW x \in Names,
         NEW c \in Constants, NEW d \in Codes,
         NEW cls \in [Names -> Constants \cup {None}], NEW o \in [Constants -> OwnFields], NEW t,
         NEW u, SetAt(l, n, m, k, p, x, c), ClassListed(l, n, cls, o, t), Defined(o, u, x, k, d, c),
         \A i \in 1 .. n : l[i] \in Names \X Constants
  PROVE  ClassListed(m, k, [cls EXCEPT ![x] = c], u, t)
<1> DEFINE q == [cls EXCEPT ![x] = c]
<1>0. None \notin Names BY LibraryNoneAssumption
<1>1. m[p] = <<x, c>> /\ m[p][1] = x /\ m[p][2] = c /\ p \in 1 .. k BY DEF SetAt
<1>2. \A i \in 1 .. k : i # p => i \in 1 .. n /\ m[i] = l[i] /\ l[i][1] # x BY Zenon DEF SetAt
<1>3. \A i \in 1 .. n : i \in 1 .. k BY Zenon DEF SetAt
<1>4. u[c].name = x /\ \A b \in Constants : b # c => u[b] = o[b] BY DefinedFacts
<1>5. o[c].name = None \/ o[c].name = x BY Zenon DEF Defined
<1>6. q[x] = c /\ \A y \in Names : y # x => q[y] = cls[y] OBVIOUS
<1> HIDE DEF q
<1>7. ASSUME NEW y \in Names, q[y] # None PROVE \E i \in 1 .. k : m[i][1] = y
  <2>1. CASE y = x BY <2>1, <1>1
  <2>2. CASE y # x
    <3>1. cls[y] # None BY <2>2, <1>6, <1>7
    <3>2. PICK i \in 1 .. n : l[i][1] = y BY <3>1, Zenon DEF ClassListed
    <3>3. i # p
      <4>2. (k = n /\ l[p][1] = x) \/ (k = n + 1 /\ p = k) BY Zenon DEF SetAt
      <4>1. p \in 1 .. n => l[p][1] = x BY <4>2
      <4> QED BY <4>1, <3>2, <2>2
    <3> QED BY <3>2, <3>3, <1>2, <1>3
  <2> QED BY <2>1, <2>2
<1>8. ASSUME NEW i \in 1 .. k, m[i][1] \notin t PROVE q[m[i][1]] = m[i][2] /\ u[m[i][2]].name = m[i][1]
  <2>1. CASE i = p BY <2>1, <1>1, <1>4, <1>6
  <2>2. CASE i # p
    <3>1. i \in 1 .. n /\ m[i] = l[i] /\ l[i][1] # x /\ l[i][1] \notin t BY <2>2, <1>2, <1>8
    <3>2. cls[l[i][1]] = l[i][2] /\ o[l[i][2]].name = l[i][1] BY <3>1, Zenon DEF ClassListed
    <3>3. l[i][1] \in Names /\ l[i][2] \in Constants
      <4>1. l[i] \in Names \X Constants BY <3>1
      <4> QED BY <4>1
    <3>4. l[i][2] # c BY <3>1, <3>2, <3>3, <1>0, <1>5
    <3> QED BY <3>1, <3>2, <3>3, <3>4, <1>4, <1>6
  <2> QED BY <2>1, <2>2
<1>9. ClassListed(m, k, q, u, t) BY <1>7, <1>8, Zenon DEF ClassListed
<1> QED BY <1>9 DEF q

LEMMA AddsConstants ==
  ASSUME NEW l, NEW n \in Nat, NEW m, NEW k \in Nat \ {0}, NEW p, NEW x \in Names,
         NEW c \in Constants, NEW d \in Codes,
         NEW cls \in [Names -> Constants \cup {None}], NEW o \in [Constants -> OwnFields],
         NEW u, SetAt(l, n, m, k, p, x, c), ClassListed(l, n, cls, o, {}), Defined(o, u, x, k, d, c),
         cls[x] = None \/ cls[x] = c, NamesOnce(l, n), ConstantsListed(l, n, o),
         \A i \in 1 .. n : l[i] \in Names \X Constants
  PROVE  ConstantsListed(m, k, u)
<1>0. None \notin Names /\ None \notin Codes /\ None \notin Nat /\ None \notin Constants
  BY LibraryNoneAssumption
<1>1. m[p] = <<x, c>> /\ m[p][1] = x /\ m[p][2] = c /\ p \in 1 .. k BY DEF SetAt
<1>2. \A i \in 1 .. k : i # p => i \in 1 .. n /\ m[i] = l[i] /\ l[i][1] # x BY Zenon DEF SetAt
<1>3. \A i \in 1 .. n : i \in 1 .. k BY Zenon DEF SetAt
<1>33. (k = n /\ l[p][1] = x) \/ (k = n + 1 /\ p = k /\ \A i \in 1 .. n : l[i][1] # x)
  BY Zenon DEF SetAt
<1>4. u[c].name = x /\ u[c].ordinal = k - 1 /\ u[c].code = d BY DefinedFacts
<1>44. \A b \in Constants : b # c => u[b] = o[b] BY DefinedFacts
<1>5. /\ o[c].name = None \/ o[c].name = x
      /\ o[c].ordinal = None \/ o[c].ordinal = k - 1
  BY Zenon DEF Defined
<1>6. \A i \in 1 .. n : /\ l[i][1] \in Names /\ l[i][2] \in Constants
                       /\ cls[l[i][1]] = l[i][2] /\ o[l[i][2]].name = l[i][1]
  <2> TAKE i \in 1 .. n
  <2>1. l[i] \in Names \X Constants OBVIOUS
  <2>2. l[i][1] \in Names /\ l[i][2] \in Constants BY <2>1
  <2>3. l[i][1] \notin {} OBVIOUS
  <2>4. cls[l[i][1]] = l[i][2] /\ o[l[i][2]].name = l[i][1] BY <2>3, Zenon DEF ClassListed
  <2> QED BY <2>2, <2>4
(* A name that is listed is listed last.                                   *)
<1>7. k = n => p = k
  <2> SUFFICES ASSUME k = n PROVE p = k OBVIOUS
  <2>1. l[p][1] = x /\ p \in 1 .. n BY <1>1, <1>33
  <2>2. cls[x] = l[p][2] /\ o[l[p][2]].name = x /\ l[p][2] \in Constants BY <2>1, <1>6
  <2>3. l[p][2] = c BY <2>2, <1>0
  <2>4. o[c].name # None BY <2>2, <2>3, <1>0
  <2>5. o[c].ordinal # None BY <2>4, Zenon DEF ConstantsListed
  <2>6. PICK i \in 1 .. n : l[i] = <<o[c].name, c>> /\ o[c].ordinal = i - 1
    BY <2>4, Zenon DEF ConstantsListed
  <2>7. l[i][1] = l[p][1] BY <2>1, <2>4, <2>6, <1>5
  <2>8. i = p BY <2>1, <2>7, Zenon DEF NamesOnce
  <2>9. i - 1 = k - 1 BY <2>5, <2>6, <1>5
  <2> QED BY <2>8, <2>9
<1>8. p = k BY <1>7, <1>33
<1>9. ASSUME NEW b \in Constants
      PROVE (u[b].name = None <=> u[b].ordinal = None) /\ (u[b].name = None <=> u[b].code = None)
  <2>1. CASE b = c
    <3>1. k - 1 \in Nat OBVIOUS
    <3> QED BY <2>1, <3>1, <1>0, <1>4
  <2>2. CASE b # c
    <3>1. (o[b].name = None <=> o[b].ordinal = None) /\ (o[b].name = None <=> o[b].code = None)
      BY Zenon DEF ConstantsListed
    <3> QED BY <2>2, <3>1, <1>44
  <2> QED BY <2>1, <2>2
<1>10. ASSUME NEW b \in Constants, u[b].name # None
       PROVE \E i \in 1 .. k : m[i] = <<u[b].name, b>> /\ u[b].ordinal = i - 1
  <2>1. CASE b = c BY <2>1, <1>1, <1>4, <1>8
  <2>2. CASE b # c
    <3>1. u[b] = o[b] BY <2>2, <1>44
    <3>2. PICK i \in 1 .. n : l[i] = <<o[b].name, b>> /\ o[b].ordinal = i - 1
      BY <3>1, <1>10, Zenon DEF ConstantsListed
    <3>3. i # p
      <4> SUFFICES ASSUME i = p PROVE FALSE OBVIOUS
      <4>1. k = n /\ l[p][1] = x BY <3>2, <1>33
      <4>2. cls[x] = b BY <3>2, <4>1, <1>6
      <4> QED BY <4>2, <2>2, <1>0
    <3>4. i \in 1 .. k /\ m[i] = l[i] BY <3>2, <3>3, <1>2, <1>3
    <3> QED BY <3>1, <3>2, <3>4
  <2> QED BY <2>1, <2>2
<1>11. ASSUME NEW i \in 1 .. k PROVE u[m[i][2]].name = m[i][1]
  <2>1. CASE i = p BY <2>1, <1>1, <1>4
  <2>2. CASE i # p
    <3>1. i \in 1 .. n /\ m[i] = l[i] /\ l[i][1] # x BY <2>2, <1>2
    <3>2. l[i][1] \in Names /\ l[i][2] \in Constants /\ o[l[i][2]].name = l[i][1] BY <3>1, <1>6
    <3>3. l[i][2] # c BY <3>1, <3>2, <1>0, <1>5
    <3> QED BY <3>1, <3>2, <3>3, <1>44
  <2> QED BY <2>1, <2>2
<1> QED BY <1>9, <1>10, <1>11, Zenon DEF ConstantsListed

LEMMA AddsCodes ==
  ASSUME NEW x \in Names, NEW k \in Nat \ {0}, NEW c \in Constants, NEW d \in Codes,
         NEW o \in [Constants -> OwnFields], NEW u, NEW g \in [Codes -> Constants \cup {None}],
         Defined(o, u, x, k, d, c), CodesKnown(o, g)
  PROVE  CodesKnown(u, [g EXCEPT ![d] = c])
<1> DEFINE h == [g EXCEPT ![d] = c]
<1>0. None \notin Codes /\ None \notin Constants BY LibraryNoneAssumption
<1>1. u[c].code = d /\ \A b \in Constants : b # c => u[b] = o[b] BY DefinedFacts
<1>2. o[c].code = None \/ o[c].code = d BY Zenon DEF Defined
<1>3. h[d] = c /\ \A e \in Codes : e # d => h[e] = g[e] OBVIOUS
<1> HIDE DEF h
<1>4. ASSUME NEW e \in Codes, h[e] # None PROVE u[h[e]].code = e
  <2>1. CASE e = d BY <2>1, <1>1, <1>3
  <2>2. CASE e # d
    <3>1. h[e] = g[e] /\ g[e] \in Constants BY <2>2, <1>3, <1>4
    <3>2. o[g[e]].code = e BY <3>1, <1>4, Zenon DEF CodesKnown
    <3>3. g[e] # c BY <3>2, <2>2, <1>0, <1>2
    <3> QED BY <3>1, <3>2, <3>3, <1>1
  <2> QED BY <2>1, <2>2
<1>5. ASSUME NEW b \in Constants, u[b].code # None PROVE h[u[b].code] # None
  <2>1. CASE u[b].code = d BY <2>1, <1>0, <1>3
  <2>2. CASE u[b].code # d
    <3>1. u[b] = o[b] BY <2>2, <1>1
    <3>2. o[b].code \in Codes
      <4>1. o[b] \in OwnFields OBVIOUS
      <4>2. o[b].code \in Codes \cup {None} BY <4>1 DEF OwnFields
      <4> QED BY <4>2, <3>1, <1>5
    <3>3. g[o[b].code] # None BY <3>1, <1>5, Zenon DEF CodesKnown
    <3> QED BY <2>2, <3>1, <3>2, <3>3, <1>3
  <2> QED BY <2>1, <2>2
<1>6. CodesKnown(u, h) BY <1>4, <1>5, Zenon DEF CodesKnown
<1> QED BY <1>6 DEF h

LEMMA NamedAdds ==
  ASSUME NamedIInv, NEW x \in Names, NEW d \in Codes, NEW c \in Constants, Named!Add(x, d, c)
  PROVE  NamedIInv'
<1> DEFINE l == nameToEnum
           n == Len(l)
           m == Named!MapSet(x, c)
           k == Len(m)
           noMaps == frozen /\ l = <<>>
           inClass == (~frozen \/ class[x] = c) /\ (class[x] = None \/ class[x] = c)
           named == /\ inClass
                    /\ own[c].name = None \/ own[c].name = x
                    /\ own[c].ordinal = None \/ own[c].ordinal = k - 1
           coded == named /\ (own[c].code = None \/ own[c].code = d)
<1>1. /\ nameToEnum' = IF noMaps THEN l ELSE m
      /\ class' = IF inClass THEN [class EXCEPT ![x] = c] ELSE class
      /\ codeToEnum' = IF named THEN [codeToEnum EXCEPT ![d] = c] ELSE codeToEnum
      /\ own' = IF coded THEN [own EXCEPT ![c] = [name |-> x, ordinal |-> k - 1, code |-> d]] ELSE own
      /\ threw' = IF coded THEN threw ELSE threw \cup {x}
      /\ frozen' = frozen
  BY Zenon DEF Named!Add, Named!Definable
<1>2. /\ l \in Seq(Names \X Constants)
      /\ codeToEnum \in [Codes -> Constants \cup {None}] /\ class \in [Names -> Constants \cup {None}]
      /\ own \in [Constants -> OwnFields] /\ frozen \in BOOLEAN
  BY Zenon DEF NamedIInv, NamedTyped, OwnFields
<1>3. n \in Nat /\ (\A i \in 1 .. n : l[i] \in Names \X Constants) /\ None \notin Constants
  BY <1>2, LibraryNoneAssumption
<1>4. \A i \in 1 .. n : l[i][1] \in Names BY <1>3
<1>5. m \in Seq(Names \X Constants) BY MapSetFacts, Zenon
<1>6. PICK p : SetAt(l, n, m, k, p, x, c) BY MapSetFacts, Zenon
<1> HIDE DEF m
<1>7. k \in Nat \ {0}
  <2>1. p \in 1 .. k BY <1>6, Zenon DEF SetAt
  <2> QED BY <1>5, <2>1
<1> HIDE DEF noMaps, inClass, named, coded
<1>8. NamesOnce(l, n) /\ ClassListed(l, n, class, own, threw) BY Zenon DEF NamedIInv
<1>9. NamesOnce(m, k) BY <1>6, <1>8, SetNames
<1>10. inClass => ~noMaps
  <2> SUFFICES ASSUME inClass, noMaps PROVE FALSE OBVIOUS
  <2>1. class[x] # None BY <1>3 DEF inClass, noMaps
  <2>2. \E i \in 1 .. n : l[i][1] = x BY <2>1, <1>8, Zenon DEF ClassListed
  <2> QED BY <2>2 DEF noMaps
<1>11. [class EXCEPT ![x] = c] \in [Names -> Constants \cup {None}]
       /\ \A y \in Names : y # x => [class EXCEPT ![x] = c][y] = class[y]
  BY <1>2
<1>12. CASE coded
  <2>1. inClass /\ named BY <1>12 DEF coded, named
  <2>2. /\ l' = m /\ class' = [class EXCEPT ![x] = c] /\ codeToEnum' = [codeToEnum EXCEPT ![d] = c]
        /\ own' = [own EXCEPT ![c] = [name |-> x, ordinal |-> k - 1, code |-> d]]
        /\ threw' = threw /\ frozen' = frozen
    BY <1>1, <1>10, <1>12, <2>1
  <2>3. Defined(own, own', x, k, d, c)
    BY <1>12, <2>2, Zenon DEF Defined, coded, named
  <2>4. own' \in [Constants -> OwnFields] BY <2>3, <1>2, <1>7, DefinedFacts
  <2>5. ClassListed(m, k, class', own', threw')
    <3>1. ClassListed(m, k, [class EXCEPT ![x] = c], own', threw)
      BY <1>2, <1>3, <1>6, <1>7, <1>8, <2>3, AddsClass, Zenon
    <3> QED BY <3>1, <2>2
  <2>6. ASSUME threw' = {} PROVE ConstantsListed(m, k, own') /\ CodesKnown(own', codeToEnum')
    <3>1. threw = {} BY <2>2, <2>6
    <3>2. ConstantsListed(l, n, own) /\ CodesKnown(own, codeToEnum) BY <3>1, Zenon DEF NamedIInv
    <3>3. class[x] = None \/ class[x] = c BY <2>1 DEF inClass
    <3>4. ClassListed(l, n, class, own, {}) BY <3>1, <1>8
    <3>5. ConstantsListed(m, k, own')
      BY <1>2, <1>3, <1>6, <1>7, <1>8, <2>3, <3>2, <3>3, <3>4, AddsConstants, Zenon
    <3>6. CodesKnown(own', [codeToEnum EXCEPT ![d] = c])
      BY <1>2, <1>7, <2>3, <3>2, AddsCodes, Zenon
    <3> QED BY <3>5, <3>6, <2>2
  <2>7. NamedTyped'
    <3>1. codeToEnum' \in [Codes -> Constants \cup {None}] BY <1>2, <2>2
    <3> QED BY <3>1, <1>2, <1>5, <1>11, <2>2, <2>4, Zenon DEF NamedTyped, OwnFields
  <2>8. l' = m BY <2>2
  <2> QED BY <1>9, <2>5, <2>6, <2>7, <2>8 DEF NamedIInv
<1>13. CASE ~coded
  <2>1. own' = own /\ threw' = threw \cup {x} /\ threw' # {} BY <1>1, <1>13
  <2>2. codeToEnum' \in [Codes -> Constants \cup {None}] BY <1>1, <1>2
  <2>3. class' = class \/ class' = [class EXCEPT ![x] = c] BY <1>1
  <2>4. class' \in [Names -> Constants \cup {None}] /\ \A y \in Names : y # x => class'[y] = class[y]
    BY <1>2, <1>11, <2>3
  <2>5. l' \in Seq(Names \X Constants) /\ NamesOnce(l', Len(l'))
    BY <1>1, <1>2, <1>5, <1>8, <1>9
  <2>6. ClassListed(l', Len(l'), class', own, threw \cup {x})
    <3>1. CASE noMaps
      <4>1. class' = class /\ l' = l BY <1>1, <1>10, <3>1
      <4>2. ClassListed(l, n, class, own, threw \cup {x}) BY <1>8, Zenon DEF ClassListed
      <4> QED BY <4>1, <4>2
    <3>2. CASE ~noMaps
      <4>1. l' = m BY <1>1, <3>2
      <4>2. PICK q : q = class' OBVIOUS
      <4>3. ClassListed(m, k, q, own, threw \cup {x})
        <5>1. q \in [Names -> Constants \cup {None}] /\ \A y \in Names : y # x => q[y] = class[y]
          BY <2>4, <4>2
        <5> QED BY <5>1, <1>2, <1>3, <1>4, <1>6, <1>8, ThrowsKeep
      <4> QED BY <4>1, <4>2, <4>3
    <3> QED BY <3>1, <3>2
  <2>7. NamedTyped' BY <1>1, <1>2, <2>1, <2>2, <2>4, <2>5, Zenon DEF NamedTyped, OwnFields
  <2> QED BY <2>1, <2>5, <2>6, <2>7, Zenon DEF NamedIInv
<1> QED BY <1>12, <1>13

LEMMA NamedStays == NamedIInv /\ [Named!Next]_(Named!enumVars) => NamedIInv'
<1>1. ASSUME NamedIInv, UNCHANGED <<nameToEnum, codeToEnum, class, own, threw>>, frozen' \in BOOLEAN
      PROVE NamedIInv'
  BY <1>1, Zenon DEF NamedIInv, NamedTyped
<1>2. NamedIInv /\ UNCHANGED Named!enumVars => NamedIInv'
  BY <1>1 DEF Named!enumVars, NamedIInv, NamedTyped
<1>3. NamedIInv /\ Named!Finish => NamedIInv' BY <1>1 DEF Named!Finish
<1> QED BY <1>2, <1>3, NamedAdds DEF Named!Next

LEMMA NamedIsRight == NamedIInv => Named!EnumsAgree
<1> SUFFICES ASSUME NamedIInv PROVE Named!EnumsAgree OBVIOUS
<1> DEFINE l == nameToEnum
           n == Len(l)
<1>1. /\ l \in Seq(Names \X Constants) /\ n \in Nat /\ DOMAIN l = 1 .. n
      /\ own \in [Constants -> OwnFields] /\ codeToEnum \in [Codes -> Constants \cup {None}]
      /\ \A i \in 1 .. n : l[i][1] \in Names /\ l[i][2] \in Constants
  <2>1. l \in Seq(Names \X Constants) /\ own \in [Constants -> OwnFields]
        /\ codeToEnum \in [Codes -> Constants \cup {None}]
    BY Zenon DEF NamedIInv, NamedTyped, OwnFields
  <2>2. \A q \in Names \X Constants : q[1] \in Names /\ q[2] \in Constants OBVIOUS
  <2> QED BY <2>1, <2>2
<1>2. None \notin Constants /\ None \notin Names /\ None \notin Codes BY LibraryNoneAssumption
<1>3. ClassListed(l, n, class, own, threw) /\ NamesOnce(l, n) BY Zenon DEF NamedIInv
<1>4. ASSUME NEW x \in Names
      PROVE \/ Named!FromName(x) = None /\ \A i \in 1 .. n : l[i][1] # x
            \/ \E i \in 1 .. n : l[i][1] = x /\ Named!FromName(x) = l[i][2] /\ l[i][2] # None
  BY <1>1, <1>2, FromNameFacts
<1>5. ASSUME NEW x \in Names \ threw
      PROVE class[x] = Named!FromName(x) /\ (Named!HasName(x) => own[class[x]].name = x)
  <2>1. CASE Named!FromName(x) = None /\ \A i \in 1 .. n : l[i][1] # x
    <3>1. class[x] = None BY <2>1, <1>3, Zenon DEF ClassListed
    <3> QED BY <2>1, <3>1 DEF Named!HasName
  <2>2. ASSUME NEW i \in 1 .. n, l[i][1] = x, Named!FromName(x) = l[i][2]
        PROVE class[x] = Named!FromName(x) /\ own[class[x]].name = x
    BY <2>2, <1>3 DEF ClassListed
  <2> QED BY <2>1, <2>2, <1>4
<1>6. ASSUME NEW x \in Names, class[x] # None PROVE Named!HasName(x)
  <2>1. \E i \in 1 .. n : l[i][1] = x BY <1>3, <1>6, Zenon DEF ClassListed
  <2> QED BY <2>1, <1>4 DEF Named!HasName
<1>7. ASSUME threw = {}
      PROVE  /\ \A x \in Names :
                  Named!HasName(x) =>
                    Named!FromOrdinal(own[Named!FromName(x)].ordinal) = Named!FromName(x)
             /\ \A e \in Codes : Named!HasCode(e) => own[Named!FromCode(e)].code = e
             /\ \A c \in Named!Enums : Named!HasCode(own[c].code)
             /\ Len(nameToEnum) = Named!Cardinality(Named!Enums)
  <2>1. ConstantsListed(l, n, own) /\ CodesKnown(own, codeToEnum)
    BY <1>7, Zenon DEF NamedIInv
  <2>2. \A i \in 1 .. n : own[l[i][2]].name = l[i][1] BY <2>1, Zenon DEF ConstantsListed
  <2>3. ASSUME NEW x \in Names, Named!HasName(x)
        PROVE Named!FromOrdinal(own[Named!FromName(x)].ordinal) = Named!FromName(x)
    <3>1. PICK i \in 1 .. n : l[i][1] = x /\ Named!FromName(x) = l[i][2]
      BY <1>4, <2>3 DEF Named!HasName
    <3>2. own[l[i][2]].name # None /\ l[i][2] \in Constants BY <3>1, <2>2, <1>1, <1>2
    <3>3. PICK j \in 1 .. n : l[j] = <<own[l[i][2]].name, l[i][2]>> /\ own[l[i][2]].ordinal = j - 1
      BY <3>2, <2>1, Zenon DEF ConstantsListed
    <3>4. j - 1 < n /\ (j - 1) + 1 = j BY <3>3, <1>1
    <3>5. Named!FromOrdinal(j - 1) = l[j][2] BY <3>4 DEF Named!FromOrdinal
    <3> QED BY <3>1, <3>3, <3>5
  <2>4. \A e \in Codes : Named!HasCode(e) => own[Named!FromCode(e)].code = e
    BY <2>1, Zenon DEF CodesKnown, Named!HasCode, Named!FromCode
  <2>5. ASSUME NEW c \in Named!Enums PROVE Named!HasCode(own[c].code)
    <3>1. PICK i \in 1 .. n : c = l[i][2] BY <2>5, <1>1 DEF Named!Enums
    <3>2. own[c].name # None /\ c \in Constants BY <3>1, <2>2, <1>1, <1>2
    <3>3. own[c].code # None BY <3>2, <2>1, Zenon DEF ConstantsListed
    <3> QED BY <3>2, <3>3, <2>1, Zenon DEF CodesKnown, Named!HasCode, Named!FromCode
  <2>6. Len(nameToEnum) = Named!Cardinality(Named!Enums)
    <3> DEFINE E == Named!Enums
               f == [i \in 1 .. n |-> l[i][2]]
    <3>1. E = {l[i][2] : i \in 1 .. n} BY <1>1 DEF Named!Enums
    <3>2. \A i, j \in 1 .. n : l[i][2] = l[j][2] => i = j
      <4> SUFFICES ASSUME NEW i \in 1 .. n, NEW j \in 1 .. n, l[i][2] = l[j][2] PROVE i = j OBVIOUS
      <4>1. l[i][1] = l[j][1] BY <2>2
      <4> QED BY <4>1, <1>3, Zenon DEF NamesOnce
    <3>3. f \in Bijection(1 .. n, E)
      BY <3>1, <3>2 DEF Bijection, Injection, Surjection, IsInjective
    <3>4. ExistsBijection(1 .. n, E) BY <3>3 DEF ExistsBijection
    <3>5. IsFiniteSet(1 .. n) /\ Cardinality(1 .. n) = n
      <4>1. PICK h \in Nat : h = n BY <1>1
      <4>2. IsFiniteSet(1 .. h) /\ Cardinality(1 .. h) = IF 1 > h THEN 0 ELSE h - 1 + 1
        BY FS_Interval
      <4>3. Cardinality(1 .. h) = h BY <4>2
      <4> QED BY <4>1, <4>2, <4>3, Zenon
    <3>6. Cardinality(E) = n
      <4> HIDE DEF E
      <4> QED BY <3>4, <3>5, FS_Bijection
    <3> QED BY <3>6 DEF Named!Cardinality, Cardinality
  <2> QED BY <2>3, <2>4, <2>5, <2>6
<1> QED BY <1>5, <1>6, <1>7, Zenon DEF Named!EnumsAgree
--------------------------------------------------------------------------------
(* MultiBiMap and BiMap.  Rows are what a Map of Maps has, by its keys;    *)
(* those of s lose y, or the row of y loses the keys in s.                 *)
SidesOf(X, Y) == [X -> [Y -> Values \cup {None}] \cup {None}]
WithoutColumn(X, m, s, y) ==
  [x \in X |-> IF x \in s /\ m[x] # None THEN [m[x] EXCEPT ![y] = None] ELSE m[x]]
WithoutRow(X, m, y, s) ==
  IF m[y] = None THEN m ELSE [m EXCEPT ![y] = [x \in X |-> IF x \in s THEN None ELSE m[y][x]]]

LEMMA ColumnStep ==
  ASSUME NEW X, NEW Y, NEW m \in SidesOf(X, Y), None \notin [Y -> Values \cup {None}], NEW y \in Y,
         NEW s \in SUBSET X, NEW x \in s
  PROVE  BothSides!Delete(WithoutColumn(X, m, s \ {x}, y), x, y) = WithoutColumn(X, m, s, y)
<1> DEFINE a == WithoutColumn(X, m, s \ {x}, y)
           b == WithoutColumn(X, m, s, y)
           V == [Y -> Values \cup {None}]
<1>0. \A z \in X : m[z] \in V \cup {None} BY DEF SidesOf
<1>1. /\ a = [z \in X |-> IF z \in s \ {x} /\ m[z] # None THEN [m[z] EXCEPT ![y] = None] ELSE m[z]]
      /\ b = [z \in X |-> IF z \in s /\ m[z] # None THEN [m[z] EXCEPT ![y] = None] ELSE m[z]]
  BY DEF WithoutColumn
<1>2. x \in X /\ a[x] = m[x] /\ (\A z \in X : z # x => a[z] = b[z])
      /\ b[x] = IF m[x] # None THEN [m[x] EXCEPT ![y] = None] ELSE m[x]
  BY <1>1
<1>3. DOMAIN a = X /\ DOMAIN b = X /\ a = [z \in X |-> a[z]] /\ b = [z \in X |-> b[z]] BY <1>1
<1> HIDE DEF a, b
<1>4. BothSides!Delete(a, x, y) = IF a[x] = None THEN a ELSE [a EXCEPT ![x][y] = None]
  BY DEF BothSides!Delete
<1>5. CASE m[x] = None
  <2>1. \A z \in X : a[z] = b[z] BY <1>2, <1>5
  <2>2. a = b BY <2>1, <1>3
  <2> QED BY <2>2, <1>2, <1>4, <1>5 DEF a, b
<1>6. CASE m[x] # None
  <2>1. b[x] = [a[x] EXCEPT ![y] = None] BY <1>2, <1>6
  <2>2. [a EXCEPT ![x][y] = None] = [z \in X |-> IF z = x THEN [a[x] EXCEPT ![y] = None] ELSE a[z]]
    BY <1>2, <1>3
  <2>3. \A z \in X : (IF z = x THEN [a[x] EXCEPT ![y] = None] ELSE a[z]) = b[z] BY <1>2, <2>1
  <2>4. [a EXCEPT ![x][y] = None] = b BY <2>2, <2>3, <1>3
  <2> QED BY <2>4, <1>2, <1>4, <1>6 DEF a, b
<1> QED BY <1>5, <1>6

LEMMA RowStep ==
  ASSUME NEW X, NEW Y, NEW m \in SidesOf(Y, X), None \notin [X -> Values \cup {None}], NEW y \in Y,
         NEW s \in SUBSET X, NEW x \in s
  PROVE  BothSides!Delete(WithoutRow(X, m, y, s \ {x}), y, x) = WithoutRow(X, m, y, s)
<1> DEFINE V == [X -> Values \cup {None}]
           r == [z \in X |-> IF z \in s \ {x} THEN None ELSE m[y][z]]
           q == [z \in X |-> IF z \in s THEN None ELSE m[y][z]]
           a == WithoutRow(X, m, y, s \ {x})
<1>0. m[y] \in V \cup {None} /\ DOMAIN m = Y BY DEF SidesOf
<1>1. BothSides!Delete(a, y, x) = IF a[y] = None THEN a ELSE [a EXCEPT ![y][x] = None]
  BY DEF BothSides!Delete
<1>2. CASE m[y] = None
  <2>1. a = m /\ WithoutRow(X, m, y, s) = m BY <1>2 DEF WithoutRow
  <2> QED BY <2>1, <1>1, <1>2
<1>3. CASE m[y] # None
  <2>1. r \in V /\ [r EXCEPT ![x] = None] = q BY <1>0, <1>3
  <2>2. a = [m EXCEPT ![y] = r] /\ WithoutRow(X, m, y, s) = [m EXCEPT ![y] = q]
    BY <1>3, Zenon DEF WithoutRow
  <2> HIDE DEF r, q, a
  <2>3. a[y] = r /\ a[y] # None BY <2>1, <2>2, <1>0
  <2>4. [a EXCEPT ![y][x] = None] = [a EXCEPT ![y] = [r EXCEPT ![x] = None]] BY <2>3
  <2>5. [a EXCEPT ![y] = q] = [m EXCEPT ![y] = q] BY <2>2, <1>0
  <2> QED BY <2>1, <2>2, <2>3, <2>4, <2>5, <1>1 DEF a
<1> QED BY <1>2, <1>3

LEMMA NothingRemoved ==
  ASSUME NEW X, NEW Y, NEW m \in SidesOf(X, Y), NEW y
  PROVE  WithoutColumn(X, m, {}, y) = m
<1>1. m = [x \in X |-> m[x]] BY DEF SidesOf
<1>2. WithoutColumn(X, m, {}, y) = [x \in X |-> m[x]] BY DEF WithoutColumn
<1> QED BY <1>1, <1>2

LEMMA NothingRemovedHere ==
  ASSUME NEW X, NEW Y, NEW m \in SidesOf(Y, X), NEW y \in Y
  PROVE  WithoutRow(X, m, y, {}) = m
<1>1. m[y] \in [X -> Values \cup {None}] \cup {None} BY DEF SidesOf
<1>2. CASE m[y] # None
  <2>1. [x \in X |-> IF x \in {} THEN None ELSE m[y][x]] = m[y] BY <1>1, <1>2
  <2>2. [m EXCEPT ![y] = m[y]] = m BY DEF SidesOf
  <2>3. PICK r : r = [x \in X |-> IF x \in {} THEN None ELSE m[y][x]] OBVIOUS
  <2>4. WithoutRow(X, m, y, {}) = [m EXCEPT ![y] = r] BY <1>2, <2>3, Zenon DEF WithoutRow
  <2> QED BY <2>1, <2>2, <2>3, <2>4
<1> QED BY <1>2 DEF WithoutRow

(* Folds over finite sets                                                  *)
FirstOf(s) == CHOOSE x \in s : TRUE

LEMMA LeastSet ==
  ASSUME NEW C, C # {}, \A s \in C : IsFiniteSet(s)
  PROVE  \E s \in C : \A t \in C : Cardinality(t) >= Cardinality(s)
<1> DEFINE D == {Cardinality(s) : s \in C}
<1>1. \A s \in C : Cardinality(s) \in Nat BY FS_CardinalityType
<1>2. D \in SUBSET Nat /\ D # {} BY <1>1
<1>3. PICK d \in D : \A e \in D : d <= e
  <2> HIDE DEF D
  <2> QED BY <1>2, LeastNumber
<1>4. PICK s \in C : d = Cardinality(s) OBVIOUS
<1>5. ASSUME NEW t \in C PROVE Cardinality(t) >= Cardinality(s)
  <2>1. Cardinality(t) \in D BY <1>5
  <2>2. d <= Cardinality(t) BY <2>1, <1>3
  <2> QED BY <2>2, <1>1, <1>4
<1> QED BY <1>5

(* Two that do the same step from where they agree agree.                  *)
LEMMA FoldsAgree ==
  ASSUME NEW U, IsFiniteSet(U), NEW h, NEW g, h[{}] = g[{}],
         \A s \in SUBSET U : s # {} =>
           (h[s \ {FirstOf(s)}] = g[s \ {FirstOf(s)}] => h[s] = g[s])
  PROVE  h[U] = g[U]
<1> DEFINE C == {s \in SUBSET U : h[s] # g[s]}
<1>1. SUFFICES ASSUME C # {} PROVE FALSE
  <2>1. U \in SUBSET U OBVIOUS
  <2> QED BY <2>1
<1>2. \A s \in SUBSET U : IsFiniteSet(s) BY FS_Subset
<1>3. PICK c \in C : \A t \in C : Cardinality(t) >= Cardinality(c)
  <2>1. \A s \in C : IsFiniteSet(s) BY <1>2
  <2> HIDE DEF C
  <2> QED BY <1>1, <2>1, LeastSet
<1>4. c \in SUBSET U /\ h[c] # g[c] /\ c # {} BY <1>3
<1> DEFINE d == c \ {FirstOf(c)}
<1>5. FirstOf(c) \in c BY <1>4, Zenon DEF FirstOf
<1>6. d \in SUBSET U /\ Cardinality(d) < Cardinality(c)
  <2>1. IsFiniteSet(c) /\ Cardinality(c) \in Nat BY <1>2, <1>4, FS_CardinalityType
  <2>2. Cardinality(d) = Cardinality(c) - 1 BY <2>1, <1>5, FS_RemoveElement
  <2> QED BY <2>1, <2>2, <1>4
<1>7. h[d] = g[d]
  <2>1. ~ (d \in C)
    <3>1. Cardinality(c) \in Nat /\ Cardinality(d) \in Nat BY <1>2, <1>4, <1>6, FS_CardinalityType
    <3> HIDE DEF C, d
    <3> QED BY <3>1, <1>3, <1>6
  <2> HIDE DEF d
  <2> QED BY <2>1, <1>6
<1> QED BY <1>4, <1>7

(* What removeTo and removeFrom leave                                      *)
LeftTo(t, s) == [tos |-> WithoutColumn(Froms, tos, s, t), froms |-> WithoutRow(Froms, froms, t, s)]
LeftFrom(f, s) == [tos |-> WithoutRow(Tos, tos, f, s), froms |-> WithoutColumn(Tos, froms, s, f)]
FoldsTo(U, t, h) ==
  h = [s \in SUBSET U |-> IF s = {} THEN BothSides!Pairs
                          ELSE BothSides!Removed(h[s \ {FirstOf(s)}], FirstOf(s), t)]
FoldsFrom(U, f, h) ==
  h = [s \in SUBSET U |-> IF s = {} THEN BothSides!Pairs
                          ELSE BothSides!Removed(h[s \ {FirstOf(s)}], f, FirstOf(s))]
PairsTyped == tos \in SidesOf(Froms, Tos) /\ froms \in SidesOf(Tos, Froms)

LEMMA LeftToStep ==
  ASSUME PairsTyped, NEW t \in Tos, NEW s \in SUBSET Froms, NEW f \in s
  PROVE  BothSides!Removed(LeftTo(t, s \ {f}), f, t) = LeftTo(t, s)
<1>1. None \notin [Froms -> Values \cup {None}] /\ None \notin [Tos -> Values \cup {None}]
  BY LibraryNoneAssumption
<1>2. BothSides!Delete(WithoutColumn(Froms, tos, s \ {f}, t), f, t) = WithoutColumn(Froms, tos, s, t)
  BY <1>1, ColumnStep DEF PairsTyped
<1>3. BothSides!Delete(WithoutRow(Froms, froms, t, s \ {f}), t, f) = WithoutRow(Froms, froms, t, s)
  BY <1>1, RowStep DEF PairsTyped
<1> DEFINE p == LeftTo(t, s \ {f})
<1>4. p.tos = WithoutColumn(Froms, tos, s \ {f}, t) /\ p.froms = WithoutRow(Froms, froms, t, s \ {f})
  BY DEF LeftTo
<1> HIDE DEF p
<1>5. BothSides!Removed(p, f, t)
        = [tos |-> BothSides!Delete(p.tos, f, t), froms |-> BothSides!Delete(p.froms, t, f)]
  BY DEF BothSides!Removed
<1> QED BY <1>2, <1>3, <1>4, <1>5, Zenon DEF LeftTo, p

LEMMA LeftFromStep ==
  ASSUME PairsTyped, NEW f \in Froms, NEW s \in SUBSET Tos, NEW t \in s
  PROVE  BothSides!Removed(LeftFrom(f, s \ {t}), f, t) = LeftFrom(f, s)
<1>1. None \notin [Froms -> Values \cup {None}] /\ None \notin [Tos -> Values \cup {None}]
  BY LibraryNoneAssumption
<1>2. BothSides!Delete(WithoutColumn(Tos, froms, s \ {t}, f), t, f) = WithoutColumn(Tos, froms, s, f)
  BY <1>1, ColumnStep DEF PairsTyped
<1>3. BothSides!Delete(WithoutRow(Tos, tos, f, s \ {t}), f, t) = WithoutRow(Tos, tos, f, s)
  BY <1>1, RowStep DEF PairsTyped
<1> DEFINE p == LeftFrom(f, s \ {t})
<1>4. p.froms = WithoutColumn(Tos, froms, s \ {t}, f) /\ p.tos = WithoutRow(Tos, tos, f, s \ {t})
  BY DEF LeftFrom
<1> HIDE DEF p
<1>5. BothSides!Removed(p, f, t)
        = [tos |-> BothSides!Delete(p.tos, f, t), froms |-> BothSides!Delete(p.froms, t, f)]
  BY DEF BothSides!Removed
<1> QED BY <1>2, <1>3, <1>4, <1>5, Zenon DEF LeftFrom, p

LEMMA LeftAtFirst ==
  ASSUME PairsTyped, NEW f \in Froms, NEW t \in Tos
  PROVE  LeftTo(t, {}) = BothSides!Pairs /\ LeftFrom(f, {}) = BothSides!Pairs
<1>1. /\ WithoutColumn(Froms, tos, {}, t) = tos /\ WithoutRow(Tos, tos, f, {}) = tos
      /\ WithoutColumn(Tos, froms, {}, f) = froms /\ WithoutRow(Froms, froms, t, {}) = froms
  BY NothingRemoved, NothingRemovedHere DEF PairsTyped
<1> QED BY <1>1, Zenon DEF LeftTo, LeftFrom, BothSides!Pairs

LEMMA FoldToFacts ==
  ASSUME PairsTyped, NEW t \in Tos, NEW U \in SUBSET Froms
  PROVE  BothSides!FoldSet(LAMBDA f, p : BothSides!Removed(p, f, t), BothSides!Pairs, U) = LeftTo(t, U)
<1> DEFINE h == CHOOSE h : FoldsTo(U, t, h)
           g == [s \in SUBSET U |-> LeftTo(t, s)]
<1>1. BothSides!FoldSet(LAMBDA f, p : BothSides!Removed(p, f, t), BothSides!Pairs, U) = h[U]
  BY DEF BothSides!FoldSet, BothSides!MapThenFoldSet, FoldsTo, FirstOf
<1>2. \A s \in SUBSET U : s # {} => FirstOf(s) \in s /\ s \ {FirstOf(s)} \in SUBSET U
  BY Zenon DEF FirstOf
<1>3. ASSUME NEW s \in SUBSET U, s # {}
      PROVE LeftTo(t, s) = BothSides!Removed(LeftTo(t, s \ {FirstOf(s)}), FirstOf(s), t)
  <2>1. s \in SUBSET Froms /\ FirstOf(s) \in s BY <1>2, <1>3
  <2> QED BY <2>1, LeftToStep
<1>4. LeftTo(t, {}) = BothSides!Pairs
  <2>1. CASE U = {} 
    <3>1. WithoutColumn(Froms, tos, {}, t) = tos /\ WithoutRow(Froms, froms, t, {}) = froms
      BY NothingRemoved, NothingRemovedHere DEF PairsTyped
    <3> QED BY <3>1, Zenon DEF LeftTo, BothSides!Pairs
  <2>2. CASE U # {}
    <3>1. PICK f : f \in Froms BY <2>2
    <3> QED BY <3>1, LeftAtFirst
  <2> QED BY <2>1, <2>2
<1>5. FoldsTo(U, t, g)
  <2>1. ASSUME NEW s \in SUBSET U
        PROVE LeftTo(t, s) = IF s = {} THEN BothSides!Pairs
                             ELSE BothSides!Removed(g[s \ {FirstOf(s)}], FirstOf(s), t)
    <3>1. CASE s = {} BY <3>1, <1>4
    <3>2. CASE s # {}
      <4>1. g[s \ {FirstOf(s)}] = LeftTo(t, s \ {FirstOf(s)}) BY <3>2, <1>2
      <4> HIDE DEF g
      <4> QED BY <4>1, <3>2, <1>3
    <3> QED BY <3>1, <3>2
  <2> QED BY <2>1 DEF FoldsTo
<1> HIDE DEF g
<1>6. FoldsTo(U, t, h) BY <1>5, Zenon
<1> HIDE DEF h
<1>7. h[{}] = g[{}]
  <2>1. {} \in SUBSET U OBVIOUS
  <2>2. h[{}] = BothSides!Pairs BY <1>6, <2>1 DEF FoldsTo
  <2>3. g[{}] = BothSides!Pairs BY <1>5, <2>1 DEF FoldsTo
  <2> QED BY <2>2, <2>3
<1>8. ASSUME NEW s \in SUBSET U, s # {}, h[s \ {FirstOf(s)}] = g[s \ {FirstOf(s)}] PROVE h[s] = g[s]
  <2>1. h[s] = BothSides!Removed(h[s \ {FirstOf(s)}], FirstOf(s), t) BY <1>6, <1>8 DEF FoldsTo
  <2>2. g[s] = BothSides!Removed(g[s \ {FirstOf(s)}], FirstOf(s), t) BY <1>5, <1>8 DEF FoldsTo
  <2> QED BY <2>1, <2>2, <1>8
<1>9. IsFiniteSet(U) BY SidesAssumption, FS_Subset
<1>10. h[U] = g[U] BY <1>7, <1>8, <1>9, FoldsAgree
<1>11. g[U] = LeftTo(t, U) BY DEF g
<1> QED BY <1>1, <1>10, <1>11

LEMMA FoldFromFacts ==
  ASSUME PairsTyped, NEW f \in Froms, NEW U \in SUBSET Tos
  PROVE  BothSides!FoldSet(LAMBDA t, p : BothSides!Removed(p, f, t), BothSides!Pairs, U) = LeftFrom(f, U)
<1> DEFINE h == CHOOSE h : FoldsFrom(U, f, h)
           g == [s \in SUBSET U |-> LeftFrom(f, s)]
<1>1. BothSides!FoldSet(LAMBDA t, p : BothSides!Removed(p, f, t), BothSides!Pairs, U) = h[U]
  BY DEF BothSides!FoldSet, BothSides!MapThenFoldSet, FoldsFrom, FirstOf
<1>2. \A s \in SUBSET U : s # {} => FirstOf(s) \in s /\ s \ {FirstOf(s)} \in SUBSET U
  BY Zenon DEF FirstOf
<1>3. ASSUME NEW s \in SUBSET U, s # {}
      PROVE LeftFrom(f, s) = BothSides!Removed(LeftFrom(f, s \ {FirstOf(s)}), f, FirstOf(s))
  <2>1. s \in SUBSET Tos /\ FirstOf(s) \in s BY <1>2, <1>3
  <2> QED BY <2>1, LeftFromStep
<1>4. LeftFrom(f, {}) = BothSides!Pairs
  <2>1. WithoutColumn(Tos, froms, {}, f) = froms /\ WithoutRow(Tos, tos, f, {}) = tos
    BY NothingRemoved, NothingRemovedHere DEF PairsTyped
  <2> QED BY <2>1, Zenon DEF LeftFrom, BothSides!Pairs
<1>5. FoldsFrom(U, f, g)
  <2>1. ASSUME NEW s \in SUBSET U
        PROVE LeftFrom(f, s) = IF s = {} THEN BothSides!Pairs
                               ELSE BothSides!Removed(g[s \ {FirstOf(s)}], f, FirstOf(s))
    <3>1. CASE s = {} BY <3>1, <1>4
    <3>2. CASE s # {}
      <4>1. g[s \ {FirstOf(s)}] = LeftFrom(f, s \ {FirstOf(s)}) BY <3>2, <1>2
      <4> HIDE DEF g
      <4> QED BY <4>1, <3>2, <1>3
    <3> QED BY <3>1, <3>2
  <2> QED BY <2>1 DEF FoldsFrom
<1> HIDE DEF g
<1>6. FoldsFrom(U, f, h) BY <1>5, Zenon
<1> HIDE DEF h
<1>7. h[{}] = g[{}]
  <2>1. {} \in SUBSET U OBVIOUS
  <2>2. h[{}] = BothSides!Pairs BY <1>6, <2>1 DEF FoldsFrom
  <2>3. g[{}] = BothSides!Pairs BY <1>5, <2>1 DEF FoldsFrom
  <2> QED BY <2>2, <2>3
<1>8. ASSUME NEW s \in SUBSET U, s # {}, h[s \ {FirstOf(s)}] = g[s \ {FirstOf(s)}] PROVE h[s] = g[s]
  <2>1. h[s] = BothSides!Removed(h[s \ {FirstOf(s)}], f, FirstOf(s)) BY <1>6, <1>8 DEF FoldsFrom
  <2>2. g[s] = BothSides!Removed(g[s \ {FirstOf(s)}], f, FirstOf(s)) BY <1>5, <1>8 DEF FoldsFrom
  <2> QED BY <2>1, <2>2, <1>8
<1>9. IsFiniteSet(U) BY SidesAssumption, FS_Subset
<1>10. h[U] = g[U] BY <1>7, <1>8, <1>9, FoldsAgree
<1>11. g[U] = LeftFrom(f, U) BY DEF g
<1> QED BY <1>1, <1>10, <1>11

(* What can be looked up after a removal                                   *)
LEMMA ColumnFacts ==
  ASSUME NEW X, NEW Y, NEW m \in SidesOf(X, Y), None \notin [Y -> Values \cup {None}], NEW y \in Y,
         NEW s \in SUBSET X
  PROVE  /\ WithoutColumn(X, m, s, y) \in SidesOf(X, Y)
         /\ \A x \in X, z \in Y : BothSides!Lookup(WithoutColumn(X, m, s, y), x, z)
                = IF x \in s /\ z = y THEN None ELSE BothSides!Lookup(m, x, z)
<1> DEFINE b == WithoutColumn(X, m, s, y)
           V == [Y -> Values \cup {None}]
<1>0. \A x \in X : m[x] \in V \cup {None} BY DEF SidesOf
<1>1. b = [x \in X |-> IF x \in s /\ m[x] # None THEN [m[x] EXCEPT ![y] = None] ELSE m[x]]
  BY DEF WithoutColumn
<1> HIDE DEF b
<1>2. ASSUME NEW x \in X
      PROVE  /\ b[x] \in V \cup {None} /\ (b[x] = None <=> m[x] = None)
             /\ m[x] # None => \A z \in Y : b[x][z] = IF x \in s /\ z = y THEN None ELSE m[x][z]
  <2>1. b[x] = IF x \in s /\ m[x] # None THEN [m[x] EXCEPT ![y] = None] ELSE m[x] BY <1>1
  <2>2. CASE x \in s /\ m[x] # None
    <3>1. m[x] \in V BY <2>2, <1>0
    <3>2. b[x] = [m[x] EXCEPT ![y] = None] BY <2>1, <2>2
    <3>3. b[x] \in V /\ \A z \in Y : b[x][z] = IF z = y THEN None ELSE m[x][z] BY <3>1, <3>2
    <3>4. b[x] # None BY <3>3
    <3> QED BY <3>3, <3>4, <2>2
  <2>3. CASE ~(x \in s /\ m[x] # None)
    <3>1. b[x] = m[x] BY <2>1, <2>3
    <3> QED BY <3>1, <2>3, <1>0
  <2> QED BY <2>2, <2>3
<1>3. b \in SidesOf(X, Y)
  <2>1. b \in [X -> V \cup {None}]
    <3> HIDE DEF V
    <3> QED BY <1>1, <1>2
  <2> QED BY <2>1 DEF SidesOf
<1>4. ASSUME NEW x \in X, NEW z \in Y
      PROVE BothSides!Lookup(b, x, z) = IF x \in s /\ z = y THEN None ELSE BothSides!Lookup(m, x, z)
  BY <1>2, Zenon DEF BothSides!Lookup
<1> QED BY <1>3, <1>4 DEF b

LEMMA RowFacts ==
  ASSUME NEW X, NEW Y, NEW m \in SidesOf(Y, X), None \notin [X -> Values \cup {None}], NEW y \in Y,
         NEW s \in SUBSET X
  PROVE  /\ WithoutRow(X, m, y, s) \in SidesOf(Y, X)
         /\ \A x \in X, z \in Y : BothSides!Lookup(WithoutRow(X, m, y, s), z, x)
                = IF x \in s /\ z = y THEN None ELSE BothSides!Lookup(m, z, x)
<1> DEFINE b == WithoutRow(X, m, y, s)
           V == [X -> Values \cup {None}]
           q == [x \in X |-> IF x \in s THEN None ELSE m[y][x]]
<1>0. \A z \in Y : m[z] \in V \cup {None} BY DEF SidesOf
<1>1. CASE m[y] = None
  <2>1. b = m BY <1>1 DEF WithoutRow
  <2> HIDE DEF b
  <2>2. \A x \in X : BothSides!Lookup(m, y, x) = None BY <1>1 DEF BothSides!Lookup
  <2>3. b \in SidesOf(Y, X) BY <2>1
  <2>4. \A x \in X, z \in Y : BothSides!Lookup(b, z, x)
          = IF x \in s /\ z = y THEN None ELSE BothSides!Lookup(m, z, x)
    BY <2>1, <2>2, Zenon
  <2> QED BY <2>3, <2>4 DEF b
<1>2. CASE m[y] # None
  <2>1. m[y] \in V BY <1>0, <1>2
  <2>2. q \in V /\ \A x \in X : q[x] = IF x \in s THEN None ELSE m[y][x] BY <2>1
  <2>3. b = [m EXCEPT ![y] = q] BY <1>2, Zenon DEF WithoutRow
  <2> HIDE DEF q, b, V
  <2>4. /\ b \in SidesOf(Y, X) /\ b[y] = q
        /\ \A z \in Y : z # y => b[z] = m[z]
    BY <2>2, <2>3 DEF SidesOf, V
  <2>5. q # None BY <2>2 DEF V
  <2>6. ASSUME NEW x \in X, NEW z \in Y
        PROVE BothSides!Lookup(b, z, x) = IF x \in s /\ z = y THEN None ELSE BothSides!Lookup(m, z, x)
    <3>1. CASE z = y BY <3>1, <1>2, <2>2, <2>4, <2>5 DEF BothSides!Lookup
    <3>2. CASE z # y BY <3>2, <2>4 DEF BothSides!Lookup
    <3> QED BY <3>1, <3>2
  <2> QED BY <2>4, <2>6 DEF b
<1> QED BY <1>1, <1>2

PairsIInv ==
  /\ PairsTyped
  /\ \A f \in Froms, t \in Tos : BothSides!Lookup(tos, f, t) = BothSides!Lookup(froms, t, f)
  /\ forward \in [Froms -> Tos \cup {None}] /\ back \in [Tos -> Froms \cup {None}]
  /\ \A k \in Froms, v \in Tos : forward[k] = v <=> back[v] = k

LEMMA PairsBegin == BothSides!Init => PairsIInv
<1> SUFFICES ASSUME BothSides!Init PROVE PairsIInv OBVIOUS
<1>1. /\ tos = [f \in Froms |-> None] /\ froms = [t \in Tos |-> None]
      /\ forward = [f \in Froms |-> None] /\ back = [t \in Tos |-> None]
  BY DEF BothSides!Init
<1>2. PairsTyped BY <1>1 DEF PairsTyped, SidesOf
<1>3. \A f \in Froms, t \in Tos : BothSides!Lookup(tos, f, t) = BothSides!Lookup(froms, t, f)
  BY <1>1 DEF BothSides!Lookup
<1>4. None \notin Froms /\ None \notin Tos BY LibraryNoneAssumption
<1> QED BY <1>1, <1>2, <1>3, <1>4 DEF PairsIInv

(* Only the sides of MultiBiMap change.                                    *)
LEMMA SidesStay ==
  ASSUME PairsIInv, UNCHANGED <<forward, back>>, PairsTyped',
         \A f \in Froms, t \in Tos : BothSides!Lookup(tos', f, t) = BothSides!Lookup(froms', t, f)
  PROVE  PairsIInv'
<1>1. forward' = forward /\ back' = back OBVIOUS
<1>2. /\ forward \in [Froms -> Tos \cup {None}] /\ back \in [Tos -> Froms \cup {None}]
      /\ \A k \in Froms, v \in Tos : forward[k] = v <=> back[v] = k
  BY Zenon DEF PairsIInv
<1>3. /\ forward' \in [Froms -> Tos \cup {None}] /\ back' \in [Tos -> Froms \cup {None}]
      /\ \A k \in Froms, v \in Tos : forward'[k] = v <=> back'[v] = k
  BY <1>1, <1>2
<1> QED BY <1>3, Zenon DEF PairsIInv

LEMMA SetFacts ==
  ASSUME NEW X, NEW Y, NEW m \in SidesOf(X, Y), None \notin [Y -> Values \cup {None}], NEW x \in X,
         NEW y \in Y, NEW v \in Values
  PROVE  /\ BothSides!Set(m, x, y, v, Y) \in SidesOf(X, Y)
         /\ \A z \in X, w \in Y : BothSides!Lookup(BothSides!Set(m, x, y, v, Y), z, w)
                = IF z = x /\ w = y THEN v ELSE BothSides!Lookup(m, z, w)
<1> DEFINE b == BothSides!Set(m, x, y, v, Y)
           V == [Y -> Values \cup {None}]
           q == IF m[x] = None THEN [w \in Y |-> IF w = y THEN v ELSE None] ELSE [m[x] EXCEPT ![y] = v]
<1>1. m[x] \in V \cup {None} BY DEF SidesOf
<1>2. b = [m EXCEPT ![x] = q] BY DEF BothSides!Set
<1>3. /\ q \in V
      /\ \A w \in Y : q[w] = IF w = y THEN v ELSE IF m[x] = None THEN None ELSE m[x][w]
  <2>1. CASE m[x] = None BY <2>1
  <2>2. CASE m[x] # None
    <3>1. m[x] \in V BY <1>1, <2>2
    <3>2. q = [m[x] EXCEPT ![y] = v] BY <2>2
    <3> QED BY <3>1, <3>2, <2>2
  <2> QED BY <2>1, <2>2
<1> HIDE DEF q, b, V
<1>4. b \in SidesOf(X, Y) /\ b[x] = q /\ \A z \in X : z # x => b[z] = m[z]
  BY <1>2, <1>3 DEF SidesOf, V
<1>5. q # None BY <1>3 DEF V
<1>6. ASSUME NEW z \in X, NEW w \in Y
      PROVE BothSides!Lookup(b, z, w) = IF z = x /\ w = y THEN v ELSE BothSides!Lookup(m, z, w)
  <2>1. CASE z = x BY <2>1, <1>3, <1>4, <1>5 DEF BothSides!Lookup
  <2>2. CASE z # x BY <2>2, <1>4 DEF BothSides!Lookup
  <2> QED BY <2>1, <2>2
<1> QED BY <1>4, <1>6 DEF b

LEMMA LeftToAgrees ==
  ASSUME PairsIInv, NEW t \in Tos, NEW U \in SUBSET Froms, BothSides!Becomes(LeftTo(t, U))
  PROVE  PairsIInv'
<1>1. tos' = WithoutColumn(Froms, tos, U, t) /\ froms' = WithoutRow(Froms, froms, t, U)
      /\ UNCHANGED <<forward, back>>
  BY DEF BothSides!Becomes, LeftTo
<1>2. tos \in SidesOf(Froms, Tos) /\ froms \in SidesOf(Tos, Froms)
      /\ None \notin [Froms -> Values \cup {None}] /\ None \notin [Tos -> Values \cup {None}]
  BY LibraryNoneAssumption, Zenon DEF PairsIInv, PairsTyped
<1>3. /\ tos' \in SidesOf(Froms, Tos)
      /\ \A x \in Froms, z \in Tos : BothSides!Lookup(tos', x, z)
            = IF x \in U /\ z = t THEN None ELSE BothSides!Lookup(tos, x, z)
  BY <1>1, <1>2, ColumnFacts
<1>4. /\ froms' \in SidesOf(Tos, Froms)
      /\ \A x \in Froms, z \in Tos : BothSides!Lookup(froms', z, x)
            = IF x \in U /\ z = t THEN None ELSE BothSides!Lookup(froms, z, x)
  BY <1>1, <1>2, RowFacts
<1>5. \A x \in Froms, z \in Tos : BothSides!Lookup(tos', x, z) = BothSides!Lookup(froms', z, x)
  <2> TAKE x \in Froms, z \in Tos
  <2>1. BothSides!Lookup(tos', x, z)
          = IF x \in U /\ z = t THEN None ELSE BothSides!Lookup(tos, x, z)
    BY <1>3
  <2>2. BothSides!Lookup(froms', z, x)
          = IF x \in U /\ z = t THEN None ELSE BothSides!Lookup(froms, z, x)
    BY <1>4
  <2>3. BothSides!Lookup(tos, x, z) = BothSides!Lookup(froms, z, x) BY Zenon DEF PairsIInv
  <2> QED BY <2>1, <2>2, <2>3
<1> QED BY <1>1, <1>3, <1>4, <1>5, SidesStay DEF PairsTyped

LEMMA LeftFromAgrees ==
  ASSUME PairsIInv, NEW f \in Froms, NEW U \in SUBSET Tos, BothSides!Becomes(LeftFrom(f, U))
  PROVE  PairsIInv'
<1>1. tos' = WithoutRow(Tos, tos, f, U) /\ froms' = WithoutColumn(Tos, froms, U, f)
      /\ UNCHANGED <<forward, back>>
  BY DEF BothSides!Becomes, LeftFrom
<1>2. tos \in SidesOf(Froms, Tos) /\ froms \in SidesOf(Tos, Froms)
      /\ None \notin [Froms -> Values \cup {None}] /\ None \notin [Tos -> Values \cup {None}]
  BY LibraryNoneAssumption, Zenon DEF PairsIInv, PairsTyped
<1>3. /\ froms' \in SidesOf(Tos, Froms)
      /\ \A x \in Tos, z \in Froms : BothSides!Lookup(froms', x, z)
            = IF x \in U /\ z = f THEN None ELSE BothSides!Lookup(froms, x, z)
  BY <1>1, <1>2, ColumnFacts
<1>4. /\ tos' \in SidesOf(Froms, Tos)
      /\ \A x \in Tos, z \in Froms : BothSides!Lookup(tos', z, x)
            = IF x \in U /\ z = f THEN None ELSE BothSides!Lookup(tos, z, x)
  BY <1>1, <1>2, RowFacts
<1>5. \A x \in Froms, z \in Tos : BothSides!Lookup(tos', x, z) = BothSides!Lookup(froms', z, x)
  <2> TAKE x \in Froms, z \in Tos
  <2>1. BothSides!Lookup(tos', x, z)
          = IF z \in U /\ x = f THEN None ELSE BothSides!Lookup(tos, x, z)
    BY <1>4
  <2>2. BothSides!Lookup(froms', z, x)
          = IF z \in U /\ x = f THEN None ELSE BothSides!Lookup(froms, z, x)
    BY <1>3
  <2>3. BothSides!Lookup(tos, x, z) = BothSides!Lookup(froms, z, x) BY Zenon DEF PairsIInv
  <2> QED BY <2>1, <2>2, <2>3
<1> QED BY <1>1, <1>3, <1>4, <1>5, SidesStay DEF PairsTyped

LEMMA PairsStay == PairsIInv /\ [BothSides!Next]_(BothSides!vars) => PairsIInv'
<1> SUFFICES ASSUME PairsIInv, [BothSides!Next]_(BothSides!vars) PROVE PairsIInv' OBVIOUS
<1>0. PairsTyped /\ forward \in [Froms -> Tos \cup {None}] /\ back \in [Tos -> Froms \cup {None}]
      /\ None \notin Froms /\ None \notin Tos
  BY LibraryNoneAssumption, Zenon DEF PairsIInv
<1>1. ASSUME NEW f \in Froms, NEW t \in Tos, BothSides!Remove(f, t) PROVE PairsIInv'
  <2>1. BothSides!Becomes(BothSides!Removed(BothSides!Pairs, f, t)) BY <1>1 DEF BothSides!Remove
  <2>2. BothSides!Removed(BothSides!Pairs, f, t) = LeftTo(t, {f})
    <3>1. {f} \ {f} = {} /\ f \in {f} /\ {f} \in SUBSET Froms OBVIOUS
    <3>2. BothSides!Removed(LeftTo(t, {f} \ {f}), f, t) = LeftTo(t, {f}) BY <3>1, <1>0, LeftToStep
    <3>3. LeftTo(t, {}) = BothSides!Pairs BY <1>0, LeftAtFirst
    <3> QED BY <3>1, <3>2, <3>3, Zenon
  <2> QED BY <2>1, <2>2, LeftToAgrees
<1>2. ASSUME NEW f \in Froms, NEW t \in Tos, NEW v \in Values, BothSides!Put(f, t, v) PROVE PairsIInv'
  <2>1. tos' = BothSides!Set(tos, f, t, v, Tos) /\ froms' = BothSides!Set(froms, t, f, v, Froms)
        /\ UNCHANGED <<forward, back>>
    BY <1>2 DEF BothSides!Put, BothSides!Becomes
  <2>2. tos \in SidesOf(Froms, Tos) /\ froms \in SidesOf(Tos, Froms)
        /\ None \notin [Froms -> Values \cup {None}] /\ None \notin [Tos -> Values \cup {None}]
    BY LibraryNoneAssumption, <1>0, Zenon DEF PairsTyped
  <2>3. /\ tos' \in SidesOf(Froms, Tos)
        /\ \A z \in Froms, w \in Tos : BothSides!Lookup(tos', z, w)
              = IF z = f /\ w = t THEN v ELSE BothSides!Lookup(tos, z, w)
    BY <2>1, <2>2, SetFacts
  <2>4. /\ froms' \in SidesOf(Tos, Froms)
        /\ \A z \in Tos, w \in Froms : BothSides!Lookup(froms', z, w)
              = IF z = t /\ w = f THEN v ELSE BothSides!Lookup(froms, z, w)
    BY <2>1, <2>2, SetFacts
  <2>5. \A x \in Froms, z \in Tos : BothSides!Lookup(tos', x, z) = BothSides!Lookup(froms', z, x)
    <3> TAKE x \in Froms, z \in Tos
    <3>1. BothSides!Lookup(tos', x, z)
            = IF x = f /\ z = t THEN v ELSE BothSides!Lookup(tos, x, z)
      BY <2>3
    <3>2. BothSides!Lookup(froms', z, x)
            = IF z = t /\ x = f THEN v ELSE BothSides!Lookup(froms, z, x)
      BY <2>4
    <3>3. BothSides!Lookup(tos, x, z) = BothSides!Lookup(froms, z, x) BY Zenon DEF PairsIInv
    <3> QED BY <3>1, <3>2, <3>3
  <2> QED BY <2>1, <2>3, <2>4, <2>5, SidesStay DEF PairsTyped
<1>3. ASSUME NEW t \in Tos, BothSides!RemoveTo(t) PROVE PairsIInv'
  <2> DEFINE U == {f \in Froms : froms[t][f] # None}
  <2>1. BothSides!Becomes(BothSides!FoldSet(LAMBDA f, p : BothSides!Removed(p, f, t),
                                            BothSides!Pairs, U))
    BY <1>3 DEF BothSides!RemoveTo
  <2>2. U \in SUBSET Froms OBVIOUS
  <2> HIDE DEF U
  <2>3. BothSides!FoldSet(LAMBDA f, p : BothSides!Removed(p, f, t), BothSides!Pairs, U) = LeftTo(t, U)
    BY <1>0, <2>2, FoldToFacts
  <2> QED BY <2>1, <2>2, <2>3, LeftToAgrees
<1>4. ASSUME NEW f \in Froms, BothSides!RemoveFrom(f) PROVE PairsIInv'
  <2> DEFINE U == {t \in Tos : tos[f][t] # None}
  <2>1. BothSides!Becomes(BothSides!FoldSet(LAMBDA t, p : BothSides!Removed(p, f, t),
                                            BothSides!Pairs, U))
    BY <1>4 DEF BothSides!RemoveFrom
  <2>2. U \in SUBSET Tos OBVIOUS
  <2> HIDE DEF U
  <2>3. BothSides!FoldSet(LAMBDA t, p : BothSides!Removed(p, f, t), BothSides!Pairs, U)
          = LeftFrom(f, U)
    BY <1>0, <2>2, FoldFromFacts
  <2> QED BY <2>1, <2>2, <2>3, LeftFromAgrees
<1>5. ASSUME NEW k \in Froms, NEW v \in Tos, BothSides!PutPair(k, v) PROVE PairsIInv'
  <2>1. /\ forward[k] = None /\ back[v] = None
        /\ forward' = [forward EXCEPT ![k] = v] /\ back' = [back EXCEPT ![v] = k]
        /\ UNCHANGED <<tos, froms>>
    BY <1>5 DEF BothSides!PutPair
  <2>2. /\ forward' \in [Froms -> Tos \cup {None}] /\ back' \in [Tos -> Froms \cup {None}]
        /\ forward'[k] = v /\ back'[v] = k
        /\ (\A j \in Froms : j # k => forward'[j] = forward[j])
        /\ \A w \in Tos : w # v => back'[w] = back[w]
    BY <2>1, <1>0
  <2>3. \A j \in Froms, w \in Tos : forward[j] = w <=> back[w] = j BY Zenon DEF PairsIInv
  <2>4. ASSUME NEW j \in Froms, NEW w \in Tos PROVE forward'[j] = w <=> back'[w] = j
    BY <1>0, <2>1, <2>2, <2>3
  <2>5. PairsTyped' BY <2>1, <1>0 DEF PairsTyped
  <2>6. \A x \in Froms, z \in Tos : BothSides!Lookup(tos', x, z) = BothSides!Lookup(froms', z, x)
    BY <2>1, Zenon DEF PairsIInv
  <2> QED BY <2>2, <2>4, <2>5, <2>6, Zenon DEF PairsIInv, BothSides!Lookup
<1>6. CASE UNCHANGED BothSides!vars
  BY <1>6, Zenon DEF BothSides!vars, PairsIInv, PairsTyped, BothSides!Lookup
<1> QED BY <1>1, <1>2, <1>3, <1>4, <1>5, <1>6 DEF BothSides!Next

LEMMA PairsAgree == PairsIInv => BothSides!SidesAgree
<1> SUFFICES ASSUME PairsIInv PROVE BothSides!SidesAgree OBVIOUS
<1>1. \A f \in Froms, t \in Tos : BothSides!Lookup(tos, f, t) = BothSides!Lookup(froms, t, f)
  BY Zenon DEF PairsIInv
<1>2. \A f \in Froms, t \in Tos :
        /\ t \in BothSides!GetTos(f) <=> BothSides!Lookup(tos, f, t) # None
        /\ f \in BothSides!GetFroms(t) <=> BothSides!Lookup(froms, t, f) # None
  BY DEF BothSides!GetTos, BothSides!GetFroms, BothSides!Lookup
<1>3. \A f \in Froms, t \in Tos : t \in BothSides!GetTos(f) <=> f \in BothSides!GetFroms(t)
  BY <1>1, <1>2, Zenon
<1>4. BothSides!GetPairs = {pair \in Froms \X Tos : pair[1] \in BothSides!GetFroms(pair[2])}
  <2>1. \A pair \in Froms \X Tos : pair[1] \in Froms /\ pair[2] \in Tos OBVIOUS
  <2>2. \A pair \in Froms \X Tos :
          pair[2] \in BothSides!GetTos(pair[1]) <=> pair[1] \in BothSides!GetFroms(pair[2])
    BY <2>1, <1>3, Zenon
  <2>3. BothSides!GetPairs = {pair \in Froms \X Tos : pair[2] \in BothSides!GetTos(pair[1])}
    BY DEF BothSides!GetPairs
  <2> QED BY <2>2, <2>3
<1>5. \A f \in Froms : BothSides!GetTos(f) # {} => BothSides!HasFrom(f)
  BY DEF BothSides!GetTos, BothSides!HasFrom
<1>6. \A k \in Froms, v \in Tos : forward[k] = v <=> back[v] = k BY Zenon DEF PairsIInv
<1> QED BY <1>1, <1>4, <1>5, <1>6, Zenon DEF BothSides!SidesAgree
--------------------------------------------------------------------------------
(* A step of Library is one of the part it is about, for the others it is  *)
(* none.                                                                   *)
LibraryStep == LibraryOthers /\ LibraryNext

LEMMA OfCache == ASSUME [LibraryStep]_libraryVars PROVE [Next]_vars
<1>1. CASE part = "cache" BY <1>1, Zenon DEF LibraryStep, LibraryNext, libraryVars
<1>2. CASE part # "cache" BY <1>2, Zenon DEF LibraryStep, LibraryOthers, libraryVars
<1> QED BY <1>1, <1>2

LEMMA OfMap == ASSUME [LibraryStep]_libraryVars PROVE [Maps!Next]_(Maps!vars)
<1>0. mapVars = Maps!vars BY DEF mapVars, Maps!vars
<1>1. CASE part = "map" BY <1>1, Zenon DEF LibraryStep, LibraryNext, libraryVars, mapVars, Maps!vars
<1>2. CASE part # "map"
  BY <1>2, Zenon DEF LibraryStep, LibraryOthers, libraryVars, mapVars, Maps!vars
<1> QED BY <1>1, <1>2

LEMMA OfPairs == ASSUME [LibraryStep]_libraryVars PROVE [BothSides!Next]_(BothSides!vars)
<1>1. CASE part = "pairs"
  BY <1>1, Zenon DEF LibraryStep, LibraryNext, libraryVars, pairVars, BothSides!vars
<1>2. CASE part # "pairs"
  BY <1>2, Zenon DEF LibraryStep, LibraryOthers, libraryVars, pairVars, BothSides!vars
<1> QED BY <1>1, <1>2

LEMMA OfQueues == ASSUME [LibraryStep]_libraryVars PROVE [Bounded!Next]_(Bounded!vars)
<1>1. CASE part = "queues"
  BY <1>1, Zenon DEF LibraryStep, LibraryNext, libraryVars, queueVars, Bounded!vars
<1>2. CASE part # "queues"
  BY <1>2, Zenon DEF LibraryStep, LibraryOthers, libraryVars, queueVars, Bounded!vars
<1> QED BY <1>1, <1>2

LEMMA OfAnswers == ASSUME [LibraryStep]_libraryVars PROVE [Answers!Next]_(Answers!vars)
<1>1. CASE part \in {"answers", "local"}
  <2>1. CASE LibraryStep BY <1>1, <2>1 DEF LibraryStep, LibraryNext
  <2>2. CASE UNCHANGED libraryVars
    BY <2>2, Zenon DEF libraryVars, answerVars, localVars, Answers!vars, Answers!lightning, Answers!local
  <2> QED BY <2>1, <2>2
<1>2. CASE part \notin {"answers", "local"}
  <2>1. part # "answers" /\ part # "local" BY <1>2
  <2>2. UNCHANGED answerVars /\ UNCHANGED localVars
    BY <2>1, Zenon DEF LibraryStep, LibraryOthers, libraryVars
  <2> QED BY <2>2, Zenon DEF answerVars, localVars, Answers!vars, Answers!lightning, Answers!local
<1> QED BY <1>1, <1>2

LEMMA OfMerge == ASSUME [LibraryStep]_libraryVars PROVE [Merge!Next]_(Merge!vars)
<1>1. CASE part = "merge"
  BY <1>1, Zenon DEF LibraryStep, LibraryNext, libraryVars, mergeVars, Merge!vars
<1>2. CASE part # "merge"
  BY <1>2, Zenon DEF LibraryStep, LibraryOthers, libraryVars, mergeVars, Merge!vars
<1> QED BY <1>1, <1>2

LEMMA OfLate == ASSUME [LibraryStep]_libraryVars PROVE [Late!Next]_(Late!vars)
<1>1. CASE part = "late"
  <2>1. CASE LibraryStep BY <1>1, <2>1, Zenon DEF LibraryStep, LibraryNext
  <2>2. CASE UNCHANGED libraryVars
    BY <2>2, Zenon DEF libraryVars, lateVars, Late!vars, Late!promised, Late!page, Late!deferred
  <2> QED BY <2>1, <2>2
<1>2. CASE part # "late"
  <2>1. UNCHANGED lateVars BY <1>2, Zenon DEF LibraryStep, LibraryOthers, libraryVars
  <2> QED BY <2>1, Zenon DEF lateVars, Late!vars, Late!promised, Late!page, Late!deferred
<1> QED BY <1>1, <1>2

LEMMA OfNamed == ASSUME [LibraryStep]_libraryVars PROVE [Named!Next]_(Named!enumVars)
<1>1. CASE part = "named"
  BY <1>1, Zenon DEF LibraryStep, LibraryNext, libraryVars, namedVars, Named!enumVars
<1>2. CASE part # "named"
  BY <1>2, Zenon DEF LibraryStep, LibraryOthers, libraryVars, namedVars, Named!enumVars
<1> QED BY <1>1, <1>2

LEMMA OfHeld == ASSUME [LibraryStep]_libraryVars PROVE [Held!Next]_(Held!payloadVars)
<1>1. CASE part = "held"
  BY <1>1, Zenon DEF LibraryStep, LibraryNext, libraryVars, heldVars, Held!payloadVars
<1>2. CASE part # "held"
  BY <1>2, Zenon DEF LibraryStep, LibraryOthers, libraryVars, heldVars, Held!payloadVars
<1> QED BY <1>1, <1>2

LEMMA OfPromised == ASSUME [LibraryStep]_libraryVars PROVE [Promised!Next]_(Promised!promiseVars)
<1>1. CASE part = "promised"
  BY <1>1, Zenon DEF LibraryStep, LibraryNext, libraryVars, promisedVars, Promised!promiseVars,
           Promised!debounceVars
<1>2. CASE part # "promised"
  BY <1>2, Zenon DEF LibraryStep, LibraryOthers, libraryVars, promisedVars, Promised!promiseVars,
           Promised!debounceVars
<1> QED BY <1>1, <1>2

--------------------------------------------------------------------------------
StructuresIInv ==
  /\ IInv /\ MapIInv /\ PairsIInv /\ QueuesIInv /\ AnswersIInv /\ NamedIInv /\ HeldIInv
LateIInv == MergeIInv /\ PromiseIInv /\ PageIInv /\ AllIInv /\ PromisedIInv

LEMMA LibraryBegins == LibraryInit => StructuresIInv /\ LateIInv
<1> SUFFICES ASSUME LibraryInit PROVE StructuresIInv /\ LateIInv OBVIOUS
<1>1. /\ Init /\ Maps!Init /\ BothSides!Init /\ Bounded!Init /\ Answers!Init
      /\ Merge!Init /\ Late!Init /\ Named!Init /\ Held!Init /\ Promised!Init
  BY Zenon DEF LibraryInit
<1>2. StructuresIInv
  BY <1>1, InitIsSound, MapBegins, PairsBegin, QueuesBegin, AnswersBegin, NamedBegins, HeldBegins,
     Zenon DEF StructuresIInv
<1>3. LateIInv
  BY <1>1, MergeBegins, HooksBegin, AllBegins, PromisedBegins, Zenon DEF LateIInv
<1> QED BY <1>2, <1>3

LEMMA LibraryStays ==
  StructuresIInv /\ LateIInv /\ [LibraryStep]_libraryVars => StructuresIInv' /\ LateIInv'
<1> SUFFICES ASSUME StructuresIInv, LateIInv, [LibraryStep]_libraryVars
             PROVE  StructuresIInv' /\ LateIInv'
  OBVIOUS
<1>1. IInv' BY OfCache, NextKeepsList, Zenon DEF StructuresIInv
<1>2. MapIInv' BY OfMap, MapStays, Zenon DEF StructuresIInv, MapStep
<1>3. PairsIInv' BY OfPairs, PairsStay, Zenon DEF StructuresIInv
<1>4. QueuesIInv' BY OfQueues, QueuesStay, Zenon DEF StructuresIInv
<1>5. AnswersIInv' BY OfAnswers, AnswersStay, Zenon DEF StructuresIInv
<1>6. NamedIInv' BY OfNamed, NamedStays, Zenon DEF StructuresIInv
<1>7. HeldIInv' BY OfHeld, HeldStays, Zenon DEF StructuresIInv
<1>8. MergeIInv' BY OfMerge, MergeStays, Zenon DEF LateIInv
<1>9. PromiseIInv' /\ PageIInv' BY OfLate, HooksStay, Zenon DEF LateIInv
<1>10. AllIInv' BY OfLate, AllStays, Zenon DEF LateIInv
<1>11. PromisedIInv' BY OfPromised, PromisedStays, Zenon DEF LateIInv
<1> QED BY <1>1, <1>2, <1>3, <1>4, <1>5, <1>6, <1>7, <1>8, <1>9, <1>10, <1>11, Zenon
        DEF StructuresIInv, LateIInv

LEMMA LibraryIsSound == LibrarySpec => [](StructuresIInv /\ LateIInv)
<1>1. LibraryInit => StructuresIInv /\ LateIInv BY LibraryBegins
<1>2. StructuresIInv /\ LateIInv /\ [LibraryStep]_libraryVars => (StructuresIInv /\ LateIInv)'
  BY LibraryStays
<1> QED BY <1>1, <1>2, PTL DEF LibrarySpec, LibraryStep

(* In every behaviour, each part's two or more structures stay in step:    *)
(* the list, the Map and the size of Cache; the array and the object of    *)
(* LinkedMap; both sides of MultiBiMap and BiMap; queues and stacks in     *)
(* their bounds and in order; the results LightningCacheService holds and  *)
(* queues; the names, codes and ordinals of Codeable; and the zones that   *)
(* are mounted and known to DragAndDropStore.                              *)
THEOREM StructuresStaySound == LibrarySpec => []StructuresSound
<1>1. StructuresIInv => StructuresSound
  <2> SUFFICES ASSUME StructuresIInv PROVE StructuresSound OBVIOUS
  <2>1. TypeOK /\ ListIsSound BY IInvIsSound, Zenon DEF StructuresIInv
  <2>2. Maps!ListIsMap /\ BothSides!SidesAgree /\ Bounded!InOrderAndBounded /\ Answers!CacheIsBounded
        /\ Named!EnumsAgree /\ Held!MountedZonesAreTold
    BY MapIsRight, PairsAgree, QueuesAreRight, AnswersAreBounded, NamedIsRight, HeldIsRight, Zenon
       DEF StructuresIInv
  <2> QED BY <2>1, <2>2, Zenon DEF StructuresSound
<1> QED BY <1>1, LibraryIsSound, PTL

(* In every behaviour, what comes late, twice or out of order does not     *)
(* count, or counts once: the events of merged Observables, what becomes   *)
(* of an effect's promise (usePromise), what tells that a page is not seen *)
(* (useBackgrounded), the settlements whenAll waits for, and the nulls,    *)
(* filters and rejections of a chain (OptionPromise).                      *)
THEOREM LateResultsStayRight == LibrarySpec => []LateResultsAreRight
<1>1. LateIInv => LateResultsAreRight
  <2> SUFFICES ASSUME LateIInv PROVE LateResultsAreRight OBVIOUS
  <2>1. Merge!MergeEndsOnce /\ Late!StateIsOfLastEffect /\ Late!BackgroundedWhenBothAgree
        /\ Late!WhenAllSettlesLast /\ Promised!ChainsEndOnce
    BY MergeIsRight, HooksAreRight, AllIsRight, PromisedIsRight, Zenon DEF LateIInv
  <2> QED BY <2>1, Zenon DEF LateResultsAreRight
<1> QED BY <1>1, LibraryIsSound, PTL

(* No step of any behaviour changes what it is not about: two keys of a    *)
(* LinkedMap that stay keep their order, a change of the prefix or a       *)
(* clearing spares the items stored under others (LocalStorageUtil), and   *)
(* what was given up is never handed on (CancelablePromise,                *)
(* useDebouncedCallback).                                                  *)
THEOREM OthersStayKept == LibrarySpec => OthersKept
<1> DEFINE MapKept ==
      \A j, k \in Keys :
        {j, k} \subseteq Maps!ToSet(Maps!KeysOf(list)) \cap Maps!ToSet(Maps!KeysOf(list'))
          => (Maps!Precedes(list, j, k) <=> Maps!Precedes(list', j, k))
           Spared == \A s \in storage : s[1] # keyPrefix => s \in storage'
<1>1. StructuresIInv /\ [LibraryStep]_libraryVars => [MapKept]_(Maps!vars)
  <2> SUFFICES ASSUME StructuresIInv, [LibraryStep]_libraryVars PROVE MapKept OBVIOUS
  <2>1. MapIInv /\ MapStep BY OfMap, MapStays, Zenon DEF StructuresIInv
  <2> QED BY <2>1, MapKeepsOrder, Zenon
<1>2. [LibraryStep]_libraryVars => [Spared]_(Answers!local)
  <2> SUFFICES ASSUME [LibraryStep]_libraryVars PROVE Spared OBVIOUS
  <2> QED BY OfAnswers, AnswersKeepPrefixes, Zenon
<1>3. LateIInv /\ [LibraryStep]_libraryVars => [PromisedGivenUp]_(Promised!promiseVars)
  <2> SUFFICES ASSUME LateIInv, [LibraryStep]_libraryVars PROVE PromisedGivenUp OBVIOUS
  <2> QED BY OfPromised, PromisedGivesUp, Zenon DEF LateIInv
<1>4. LibrarySpec => [][LibraryStep]_libraryVars BY PTL DEF LibrarySpec, LibraryStep
<1>5. LibrarySpec => Maps!OrderKept BY <1>1, <1>4, LibraryIsSound, PTL DEF Maps!OrderKept
<1>6. LibrarySpec => Answers!PrefixesApart BY <1>2, <1>4, PTL DEF Answers!PrefixesApart
<1>7. LibrarySpec => Promised!GivenUpStaysGivenUp
  BY <1>3, <1>4, LibraryIsSound, PTL DEF Promised!GivenUpStaysGivenUp, PromisedGivenUp
<1> QED BY <1>5, <1>6, <1>7, PTL DEF OthersKept
================================================================================
