----------------------------- MODULE Recursions -----------------------------
(***************************************************************************)
(* Induction without operators for parameters: what the proofs about ids,  *)
(* positions and functions defined by recursion rest on.                   *)
(***************************************************************************)
EXTENDS Integers, Sequences, WellFoundedInduction, TLAPS

\* A set of numbers has a least member.
LEMMA HasLeast ==
  ASSUME NEW S \in SUBSET Nat, S # {}
  PROVE  \E l \in S : \A i \in S : l <= i
<1> DEFINE less == OpToRel(<, Nat)
<1>1. IsWellFoundedOn(less, Nat)
  BY NatLessThanWellFounded
<1> HIDE DEF less
<1>2. PICK l \in S : \A i \in S : <<i, l>> \notin less
  BY <1>1, WFMin, Zenon
<1>3. \A i \in S : ~(i < l)
  BY <1>2, Zenon DEF OpToRel, less
<1> QED BY <1>3

\* A set of numbers that no member exceeds some bound of has a greatest member.
LEMMA HasGreatest ==
  ASSUME NEW n \in Nat, NEW S \in SUBSET (0..n), S # {}
  PROVE  \E g \in S : \A i \in S : i <= g
<1> DEFINE T == {n - i : i \in S}
<1>1. T \subseteq Nat /\ T # {}
  <2>1. \A i \in S : n - i \in Nat
    OBVIOUS
  <2>2. PICK i \in S : TRUE
    OBVIOUS
  <2>3. n - i \in T
    OBVIOUS
  <2>4. T \subseteq Nat
    BY <2>1
  <2> QED BY <2>3, <2>4
<1> HIDE DEF T
<1>2. PICK t \in T : \A y \in T : t <= y
  BY <1>1, HasLeast
<1>3. PICK g \in S : t = n - g
  BY DEF T
<1>4. \A i \in S : i <= g
  <2> SUFFICES ASSUME NEW i \in S
               PROVE  i <= g
    OBVIOUS
  <2>1. n - i \in T
    BY DEF T
  <2> QED BY <1>2, <1>3, <2>1
<1> QED BY <1>4

\* Induction over the numbers, for membership of a set.
LEMMA Induction ==
  ASSUME NEW S, 0 \in S, \A n \in Nat : n \in S => n + 1 \in S
  PROVE  Nat \subseteq S
<1> SUFFICES ASSUME Nat \ S # {}
             PROVE  FALSE
  OBVIOUS
<1>1. PICK l \in Nat \ S : \A i \in Nat \ S : l <= i
  <2> DEFINE T == Nat \ S
  <2>1. T \in SUBSET Nat /\ T # {}
    OBVIOUS
  <2> HIDE DEF T
  <2>2. \E l \in T : \A i \in T : l <= i
    BY <2>1, HasLeast
  <2> QED BY <2>2 DEF T
<1>2. l # 0 /\ l - 1 \in Nat
  OBVIOUS
<1>3. l - 1 \in S
  BY <1>1, <1>2
<1> QED BY <1>2, <1>3

-----------------------------------------------------------------------------
(* Functions defined by recursion on a number, whose step is itself a function. *)

Steps(V) == [(Nat \ {0}) \X V -> V]

\* f is what the recursion defines.
Recurs(f, V, first, step) ==
  /\ f \in [Nat -> V]
  /\ \A n \in Nat : f[n] = IF n = 0 THEN first ELSE step[<<n, f[n - 1]>>]

\* g is what the recursion gives up to n.
UpTo(g, n, V, first, step) ==
  /\ g \in [0..n -> V]
  /\ g[0] = first
  /\ \A i \in 1..n : g[i] = step[<<i, g[i - 1]>>]

LEMMA UpToExists ==
  ASSUME NEW V, NEW first \in V, NEW step \in Steps(V)
  PROVE  \A n \in Nat : \E g : UpTo(g, n, V, first, step)
<1> DEFINE S == {n \in Nat : \E g : UpTo(g, n, V, first, step)}
<1>1. 0 \in S
  <2> DEFINE g == [i \in 0..0 |-> first]
  <2>1. g \in [0..0 -> V] /\ g[0] = first /\ 1..0 = {}
    OBVIOUS
  <2>2. UpTo(g, 0, V, first, step)
    BY <2>1 DEF UpTo
  <2> QED BY <2>2
<1>2. ASSUME NEW n \in Nat, n \in S
      PROVE  n + 1 \in S
  <2>1. PICK g : UpTo(g, n, V, first, step)
    BY <1>2
  <2> DEFINE next == step[<<n + 1, g[n]>>]
             h == [i \in 0..n + 1 |-> IF i = n + 1 THEN next ELSE g[i]]
  <2>2. g[n] \in V /\ <<n + 1, g[n]>> \in (Nat \ {0}) \X V
    BY <2>1 DEF UpTo
  <2>3. next \in V
    BY <2>2 DEF Steps
  <2> HIDE DEF next
  <2>4. \A i \in 0..n : h[i] = g[i]
    OBVIOUS
  <2>5. h \in [0..n + 1 -> V]
    BY <2>1, <2>3 DEF UpTo
  <2>6. h[0] = first
    BY <2>1, <2>4 DEF UpTo
  <2>7. h[n + 1] = step[<<n + 1, h[n]>>]
    <3>1. h[n + 1] = next
      OBVIOUS
    <3>2. h[n] = g[n]
      BY <2>4
    <3> HIDE DEF h
    <3> QED BY <3>1, <3>2 DEF next
  <2>8. \A i \in 1..n : h[i] = step[<<i, h[i - 1]>>]
    BY <2>1, <2>4 DEF UpTo
  <2> HIDE DEF h
  <2>9. \A i \in 1..n + 1 : h[i] = step[<<i, h[i - 1]>>]
    <3> SUFFICES ASSUME NEW i \in 1..n + 1
                 PROVE  h[i] = step[<<i, h[i - 1]>>]
      OBVIOUS
    <3>1. CASE i = n + 1
      <4>1. i - 1 = n
        BY <3>1
      <4> QED BY <2>7, <3>1, <4>1
    <3>2. CASE i # n + 1
      BY <2>8, <3>2
    <3> QED BY <3>1, <3>2
  <2>10. UpTo(h, n + 1, V, first, step)
    BY <2>5, <2>6, <2>9 DEF UpTo
  <2> QED BY <2>10
<1> HIDE DEF S
<1>3. Nat \subseteq S
  BY <1>1, <1>2, Induction
<1> QED BY <1>3 DEF S

LEMMA UpToAgree ==
  ASSUME NEW V, NEW first, NEW step, NEW n \in Nat, NEW g, NEW h,
         UpTo(g, n, V, first, step), UpTo(h, n + 1, V, first, step)
  PROVE  \A i \in 0..n : g[i] = h[i]
<1> DEFINE S == {i \in Nat : i <= n => g[i] = h[i]}
<1>1. 0 \in S
  BY DEF UpTo
<1>2. ASSUME NEW i \in Nat, i \in S
      PROVE  i + 1 \in S
  <2> SUFFICES ASSUME i + 1 <= n
               PROVE  g[i + 1] = h[i + 1]
    OBVIOUS
  <2>1. g[i] = h[i]
    BY <1>2
  <2>2. i + 1 \in 1..n /\ i + 1 \in 1..n + 1 /\ (i + 1) - 1 = i
    OBVIOUS
  <2>3. g[i + 1] = step[<<i + 1, g[i]>>]
    BY <2>2 DEF UpTo
  <2>4. h[i + 1] = step[<<i + 1, h[i]>>]
    BY <2>2 DEF UpTo
  <2> QED BY <2>1, <2>3, <2>4
<1> HIDE DEF S
<1>3. Nat \subseteq S
  BY <1>1, <1>2, Induction
<1> QED BY <1>3 DEF S

\* There is a function that the recursion defines.
LEMMA Recursion ==
  ASSUME NEW V, NEW first \in V, NEW step \in Steps(V)
  PROVE  \E f : Recurs(f, V, first, step)
<1> DEFINE G(n) == CHOOSE g : UpTo(g, n, V, first, step)
           f == [n \in Nat |-> G(n)[n]]
<1>1. \A n \in Nat : UpTo(G(n), n, V, first, step)
  BY UpToExists
<1> HIDE DEF G
<1>2. f \in [Nat -> V]
  BY <1>1 DEF UpTo
<1>3. ASSUME NEW n \in Nat
      PROVE  f[n] = IF n = 0 THEN first ELSE step[<<n, f[n - 1]>>]
  <2>1. CASE n = 0
    BY <1>1, <2>1 DEF UpTo
  <2>2. CASE n # 0
    <3> DEFINE m == n - 1
    <3>1. m \in Nat /\ n = m + 1 /\ n \in 1..n
      BY <2>2
    <3> HIDE DEF m
    <3>2. UpTo(G(m), m, V, first, step) /\ UpTo(G(m + 1), m + 1, V, first, step)
      BY <1>1, <3>1
    <3>3. G(m)[m] = G(m + 1)[m]
      BY <3>1, <3>2, UpToAgree
    <3>4. G(n)[n] = step[<<n, G(n)[m]>>]
      BY <1>1, <3>1 DEF UpTo, m
    <3>5. f[n] = step[<<n, f[m]>>]
      BY <3>1, <3>3, <3>4
    <3> QED BY <2>2, <3>5 DEF m
  <2> QED BY <2>1, <2>2
<1> QED BY <1>2, <1>3 DEF Recurs

-----------------------------------------------------------------------------
(* Sequences that are joined one after another. *)

Items(V) == [Nat \ {0} -> Seq(V)]

\* c[n] is the first n items, one after another.
Joins(c, items) == c = [m \in Nat |-> IF m = 0 THEN <<>> ELSE c[m - 1] \o items[m]]

LEMMA JoinExists ==
  ASSUME NEW V, NEW items \in Items(V)
  PROVE  \E c : Joins(c, items)
<1> DEFINE step == [p \in (Nat \ {0}) \X Seq(V) |-> p[2] \o items[p[1]]]
<1>1. step \in [(Nat \ {0}) \X Seq(V) -> Seq(V)]
  BY DEF Items
<1>2. \A m \in Nat \ {0}, s \in Seq(V) : step[<<m, s>>] = s \o items[m]
  OBVIOUS
<1>3. <<>> \in Seq(V)
  OBVIOUS
<1> DEFINE W == Seq(V)
<1> HIDE DEF step, W
<1>4. PICK c : Recurs(c, W, <<>>, step)
  <2>1. <<>> \in W /\ step \in Steps(W)
    BY <1>1, <1>3 DEF W, Steps
  <2> QED BY <2>1, Recursion
<1>5. \A m \in Nat : m # 0 => m - 1 \in Nat /\ c[m - 1] \in Seq(V)
  BY <1>4 DEF W, Recurs
<1>6. \A m \in Nat : c[m] = IF m = 0 THEN <<>> ELSE c[m - 1] \o items[m]
  BY <1>2, <1>4, <1>5 DEF Recurs
<1>7. Joins(c, items)
  BY <1>4, <1>6 DEF Recurs, Joins
<1> QED BY <1>7

\* What is in the joined sequence is what is in the sequences.
Holds(s, items, n, V) ==
  /\ s \in Seq(V)
  /\ \A v : (\E i \in 1..Len(s) : s[i] = v) <=> (\E m \in 1..n : \E i \in 1..Len(items[m]) : items[m][i] = v)

LEMMA JoinHas ==
  ASSUME NEW V, NEW items \in Items(V), NEW c, Joins(c, items), NEW n \in Nat
  PROVE  Holds(c[n], items, n, V)
<1> DEFINE Had(k, v) == \E m \in 1..k : \E i \in 1..Len(items[m]) : items[m][i] = v
           S == {k \in Nat : /\ c[k] \in Seq(V)
                             /\ \A v : (\E i \in 1..Len(c[k]) : c[k][i] = v) <=> Had(k, v)}
<1>1. 0 \in S
  <2>1. c[0] = <<>>
    BY DEF Joins
  <2>2. <<>> \in Seq(V) /\ \A v : ~\E i \in 1..Len(<<>>) : <<>>[i] = v
    OBVIOUS
  <2>3. \A v : ~Had(0, v)
    OBVIOUS
  <2> QED BY <2>1, <2>2, <2>3
<1>2. ASSUME NEW k \in Nat, k \in S
      PROVE  k + 1 \in S
  <2>1. c[k + 1] = c[k] \o items[k + 1]
    <3>1. k + 1 \in Nat /\ k + 1 # 0 /\ (k + 1) - 1 = k
      OBVIOUS
    <3>2. c[k + 1] = IF k + 1 = 0 THEN <<>> ELSE c[(k + 1) - 1] \o items[k + 1]
      BY <3>1 DEF Joins
    <3> QED BY <3>1, <3>2
  <2>2. c[k] \in Seq(V) /\ items[k + 1] \in Seq(V)
    BY <1>2 DEF Items
  <2>3. \A v : Had(k + 1, v) <=> Had(k, v) \/ \E i \in 1..Len(items[k + 1]) : items[k + 1][i] = v
    <3>1. \A m \in 1..k + 1 : m \in 1..k \/ m = k + 1
      OBVIOUS
    <3>2. k + 1 \in 1..k + 1 /\ \A m \in 1..k : m \in 1..k + 1
      OBVIOUS
    <3> QED BY <3>1, <3>2
  <2> DEFINE s == c[k]
             t == items[k + 1]
  <2> HIDE DEF Had, s, t
  <2>4. \A v : (\E i \in 1..Len(s \o t) : (s \o t)[i] = v)
              <=> (\E i \in 1..Len(s) : s[i] = v) \/ (\E i \in 1..Len(t) : t[i] = v)
    <3>1. s \in Seq(V) /\ t \in Seq(V)
      BY <2>2 DEF s, t
    <3>2. /\ Len(s \o t) = Len(s) + Len(t)
          /\ \A i \in 1..Len(s) : (s \o t)[i] = s[i]
          /\ \A i \in 1..Len(t) : (s \o t)[Len(s) + i] = t[i]
          /\ \A i \in 1..Len(s) + Len(t) : i > Len(s) => (s \o t)[i] = t[i - Len(s)]
      BY <3>1
    <3> TAKE v
    <3>3. ASSUME NEW i \in 1..Len(s \o t), (s \o t)[i] = v
          PROVE  (\E j \in 1..Len(s) : s[j] = v) \/ (\E j \in 1..Len(t) : t[j] = v)
      <4>1. CASE i <= Len(s)
        BY <3>1, <3>2, <3>3, <4>1
      <4>2. CASE i > Len(s)
        <5>1. i - Len(s) \in 1..Len(t) /\ t[i - Len(s)] = v
          BY <3>1, <3>2, <3>3, <4>2
        <5> QED BY <5>1
      <4> QED BY <3>1, <4>1, <4>2
    <3>4. ASSUME NEW i \in 1..Len(s), s[i] = v
          PROVE  \E j \in 1..Len(s \o t) : (s \o t)[j] = v
      BY <3>1, <3>2, <3>4
    <3>5. ASSUME NEW i \in 1..Len(t), t[i] = v
          PROVE  \E j \in 1..Len(s \o t) : (s \o t)[j] = v
      <4>1. Len(s) + i \in 1..Len(s \o t) /\ (s \o t)[Len(s) + i] = v
        BY <3>1, <3>2, <3>5
      <4> QED BY <4>1
    <3> QED BY <3>3, <3>4, <3>5
  <2>5. c[k + 1] \in Seq(V)
    <3>1. \A a, b \in Seq(V) : a \o b \in Seq(V)
      OBVIOUS
    <3> QED BY <2>1, <2>2, <3>1
  <2>6. \A v : (\E i \in 1..Len(c[k]) : c[k][i] = v) <=> Had(k, v)
    BY <1>2
  <2>7. \A v : (\E i \in 1..Len(c[k + 1]) : c[k + 1][i] = v) <=> Had(k + 1, v)
    BY <2>1, <2>3, <2>4, <2>6 DEF s, t
  <2>8. k + 1 \in Nat
    OBVIOUS
  <2> QED BY <2>5, <2>7, <2>8, Zenon DEF S
<1> HIDE DEF S
<1>3. Nat \subseteq S
  BY <1>1, <1>2, Induction
<1> QED BY <1>3 DEF S, Holds

\* If no sequence has more than one item, the items come from places that increase.
Increases(src, s, items, n) ==
  /\ src \in [1..Len(s) -> 1..n]
  /\ \A i \in 1..Len(s) : Len(items[src[i]]) = 1 /\ items[src[i]][1] = s[i]
  /\ \A i, j \in 1..Len(s) : i < j => src[i] < src[j]

LEMMA JoinIncreases ==
  ASSUME NEW V, NEW items \in Items(V), \A m \in Nat \ {0} : Len(items[m]) <= 1,
         NEW c, Joins(c, items), NEW n \in Nat
  PROVE  \E src : Increases(src, c[n], items, n)
<1> DEFINE S == {k \in Nat : \E src : Increases(src, c[k], items, k)}
<1>1. 0 \in S
  <2>1. c[0] = <<>>
    BY DEF Joins
  <2> DEFINE src == [i \in 1..0 |-> 0]
  <2>2. Len(<<>>) = 0 /\ 1..0 = {} /\ src \in [1..0 -> 1..0]
    OBVIOUS
  <2>3. Increases(src, <<>>, items, 0)
    BY <2>2 DEF Increases
  <2> QED BY <2>1, <2>3
<1>2. ASSUME NEW k \in Nat, k \in S
      PROVE  k + 1 \in S
  <2>1. PICK src : Increases(src, c[k], items, k)
    BY <1>2
  <2>2. c[k + 1] = c[k] \o items[k + 1]
    <3>1. k + 1 \in Nat /\ k + 1 # 0 /\ (k + 1) - 1 = k
      OBVIOUS
    <3>2. c[k + 1] = IF k + 1 = 0 THEN <<>> ELSE c[(k + 1) - 1] \o items[k + 1]
      BY <3>1 DEF Joins
    <3> QED BY <3>1, <3>2
  <2>3. c[k] \in Seq(V) /\ items[k + 1] \in Seq(V) /\ Len(items[k + 1]) <= 1
    BY JoinHas DEF Holds, Items
  <2> DEFINE s == c[k]
             t == items[k + 1]
             u == s \o t
             to == [i \in 1..Len(u) |-> IF i <= Len(s) THEN src[i] ELSE k + 1]
  <2>4. s \in Seq(V) /\ t \in Seq(V) /\ Len(t) <= 1 /\ Len(s) \in Nat /\ Len(t) \in Nat
    BY <2>3
  <2>5. /\ src \in [1..Len(s) -> 1..k]
        /\ \A i \in 1..Len(s) : Len(items[src[i]]) = 1 /\ items[src[i]][1] = s[i]
        /\ \A i, j \in 1..Len(s) : i < j => src[i] < src[j]
    BY <2>1 DEF Increases
  <2> HIDE DEF s, t
  <2>6. /\ Len(u) = Len(s) + Len(t)
        /\ \A i \in 1..Len(s) : u[i] = s[i]
        /\ \A i \in Len(s) + 1..Len(s) + Len(t) : u[i] = t[i - Len(s)]
    <3> QED BY <2>4
  <2> HIDE DEF u
  <2>7. ASSUME NEW i \in 1..Len(u), ~(i <= Len(s))
        PROVE  i = Len(s) + 1 /\ Len(t) = 1 /\ u[i] = t[1] /\ to[i] = k + 1
    <3> HIDE DEF to
    <3>1. i = Len(s) + 1 /\ Len(t) = 1 /\ i - Len(s) = 1
      <4> DEFINE m == Len(u)
                 a == Len(s)
                 b == Len(t)
      <4>1. a \in Nat /\ b \in Nat /\ b <= 1 /\ m = a + b /\ i \in 1..m /\ ~(i <= a)
        BY <2>4, <2>6, <2>7
      <4> HIDE DEF m, a, b
      <4>2. i = a + 1 /\ b = 1 /\ i - a = 1
        BY <4>1
      <4> QED BY <4>2 DEF a, b
    <3>2. to[i] = k + 1
      BY <2>7 DEF to
    <3> QED BY <2>4, <2>6, <3>1, <3>2
  <2>8. ASSUME NEW i \in 1..Len(u), i <= Len(s)
        PROVE  i \in 1..Len(s) /\ u[i] = s[i] /\ to[i] = src[i] /\ src[i] \in 1..k
    <3>1. i \in 1..Len(s)
      BY <2>4, <2>8
    <3> QED BY <2>5, <2>6, <2>8, <3>1
  <2>9. to \in [1..Len(u) -> 1..k + 1]
    <3>1. \A i \in 1..Len(u) : to[i] \in 1..k + 1
      <4> HIDE DEF to
      <4> QED BY <2>7, <2>8
    <3> QED BY <3>1
  <2>10. \A i \in 1..Len(u) : Len(items[to[i]]) = 1 /\ items[to[i]][1] = u[i]
    <3> TAKE i \in 1..Len(u)
    <3>1. CASE i <= Len(s)
      <4> HIDE DEF to
      <4> QED BY <2>5, <2>8, <3>1
    <3>2. CASE ~(i <= Len(s))
      <4>1. to[i] = k + 1 /\ Len(t) = 1 /\ u[i] = t[1]
        BY <2>7, <3>2
      <4> HIDE DEF to
      <4> QED BY <4>1 DEF t
    <3> QED BY <3>1, <3>2
  <2>11. \A i, j \in 1..Len(u) : i < j => to[i] < to[j]
    <3> SUFFICES ASSUME NEW i \in 1..Len(u), NEW j \in 1..Len(u), i < j
                 PROVE  to[i] < to[j]
      OBVIOUS
    <3> HIDE DEF to
    <3>1. CASE j <= Len(s)
      <4>1. i <= Len(s)
        BY <2>4, <3>1
      <4> QED BY <2>5, <2>8, <3>1, <4>1
    <3>2. CASE ~(j <= Len(s))
      <4>1. j = Len(s) + 1 /\ to[j] = k + 1
        BY <2>7, <3>2
      <4>2. i <= Len(s)
        BY <2>4, <4>1
      <4>3. to[i] \in 1..k
        BY <2>8, <4>2
      <4> QED BY <4>1, <4>3
    <3> QED BY <3>1, <3>2
  <2> HIDE DEF to
  <2>12. Increases(to, u, items, k + 1)
    <3> QED BY <2>9, <2>10, <2>11 DEF Increases
  <2>13. c[k + 1] = u
    BY <2>2 DEF s, t, u
  <2>14. Increases(to, c[k + 1], items, k + 1)
    BY <2>12, <2>13
  <2>15. k + 1 \in Nat
    OBVIOUS
  <2> QED BY <2>14, <2>15
<1> HIDE DEF S
<1>3. Nat \subseteq S
  BY <1>1, <1>2, Induction
<1> QED BY <1>3 DEF S

\* A sequence that continues another.
Grows(before, after) ==
  /\ Len(before) \in Nat /\ Len(after) \in Nat /\ Len(before) <= Len(after)
  /\ \A j \in 1..Len(before) : after[j] = before[j]

\* What has been joined stays the beginning of what is joined later.
LEMMA JoinGrows ==
  ASSUME NEW V, NEW items \in Items(V), NEW c, Joins(c, items), NEW m \in Nat, NEW n \in Nat, m <= n
  PROVE  Grows(c[m], c[n])
<1> DEFINE S == {k \in Nat : m <= k => Grows(c[m], c[k])}
<1>1. \A k \in Nat : c[k] \in Seq(V)
  BY JoinHas DEF Holds
<1>2. 0 \in S
  <2>1. m <= 0 => m = 0
    OBVIOUS
  <2>2. Len(c[0]) \in Nat
    BY <1>1
  <2> QED BY <2>1, <2>2 DEF Grows
<1>3. ASSUME NEW k \in Nat, k \in S
      PROVE  k + 1 \in S
  <2> SUFFICES ASSUME m <= k + 1
               PROVE  Grows(c[m], c[k + 1])
    OBVIOUS
  <2>1. CASE m = k + 1
    <3>1. Len(c[m]) \in Nat
      BY <1>1
    <3> QED BY <2>1, <3>1 DEF Grows
  <2>2. CASE m # k + 1
    <3>1. Grows(c[m], c[k])
      BY <1>3, <2>2
    <3>2. c[k + 1] = c[k] \o items[k + 1]
      <4>1. k + 1 \in Nat /\ k + 1 # 0 /\ (k + 1) - 1 = k
        OBVIOUS
      <4>2. c[k + 1] = IF k + 1 = 0 THEN <<>> ELSE c[(k + 1) - 1] \o items[k + 1]
        BY <4>1 DEF Joins
      <4> QED BY <4>1, <4>2
    <3>3. c[k] \in Seq(V) /\ items[k + 1] \in Seq(V)
      BY <1>1 DEF Items
    <3> DEFINE a == c[k]
               b == items[k + 1]
               both == c[k + 1]
    <3>4. a \in Seq(V) /\ b \in Seq(V) /\ both = a \o b
      BY <3>2, <3>3
    <3> HIDE DEF a, b, both
    <3>5. Len(a) \in Nat /\ Len(both) \in Nat /\ Len(a) <= Len(both) /\ \A j \in 1..Len(a) : both[j] = a[j]
      BY <3>4
    <3> QED BY <3>1, <3>5 DEF Grows, a, both
  <2> QED BY <2>1, <2>2
<1> HIDE DEF S
<1>4. Nat \subseteq S
  BY <1>2, <1>3, Induction
<1> QED BY <1>4 DEF S
=============================================================================
