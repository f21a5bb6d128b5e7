-------------------------- MODULE PeriodFoldProofs --------------------------
(***************************************************************************)
(* What the operators of PeriodFold return, for any bars: which elements   *)
(* At, dedup_keep_last, the periods and the bars of a period list, what    *)
(* reducing one more bar does, and that appending to all bars amounts to   *)
(* appending to those of the last period alone.                            *)
(*                                                                         *)
(* A sequence in strict order is told by its elements (RisingUnique,       *)
(* ClimbingUnique), so that two ways of listing bars are compared as sets. *)
(***************************************************************************)
EXTENDS PeriodFold, WellFoundedInduction, TLAPS

-----------------------------------------------------------------------------
(* Sequences picked from a sequence.                                       *)
LEMMA LeastOf ==
  ASSUME NEW T, T \subseteq Nat, T # {}
  PROVE  \E x \in T : \A y \in T : x <= y
<1> DEFINE R == OpToRel(<, Nat)
<1>1. IsWellFoundedOn(R, Nat)
  BY NatLessThanWellFounded
<1>2. \A x, y \in Nat : y < x => <<y, x>> \in R
  BY DEF OpToRel
<1> HIDE DEF R
<1>3. PICK x \in T : \A y \in T : ~(<<y, x>> \in R)
  BY <1>1, WFMin
<1>4. ASSUME NEW y \in T
      PROVE  x <= y
  <2>1. ~(y < x)
    BY <1>2, <1>3
  <2>2. x \in Nat /\ y \in Nat
    OBVIOUS
  <2> QED
    BY <2>1, <2>2
<1> QED
  BY <1>4

(* A set that holds 0 and goes on from each number to the next holds all.  *)
LEMMA Inductive ==
  ASSUME NEW n \in Nat, NEW T, 0 \in T, \A k \in 0 .. n - 1 : k \in T => k + 1 \in T
  PROVE  \A k \in 0 .. n : k \in T
<1> DEFINE F == {k \in 0 .. n : k \notin T}
<1>1. SUFFICES ASSUME F # {}
               PROVE  FALSE
  OBVIOUS
<1>2. F \subseteq Nat /\ \A k \in 0 .. n : k \in F <=> k \notin T
  OBVIOUS
<1>3. \A k \in F : k \in 1 .. n
  OBVIOUS
<1> HIDE DEF F
<1>4. PICK x \in F : \A y \in F : x <= y
  BY <1>1, <1>2, LeastOf
<1>5. x - 1 \in 0 .. n - 1 /\ x - 1 \notin F
  BY <1>3, <1>4
<1> QED
  BY <1>2, <1>3, <1>5

-----------------------------------------------------------------------------
(* Ordered sequences.                                                      *)

Elems(s) == {s[i] : i \in 1 .. Len(s)}

(* u lists the first n elements of s that are at positions in rows, and    *)
(* e tells where they are.                                                 *)
PicksUpto(u, s, rows, e, n) ==
  /\ \A k \in 1 .. Len(u) : e[k] \in rows /\ e[k] \in 1 .. n /\ u[k] = s[e[k]]
  /\ \A k, l \in 1 .. Len(u) : k < l => e[k] < e[l]
  /\ \A i \in 1 .. n : i \in rows => \E k \in 1 .. Len(u) : e[k] = i

Picks(u, s, rows, e) == PicksUpto(u, s, rows, e, Len(s))

Keeping(K, s, rows) ==
  K = [i \in 0 .. Len(s) |->
         IF i = 0 THEN <<>>
         ELSE IF i \in rows THEN Append(K[i - 1], s[i]) ELSE K[i - 1]]

(* A recursion on the positions of a sequence defines a function.          *)
LEMMA KeepingExists ==
  ASSUME NEW s, Len(s) \in Nat, NEW rows
  PROVE  \E K : Keeping(K, s, rows)
<1> DEFINE n == Len(s)
           Next(k, i) == IF i \in rows THEN Append(k, s[i]) ELSE k
           Upto(K, m) == K = [i \in 0 .. m |-> IF i = 0 THEN <<>> ELSE Next(K[i - 1], i)]
           T == {m \in Nat : \E K : Upto(K, m)}
<1>1. 0 \in T
  <2> DEFINE K == [i \in 0 .. 0 |-> <<>>]
  <2>1. K = [i \in 0 .. 0 |-> IF i = 0 THEN <<>> ELSE Next(K[i - 1], i)]
    OBVIOUS
  <2> QED
    BY <2>1
<1>2. ASSUME NEW m \in 0 .. n - 1, m \in T
      PROVE  m + 1 \in T
  <2> HIDE DEF Next
  <2>1. PICK K : Upto(K, m)
    BY <1>2
  <2> DEFINE V == [i \in 0 .. m + 1 |-> IF i = m + 1 THEN Next(K[m], m + 1) ELSE K[i]]
  <2>2. V = [i \in 0 .. m + 1 |-> V[i]]
    OBVIOUS
  <2>3. ASSUME NEW i \in 0 .. m + 1
        PROVE  V[i] = IF i = 0 THEN <<>> ELSE Next(V[i - 1], i)
    <3>1. CASE i = m + 1
      <4>1. V[i] = Next(K[m], m + 1) /\ i # 0 /\ i - 1 = m
        BY <3>1
      <4>2. V[m] = K[m]
        OBVIOUS
      <4> QED
        BY <3>1, <4>1, <4>2
    <3>2. CASE i # m + 1
      <4>1. i \in 0 .. m /\ V[i] = K[i]
        BY <3>2
      <4>2. K[i] = IF i = 0 THEN <<>> ELSE Next(K[i - 1], i)
        BY <2>1, <4>1
      <4>3. i # 0 => V[i - 1] = K[i - 1]
        BY <4>1
      <4> QED
        BY <4>1, <4>2, <4>3
    <3> QED
      BY <3>1, <3>2
  <2> HIDE DEF V
  <2>4. V = [i \in 0 .. m + 1 |-> IF i = 0 THEN <<>> ELSE Next(V[i - 1], i)]
    BY <2>2, <2>3
  <2>5. m + 1 \in Nat
    OBVIOUS
  <2> QED
    BY <2>4, <2>5
<1>3. n \in Nat
  OBVIOUS
<1>4. \A m \in 0 .. n - 1 : m \in T => m + 1 \in T
  BY <1>2
<1> HIDE DEF T, n
<1>5. \A m \in 0 .. n : m \in T
  BY <1>1, <1>3, <1>4, Inductive
<1>6. n \in T
  BY <1>3, <1>5
<1> QED
  BY <1>6 DEF T, Keeping, n

(* One more element kept, or skipped.                                      *)
LEMMA KeepMore ==
  ASSUME NEW S, NEW s \in Seq(S), NEW rows, NEW i \in 1 .. Len(s), i \in rows,
         NEW u \in Seq(S), NEW e, PicksUpto(u, s, rows, e, i - 1),
         NEW v, v = Append(u, s[i]), NEW f, f = [k \in 1 .. Len(v) |-> IF k = Len(v) THEN i ELSE e[k]]
  PROVE  PicksUpto(v, s, rows, f, i)
<1> DEFINE m == Len(u)
<1>1. m \in Nat /\ Len(v) = m + 1 /\ v[m + 1] = s[i] /\ \A k \in 1 .. m : v[k] = u[k]
  OBVIOUS
<1>2. f[m + 1] = i /\ \A k \in 1 .. m : f[k] = e[k]
  BY <1>1
<1>3. /\ \A k \in 1 .. m : e[k] \in rows /\ e[k] \in 1 .. i - 1 /\ u[k] = s[e[k]]
      /\ \A k, l \in 1 .. m : k < l => e[k] < e[l]
      /\ \A j \in 1 .. i - 1 : j \in rows => \E k \in 1 .. m : e[k] = j
  BY DEF PicksUpto
<1> HIDE DEF m
<1>4. ASSUME NEW k \in 1 .. m + 1
      PROVE  f[k] \in rows /\ f[k] \in 1 .. i /\ v[k] = s[f[k]]
  <2>1. CASE k = m + 1
    BY <1>1, <1>2, <2>1
  <2>2. CASE k # m + 1
    <3>1. k \in 1 .. m
      BY <1>1, <2>2
    <3> QED
      BY <1>1, <1>2, <1>3, <3>1
  <2> QED
    BY <2>1, <2>2
<1>5. ASSUME NEW k \in 1 .. m + 1, NEW l \in 1 .. m + 1, k < l
      PROVE  f[k] < f[l]
  <2>1. k \in 1 .. m
    BY <1>1, <1>5
  <2>2. CASE l = m + 1
    <3>1. f[k] = e[k] /\ e[k] \in 1 .. i - 1 /\ f[l] = i
      BY <1>2, <1>3, <2>1, <2>2
    <3> QED
      BY <3>1
  <2>3. CASE l # m + 1
    <3>1. l \in 1 .. m
      BY <1>1, <2>3
    <3> QED
      BY <1>2, <1>3, <1>5, <2>1, <3>1
  <2> QED
    BY <2>2, <2>3
<1>6. ASSUME NEW j \in 1 .. i, j \in rows
      PROVE  \E k \in 1 .. m + 1 : f[k] = j
  <2>1. CASE j = i
    BY <1>1, <1>2, <2>1
  <2>2. CASE j # i
    <3>1. j \in 1 .. i - 1
      BY <2>2
    <3>2. PICK k \in 1 .. m : e[k] = j
      BY <1>3, <1>6, <3>1
    <3>3. k \in 1 .. m + 1 /\ f[k] = j
      BY <1>1, <1>2, <3>2
    <3> QED
      BY <3>3
  <2> QED
    BY <2>1, <2>2
<1> QED
  BY <1>1, <1>4, <1>5, <1>6 DEF PicksUpto

LEMMA KeepSkips ==
  ASSUME NEW s, Len(s) \in Nat, NEW rows, NEW i \in 1 .. Len(s), i \notin rows,
         NEW u, NEW e, PicksUpto(u, s, rows, e, i - 1)
  PROVE  PicksUpto(u, s, rows, e, i)
<1>1. \A j \in 1 .. i : j \in rows => j \in 1 .. i - 1
  OBVIOUS
<1>2. \A j \in 1 .. i - 1 : j \in 1 .. i
  OBVIOUS
<1> QED
  BY <1>1, <1>2 DEF PicksUpto

(* At lists the elements at the positions asked for.                       *)
LEMMA AtPicks ==
  ASSUME NEW S, NEW s \in Seq(S), NEW rows
  PROVE  At(s, rows) \in Seq(S) /\ \E e : Picks(At(s, rows), s, rows, e)
<1> DEFINE n == Len(s)
           K == CHOOSE K : Keeping(K, s, rows)
           T == {i \in 0 .. n : K[i] \in Seq(S) /\ \E e : PicksUpto(K[i], s, rows, e, i)}
<1>1. n \in Nat
  OBVIOUS
<1>2. At(s, rows) = K[n]
  BY DEF At, Keeping
<1>3. Keeping(K, s, rows)
  BY <1>1, KeepingExists
<1> HIDE DEF K
<1>4. \A i \in 0 .. n : K[i] = IF i = 0 THEN <<>>
                               ELSE IF i \in rows THEN Append(K[i - 1], s[i]) ELSE K[i - 1]
  BY <1>3 DEF Keeping
<1>5. 0 \in T
  <2>1. K[0] = <<>> /\ 0 \in 0 .. n
    BY <1>1, <1>4
  <2>2. <<>> \in Seq(S) /\ 1 .. Len(<<>>) = {} /\ 1 .. 0 = {}
    OBVIOUS
  <2>3. PicksUpto(<<>>, s, rows, <<>>, 0)
    BY <2>2 DEF PicksUpto
  <2> QED
    BY <2>1, <2>2, <2>3
<1>6. ASSUME NEW i \in 0 .. n - 1, i \in T
      PROVE  i + 1 \in T
  <2> DEFINE j == i + 1  u == K[i]  v == K[j]
  <2>1. j \in 1 .. n /\ j \in 0 .. n /\ j - 1 = i /\ j # 0
    BY <1>1
  <2>2. v = IF j \in rows THEN Append(u, s[j]) ELSE u
    BY <1>4, <2>1
  <2>3. u \in Seq(S)
    BY <1>6
  <2>4. PICK e : PicksUpto(u, s, rows, e, j - 1)
    BY <1>6, <2>1
  <2> HIDE DEF j, u, v
  <2>5. CASE j \in rows
    <3> DEFINE f == [k \in 1 .. Len(v) |-> IF k = Len(v) THEN j ELSE e[k]]
    <3>1. v = Append(u, s[j]) /\ s[j] \in S
      BY <2>1, <2>2, <2>5
    <3>2. f = [k \in 1 .. Len(v) |-> IF k = Len(v) THEN j ELSE e[k]]
      OBVIOUS
    <3> HIDE DEF f
    <3>3. PicksUpto(v, s, rows, f, j)
      BY <2>1, <2>3, <2>4, <2>5, <3>1, <3>2, KeepMore
    <3>4. v \in Seq(S)
      BY <2>3, <3>1
    <3> QED
      BY <2>1, <3>3, <3>4 DEF j, v
  <2>6. CASE j \notin rows
    <3>1. v = u
      BY <2>2, <2>6
    <3>2. PicksUpto(u, s, rows, e, j)
      BY <2>1, <2>4, <2>6, KeepSkips
    <3> QED
      BY <2>1, <2>3, <3>1, <3>2 DEF j, v
  <2> QED
    BY <2>5, <2>6
<1>7. \A i \in 0 .. n - 1 : i \in T => i + 1 \in T
  BY <1>6
<1> HIDE DEF T, n
<1>8. \A i \in 0 .. n : i \in T
  BY <1>1, <1>5, <1>7, Inductive
<1>9. n \in T
  BY <1>1, <1>8
<1> QED
  BY <1>2, <1>9 DEF T, Picks, n

-----------------------------------------------------------------------------
(* Sorted sequences are told by their elements.                            *)
SortedBy(t, K) == \A i, j \in 1 .. Len(t) : i < j => K[t[i]] < K[t[j]]

(* Positions that increase are never before their own place.               *)
LEMMA Rises ==
  ASSUME NEW n \in Nat, NEW f, \A i \in 1 .. n : f[i] \in Int /\ f[i] >= 1,
         \A i, j \in 1 .. n : i < j => f[i] < f[j]
  PROVE  \A i \in 1 .. n : f[i] >= i
<1> DEFINE T == {i \in 0 .. n : i = 0 \/ f[i] >= i}
<1>1. 0 \in T
  OBVIOUS
<1>2. ASSUME NEW k \in 0 .. n - 1, k \in T
      PROVE  k + 1 \in T
  <2>1. k + 1 \in 1 .. n /\ k + 1 \in 0 .. n
    OBVIOUS
  <2>2. CASE k = 0
    <3>1. f[k + 1] >= 1 /\ f[k + 1] \in Int
      BY <2>1
    <3> QED
      BY <2>1, <2>2, <3>1
  <2>3. CASE k # 0
    <3>1. k \in 1 .. n /\ k < k + 1
      BY <2>3
    <3>2. f[k] < f[k + 1] /\ f[k] >= k /\ f[k] \in Int /\ f[k + 1] \in Int
      BY <1>2, <2>1, <2>3, <3>1
    <3> QED
      BY <2>1, <3>2
  <2> QED
    BY <2>2, <2>3
<1>3. \A k \in 0 .. n - 1 : k \in T => k + 1 \in T
  BY <1>2
<1> HIDE DEF T
<1>4. \A k \in 0 .. n : k \in T
  BY <1>1, <1>3, Inductive
<1>5. \A i \in 1 .. n : i \in T /\ i # 0
  BY <1>4
<1> QED
  BY <1>5 DEF T

(* Where the elements of t are in u: in the same order, and so not before. *)
LEMMA SortedInto ==
  ASSUME NEW S, NEW K \in [S -> Int], NEW t \in Seq(S), NEW u \in Seq(S), SortedBy(t, K),
         SortedBy(u, K), NEW f, \A i \in 1 .. Len(t) : f[i] \in 1 .. Len(u) /\ t[i] = u[f[i]]
  PROVE  \A i \in 1 .. Len(t) : f[i] >= i
<1> DEFINE n == Len(t)
<1>1. n \in Nat /\ \A i \in 1 .. n : f[i] \in Int /\ f[i] >= 1
  OBVIOUS
<1>2. ASSUME NEW i \in 1 .. n, NEW j \in 1 .. n, i < j
      PROVE  f[i] < f[j]
  <2>1. K[t[i]] < K[t[j]]
    BY <1>2 DEF SortedBy
  <2>2. K[t[i]] \in Int /\ K[t[j]] \in Int
    OBVIOUS
  <2>3. CASE f[i] = f[j]
    <3>1. t[i] = t[j]
      BY <2>3
    <3> QED
      BY <2>1, <2>2, <3>1
  <2>4. CASE f[j] < f[i]
    <3>1. K[u[f[j]]] < K[u[f[i]]]
      BY <2>4 DEF SortedBy
    <3>2. K[t[j]] < K[t[i]]
      BY <3>1
    <3> QED
      BY <2>1, <2>2, <3>2
  <2> QED
    BY <1>1, <2>3, <2>4
<1> HIDE DEF n
<1>3. \A i \in 1 .. n : f[i] >= i
  BY <1>1, <1>2, Rises
<1> QED
  BY <1>3 DEF n

(* Two sorted sequences of the same elements are one.                      *)
LEMMA SortedUnique ==
  ASSUME NEW S, NEW K \in [S -> Int], NEW t \in Seq(S), NEW u \in Seq(S), SortedBy(t, K),
         SortedBy(u, K), Elems(t) = Elems(u)
  PROVE  t = u
<1> DEFINE f == [i \in 1 .. Len(t) |-> CHOOSE j \in 1 .. Len(u) : u[j] = t[i]]
           g == [j \in 1 .. Len(u) |-> CHOOSE i \in 1 .. Len(t) : t[i] = u[j]]
<1>1. Len(t) \in Nat /\ Len(u) \in Nat
  OBVIOUS
<1>2. \A i \in 1 .. Len(t) : f[i] \in 1 .. Len(u) /\ t[i] = u[f[i]]
  <2> SUFFICES ASSUME NEW i \in 1 .. Len(t)
               PROVE  f[i] \in 1 .. Len(u) /\ t[i] = u[f[i]]
    OBVIOUS
  <2>1. t[i] \in Elems(u)
    BY DEF Elems
  <2>2. \E j \in 1 .. Len(u) : u[j] = t[i]
    BY <2>1 DEF Elems
  <2> QED
    BY <2>2
<1>3. \A j \in 1 .. Len(u) : g[j] \in 1 .. Len(t) /\ u[j] = t[g[j]]
  <2> SUFFICES ASSUME NEW j \in 1 .. Len(u)
               PROVE  g[j] \in 1 .. Len(t) /\ u[j] = t[g[j]]
    OBVIOUS
  <2>1. u[j] \in Elems(t)
    BY DEF Elems
  <2>2. \E i \in 1 .. Len(t) : t[i] = u[j]
    BY <2>1 DEF Elems
  <2> QED
    BY <2>2
<1> HIDE DEF f, g
<1>4. \A i \in 1 .. Len(t) : f[i] >= i
  BY <1>2, SortedInto
<1>5. \A j \in 1 .. Len(u) : g[j] >= j
  BY <1>3, SortedInto
<1>6. ASSUME NEW i \in 1 .. Len(t)
      PROVE  i \in 1 .. Len(u) /\ t[i] = u[i]
  <2> DEFINE j == f[i]
  <2>1. j \in 1 .. Len(u) /\ j >= i /\ t[i] = u[j]
    BY <1>2, <1>4
  <2> HIDE DEF j
  <2>2. i \in 1 .. Len(u)
    BY <1>1, <2>1
  <2>3. g[j] \in 1 .. Len(t) /\ g[j] >= j /\ u[j] = t[g[j]]
    BY <1>3, <1>5, <2>1
  <2>4. g[j] = i
    <3>1. CASE i < g[j]
      <4>1. K[t[i]] < K[t[g[j]]] /\ t[i] = t[g[j]] /\ K[t[i]] \in Int
        BY <2>1, <2>3, <3>1 DEF SortedBy
      <4> QED
        BY <4>1
    <3> QED
      BY <2>1, <2>3, <3>1
  <2>5. j = i
    BY <2>1, <2>3, <2>4
  <2> QED
    BY <2>1, <2>5
<1>7. ASSUME NEW j \in 1 .. Len(u)
      PROVE  j \in 1 .. Len(t)
  <2>1. g[j] \in 1 .. Len(t) /\ g[j] >= j
    BY <1>3, <1>5
  <2> QED
    BY <1>1, <2>1
<1>8. Len(t) = Len(u)
  <2>1. CASE Len(t) < Len(u)
    <3>1. Len(u) \in 1 .. Len(u) /\ ~(Len(u) \in 1 .. Len(t))
      BY <1>1, <2>1
    <3> QED
      BY <1>7, <3>1
  <2>2. CASE Len(u) < Len(t)
    <3>1. Len(t) \in 1 .. Len(t) /\ ~(Len(t) \in 1 .. Len(u))
      BY <1>1, <2>2
    <3> QED
      BY <1>6, <3>1
  <2> QED
    BY <1>1, <2>1, <2>2
<1>9. t = [i \in 1 .. Len(t) |-> t[i]] /\ u = [i \in 1 .. Len(u) |-> u[i]]
  OBVIOUS
<1> QED
  BY <1>6, <1>8, <1>9

(* Bars in time order, each timestamp once; increasing numbers.            *)
Stamped(S) == \A b \in S : b.ts \in Int
Rising(t) == \A i, j \in 1 .. Len(t) : i < j => t[i].ts < t[j].ts
Climbing(t) == \A i, j \in 1 .. Len(t) : i < j => t[i] < t[j]

LEMMA RisingUnique ==
  ASSUME NEW S, Stamped(S), NEW t \in Seq(S), NEW u \in Seq(S), Rising(t), Rising(u),
         Elems(t) = Elems(u)
  PROVE  t = u
<1> DEFINE K == [b \in S |-> b.ts]
<1>1. K \in [S -> Int] /\ \A b \in S : K[b] = b.ts
  BY DEF Stamped
<1> HIDE DEF K
<1>2. SortedBy(t, K) /\ SortedBy(u, K)
  <2>1. /\ \A i \in 1 .. Len(t) : K[t[i]] = t[i].ts
        /\ \A i \in 1 .. Len(u) : K[u[i]] = u[i].ts
    BY <1>1
  <2> QED
    BY <2>1 DEF SortedBy, Rising
<1> QED
  BY <1>1, <1>2, SortedUnique

LEMMA ClimbingUnique ==
  ASSUME NEW t \in Seq(Int), NEW u \in Seq(Int), Climbing(t), Climbing(u), Elems(t) = Elems(u)
  PROVE  t = u
<1> DEFINE K == [i \in Int |-> i]
<1>1. K \in [Int -> Int] /\ \A i \in Int : K[i] = i
  OBVIOUS
<1> HIDE DEF K
<1>2. SortedBy(t, K) /\ SortedBy(u, K)
  <2>1. /\ \A i \in 1 .. Len(t) : K[t[i]] = t[i]
        /\ \A i \in 1 .. Len(u) : K[u[i]] = u[i]
    BY <1>1
  <2> QED
    BY <2>1 DEF SortedBy, Climbing
<1> QED
  BY <1>1, <1>2, SortedUnique

-----------------------------------------------------------------------------
(* Runs of equal keys.                                                     *)
Up(s) == \A i \in 1 .. Len(s) - 1 : s[i] <= s[i + 1]

(* Keys that never fall from one to the next never fall at all.            *)
LEMMA UpPairs ==
  ASSUME NEW s \in Seq(Int), Up(s), NEW i \in 1 .. Len(s), NEW j \in 1 .. Len(s), i <= j
  PROVE  s[i] <= s[j]
<1> DEFINE T == {d \in Nat : i + d <= Len(s) => s[i] <= s[i + d]}
<1>1. 0 \in T
  OBVIOUS
<1>2. ASSUME NEW d \in 0 .. (j - i) - 1, d \in T
      PROVE  d + 1 \in T
  <2>1. i + d \in 1 .. Len(s) - 1 /\ i + (d + 1) = (i + d) + 1
    OBVIOUS
  <2>2. s[i + d] <= s[(i + d) + 1]
    BY <2>1 DEF Up
  <2>3. s[i] <= s[i + d] /\ s[i] \in Int /\ s[i + d] \in Int /\ s[(i + d) + 1] \in Int
    BY <1>2, <2>1
  <2> QED
    BY <2>1, <2>2, <2>3
<1> HIDE DEF T
<1>3. j - i \in Nat /\ j - i \in 0 .. j - i
  OBVIOUS
<1>4. j - i \in T
  BY <1>1, <1>2, <1>3, Inductive
<1> QED
  BY <1>4 DEF T

RunEnds(key) == {i \in 1 .. Len(key) : i < Len(key) => key[i + 1] # key[i]}

(* A run of keys in order ends where no later key equals its own, and      *)
(* every position is in a run that ends.                                   *)
LEMMA RunEndsLast ==
  ASSUME NEW key \in Seq(Int), Up(key), NEW i \in 1 .. Len(key)
  PROVE  /\ i \in RunEnds(key) => \A j \in i + 1 .. Len(key) : key[i] < key[j]
         /\ (\A j \in i + 1 .. Len(key) : key[i] # key[j]) => i \in RunEnds(key)
<1>1. ASSUME i \in RunEnds(key), NEW j \in i + 1 .. Len(key)
      PROVE  key[i] < key[j]
  <2>1. i + 1 \in 1 .. Len(key) /\ j \in 1 .. Len(key) /\ i + 1 <= j /\ i < Len(key)
    OBVIOUS
  <2>2. key[i + 1] # key[i] /\ key[i] <= key[i + 1]
    BY <1>1, <2>1, UpPairs DEF RunEnds
  <2>3. key[i + 1] <= key[j]
    BY <2>1, UpPairs
  <2>4. key[i] \in Int /\ key[i + 1] \in Int /\ key[j] \in Int
    BY <2>1
  <2> QED
    BY <2>2, <2>3, <2>4
<1>2. ASSUME \A j \in i + 1 .. Len(key) : key[i] # key[j]
      PROVE  i \in RunEnds(key)
  <2>1. i < Len(key) => i + 1 \in i + 1 .. Len(key)
    OBVIOUS
  <2> QED
    BY <1>2, <2>1 DEF RunEnds
<1> QED
  BY <1>1, <1>2

LEMMA RunEnd ==
  ASSUME NEW key \in Seq(Int), NEW i \in 1 .. Len(key)
  PROVE  \E j \in RunEnds(key) : i <= j /\ key[j] = key[i]
<1> DEFINE n == Len(key)
           T == {d \in 0 .. n : n - d \in i .. n /\ key[n - d] = key[i]}
<1>1. n \in Nat
  OBVIOUS
<1>2. T \subseteq Nat /\ n - i \in T
  BY <1>1
<1>3. \A d \in T : d \in 0 .. n /\ n - d \in i .. n /\ key[n - d] = key[i]
  OBVIOUS
<1>4. \A d \in 0 .. n : n - d \in i .. n /\ key[n - d] = key[i] => d \in T
  OBVIOUS
<1> HIDE DEF T
<1>5. PICK d \in T : \A x \in T : d <= x
  BY <1>2, LeastOf
<1> DEFINE j == n - d
<1>6. j \in i .. n /\ key[j] = key[i] /\ d \in 0 .. n
  BY <1>3
<1>7. ASSUME j < n, key[j + 1] = key[j]
      PROVE  FALSE
  <2> DEFINE x == d - 1
  <2>3. d \in Int /\ n \in Int /\ i \in Int /\ 0 <= d /\ d <= n /\ i <= n - d /\ n - d < n
    BY <1>1, <1>6, <1>7
  <2>1. x \in 0 .. n /\ n - x = j + 1 /\ j + 1 \in i .. n /\ x < d
    BY ONLY <2>3
  <2>2. x \in T
    BY <1>4, <1>6, <1>7, <2>1
  <2> QED
    BY <1>5, <1>6, <2>1, <2>2
<1>8. j \in RunEnds(key)
  BY <1>1, <1>6, <1>7 DEF RunEnds
<1> HIDE DEF j
<1> QED
  BY <1>6, <1>8

(* The last of each run, one after the other.                              *)
LEMMA RunsListed ==
  ASSUME NEW S, NEW s \in Seq(S), NEW key \in Seq(Int), Len(key) = Len(s), Up(key),
         NEW K \in [S -> Int], \A i \in 1 .. Len(s) : K[s[i]] = key[i],
         NEW r, r = LastOfRuns(s, key)
  PROVE  r \in Seq(S) /\ SortedBy(r, K) /\ \E e : Picks(r, s, RunEnds(key), e)
<1> DEFINE rows == RunEnds(key)
<1>1. rows = {i \in 1 .. Len(s) : i < Len(s) => key[i + 1] # key[i]}
  BY DEF RunEnds
<1>2. r = At(s, rows)
  BY <1>1 DEF LastOfRuns
<1> HIDE DEF rows
<1>3. r \in Seq(S)
  BY <1>2, AtPicks
<1>4. PICK e : Picks(r, s, rows, e)
  BY <1>2, AtPicks
<1>5. ASSUME NEW k \in 1 .. Len(r), NEW l \in 1 .. Len(r), k < l
      PROVE  K[r[k]] < K[r[l]]
  <2> DEFINE i == e[k]  j == e[l]
  <2>1. /\ i \in rows /\ i \in 1 .. Len(s) /\ r[k] = s[i]
        /\ j \in 1 .. Len(s) /\ r[l] = s[j] /\ i < j
    BY <1>4, <1>5 DEF Picks, PicksUpto
  <2> HIDE DEF i, j
  <2>2. j \in i + 1 .. Len(key) /\ i \in 1 .. Len(key)
    BY <2>1
  <2>3. key[i] < key[j]
    BY <2>1, <2>2, RunEndsLast DEF rows
  <2> QED
    BY <2>1, <2>3
<1>6. SortedBy(r, K)
  BY <1>5 DEF SortedBy
<1> QED
  BY <1>3, <1>4, <1>6 DEF rows

-----------------------------------------------------------------------------
(* Bars in order, the last of each timestamp.                              *)
Stamps(X) == [i \in 1 .. Len(X) |-> X[i].ts]

Latest(X) ==
  {X[i] : i \in {i \in 1 .. Len(X) : \A j \in i + 1 .. Len(X) : X[i].ts # X[j].ts}}

(* The timestamps of bars in order never fall.                             *)
LEMMA StampsUp ==
  ASSUME NEW S, Stamped(S), NEW X \in Seq(S)
  PROVE  /\ Stamps(X) \in Seq(Int) /\ Len(Stamps(X)) = Len(X)
         /\ \A i \in 1 .. Len(X) : Stamps(X)[i] = X[i].ts
         /\ Up(Stamps(X)) <=> Ordered(X)
<1> DEFINE s == Stamps(X)  n == Len(X)
<1>1. n \in Nat /\ \A i \in 1 .. n : X[i].ts \in Int
  BY DEF Stamped
<1>2. s = [i \in 1 .. n |-> X[i].ts]
  BY DEF Stamps
<1> HIDE DEF s
<1>3. s \in Seq(Int) /\ Len(s) = n /\ \A i \in 1 .. n : s[i] = X[i].ts
  BY <1>1, <1>2
<1>4. \A i \in 1 .. n - 1 : i \in 1 .. n /\ i + 1 \in 1 .. n
  BY <1>1
<1>5. Up(s) <=> Ordered(X)
  BY <1>3, <1>4 DEF Up, Ordered
<1> QED
  BY <1>3, <1>5 DEF s

LEMMA OrderedPairs ==
  ASSUME NEW S, Stamped(S), NEW X \in Seq(S), Ordered(X), NEW i \in 1 .. Len(X),
         NEW j \in 1 .. Len(X), i <= j
  PROVE  X[i].ts <= X[j].ts
<1> DEFINE s == Stamps(X)
<1>1. s \in Seq(Int) /\ Len(s) = Len(X) /\ Up(s) /\ s[i] = X[i].ts /\ s[j] = X[j].ts
  BY StampsUp
<1> HIDE DEF s
<1>2. s[i] <= s[j]
  BY <1>1, UpPairs
<1> QED
  BY <1>1, <1>2

(* What dedup_keep_last leaves: each timestamp once, the latest bar of     *)
(* each.                                                                   *)
LEMMA Deduped ==
  ASSUME NEW S, Stamped(S), NEW X \in Seq(S), Ordered(X), NEW d, d = DedupKeepLast(X)
  PROVE  d \in Seq(S) /\ Rising(d) /\ Elems(d) = Latest(X)
<1> DEFINE s == Stamps(X)  K == [b \in S |-> b.ts]  n == Len(X)  rows == RunEnds(s)
<1>1. /\ s \in Seq(Int) /\ Len(s) = n /\ Up(s) /\ n \in Nat
      /\ \A i \in 1 .. n : s[i] = X[i].ts
  BY StampsUp
<1>2. d = LastOfRuns(X, s)
  BY DEF DedupKeepLast, Stamps
<1>3. K \in [S -> Int] /\ (\A b \in S : K[b] = b.ts) /\ (\A i \in 1 .. n : K[X[i]] = X[i].ts)
  BY DEF Stamped
<1> HIDE DEF s, K
<1>4. \A i \in 1 .. Len(X) : K[X[i]] = s[i]
  BY <1>1, <1>3
<1>5. d \in Seq(S) /\ SortedBy(d, K) /\ \E e : Picks(d, X, rows, e)
  BY <1>1, <1>2, <1>3, <1>4, RunsListed
<1>6. Rising(d)
  <2>1. \A i \in 1 .. Len(d) : K[d[i]] = d[i].ts
    BY <1>3, <1>5
  <2> QED
    BY <1>5, <2>1 DEF SortedBy, Rising
<1>7. PICK e : Picks(d, X, rows, e)
  BY <1>5
<1>8. \A i \in 1 .. n : i \in rows <=> \A j \in i + 1 .. n : X[i].ts # X[j].ts
  <2> SUFFICES ASSUME NEW i \in 1 .. n
               PROVE  i \in rows <=> \A j \in i + 1 .. n : X[i].ts # X[j].ts
    OBVIOUS
  <2>1. s[i] = X[i].ts /\ \A j \in i + 1 .. n : s[j] = X[j].ts /\ s[j] \in Int /\ s[i] \in Int
    BY <1>1
  <2>2. /\ i \in RunEnds(s) => \A j \in i + 1 .. Len(s) : s[i] < s[j]
        /\ (\A j \in i + 1 .. Len(s) : s[i] # s[j]) => i \in RunEnds(s)
    BY <1>1, RunEndsLast
  <2> QED
    BY <1>1, <2>1, <2>2
<1> HIDE DEF rows, n
<1>9. ASSUME NEW b \in Elems(d)
      PROVE  b \in Latest(X)
  <2>1. PICK k \in 1 .. Len(d) : b = d[k]
    BY DEF Elems
  <2>2. e[k] \in rows /\ e[k] \in 1 .. n /\ d[k] = X[e[k]]
    BY <1>7 DEF Picks, PicksUpto, n
  <2> QED
    BY <1>8, <2>1, <2>2 DEF Latest, n
<1>10. ASSUME NEW b \in Latest(X)
       PROVE  b \in Elems(d)
  <2>1. PICK i \in 1 .. n : b = X[i] /\ \A j \in i + 1 .. n : X[i].ts # X[j].ts
    BY DEF Latest, n
  <2>2. i \in rows
    BY <1>8, <2>1
  <2>3. PICK k \in 1 .. Len(d) : e[k] = i
    BY <1>7, <2>1, <2>2 DEF Picks, PicksUpto, n
  <2>4. d[k] = X[i]
    BY <1>7, <2>3 DEF Picks, PicksUpto
  <2> QED
    BY <2>1, <2>4 DEF Elems
<1> QED
  BY <1>5, <1>6, <1>9, <1>10

(* Bars with each timestamp once, in order, are in order.                  *)
LEMMA RisingOrdered ==
  ASSUME NEW S, Stamped(S), NEW X \in Seq(S), Rising(X)
  PROVE  Ordered(X)
<1> SUFFICES ASSUME NEW i \in 1 .. Len(X) - 1
             PROVE  X[i].ts <= X[i + 1].ts
  BY DEF Ordered
<1>1. i \in 1 .. Len(X) /\ i + 1 \in 1 .. Len(X) /\ i < i + 1
  OBVIOUS
<1>2. X[i].ts < X[i + 1].ts /\ X[i].ts \in Int /\ X[i + 1].ts \in Int
  BY <1>1 DEF Rising, Stamped
<1> QED
  BY <1>2

(* Bars in order, each timestamp once, are their own latest ones.          *)
LEMMA DedupedRising ==
  ASSUME NEW S, Stamped(S), NEW X \in Seq(S), Rising(X)
  PROVE  DedupKeepLast(X) = X
<1> DEFINE d == DedupKeepLast(X)
<1>1. Ordered(X)
  BY RisingOrdered
<1>2. d \in Seq(S) /\ Rising(d) /\ Elems(d) = Latest(X)
  BY <1>1, Deduped
<1>3. Latest(X) = Elems(X)
  <2>1. ASSUME NEW i \in 1 .. Len(X), NEW j \in i + 1 .. Len(X)
        PROVE  X[i].ts # X[j].ts
    <3>1. j \in 1 .. Len(X) /\ i < j
      OBVIOUS
    <3>2. X[i].ts < X[j].ts /\ X[i].ts \in Int /\ X[j].ts \in Int
      BY <3>1 DEF Rising, Stamped
    <3> QED
      BY <3>2
  <2>2. {i \in 1 .. Len(X) : \A j \in i + 1 .. Len(X) : X[i].ts # X[j].ts} = 1 .. Len(X)
    BY <2>1
  <2> QED
    BY <2>2 DEF Latest, Elems
<1> HIDE DEF d
<1>4. d = X
  BY <1>2, <1>3, RisingUnique
<1> QED
  BY <1>4 DEF d

-----------------------------------------------------------------------------
(* Periods.                                                                *)
LEMMA PeriodOf ==
  ASSUME NEW x \in Int
  PROVE  PeriodStart(x) \in Int /\ PeriodStart(x) <= x
<1>1. Period \in Nat \ {0}
  BY PeriodFoldAssumption
<1>2. x % Period \in 0 .. Period - 1
  BY <1>1
<1> QED
  BY <1>1, <1>2 DEF PeriodStart

(* A later timestamp is in no earlier period.                              *)
LEMMA PeriodMonotone ==
  ASSUME NEW x \in Int, NEW y \in Int, x <= y
  PROVE  PeriodStart(x) <= PeriodStart(y)
<1> DEFINE P == Period  q == x \div P  r == y \div P
<1>1. P \in Nat /\ P > 0
  BY PeriodFoldAssumption
<1>2. /\ q \in Int /\ x = P * q + (x % P) /\ x % P \in 0 .. P - 1
      /\ r \in Int /\ y = P * r + (y % P) /\ y % P \in 0 .. P - 1
  BY <1>1
<1> DEFINE u == x % P  v == y % P
<1> HIDE DEF P, q, r, u, v
<1>3. CASE q <= r
  <2>1. P * q <= P * r
    BY <1>1, <1>2, <1>3
  <2>2. PeriodStart(x) = P * q /\ PeriodStart(y) = P * r
    BY <1>1, <1>2 DEF PeriodStart, P, u, v
  <2> QED
    BY <2>1, <2>2
<1>4. CASE q >= r + 1
  <2> DEFINE z == q - (r + 1)
  <2>1. z \in Nat /\ q = r + 1 + z
    BY <1>2, <1>4
  <2> HIDE DEF z
  <2>2. P * q = P * r + P + P * z /\ P * z \in Nat
    BY <1>1, <1>2, <2>1
  <2>3. u \in 0 .. P - 1 /\ v \in 0 .. P - 1 /\ x = P * q + u /\ y = P * r + v
    BY <1>2 DEF u, v
  <2> DEFINE a == P * r  b == P * z  c == P * q
  <2>4. a \in Int /\ b \in Nat /\ c = a + P + b /\ x = c + u /\ y = a + v /\ u \in 0 .. P - 1 /\ v \in 0 .. P - 1
    BY <1>1, <1>2, <2>2, <2>3
  <2> HIDE DEF a, b, c
  <2>5. FALSE
    BY <1>1, <2>4
  <2> QED
    BY <2>5
<1> QED
  BY <1>2, <1>3, <1>4

Starts(X) == [i \in 1 .. Len(X) |-> PeriodStart(X[i].ts)]

(* The periods of bars in order never fall.                                *)
LEMMA StartsUp ==
  ASSUME NEW S, Stamped(S), NEW X \in Seq(S), Ordered(X)
  PROVE  /\ Starts(X) \in Seq(Int) /\ Len(Starts(X)) = Len(X) /\ Up(Starts(X))
         /\ \A i \in 1 .. Len(X) : Starts(X)[i] = PeriodStart(X[i].ts)
<1> DEFINE s == Starts(X)  n == Len(X)
<1>1. n \in Nat /\ \A i \in 1 .. n : X[i].ts \in Int
  BY DEF Stamped
<1>2. s = [i \in 1 .. n |-> PeriodStart(X[i].ts)]
  BY DEF Starts
<1>3. \A i \in 1 .. n : PeriodStart(X[i].ts) \in Int
  BY <1>1, PeriodOf
<1> HIDE DEF s
<1>4. s \in Seq(Int) /\ Len(s) = n /\ \A i \in 1 .. n : s[i] = PeriodStart(X[i].ts)
  BY <1>1, <1>2, <1>3
<1>5. ASSUME NEW i \in 1 .. n - 1
      PROVE  s[i] <= s[i + 1]
  <2>1. i \in 1 .. n /\ i + 1 \in 1 .. n
    BY <1>1
  <2>2. X[i].ts <= X[i + 1].ts
    BY DEF Ordered
  <2>3. PeriodStart(X[i].ts) <= PeriodStart(X[i + 1].ts)
    BY <1>1, <2>1, <2>2, PeriodMonotone
  <2> QED
    BY <1>4, <2>1, <2>3
<1> QED
  BY <1>4, <1>5 DEF Up, s

PeriodSet(X) == {PeriodStart(b.ts) : b \in Elems(X)}

(* The periods of bars in order, each once.                                *)
LEMMA PeriodsListed ==
  ASSUME NEW S, Stamped(S), NEW X \in Seq(S), Ordered(X), NEW r, r = PeriodsOf(X)
  PROVE  r \in Seq(Int) /\ Climbing(r) /\ Elems(r) = PeriodSet(X)
<1> DEFINE s == Starts(X)  n == Len(X)  K == [i \in Int |-> i]
<1>1. /\ s \in Seq(Int) /\ Len(s) = n /\ Up(s) /\ n \in Nat
      /\ \A i \in 1 .. n : s[i] = PeriodStart(X[i].ts)
  BY StartsUp
<1>2. r = LastOfRuns(s, s)
  BY DEF PeriodsOf, Starts
<1>3. K \in [Int -> Int] /\ \A i \in Int : K[i] = i
  OBVIOUS
<1> HIDE DEF s, K, n
<1>4. \A i \in 1 .. Len(s) : K[s[i]] = s[i]
  BY <1>1, <1>3
<1>5. r \in Seq(Int) /\ SortedBy(r, K) /\ \E e : Picks(r, s, RunEnds(s), e)
  BY <1>1, <1>2, <1>3, <1>4, RunsListed
<1>6. Climbing(r)
  <2>1. \A i \in 1 .. Len(r) : K[r[i]] = r[i]
    BY <1>3, <1>5
  <2> QED
    BY <1>5, <2>1 DEF SortedBy, Climbing
<1>7. PICK e : Picks(r, s, RunEnds(s), e)
  BY <1>5
<1>8. ASSUME NEW p \in Elems(r)
      PROVE  p \in PeriodSet(X)
  <2>1. PICK k \in 1 .. Len(r) : p = r[k]
    BY DEF Elems
  <2>2. e[k] \in 1 .. n /\ r[k] = s[e[k]]
    BY <1>1, <1>7 DEF Picks, PicksUpto
  <2>3. p = PeriodStart(X[e[k]].ts) /\ X[e[k]] \in Elems(X)
    BY <1>1, <2>1, <2>2 DEF Elems, n
  <2> QED
    BY <2>3 DEF PeriodSet
<1>9. ASSUME NEW p \in PeriodSet(X)
      PROVE  p \in Elems(r)
  <2>1. PICK i \in 1 .. n : p = PeriodStart(X[i].ts)
    BY DEF PeriodSet, Elems, n
  <2>2. i \in 1 .. Len(s) /\ s[i] = p
    BY <1>1, <2>1
  <2>3. PICK j \in RunEnds(s) : i <= j /\ s[j] = s[i]
    BY <1>1, <2>2, RunEnd
  <2>4. j \in 1 .. Len(s)
    BY DEF RunEnds
  <2>5. PICK k \in 1 .. Len(r) : e[k] = j
    BY <1>7, <2>4 DEF Picks, PicksUpto
  <2>6. r[k] = s[j]
    BY <1>7, <2>5 DEF Picks, PicksUpto
  <2> QED
    BY <2>2, <2>3, <2>6 DEF Elems
<1> QED
  BY <1>5, <1>6, <1>8, <1>9

(* The bars of a period.                                                   *)
LEMMA BarsListed ==
  ASSUME NEW S, Stamped(S), NEW X \in Seq(S), NEW p, NEW t, t = BarsIn(X, p)
  PROVE  /\ t \in Seq(S) /\ Elems(t) = {b \in Elems(X) : PeriodStart(b.ts) = p}
         /\ Ordered(X) => Ordered(t)
         /\ Rising(X) => Rising(t)
<1> DEFINE rows == {i \in 1 .. Len(X) : PeriodStart(X[i].ts) = p}  n == Len(X)
<1>1. t = At(X, rows)
  BY DEF BarsIn
<1>2. \A i : i \in rows <=> i \in 1 .. n /\ PeriodStart(X[i].ts) = p
  OBVIOUS
<1> HIDE DEF rows, n
<1>3. t \in Seq(S)
  BY <1>1, AtPicks
<1>4. PICK e : Picks(t, X, rows, e)
  BY <1>1, AtPicks
<1>5. /\ \A k \in 1 .. Len(t) : e[k] \in rows /\ e[k] \in 1 .. n /\ t[k] = X[e[k]]
      /\ \A k, l \in 1 .. Len(t) : k < l => e[k] < e[l]
      /\ \A i \in 1 .. n : i \in rows => \E k \in 1 .. Len(t) : e[k] = i
  BY <1>4 DEF Picks, PicksUpto, n
<1>6. ASSUME Rising(X)
      PROVE  Rising(t)
  <2> SUFFICES ASSUME NEW k \in 1 .. Len(t), NEW l \in 1 .. Len(t), k < l
               PROVE  t[k].ts < t[l].ts
    BY DEF Rising
  <2>1. /\ e[k] \in 1 .. Len(X) /\ e[l] \in 1 .. Len(X) /\ e[k] < e[l]
        /\ t[k] = X[e[k]] /\ t[l] = X[e[l]]
    BY <1>5 DEF n
  <2> QED
    BY <1>6, <2>1 DEF Rising
<1>7. ASSUME Ordered(X)
      PROVE  Ordered(t)
  <2> SUFFICES ASSUME NEW k \in 1 .. Len(t) - 1
               PROVE  t[k].ts <= t[k + 1].ts
    BY DEF Ordered
  <2> DEFINE l == k + 1
  <2>0. k \in 1 .. Len(t) /\ l \in 1 .. Len(t) /\ k < l
    BY <1>3
  <2> HIDE DEF l
  <2>1. /\ e[k] \in 1 .. Len(X) /\ e[l] \in 1 .. Len(X) /\ e[k] < e[l]
        /\ t[k] = X[e[k]] /\ t[l] = X[e[l]]
    BY <1>5, <2>0 DEF n
  <2> DEFINE i == e[k]  j == e[l]
  <2>2. i \in 1 .. Len(X) /\ j \in 1 .. Len(X) /\ i <= j
    BY <2>1
  <2> HIDE DEF i, j
  <2>3. X[i].ts <= X[j].ts
    BY <1>7, <2>2, OrderedPairs
  <2> QED
    BY <2>1, <2>3 DEF i, j, l
<1>8. ASSUME NEW b \in Elems(t)
      PROVE  b \in Elems(X) /\ PeriodStart(b.ts) = p
  <2>1. PICK k \in 1 .. Len(t) : b = t[k]
    BY DEF Elems
  <2>2. e[k] \in 1 .. n /\ PeriodStart(X[e[k]].ts) = p /\ b = X[e[k]]
    BY <1>2, <1>5, <2>1
  <2> QED
    BY <2>2 DEF Elems, n
<1>9. ASSUME NEW b \in Elems(X), PeriodStart(b.ts) = p
      PROVE  b \in Elems(t)
  <2>1. PICK i \in 1 .. n : b = X[i]
    BY DEF Elems, n
  <2>2. i \in rows
    BY <1>2, <1>9, <2>1
  <2>3. PICK k \in 1 .. Len(t) : e[k] = i
    BY <1>5, <2>2
  <2>4. t[k] = b
    BY <1>5, <2>1, <2>3
  <2> QED
    BY <2>4 DEF Elems
<1>10. Elems(t) = {b \in Elems(X) : PeriodStart(b.ts) = p}
  BY <1>8, <1>9
<1> QED
  BY <1>3, <1>6, <1>7, <1>10

(* The bars of a period, each timestamp once, either way round.            *)
LEMMA DedupOfPeriod ==
  ASSUME NEW S, Stamped(S), NEW X \in Seq(S), Ordered(X), NEW p
  PROVE  DedupKeepLast(BarsIn(X, p)) = BarsIn(DedupKeepLast(X), p)
<1> DEFINE t == BarsIn(X, p)  d == DedupKeepLast(X)  a == DedupKeepLast(t)  b == BarsIn(d, p)
           rows == {i \in 1 .. Len(X) : PeriodStart(X[i].ts) = p}
<1>0. t = BarsIn(X, p) /\ rows = {i \in 1 .. Len(X) : PeriodStart(X[i].ts) = p}
  OBVIOUS
<1>3. d \in Seq(S) /\ Rising(d) /\ Elems(d) = Latest(X)
  BY Deduped
<1>4. \A i : i \in rows <=> i \in 1 .. Len(X) /\ PeriodStart(X[i].ts) = p
  OBVIOUS
<1> HIDE DEF t, d, rows
<1>1. t \in Seq(S) /\ Ordered(t)
  BY <1>0, BarsListed
<1>12. t = At(X, rows)
  BY <1>0 DEF BarsIn
<1>2. PICK e : Picks(t, X, rows, e)
  BY <1>12, AtPicks
<1>5. a \in Seq(S) /\ Rising(a) /\ Elems(a) = Latest(t)
  BY <1>1, Deduped
<1>6. b \in Seq(S) /\ Rising(b) /\ Elems(b) = {x \in Elems(d) : PeriodStart(x.ts) = p}
  BY <1>3, BarsListed
<1>7. /\ \A k \in 1 .. Len(t) : e[k] \in rows /\ t[k] = X[e[k]]
      /\ \A k, l \in 1 .. Len(t) : k < l => e[k] < e[l]
      /\ \A i \in rows : \E k \in 1 .. Len(t) : e[k] = i
  BY <1>2, <1>4 DEF Picks, PicksUpto
<1>8. ASSUME NEW x \in Latest(t)
      PROVE  x \in Latest(X) /\ PeriodStart(x.ts) = p
  <2>1. PICK k \in 1 .. Len(t) : x = t[k] /\ \A l \in k + 1 .. Len(t) : t[k].ts # t[l].ts
    BY DEF Latest
  <2> DEFINE i == e[k]
  <2>2. i \in 1 .. Len(X) /\ x = X[i] /\ PeriodStart(X[i].ts) = p
    BY <1>4, <1>7, <2>1
  <2>3. ASSUME NEW j \in i + 1 .. Len(X), X[i].ts = X[j].ts
        PROVE  FALSE
    <3>1. j \in rows
      BY <1>4, <2>2, <2>3
    <3>2. PICK l \in 1 .. Len(t) : e[l] = j
      BY <1>7, <3>1
    <3>3. t[l] = X[j]
      BY <1>7, <3>2
    <3>4. i < j /\ i \in Int /\ j \in Int /\ Len(t) \in Nat
      BY <1>1, <2>2, <2>3
    <3>5. ~(l < k) /\ l # k
      BY <1>7, <3>2, <3>4
    <3>6. l \in k + 1 .. Len(t)
      BY <3>4, <3>5
    <3> QED
      BY <2>1, <2>2, <2>3, <3>3, <3>6
  <2> HIDE DEF i
  <2>4. x \in Latest(X)
    BY <2>2, <2>3 DEF Latest
  <2> QED
    BY <2>2, <2>4
<1>9. ASSUME NEW x \in Latest(X), PeriodStart(x.ts) = p
      PROVE  x \in Latest(t)
  <2>1. PICK i \in 1 .. Len(X) : x = X[i] /\ \A j \in i + 1 .. Len(X) : X[i].ts # X[j].ts
    BY DEF Latest
  <2>2. i \in rows
    BY <1>4, <1>9, <2>1
  <2>3. PICK k \in 1 .. Len(t) : e[k] = i
    BY <1>7, <2>2
  <2>4. t[k] = x
    BY <1>7, <2>1, <2>3
  <2>5. ASSUME NEW l \in k + 1 .. Len(t), t[k].ts = t[l].ts
        PROVE  FALSE
    <3>1. l \in 1 .. Len(t) /\ k < l
      BY <1>1
    <3> DEFINE j == e[l]
    <3>2. i < j /\ j \in 1 .. Len(X) /\ t[l] = X[j]
      BY <1>4, <1>7, <2>3, <3>1
    <3> HIDE DEF j
    <3>3. j \in i + 1 .. Len(X)
      BY <3>2
    <3> QED
      BY <2>1, <2>4, <2>5, <3>2, <3>3
  <2> QED
    BY <2>4, <2>5 DEF Latest
<1>10. Elems(a) = Elems(b)
  BY <1>3, <1>5, <1>6, <1>8, <1>9
<1> HIDE DEF a, b
<1>11. a = b
  BY <1>5, <1>6, <1>10, RisingUnique
<1> QED
  BY <1>11 DEF a, b, t, d

-----------------------------------------------------------------------------
(* Reductions.                                                             *)
Given == [Cols -> Int \cup {Missing}]
Cells == [Cols -> Int \cup {Missing, Overflow}]

Celled(S) == \A b \in S : b.cells \in Given

(* A recursion on numbers defines a function.                              *)
Follows(K, n, v, G) == K[0] = v /\ \A i \in 1 .. n : K[i] = G[i][K[i - 1]]

LEMMA Recursion ==
  ASSUME NEW n \in Nat, NEW V, NEW v \in V, NEW G \in [1 .. n -> [V -> V]]
  PROVE  \E K \in [0 .. n -> V] : Follows(K, n, v, G)
<1> DEFINE Upto(K, m) == K[0] = v /\ \A i \in 1 .. m : K[i] = G[i][K[i - 1]]
           T == {m \in 0 .. n : \E K \in [0 .. m -> V] : Upto(K, m)}
<1>1. 0 \in T
  <2> DEFINE K == [i \in 0 .. 0 |-> v]
  <2>1. K \in [0 .. 0 -> V] /\ K[0] = v /\ 1 .. 0 = {} /\ 0 \in 0 .. n
    OBVIOUS
  <2> HIDE DEF K
  <2>2. Upto(K, 0)
    BY <2>1
  <2> QED
    BY <2>1, <2>2
<1>2. ASSUME NEW m \in 0 .. n - 1, m \in T
      PROVE  m + 1 \in T
  <2>1. PICK K \in [0 .. m -> V] : Upto(K, m)
    BY <1>2
  <2> DEFINE l == m + 1
             L == [i \in 0 .. l |-> IF i = l THEN G[l][K[m]] ELSE K[i]]
  <2>2. l \in 1 .. n /\ l \in 0 .. n /\ m = l - 1 /\ m \in 0 .. m /\ l # 0 /\ m \in Nat
    OBVIOUS
  <2>3. \A i \in 0 .. l : i = l \/ i \in 0 .. m
    OBVIOUS
  <2>4. G[l][K[m]] \in V
    BY <2>2
  <2> HIDE DEF l
  <2>5. L \in [0 .. l -> V]
    BY <2>3, <2>4
  <2>6. L[l] = G[l][K[m]] /\ \A i \in 0 .. m : L[i] = K[i]
    BY <2>2
  <2> HIDE DEF L
  <2>7. L[0] = v
    BY <2>1, <2>2, <2>6
  <2>8. ASSUME NEW i \in 1 .. l
        PROVE  L[i] = G[i][L[i - 1]]
    <3>1. CASE i = l
      BY <2>2, <2>6, <3>1
    <3>2. CASE i # l
      <4>1. i \in 1 .. m /\ i \in 0 .. m /\ i - 1 \in 0 .. m
        BY <2>2, <3>2
      <4>2. L[i] = K[i] /\ L[i - 1] = K[i - 1]
        BY <2>6, <4>1
      <4>3. K[i] = G[i][K[i - 1]]
        BY <2>1, <4>1
      <4> QED
        BY <4>2, <4>3
    <3> QED
      BY <3>1, <3>2
  <2>9. Upto(L, l)
    BY <2>7, <2>8
  <2>10. l \in T
    BY <2>2, <2>5, <2>9
  <2> QED
    BY <2>10 DEF l
<1>3. \A m \in 0 .. n - 1 : m \in T => m + 1 \in T
  BY <1>2
<1> HIDE DEF T
<1>4. \A m \in 0 .. n : m \in T
  BY <1>1, <1>3, Inductive
<1>5. n \in T
  BY <1>4
<1> QED
  BY <1>5 DEF T, Follows

(* A fold of cells gives cells.                                            *)
LEMMA FoldTyped ==
  ASSUME NEW ints, NEW a \in Cells, NEW bar, bar.cells \in Given
  PROVE  Fold(ints, a, bar) \in Cells
<1> SUFFICES ASSUME NEW c \in Cols
             PROVE  CombineAt(ints, c, a[c], bar.cells[c]) \in Int \cup {Missing, Overflow}
  BY DEF Fold, Cells
<1> DEFINE x == bar.cells[c]  y == a[c]
<1>1. x \in Int \cup {Missing} /\ y \in Int \cup {Missing, Overflow}
  BY DEF Cells, Given
<1>2. AggOf[c] \in {"first", "last", "max", "min", "sum"}
  BY PeriodFoldAssumption
<1> HIDE DEF x, y
<1>3. CombineAt(ints, c, y, x) \in Int \cup {Missing, Overflow}
  BY <1>1, <1>2, PeriodFoldAssumption DEF CombineAt, Combine
<1> QED
  BY <1>3 DEF x, y

(* The aggregates of ever more bars, up to the reduction of all.           *)
Steps(K, ints, bars) ==
  /\ K[1] = bars[1].cells
  /\ \A i \in 2 .. Len(bars) : K[i] = Fold(ints, K[i - 1], bars[i])

(* A reduction goes through such aggregates.                               *)
LEMMA ReduceSteps ==
  ASSUME NEW S, Celled(S), NEW bars \in Seq(S), bars # <<>>, NEW ints
  PROVE  \E K \in [1 .. Len(bars) -> Cells] :
            Steps(K, ints, bars) /\ Reduce(ints, bars) = K[Len(bars)]
<1> DEFINE n == Len(bars)
           G == [i \in 1 .. n |-> [a \in Cells |-> IF i = 1 THEN bars[1].cells
                                                   ELSE Fold(ints, a, bars[i])]]
           Is(K) == K = [i \in 1 .. n |-> IF i = 1 THEN bars[1].cells
                                          ELSE Fold(ints, K[i - 1], bars[i])]
<1>1. n \in Nat /\ n >= 1 /\ \A i \in 1 .. n : bars[i].cells \in Given
  BY DEF Celled
<1>2. \A a \in Given : a \in Cells
  BY DEF Given, Cells
<1>3. G \in [1 .. n -> [Cells -> Cells]]
  BY <1>1, <1>2, FoldTyped
<1>4. \A i \in 1 .. n, a \in Cells : G[i][a] = IF i = 1 THEN bars[1].cells ELSE Fold(ints, a, bars[i])
  OBVIOUS
<1>5. bars[1].cells \in Cells
  BY <1>1, <1>2
<1> HIDE DEF G, n
<1>6. PICK L \in [0 .. n -> Cells] : Follows(L, n, bars[1].cells, G)
  BY <1>1, <1>3, <1>5, Recursion
<1> DEFINE H == [i \in 1 .. n |-> L[i]]
<1>7. H = [i \in 1 .. n |-> H[i]]
  OBVIOUS
<1>8. ASSUME NEW i \in 1 .. n
      PROVE  H[i] = IF i = 1 THEN bars[1].cells ELSE Fold(ints, H[i - 1], bars[i])
  <2>1. i - 1 \in 0 .. n /\ (i # 1 => i - 1 \in 1 .. n)
    BY <1>1
  <2>2. H[i] = L[i] /\ (i # 1 => H[i - 1] = L[i - 1])
    BY <2>1
  <2>3. L[i - 1] \in Cells
    BY <1>6, <2>1
  <2> HIDE DEF H
  <2> QED
    BY <1>4, <1>6, <2>2, <2>3 DEF Follows
<1>9. H \in [1 .. n -> Cells]
  BY <1>1, <1>6
<1> HIDE DEF H
<1>10. Is(H)
  BY <1>7, <1>8
<1> DEFINE K == CHOOSE K : Is(K)
<1>11. Is(K)
  BY <1>10
<1>12. Reduce(ints, bars) = K[n]
  BY DEF Reduce, n
<1> HIDE DEF K
<1>13. K[1] = bars[1].cells /\ \A i \in 2 .. n : K[i] = Fold(ints, K[i - 1], bars[i])
  BY <1>1, <1>11
<1>14. K = [i \in 1 .. n |-> K[i]]
  BY <1>11
<1> DEFINE T == {i \in 0 .. n : i = 0 \/ K[i] \in Cells}
<1>15. 0 \in T
  BY <1>1
<1>16. ASSUME NEW i \in 0 .. n - 1, i \in T
       PROVE  i + 1 \in T
  <2>1. i + 1 \in 1 .. n /\ i + 1 \in 0 .. n
    BY <1>1
  <2>2. CASE i = 0
    BY <1>5, <1>13, <2>1, <2>2
  <2>3. CASE i # 0
    <3>1. i + 1 \in 2 .. n /\ (i + 1) - 1 = i
      BY <1>1, <2>3
    <3>2. K[i + 1] = Fold(ints, K[i], bars[i + 1])
      BY <1>13, <3>1
    <3>3. K[i] \in Cells
      BY <1>16, <2>3
    <3>4. K[i + 1] \in Cells
      BY <1>1, <2>1, <3>2, <3>3, FoldTyped
    <3> QED
      BY <2>1, <3>4
  <2> QED
    BY <2>2, <2>3
<1>17. \A i \in 0 .. n - 1 : i \in T => i + 1 \in T
  BY <1>16
<1> HIDE DEF T
<1>18. \A i \in 0 .. n : i \in T
  BY <1>1, <1>15, <1>17, Inductive
<1>19. \A i \in 1 .. n : K[i] \in Cells
  BY <1>18 DEF T
<1>20. K \in [1 .. n -> Cells]
  BY <1>14, <1>19
<1> QED
  BY <1>12, <1>13, <1>20 DEF Steps, n

(* The reduction of one bar is its own cells.                              *)
LEMMA ReduceOne ==
  ASSUME NEW S, Celled(S), NEW b \in S, NEW ints
  PROVE  Reduce(ints, <<b>>) = b.cells
<1> DEFINE t == <<b>>
<1>1. t \in Seq(S) /\ t # <<>> /\ Len(t) = 1 /\ t[1] = b
  OBVIOUS
<1> HIDE DEF t
<1>2. PICK K \in [1 .. Len(t) -> Cells] : Steps(K, ints, t) /\ Reduce(ints, t) = K[Len(t)]
  BY <1>1, ReduceSteps
<1> QED
  BY <1>1, <1>2 DEF Steps, t

(* A reduction gives cells.                                                *)
LEMMA ReduceTyped ==
  ASSUME NEW S, Celled(S), NEW bars \in Seq(S), bars # <<>>, NEW ints
  PROVE  Reduce(ints, bars) \in Cells
<1>1. PICK K \in [1 .. Len(bars) -> Cells] : Reduce(ints, bars) = K[Len(bars)]
  BY ReduceSteps
<1>2. Len(bars) \in 1 .. Len(bars)
  OBVIOUS
<1> QED
  BY <1>1, <1>2

(* One more bar folds into the reduction of the bars before it.            *)
LEMMA ReduceAppend ==
  ASSUME NEW S, Celled(S), NEW bars \in Seq(S), bars # <<>>, NEW b \in S, NEW ints
  PROVE  Reduce(ints, Append(bars, b)) = Fold(ints, Reduce(ints, bars), b)
<1> DEFINE more == Append(bars, b)  n == Len(bars)
<1>1. /\ more \in Seq(S) /\ more # <<>> /\ n \in Nat /\ n >= 1 /\ Len(more) = n + 1
      /\ more[n + 1] = b /\ \A i \in 1 .. n : more[i] = bars[i]
  OBVIOUS
<1>2. PICK K \in [1 .. Len(bars) -> Cells] : Steps(K, ints, bars) /\ Reduce(ints, bars) = K[Len(bars)]
  BY ReduceSteps
<1> HIDE DEF more
<1>3. PICK L \in [1 .. Len(more) -> Cells] : Steps(L, ints, more) /\ Reduce(ints, more) = L[Len(more)]
  BY <1>1, ReduceSteps
<1>4. K[1] = bars[1].cells /\ \A i \in 2 .. n : K[i] = Fold(ints, K[i - 1], bars[i])
  BY <1>2 DEF Steps
<1>5. L[1] = bars[1].cells /\ \A i \in 2 .. n + 1 : L[i] = Fold(ints, L[i - 1], more[i])
  BY <1>1, <1>3 DEF Steps
<1> HIDE DEF n
<1> DEFINE T == {i \in 0 .. n : i = 0 \/ K[i] = L[i]}
<1>6. 0 \in T
  BY <1>1
<1>7. ASSUME NEW i \in 0 .. n - 1, i \in T
      PROVE  i + 1 \in T
  <2>1. i + 1 \in 1 .. n /\ i + 1 \in 0 .. n
    BY <1>1
  <2>2. CASE i = 0
    BY <1>4, <1>5, <2>1, <2>2
  <2>3. CASE i # 0
    <3>1. i + 1 \in 2 .. n /\ i + 1 \in 2 .. n + 1 /\ (i + 1) - 1 = i
      BY <1>1, <2>3
    <3>2. K[i + 1] = Fold(ints, K[i], bars[i + 1]) /\ L[i + 1] = Fold(ints, L[i], more[i + 1])
      BY <1>4, <1>5, <3>1
    <3>3. K[i] = L[i] /\ more[i + 1] = bars[i + 1]
      BY <1>1, <1>7, <2>1, <2>3
    <3> QED
      BY <2>1, <3>2, <3>3
  <2> QED
    BY <2>2, <2>3
<1>8. \A i \in 0 .. n - 1 : i \in T => i + 1 \in T
  BY <1>7
<1> HIDE DEF T
<1>9. n \in T
  <2>1. \A i \in 0 .. n : i \in T
    BY <1>1, <1>6, <1>8, Inductive
  <2> QED
    BY <1>1, <2>1
<1>10. K[n] = L[n]
  BY <1>1, <1>9 DEF T
<1>11. n + 1 \in 2 .. n + 1 /\ (n + 1) - 1 = n
  BY <1>1
<1>12. L[n + 1] = Fold(ints, L[n], b)
  BY <1>1, <1>5, <1>11
<1> QED
  BY <1>1, <1>2, <1>3, <1>10, <1>12 DEF n, more

-----------------------------------------------------------------------------
(* Coarse rows.                                                            *)
LEMMA LatestOfStamp ==
  ASSUME NEW S, Stamped(S), NEW X \in Seq(S), Ordered(X), NEW b \in Elems(X)
  PROVE  \E x \in Latest(X) : x.ts = b.ts
<1> DEFINE s == Stamps(X)  n == Len(X)
<1>1. s \in Seq(Int) /\ Len(s) = n /\ Up(s) /\ \A i \in 1 .. n : s[i] = X[i].ts
  BY StampsUp
<1>2. PICK i \in 1 .. n : b = X[i]
  BY DEF Elems
<1> HIDE DEF s, n
<1>3. PICK j \in RunEnds(s) : s[j] = s[i]
  BY <1>1, <1>2, RunEnd
<1>4. j \in 1 .. n
  BY <1>1, <1>3 DEF RunEnds
<1>5. \A k \in j + 1 .. Len(s) : s[j] < s[k]
  BY <1>1, <1>3, <1>4, RunEndsLast
<1>6. \A k \in 1 .. n : s[k] \in Int
  BY <1>1
<1>7. ASSUME NEW k \in j + 1 .. n
      PROVE  X[j].ts # X[k].ts
  <2>1. k \in 1 .. n /\ k \in j + 1 .. Len(s)
    BY <1>1, <1>4
  <2>2. s[j] < s[k] /\ s[j] \in Int /\ s[k] \in Int
    BY <1>4, <1>5, <1>6, <2>1
  <2>3. s[j] = X[j].ts /\ s[k] = X[k].ts
    BY <1>1, <1>4, <2>1
  <2> QED
    BY <2>2, <2>3
<1>8. X[j] \in Latest(X)
  BY <1>4, <1>7 DEF Latest, n
<1>9. X[j].ts = b.ts
  BY <1>1, <1>2, <1>3, <1>4
<1> QED
  BY <1>8, <1>9

LEMMA LatestIn ==
  ASSUME NEW X
  PROVE  Latest(X) \subseteq Elems(X)
BY DEF Latest, Elems

(* The latest bars fall into the same periods as all bars.                 *)
LEMMA DedupPeriods ==
  ASSUME NEW S, Stamped(S), NEW X \in Seq(S), Ordered(X), NEW d, d = DedupKeepLast(X)
  PROVE  PeriodsOf(X) = PeriodsOf(d) /\ PeriodSet(d) = PeriodSet(X)
<1>1. d \in Seq(S) /\ Rising(d) /\ Elems(d) = Latest(X)
  BY Deduped
<1>2. Ordered(d)
  BY <1>1, RisingOrdered
<1>3. PeriodSet(d) = PeriodSet(X)
  <2>1. Elems(d) \subseteq Elems(X)
    BY <1>1, LatestIn
  <2>2. \A b \in Elems(X) : \E x \in Elems(d) : x.ts = b.ts
    BY <1>1, LatestOfStamp
  <2> QED
    BY <2>1, <2>2 DEF PeriodSet
<1> DEFINE p == PeriodsOf(X)  q == PeriodsOf(d)
<1>4. p \in Seq(Int) /\ Climbing(p) /\ Elems(p) = PeriodSet(X)
  BY PeriodsListed
<1>5. q \in Seq(Int) /\ Climbing(q) /\ Elems(q) = PeriodSet(d)
  BY <1>1, <1>2, PeriodsListed
<1> HIDE DEF p, q
<1>6. p = q
  BY <1>3, <1>4, <1>5, ClimbingUnique
<1> QED
  BY <1>3, <1>6 DEF p, q

CoarseRow(ints, bars, p) == [ts |-> p, cells |-> Reduce(ints, BarsIn(bars, p))]

CoarseRows(ints, bars, periods) ==
  [i \in 1 .. Len(periods) |-> CoarseRow(ints, bars, periods[i])]

(* A sequence is empty if nothing is in it.                                *)
LEMMA NoneOf ==
  ASSUME NEW S, NEW t \in Seq(S)
  PROVE  t = <<>> <=> Elems(t) = {}
<1>1. Len(t) \in Nat
  OBVIOUS
<1>2. t # <<>> => Len(t) >= 1
  OBVIOUS
<1>3. t # <<>> => t[1] \in Elems(t)
  BY <1>1, <1>2 DEF Elems
<1>4. t = <<>> => Elems(t) = {}
  BY DEF Elems
<1> QED
  BY <1>3, <1>4

(* A period that has bars shows them, each of that period.                 *)
LEMMA BarsInSome ==
  ASSUME NEW S, Stamped(S), NEW X \in Seq(S), NEW p \in PeriodSet(X), NEW t, t = BarsIn(X, p)
  PROVE  t # <<>> /\ \A i \in 1 .. Len(t) : PeriodStart(t[i].ts) = p
<1>1. t \in Seq(S) /\ Elems(t) = {b \in Elems(X) : PeriodStart(b.ts) = p}
  BY BarsListed
<1>2. Elems(t) # {}
  BY <1>1 DEF PeriodSet
<1>3. t # <<>>
  BY <1>1, <1>2, NoneOf
<1>4. \A i \in 1 .. Len(t) : t[i] \in Elems(t)
  BY DEF Elems
<1> QED
  BY <1>1, <1>3, <1>4

(* Cumulating bars in order is cumulating the latest ones.                 *)
LEMMA CumulateLatest ==
  ASSUME NEW S, Stamped(S), NEW X \in Seq(S), Ordered(X), NEW d, d = DedupKeepLast(X), NEW ints
  PROVE  /\ Cumulate(ints, X) = CoarseRows(ints, d, PeriodsOf(d))
         /\ PeriodsOf(X) = PeriodsOf(d)
<1> DEFINE q == PeriodsOf(X)
<1>1. q = PeriodsOf(d)
  BY DedupPeriods
<1>2. q \in Seq(Int) /\ Elems(q) = PeriodSet(X)
  BY PeriodsListed
<1>3. Cumulate(ints, X) = [i \in 1 .. Len(q) |-> AggregatePeriod(ints, BarsIn(X, q[i]))]
  BY DEF Cumulate
<1> HIDE DEF q
<1>4. ASSUME NEW i \in 1 .. Len(q)
      PROVE  AggregatePeriod(ints, BarsIn(X, q[i])) = CoarseRow(ints, d, q[i])
  <2> DEFINE p == q[i]  t == BarsIn(X, p)
  <2>1. p \in PeriodSet(X)
    BY <1>2 DEF Elems
  <2>2. t = BarsIn(X, p)
    OBVIOUS
  <2> HIDE DEF p, t
  <2>3. t # <<>> /\ \A k \in 1 .. Len(t) : PeriodStart(t[k].ts) = p
    BY <2>1, <2>2, BarsInSome
  <2>4. t \in Seq(S)
    BY <2>2, BarsListed
  <2>5. PeriodStart(t[1].ts) = p
    BY <2>3, <2>4
  <2>6. DedupKeepLast(t) = BarsIn(d, p)
    BY <2>2, DedupOfPeriod
  <2> QED
    BY <2>5, <2>6 DEF AggregatePeriod, CoarseRow, t, p
<1> QED
  BY <1>1, <1>3, <1>4 DEF CoarseRows, q

(* The last of bars in order is the latest of them.                        *)
LEMMA LastIsLatest ==
  ASSUME NEW S, Stamped(S), NEW X \in Seq(S), Rising(X), X # <<>>, NEW l, l = LastOf(X)
  PROVE  l \in Elems(X) /\ l \in S /\ \A b \in Elems(X) : b.ts <= l.ts /\ (b.ts = l.ts => b = l)
<1>1. Len(X) \in Nat /\ Len(X) \in 1 .. Len(X)
  OBVIOUS
<1>2. l = X[Len(X)]
  BY DEF LastOf
<1>3. l \in Elems(X) /\ l \in S
  BY <1>1, <1>2 DEF Elems
<1>4. ASSUME NEW i \in 1 .. Len(X)
      PROVE  X[i].ts <= l.ts /\ (X[i].ts = l.ts => X[i] = l)
  <2>1. X[i].ts \in Int /\ l.ts \in Int
    BY <1>3 DEF Stamped
  <2>2. CASE i = Len(X)
    BY <1>2, <2>1, <2>2
  <2>3. CASE i # Len(X)
    <3>1. i < Len(X)
      BY <1>1, <2>3
    <3>2. X[i].ts < l.ts
      BY <1>1, <1>2, <3>1 DEF Rising
    <3> QED
      BY <2>1, <3>2
  <2> QED
    BY <2>2, <2>3
<1> QED
  BY <1>3, <1>4 DEF Elems

(* The last of increasing numbers is the greatest.                         *)
LEMMA LastIsGreatest ==
  ASSUME NEW t \in Seq(Int), Climbing(t), t # <<>>, NEW l, l = LastOf(t)
  PROVE  l \in Elems(t) /\ l \in Int /\ \A b \in Elems(t) : b <= l
<1>1. Len(t) \in Nat /\ Len(t) \in 1 .. Len(t)
  OBVIOUS
<1>2. l = t[Len(t)]
  BY DEF LastOf
<1>3. l \in Elems(t) /\ l \in Int
  BY <1>1, <1>2 DEF Elems
<1>4. ASSUME NEW i \in 1 .. Len(t)
      PROVE  t[i] <= l
  <2>1. t[i] \in Int /\ l \in Int
    BY <1>3
  <2>2. CASE i = Len(t)
    BY <1>2, <2>1, <2>2
  <2>3. CASE i # Len(t)
    <3>1. i < Len(t)
      BY <1>1, <2>3
    <3>2. t[i] < l
      BY <1>1, <1>2, <3>1 DEF Climbing
    <3> QED
      BY <2>1, <3>2
  <2> QED
    BY <2>2, <2>3
<1> QED
  BY <1>3, <1>4 DEF Elems

(* The last period is that of the last bar.                                *)
LEMMA LastPeriod ==
  ASSUME NEW S, Stamped(S), NEW X \in Seq(S), Rising(X), X # <<>>, NEW L, L = PeriodStart(LastOf(X).ts)
  PROVE  /\ PeriodsOf(X) # <<>> /\ LastOf(PeriodsOf(X)) = L /\ L \in Int /\ L \in PeriodSet(X)
         /\ \A b \in Elems(X) : PeriodStart(b.ts) <= L
<1> DEFINE l == LastOf(X)  q == PeriodsOf(X)
<1>1. l \in Elems(X) /\ l \in S /\ \A b \in Elems(X) : b.ts <= l.ts
  BY LastIsLatest
<1>2. Ordered(X)
  BY RisingOrdered
<1>3. q \in Seq(Int) /\ Climbing(q) /\ Elems(q) = PeriodSet(X)
  BY <1>2, PeriodsListed
<1>4. L = PeriodStart(l.ts) /\ l.ts \in Int
  BY <1>1 DEF Stamped
<1> HIDE DEF l, q
<1>5. L \in PeriodSet(X) /\ L \in Int
  BY <1>1, <1>4, PeriodOf DEF PeriodSet
<1>6. \A b \in Elems(X) : b \in S /\ b.ts \in Int
  BY DEF Elems, Stamped
<1>7. \A b \in Elems(X) : PeriodStart(b.ts) <= L
  BY <1>1, <1>4, <1>6, PeriodMonotone
<1>8. q # <<>>
  BY <1>3, <1>5, NoneOf
<1> DEFINE m == LastOf(q)
<1>9. m \in Elems(q) /\ m \in Int /\ \A p \in Elems(q) : p <= m
  BY <1>3, <1>8, LastIsGreatest
<1> HIDE DEF m
<1>10. L <= m
  BY <1>3, <1>5, <1>9
<1>11. m <= L
  BY <1>3, <1>7, <1>9 DEF PeriodSet
<1>12. m = L
  BY <1>5, <1>9, <1>10, <1>11
<1> QED
  BY <1>5, <1>7, <1>8, <1>12 DEF q, m

-----------------------------------------------------------------------------
(* Bars that go on where others end.                                       *)
LEMMA FrontOf ==
  ASSUME NEW S, NEW t \in Seq(S), t # <<>>
  PROVE  /\ Front(t) \in Seq(S) /\ Len(Front(t)) = Len(t) - 1
         /\ \A i \in 1 .. Len(t) - 1 : Front(t)[i] = t[i]
<1> DEFINE m == Len(t) - 1
<1>1. m \in Nat /\ m <= Len(t) /\ (m - 1) + 1 = m
  OBVIOUS
<1>2. SubSeq(t, 1, m) = [i \in 1 .. (m - 1) + 1 |-> t[(1 + i) - 1]]
  BY <1>1
<1>3. \A i \in 1 .. m : t[(1 + i) - 1] = t[i] /\ t[i] \in S
  OBVIOUS
<1> HIDE DEF m
<1>4. Front(t) = [i \in 1 .. m |-> t[i]]
  BY <1>1, <1>2, <1>3 DEF Front, m
<1> QED
  BY <1>1, <1>3, <1>4 DEF m

(* The latest of bars and of those after them: a bar that is re-sent is    *)
(* not.                                                                    *)
LEMMA JoinedLatest ==
  ASSUME NEW S, Stamped(S), NEW X \in Seq(S), Rising(X), NEW B \in Seq(S)
  PROVE  Latest(X \o B) = {x \in Elems(X) : \A y \in Elems(B) : x.ts # y.ts} \cup Latest(B)
<1> DEFINE Z == X \o B  n == Len(X)  m == Len(B)
<1>1. /\ Len(Z) = n + m /\ n \in Nat /\ m \in Nat
      /\ \A i \in 1 .. n : Z[i] = X[i]
      /\ \A i \in 1 .. m : Z[n + i] = B[i]
  OBVIOUS
<1>2. \A i \in 1 .. n + m : i \in 1 .. n \/ (i - n \in 1 .. m /\ i = n + (i - n))
  BY <1>1
<1>3. /\ Elems(X) = {X[i] : i \in 1 .. n} /\ Elems(B) = {B[i] : i \in 1 .. m}
      /\ \A i \in 1 .. n, j \in 1 .. n : i < j => X[i].ts < X[j].ts
      /\ \A i \in 1 .. n : X[i].ts \in Int
  BY DEF Elems, Rising, Stamped
<1> HIDE DEF Z
<1>4. ASSUME NEW x \in Latest(Z)
      PROVE  x \in {w \in Elems(X) : \A y \in Elems(B) : w.ts # y.ts} \cup Latest(B)
  <2>1. PICK i \in 1 .. n + m : x = Z[i] /\ \A j \in i + 1 .. n + m : Z[i].ts # Z[j].ts
    BY <1>1 DEF Latest
  <2>2. CASE i \in 1 .. n
    <3>1. ASSUME NEW k \in 1 .. m
          PROVE  x.ts # B[k].ts
      <4>1. n + k \in i + 1 .. n + m
        BY <1>1, <2>2
      <4> QED
        BY <1>1, <2>1, <4>1
    <3> QED
      BY <1>1, <1>3, <2>1, <2>2, <3>1
  <2>3. CASE i \notin 1 .. n
    <3> DEFINE k == i - n
    <3>1. k \in 1 .. m /\ i = n + k
      BY <1>2, <2>3
    <3> HIDE DEF k
    <3>2. x = B[k]
      BY <1>1, <2>1, <3>1
    <3>3. ASSUME NEW j \in k + 1 .. m
          PROVE  B[k].ts # B[j].ts
      <4>1. n + j \in i + 1 .. n + m /\ j \in 1 .. m
        BY <1>1, <3>1
      <4> QED
        BY <1>1, <2>1, <3>2, <4>1
    <3>4. x \in Latest(B)
      BY <3>1, <3>2, <3>3 DEF Latest
    <3> QED
      BY <3>4
  <2> QED
    BY <2>2, <2>3
<1>5. ASSUME NEW x \in Elems(X), \A y \in Elems(B) : x.ts # y.ts
      PROVE  x \in Latest(Z)
  <2>1. PICK i \in 1 .. n : x = X[i]
    BY <1>3
  <2>2. ASSUME NEW j \in i + 1 .. n + m
        PROVE  Z[i].ts # Z[j].ts
    <3>1. CASE j \in 1 .. n
      <4>1. i < j /\ i \in 1 .. n
        BY <1>1
      <4>2. X[i].ts < X[j].ts /\ X[i].ts \in Int /\ X[j].ts \in Int
        BY <1>3, <3>1, <4>1
      <4>3. X[i].ts # X[j].ts
        BY <4>2
      <4> QED
        BY <1>1, <3>1, <4>3
    <3>2. CASE j \notin 1 .. n
      <4>1. j \in 1 .. n + m
        BY <1>1
      <4>2. j - n \in 1 .. m /\ j = n + (j - n)
        BY <1>2, <3>2, <4>1
      <4>3. Z[j] = B[j - n] /\ B[j - n] \in Elems(B)
        BY <1>1, <1>3, <4>2
      <4> QED
        BY <1>1, <1>5, <2>1, <4>3
    <3> QED
      BY <3>1, <3>2
  <2>3. i \in 1 .. n + m /\ x = Z[i]
    BY <1>1, <2>1
  <2> QED
    BY <1>1, <2>2, <2>3 DEF Latest
<1>6. ASSUME NEW x \in Latest(B)
      PROVE  x \in Latest(Z)
  <2>1. PICK k \in 1 .. m : x = B[k] /\ \A j \in k + 1 .. m : B[k].ts # B[j].ts
    BY DEF Latest
  <2> DEFINE i == n + k
  <2>2. i \in 1 .. n + m /\ Z[i] = x
    BY <1>1, <2>1
  <2>3. ASSUME NEW j \in i + 1 .. n + m
        PROVE  Z[i].ts # Z[j].ts
    <3> DEFINE l == j - n
    <3>1. l \in k + 1 .. m /\ l \in 1 .. m /\ j = n + l
      BY <1>1
    <3> HIDE DEF l
    <3>2. Z[j] = B[l] /\ B[k].ts # B[l].ts
      BY <1>1, <2>1, <3>1
    <3> QED
      BY <2>1, <2>2, <3>2
  <2> HIDE DEF i
  <2> QED
    BY <1>1, <2>2, <2>3 DEF Latest
<1> QED
  BY <1>4, <1>5, <1>6 DEF Z

(* Appending to all bars and appending to those of the last period only.   *)
Merges(F, D, G, L) ==
  /\ Elems(G) = {b \in Elems(F) : PeriodStart(b.ts) < L} \cup Elems(D)
  /\ \A b \in Elems(D) : PeriodStart(b.ts) >= L

AreOpen(o, S, F, L) ==
  /\ o \in Seq(S) /\ Rising(o) /\ o # <<>> /\ LastOf(o) = LastOf(F) /\ L \in Int
  /\ \A i \in 1 .. Len(o) : PeriodStart(o[i].ts) = L
  /\ Elems(o) = {b \in Elems(F) : PeriodStart(b.ts) = L}

(* The bars of the last period end with the last bar.                      *)
LEMMA OpenBars ==
  ASSUME NEW S, Stamped(S), NEW F \in Seq(S), Rising(F), F # <<>>,
         NEW L, L = PeriodStart(LastOf(F).ts), NEW o, o = BarsIn(F, L)
  PROVE  AreOpen(o, S, F, L)
<1>1. o \in Seq(S) /\ Rising(o) /\ Elems(o) = {b \in Elems(F) : PeriodStart(b.ts) = L}
  BY BarsListed
<1>2. L \in Int /\ L \in PeriodSet(F)
  BY LastPeriod
<1>3. o # <<>> /\ \A i \in 1 .. Len(o) : PeriodStart(o[i].ts) = L
  BY <1>2, BarsInSome
<1> DEFINE l == LastOf(F)  k == LastOf(o)
<1>4. l \in Elems(F) /\ l \in S /\ \A b \in Elems(F) : b.ts <= l.ts /\ (b.ts = l.ts => b = l)
  BY LastIsLatest
<1>5. k \in Elems(o) /\ k \in S /\ \A b \in Elems(o) : b.ts <= k.ts /\ (b.ts = k.ts => b = k)
  BY <1>1, <1>3, LastIsLatest
<1>6. l.ts \in Int /\ k.ts \in Int /\ PeriodStart(l.ts) = L
  BY <1>4, <1>5 DEF Stamped
<1> HIDE DEF l, k
<1>7. k.ts <= l.ts /\ l.ts <= k.ts
  BY <1>1, <1>4, <1>5, <1>6
<1>8. k = l
  BY <1>1, <1>4, <1>5, <1>6, <1>7
<1> QED
  BY <1>1, <1>2, <1>3, <1>8 DEF k, l, AreOpen

(* Two sequences of bars are in order together if each is and the second   *)
(* begins no earlier than the first ends.                                  *)
LEMMA OrderedJoin ==
  ASSUME NEW S, Stamped(S), NEW X \in Seq(S), X # <<>>, NEW B \in Seq(S)
  PROVE  Ordered(X \o B) <=> Ordered(X) /\ Ordered(B) /\ (B # <<>> => LastOf(X).ts <= B[1].ts)
<1> DEFINE Z == X \o B  n == Len(X)  m == Len(B)
<1>1. /\ Len(Z) = n + m /\ n \in Nat /\ m \in Nat /\ n >= 1 /\ (B # <<>> <=> m >= 1)
      /\ \A i \in 1 .. n : Z[i] = X[i]
      /\ \A i \in 1 .. m : Z[n + i] = B[i]
      /\ LastOf(X) = X[n]
  BY DEF LastOf
<1> HIDE DEF Z, n, m
<1>2. Ordered(Z) <=> \A i \in 1 .. n + m - 1 : Z[i].ts <= Z[i + 1].ts
  BY <1>1 DEF Ordered
<1>3. ASSUME Ordered(Z)
      PROVE  Ordered(X) /\ Ordered(B) /\ (B # <<>> => LastOf(X).ts <= B[1].ts)
  <2>1. ASSUME NEW i \in 1 .. n - 1
        PROVE  X[i].ts <= X[i + 1].ts
    <3>1. i \in 1 .. n /\ i + 1 \in 1 .. n /\ i \in 1 .. n + m - 1
      BY <1>1
    <3>2. Z[i].ts <= Z[i + 1].ts
      BY <1>2, <1>3, <3>1
    <3> QED
      BY <1>1, <3>1, <3>2
  <2>2. ASSUME NEW i \in 1 .. m - 1
        PROVE  B[i].ts <= B[i + 1].ts
    <3>1. i \in 1 .. m /\ i + 1 \in 1 .. m /\ n + i \in 1 .. n + m - 1 /\ (n + i) + 1 = n + (i + 1)
      BY <1>1
    <3>2. Z[n + i].ts <= Z[n + (i + 1)].ts
      BY <1>2, <1>3, <3>1
    <3> QED
      BY <1>1, <3>1, <3>2
  <2>3. ASSUME B # <<>>
        PROVE  X[n].ts <= B[1].ts
    <3>1. n \in 1 .. n /\ 1 \in 1 .. m /\ n \in 1 .. n + m - 1
      BY <1>1, <2>3
    <3>2. Z[n].ts <= Z[n + 1].ts
      BY <1>2, <1>3, <3>1
    <3> QED
      BY <1>1, <3>1, <3>2
  <2> QED
    BY <1>1, <2>1, <2>2, <2>3 DEF Ordered, n, m
<1>4. ASSUME Ordered(X), Ordered(B), B # <<>> => LastOf(X).ts <= B[1].ts
      PROVE  Ordered(Z)
  <2> SUFFICES ASSUME NEW i \in 1 .. n + m - 1
               PROVE  Z[i].ts <= Z[i + 1].ts
    BY <1>2
  <2>1. CASE i < n
    <3>1. i \in 1 .. n - 1 /\ i \in 1 .. n /\ i + 1 \in 1 .. n
      BY <1>1, <2>1
    <3>2. X[i].ts <= X[i + 1].ts
      BY <1>4, <3>1 DEF Ordered, n
    <3> QED
      BY <1>1, <3>1, <3>2
  <2>2. CASE i = n
    <3>1. m >= 1 /\ 1 \in 1 .. m /\ n \in 1 .. n
      BY <1>1, <2>2
    <3>2. X[n].ts <= B[1].ts
      BY <1>1, <1>4, <3>1
    <3> QED
      BY <1>1, <2>2, <3>1, <3>2
  <2>3. CASE i > n
    <3> DEFINE k == i - n
    <3>1. k \in 1 .. m - 1 /\ k \in 1 .. m /\ k + 1 \in 1 .. m /\ i = n + k /\ i + 1 = n + (k + 1)
      BY <1>1, <2>3
    <3> HIDE DEF k
    <3>2. B[k].ts <= B[k + 1].ts
      BY <1>4, <3>1 DEF Ordered, m
    <3> QED
      BY <1>1, <3>1, <3>2
  <2> QED
    BY <1>1, <2>1, <2>2, <2>3
<1> QED
  BY <1>3, <1>4 DEF Z

(* Bars taken after F keep F's earlier periods and change its last one     *)
(* only.                                                                   *)
LEMMA Merging ==
  ASSUME NEW S, Stamped(S), NEW F \in Seq(S), Rising(F), F # <<>>, NEW B \in Seq(S),
         NEW L, L = PeriodStart(LastOf(F).ts), NEW o, o = BarsIn(F, L), Ordered(o \o B),
         NEW G, G = DedupKeepLast(F \o B), NEW D, D = DedupKeepLast(o \o B)
  PROVE  /\ G \in Seq(S) /\ Rising(G) /\ D \in Seq(S) /\ Rising(D) /\ D # <<>>
         /\ Merges(F, D, G, L)
<1>1. /\ o \in Seq(S) /\ Rising(o) /\ o # <<>> /\ LastOf(o) = LastOf(F) /\ L \in Int
      /\ Elems(o) = {b \in Elems(F) : PeriodStart(b.ts) = L}
  BY OpenBars DEF AreOpen
<1> DEFINE l == LastOf(F)
<1>2. Ordered(B) /\ (B # <<>> => l.ts <= B[1].ts)
  BY <1>1, OrderedJoin
<1>3. Ordered(F)
  BY RisingOrdered
<1>4. Ordered(F \o B)
  BY <1>2, <1>3, OrderedJoin
<1>5. F \o B \in Seq(S) /\ o \o B \in Seq(S)
  BY <1>1
<1>6. G \in Seq(S) /\ Rising(G) /\ Elems(G) = Latest(F \o B)
  BY <1>4, <1>5, Deduped
<1>7. D \in Seq(S) /\ Rising(D) /\ Elems(D) = Latest(o \o B)
  BY <1>5, Deduped
<1>8. Latest(F \o B) = {x \in Elems(F) : \A y \in Elems(B) : x.ts # y.ts} \cup Latest(B)
  BY JoinedLatest
<1>9. Latest(o \o B) = {x \in Elems(o) : \A y \in Elems(B) : x.ts # y.ts} \cup Latest(B)
  BY <1>1, JoinedLatest
<1>10. l \in Elems(F) /\ l \in S /\ l.ts \in Int /\ L = PeriodStart(l.ts)
  BY LastIsLatest DEF Stamped
<1>11. \A b \in Elems(F) : PeriodStart(b.ts) <= L /\ b \in S /\ b.ts \in Int
  BY LastPeriod DEF Elems, Stamped
<1> HIDE DEF l
<1>12. ASSUME NEW y \in Elems(B)
       PROVE  y.ts \in Int /\ PeriodStart(y.ts) >= L /\ PeriodStart(y.ts) \in Int
  <2>1. PICK i \in 1 .. Len(B) : y = B[i]
    BY DEF Elems
  <2>2. Len(B) \in Nat /\ 1 \in 1 .. Len(B) /\ 1 <= i /\ B # <<>>
    OBVIOUS
  <2>3. B[1].ts <= B[i].ts
    BY <1>2, <2>2, OrderedPairs
  <2>4. B[1].ts \in Int /\ B[i].ts \in Int
    BY <2>2 DEF Stamped
  <2>5. l.ts <= y.ts /\ y.ts \in Int
    BY <1>2, <1>10, <2>1, <2>2, <2>3, <2>4
  <2>6. PeriodStart(l.ts) <= PeriodStart(y.ts)
    BY <1>10, <2>5, PeriodMonotone
  <2>7. PeriodStart(y.ts) \in Int
    BY <2>5, PeriodOf
  <2> QED
    BY <1>1, <1>10, <2>5, <2>6, <2>7
<1>13. Latest(B) \subseteq Elems(B)
  BY LatestIn
<1>14. \A x \in Elems(F) : PeriodStart(x.ts) \in Int
  BY <1>11, PeriodOf
<1>15. \A b \in Elems(D) : PeriodStart(b.ts) >= L
  BY <1>1, <1>7, <1>9, <1>12, <1>13
<1>16. ASSUME NEW x \in Elems(F), PeriodStart(x.ts) < L, NEW y \in Elems(B)
       PROVE  x.ts # y.ts
  BY <1>1, <1>12, <1>14, <1>16
<1>17. \A x \in Elems(F) : PeriodStart(x.ts) < L \/ x \in Elems(o)
  BY <1>1, <1>11, <1>14
<1>18. Elems(G) = {b \in Elems(F) : PeriodStart(b.ts) < L} \cup Elems(D)
  BY <1>1, <1>6, <1>7, <1>8, <1>9, <1>16, <1>17
<1>19. D # <<>>
  <2>1. Len(o \o B) = Len(o) + Len(B) /\ Len(o) \in Nat /\ Len(B) \in Nat /\ Len(o) >= 1
    BY <1>1
  <2>2. o \o B # <<>>
    BY <2>1
  <2>3. Elems(o \o B) # {}
    BY <1>5, <2>2, NoneOf
  <2>4. PICK b \in Elems(o \o B) : TRUE
    BY <2>3
  <2>5. Latest(o \o B) # {}
    BY <1>5, <2>4, LatestOfStamp
  <2> QED
    BY <1>7, <2>5, NoneOf
<1> QED
  BY <1>6, <1>7, <1>15, <1>18, <1>19 DEF Merges

(* Two sequences that agree on a period show the same bars of it.          *)
LEMMA SameBars ==
  ASSUME NEW S, Stamped(S), NEW X \in Seq(S), Rising(X), NEW Y \in Seq(S), Rising(Y), NEW p,
         {b \in Elems(X) : PeriodStart(b.ts) = p} = {b \in Elems(Y) : PeriodStart(b.ts) = p}
  PROVE  BarsIn(X, p) = BarsIn(Y, p)
<1> DEFINE x == BarsIn(X, p)  y == BarsIn(Y, p)
<1>1. x \in Seq(S) /\ Rising(x) /\ Elems(x) = {b \in Elems(X) : PeriodStart(b.ts) = p}
  BY BarsListed
<1>2. y \in Seq(S) /\ Rising(y) /\ Elems(y) = {b \in Elems(Y) : PeriodStart(b.ts) = p}
  BY BarsListed
<1> HIDE DEF x, y
<1>3. x = y
  BY <1>1, <1>2, RisingUnique
<1> QED
  BY <1>3 DEF x, y

(* Two sequences of periods, the second going on where the first ends.     *)
LEMMA Climbs ==
  ASSUME NEW r \in Seq(Int), NEW q \in Seq(Int), Climbing(r), Climbing(q),
         \A x \in Elems(r), y \in Elems(q) : x < y
  PROVE  r \o q \in Seq(Int) /\ Climbing(r \o q) /\ Elems(r \o q) = Elems(r) \cup Elems(q)
<1> DEFINE z == r \o q  n == Len(r)  m == Len(q)
<1>1. /\ z \in Seq(Int) /\ Len(z) = n + m /\ n \in Nat /\ m \in Nat
      /\ \A i \in 1 .. n : z[i] = r[i]
      /\ \A i \in 1 .. m : z[n + i] = q[i]
  OBVIOUS
<1>2. \A i \in 1 .. n + m : i \in 1 .. n \/ (i - n \in 1 .. m /\ i = n + (i - n))
  BY <1>1
<1>3. (\A i \in 1 .. n : r[i] \in Elems(r)) /\ (\A i \in 1 .. m : q[i] \in Elems(q))
  BY DEF Elems
<1> HIDE DEF z
<1>4. ASSUME NEW i \in 1 .. n + m, NEW j \in 1 .. n + m, i < j
      PROVE  z[i] < z[j]
  <2>1. CASE j \in 1 .. n
    <3>1. i \in 1 .. n
      BY <1>1, <1>4, <2>1
    <3> QED
      BY <1>1, <1>4, <2>1, <3>1 DEF Climbing
  <2>2. CASE j \notin 1 .. n
    <3> DEFINE l == j - n
    <3>1. l \in 1 .. m /\ j = n + l
      BY <1>2, <2>2
    <3>2. CASE i \in 1 .. n
      <4> HIDE DEF l
      <4> QED
        BY <1>1, <1>3, <3>1, <3>2
    <3>3. CASE i \notin 1 .. n
      <4> DEFINE k == i - n
      <4>1. k \in 1 .. m /\ i = n + k /\ k < l
        BY <1>1, <1>2, <1>4, <3>1, <3>3
      <4> HIDE DEF k, l
      <4>2. q[k] < q[l]
        BY <3>1, <4>1 DEF Climbing
      <4> QED
        BY <1>1, <3>1, <4>1, <4>2
    <3> QED
      BY <3>2, <3>3
  <2> QED
    BY <2>1, <2>2
<1>5. Climbing(z)
  BY <1>1, <1>4 DEF Climbing
<1>6. ASSUME NEW x \in Elems(z)
      PROVE  x \in Elems(r) \cup Elems(q)
  <2>1. PICK i \in 1 .. n + m : x = z[i]
    BY <1>1 DEF Elems
  <2>2. CASE i \in 1 .. n
    BY <1>1, <1>3, <2>1, <2>2
  <2>3. CASE i \notin 1 .. n
    <3> DEFINE k == i - n
    <3>1. k \in 1 .. m /\ i = n + k
      BY <1>2, <2>3
    <3> HIDE DEF k
    <3> QED
      BY <1>1, <1>3, <2>1, <3>1
  <2> QED
    BY <2>2, <2>3
<1>7. ASSUME NEW x \in Elems(r) \cup Elems(q)
      PROVE  x \in Elems(z)
  <2>1. CASE x \in Elems(r)
    <3>1. PICK i \in 1 .. n : x = r[i]
      BY <2>1 DEF Elems
    <3>2. i \in 1 .. Len(z) /\ z[i] = x
      BY <1>1, <3>1
    <3> QED
      BY <3>2 DEF Elems
  <2>2. CASE x \in Elems(q)
    <3>1. PICK i \in 1 .. m : x = q[i]
      BY <2>2 DEF Elems
    <3> DEFINE j == n + i
    <3>3. j \in 1 .. n + m /\ z[n + i] = q[i]
      BY <1>1
    <3>2. j \in 1 .. Len(z) /\ z[j] = x
      BY <1>1, <3>1, <3>3
    <3> HIDE DEF j
    <3> QED
      BY <3>2 DEF Elems
  <2> QED
    BY <2>1, <2>2
<1> QED
  BY <1>1, <1>5, <1>6, <1>7 DEF z

(* Increasing numbers without the last are those below it.                 *)
LEMMA FrontBelow ==
  ASSUME NEW t \in Seq(Int), Climbing(t), t # <<>>, NEW l, l = LastOf(t), NEW f, f = Front(t)
  PROVE  f \in Seq(Int) /\ Climbing(f) /\ Elems(f) = {x \in Elems(t) : x < l}
<1> DEFINE n == Len(t)
<1>1. f \in Seq(Int) /\ Len(f) = n - 1 /\ \A i \in 1 .. n - 1 : f[i] = t[i]
  BY FrontOf
<1>2. n \in Nat /\ n >= 1 /\ l = t[n] /\ l \in Int
  BY DEF LastOf
<1>3. \A i, j \in 1 .. n : i < j => t[i] < t[j]
  BY DEF Climbing
<1> HIDE DEF n
<1>4. Climbing(f)
  BY <1>1, <1>2, <1>3 DEF Climbing
<1>5. \A i \in 1 .. n - 1 : t[i] < l
  BY <1>2, <1>3
<1>6. ASSUME NEW x \in Elems(f)
      PROVE  x \in Elems(t) /\ x < l
  <2>1. PICK i \in 1 .. n - 1 : x = f[i]
    BY <1>1 DEF Elems
  <2>2. i \in 1 .. n
    BY <1>2
  <2> QED
    BY <1>1, <1>5, <2>1, <2>2 DEF Elems, n
<1>7. ASSUME NEW x \in Elems(t), x < l
      PROVE  x \in Elems(f)
  <2>1. PICK i \in 1 .. n : x = t[i]
    BY DEF Elems, n
  <2>2. i # n
    BY <1>2, <1>7, <2>1
  <2>3. i \in 1 .. n - 1
    BY <1>2, <2>2
  <2> QED
    BY <1>1, <2>1, <2>3 DEF Elems
<1> QED
  BY <1>1, <1>4, <1>6, <1>7

IsJoin(z, s, t, n, m) ==
  /\ Len(z) = n + m
  /\ \A i \in 1 .. n : z[i] = s[i]
  /\ \A i \in 1 .. m : z[n + i] = t[i]
  /\ z = [i \in 1 .. n + m |-> z[i]]

LEMMA Joined ==
  ASSUME NEW S, NEW s \in Seq(S), NEW t \in Seq(S), NEW n, n = Len(s), NEW m, m = Len(t)
  PROVE  IsJoin(s \o t, s, t, n, m)
<1> DEFINE z == s \o t
<1>1. /\ z \in Seq(S) /\ Len(z) = Len(s) + Len(t) /\ Len(z) \in Nat
      /\ \A i \in 1 .. Len(s) : z[i] = s[i]
      /\ \A i \in 1 .. Len(t) : z[Len(s) + i] = t[i]
  OBVIOUS
<1> HIDE DEF z
<1>2. z = [i \in 1 .. Len(z) |-> z[i]]
  BY <1>1
<1>3. IsJoin(z, s, t, n, m)
  BY <1>1, <1>2 DEF IsJoin
<1> QED
  BY <1>3 DEF z

(* The coarse rows of all bars: the closed ones stay, the last one's place *)
(* is taken by those of the open bars and the new ones.                    *)
RowsMerge(ints, F, D, G, q, d) ==
  /\ CoarseRows(ints, G, PeriodsOf(G)) = Front(CoarseRows(ints, F, q)) \o CoarseRows(ints, D, d)
  /\ LastOf(G) = LastOf(D) /\ G # <<>>
  /\ \A p \in PeriodSet(D) : BarsIn(G, p) = BarsIn(D, p)

LEMMA MergedRows ==
  ASSUME NEW S, Stamped(S), NEW F \in Seq(S), Rising(F), F # <<>>, NEW D \in Seq(S), Rising(D),
         D # <<>>, NEW G \in Seq(S), Rising(G), NEW L, L = PeriodStart(LastOf(F).ts),
         Merges(F, D, G, L), NEW ints, NEW q, q = PeriodsOf(F), NEW d, d = PeriodsOf(D)
  PROVE  RowsMerge(ints, F, D, G, q, d)
<1> DEFINE g == PeriodsOf(G)  f == Front(q)
<1>0. g = PeriodsOf(G) /\ f = Front(q)
  OBVIOUS
<1> HIDE DEF g, f
<1>1. q # <<>> /\ LastOf(q) = L /\ L \in Int /\ \A b \in Elems(F) : PeriodStart(b.ts) <= L
  BY LastPeriod
<1>2. Ordered(F) /\ Ordered(D) /\ Ordered(G)
  BY RisingOrdered
<1>3. q \in Seq(Int) /\ Climbing(q) /\ Elems(q) = PeriodSet(F)
  BY <1>2, PeriodsListed
<1>4. d \in Seq(Int) /\ Climbing(d) /\ Elems(d) = PeriodSet(D)
  BY <1>2, PeriodsListed
<1>5. g \in Seq(Int) /\ Climbing(g) /\ Elems(g) = PeriodSet(G)
  BY <1>0, <1>2, PeriodsListed
<1>6. f \in Seq(Int) /\ Climbing(f) /\ Elems(f) = {x \in PeriodSet(F) : x < L}
  BY <1>0, <1>1, <1>3, FrontBelow
<1>7. /\ Elems(G) = {b \in Elems(F) : PeriodStart(b.ts) < L} \cup Elems(D)
      /\ \A b \in Elems(D) : PeriodStart(b.ts) >= L
  BY DEF Merges
<1>8. \A p \in PeriodSet(D) : p >= L
  BY <1>7 DEF PeriodSet
<1>9. PeriodSet(G) = {x \in PeriodSet(F) : x < L} \cup PeriodSet(D)
  BY <1>7 DEF PeriodSet
<1>10. \A x \in Elems(f), y \in Elems(d) : x < y
  <2>1. (\A x \in Elems(f) : x \in Int /\ x < L) /\ (\A y \in Elems(d) : y \in Int /\ y >= L)
    <3>1. (\A x \in Elems(f) : x \in Int) /\ (\A y \in Elems(d) : y \in Int)
      BY <1>4, <1>6 DEF Elems
    <3>2. (\A x \in Elems(f) : x < L) /\ (\A y \in Elems(d) : y >= L)
      BY <1>4, <1>6, <1>8
    <3> QED
      BY <3>1, <3>2
  <2> QED
    BY <1>1, <2>1
<1> DEFINE z == f \o d
<1>11. z \in Seq(Int) /\ Climbing(z) /\ Elems(z) = Elems(f) \cup Elems(d)
  BY <1>4, <1>6, <1>10, Climbs
<1>12. g = z
  <2> HIDE DEF z
  <2>1. Elems(g) = Elems(z)
    BY <1>4, <1>5, <1>6, <1>9, <1>11
  <2> QED
    BY <1>5, <1>11, <2>1, ClimbingUnique
<1>13. ASSUME NEW p \in PeriodSet(D)
       PROVE  BarsIn(G, p) = BarsIn(D, p)
  <2>1. p >= L /\ p \in Int
    BY <1>4, <1>8 DEF Elems
  <2>2. \A b \in Elems(F) : PeriodStart(b.ts) < L => PeriodStart(b.ts) # p
    BY <1>1, <2>1
  <2>3. {b \in Elems(G) : PeriodStart(b.ts) = p} = {b \in Elems(D) : PeriodStart(b.ts) = p}
    BY <1>7, <2>2
  <2> QED
    BY <2>3, SameBars
<1>14. ASSUME NEW p, p < L, p \in Int
       PROVE  BarsIn(G, p) = BarsIn(F, p)
  <2>1. \A b \in Elems(D) : PeriodStart(b.ts) # p
    BY <1>1, <1>7, <1>14
  <2>2. {b \in Elems(G) : PeriodStart(b.ts) = p} = {b \in Elems(F) : PeriodStart(b.ts) = p}
    BY <1>7, <1>14, <2>1
  <2> QED
    BY <2>2, SameBars
<1> DEFINE RF == CoarseRows(ints, F, q)  RD == CoarseRows(ints, D, d)
           n == Len(q)  m == Len(d)
<1>15. n \in Nat /\ n >= 1 /\ m \in Nat /\ Len(f) = n - 1 /\ \A i \in 1 .. n - 1 : f[i] = q[i]
  <2>1. Len(f) = Len(q) - 1 /\ \A i \in 1 .. Len(q) - 1 : f[i] = q[i]
    BY ONLY <1>0, <1>1, <1>3, FrontOf
  <2>2. Len(q) \in Nat /\ Len(q) >= 1 /\ Len(d) \in Nat
    BY <1>1, <1>3, <1>4
  <2> QED
    BY <2>1, <2>2
<1>16. /\ RF = [i \in 1 .. n |-> CoarseRow(ints, F, q[i])]
       /\ RD = [i \in 1 .. m |-> CoarseRow(ints, D, d[i])]
  BY DEF CoarseRows
<1> HIDE DEF RF, RD, n, m
<1> DEFINE V == {RF[i] : i \in 1 .. n} \cup {RD[i] : i \in 1 .. m}
<1>17. RF \in Seq(V) /\ RD \in Seq(V) /\ Len(RF) = n /\ Len(RD) = m /\ RF # <<>>
  <2>1. Len(RF) = n /\ Len(RD) = m
    BY <1>15, <1>16
  <2>2. (\A i \in 1 .. n : RF[i] \in V) /\ (\A i \in 1 .. m : RD[i] \in V)
    OBVIOUS
  <2> HIDE DEF V
  <2>3. RF \in Seq(V) /\ RD \in Seq(V)
    BY <1>15, <1>16, <2>2
  <2> QED
    BY <1>15, <2>1, <2>3
<1> HIDE DEF V
<1> DEFINE FF == Front(RF)  R == FF \o RD
<1>18. FF \in Seq(V) /\ Len(FF) = n - 1 /\ \A i \in 1 .. n - 1 : FF[i] = RF[i]
  BY <1>17, FrontOf
<1> HIDE DEF FF
<1>19. /\ Len(R) = (n - 1) + m
       /\ \A i \in 1 .. n - 1 : R[i] = FF[i]
       /\ \A i \in 1 .. m : R[(n - 1) + i] = RD[i]
       /\ R = [i \in 1 .. (n - 1) + m |-> R[i]]
  <2>1. FF \in Seq(V) /\ RD \in Seq(V) /\ n - 1 = Len(FF) /\ m = Len(RD)
    BY <1>17, <1>18
  <2>2. IsJoin(R, FF, RD, n - 1, m)
    BY <2>1, Joined
  <2> QED
    BY <2>2 DEF IsJoin
<1>20. /\ Len(z) = (n - 1) + m
       /\ \A i \in 1 .. n - 1 : z[i] = f[i]
       /\ \A i \in 1 .. m : z[(n - 1) + i] = d[i]
  <2>1. f \in Seq(Int) /\ d \in Seq(Int) /\ n - 1 = Len(f) /\ m = Len(d)
    BY <1>4, <1>6, <1>15 DEF m
  <2>2. IsJoin(z, f, d, n - 1, m)
    BY <2>1, Joined
  <2> QED
    BY <2>2 DEF IsJoin
<1> HIDE DEF R, z
<1>21. ASSUME NEW i \in 1 .. (n - 1) + m
       PROVE  CoarseRow(ints, G, z[i]) = R[i]
  <2>1. CASE i \in 1 .. n - 1
    <3>1. z[i] = q[i] /\ R[i] = CoarseRow(ints, F, q[i])
      <4>1. i \in 1 .. n
        BY <1>15, <2>1
      <4>2. z[i] = f[i] /\ f[i] = q[i]
        BY <1>15, <1>20, <2>1
      <4>3. R[i] = FF[i] /\ FF[i] = RF[i]
        BY <1>18, <1>19, <2>1
      <4>4. RF[i] = CoarseRow(ints, F, q[i])
        BY <1>16, <4>1
      <4> QED
        BY <4>2, <4>3, <4>4
    <3>2. q[i] < L /\ q[i] \in Int
      <4>1. f[i] \in Elems(f) /\ f[i] = q[i] /\ f[i] \in Int
        BY <1>6, <1>15, <2>1 DEF Elems
      <4> QED
        BY <1>6, <4>1
    <3>3. BarsIn(G, q[i]) = BarsIn(F, q[i])
      BY <1>14, <3>2
    <3> QED
      BY <3>1, <3>3 DEF CoarseRow
  <2>2. CASE i \notin 1 .. n - 1
    <3> DEFINE k == i - (n - 1)
    <3>1. k \in 1 .. m /\ i = (n - 1) + k
      BY <1>15, <2>2
    <3> HIDE DEF k
    <3>2. z[i] = d[k] /\ R[i] = CoarseRow(ints, D, d[k])
      BY <1>16, <1>19, <1>20, <3>1
    <3>3. d[k] \in PeriodSet(D)
      BY <1>4, <3>1 DEF Elems, m
    <3>4. BarsIn(G, d[k]) = BarsIn(D, d[k])
      BY <1>13, <3>3
    <3> QED
      BY <3>2, <3>4 DEF CoarseRow
  <2> QED
    BY <2>1, <2>2
<1>22. CoarseRows(ints, G, g) = R
  <2>1. CoarseRows(ints, G, z) = [i \in 1 .. (n - 1) + m |-> CoarseRow(ints, G, z[i])]
    BY <1>20 DEF CoarseRows
  <2> QED
    BY <1>12, <1>19, <1>21, <2>1
<1>23. LastOf(G) = LastOf(D) /\ G # <<>>
  <2> DEFINE k == LastOf(D)  l == LastOf(G)
  <2>1. k \in Elems(D) /\ k \in S /\ \A b \in Elems(D) : b.ts <= k.ts /\ (b.ts = k.ts => b = k)
    BY LastIsLatest
  <2>2. k \in Elems(G)
    BY <1>7, <2>1
  <2>3. G # <<>>
    BY <2>2, NoneOf
  <2>4. l \in Elems(G) /\ l \in S /\ \A b \in Elems(G) : b.ts <= l.ts /\ (b.ts = l.ts => b = l)
    BY <2>3, LastIsLatest
  <2>5. k.ts \in Int /\ l.ts \in Int
    BY <2>1, <2>4 DEF Stamped
  <2> HIDE DEF k, l
  <2>6. k.ts <= l.ts
    BY <2>2, <2>4
  <2>7. PeriodStart(k.ts) >= L /\ PeriodStart(k.ts) <= PeriodStart(l.ts)
    BY <1>7, <2>1, <2>5, <2>6, PeriodMonotone
  <2>8. PeriodStart(k.ts) \in Int /\ PeriodStart(l.ts) \in Int
    BY <2>5, PeriodOf
  <2>9. ~(PeriodStart(l.ts) < L)
    BY <1>1, <2>7, <2>8
  <2>10. l \in Elems(D)
    BY <1>7, <2>4, <2>9
  <2>11. l.ts <= k.ts
    BY <2>1, <2>10
  <2>12. l = k
    BY <2>1, <2>5, <2>6, <2>10, <2>11
  <2> QED
    BY <2>3, <2>12 DEF k, l
<1> QED
  BY <1>0, <1>13, <1>22, <1>23 DEF R, FF, RF, RD, RowsMerge
-----------------------------------------------------------------------------
(* The rows of bars, and those of them that the last one closes.           *)
RowsOf(ints, bars) == CoarseRows(ints, bars, PeriodsOf(bars))

ClosingOf(ints, bars) == Front(RowsOf(ints, bars))

(* The aggregate of an open period.                                        *)
Aggregates(ints, agg, o) ==
  \E a \in [current : Cells, hasBefore : BOOLEAN, before : Cells] :
    /\ agg = <<a>>
    /\ a.current = Reduce(ints, o) /\ ~Overflows(a.current)
    /\ a.hasBefore <=> Len(o) > 1
    /\ a.hasBefore => a.before = Reduce(ints, Front(o))

Closes(ints, D, o, p, b, q) ==
  /\ PeriodsOf(D) = <<p, q>> /\ BarsIn(D, q) = <<b>>
  /\ ClosingOf(ints, D) = <<CoarseRow(ints, o, p)>>

(* All bars of one period; bars of none but one.                           *)
LEMMA AllBarsIn ==
  ASSUME NEW S, Stamped(S), NEW X \in Seq(S), Rising(X), NEW p, \A b \in Elems(X) : PeriodStart(b.ts) = p
  PROVE  BarsIn(X, p) = X
<1> DEFINE t == BarsIn(X, p)
<1>1. t \in Seq(S) /\ Rising(t) /\ Elems(t) = {b \in Elems(X) : PeriodStart(b.ts) = p}
  BY BarsListed
<1> HIDE DEF t
<1>2. Elems(t) = Elems(X)
  BY <1>1
<1>3. t = X
  BY <1>1, <1>2, RisingUnique
<1> QED
  BY <1>3 DEF t

(* Taking the last element away and putting a sequence in front commute.   *)
LEMMA FrontJoin ==
  ASSUME NEW V, NEW s \in Seq(V), NEW t \in Seq(V), t # <<>>
  PROVE  s \o Front(t) = Front(s \o t)
<1> DEFINE n == Len(s)  m == Len(t)  f == Front(t)  z == s \o t  g == Front(z)  y == s \o f
<1>1. n \in Nat /\ m \in Nat /\ m >= 1 /\ z \in Seq(V) /\ n = Len(s) /\ m = Len(t)
  OBVIOUS
<1>2. f \in Seq(V) /\ Len(f) = m - 1 /\ \A i \in 1 .. m - 1 : f[i] = t[i]
  BY FrontOf
<1>3. IsJoin(z, s, t, n, m)
  BY Joined
<1> HIDE DEF n, m, f, z
<1>4. m - 1 = Len(f)
  BY <1>2
<1>5. IsJoin(s \o f, s, f, n, m - 1)
  BY <1>1, <1>2, <1>4, Joined
<1>6. z # <<>> /\ Len(z) = n + m
  BY <1>1, <1>3 DEF IsJoin
<1>7. g \in Seq(V) /\ Len(g) = Len(z) - 1 /\ \A i \in 1 .. Len(z) - 1 : g[i] = z[i]
  BY <1>1, <1>6, FrontOf
<1>8. /\ \A i \in 1 .. n : y[i] = s[i]
      /\ \A i \in 1 .. m - 1 : y[n + i] = f[i]
      /\ y = [i \in 1 .. n + (m - 1) |-> y[i]]
  BY <1>5 DEF IsJoin
<1>9. /\ \A i \in 1 .. n : z[i] = s[i]
      /\ \A i \in 1 .. m : z[n + i] = t[i]
  BY <1>3 DEF IsJoin
<1> HIDE DEF g, y
<1>10. ASSUME NEW i \in 1 .. n + (m - 1)
       PROVE  y[i] = z[i]
  <2>1. CASE i \in 1 .. n
    BY <1>8, <1>9, <2>1
  <2>2. CASE i \notin 1 .. n
    <3> DEFINE k == i - n
    <3>1. k \in 1 .. m - 1 /\ k \in 1 .. m /\ i = n + k
      BY <1>1, <2>2
    <3> HIDE DEF k
    <3> QED
      BY <1>2, <1>8, <1>9, <3>1
  <2> QED
    BY <2>1, <2>2
<1>11. g = [i \in 1 .. n + (m - 1) |-> g[i]]
  <2>1. Len(g) = n + (m - 1)
    BY <1>1, <1>6, <1>7
  <2> QED
    BY <1>7, <2>1
<1>12. \A i \in 1 .. n + (m - 1) : g[i] = z[i]
  <2>1. Len(z) - 1 = n + (m - 1)
    BY <1>1, <1>6
  <2> QED
    BY <1>7, <2>1
<1>13. g = y
  BY <1>8, <1>10, <1>11, <1>12
<1> QED
  BY <1>13 DEF g, y, z, f

(* Rows of some bars.                                                      *)
LEMMA RowsTyped ==
  ASSUME NEW S, Stamped(S), NEW ints, NEW D \in Seq(S), Rising(D), D # <<>>
  PROVE  /\ RowsOf(ints, D) # <<>> /\ Len(RowsOf(ints, D)) = Len(PeriodsOf(D)) /\ Len(PeriodsOf(D)) \in Nat
         /\ \A V : (\A i \in 1 .. Len(PeriodsOf(D)) : RowsOf(ints, D)[i] \in V) => RowsOf(ints, D) \in Seq(V)
<1> DEFINE d == PeriodsOf(D)
<1>1. Ordered(D)
  BY RisingOrdered
<1>2. d \in Seq(Int)
  BY <1>1, PeriodsListed
<1>3. d # <<>>
  BY LastPeriod
<1> HIDE DEF d
<1>4. Len(d) \in Nat /\ Len(d) >= 1
  BY <1>2, <1>3
<1>5. RowsOf(ints, D) = [i \in 1 .. Len(d) |-> CoarseRow(ints, D, d[i])]
  BY DEF RowsOf, CoarseRows, d
<1> DEFINE r == RowsOf(ints, D)
<1> HIDE DEF r
<1>6. Len(r) = Len(d) /\ r # <<>>
  BY <1>4, <1>5 DEF r
<1>7. ASSUME NEW V, \A i \in 1 .. Len(d) : r[i] \in V
      PROVE  r \in Seq(V)
  <2>1. r = [i \in 1 .. Len(d) |-> r[i]]
    BY <1>5 DEF r
  <2> QED
    BY <1>4, <1>7, <2>1
<1> QED
  BY <1>4, <1>6, <1>7 DEF r, d

(* A fresh aggregate is that of the open bars.                             *)
LEMMA NewAggregates ==
  ASSUME NEW S, Celled(S), NEW ints, NEW o \in Seq(S), o # <<>>, NewAggregate(ints, o) # NoAggregate
  PROVE  Aggregates(ints, NewAggregate(ints, o), o)
<1> DEFINE now == Reduce(ints, o)  front == Reduce(ints, Front(o))
           a == [current |-> now, hasBefore |-> Len(o) > 1,
                 before  |-> IF Len(o) > 1 THEN front ELSE now]
<1>1. now \in Cells
  BY ReduceTyped
<1>2. ASSUME Len(o) > 1
      PROVE  front \in Cells
  <2>1. Front(o) \in Seq(S) /\ Len(Front(o)) = Len(o) - 1 /\ Len(o) \in Nat
    BY FrontOf
  <2>2. Front(o) # <<>>
    BY <1>2, <2>1
  <2> QED
    BY <2>1, <2>2, ReduceTyped
<1>3. ~Overflows(now) /\ NewAggregate(ints, o) = <<a>>
  BY DEF NewAggregate
<1> HIDE DEF now, front
<1>4. a \in [current : Cells, hasBefore : BOOLEAN, before : Cells]
  BY <1>1, <1>2
<1>5. a.current = now /\ (a.hasBefore <=> Len(o) > 1) /\ (a.hasBefore => a.before = front)
  OBVIOUS
<1> HIDE DEF a
<1> QED
  BY <1>3, <1>4, <1>5 DEF Aggregates, now, front

(* All bars are stamped before b.                                          *)
AllBefore(t, b) == \A x \in Elems(t) : x.ts < b.ts

(* The short path.                                                         *)
LEMMA AppendRising ==
  ASSUME NEW S, NEW t, NEW b, NEW u, Stamped(S), t \in Seq(S), Rising(t), b \in S, AllBefore(t, b),
         u = Append(t, b)
  PROVE  u \in Seq(S) /\ Rising(u) /\ Elems(u) = Elems(t) \cup {b}
<1> DEFINE n == Len(t)
<1>1. /\ u \in Seq(S) /\ Len(u) = n + 1 /\ n \in Nat /\ u[n + 1] = b
      /\ \A i \in 1 .. n : u[i] = t[i]
  OBVIOUS
<1>2. \A i \in 1 .. n : t[i] \in Elems(t)
  BY DEF Elems
<1> HIDE DEF n
<1>3. \A i \in 1 .. n + 1 : i \in 1 .. n \/ i = n + 1
  BY <1>1
<1>4. ASSUME NEW i \in 1 .. n + 1, NEW j \in 1 .. n + 1, i < j
      PROVE  u[i].ts < u[j].ts
  <2>1. i \in 1 .. n
    BY <1>1, <1>4
  <2>2. CASE j = n + 1
    BY <1>1, <1>2, <2>1, <2>2 DEF AllBefore
  <2>3. CASE j # n + 1
    <3>1. j \in 1 .. n
      BY <1>3, <2>3
    <3> QED
      BY <1>1, <1>4, <2>1, <3>1 DEF Rising, n
  <2> QED
    BY <2>2, <2>3
<1>5. ASSUME NEW x \in Elems(u)
      PROVE  x \in Elems(t) \cup {b}
  <2>1. PICK i \in 1 .. n + 1 : x = u[i]
    BY <1>1 DEF Elems
  <2> QED
    BY <1>1, <1>2, <1>3, <2>1
<1>6. ASSUME NEW x \in Elems(t) \cup {b}
      PROVE  x \in Elems(u)
  <2>1. n + 1 \in 1 .. Len(u) /\ \A i \in 1 .. n : i \in 1 .. Len(u)
    BY <1>1
  <2>2. CASE x = b
    BY <1>1, <2>1, <2>2 DEF Elems
  <2>3. CASE x \in Elems(t)
    <3>1. PICK i \in 1 .. n : x = t[i]
      BY <2>3 DEF Elems, n
    <3> QED
      BY <1>1, <2>1, <3>1 DEF Elems
  <2> QED
    BY <2>2, <2>3
<1> QED
  BY <1>1, <1>4, <1>5, <1>6 DEF Rising

LEMMA FrontRising ==
  ASSUME NEW S, Stamped(S), NEW t \in Seq(S), Rising(t), t # <<>>, NEW f, f = Front(t), NEW l, l = LastOf(t)
  PROVE  f \in Seq(S) /\ Rising(f) /\ Elems(f) = {x \in Elems(t) : x.ts # l.ts}
<1> DEFINE n == Len(t)
<1>1. f \in Seq(S) /\ Len(f) = n - 1 /\ \A i \in 1 .. n - 1 : f[i] = t[i]
  BY FrontOf
<1>2. n \in Nat /\ n >= 1 /\ l = t[n] /\ n \in 1 .. n
  BY DEF LastOf
<1>3. /\ \A i, j \in 1 .. n : i < j => t[i].ts < t[j].ts
      /\ \A i \in 1 .. n : t[i].ts \in Int
  BY DEF Rising, Stamped
<1> HIDE DEF n
<1>4. Rising(f)
  <2> SUFFICES ASSUME NEW i \in 1 .. n - 1, NEW j \in 1 .. n - 1, i < j
               PROVE  f[i].ts < f[j].ts
    BY <1>1 DEF Rising
  <2>1. i \in 1 .. n /\ j \in 1 .. n
    BY <1>2
  <2> QED
    BY <1>1, <1>3, <2>1
<1>5. ASSUME NEW i \in 1 .. n - 1
      PROVE  t[i].ts # l.ts
  <2>1. i \in 1 .. n /\ i < n
    BY <1>2
  <2>2. t[i].ts < t[n].ts /\ t[i].ts \in Int /\ t[n].ts \in Int
    BY <1>2, <1>3, <2>1
  <2> QED
    BY <1>2, <2>2
<1>6. ASSUME NEW x \in Elems(f)
      PROVE  x \in Elems(t) /\ x.ts # l.ts
  <2>1. PICK i \in 1 .. n - 1 : x = f[i]
    BY <1>1 DEF Elems
  <2>2. i \in 1 .. n
    BY <1>2
  <2> QED
    BY <1>1, <1>5, <2>1, <2>2 DEF Elems, n
<1>7. ASSUME NEW x \in Elems(t), x.ts # l.ts
      PROVE  x \in Elems(f)
  <2>1. PICK i \in 1 .. n : x = t[i]
    BY DEF Elems, n
  <2>2. i \in 1 .. n - 1
    BY <1>2, <1>7, <2>1
  <2> QED
    BY <1>1, <2>1, <2>2 DEF Elems
<1> QED
  BY <1>1, <1>4, <1>6, <1>7

(* A bar at or after the last one, pushed, is a bar appended by label.     *)
LEMMA PushedMerges ==
  ASSUME NEW S, Stamped(S), NEW o \in Seq(S), Rising(o), o # <<>>, NEW b \in S, b.ts >= LastOf(o).ts,
         NEW B, B = <<b>>, NEW D, D = DedupKeepLast(o \o B)
  PROVE  /\ Ordered(o \o B) /\ D = Pushed(o, b) /\ D \in Seq(S) /\ Rising(D)
         /\ Elems(D) = {x \in Elems(o) : x.ts # b.ts} \cup {b}
<1> DEFINE l == LastOf(o)  u == Pushed(o, b)
<1>1. B \in Seq(S) /\ B # <<>> /\ Len(B) = 1 /\ B[1] = b
  OBVIOUS
<1>2. l \in Elems(o) /\ l \in S /\ \A x \in Elems(o) : x.ts <= l.ts
  BY LastIsLatest
<1>3. b.ts \in Int /\ l.ts \in Int /\ \A x \in Elems(o) : x.ts \in Int
  BY <1>2 DEF Stamped, Elems
<1>4. Ordered(o) /\ Ordered(B)
  <2>1. Ordered(B)
    BY <1>1 DEF Ordered
  <2>2. Ordered(o)
    BY RisingOrdered
  <2> QED
    BY <2>1, <2>2
<1>5. Ordered(o \o B)
  <2>1. LastOf(o).ts <= B[1].ts
    BY <1>1, <1>3
  <2> QED
    BY <1>1, <1>4, <2>1, OrderedJoin
<1>6. o \o B \in Seq(S)
  BY <1>1
<1>7. D \in Seq(S) /\ Rising(D) /\ Elems(D) = Latest(o \o B)
  BY <1>5, <1>6, Deduped
<1>8. Latest(o \o B) = {x \in Elems(o) : \A y \in Elems(B) : x.ts # y.ts} \cup Latest(B)
  <2>1. o \in Seq(S) /\ Rising(o) /\ B \in Seq(S) /\ Stamped(S)
    BY <1>1
  <2> QED
    BY ONLY <2>1, JoinedLatest
<1>9. Elems(B) = {b} /\ Latest(B) = {b}
  <2>1. Elems(B) = {b}
    BY <1>1 DEF Elems
  <2>2. {i \in 1 .. Len(B) : \A j \in i + 1 .. Len(B) : B[i].ts # B[j].ts} = {1}
    BY <1>1
  <2> QED
    BY <1>1, <2>1, <2>2 DEF Latest
<1>10. Elems(D) = {x \in Elems(o) : x.ts # b.ts} \cup {b}
  BY <1>7, <1>8, <1>9
<1>11. u \in Seq(S) /\ Rising(u) /\ Elems(u) = Elems(D)
  <2>1. CASE l.ts = b.ts
    <3> DEFINE f == Front(o)
    <3>1. f \in Seq(S) /\ Rising(f) /\ Elems(f) = {x \in Elems(o) : x.ts # l.ts}
      BY FrontRising
    <3>2. u = Append(f, b)
      BY <2>1 DEF Pushed
    <3> HIDE DEF f, u, l
    <3>3. AllBefore(f, b)
      BY <1>2, <1>3, <2>1, <3>1 DEF AllBefore
    <3>4. u \in Seq(S) /\ Rising(u) /\ Elems(u) = Elems(f) \cup {b}
      <4>1. Stamped(S) /\ b \in S
        OBVIOUS
      <4>2. u \in Seq(S)
        BY <3>1, <3>2
      <4> QED
        BY ONLY <3>1, <3>2, <3>3, <4>1, <4>2, AppendRising
    <3> QED
      BY <1>10, <2>1, <3>1, <3>4
  <2>2. CASE l.ts # b.ts
    <3>1. u = Append(o, b)
      BY <2>2 DEF Pushed
    <3>2. l.ts < b.ts
      BY <1>3, <2>2
    <3> HIDE DEF u, l
    <3>3. AllBefore(o, b)
      BY <1>2, <1>3, <3>2 DEF AllBefore
    <3>4. u \in Seq(S) /\ Rising(u) /\ Elems(u) = Elems(o) \cup {b}
      <4>1. Stamped(S) /\ b \in S /\ o \in Seq(S) /\ Rising(o)
        OBVIOUS
      <4>2. u \in Seq(S)
        BY <3>1
      <4> QED
        BY ONLY <3>1, <3>3, <4>1, <4>2, AppendRising
    <3>5. \A x \in Elems(o) : x.ts # b.ts
      BY <1>3, <3>3 DEF AllBefore
    <3> QED
      BY <1>10, <3>4, <3>5
  <2> QED
    BY <2>1, <2>2
<1> HIDE DEF u
<1>12. D = u
  BY <1>7, <1>11, RisingUnique
<1> QED
  BY <1>5, <1>7, <1>10, <1>12 DEF u

(* A bar folded into the aggregate of its period.                          *)
LEMMA AggregatePushed ==
  ASSUME NEW S, Celled(S), NEW ints, NEW o \in Seq(S), o # <<>>, NEW b \in S, NEW agg, Aggregates(ints, agg, o),
         NEW p, p = PushedAggregate(ints, agg[1], b, b.ts = LastOf(o).ts), p.ok
  PROVE  Aggregates(ints, <<p.agg>>, Pushed(o, b))
<1> DEFINE resent == b.ts = LastOf(o).ts  u == Pushed(o, b)  f == Front(o)
<1>1. PICK a \in [current : Cells, hasBefore : BOOLEAN, before : Cells] :
        /\ agg = <<a>>
        /\ a.current = Reduce(ints, o) /\ ~Overflows(a.current)
        /\ a.hasBefore <=> Len(o) > 1
        /\ a.hasBefore => a.before = Reduce(ints, Front(o))
  BY DEF Aggregates
<1>2. agg[1] = a /\ p = PushedAggregate(ints, a, b, resent)
  BY <1>1
<1>3. Len(o) \in Nat /\ Len(o) >= 1
  OBVIOUS
<1>4. f \in Seq(S) /\ Len(f) = Len(o) - 1
  BY FrontOf
<1>5. b.cells \in Given /\ b.cells \in Cells /\ ~Overflows(b.cells)
  <2>1. b.cells \in Given
    BY DEF Celled
  <2>2. b.cells \in Cells
    BY <2>1 DEF Given, Cells
  <2>3. \A c \in Cols : b.cells[c] # Overflow
    BY <2>1, PeriodFoldAssumption DEF Given
  <2> QED
    BY <2>1, <2>2, <2>3 DEF Overflows
<1>6. CASE resent /\ ~a.hasBefore
  <2> DEFINE n == [a EXCEPT !.current = b.cells]
  <2>1. p.agg = n
    BY <1>2, <1>6 DEF PushedAggregate
  <2>2. n \in [current : Cells, hasBefore : BOOLEAN, before : Cells] /\ n.current = b.cells /\ n.hasBefore = FALSE
    BY <1>5, <1>6
  <2>3. u = <<b>>
    <3>1. Len(o) = 1
      BY <1>1, <1>3, <1>6
    <3>2. f = <<>>
      BY <1>4, <3>1
    <3>3. u = Append(f, b)
      BY <1>6 DEF Pushed
    <3> QED
      BY <3>2, <3>3
  <2>4. Reduce(ints, u) = b.cells
    BY <2>3, ReduceOne
  <2>5. Len(u) = 1
    BY <2>3
  <2> HIDE DEF n, u
  <2> QED
    BY <1>5, <2>1, <2>2, <2>4, <2>5 DEF Aggregates, u
<1>7. CASE ~(resent /\ ~a.hasBefore)
  <2> DEFINE from == IF resent THEN a.before ELSE a.current
             rest == IF resent THEN f ELSE o
             next == Fold(ints, from, b)
             n == [current |-> next, before |-> from, hasBefore |-> TRUE]
  <2>1. ~Overflows(next) /\ p.agg = n
    <3> HIDE DEF next, n
    <3>1. p = IF Overflows(next) THEN [ok |-> FALSE, agg |-> a] ELSE [ok |-> TRUE, agg |-> n]
      BY <1>2, <1>7 DEF PushedAggregate, next, n
    <3>2. CASE Overflows(next)
      <4>1. p = [ok |-> FALSE, agg |-> a]
        BY <3>1, <3>2
      <4>2. p.ok = FALSE
        BY <4>1
      <4> QED
        BY <4>2
    <3>3. CASE ~Overflows(next)
      <4>1. p = [ok |-> TRUE, agg |-> n]
        BY <3>1, <3>3
      <4> QED
        BY <3>3, <4>1
    <3> QED
      BY <3>2, <3>3
  <2>2. u = Append(rest, b)
    BY DEF Pushed
  <2>3. rest \in Seq(S) /\ rest # <<>>
    <3>1. CASE resent
      <4>1. Len(o) > 1
        BY <1>1, <1>7, <3>1
      <4>2. f # <<>>
        BY <1>3, <1>4, <4>1
      <4> HIDE DEF f
      <4> QED
        BY <1>4, <3>1, <4>2
    <3>2. CASE ~resent
      BY <3>2
    <3> QED
      BY <3>1, <3>2
  <2>4. from = Reduce(ints, rest) /\ from \in Cells
    <3>1. a.current \in Cells /\ a.before \in Cells
      OBVIOUS
    <3> QED
      BY <1>1, <1>7, <3>1
  <2> HIDE DEF from, rest
  <2>5. Reduce(ints, u) = next
    BY <2>2, <2>3, <2>4, ReduceAppend
  <2>6. next \in Cells
    BY <1>5, <2>4, FoldTyped
  <2> HIDE DEF next
  <2>7. n \in [current : Cells, hasBefore : BOOLEAN, before : Cells]
    BY <2>4, <2>6
  <2>8. n.current = next /\ n.hasBefore /\ n.before = from
    OBVIOUS
  <2>9. u \in Seq(S) /\ Len(u) > 1 /\ u # <<>> /\ Len(u) = Len(rest) + 1 /\ \A i \in 1 .. Len(rest) : u[i] = rest[i]
    BY <2>2, <2>3
  <2>10. Front(u) = rest
    <3> HIDE DEF n, u
    <3> DEFINE g == Front(u)
    <3>1. g \in Seq(S) /\ Len(g) = Len(u) - 1 /\ \A i \in 1 .. Len(u) - 1 : g[i] = u[i]
      BY <2>9, FrontOf
    <3> HIDE DEF g
    <3>2. Len(g) = Len(rest) /\ \A i \in 1 .. Len(rest) : g[i] = rest[i]
      BY <2>3, <2>9, <3>1
    <3>3. g = rest
      BY <2>3, <3>1, <3>2
    <3> QED
      BY <3>3 DEF g
  <2> HIDE DEF n, u
  <2> QED
    BY <2>1, <2>4, <2>5, <2>7, <2>8, <2>9, <2>10 DEF Aggregates, u
<1> QED
  BY <1>6, <1>7

(* The rows of bars of one period, and of a period and one bar more.       *)
LEMMA OnePeriod ==
  ASSUME NEW S, Stamped(S), NEW ints, NEW D \in Seq(S), Rising(D), D # <<>>, NEW p \in Int,
         \A b \in Elems(D) : PeriodStart(b.ts) = p
  PROVE  PeriodsOf(D) = <<p>> /\ ClosingOf(ints, D) = <<>> /\ BarsIn(D, p) = D
<1> DEFINE d == PeriodsOf(D)  t == <<p>>
<1>1. Ordered(D) /\ Elems(D) # {}
  BY RisingOrdered, NoneOf
<1>2. d \in Seq(Int) /\ Climbing(d) /\ Elems(d) = PeriodSet(D)
  BY <1>1, PeriodsListed
<1>3. PeriodSet(D) = {p}
  BY <1>1 DEF PeriodSet
<1>4. t \in Seq(Int) /\ Len(t) = 1 /\ t[1] = p
  OBVIOUS
<1> HIDE DEF d, t
<1>5. Climbing(t) /\ Elems(t) = {p}
  BY <1>4 DEF Climbing, Elems
<1>6. d = t
  BY <1>2, <1>3, <1>4, <1>5, ClimbingUnique
<1>7. RowsOf(ints, D) # <<>> /\ Len(RowsOf(ints, D)) = 1
  <2>1. Len(d) = 1
    BY <1>4, <1>6
  <2> QED
    BY <2>1, RowsTyped DEF d
<1>8. ClosingOf(ints, D) = <<>>
  BY <1>7 DEF ClosingOf, Front
<1>9. BarsIn(D, p) = D
  BY AllBarsIn
<1> QED
  BY <1>6, <1>8, <1>9 DEF d, t

LEMMA TwoPeriods ==
  ASSUME NEW S, Stamped(S), NEW ints, NEW o \in Seq(S), Rising(o), o # <<>>, NEW p \in Int, NEW q \in Int, p < q,
         NEW b \in S, PeriodStart(b.ts) = q, \A x \in Elems(o) : PeriodStart(x.ts) = p,
         NEW D \in Seq(S), Rising(D), Elems(D) = Elems(o) \cup {b}
  PROVE  Closes(ints, D, o, p, b, q)
<1> DEFINE d == PeriodsOf(D)  t == <<p, q>>  s == <<b>>
<1>1. Ordered(D) /\ Elems(o) # {}
  BY RisingOrdered, NoneOf
<1>2. d \in Seq(Int) /\ Climbing(d) /\ Elems(d) = PeriodSet(D)
  BY <1>1, PeriodsListed
<1>3. PeriodSet(D) = {p, q}
  BY <1>1 DEF PeriodSet
<1>4. t \in Seq(Int) /\ Len(t) = 2 /\ t[1] = p /\ t[2] = q
  OBVIOUS
<1>5. s \in Seq(S) /\ Len(s) = 1 /\ s[1] = b
  OBVIOUS
<1> HIDE DEF d, t, s
<1>6. Climbing(t) /\ Elems(t) = {p, q}
  BY <1>4 DEF Climbing, Elems
<1>7. d = t
  BY <1>2, <1>3, <1>4, <1>6, ClimbingUnique
<1>8. Rising(s) /\ Elems(s) = {b}
  BY <1>5 DEF Rising, Elems
<1>9. BarsIn(D, q) = s
  <2>1. {x \in Elems(D) : PeriodStart(x.ts) = q} = {x \in Elems(s) : PeriodStart(x.ts) = q}
    BY <1>8
  <2>2. BarsIn(D, q) = BarsIn(s, q)
    BY <1>5, <1>8, <2>1, SameBars
  <2>3. BarsIn(s, q) = s
    BY <1>5, <1>8, AllBarsIn
  <2> QED
    BY <2>2, <2>3
<1>10. BarsIn(D, p) = BarsIn(o, p)
  <2>1. {x \in Elems(D) : PeriodStart(x.ts) = p} = {x \in Elems(o) : PeriodStart(x.ts) = p}
    OBVIOUS
  <2> QED
    BY <2>1, SameBars
<1> DEFINE r == RowsOf(ints, D)
<1>11. r = [i \in 1 .. 2 |-> CoarseRow(ints, D, t[i])]
  BY <1>4, <1>7 DEF RowsOf, CoarseRows, d
<1>12. Front(r) = <<CoarseRow(ints, D, p)>>
  <2> HIDE DEF r
  <2> DEFINE V == {r[1], r[2]}
  <2>1. r \in Seq(V) /\ Len(r) = 2 /\ r # <<>> /\ r[1] = CoarseRow(ints, D, p)
    BY <1>4, <1>11
  <2> HIDE DEF V
  <2> DEFINE f == Front(r)
  <2>2. f \in Seq(V) /\ Len(f) = 1 /\ f[1] = r[1]
    <3>1. f \in Seq(V) /\ Len(f) = Len(r) - 1 /\ \A i \in 1 .. Len(r) - 1 : f[i] = r[i]
      BY <2>1, FrontOf
    <3> HIDE DEF f
    <3> QED
      BY <2>1, <3>1
  <2> HIDE DEF f
  <2>3. f = <<r[1]>>
    BY <2>2
  <2> QED
    BY <2>1, <2>3 DEF f
<1>13. CoarseRow(ints, D, p) = CoarseRow(ints, o, p)
  BY <1>10 DEF CoarseRow
<1> QED
  BY <1>7, <1>9, <1>12, <1>13 DEF d, t, s, ClosingOf, Closes

(* A sequence of one.                                                      *)
LEMMA Single ==
  ASSUME NEW S, NEW s \in Seq(S), Len(s) = 1, NEW x, x = s[1]
  PROVE  s = <<x>> /\ x \in S /\ s # <<>>
<1> DEFINE t == <<x>>
<1>1. x \in S
  OBVIOUS
<1>2. t \in Seq(S) /\ Len(t) = 1 /\ t[1] = x
  BY <1>1
<1>3. ASSUME s = <<>>
      PROVE  FALSE
  BY <1>3
<1> HIDE DEF t
<1>4. s = t
  BY <1>2
<1> QED
  BY <1>1, <1>3, <1>4 DEF t
=============================================================================
