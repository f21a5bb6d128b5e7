-------------------------- MODULE RowAdmissionProofs --------------------------
(***************************************************************************)
(* Proofs about RowAdmission, for every window, margin and batch.          *)
(*                                                                         *)
(* The labels a frame retains stay unique and its cursor covers rows held  *)
(* from before only together with facts no property states: the order an   *)
(* index remembers is that of its labels, a range index counts from its    *)
(* start, and the frame has a row for each label.  These are RowInv.  Four *)
(* things carry the proof: a search by bisection finds the first row with  *)
(* a label; an extended index is the index of the labels so extended; rows *)
(* written one by one keep the labels of the frame apart; the head that is *)
(* dropped lies before the retained rows.  The last part compares a batch  *)
(* with its rows taken one at a time.                                      *)
(***************************************************************************)
EXTENDS RowAdmission, FiniteSetTheorems, TLAPS

Up(s)   == \A i \in 1 .. Len(s) - 1 : s[i] <= s[i + 1]
Down(s) == \A i \in 1 .. Len(s) - 1 : s[i] >= s[i + 1]

-----------------------------------------------------------------------------
(* Counting.                                                               *)
LEMMA LeastOf ==
  ASSUME NEW T, T \subseteq Nat, T # {}
  PROVE  \E x \in T : \A y \in T : x <= y
<1> DEFINE R == OpToRel(<, Nat)
<1>1. IsWellFoundedOn(R, Nat)
  BY NatLessThanWellFounded
<1>2. \A x, y \in Nat : y < x => <<y, x>> \in R
  BY DEF OpToRel
<1> HIDE DEF R
<1>3. PICK x \in T : \A y \in T : ~(<<y, x>> \in R)
  BY <1>1, WFMin
<1>4. ASSUME NEW y \in T
      PROVE  x <= y
  <2>1. ~(y < x)
    BY <1>2, <1>3
  <2>2. x \in Nat /\ y \in Nat
    OBVIOUS
  <2> QED
    BY <2>1, <2>2
<1> QED
  BY <1>4

LEMMA Inductive ==
  ASSUME NEW n \in Nat, NEW T, 0 \in T, \A k \in 0 .. n - 1 : k \in T => k + 1 \in T
  PROVE  \A k \in 0 .. n : k \in T
<1> DEFINE F == {k \in 0 .. n : k \notin T}
<1>1. SUFFICES ASSUME F # {}
               PROVE  FALSE
  OBVIOUS
<1>2. F \subseteq Nat /\ \A k \in 0 .. n : k \in F <=> k \notin T
  OBVIOUS
<1>3. \A k \in F : k \in 1 .. n
  OBVIOUS
<1> HIDE DEF F
<1>4. PICK x \in F : \A y \in F : x <= y
  BY <1>1, <1>2, LeastOf
<1>5. x - 1 \in 0 .. n - 1 /\ x - 1 \notin F
  BY <1>3, <1>4
<1> QED
  BY <1>2, <1>3, <1>5

-----------------------------------------------------------------------------
(* Ordered sequences.                                                      *)
LEMMA UpPairs ==
  ASSUME NEW s \in Seq(Int), Up(s), NEW i \in 1 .. Len(s), NEW j \in 1 .. Len(s), i <= j
  PROVE  s[i] <= s[j]
<1> DEFINE T == {d \in Nat : i + d <= Len(s) => s[i] <= s[i + d]}
<1>1. 0 \in T
  OBVIOUS
<1>2. ASSUME NEW d \in 0 .. (j - i) - 1, d \in T
      PROVE  d + 1 \in T
  <2>1. i + d \in 1 .. Len(s) - 1 /\ i + (d + 1) = (i + d) + 1
    OBVIOUS
  <2>2. s[i + d] <= s[(i + d) + 1]
    BY <2>1 DEF Up
  <2>3. s[i] <= s[i + d] /\ s[i] \in Int /\ s[i + d] \in Int /\ s[(i + d) + 1] \in Int
    BY <1>2, <2>1
  <2> QED
    BY <2>1, <2>2, <2>3
<1> HIDE DEF T
<1>3. j - i \in Nat /\ j - i \in 0 .. j - i
  OBVIOUS
<1>4. j - i \in T
  BY <1>1, <1>2, <1>3, Inductive
<1> QED
  BY <1>4 DEF T

LEMMA DownPairs ==
  ASSUME NEW s \in Seq(Int), Down(s), NEW i \in 1 .. Len(s), NEW j \in 1 .. Len(s), i <= j
  PROVE  s[i] >= s[j]
<1> DEFINE t == [k \in 1 .. Len(s) |-> -s[k]]
<1>1. t \in Seq(Int) /\ Len(t) = Len(s) /\ \A k \in 1 .. Len(s) : t[k] = -s[k]
  OBVIOUS
<1> HIDE DEF t
<1>2. Up(t)
  <2> SUFFICES ASSUME NEW k \in 1 .. Len(s) - 1
               PROVE  t[k] <= t[k + 1]
    BY <1>1 DEF Up
  <2>1. s[k] >= s[k + 1] /\ s[k] \in Int /\ s[k + 1] \in Int
    BY DEF Down
  <2>2. k \in 1 .. Len(s) /\ k + 1 \in 1 .. Len(s)
    BY <1>1
  <2>3. t[k] = -s[k] /\ t[k + 1] = -s[k + 1]
    BY <1>1, <2>2
  <2> QED
    BY <2>1, <2>3
<1>3. t[i] <= t[j]
  BY <1>1, <1>2, UpPairs
<1>4. s[i] \in Int /\ s[j] \in Int
  OBVIOUS
<1> QED
  BY <1>1, <1>3, <1>4

(* The rows of an ordered sequence before the first one x may be at.       *)
LEMMA CountBelow ==
  ASSUME NEW s \in Seq(Int), Up(s), NEW x \in Int,
         NEW at, at = Cardinality({i \in 1 .. Len(s) : s[i] < x}) + 1
  PROVE  /\ at \in 1 .. Len(s) + 1
         /\ \A i \in 1 .. Len(s) : i < at <=> s[i] < x
<1> DEFINE B == {i \in 1 .. Len(s) : s[i] < x}
           E == {i \in 1 .. Len(s) + 1 : i = Len(s) + 1 \/ ~(s[i] < x)}
<1>1. Len(s) + 1 \in E /\ E \subseteq Nat
  OBVIOUS
<1>2. PICK e \in E : \A y \in E : e <= y
  <2> HIDE DEF E
  <2> QED
    BY <1>1, LeastOf
<1>3. e \in 1 .. Len(s) + 1
  OBVIOUS
<1>4. ASSUME NEW i \in 1 .. Len(s)
      PROVE  s[i] < x <=> i < e
  <2>1. CASE i < e
    BY <1>2, <2>1
  <2>2. CASE i >= e
    <3>1. e \in 1 .. Len(s) /\ ~(s[e] < x)
      BY <1>3, <2>2
    <3>2. s[e] <= s[i] /\ s[e] \in Int /\ s[i] \in Int
      BY <2>2, <3>1, UpPairs
    <3> QED
      BY <2>2, <3>1, <3>2
  <2> QED
    BY <1>3, <2>1, <2>2
<1>5. B = 1 .. e - 1
  BY <1>3, <1>4
<1>6. Cardinality(B) = e - 1
  <2> DEFINE d == e - 1
  <2>1. Cardinality(1 .. d) = IF 1 > d THEN 0 ELSE d - 1 + 1
    <3>1. 1 \in Int /\ d \in Int
      BY <1>3
    <3> HIDE DEF d
    <3> QED
      BY <3>1, FS_Interval
  <2>2. d \in Nat
    BY <1>3
  <2>3. B = 1 .. d
    BY <1>5
  <2> HIDE DEF B, d
  <2> QED
    BY <2>1, <2>2, <2>3 DEF d
<1>7. at = e
  BY <1>3, <1>6
<1> QED
  BY <1>3, <1>4, <1>7

LEMMA CountAbove ==
  ASSUME NEW s \in Seq(Int), Down(s), NEW x \in Int,
         NEW at, at = Cardinality({i \in 1 .. Len(s) : s[i] > x}) + 1
  PROVE  /\ at \in 1 .. Len(s) + 1
         /\ \A i \in 1 .. Len(s) : i < at <=> s[i] > x
<1> DEFINE t == [k \in 1 .. Len(s) |-> -s[k]]
<1>1. t \in Seq(Int) /\ Len(t) = Len(s) /\ \A k \in 1 .. Len(s) : t[k] = -s[k]
  OBVIOUS
<1> HIDE DEF t
<1>2. \A k \in 1 .. Len(s) : s[k] \in Int
  OBVIOUS
<1>3. Up(t)
  <2> SUFFICES ASSUME NEW k \in 1 .. Len(s) - 1
               PROVE  t[k] <= t[k + 1]
    BY <1>1 DEF Up
  <2>1. s[k] >= s[k + 1] /\ s[k] \in Int /\ s[k + 1] \in Int
    BY DEF Down
  <2>2. k \in 1 .. Len(s) /\ k + 1 \in 1 .. Len(s)
    BY <1>1
  <2>3. t[k] = -s[k] /\ t[k + 1] = -s[k + 1]
    BY <1>1, <2>2
  <2> QED
    BY <2>1, <2>3
<1>4. \A k \in 1 .. Len(s) : t[k] < -x <=> s[k] > x
  BY <1>1, <1>2
<1>5. {i \in 1 .. Len(t) : t[i] < -x} = {i \in 1 .. Len(s) : s[i] > x}
  BY <1>1, <1>4
<1>6. /\ at \in 1 .. Len(t) + 1
      /\ \A i \in 1 .. Len(t) : i < at <=> t[i] < -x
  <2> DEFINE y == -x
             A == {i \in 1 .. Len(s) : s[i] > x}
             B == {i \in 1 .. Len(t) : t[i] < y}
  <2>1. A = B /\ at = Cardinality(A) + 1
    BY <1>5
  <2>2. at = Cardinality(B) + 1
    <3> HIDE DEF A, B
    <3> QED
      BY <2>1
  <2>3. y \in Int
    OBVIOUS
  <2> HIDE DEF A, y
  <2>4. /\ at \in 1 .. Len(t) + 1
        /\ \A i \in 1 .. Len(t) : i < at <=> t[i] < y
    BY <1>1, <1>3, <2>2, <2>3, CountBelow
  <2> QED
    BY <2>4 DEF y
<1> QED
  BY <1>1, <1>4, <1>6

-----------------------------------------------------------------------------
(* The search: the first row that holds the label, or none does.           *)
IsFirst(p, s, x) ==
  IF p = 0 THEN \A i \in 1 .. Len(s) : s[i] # x
  ELSE p \in 1 .. Len(s) /\ s[p] = x /\ \A i \in 1 .. p - 1 : s[i] # x

LEMMA FindFirst ==
  ASSUME NEW s \in Seq(Int), NEW x \in Int, NEW order,
         order.increasing => Up(s), order.decreasing => Down(s)
  PROVE  IsFirst(Find(order, s, x), s, x)
<1>0. \A k \in 1 .. Len(s) : s[k] \in Int
  OBVIOUS
<1>1. CASE order.increasing
  <2> DEFINE at == Cardinality({i \in 1 .. Len(s) : s[i] < x}) + 1
  <2>1. at \in 1 .. Len(s) + 1 /\ \A i \in 1 .. Len(s) : i < at <=> s[i] < x
    BY <1>1, CountBelow
  <2>2. Find(order, s, x) = IF at \in 1 .. Len(s) /\ s[at] = x THEN at ELSE 0
    BY <1>1 DEF Find
  <2> HIDE DEF at
  <2>3. CASE at \in 1 .. Len(s) /\ s[at] = x
    BY <1>0, <2>1, <2>2, <2>3 DEF IsFirst
  <2>4. CASE ~(at \in 1 .. Len(s) /\ s[at] = x)
    <3>1. ASSUME NEW i \in 1 .. Len(s), s[i] = x
          PROVE  FALSE
      <4>1. at <= i /\ at \in 1 .. Len(s)
        BY <1>0, <2>1, <3>1
      <4>2. s[at] <= s[i]
        BY <1>1, <4>1, UpPairs
      <4>3. ~(s[at] < x)
        BY <2>1, <4>1
      <4> QED
        BY <1>0, <2>4, <3>1, <4>1, <4>2, <4>3
    <3> QED
      BY <2>2, <2>4, <3>1 DEF IsFirst
  <2> QED
    BY <2>3, <2>4
<1>2. CASE ~order.increasing /\ order.decreasing
  <2> DEFINE at == Cardinality({i \in 1 .. Len(s) : s[i] > x}) + 1
  <2>1. at \in 1 .. Len(s) + 1 /\ \A i \in 1 .. Len(s) : i < at <=> s[i] > x
    BY <1>2, CountAbove
  <2>2. Find(order, s, x) = IF at \in 1 .. Len(s) /\ s[at] = x THEN at ELSE 0
    BY <1>2 DEF Find
  <2> HIDE DEF at
  <2>3. CASE at \in 1 .. Len(s) /\ s[at] = x
    BY <1>0, <2>1, <2>2, <2>3 DEF IsFirst
  <2>4. CASE ~(at \in 1 .. Len(s) /\ s[at] = x)
    <3>1. ASSUME NEW i \in 1 .. Len(s), s[i] = x
          PROVE  FALSE
      <4>1. at <= i /\ at \in 1 .. Len(s)
        BY <1>0, <2>1, <3>1
      <4>2. s[at] >= s[i]
        BY <1>2, <4>1, DownPairs
      <4>3. ~(s[at] > x)
        BY <2>1, <4>1
      <4> QED
        BY <1>0, <2>4, <3>1, <4>1, <4>2, <4>3
    <3> QED
      BY <2>2, <2>4, <3>1 DEF IsFirst
  <2> QED
    BY <2>3, <2>4
<1>3. CASE ~order.increasing /\ ~order.decreasing
  <2> DEFINE H == {i \in 1 .. Len(s) : s[i] = x}
             scan == CHOOSE i \in 1 .. Len(s) : s[i] = x /\ \A j \in 1 .. i - 1 : s[j] # x
  <2>1. CASE H = {}
    <3>1. ~\E i \in 1 .. Len(s) : s[i] = x
      BY <2>1
    <3>2. Find(order, s, x) = 0
      BY <1>3, <3>1 DEF Find
    <3> QED
      BY <3>1, <3>2 DEF IsFirst
  <2>2. CASE H # {}
    <3>1. PICK i \in H : \A j \in H : i <= j
      <4>1. H \subseteq Nat
        OBVIOUS
      <4> HIDE DEF H
      <4> QED
        BY <2>2, <4>1, LeastOf
    <3>2. i \in 1 .. Len(s) /\ s[i] = x /\ \A j \in 1 .. i - 1 : s[j] # x
      BY <3>1
    <3>3. scan \in 1 .. Len(s) /\ s[scan] = x /\ \A j \in 1 .. scan - 1 : s[j] # x
      BY <3>2
    <3>4. Find(order, s, x) = IF scan \in 1 .. Len(s) /\ s[scan] = x THEN scan ELSE 0
      BY <1>3, <3>2 DEF Find
    <3> HIDE DEF scan
    <3> QED
      BY <3>3, <3>4 DEF IsFirst
  <2> QED
    BY <2>1, <2>2
<1> QED
  BY <1>1, <1>2, <1>3

-----------------------------------------------------------------------------
(* Indexes.                                                                *)
Unsigned(s) == \A i \in 1 .. Len(s) : s[i] >= 0

IndexOK(ix) ==
  /\ ix.kind \in Kinds /\ ix.start \in Nat /\ ix.labels \in Seq(Int)
  /\ ix = Index(ix.kind, ix.start, ix.labels)
  /\ ix.kind = "range" => \A i \in 1 .. Len(ix.labels) : ix.labels[i] = ix.start + i - 1
  /\ ix.kind # "datetime" => Unsigned(ix.labels)

Joins(u, s, t) == u = s \o t

(* What follows s joins it at its last element.                            *)
LEMMA Joined ==
  ASSUME NEW s \in Seq(Int), NEW t \in Seq(Int), NEW u, Joins(u, s, t)
  PROVE  /\ Len(s) \in Nat /\ Len(t) \in Nat
         /\ u \in Seq(Int) /\ Len(u) = Len(s) + Len(t)
         /\ \A i \in 1 .. Len(s) : u[i] = s[i]
         /\ \A i \in 1 .. Len(t) : u[Len(s) + i] = t[i]
BY DEF Joins

IsJoin(u, s, t) ==
  /\ Len(s) \in Nat /\ Len(t) \in Nat
  /\ u \in Seq(Int) /\ Len(u) = Len(s) + Len(t)
  /\ \A i \in 1 .. Len(s) : u[i] = s[i]
  /\ \A i \in 1 .. Len(t) : u[Len(s) + i] = t[i]

LEMMA JoinIs ==
  ASSUME NEW s \in Seq(Int), NEW t \in Seq(Int), NEW u, Joins(u, s, t)
  PROVE  IsJoin(u, s, t)
BY DEF Joins, IsJoin

LEMMA JoinedLast ==
  ASSUME NEW s \in Seq(Int), s # <<>>, NEW t \in Seq(Int),
         NEW u, Joins(u, s, t), NEW v, Joins(v, LastOf(s), t)
  PROVE  /\ Len(s) \in Nat /\ Len(s) >= 1 /\ Len(t) \in Nat
         /\ Len(u) = Len(s) + Len(t) /\ Len(v) = 1 + Len(t)
         /\ \A i \in 1 .. Len(s) : u[i] = s[i]
         /\ \A i \in 1 .. Len(v) : v[i] = u[(Len(s) - 1) + i]
<1> DEFINE l == LastOf(s)
<1>1. Len(s) \in Nat /\ Len(s) >= 1 /\ Len(t) \in Nat /\ s[Len(s)] \in Int
  OBVIOUS
<1>2. l \in Seq(Int) /\ Len(l) = 1 /\ l[1] = s[Len(s)]
  BY <1>1 DEF LastOf
<1>3. /\ Len(u) = Len(s) + Len(t)
      /\ \A i \in 1 .. Len(s) : u[i] = s[i]
      /\ \A i \in 1 .. Len(t) : u[Len(s) + i] = t[i]
  BY Joined
<1>4. Joins(v, l, t)
  OBVIOUS
<1> HIDE DEF l
<1>5. /\ Len(v) = Len(l) + Len(t)
      /\ \A i \in 1 .. Len(l) : v[i] = l[i]
      /\ \A i \in 1 .. Len(t) : v[Len(l) + i] = t[i]
  <2>1. l \in Seq(Int)
    BY <1>2
  <2>2. IsJoin(v, l, t)
    BY <1>4, <2>1, JoinIs
  <2> QED
    BY <2>2 DEF IsJoin
<1>6. ASSUME NEW i \in 1 .. Len(v)
      PROVE  v[i] = u[(Len(s) - 1) + i]
  <2>1. CASE i = 1
    <3>1. v[1] = l[1] /\ l[1] = s[Len(s)]
      BY <1>2, <1>5
    <3>2. u[Len(s)] = s[Len(s)] /\ (Len(s) - 1) + i = Len(s)
      BY <1>1, <1>3, <2>1
    <3> QED
      BY <2>1, <3>1, <3>2
  <2>2. CASE i > 1
    <3> DEFINE j == i - 1
    <3>1. j \in 1 .. Len(t) /\ Len(l) + j = i /\ Len(s) + j = (Len(s) - 1) + i
      BY <1>1, <1>2, <1>5, <2>2
    <3> HIDE DEF j
    <3>2. v[Len(l) + j] = t[j] /\ u[Len(s) + j] = t[j]
      BY <1>3, <1>5, <3>1
    <3> QED
      BY <3>1, <3>2
  <2> QED
    BY <1>1, <1>2, <1>5, <2>1, <2>2
<1> QED
  BY <1>1, <1>2, <1>3, <1>5, <1>6

LEMMA UpAppend ==
  ASSUME NEW s \in Seq(Int), NEW t \in Seq(Int)
  PROVE  /\ Up(s \o t) <=> Up(s) /\ Up(LastOf(s) \o t)
         /\ Down(s \o t) <=> Down(s) /\ Down(LastOf(s) \o t)
<1> DEFINE u == s \o t  v == LastOf(s) \o t
<1>1. CASE s = <<>>
  <2>1. LastOf(s) = <<>>
    BY <1>1 DEF LastOf
  <2>2. u = v
    BY <1>1, <2>1
  <2>3. Up(s) /\ Down(s)
    BY <1>1 DEF Up, Down
  <2> HIDE DEF u, v
  <2> QED
    BY <2>2, <2>3 DEF u, v
<1>2. CASE s # <<>>
  <2>1. /\ Len(s) \in Nat /\ Len(s) >= 1 /\ Len(t) \in Nat
        /\ Len(u) = Len(s) + Len(t) /\ Len(v) = 1 + Len(t)
        /\ \A i \in 1 .. Len(s) : u[i] = s[i]
        /\ \A i \in 1 .. Len(v) : v[i] = u[(Len(s) - 1) + i]
    <3>1. Joins(u, s, t) /\ Joins(v, LastOf(s), t)
      BY DEF Joins
    <3> HIDE DEF u, v
    <3> QED
      BY ONLY s \in Seq(Int), t \in Seq(Int), <1>2, <3>1, JoinedLast
  <2> HIDE DEF u, v
  <2>2. \A i \in 1 .. Len(s) - 1 : i \in 1 .. Len(u) - 1 /\ u[i] = s[i] /\ u[i + 1] = s[i + 1]
    BY <2>1
  <2>3. \A i \in 1 .. Len(v) - 1 :
          /\ (Len(s) - 1) + i \in 1 .. Len(u) - 1
          /\ v[i] = u[(Len(s) - 1) + i] /\ v[i + 1] = u[((Len(s) - 1) + i) + 1]
    <3> SUFFICES ASSUME NEW i \in 1 .. Len(v) - 1
                 PROVE  /\ (Len(s) - 1) + i \in 1 .. Len(u) - 1
                        /\ v[i] = u[(Len(s) - 1) + i]
                        /\ v[i + 1] = u[((Len(s) - 1) + i) + 1]
      OBVIOUS
    <3>1. i \in 1 .. Len(v) /\ i + 1 \in 1 .. Len(v) /\ (Len(s) - 1) + i \in 1 .. Len(u) - 1
      BY <2>1
    <3>2. (Len(s) - 1) + (i + 1) = ((Len(s) - 1) + i) + 1
      BY <2>1
    <3>3. v[i + 1] = u[(Len(s) - 1) + (i + 1)] /\ v[i] = u[(Len(s) - 1) + i]
      BY <2>1, <3>1
    <3> QED
      BY <3>1, <3>2, <3>3
  <2>4. \A i \in 1 .. Len(u) - 1 :
          \/ i \in 1 .. Len(s) - 1
          \/ i - (Len(s) - 1) \in 1 .. Len(v) - 1 /\ (Len(s) - 1) + (i - (Len(s) - 1)) = i
    BY <2>1
  <2>5. Up(u) <=> Up(s) /\ Up(v)
    <3>1. Up(u) => Up(s) /\ Up(v)
      BY <2>2, <2>3 DEF Up
    <3>2. ASSUME Up(s), Up(v), NEW i \in 1 .. Len(u) - 1
          PROVE  u[i] <= u[i + 1]
      <4>1. CASE i \in 1 .. Len(s) - 1
        BY <2>2, <3>2, <4>1 DEF Up
      <4>2. CASE i - (Len(s) - 1) \in 1 .. Len(v) - 1 /\ (Len(s) - 1) + (i - (Len(s) - 1)) = i
        <5> DEFINE j == i - (Len(s) - 1)
        <5>1. j \in 1 .. Len(v) - 1 /\ (Len(s) - 1) + j = i
          BY <4>2
        <5> HIDE DEF j
        <5> QED
          BY <2>3, <3>2, <5>1 DEF Up
      <4> QED
        BY <2>4, <4>1, <4>2
    <3> QED
      BY <3>1, <3>2 DEF Up
  <2>6. Down(u) <=> Down(s) /\ Down(v)
    <3>1. Down(u) => Down(s) /\ Down(v)
      BY <2>2, <2>3 DEF Down
    <3>2. ASSUME Down(s), Down(v), NEW i \in 1 .. Len(u) - 1
          PROVE  u[i] >= u[i + 1]
      <4>1. CASE i \in 1 .. Len(s) - 1
        BY <2>2, <3>2, <4>1 DEF Down
      <4>2. CASE i - (Len(s) - 1) \in 1 .. Len(v) - 1 /\ (Len(s) - 1) + (i - (Len(s) - 1)) = i
        <5> DEFINE j == i - (Len(s) - 1)
        <5>1. j \in 1 .. Len(v) - 1 /\ (Len(s) - 1) + j = i
          BY <4>2
        <5> HIDE DEF j
        <5> QED
          BY <2>3, <3>2, <5>1 DEF Down
      <4> QED
        BY <2>4, <4>1, <4>2
    <3> QED
      BY <3>1, <3>2 DEF Down
  <2> QED
    BY <2>5, <2>6 DEF u, v
<1> QED
  BY <1>1, <1>2

(* The order after more labels is the order of them all.                   *)
LEMMA OrderAppend ==
  ASSUME NEW s \in Seq(Int), NEW t \in Seq(Int)
  PROVE  /\ Extended(OrderOf("int", s), LastOf(s), t) = OrderOf("int", s \o t)
         /\ (\A i \in 1 .. Len(t) : t[i] # NaT) =>
              ExtendedDatetime(OrderOf("datetime", s), LastOf(s), t) = OrderOf("datetime", s \o t)
<1>1. \A q \in Seq(Int) :
        Extended(EmptyOrder, <<>>, q) = [increasing |-> Up(q), decreasing |-> Down(q)]
  <2> SUFFICES ASSUME NEW q \in Seq(Int)
               PROVE  Extended(EmptyOrder, <<>>, q) = [increasing |-> Up(q), decreasing |-> Down(q)]
    OBVIOUS
  <2>1. <<>> \o q = q
    OBVIOUS
  <2> QED
    BY <2>1 DEF Extended, EmptyOrder, Up, Down
<1>2. \A o : Extended(o, LastOf(s), t) =
               [increasing |-> o.increasing /\ Up(LastOf(s) \o t),
                decreasing |-> o.decreasing /\ Down(LastOf(s) \o t)]
  BY DEF Extended, Up, Down
<1>3. s \o t \in Seq(Int)
  OBVIOUS
<1>4. Extended(Extended(EmptyOrder, <<>>, s), LastOf(s), t) = Extended(EmptyOrder, <<>>, s \o t)
  <2> DEFINE a == Up(s)  b == Down(s)  c == Up(LastOf(s) \o t)  d == Down(LastOf(s) \o t)
             o == [increasing |-> a, decreasing |-> b]
  <2>1. Extended(EmptyOrder, <<>>, s) = o
    BY <1>1
  <2>2. Extended(o, LastOf(s), t) = [increasing |-> o.increasing /\ c, decreasing |-> o.decreasing /\ d]
    BY <1>2
  <2>3. Extended(EmptyOrder, <<>>, s \o t) = [increasing |-> Up(s \o t), decreasing |-> Down(s \o t)]
    BY <1>1, <1>3
  <2>4. (Up(s \o t) <=> a /\ c) /\ (Down(s \o t) <=> b /\ d)
    BY UpAppend
  <2>5. o.increasing = a /\ o.decreasing = b
    OBVIOUS
  <2>6. Up(s \o t) = (a /\ c) /\ Down(s \o t) = (b /\ d)
    BY <2>4 DEF Up, Down
  <2> HIDE DEF a, b, c, d, o
  <2> QED
    BY <2>1, <2>2, <2>3, <2>5, <2>6
<1>5. Extended(OrderOf("int", s), LastOf(s), t) = OrderOf("int", s \o t)
  BY <1>4 DEF OrderOf
<1>6. ASSUME \A i \in 1 .. Len(t) : t[i] # NaT
      PROVE  ExtendedDatetime(OrderOf("datetime", s), LastOf(s), t) = OrderOf("datetime", s \o t)
  <2> DEFINE gap(q) == \E i \in 1 .. Len(q) : q[i] = NaT
  <2>1. gap(s \o t) <=> gap(s)
    <3> DEFINE u == s \o t
    <3>1. /\ Len(u) = Len(s) + Len(t) /\ Len(s) \in Nat /\ Len(t) \in Nat
          /\ \A i \in 1 .. Len(s) : u[i] = s[i]
          /\ \A i \in 1 .. Len(t) : u[Len(s) + i] = t[i]
      <4>1. Joins(u, s, t)
        BY DEF Joins
      <4> HIDE DEF u
      <4> QED
        BY <4>1, Joined
    <3> HIDE DEF u
    <3>2. \A i \in 1 .. Len(u) : i \in 1 .. Len(s) \/ (i - Len(s) \in 1 .. Len(t) /\ Len(s) + (i - Len(s)) = i)
      BY <3>1
    <3>3. ASSUME NEW i \in 1 .. Len(u), u[i] = NaT
          PROVE  gap(s)
      <4>1. i \in 1 .. Len(s)
        BY <1>6, <3>1, <3>2, <3>3
      <4> QED
        BY <3>1, <3>3, <4>1
    <3>4. \A i \in 1 .. Len(s) : i \in 1 .. Len(u)
      BY <3>1
    <3>5. gap(s) => gap(u)
      BY <3>1, <3>4
    <3> QED
      BY <3>3, <3>5 DEF u
  <2>2. ~gap(t)
    BY <1>6
  <2>3. \A q, l, o : ExtendedDatetime(o, l, q) = IF gap(q) THEN NoOrder ELSE Extended(o, l, q)
    BY DEF ExtendedDatetime
  <2>4. \A q : OrderOf("datetime", q) = ExtendedDatetime(EmptyOrder, <<>>, q)
    BY DEF OrderOf
  <2>5. Extended(NoOrder, LastOf(s), t) = NoOrder
    <3>1. NoOrder.increasing = FALSE /\ NoOrder.decreasing = FALSE
      BY DEF NoOrder
    <3>2. Extended(NoOrder, LastOf(s), t) = [increasing |-> FALSE, decreasing |-> FALSE]
      BY <1>2, <3>1
    <3> QED
      BY <3>2 DEF NoOrder
  <2> HIDE DEF gap
  <2>6. CASE gap(s)
    BY <2>1, <2>2, <2>3, <2>4, <2>5, <2>6
  <2>7. CASE ~gap(s)
    BY <1>4, <2>1, <2>2, <2>3, <2>4, <2>7
  <2> QED
    BY <2>6, <2>7
<1> QED
  BY <1>5, <1>6

(* A part of a sequence.                                                   *)
IsPart(p, s, from, end) == p = SubSeq(s, from + 1, end)

LEMMA PartOf ==
  ASSUME NEW s \in Seq(Int), NEW from \in Nat, NEW end \in Nat, from <= end, end <= Len(s),
         NEW p, IsPart(p, s, from, end)
  PROVE  /\ p \in Seq(Int) /\ Len(p) = end - from
         /\ \A i \in 1 .. end - from : p[i] = s[from + i]
<1>1. p = [i \in 1 .. (end - (from + 1)) + 1 |-> s[((from + 1) + i) - 1]]
  BY DEF IsPart
<1>2. (end - (from + 1)) + 1 = end - from /\ end - from \in Nat
  OBVIOUS
<1>3. \A i \in 1 .. end - from : ((from + 1) + i) - 1 = from + i /\ from + i \in 1 .. Len(s)
  OBVIOUS
<1>4. \A i \in 1 .. end - from : s[from + i] \in Int
  BY <1>3
<1> QED
  BY <1>1, <1>2, <1>3, <1>4

LEMMA PartOrder ==
  ASSUME NEW s \in Seq(Int), NEW from \in Nat, NEW end \in Nat, from <= end, end <= Len(s),
         NEW p, IsPart(p, s, from, end)
  PROVE  (Up(s) => Up(p)) /\ (Down(s) => Down(p))
<1>1. p \in Seq(Int) /\ Len(p) = end - from /\ \A i \in 1 .. end - from : p[i] = s[from + i]
  BY PartOf
<1>2. \A i \in 1 .. Len(p) - 1 :
        /\ from + i \in 1 .. Len(s) - 1
        /\ p[i] = s[from + i] /\ p[i + 1] = s[(from + i) + 1]
  <2> SUFFICES ASSUME NEW i \in 1 .. Len(p) - 1
               PROVE  /\ from + i \in 1 .. Len(s) - 1
                      /\ p[i] = s[from + i] /\ p[i + 1] = s[(from + i) + 1]
    OBVIOUS
  <2>1. i \in 1 .. end - from /\ i + 1 \in 1 .. end - from /\ from + (i + 1) = (from + i) + 1
    BY <1>1
  <2>2. p[i] = s[from + i] /\ p[i + 1] = s[from + (i + 1)]
    BY <1>1, <2>1
  <2> QED
    BY <2>1, <2>2
<1> QED
  BY <1>2 DEF Up, Down

LEMMA OrderSound ==
  ASSUME NEW ix, IndexOK(ix), ix.kind # "range"
  PROVE  (ix.order.increasing => Up(ix.labels)) /\ (ix.order.decreasing => Down(ix.labels))
<1> DEFINE l == ix.labels
<1>1. ix.order = OrderOf(ix.kind, l) /\ ix.kind \in {"int", "datetime"} /\ l \in Seq(Int)
  BY DEF IndexOK, Index, Kinds
<1>2. <<>> \o l = l
  BY <1>1
<1>3. Extended(EmptyOrder, <<>>, l) = [increasing |-> Up(l), decreasing |-> Down(l)]
  BY <1>2 DEF Extended, EmptyOrder, Up, Down
<1>4. ix.order \in {NoOrder, [increasing |-> Up(l), decreasing |-> Down(l)]}
  BY <1>1, <1>3 DEF OrderOf, ExtendedDatetime
<1> HIDE DEF l
<1>5. (ix.order.increasing => Up(l)) /\ (ix.order.decreasing => Down(l))
  BY <1>4 DEF NoOrder
<1> QED
  BY <1>5 DEF l

(* Where a label is among the rows after `from'.                           *)
IsFirstAfter(p, s, x, from) ==
  IF p = 0 THEN \A i \in from + 1 .. Len(s) : s[i] # x
  ELSE p \in from + 1 .. Len(s) /\ s[p] = x /\ \A i \in from + 1 .. p - 1 : s[i] # x

LEMMA PositionFirst ==
  ASSUME NEW ix, IndexOK(ix), NEW x \in Int, NEW from \in Nat, from <= Len(ix.labels)
  PROVE  IsFirstAfter(PositionIn(ix, x, from), ix.labels, x, from)
<1> DEFINE s == ix.labels
           n == Len(s)
<1>1. s \in Seq(Int) /\ n \in Nat
  BY DEF IndexOK
<1>2. CASE ix.kind = "range"
  <2> DEFINE at == (x - ix.start) + 1
  <2>1. PositionIn(ix, x, from) = IF at \in from + 1 .. n THEN at ELSE 0
    BY <1>2 DEF PositionIn
  <2>2. at \in Int /\ \A i \in 1 .. n : s[i] = x <=> i = at
    <3>1. ix.start \in Int /\ \A i \in 1 .. n : s[i] = ix.start + i - 1
      BY <1>2 DEF IndexOK
    <3> DEFINE b == ix.start
    <3>2. b \in Int /\ at = (x - b) + 1 /\ \A i \in 1 .. n : s[i] = b + i - 1
      BY <3>1
    <3> HIDE DEF at, b, s, n
    <3>3. \A i \in Int : b + i - 1 = x <=> i = at
      BY <3>2
    <3>4. \A i \in 1 .. n : i \in Int
      BY <1>1
    <3> QED
      BY <3>2, <3>3, <3>4
  <2> HIDE DEF at, s
  <2>3. IsFirstAfter(PositionIn(ix, x, from), s, x, from)
    BY <1>1, <2>1, <2>2 DEF IsFirstAfter
  <2> QED
    BY <2>3 DEF s
<1>3. CASE ix.kind # "range"
  <2> DEFINE q == SubSeq(s, from + 1, n)
             p == Find(ix.order, q, x)
  <2>1. IsPart(q, s, from, n)
    BY DEF IsPart
  <2>2. PositionIn(ix, x, from) = IF p = 0 THEN 0 ELSE p + from
    BY <1>3 DEF PositionIn
  <2>0. from <= n /\ n <= Len(s)
    BY <1>1
  <2> HIDE DEF q, s, n
  <2>3. q \in Seq(Int) /\ Len(q) = n - from /\ \A i \in 1 .. n - from : q[i] = s[from + i]
    BY <1>1, <2>0, <2>1, PartOf
  <2>4. (ix.order.increasing => Up(q)) /\ (ix.order.decreasing => Down(q))
    <3>1. (ix.order.increasing => Up(s)) /\ (ix.order.decreasing => Down(s))
      BY <1>3, OrderSound DEF s
    <3> QED
      BY <1>1, <2>0, <2>1, <3>1, PartOrder
  <2>5. IsFirst(p, q, x)
    BY <2>3, <2>4, FindFirst
  <2> HIDE DEF p
  <2>6. \A i \in from + 1 .. n : i - from \in 1 .. n - from /\ s[i] = q[i - from]
    <3> SUFFICES ASSUME NEW i \in from + 1 .. n
                 PROVE  i - from \in 1 .. n - from /\ s[i] = q[i - from]
      OBVIOUS
    <3>1. i - from \in 1 .. n - from /\ from + (i - from) = i
      BY <1>1
    <3> QED
      BY <2>3, <3>1
  <2>7. IsFirstAfter(PositionIn(ix, x, from), s, x, from)
    <3>1. CASE p = 0
      BY <1>1, <2>2, <2>3, <2>5, <2>6, <3>1 DEF IsFirst, IsFirstAfter, n
    <3>2. CASE p # 0
      <4>1. p \in 1 .. n - from /\ q[p] = x /\ \A i \in 1 .. p - 1 : q[i] # x
        BY <2>3, <2>5, <3>2 DEF IsFirst
      <4>2. p + from \in from + 1 .. n /\ s[p + from] = x /\ p + from # 0
        BY <1>1, <2>3, <4>1
      <4>3. \A i \in from + 1 .. (p + from) - 1 : i \in from + 1 .. n /\ i - from \in 1 .. p - 1
        BY <1>1, <4>1
      <4>4. \A i \in from + 1 .. (p + from) - 1 : s[i] # x
        BY <2>6, <4>1, <4>3
      <4>5. PositionIn(ix, x, from) = p + from
        BY <2>2, <3>2
      <4> QED
        BY <4>2, <4>4, <4>5 DEF IsFirstAfter, n
    <3> QED
      BY <3>1, <3>2
  <2> QED
    BY <2>7 DEF s
<1> QED
  BY <1>2, <1>3

(* A slice of an index.                                                    *)
IsSlice(part, ix, from, end) == part = Slice(ix, from, end)

LEMMA SliceOK ==
  ASSUME NEW ix, IndexOK(ix), NEW from \in Nat, NEW end \in Nat, from <= end,
         end <= Len(ix.labels), NEW part, IsSlice(part, ix, from, end)
  PROVE  /\ IndexOK(part) /\ part.kind = ix.kind
         /\ part.start = IF ix.kind = "range" THEN ix.start + from ELSE 0
         /\ IsPart(part.labels, ix.labels, from, end)
         /\ Len(part.labels) = end - from
         /\ \A i \in 1 .. end - from : part.labels[i] = ix.labels[from + i]
<1> DEFINE p == SubSeq(ix.labels, from + 1, end)
           start == IF ix.kind = "range" THEN ix.start + from ELSE 0
<1>1. IsPart(p, ix.labels, from, end) /\ ix.labels \in Seq(Int) /\ ix.kind \in Kinds
      /\ start \in Nat
  BY DEF IsPart, IndexOK
<1>2. part = Index(ix.kind, start, p)
  BY DEF Slice, IsSlice
<1> HIDE DEF p
<1>3. p \in Seq(Int) /\ Len(p) = end - from /\ \A i \in 1 .. end - from : p[i] = ix.labels[from + i]
  <2> DEFINE s == ix.labels
  <2>1. s \in Seq(Int) /\ IsPart(p, s, from, end) /\ end <= Len(s)
    BY <1>1
  <2> HIDE DEF s
  <2>2. p \in Seq(Int) /\ Len(p) = end - from /\ \A i \in 1 .. end - from : p[i] = s[from + i]
    BY <2>1, PartOf
  <2> QED
    BY <2>2 DEF s
<1>4. ASSUME ix.kind = "range"
      PROVE  \A i \in 1 .. Len(p) : p[i] = start + i - 1
  <2> SUFFICES ASSUME NEW i \in 1 .. Len(p)
               PROVE  p[i] = start + i - 1
    OBVIOUS
  <2>1. from + i \in 1 .. Len(ix.labels)
    BY <1>1, <1>3
  <2>2. ix.labels[from + i] = ix.start + (from + i) - 1
    BY <1>4, <2>1 DEF IndexOK
  <2>3. start = ix.start + from /\ ix.start \in Int
    BY <1>4 DEF IndexOK
  <2> QED
    BY <1>3, <2>2, <2>3
<1> HIDE DEF start
<1>5. part.kind = ix.kind /\ part.start = start /\ part.labels = p
  BY <1>2 DEF Index
<1>7. ASSUME ix.kind # "datetime"
      PROVE  Unsigned(p)
  <2> SUFFICES ASSUME NEW i \in 1 .. Len(p)
               PROVE  p[i] >= 0
    BY DEF Unsigned
  <2>1. from + i \in 1 .. Len(ix.labels)
    BY <1>1, <1>3
  <2>2. ix.labels[from + i] >= 0
    BY <1>7, <2>1 DEF IndexOK, Unsigned
  <2> QED
    BY <1>3, <2>2
<1>6. IndexOK(part)
  BY <1>1, <1>2, <1>3, <1>4, <1>5, <1>7 DEF IndexOK
<1> QED
  BY <1>1, <1>3, <1>5, <1>6 DEF start

(* The labels that rows get when they follow those of an index.            *)
Next1(ix) == IF ix.kind = "range" THEN ix.start + Len(ix.labels) ELSE Continuation(ix.labels)
Added(ix, other) ==
  IF IsUnlabelled(other) THEN [i \in 1 .. Len(other.labels) |-> Next1(ix) + i - 1]
  ELSE other.labels

LEMMA AddedType ==
  ASSUME NEW ix, IndexOK(ix), NEW other, IndexOK(other)
  PROVE  /\ Added(ix, other) \in Seq(Int) /\ Len(Added(ix, other)) = Len(other.labels)
         /\ Next1(ix) \in Int
<1>1. Continuation(ix.labels) \in Int
  <2>1. ix.labels \in Seq(Int)
    BY DEF IndexOK
  <2>2. ix.labels # <<>> => ix.labels[Len(ix.labels)] \in Int
    BY <2>1
  <2> QED
    BY <2>2 DEF Continuation
<1>2. Next1(ix) \in Int
  BY <1>1 DEF Next1, IndexOK
<1>3. \A i \in Int : Next1(ix) + i - 1 \in Int
  BY <1>2
<1> QED
  BY <1>2, <1>3 DEF Added, IndexOK

LEMMA AddedUnsigned ==
  ASSUME NEW ix, IndexOK(ix), NEW other, IndexOK(other), ix.kind # "datetime",
         other.kind # "datetime"
  PROVE  Unsigned(Added(ix, other)) /\ Next1(ix) \in Nat /\ Unsigned(ix.labels)
<1> DEFINE s == ix.labels  l == s[Len(s)]  c == Next1(ix)
<1>1. s \in Seq(Int) /\ ix.start \in Nat /\ Unsigned(s) /\ Unsigned(other.labels) /\ other.labels \in Seq(Int)
  BY DEF IndexOK
<1>2. s # <<>> => l \in Nat
  <2> SUFFICES ASSUME s # <<>>
               PROVE  l \in Nat
    OBVIOUS
  <2>1. Len(s) \in 1 .. Len(s) /\ l \in Int
    BY <1>1
  <2> QED
    BY <1>1, <2>1 DEF Unsigned
<1>3. c \in Nat
  <2> HIDE DEF l
  <2>1. CASE ix.kind = "range"
    BY <1>1, <2>1 DEF Next1
  <2>2. CASE ix.kind # "range" /\ s = <<>>
    BY <2>2 DEF Next1, Continuation
  <2>3. CASE ix.kind # "range" /\ s # <<>>
    <3>1. c = l + 1
      BY <2>3 DEF Next1, Continuation, l
    <3> HIDE DEF c
    <3> QED
      BY <1>2, <2>3, <3>1
  <2> QED
    BY <2>1, <2>2, <2>3
<1>4. Unsigned(Added(ix, other))
  <2>1. CASE IsUnlabelled(other)
    <3> DEFINE n == Len(other.labels)  a == [i \in 1 .. n |-> c + i - 1]
    <3>1. Added(ix, other) = a
      BY <2>1 DEF Added
    <3>2. n \in Nat
      BY <1>1
    <3> HIDE DEF c, n
    <3>3. Len(a) = n /\ \A i \in 1 .. n : a[i] = c + i - 1
      BY <3>2
    <3>4. \A i \in 1 .. n : c + i - 1 >= 0
      BY <1>3
    <3> HIDE DEF a
    <3>5. Unsigned(a)
      BY <3>3, <3>4 DEF Unsigned
    <3> QED
      BY <3>1, <3>5
  <2>2. CASE ~IsUnlabelled(other)
    BY <1>1, <2>2 DEF Added
  <2> QED
    BY <2>1, <2>2
<1> QED
  BY <1>1, <1>3, <1>4

LEMMA UnsignedJoin ==
  ASSUME NEW s \in Seq(Int), NEW t \in Seq(Int), NEW w, Joins(w, s, t), Unsigned(s), Unsigned(t)
  PROVE  Unsigned(w)
<1>1. /\ Len(s) \in Nat /\ Len(t) \in Nat
      /\ w \in Seq(Int) /\ Len(w) = Len(s) + Len(t)
      /\ \A i \in 1 .. Len(s) : w[i] = s[i]
      /\ \A i \in 1 .. Len(t) : w[Len(s) + i] = t[i]
  BY Joined
<1>2. SUFFICES ASSUME NEW i \in 1 .. Len(w)
               PROVE  w[i] >= 0
  BY DEF Unsigned
<1>3. CASE i <= Len(s)
  <2>1. i \in 1 .. Len(s)
    BY <1>1, <1>3
  <2> QED
    BY <1>1, <2>1 DEF Unsigned
<1>4. CASE i > Len(s)
  <2>1. i - Len(s) \in 1 .. Len(t) /\ Len(s) + (i - Len(s)) = i
    BY <1>1, <1>4
  <2> QED
    BY <1>1, <2>1 DEF Unsigned
<1> QED
  BY <1>1, <1>3, <1>4

LEMMA IndexFields ==
  ASSUME NEW kind, NEW start, NEW s, NEW e, e = Index(kind, start, s)
  PROVE  e.kind = kind /\ e.start = start /\ e.labels = s /\ e.order = OrderOf(kind, s)
BY DEF Index

GrownTo(e, ix, w, o) == e = [ix EXCEPT !.labels = w, !.order = o]

LEMMA IndexGrown ==
  ASSUME NEW kind, NEW start, NEW s, NEW ix, ix = Index(kind, start, s), NEW w, NEW o,
         o = OrderOf(kind, w), NEW e, GrownTo(e, ix, w, o)
  PROVE  e = Index(kind, start, w)
<1>0. e = [ix EXCEPT !.labels = w, !.order = o]
  BY DEF GrownTo
<1>1. e = [kind |-> kind, start |-> start, labels |-> w, order |-> o]
  BY <1>0 DEF Index
<1> QED
  BY <1>1 DEF Index

LEMMA IndexMade ==
  ASSUME NEW kind \in {"int", "datetime"}, NEW start \in Nat, NEW s \in Seq(Int),
         NEW t \in Seq(Int), NEW w, Joins(w, s, t), NEW e, e = Index(kind, start, w),
         kind = "int" => Unsigned(s) /\ Unsigned(t)
  PROVE  IndexOK(e) /\ e.kind = kind /\ e.start = start /\ e.labels = w
<1>1. e.kind = kind /\ e.start = start /\ e.labels = w
  BY IndexFields
<1>2. w \in Seq(Int)
  BY Joined
<1>3. kind = "int" => Unsigned(w)
  BY UnsignedJoin
<1> QED
  BY <1>1, <1>2, <1>3 DEF IndexOK, Kinds

LEMMA ExtendRange ==
  ASSUME NEW ix, IndexOK(ix), NEW other, IndexOK(other), ix.kind = "range", IsUnlabelled(other),
         NEW e, e = RangeIndex(ix.start, Len(ix.labels) + Len(other.labels))
  PROVE  IndexOK(e) /\ e.kind = "range" /\ Joins(e.labels, ix.labels, Added(ix, other))
<1> DEFINE s == ix.labels  t == Added(ix, other)  u == s \o t  b == ix.start  n == Len(other.labels)
           l == [i \in 1 .. Len(s) + n |-> b + i - 1]
<1>1. /\ s \in Seq(Int) /\ Len(s) \in Nat /\ b \in Nat /\ n \in Nat
      /\ \A i \in 1 .. Len(s) : s[i] = b + i - 1
  BY DEF IndexOK
<1>2. t \in Seq(Int) /\ Len(t) = n
  BY AddedType
<1>3. \A i \in 1 .. n : t[i] = (b + Len(s)) + i - 1
  BY DEF Added, Next1
<1>4. Joins(u, s, t)
  BY DEF Joins
<1>5. e = Index("range", b, l)
  BY DEF RangeIndex
<1> HIDE DEF s, t, u, b, n
<1>6. /\ u \in Seq(Int) /\ Len(u) = Len(s) + n
      /\ \A i \in 1 .. Len(s) : u[i] = s[i]
      /\ \A i \in 1 .. n : u[Len(s) + i] = t[i]
  <2>1. s \in Seq(Int)
    BY <1>1
  <2>2. t \in Seq(Int)
    BY <1>2
  <2>3. /\ u \in Seq(Int) /\ Len(u) = Len(s) + Len(t)
        /\ \A i \in 1 .. Len(s) : u[i] = s[i]
        /\ \A i \in 1 .. Len(t) : u[Len(s) + i] = t[i]
    BY <1>4, <2>1, <2>2, Joined
  <2> QED
    BY <1>2, <2>3
<1>7. ASSUME NEW i \in 1 .. Len(s) + n
      PROVE  u[i] = b + i - 1
  <2>1. CASE i <= Len(s)
    BY <1>1, <1>6, <2>1
  <2>2. CASE i > Len(s)
    <3>1. i - Len(s) \in 1 .. n /\ Len(s) + (i - Len(s)) = i
      BY <1>1, <2>2
    <3>2. u[i] = t[i - Len(s)]
      BY <1>6, <3>1
    <3>3. (b + Len(s)) + (i - Len(s)) - 1 = b + i - 1
      BY <1>1
    <3> QED
      BY <1>3, <3>1, <3>2, <3>3
  <2> QED
    BY <1>1, <2>1, <2>2
<1>8. u = l
  <2>1. u = [i \in 1 .. Len(u) |-> u[i]]
    BY <1>6
  <2> QED
    BY <1>6, <1>7, <2>1
<1> HIDE DEF l
<1>9. e = Index("range", b, u)
  BY <1>5, <1>8
<1>10. e.kind = "range" /\ e.start = b /\ e.labels = u
  BY ONLY <1>9, IndexFields
<1>12. Unsigned(u)
  <2>1. \A i \in 1 .. Len(u) : b + i - 1 >= 0 /\ i \in 1 .. Len(s) + n
    BY <1>1, <1>6
  <2> QED
    BY <1>7, <2>1 DEF Unsigned
<1>11. IndexOK(e)
  BY <1>1, <1>6, <1>7, <1>9, <1>10, <1>12 DEF IndexOK, Kinds
<1> QED
  BY <1>4, <1>10, <1>11 DEF s, t

LEMMA ExtendOK ==
  ASSUME NEW ix, IndexOK(ix), NEW other, IndexOK(other), CheckAppend(ix, other),
         NEW e, e = Extend(ix, other)
  PROVE  /\ IndexOK(e) /\ Joins(e.labels, ix.labels, Added(ix, other))
         /\ e.kind = IF ix.kind = "range" /\ ~IsUnlabelled(other) THEN "int" ELSE ix.kind
         /\ ix.kind = "datetime" <=> other.kind = "datetime"
<1> DEFINE s == ix.labels  t == Added(ix, other)  w == s \o t
<1>1. s \in Seq(Int) /\ t \in Seq(Int) /\ Joins(w, s, t)
  BY AddedType DEF IndexOK, Joins
<1>2. ix = Index(ix.kind, ix.start, s) /\ ix.kind \in Kinds /\ other.kind \in Kinds /\ ix.start \in Nat
  BY DEF IndexOK
<1>3. ix.kind = "datetime" <=> other.kind = "datetime"
  BY <1>2 DEF CheckAppend, IsUnlabelled, Kinds
<1>8. ix.kind # "datetime" => Unsigned(s) /\ Unsigned(t)
  BY <1>3, AddedUnsigned
<1>4. CASE ix.kind = "range" /\ IsUnlabelled(other)
  <2>1. e = RangeIndex(ix.start, Len(ix.labels) + Len(other.labels))
    BY <1>4 DEF Extend
  <2> QED
    BY <1>3, <1>4, <2>1, ExtendRange
<1>5. CASE ix.kind = "range" /\ ~IsUnlabelled(other)
  <2>1. e = Index("int", 0, s \o other.labels)
    BY <1>5 DEF Extend
  <2>2. t = other.labels
    BY <1>5 DEF Added
  <2>3. e = Index("int", 0, w)
    BY <2>1, <2>2
  <2>5. Unsigned(s) /\ Unsigned(t)
    BY <1>5, <1>8
  <2> HIDE DEF s, t, w
  <2>4. IndexOK(e) /\ e.kind = "int" /\ e.labels = w
    BY <1>1, <2>3, <2>5, IndexMade
  <2> QED
    BY <1>1, <1>3, <1>5, <2>4 DEF s, t
<1>6. CASE ix.kind = "int"
  <2>1. t = IF IsUnlabelled(other) THEN [i \in 1 .. Len(other.labels) |-> Continuation(s) + i - 1]
            ELSE other.labels
    BY <1>6 DEF Added, Next1
  <2>2. e = [ix EXCEPT !.labels = ix.labels \o t, !.order = Extended(ix.order, LastOf(s), t)]
    <3> HIDE DEF t
    <3> QED
      BY <1>6, <2>1 DEF Extend
  <2>3. ix.order = OrderOf("int", s)
    BY <1>2, <1>6 DEF Index
  <2>4. Extended(ix.order, LastOf(s), t) = OrderOf("int", s \o t)
    <3> HIDE DEF s, t
    <3> QED
      BY <1>1, <2>3, OrderAppend
  <2>5. e = Index("int", ix.start, w)
    <3> DEFINE o == OrderOf("int", w)
    <3>1. e = [ix EXCEPT !.labels = w, !.order = o]
      BY <2>2, <2>4
    <3>2. ix = Index("int", ix.start, s)
      BY <1>2, <1>6
    <3>3. o = OrderOf("int", w)
      OBVIOUS
    <3> HIDE DEF w, o, s
    <3>4. GrownTo(e, ix, w, o)
      BY <3>1 DEF GrownTo
    <3> QED
      BY <3>2, <3>3, <3>4, IndexGrown
  <2>7. Unsigned(s) /\ Unsigned(t)
    BY <1>6, <1>8
  <2> HIDE DEF s, t, w
  <2>6. IndexOK(e) /\ e.kind = "int" /\ e.labels = w
    BY <1>1, <1>2, <2>5, <2>7, IndexMade
  <2> QED
    BY <1>1, <1>3, <1>6, <2>6 DEF s, t
<1>7. CASE ix.kind = "datetime"
  <2>1. t = other.labels /\ \A i \in 1 .. Len(t) : t[i] # NaT
    BY <1>3, <1>7 DEF Added, IsUnlabelled, CheckAppend
  <2>2. e = [ix EXCEPT !.labels = ix.labels \o t, !.order = ExtendedDatetime(ix.order, LastOf(s), t)]
    <3> HIDE DEF t
    <3> QED
      BY <1>7, <2>1 DEF Extend
  <2>3. ix.order = OrderOf("datetime", s)
    BY <1>2, <1>7 DEF Index
  <2>4. ExtendedDatetime(ix.order, LastOf(s), t) = OrderOf("datetime", s \o t)
    <3> HIDE DEF s, t
    <3> QED
      BY <1>1, <2>1, <2>3, OrderAppend
  <2>5. e = Index("datetime", ix.start, w)
    <3> DEFINE o == OrderOf("datetime", w)
    <3>1. e = [ix EXCEPT !.labels = w, !.order = o]
      BY <2>2, <2>4
    <3>2. ix = Index("datetime", ix.start, s)
      BY <1>2, <1>7
    <3>3. o = OrderOf("datetime", w)
      OBVIOUS
    <3> HIDE DEF w, o, s
    <3>4. GrownTo(e, ix, w, o)
      BY <3>1 DEF GrownTo
    <3> QED
      BY <3>2, <3>3, <3>4, IndexGrown
  <2> HIDE DEF s, t, w
  <2>6. IndexOK(e) /\ e.kind = "datetime" /\ e.labels = w
    BY <1>1, <1>2, <2>5, IndexMade
  <2> QED
    BY <1>1, <1>3, <1>7, <2>6 DEF s, t
<1> QED
  BY <1>2, <1>4, <1>5, <1>6, <1>7 DEF Kinds

-----------------------------------------------------------------------------
(* Frames: the cursor vouches for rows of before the call, in place.       *)
Kept(s, v) == v <= Len(s) /\ \A i \in 1 .. v : s[i] = i

FrameOK(g) ==
  /\ g = [index |-> g.index, rows |-> g.rows, valid |-> g.valid, ok |-> g.ok]
  /\ IndexOK(g.index) /\ g.rows \in Seq(Int) /\ Len(g.rows) = Len(g.index.labels)
  /\ g.valid \in Nat /\ Kept(g.rows, g.valid)
  /\ g.ok \in BOOLEAN

BatchPart(b, from, end) == IF from = 0 /\ end = Len(b.labels) THEN b ELSE Slice(b, from, end)

IsBatchPart(part, b, from, end) ==
  /\ IndexOK(part) /\ part.kind = b.kind
  /\ b.kind = "range" => part.start = b.start + from
  /\ IsPart(part.labels, b.labels, from, end)
  /\ Len(part.labels) = end - from

LEMMA BatchPartIs ==
  ASSUME NEW b, IndexOK(b), NEW from \in Nat, NEW end \in Nat, from <= end, end <= Len(b.labels),
         NEW part, part = BatchPart(b, from, end)
  PROVE  IsBatchPart(part, b, from, end)
<1>1. b.labels \in Seq(Int) /\ b.start \in Int
  BY DEF IndexOK
<1>2. CASE from = 0 /\ end = Len(b.labels)
  <2>1. part = b
    BY <1>2 DEF BatchPart
  <2>2. SubSeq(b.labels, 1, Len(b.labels)) = b.labels
    BY <1>1
  <2> QED
    BY <1>1, <1>2, <2>1, <2>2 DEF IsPart, IsBatchPart
<1>3. CASE ~(from = 0 /\ end = Len(b.labels))
  <2>1. IsSlice(part, b, from, end)
    BY <1>3 DEF BatchPart, IsSlice
  <2>2. /\ IndexOK(part) /\ part.kind = b.kind
        /\ part.start = IF b.kind = "range" THEN b.start + from ELSE 0
        /\ IsPart(part.labels, b.labels, from, end)
        /\ Len(part.labels) = end - from
    BY <2>1, SliceOK
  <2> QED
    BY <2>2 DEF IsBatchPart
<1> QED
  BY <1>2, <1>3

LEMMA Growing ==
  ASSUME NEW s \in Seq(Int), NEW v \in Nat, Kept(s, v), NEW t \in Seq(Int), NEW u, Joins(u, s, t)
  PROVE  u \in Seq(Int) /\ Len(u) = Len(s) + Len(t) /\ Kept(u, v)
<1>1. /\ Len(s) \in Nat /\ Len(t) \in Nat
      /\ u \in Seq(Int) /\ Len(u) = Len(s) + Len(t)
      /\ \A i \in 1 .. Len(s) : u[i] = s[i]
  BY Joined
<1>2. v <= Len(u)
  BY <1>1 DEF Kept
<1>3. ASSUME NEW i \in 1 .. v
      PROVE  u[i] = i
  <2>1. i \in 1 .. Len(s) /\ s[i] = i
    BY <1>1 DEF Kept
  <2> QED
    BY <1>1, <2>1
<1> QED
  BY <1>1, <1>2, <1>3 DEF Kept

(* Rows labelled by `part' were appended, or they were not and that is told. *)
Pushed(g, f, part) ==
  \/ g.index = f.index /\ g.ok = FALSE
  \/ CheckAppend(f.index, part) /\ g.index = Extend(f.index, part) /\ g.ok = f.ok

LEMMA PushRowsOK ==
  ASSUME NEW f, FrameOK(f), NEW b, IndexOK(b), NEW from \in Nat, NEW end \in Nat, from <= end,
         end <= Len(b.labels), NEW part, part = BatchPart(b, from, end),
         NEW g, g = PushRows(f, b, from, end)
  PROVE  FrameOK(g) /\ Pushed(g, f, part)
<1>1. /\ f = [index |-> f.index, rows |-> f.rows, valid |-> f.valid, ok |-> f.ok]
      /\ IndexOK(f.index) /\ f.rows \in Seq(Int) /\ Len(f.rows) = Len(f.index.labels)
      /\ f.valid \in Nat /\ Kept(f.rows, f.valid)
      /\ f.ok \in BOOLEAN
  BY DEF FrameOK
<1>2. CASE ~CheckAppend(f.index, part)
  <2>1. g = [f EXCEPT !.ok = FALSE]
    BY <1>2 DEF PushRows, BatchPart
  <2>2. g = [index |-> f.index, rows |-> f.rows, valid |-> f.valid, ok |-> FALSE]
    BY <1>1, <2>1
  <2> QED
    BY <1>1, <2>2 DEF FrameOK, Pushed
<1>3. CASE CheckAppend(f.index, part)
  <2> DEFINE e == Extend(f.index, part)
             new == [i \in 1 .. end - from |-> -(from + i)]
             r == f.rows \o new
  <2>1. g = [f EXCEPT !.index = e, !.rows = r]
    BY <1>3 DEF PushRows, BatchPart
  <2>2. Joins(r, f.rows, new)
    BY DEF Joins
  <2>3. new \in Seq(Int) /\ Len(new) = end - from
    OBVIOUS
  <2>4. IndexOK(part) /\ Len(part.labels) = end - from
    <3>1. IsBatchPart(part, b, from, end)
      BY BatchPartIs
    <3> QED
      BY <3>1 DEF IsBatchPart
  <2>5. IndexOK(e) /\ Joins(e.labels, f.index.labels, Added(f.index, part))
    BY <1>1, <1>3, <2>4, ExtendOK
  <2>6. Added(f.index, part) \in Seq(Int) /\ Len(Added(f.index, part)) = end - from
    BY <1>1, <2>4, AddedType
  <2>7. f.index.labels \in Seq(Int)
    BY <1>1 DEF IndexOK
  <2>8. Len(e.labels) = Len(f.index.labels) + (end - from)
    <3> DEFINE l == f.index.labels  a == Added(f.index, part)  w == e.labels
    <3>1. l \in Seq(Int) /\ a \in Seq(Int)
      BY <2>6, <2>7
    <3>2. Joins(w, l, a) /\ Len(a) = end - from
      BY <2>5, <2>6
    <3> HIDE DEF l, a, w
    <3>3. Len(w) = Len(l) + Len(a)
      BY <3>1, <3>2, Joined
    <3> QED
      BY <3>2, <3>3 DEF l, w
  <2> HIDE DEF e, new, r
  <2>9. g = [index |-> e, rows |-> r, valid |-> f.valid, ok |-> f.ok]
    BY <1>1, <2>1
  <2>10. r \in Seq(Int) /\ Len(r) = Len(f.rows) + (end - from) /\ Kept(r, f.valid)
    <3> DEFINE s == f.rows  v == f.valid
    <3>1. s \in Seq(Int) /\ v \in Nat /\ Kept(s, v)
      BY <1>1
    <3>2. Joins(r, s, new)
      BY <2>2
    <3> HIDE DEF s, v
    <3>3. r \in Seq(Int) /\ Len(r) = Len(s) + Len(new) /\ Kept(r, v)
      BY <2>3, <3>1, <3>2, Growing
    <3> QED
      BY <2>3, <3>3 DEF s, v
  <2>11. FrameOK(g)
    BY <1>1, <2>5, <2>8, <2>9, <2>10 DEF FrameOK
  <2> QED
    BY <1>3, <2>9, <2>11 DEF e, Pushed
<1> QED
  BY <1>2, <1>3

LEMMA WriteLastOK ==
  ASSUME NEW f, FrameOK(f), f.index.labels # <<>>, NEW k \in Nat, NEW g, g = WriteLastRow(f, k)
  PROVE  FrameOK(g) /\ g.index = f.index /\ g.ok = f.ok
<1> DEFINE last == Len(f.rows) - 1
           r == [f.rows EXCEPT ![last + 1] = -k]
           v == IF f.valid > last THEN last ELSE f.valid
<1>1. /\ f = [index |-> f.index, rows |-> f.rows, valid |-> f.valid, ok |-> f.ok]
      /\ IndexOK(f.index) /\ f.rows \in Seq(Int) /\ Len(f.rows) = Len(f.index.labels)
      /\ f.valid \in Nat /\ Kept(f.rows, f.valid)
      /\ f.ok \in BOOLEAN
  BY DEF FrameOK
<1>2. Len(f.rows) \in Nat /\ Len(f.rows) >= 1
  <2>1. f.index.labels \in Seq(Int)
    BY <1>1 DEF IndexOK
  <2> QED
    BY <1>1, <2>1
<1>3. g = [f EXCEPT !.rows[last + 1] = -k, !.valid = v]
  BY DEF WriteLastRow
<1>4. g = [index |-> f.index, rows |-> r, valid |-> v, ok |-> f.ok]
  BY <1>1, <1>3
<1>5. r \in Seq(Int) /\ Len(r) = Len(f.rows) /\ \A i \in 1 .. last : r[i] = f.rows[i]
  BY <1>1, <1>2
<1>6. v \in Nat /\ v <= last /\ v <= f.valid
  BY <1>1, <1>2
<1> HIDE DEF r, v
<1>7. ASSUME NEW i \in 1 .. v
      PROVE  r[i] = i
  <2>1. i \in 1 .. last /\ i \in 1 .. f.valid
    BY <1>1, <1>2, <1>6
  <2> QED
    BY <1>1, <1>5, <2>1 DEF Kept
<1>8. Kept(r, v)
  BY <1>2, <1>5, <1>6, <1>7 DEF Kept
<1>9. FrameOK(g)
  BY <1>1, <1>4, <1>5, <1>6, <1>8 DEF FrameOK
<1> QED
  BY <1>4, <1>9

(* A row that is neither the last one's replacement nor a repeat has a     *)
(* label that no retained row has, nor an earlier one of the batch.        *)
LEMMA NewLabel ==
  ASSUME NEW ix, IndexOK(ix), NEW b, IndexOK(b), b.kind # "datetime", NEW k \in 1 .. Len(b.labels),
         NEW from \in Nat, from <= Len(ix.labels), ~Replaces(ix, b, k), ~Repeats(ix, b, k, from)
  PROVE  /\ \A i \in from + 1 .. Len(ix.labels) : ix.labels[i] # b.labels[k]
         /\ \A j \in 1 .. k - 1 : b.labels[j] # b.labels[k]
<1> DEFINE s == b.labels  x == b.labels[k]
<1>1. s \in Seq(Int) /\ k \in 1 .. Len(s) /\ x \in Int /\ x = s[k]
  BY DEF IndexOK
<1>2. PositionIn(ix, x, from) = 0 /\ ~SeenBefore(b, k)
  BY DEF Repeats
<1>3. \A i \in from + 1 .. Len(ix.labels) : ix.labels[i] # x
  <2> HIDE DEF x
  <2> QED
    BY <1>1, <1>2, PositionFirst DEF IsFirstAfter
<1>4. ASSUME NEW j \in 1 .. k - 1, s[j] = x
      PROVE  FALSE
  <2>1. LabelsAreOrdered(b)
    BY <1>2, <1>4 DEF SeenBefore
  <2>2. CASE b.kind = "range"
    <3>1. \A i \in 1 .. Len(s) : s[i] = b.start + i - 1
      BY <2>2 DEF IndexOK
    <3>2. b.start \in Int
      BY DEF IndexOK
    <3> DEFINE st == b.start
    <3>7. j \in 1 .. Len(s) /\ k \in 1 .. Len(s)
      BY <1>1
    <3> HIDE DEF s
    <3>3. j \in 1 .. Len(s) /\ s[j] = st + j - 1 /\ s[k] = st + k - 1 /\ st \in Int
      BY <3>1, <3>2, <3>7
    <3>4. j \in Int /\ k \in Int /\ j < k
      BY <1>1
    <3>5. s[j] = s[k]
      BY <1>4 DEF s
    <3> HIDE DEF s, x, st
    <3>6. st + j - 1 = st + k - 1
      BY <3>3, <3>5
    <3> QED
      BY <3>3, <3>4, <3>6
  <2>3. CASE b.kind # "range"
    <3>1. Up(s) \/ Down(s)
      BY <2>1, <2>3, OrderSound DEF LabelsAreOrdered
    <3> HIDE DEF s
    <3>2. j \in 1 .. Len(s) /\ k - 1 \in 1 .. Len(s) /\ j <= k - 1 /\ k - 1 <= k
      BY <1>1
    <3>3. s[j] \in Int /\ s[k - 1] \in Int
      BY <1>1, <3>2
    <3>4. s[k - 1] = x
      <4>1. CASE Up(s)
        <5>1. s[j] <= s[k - 1] /\ s[k - 1] <= s[k]
          BY <1>1, <3>2, <4>1, UpPairs
        <5> QED
          BY <1>1, <1>4, <3>3, <5>1
      <4>2. CASE Down(s)
        <5>1. s[j] >= s[k - 1] /\ s[k - 1] >= s[k]
          BY <1>1, <3>2, <4>2, DownPairs
        <5> QED
          BY <1>1, <1>4, <3>3, <5>1
      <4> QED
        BY <3>1, <4>1, <4>2
    <3>5. Previous(ix, b, k) = <<s[k - 1]>>
      BY <3>2 DEF Previous, s
    <3> QED
      BY <3>4, <3>5 DEF Replaces, s
  <2> QED
    BY <2>2, <2>3
<1> QED
  BY <1>3, <1>4 DEF s, x

-----------------------------------------------------------------------------
(* Labels that stay apart, and labels that increase.                       *)
Apart(s, from) == \A i, j \in from + 1 .. Len(s) : s[i] = s[j] => i = j

Foreign(s, t, from) == \A i \in from + 1 .. Len(s), k \in 1 .. Len(t) : s[i] # t[k]

LEMMA ApartJoin ==
  ASSUME NEW s \in Seq(Int), NEW t \in Seq(Int), NEW w, Joins(w, s, t),
         NEW from \in Nat, from <= Len(s), Apart(s, from), Apart(t, 0), Foreign(s, t, from)
  PROVE  Apart(w, from)
<1>1. /\ Len(s) \in Nat /\ Len(t) \in Nat
      /\ w \in Seq(Int) /\ Len(w) = Len(s) + Len(t)
      /\ \A i \in 1 .. Len(s) : w[i] = s[i]
      /\ \A i \in 1 .. Len(t) : w[Len(s) + i] = t[i]
  BY Joined
<1>2. ASSUME NEW i \in from + 1 .. Len(w)
      PROVE  \/ i \in from + 1 .. Len(s) /\ w[i] = s[i]
             \/ i - Len(s) \in 1 .. Len(t) /\ w[i] = t[i - Len(s)]
  <2>1. CASE i <= Len(s)
    <3>1. i \in from + 1 .. Len(s) /\ i \in 1 .. Len(s)
      BY <1>1, <2>1
    <3> QED
      BY <1>1, <3>1
  <2>2. CASE i > Len(s)
    <3>1. i - Len(s) \in 1 .. Len(t) /\ Len(s) + (i - Len(s)) = i
      BY <1>1, <2>2
    <3> QED
      BY <1>1, <3>1
  <2> QED
    BY <1>1, <2>1, <2>2
<1>3. SUFFICES ASSUME NEW i \in from + 1 .. Len(w), NEW j \in from + 1 .. Len(w), w[i] = w[j]
               PROVE  i = j
  BY DEF Apart
<1>4. CASE i \in from + 1 .. Len(s) /\ w[i] = s[i]
  <2>1. CASE j \in from + 1 .. Len(s) /\ w[j] = s[j]
    BY <1>3, <1>4, <2>1 DEF Apart
  <2>2. CASE j - Len(s) \in 1 .. Len(t) /\ w[j] = t[j - Len(s)]
    BY <1>3, <1>4, <2>2 DEF Foreign
  <2> QED
    BY <1>2, <2>1, <2>2
<1>5. CASE i - Len(s) \in 1 .. Len(t) /\ w[i] = t[i - Len(s)]
  <2>1. CASE j \in from + 1 .. Len(s) /\ w[j] = s[j]
    BY <1>3, <1>5, <2>1 DEF Foreign
  <2>2. CASE j - Len(s) \in 1 .. Len(t) /\ w[j] = t[j - Len(s)]
    <3> DEFINE a == i - Len(s)  c == j - Len(s)
    <3>1. a \in 1 .. Len(t) /\ c \in 1 .. Len(t)
      BY <1>5, <2>2
    <3>2. t[a] = t[c]
      BY <1>3, <1>5, <2>2
    <3>3. i \in Int /\ j \in Int /\ Len(s) \in Int
      BY <1>1
    <3>4. a = c => i = j
      BY <3>3
    <3>5. 0 + 1 = 1
      OBVIOUS
    <3> HIDE DEF a, c
    <3>6. a = c
      BY <3>1, <3>2, <3>5 DEF Apart
    <3> QED
      BY <3>4, <3>6
  <2> QED
    BY <1>2, <2>1, <2>2
<1> QED
  BY <1>2, <1>4, <1>5

LEMMA IncreasingJoin ==
  ASSUME NEW s \in Seq(Int), NEW t \in Seq(Int), NEW w, Joins(w, s, t),
         Increasing(s), Increasing(t), s # <<>> /\ t # <<>> => s[Len(s)] < t[1]
  PROVE  Increasing(w)
<1>1. /\ Len(s) \in Nat /\ Len(t) \in Nat
      /\ w \in Seq(Int) /\ Len(w) = Len(s) + Len(t)
      /\ \A i \in 1 .. Len(s) : w[i] = s[i]
      /\ \A i \in 1 .. Len(t) : w[Len(s) + i] = t[i]
  <2>1. IsJoin(w, s, t)
    BY JoinIs
  <2> QED
    BY <2>1 DEF IsJoin
<1>2. SUFFICES ASSUME NEW i \in 1 .. Len(w) - 1
               PROVE  w[i] < w[i + 1]
  BY DEF Increasing
<1>3. CASE i < Len(s)
  <2>0. Len(s) \in Nat /\ i \in Int /\ i >= 1
    BY <1>1
  <2>1. i \in 1 .. Len(s) - 1 /\ i \in 1 .. Len(s) /\ i + 1 \in 1 .. Len(s)
    BY <1>3, <2>0
  <2> QED
    BY <1>1, <2>1 DEF Increasing
<1>4. CASE i = Len(s)
  <2>1. i \in 1 .. Len(s) /\ 1 \in 1 .. Len(t) /\ i + 1 = Len(s) + 1
    BY <1>1, <1>4
  <2>2. s # <<>> /\ t # <<>>
    BY <2>1
  <2> QED
    BY <1>1, <1>4, <2>1, <2>2
<1>5. CASE i > Len(s)
  <2> DEFINE j == i - Len(s)
  <2>0. Len(s) \in Nat /\ Len(t) \in Nat /\ i \in Int /\ i <= (Len(s) + Len(t)) - 1
    BY <1>1
  <2>1. j \in 1 .. Len(t) - 1 /\ j \in 1 .. Len(t) /\ j + 1 \in 1 .. Len(t)
    BY <1>5, <2>0
  <2>2. Len(s) + j = i /\ Len(s) + (j + 1) = i + 1
    BY <1>1
  <2> HIDE DEF j
  <2> QED
    BY <1>1, <2>1, <2>2 DEF Increasing
<1> QED
  BY <1>1, <1>3, <1>4, <1>5

(* u is s and after it only labels of the first k of t.                    *)
Follows(u, s, t, k) ==
  /\ Len(s) <= Len(u) /\ \A i \in 1 .. Len(s) : u[i] = s[i]
  /\ \A i \in Len(s) + 1 .. Len(u) : \E j \in 1 .. k : u[i] = t[j]

LEMMA FollowsJoin ==
  ASSUME NEW s \in Seq(Int), NEW t \in Seq(Int), NEW u \in Seq(Int), NEW k \in 1 .. Len(t),
         Follows(u, s, t, k - 1), NEW x, x = <<t[k]>>, NEW w, Joins(w, u, x)
  PROVE  Follows(w, s, t, k)
<1>1. x \in Seq(Int) /\ Len(x) = 1 /\ x[1] = t[k]
  OBVIOUS
<1>2. /\ Len(u) \in Nat /\ Len(s) \in Nat /\ Len(w) = Len(u) + 1
      /\ \A i \in 1 .. Len(u) : w[i] = u[i]
      /\ \A i \in 1 .. 1 : w[Len(u) + i] = x[i]
  <2>1. x \in Seq(Int)
    BY <1>1
  <2>2. /\ Len(u) \in Nat /\ Len(w) = Len(u) + Len(x)
        /\ \A i \in 1 .. Len(u) : w[i] = u[i]
        /\ \A i \in 1 .. Len(x) : w[Len(u) + i] = x[i]
    <3>1. IsJoin(w, u, x)
      BY ONLY u \in Seq(Int), Joins(w, u, x), <2>1, JoinIs
    <3> QED
      BY <3>1 DEF IsJoin
  <2>3. Len(s) \in Nat
    OBVIOUS
  <2> QED
    BY <1>1, <2>2, <2>3
<1>3. w[Len(u) + 1] = t[k]
  BY <1>1, <1>2
<1>4. Len(s) <= Len(u) /\ \A i \in 1 .. Len(s) : u[i] = s[i]
  BY DEF Follows
<1>5. \A i \in 1 .. Len(s) : w[i] = s[i]
  BY <1>2, <1>4
<1>6. ASSUME NEW i \in Len(s) + 1 .. Len(w)
      PROVE  \E j \in 1 .. k : w[i] = t[j]
  <2>1. CASE i = Len(u) + 1
    BY <1>3, <2>1
  <2>2. CASE i # Len(u) + 1
    <3>0. Len(u) \in Nat /\ Len(s) \in Nat /\ i \in Int /\ i >= Len(s) + 1 /\ i <= Len(u) + 1
      BY <1>2
    <3>1. i \in Len(s) + 1 .. Len(u) /\ i \in 1 .. Len(u)
      <4> DEFINE p == Len(s)  q == Len(u)
      <4>1. q \in Nat /\ p \in Nat /\ i \in Int /\ i >= p + 1 /\ i <= q + 1 /\ i # q + 1
        BY <2>2, <3>0
      <4> HIDE DEF p, q
      <4>2. i \in p + 1 .. q /\ i \in 1 .. q
        BY ONLY <4>1
      <4> QED
        BY <4>2 DEF p, q
    <3>2. PICK j \in 1 .. k - 1 : u[i] = t[j]
      BY <3>1 DEF Follows
    <3>3. j \in 1 .. k
      OBVIOUS
    <3> QED
      BY <1>2, <3>1, <3>2, <3>3
  <2> QED
    BY <2>1, <2>2
<1> QED
  BY <1>2, <1>4, <1>5, <1>6 DEF Follows

-----------------------------------------------------------------------------
(* A labelled batch, row by row.  Ready: the batch may be written row by   *)
(* row to a frame of index ix, whose retained rows are those after `from'. *)
Ready(ix, b, from) ==
  /\ IndexOK(ix) /\ IndexOK(b) /\ b.start \in Nat /\ ~IsUnlabelled(b)
  /\ CheckAppend(ix, b) /\ from \in Nat /\ from <= Len(ix.labels)
  /\ ix.kind # "datetime" => Apart(ix.labels, from)
  /\ \A k \in 1 .. Len(b.labels) : ~OutOfOrder(ix, b, k) /\ ~Repeats(ix, b, k, from)

(* Labels u of a frame once k rows were written to one of index ix.        *)
Labelled(u, ix, b, k, from) ==
  /\ Follows(u, ix.labels, b.labels, k)
  /\ ix.kind # "datetime" => Apart(u, from)
  /\ ix.kind = "datetime" /\ Increasing(ix.labels) => Increasing(u)

Wrote(g, ix, b, k, from) ==
  /\ FrameOK(g) /\ (g.index.kind = "datetime" <=> ix.kind = "datetime")
  /\ Labelled(g.index.labels, ix, b, k, from)
  /\ g.ok => LastOf(g.index.labels) = Previous(ix, b, k + 1)

LEMMA StillLabelled ==
  ASSUME NEW ix, NEW b, NEW k \in Nat, NEW from, NEW u, Labelled(u, ix, b, k, from)
  PROVE  Labelled(u, ix, b, k + 1, from)
<1>1. \A j \in 1 .. k : j \in 1 .. k + 1
  OBVIOUS
<1>2. Follows(u, ix.labels, b.labels, k + 1)
  BY <1>1 DEF Labelled, Follows
<1> QED
  BY <1>2 DEF Labelled

(* The labels of a row that is neither.                                    *)
LEMMA RowLabelled ==
  ASSUME NEW ix, NEW b, NEW from, Ready(ix, b, from), NEW k \in 1 .. Len(b.labels),
         ~Replaces(ix, b, k), NEW u, u \in Seq(Int), Labelled(u, ix, b, k - 1, from),
         LastOf(u) = Previous(ix, b, k), NEW x, x = <<b.labels[k]>>, NEW w, Joins(w, u, x)
  PROVE  Labelled(w, ix, b, k, from) /\ LastOf(w) = x
<1> DEFINE s == ix.labels  t == b.labels
<1>1. s \in Seq(Int) /\ t \in Seq(Int) /\ from \in Nat /\ from <= Len(s)
  BY DEF Ready, IndexOK
<1>2. k \in 1 .. Len(t) /\ t[k] \in Int /\ x = <<t[k]>>
  BY <1>1
<1>3. x \in Seq(Int) /\ Len(x) = 1 /\ x[1] = t[k] /\ x # <<>>
  BY <1>2
<1>4. Follows(u, s, t, k - 1)
  BY DEF Labelled
<1>5. /\ Len(u) \in Nat /\ Len(w) = Len(u) + 1
      /\ \A i \in 1 .. 1 : w[Len(u) + i] = x[i]
  <2>1. x \in Seq(Int)
    BY <1>3
  <2>2. /\ Len(u) \in Nat /\ Len(w) = Len(u) + Len(x)
        /\ \A i \in 1 .. Len(x) : w[Len(u) + i] = x[i]
    <3>1. IsJoin(w, u, x)
      BY ONLY u \in Seq(Int), Joins(w, u, x), <2>1, JoinIs
    <3> QED
      BY <3>1 DEF IsJoin
  <2> QED
    BY <1>3, <2>2
<1>6. LastOf(w) = x
  <2>1. w[Len(u) + 1] = t[k] /\ Len(w) = Len(u) + 1 /\ Len(w) # 0
    BY <1>3, <1>5
  <2>2. w # <<>>
    BY <2>1
  <2>3. LastOf(w) = <<w[Len(w)]>>
    BY <2>2 DEF LastOf
  <2> QED
    BY <1>2, <2>1, <2>3
<1> HIDE DEF s, t
<1>7. Follows(w, s, t, k)
  <2>1. s \in Seq(Int)
    BY <1>1
  <2>2. t \in Seq(Int)
    BY <1>1
  <2>3. k \in 1 .. Len(t) /\ x = <<t[k]>>
    BY <1>2
  <2> QED
    BY <1>4, <2>1, <2>2, <2>3, FollowsJoin
<1>8. ASSUME ix.kind # "datetime"
      PROVE  Apart(w, from)
  <2>1. IndexOK(ix) /\ IndexOK(b) /\ b.kind # "datetime" /\ ~Repeats(ix, b, k, from)
    <3>1. CheckAppend(ix, b) /\ IndexOK(ix) /\ IndexOK(b) /\ ~Repeats(ix, b, k, from)
      BY DEF Ready
    <3>2. Extend(ix, b) = Extend(ix, b)
      OBVIOUS
    <3> QED
      BY <1>8, <3>1, <3>2, ExtendOK
  <2>2. /\ \A i \in from + 1 .. Len(s) : s[i] # t[k]
        /\ \A j \in 1 .. k - 1 : t[j] # t[k]
    BY <1>1, <1>2, <2>1, NewLabel DEF s, t
  <2>3. /\ Len(s) <= Len(u) /\ \A i \in 1 .. Len(s) : u[i] = s[i]
        /\ \A i \in Len(s) + 1 .. Len(u) : \E j \in 1 .. k - 1 : u[i] = t[j]
    BY <1>4 DEF Follows
  <2>4. ASSUME NEW i \in from + 1 .. Len(u)
        PROVE  u[i] # t[k]
    <3>0. i \in Int /\ i >= 1 /\ Len(s) \in Nat
      BY <1>1
    <3>1. CASE i <= Len(s)
      <4>1. i \in 1 .. Len(s) /\ i \in from + 1 .. Len(s)
        BY <3>0, <3>1
      <4> QED
        BY <2>2, <2>3, <4>1
    <3>2. CASE i > Len(s)
      <4>1. i \in Len(s) + 1 .. Len(u)
        BY <3>0, <3>2
      <4> QED
        BY <2>2, <2>3, <4>1
    <3> QED
      BY <3>0, <3>1, <3>2
  <2>5. Foreign(u, x, from)
    <3>1. \A j \in 1 .. Len(x) : x[j] = t[k]
      BY <1>3
    <3> QED
      BY <2>4, <3>1 DEF Foreign
  <2>6. Apart(x, 0)
    BY <1>3 DEF Apart
  <2>7. Apart(u, from)
    BY <1>8 DEF Labelled
  <2>8. from \in Nat /\ from <= Len(u) /\ x \in Seq(Int)
    BY <1>1, <1>3, <1>5, <2>3
  <2> QED
    BY <2>5, <2>6, <2>7, <2>8, ApartJoin
<1>9. ASSUME ix.kind = "datetime", Increasing(ix.labels)
      PROVE  Increasing(w)
  <2>1. Increasing(u) /\ Increasing(x)
    BY <1>3, <1>9 DEF Labelled, Increasing
  <2>2. b.kind = "datetime" /\ ~OutOfOrder(ix, b, k)
    <3>1. CheckAppend(ix, b) /\ IndexOK(ix) /\ IndexOK(b) /\ ~OutOfOrder(ix, b, k)
      BY DEF Ready
    <3>2. Extend(ix, b) = Extend(ix, b)
      OBVIOUS
    <3> QED
      BY <1>9, <3>1, <3>2, ExtendOK
  <2>3. ASSUME u # <<>>
        PROVE  u[Len(u)] < x[1]
    <3>1. LastOf(u) = <<u[Len(u)]>> /\ LastOf(u) # <<>> /\ u[Len(u)] \in Int
      BY <2>3 DEF LastOf
    <3> DEFINE p == u[Len(u)]
    <3>2. Previous(ix, b, k) = <<p>> /\ p \in Int
      BY <3>1
    <3> HIDE DEF p
    <3>3. <<p>>[1] = p /\ <<p>> # <<>>
      OBVIOUS
    <3>4. ~(b.labels[k] < p)
      BY <2>2, <3>2, <3>3 DEF OutOfOrder
    <3>5. p # b.labels[k]
      BY <3>2 DEF Replaces
    <3>6. p < t[k]
      BY <1>2, <3>2, <3>4, <3>5 DEF t
    <3> QED
      BY <1>3, <3>6 DEF p
  <2>4. x \in Seq(Int)
    BY <1>3
  <2> QED
    BY <2>1, <2>3, <2>4, IncreasingJoin
<1> QED
  BY <1>6, <1>7, <1>8, <1>9 DEF Labelled, s, t

LEMMA RowStep ==
  ASSUME NEW ix, NEW b, NEW from, Ready(ix, b, from), NEW k \in 1 .. Len(b.labels),
         NEW h, Wrote(h, ix, b, k - 1, from), NEW g, g = CommitRow(h, b, Replacing(ix, b), k)
  PROVE  Wrote(g, ix, b, k, from)
<1> DEFINE u == h.index.labels  s == b.labels
<1>1. /\ IndexOK(ix) /\ IndexOK(b) /\ b.start \in Nat /\ ~IsUnlabelled(b) /\ CheckAppend(ix, b)
      /\ s \in Seq(Int)
  BY DEF Ready, IndexOK
<1>2. /\ FrameOK(h) /\ (h.index.kind = "datetime" <=> ix.kind = "datetime")
      /\ Labelled(u, ix, b, k - 1, from)
      /\ h.ok => LastOf(u) = Previous(ix, b, k)
  <2>1. (k - 1) + 1 = k
    OBVIOUS
  <2> QED
    BY <2>1 DEF Wrote
<1>3. IndexOK(h.index) /\ u \in Seq(Int) /\ h.ok \in BOOLEAN
  BY <1>2 DEF FrameOK, IndexOK
<1>4. Labelled(u, ix, b, k, from)
  <2>1. k - 1 \in Nat /\ (k - 1) + 1 = k
    OBVIOUS
  <2>2. Labelled(u, ix, b, (k - 1) + 1, from)
    <3> HIDE DEF u
    <3> QED
      BY <1>2, <2>1, StillLabelled
  <2> QED
    BY <2>1, <2>2
<1>5. Previous(ix, b, k + 1) = <<s[k]>>
  <2>1. k + 1 > 1 /\ (k + 1) - 1 = k
    OBVIOUS
  <2> QED
    BY <2>1 DEF Previous
<1>6. k \in Replacing(ix, b) <=> Replaces(ix, b, k)
  BY <1>1 DEF Replacing
<1>7. CASE ~h.ok
  <2>1. g = h
    BY <1>7 DEF CommitRow
  <2> QED
    BY <1>2, <1>4, <1>7, <2>1 DEF Wrote
<1>8. CASE h.ok /\ Replaces(ix, b, k)
  <2>1. g = WriteLastRow(h, k)
    BY <1>6, <1>8 DEF CommitRow
  <2>2. LastOf(u) = <<s[k]>>
    BY <1>2, <1>8 DEF Replaces
  <2>3. u # <<>>
    BY <2>2 DEF LastOf
  <2>4. k \in Nat
    OBVIOUS
  <2>5. FrameOK(g) /\ g.index = h.index /\ g.ok = h.ok
    BY <1>2, <2>1, <2>3, <2>4, WriteLastOK
  <2> QED
    BY <1>2, <1>4, <1>5, <2>2, <2>5 DEF Wrote
<1>9. CASE h.ok /\ ~Replaces(ix, b, k)
  <2> DEFINE c == k - 1  part == BatchPart(b, c, k)
  <2>1. g = PushRows(h, b, c, k)
    BY <1>6, <1>9 DEF CommitRow
  <2>2. c \in Nat /\ k \in Nat /\ c <= k /\ k <= Len(s) /\ k - c = 1 /\ c + 1 = k
    BY <1>1
  <2>3. part = BatchPart(b, c, k)
    OBVIOUS
  <2> HIDE DEF c, part
  <2>10. c \in Nat
    BY <2>2
  <2>11. k \in Nat
    BY <2>2
  <2>12. c <= k
    BY <2>2
  <2>13. k <= Len(b.labels)
    BY <2>2
  <2>14. IndexOK(b)
    BY <1>1
  <2>15. FrameOK(h)
    BY <1>2
  <2>4. FrameOK(g) /\ Pushed(g, h, part)
    BY ONLY <2>1, <2>3, <2>10, <2>11, <2>12, <2>13, <2>14, <2>15, PushRowsOK
  <2>5. /\ IndexOK(part) /\ part.kind = b.kind
        /\ b.kind = "range" => part.start = b.start + c
        /\ IsPart(part.labels, s, c, k)
        /\ Len(part.labels) = k - c
    <3>1. IsBatchPart(part, b, c, k)
      BY ONLY <2>3, <2>10, <2>11, <2>12, <2>13, <2>14, BatchPartIs
    <3> QED
      BY <3>1 DEF IsBatchPart, s
  <2>6. CASE g.index = h.index /\ g.ok = FALSE
    BY <1>2, <1>4, <2>4, <2>6 DEF Wrote
  <2>7. CASE CheckAppend(h.index, part) /\ g.index = Extend(h.index, part) /\ g.ok = h.ok
    <3> DEFINE e == g.index  x == <<s[k]>>  w == e.labels
    <3>1. ~IsUnlabelled(part)
      <4>1. b.kind = "range" => b.start # 0
        BY <1>1 DEF IsUnlabelled
      <4>2. b.kind = "range" => part.start # 0
        BY <1>1, <2>2, <2>5, <4>1
      <4> QED
        BY <2>5, <4>2 DEF IsUnlabelled
    <3>2. part.labels = x
      <4> DEFINE p == part.labels
      <4>1. p \in Seq(Int) /\ Len(p) = 1 /\ \A i \in 1 .. 1 : p[i] = s[c + i]
        <5>1. IsPart(p, s, c, k)
          BY <2>5
        <5>2. s \in Seq(Int)
          BY <1>1
        <5>3. k <= Len(s)
          BY <2>2
        <5> HIDE DEF p, s
        <5>4. p \in Seq(Int) /\ Len(p) = k - c /\ \A i \in 1 .. k - c : p[i] = s[c + i]
          BY ONLY <2>10, <2>11, <2>12, <5>1, <5>2, <5>3, PartOf
        <5> QED
          BY <2>2, <5>4
      <4>2. p[1] = s[k]
        BY <2>2, <4>1
      <4>3. p = [i \in 1 .. 1 |-> p[i]]
        BY <4>1
      <4> QED
        BY <4>2, <4>3
    <3>3. /\ IndexOK(e) /\ Joins(w, u, Added(h.index, part))
          /\ e.kind = IF h.index.kind = "range" /\ ~IsUnlabelled(part) THEN "int" ELSE h.index.kind
      <4>1. e = Extend(h.index, part)
        BY <2>7
      <4> HIDE DEF e
      <4>2. IndexOK(h.index)
        BY <1>3
      <4>3. IndexOK(part)
        BY <2>5
      <4> QED
        BY <2>7, <4>1, <4>2, <4>3, ExtendOK
    <3>4. Added(h.index, part) = x
      BY <3>1, <3>2 DEF Added
    <3>5. Labelled(w, ix, b, k, from) /\ LastOf(w) = x
      <4>1. Joins(w, u, x)
        BY <3>3, <3>4
      <4>2. u \in Seq(Int) /\ Labelled(u, ix, b, k - 1, from) /\ LastOf(u) = Previous(ix, b, k)
        BY <1>2, <1>3, <1>9
      <4>3. x = <<b.labels[k]>> /\ ~Replaces(ix, b, k)
        BY <1>9
      <4> HIDE DEF w, u, x, s
      <4> QED
        BY <4>1, <4>2, <4>3, RowLabelled
    <3>6. g.index.kind = "datetime" <=> ix.kind = "datetime"
      BY <1>2, <3>3
    <3> QED
      BY <1>5, <2>4, <3>5, <3>6 DEF Wrote
  <2> QED
    BY <2>4, <2>6, <2>7 DEF Pushed
<1> QED
  BY <1>3, <1>7, <1>8, <1>9

(* The rows written, one after the other.                                  *)
Writing(W, f, b, R) ==
  W = [k \in 0 .. Len(b.labels) |-> IF k = 0 THEN f ELSE CommitRow(W[k - 1], b, R, k)]

(* A recursion on the rows of a batch defines a function.                  *)
LEMMA WritingExists ==
  ASSUME NEW f, NEW b, Len(b.labels) \in Nat, NEW R
  PROVE  \E W : Writing(W, f, b, R)
<1> DEFINE n == Len(b.labels)
           Upto(W, m) == W = [k \in 0 .. m |-> IF k = 0 THEN f ELSE CommitRow(W[k - 1], b, R, k)]
           T == {m \in Nat : \E W : Upto(W, m)}
<1>1. 0 \in T
  <2> DEFINE W == [k \in 0 .. 0 |-> f]
  <2>1. W = [k \in 0 .. 0 |-> IF k = 0 THEN f ELSE CommitRow(W[k - 1], b, R, k)]
    OBVIOUS
  <2> QED
    BY <2>1
<1>2. ASSUME NEW m \in 0 .. n - 1, m \in T
      PROVE  m + 1 \in T
  <2>1. PICK W : Upto(W, m)
    BY <1>2
  <2> DEFINE V == [k \in 0 .. m + 1 |-> IF k = m + 1 THEN CommitRow(W[m], b, R, m + 1) ELSE W[k]]
  <2>2. V = [k \in 0 .. m + 1 |-> V[k]]
    OBVIOUS
  <2>3. ASSUME NEW k \in 0 .. m + 1
        PROVE  V[k] = IF k = 0 THEN f ELSE CommitRow(V[k - 1], b, R, k)
    <3>1. CASE k = m + 1
      <4>1. V[k] = CommitRow(W[m], b, R, m + 1) /\ k # 0 /\ k - 1 = m
        BY <3>1
      <4>2. V[m] = W[m]
        OBVIOUS
      <4> QED
        BY <3>1, <4>1, <4>2
    <3>2. CASE k # m + 1
      <4>1. k \in 0 .. m /\ V[k] = W[k]
        BY <3>2
      <4>2. W[k] = IF k = 0 THEN f ELSE CommitRow(W[k - 1], b, R, k)
        BY <2>1, <4>1
      <4>3. k # 0 => V[k - 1] = W[k - 1]
        BY <4>1
      <4> QED
        BY <4>1, <4>2, <4>3
    <3> QED
      BY <3>1, <3>2
  <2> HIDE DEF V
  <2>4. V = [k \in 0 .. m + 1 |-> IF k = 0 THEN f ELSE CommitRow(V[k - 1], b, R, k)]
    BY <2>2, <2>3
  <2>5. m + 1 \in Nat
    OBVIOUS
  <2> QED
    BY <2>4, <2>5
<1>3. n \in Nat
  OBVIOUS
<1>4. \A m \in 0 .. n - 1 : m \in T => m + 1 \in T
  BY <1>2
<1> HIDE DEF T, n
<1>5. \A m \in 0 .. n : m \in T
  BY <1>1, <1>3, <1>4, Inductive
<1>6. n \in T
  BY <1>3, <1>5
<1> QED
  BY <1>6 DEF T, Writing, n

LEMMA WritingRows ==
  ASSUME NEW ix, NEW b, NEW from, Ready(ix, b, from), NEW f, Wrote(f, ix, b, 0, from),
         NEW W, Writing(W, f, b, Replacing(ix, b))
  PROVE  Wrote(W[Len(b.labels)], ix, b, Len(b.labels), from)
<1> DEFINE n == Len(b.labels)
           T == {k \in 0 .. n : Wrote(W[k], ix, b, k, from)}
<1>1. n \in Nat
  BY DEF Ready, IndexOK
<1>2. \A k \in 0 .. n : W[k] = IF k = 0 THEN f ELSE CommitRow(W[k - 1], b, Replacing(ix, b), k)
  BY DEF Writing
<1>3. 0 \in T
  BY <1>1, <1>2
<1>4. ASSUME NEW k \in 0 .. n - 1, k \in T
      PROVE  k + 1 \in T
  <2> DEFINE j == k + 1  h == W[k]  g == W[j]
  <2>1. j \in 1 .. n /\ j \in 0 .. n /\ j # 0 /\ j - 1 = k
    BY <1>1
  <2>2. g = CommitRow(h, b, Replacing(ix, b), j)
    BY <1>2, <2>1
  <2>3. Wrote(h, ix, b, j - 1, from)
    BY <1>4, <2>1
  <2> HIDE DEF j, h, g
  <2>4. Wrote(g, ix, b, j, from)
    BY <2>1, <2>2, <2>3, RowStep
  <2> QED
    BY <2>1, <2>4 DEF j, g
<1>5. \A k \in 0 .. n - 1 : k \in T => k + 1 \in T
  BY <1>4
<1> HIDE DEF T, n
<1>6. \A k \in 0 .. n : k \in T
  BY <1>1, <1>3, <1>5, Inductive
<1>7. n \in T
  BY <1>1, <1>6
<1> QED
  BY <1>7 DEF T, n

-----------------------------------------------------------------------------
(* A batch taken whole: its rows are all new, or they take the next labels. *)
LEMMA FreshBatch ==
  ASSUME NEW ix, NEW b, NEW from, Ready(ix, b, from),
         \A k \in 1 .. Len(b.labels) : ~Replaces(ix, b, k)
  PROVE  /\ ix.kind # "datetime" => Apart(b.labels, 0) /\ Foreign(ix.labels, b.labels, from)
         /\ ix.kind = "datetime" =>
              /\ Increasing(b.labels)
              /\ ix.labels # <<>> /\ b.labels # <<>> => ix.labels[Len(ix.labels)] < b.labels[1]
<1> DEFINE s == ix.labels  t == b.labels
<1>1. /\ IndexOK(ix) /\ IndexOK(b) /\ CheckAppend(ix, b) /\ from \in Nat /\ from <= Len(s)
      /\ \A k \in 1 .. Len(t) : ~OutOfOrder(ix, b, k) /\ ~Repeats(ix, b, k, from)
  BY DEF Ready
<1>2. s \in Seq(Int) /\ t \in Seq(Int)
  BY <1>1 DEF IndexOK
<1>3. ix.kind = "datetime" <=> b.kind = "datetime"
  <2>1. Extend(ix, b) = Extend(ix, b)
    OBVIOUS
  <2> QED
    BY <1>1, <2>1, ExtendOK
<1>4. ASSUME ix.kind # "datetime"
      PROVE  Apart(t, 0) /\ Foreign(s, t, from)
  <2>1. ASSUME NEW k \in 1 .. Len(t)
        PROVE  /\ \A i \in from + 1 .. Len(s) : s[i] # t[k]
               /\ \A j \in 1 .. k - 1 : t[j] # t[k]
    BY <1>1, <1>3, <1>4, <2>1, NewLabel
  <2>2. Foreign(s, t, from)
    BY <2>1 DEF Foreign
  <2>3. ASSUME NEW i \in 1 .. Len(t), NEW j \in 1 .. Len(t), t[i] = t[j]
        PROVE  i = j
    <3>1. ~(i < j)
      BY <2>1, <2>3
    <3>2. ~(j < i)
      BY <2>1, <2>3
    <3> QED
      BY <3>1, <3>2
  <2>4. 0 + 1 = 1
    OBVIOUS
  <2> HIDE DEF s, t
  <2> QED
    BY <2>2, <2>3, <2>4 DEF Apart
<1>5. ASSUME ix.kind = "datetime", NEW k \in 1 .. Len(t), NEW p \in Int, Previous(ix, b, k) = <<p>>
      PROVE  p < t[k]
  <2>1. <<p>>[1] = p /\ <<p>> # <<>> /\ t[k] \in Int
    BY <1>2
  <2>2. ~OutOfOrder(ix, b, k) /\ ~Replaces(ix, b, k)
    BY <1>1
  <2>3. ~(t[k] < p)
    BY <1>3, <1>5, <2>1, <2>2 DEF OutOfOrder
  <2>4. p # t[k]
    BY <1>5, <2>2 DEF Replaces
  <2> QED
    BY <2>1, <2>3, <2>4
<1>6. ASSUME ix.kind = "datetime"
      PROVE  Increasing(t)
  <2> SUFFICES ASSUME NEW i \in 1 .. Len(t) - 1
               PROVE  t[i] < t[i + 1]
    BY DEF Increasing
  <2>1. i + 1 \in 1 .. Len(t) /\ i + 1 > 1 /\ (i + 1) - 1 = i /\ t[i] \in Int
    BY <1>2
  <2>2. Previous(ix, b, i + 1) = <<t[i]>>
    BY <2>1 DEF Previous
  <2> QED
    BY <1>5, <1>6, <2>1, <2>2
<1>7. ASSUME ix.kind = "datetime", s # <<>>, t # <<>>
      PROVE  s[Len(s)] < t[1]
  <2>1. 1 \in 1 .. Len(t) /\ s[Len(s)] \in Int
    BY <1>2, <1>7
  <2>2. Previous(ix, b, 1) = <<s[Len(s)]>>
    BY <1>7 DEF Previous, LastOf
  <2> QED
    BY <1>5, <1>7, <2>1, <2>2
<1> QED
  BY <1>4, <1>6, <1>7

(* Rows without labels take labels that no retained row has.               *)
LEMMA NextLabels ==
  ASSUME NEW ix, IndexOK(ix), ix.kind = "int", NEW b, IndexOK(b), IsUnlabelled(b),
         NEW from \in Nat, from <= Len(ix.labels), CheckAppend(ix, b),
         ~ContinuationClash(ix, Len(b.labels), from)
  PROVE  Apart(Added(ix, b), 0) /\ Foreign(ix.labels, Added(ix, b), from)
<1> DEFINE s == ix.labels  n == Len(b.labels)  c == Continuation(s)  a == Added(ix, b)
<1>1. s \in Seq(Int) /\ n \in Nat /\ c \in Int
  <2>1. s \in Seq(Int) /\ n \in Nat
    BY DEF IndexOK
  <2>2. Next1(ix) \in Int
    BY AddedType
  <2>3. c = Next1(ix)
    BY DEF Next1
  <2> HIDE DEF c
  <2> QED
    BY <2>1, <2>2, <2>3
<1>2. a = [i \in 1 .. n |-> c + i - 1]
  BY DEF Added, Next1
<1>3. Len(a) = n /\ \A i \in 1 .. n : a[i] = c + i - 1
  BY <1>1, <1>2
<1>4. n = 0 \/ Continues(s, n)
  BY DEF CheckAppend, IsUnlabelled
<1> HIDE DEF a
<1>5. Apart(a, 0)
  <2>1. \A i, j \in 1 .. n : c + i - 1 = c + j - 1 => i = j
    <3> HIDE DEF c, n
    <3> QED
      BY <1>1
  <2>2. 0 + 1 = 1
    OBVIOUS
  <2> HIDE DEF c, n
  <2> QED
    BY <1>3, <2>1, <2>2 DEF Apart
<1>6. ASSUME NEW i \in from + 1 .. Len(s), NEW k \in 1 .. n
      PROVE  s[i] # c + k - 1
  <2>1. i \in 1 .. Len(s) /\ s[i] \in Int /\ n > 0
    BY <1>1
  <2>2. CASE ix.order.increasing
    <3>1. Up(s)
      BY <2>2, OrderSound
    <3>2. s # <<>> /\ Len(s) \in 1 .. Len(s) /\ i <= Len(s) /\ s[Len(s)] \in Int
      BY <1>1, <2>1
    <3>3. c = s[Len(s)] + 1
      BY <3>2 DEF Continuation
    <3>4. s[i] <= s[Len(s)]
      <4> HIDE DEF s
      <4> QED
        BY <1>1, <2>1, <3>1, <3>2, UpPairs
    <3> DEFINE l == s[Len(s)]  x == s[i]
    <3>5. c = l + 1 /\ x <= l /\ l \in Int /\ x \in Int
      BY <2>1, <3>2, <3>3, <3>4
    <3> HIDE DEF c, l, x
    <3>6. x # c + k - 1
      BY <3>5
    <3> QED
      BY <3>6 DEF x
  <2>3. CASE ~ix.order.increasing
    <3>1. Continues(s, n)
      BY <1>4, <2>1
    <3>2. ~(s[i] \in c .. c + n - 1)
      BY <2>1, <2>3, <3>1 DEF ContinuationClash
    <3> HIDE DEF c, n, s
    <3> QED
      BY <1>1, <2>1, <3>2
  <2> QED
    BY <2>2, <2>3
<1>7. Foreign(s, a, from)
  <2> HIDE DEF c, n, s
  <2> QED
    BY <1>3, <1>6 DEF Foreign
<1> QED
  BY <1>5, <1>7 DEF a

(* What an accepted batch leaves, whether all of it could be written or not. *)
Took(g, ix, from) ==
  /\ FrameOK(g) /\ (g.index.kind = "datetime" <=> ix.kind = "datetime")
  /\ Len(ix.labels) <= Len(g.index.labels)
  /\ ix.kind # "datetime" => Apart(g.index.labels, from)
  /\ ix.kind = "datetime" /\ Increasing(ix.labels) => Increasing(g.index.labels)

LEMMA WroteTook ==
  ASSUME NEW g, NEW ix, NEW b, NEW k, NEW from, Wrote(g, ix, b, k, from)
  PROVE  Took(g, ix, from)
BY DEF Wrote, Labelled, Follows, Took

LEMMA RangeApart ==
  ASSUME NEW ix, IndexOK(ix), ix.kind = "range", NEW from \in Nat
  PROVE  Apart(ix.labels, from)
<1> DEFINE s == ix.labels  b == ix.start
<1>1. s \in Seq(Int) /\ b \in Int /\ \A i \in 1 .. Len(s) : s[i] = b + i - 1
  BY DEF IndexOK
<1> HIDE DEF s, b
<1>2. ASSUME NEW i \in from + 1 .. Len(s), NEW j \in from + 1 .. Len(s), s[i] = s[j]
      PROVE  i = j
  <2>1. i \in 1 .. Len(s) /\ j \in 1 .. Len(s) /\ i \in Int /\ j \in Int
    BY <1>1
  <2>2. b + i - 1 = b + j - 1
    BY <1>1, <1>2, <2>1
  <2> QED
    BY <1>1, <2>1, <2>2
<1> QED
  BY <1>2 DEF Apart, s

LEMMA WholePush ==
  ASSUME NEW f, FrameOK(f), NEW b, IndexOK(b), NEW from \in Nat, from <= Len(f.index.labels),
         f.index.kind # "datetime" => Apart(f.index.labels, from),
         CheckAppend(f.index, b), IsUnlabelled(b) => ~ContinuationClash(f.index, Len(b.labels), from),
         ~IsUnlabelled(b) =>
           /\ Ready(f.index, b, from)
           /\ \A k \in 1 .. Len(b.labels) : ~Replaces(f.index, b, k),
         NEW g, g = PushRows(f, b, 0, Len(b.labels))
  PROVE  Took(g, f.index, from)
<1> DEFINE ix == f.index  s == ix.labels  a == Added(ix, b)  w == g.index.labels  n == Len(b.labels)
<1>1. IndexOK(ix) /\ s \in Seq(Int) /\ Len(s) \in Nat
  BY DEF FrameOK, IndexOK
<1>2. FrameOK(g) /\ Pushed(g, f, b)
  <2> DEFINE z == 0
  <2>1. b = BatchPart(b, z, n)
    BY DEF BatchPart
  <2>2. n \in Nat
    BY DEF IndexOK
  <2>3. z \in Nat
    OBVIOUS
  <2>4. z <= n
    BY <2>2
  <2>5. n <= Len(b.labels)
    BY <2>2
  <2>6. g = PushRows(f, b, z, n)
    OBVIOUS
  <2> HIDE DEF z, n
  <2> QED
    BY ONLY FrameOK(f), IndexOK(b), <2>1, <2>2, <2>3, <2>4, <2>5, <2>6, PushRowsOK
<1>3. CASE g.index = f.index /\ g.ok = FALSE
  BY <1>1, <1>2, <1>3 DEF Took
<1>4. CASE CheckAppend(f.index, b) /\ g.index = Extend(f.index, b) /\ g.ok = f.ok
  <2>1. /\ IndexOK(g.index) /\ Joins(w, s, a)
        /\ g.index.kind = IF ix.kind = "range" /\ ~IsUnlabelled(b) THEN "int" ELSE ix.kind
        /\ ix.kind = "datetime" <=> b.kind = "datetime"
    <3> DEFINE e == g.index
    <3>1. e = Extend(ix, b)
      BY <1>4
    <3>2. IndexOK(ix)
      BY <1>1
    <3>3. CheckAppend(ix, b)
      OBVIOUS
    <3> HIDE DEF e, ix
    <3>4. /\ IndexOK(e) /\ Joins(e.labels, ix.labels, Added(ix, b))
          /\ e.kind = IF ix.kind = "range" /\ ~IsUnlabelled(b) THEN "int" ELSE ix.kind
          /\ ix.kind = "datetime" <=> b.kind = "datetime"
      BY ONLY IndexOK(b), <3>1, <3>2, <3>3, ExtendOK
    <3> QED
      BY <3>4 DEF e, ix
  <2>2. a \in Seq(Int)
    BY <1>1, AddedType
  <2>3. w \in Seq(Int) /\ Len(w) = Len(s) + Len(a) /\ Len(a) \in Nat
    <3> HIDE DEF w, s, a
    <3> QED
      BY <1>1, <2>1, <2>2, Joined
  <2>4. g.index.kind = "datetime" <=> ix.kind = "datetime"
    BY <2>1
  <2>5. ~IsUnlabelled(b) => a = b.labels
    BY DEF Added
  <2>6. ASSUME ix.kind # "datetime"
        PROVE  Apart(w, from)
    <3>1. CASE IsUnlabelled(b) /\ ix.kind = "range"
      BY <2>1, <3>1, RangeApart
    <3>2. CASE ~(IsUnlabelled(b) /\ ix.kind = "range")
      <4>1. Apart(a, 0) /\ Foreign(s, a, from)
        <5>1. CASE IsUnlabelled(b)
          <6>1. ix.kind = "int"
            BY <1>1, <2>6, <3>2, <5>1 DEF IndexOK, Kinds
          <6> HIDE DEF ix
          <6>2. ~ContinuationClash(ix, Len(b.labels), from) /\ CheckAppend(ix, b) /\ from <= Len(ix.labels)
            BY <5>1 DEF ix
          <6> QED
            BY <1>1, <5>1, <6>1, <6>2, NextLabels
        <5>2. CASE ~IsUnlabelled(b)
          BY <2>5, <2>6, <5>2, FreshBatch
        <5> QED
          BY <5>1, <5>2
      <4>2. Apart(s, from) /\ from <= Len(s)
        BY <2>6
      <4> HIDE DEF w, s, a
      <4> QED
        BY <1>1, <2>1, <2>2, <4>1, <4>2, ApartJoin
    <3> QED
      BY <3>1, <3>2
  <2>7. ASSUME ix.kind = "datetime", Increasing(s)
        PROVE  Increasing(w)
    <3>1. ~IsUnlabelled(b)
      BY <2>1, <2>7 DEF IsUnlabelled
    <3>2. Increasing(a) /\ (s # <<>> /\ a # <<>> => s[Len(s)] < a[1])
      BY <2>5, <2>7, <3>1, FreshBatch
    <3> HIDE DEF w, s, a
    <3> QED
      BY <1>1, <2>1, <2>2, <2>7, <3>2, IncreasingJoin
  <2>8. Len(s) <= Len(w)
    <3> HIDE DEF w, s, a
    <3> QED
      BY <1>1, <2>3
  <2>9. FrameOK(g)
    BY <1>2
  <2> QED
    BY <2>4, <2>6, <2>7, <2>8, <2>9 DEF Took
<1> QED
  BY <1>2, <1>3, <1>4 DEF Pushed

LEMMA CommitTook ==
  ASSUME NEW f, FrameOK(f), f.ok = TRUE, NEW b, IndexOK(b), b.start \in Nat, NEW from \in Nat,
         from <= Len(f.index.labels), f.index.kind # "datetime" => Apart(f.index.labels, from),
         CheckAppend(f.index, b), Routable(f.index, b, from),
         NEW g, g = CommitRows(f, b)
  PROVE  Took(g, f.index, from)
<1> DEFINE ix == f.index  n == Len(b.labels)  R == Replacing(ix, b)
<1>1. IndexOK(ix) /\ b.labels \in Seq(Int) /\ n \in Nat
  BY DEF FrameOK, IndexOK
<1>2. ASSUME ~IsUnlabelled(b)
      PROVE  Ready(ix, b, from)
  <2>1. \A k \in 1 .. n : ~OutOfOrder(ix, b, k) /\ ~Repeats(ix, b, k, from)
    <3>1. CASE b.labels = <<>>
      <4>1. 1 .. n = {}
        BY <3>1
      <4> QED
        BY <4>1
    <3>2. CASE b.labels # <<>>
      BY <1>2, <3>2 DEF Routable
    <3> QED
      BY <3>1, <3>2
  <2> QED
    BY <1>1, <1>2, <2>1 DEF Ready
<1>3. CASE R = {}
  <2>1. g = PushRows(f, b, 0, n)
    BY <1>3 DEF CommitRows
  <2>2. IsUnlabelled(b) => ~ContinuationClash(ix, n, from)
    BY DEF Routable
  <2>3. ~IsUnlabelled(b) => \A k \in 1 .. n : ~Replaces(ix, b, k)
    BY <1>3 DEF Replacing
  <2> QED
    BY <1>2, <2>1, <2>2, <2>3, WholePush
<1>4. CASE R # {}
  <2> DEFINE written == CHOOSE W : Writing(W, f, b, R)
  <2>1. g = written[n]
    BY <1>4 DEF CommitRows, Writing
  <2>2. \E W : Writing(W, f, b, R)
    <3> HIDE DEF R
    <3> QED
      BY <1>1, WritingExists
  <2>3. Writing(written, f, b, R)
    BY <2>2
  <2> HIDE DEF written
  <2>4. ~IsUnlabelled(b)
    BY <1>4 DEF Replacing
  <2>5. Ready(ix, b, from)
    BY <1>2, <2>4
  <2>6. Wrote(f, ix, b, 0, from)
    <3>1. Follows(ix.labels, ix.labels, b.labels, 0)
      <4>1. ix.labels \in Seq(Int)
        BY <1>1 DEF IndexOK
      <4>2. Len(ix.labels) <= Len(ix.labels) /\ Len(ix.labels) + 1 .. Len(ix.labels) = {}
        BY <4>1
      <4> QED
        BY <4>2 DEF Follows
    <3>2. Labelled(ix.labels, ix, b, 0, from)
      BY <3>1 DEF Labelled
    <3>3. Previous(ix, b, 0 + 1) = LastOf(ix.labels)
      BY DEF Previous
    <3> QED
      BY <3>2, <3>3 DEF Wrote
  <2>7. Wrote(written[n], ix, b, n, from)
    <3> HIDE DEF ix
    <3> QED
      BY <2>3, <2>5, <2>6, WritingRows
  <2> QED
    BY <2>1, <2>7, WroteTook
<1> QED
  BY <1>3, <1>4

-----------------------------------------------------------------------------
(* Batches, and the frames there are to begin with.                        *)
LEMMA SequencesOf ==
  ASSUME NEW S, NEW n \in Nat, NEW s \in Sequences(S, n), S \subseteq Int
  PROVE  /\ s \in Seq(Int) /\ Len(s) \in 0 .. n /\ \A i \in 1 .. Len(s) : s[i] \in S
         /\ S \subseteq Nat => Unsigned(s)
<1>1. PICK k \in 0 .. n : s \in [1 .. k -> S]
  BY DEF Sequences
<1>2. s \in [1 .. k -> Int] /\ k \in Nat
  <2>1. \A i \in 1 .. k : s[i] \in Int
    BY <1>1
  <2>2. s = [i \in 1 .. k |-> s[i]] /\ k \in Nat
    BY <1>1
  <2> QED
    BY <2>1, <2>2
<1>3. s \in Seq(Int) /\ Len(s) = k
  BY <1>2
<1>4. \A i \in 1 .. k : s[i] \in S
  BY <1>1
<1>5. S \subseteq Nat => Unsigned(s)
  BY <1>3, <1>4 DEF Unsigned
<1> QED
  BY <1>1, <1>3, <1>4, <1>5

LEMMA LabelsType == Labels \subseteq Int /\ NaT \in Int /\ \A x \in Labels : x \in Nat /\ x # NaT
BY MaxLabelAssumption DEF Labels, NaT

LEMMA MadeOK ==
  ASSUME NEW kind \in {"int", "datetime"}, NEW n \in Nat, NEW S, S \subseteq Int,
         kind = "int" => S \subseteq Nat, NEW s \in Sequences(S, n), NEW ix, ix = Index(kind, 0, s)
  PROVE  IndexOK(ix) /\ ix.kind = kind /\ ix.start = 0 /\ ix.labels = s
<1>1. s \in Seq(Int) /\ (S \subseteq Nat => Unsigned(s))
  BY SequencesOf
<1>3. ix.kind = kind /\ ix.start = 0 /\ ix.labels = s
  BY DEF Index
<1> QED
  BY <1>1, <1>3 DEF IndexOK, Kinds

LEMMA RangeMade ==
  ASSUME NEW start \in Nat, NEW n \in Nat, NEW ix, ix = RangeIndex(start, n)
  PROVE  IndexOK(ix) /\ ix.kind = "range" /\ ix.start = start
<1> DEFINE s == [i \in 1 .. n |-> start + i - 1]
<1>1. ix = Index("range", start, s)
  BY DEF RangeIndex
<1>2. s \in Seq(Int) /\ Len(s) = n /\ \A i \in 1 .. n : s[i] = start + i - 1
  OBVIOUS
<1>4. Unsigned(s)
  BY <1>2 DEF Unsigned
<1> HIDE DEF s
<1>3. ix.kind = "range" /\ ix.start = start /\ ix.labels = s
  BY <1>1 DEF Index
<1> QED
  BY <1>1, <1>2, <1>3, <1>4 DEF IndexOK, Kinds

LEMMA RangesMade ==
  ASSUME NEW starts, NEW n, NEW r \in Ranges(starts, n)
  PROVE  \E start \in starts, k \in 0 .. n : r = RangeIndex(start, k)
BY DEF Ranges

LEMMA BatchOK ==
  ASSUME NEW b \in Batches
  PROVE  IndexOK(b) /\ b.start \in Nat
<1> USE WindowAssumption
<1>1. Labels \subseteq Int /\ Labels \cup {NaT} \subseteq Int /\ Labels \subseteq Nat
  BY LabelsType
<1>2. CASE \E s \in Sequences(Labels, MaxBatch) : b = Index("int", 0, s)
  BY <1>1, <1>2, MadeOK
<1>3. CASE \E s \in Sequences(Labels \cup {NaT}, MaxBatch) : b = Index("datetime", 0, s)
  BY <1>1, <1>3, MadeOK
<1>4. CASE \E start \in Labels, n \in 0 .. MaxBatch : b = RangeIndex(start, n)
  <2>1. PICK start \in Labels, n \in 0 .. MaxBatch : b = RangeIndex(start, n)
    BY <1>4
  <2>2. start \in Nat /\ n \in Nat
    BY <1>1
  <2> QED
    BY <2>1, <2>2, RangeMade
<1>5. \/ \E s \in Sequences(Labels, MaxBatch) : b = Index("int", 0, s)
      \/ \E s \in Sequences(Labels \cup {NaT}, MaxBatch) : b = Index("datetime", 0, s)
      \/ \E start \in Labels, n \in 0 .. MaxBatch : b = RangeIndex(start, n)
  <2> DEFINE A == {Index("int", 0, s) : s \in Sequences(Labels, MaxBatch)}
             B == {Index("datetime", 0, s) : s \in Sequences(Labels \cup {NaT}, MaxBatch)}
  <2>1. b \in A \/ b \in B \/ b \in Ranges(Labels, MaxBatch)
    BY Zenon DEF Batches
  <2>2. b \in A => \E s \in Sequences(Labels, MaxBatch) : b = Index("int", 0, s)
    BY Zenon
  <2>3. b \in B => \E s \in Sequences(Labels \cup {NaT}, MaxBatch) : b = Index("datetime", 0, s)
    BY Zenon
  <2>4. b \in Ranges(Labels, MaxBatch) =>
          \E start \in Labels, n \in 0 .. MaxBatch : b = RangeIndex(start, n)
    BY RangesMade
  <2> HIDE DEF A, B
  <2> QED
    BY <2>1, <2>2, <2>3, <2>4
<1> QED
  BY <1>2, <1>3, <1>4, <1>5

LEMMA BuiltOK ==
  ASSUME NEW n \in Nat, NEW ix \in Built(n), NEW from \in Nat
  PROVE  IndexOK(ix) /\ (ix.kind # "datetime" => Apart(ix.labels, from))
<1>1. /\ Labels \subseteq Int /\ Labels \cup {NaT} \subseteq Int /\ Labels \subseteq Nat
      /\ \A x \in Labels : x # NaT
  BY LabelsType
<1>2. CASE \E s \in Sequences(Labels, n) : Distinct(s) /\ ix = Index("int", 0, s)
  <2>1. PICK s \in Sequences(Labels, n) : Distinct(s) /\ ix = Index("int", 0, s)
    BY <1>2
  <2>2. s \in Seq(Int) /\ \A i \in 1 .. Len(s) : s[i] \in Labels
    BY <1>1, SequencesOf
  <2>3. Apart(s, from)
    <3>1. \A i \in from + 1 .. Len(s) : i \in 1 .. Len(s)
      BY <2>2
    <3> QED
      BY <1>1, <2>1, <2>2, <3>1 DEF Distinct, Apart
  <2> QED
    BY <1>1, <2>1, <2>3, MadeOK
<1>3. CASE \E s \in Sequences(Labels \cup {NaT}, n) : ix = Index("datetime", 0, s)
  BY <1>1, <1>3, MadeOK
<1>4. CASE \E start \in 0 .. 1, k \in 0 .. n : ix = RangeIndex(start, k)
  <2>1. PICK start \in 0 .. 1, k \in 0 .. n : ix = RangeIndex(start, k)
    BY <1>4
  <2>2. start \in Nat /\ k \in Nat
    OBVIOUS
  <2>3. IndexOK(ix) /\ ix.kind = "range"
    BY <2>1, <2>2, RangeMade
  <2> QED
    BY <2>3, RangeApart
<1>5. \/ \E s \in Sequences(Labels, n) : Distinct(s) /\ ix = Index("int", 0, s)
      \/ \E s \in Sequences(Labels \cup {NaT}, n) : ix = Index("datetime", 0, s)
      \/ \E start \in 0 .. 1, k \in 0 .. n : ix = RangeIndex(start, k)
  <2> DEFINE A == {Index("int", 0, s) : s \in {s \in Sequences(Labels, n) : Distinct(s)}}
             B == {Index("datetime", 0, s) :
                     s \in {s \in Sequences(Labels \cup {NaT}, n) : Distinct(s)}}
  <2>1. ix \in A \/ ix \in B \/ ix \in Ranges(0 .. 1, n)
    BY Zenon DEF Built
  <2>2. ix \in A => \E s \in Sequences(Labels, n) : Distinct(s) /\ ix = Index("int", 0, s)
    BY Zenon
  <2>3. ix \in B => \E s \in Sequences(Labels \cup {NaT}, n) : ix = Index("datetime", 0, s)
    BY Zenon
  <2>4. ix \in Ranges(0 .. 1, n) => \E start \in 0 .. 1, k \in 0 .. n : ix = RangeIndex(start, k)
    BY RangesMade
  <2> HIDE DEF A, B
  <2> QED
    BY <2>1, <2>2, <2>3, <2>4
<1> QED
  BY <1>2, <1>3, <1>4, <1>5

-----------------------------------------------------------------------------
(* The frame.                                                              *)
RowInv ==
  /\ window \in Nat /\ IndexOK(index)
  /\ rows \in Seq(Int) /\ Len(rows) = height
  /\ valid \in Nat /\ valid <= height /\ CursorCoversHeldRows
  /\ index.kind # "datetime" => Apart(index.labels, RetainedFrom(height))

LEMMA Retained ==
  ASSUME NEW h \in Nat, window \in Nat
  PROVE  /\ RetainedFrom(h) \in Nat /\ RetainedFrom(h) <= h
         /\ \A m \in Nat : h <= m => RetainedFrom(h) <= RetainedFrom(m)
BY WindowAssumption DEF RetainedFrom

(* Fewer rows are retained, and those stay apart.                          *)
LEMMA ApartLater ==
  ASSUME NEW s \in Seq(Int), NEW from \in Nat, NEW later \in Nat, from <= later, Apart(s, from)
  PROVE  Apart(s, later)
<1>1. \A i \in later + 1 .. Len(s) : i \in from + 1 .. Len(s)
  OBVIOUS
<1> QED
  BY <1>1 DEF Apart

(* The labels left by a drop.                                              *)
LEMMA ApartPart ==
  ASSUME NEW s \in Seq(Int), NEW drop \in Nat, drop <= Len(s), NEW end, end = Len(s),
         NEW p, IsPart(p, s, drop, end), NEW from \in Nat, Apart(s, drop + from)
  PROVE  Apart(p, from)
<1>1. p \in Seq(Int) /\ Len(p) = end - drop /\ \A i \in 1 .. end - drop : p[i] = s[drop + i]
  <2>1. end \in Nat
    OBVIOUS
  <2>2. drop <= end
    OBVIOUS
  <2>3. end <= Len(s)
    OBVIOUS
  <2> QED
    BY ONLY s \in Seq(Int), drop \in Nat, IsPart(p, s, drop, end), <2>1, <2>2, <2>3, PartOf
<1>2. ASSUME NEW i \in from + 1 .. Len(p)
      PROVE  drop + i \in drop + from + 1 .. Len(s) /\ p[i] = s[drop + i]
  <2>1. i \in 1 .. end - drop /\ Len(s) \in Nat /\ Len(p) = Len(s) - drop
    BY <1>1
  <2>2. drop + i \in drop + from + 1 .. Len(s)
    BY <2>1
  <2> QED
    BY <1>1, <2>1, <2>2
<1>3. ASSUME NEW i \in from + 1 .. Len(p), NEW j \in from + 1 .. Len(p), p[i] = p[j]
      PROVE  i = j
  <2>1. drop + i = drop + j
    BY <1>2, <1>3 DEF Apart
  <2> QED
    BY <2>1
<1> QED
  BY <1>3 DEF Apart

LEMMA IncreasingPart ==
  ASSUME NEW s \in Seq(Int), NEW drop \in Nat, drop <= Len(s), NEW end, end = Len(s),
         NEW p, IsPart(p, s, drop, end), Increasing(s)
  PROVE  Increasing(p)
<1>1. p \in Seq(Int) /\ Len(p) = end - drop /\ \A i \in 1 .. end - drop : p[i] = s[drop + i]
  <2>1. end \in Nat
    OBVIOUS
  <2>2. drop <= end
    OBVIOUS
  <2>3. end <= Len(s)
    OBVIOUS
  <2> QED
    BY ONLY s \in Seq(Int), drop \in Nat, IsPart(p, s, drop, end), <2>1, <2>2, <2>3, PartOf
<1>2. SUFFICES ASSUME NEW i \in 1 .. Len(p) - 1
               PROVE  p[i] < p[i + 1]
  BY DEF Increasing
<1>3. i \in 1 .. end - drop /\ i + 1 \in 1 .. end - drop /\ drop + (i + 1) = (drop + i) + 1
      /\ drop + i \in 1 .. Len(s) - 1
  <2>1. Len(s) \in Nat /\ end = Len(s) /\ Len(p) = end - drop
    BY <1>1
  <2> QED
    BY <2>1
<1> QED
  BY <1>1, <1>3 DEF Increasing

(* The cursor of the rows left by a drop.                                  *)
Covers(r, v) == \A i \in 1 .. v : r[i] > 0 /\ r[i] = r[1] + i - 1

LEMMA KeptCovers ==
  ASSUME NEW r, NEW v \in Nat, Kept(r, v)
  PROVE  Covers(r, v)
BY DEF Kept, Covers

LEMMA KeptPart ==
  ASSUME NEW r \in Seq(Int), NEW v \in Nat, Kept(r, v), NEW drop \in Nat, drop <= Len(r),
         NEW end, end = Len(r), NEW p, IsPart(p, r, drop, end),
         NEW u, u = IF v > drop THEN v - drop ELSE 0
  PROVE  u \in Nat /\ u <= Len(p) /\ Covers(p, u)
<1>1. p \in Seq(Int) /\ Len(p) = end - drop /\ \A i \in 1 .. end - drop : p[i] = r[drop + i]
  <2>1. end \in Nat
    OBVIOUS
  <2>2. drop <= end
    OBVIOUS
  <2>3. end <= Len(r)
    OBVIOUS
  <2> QED
    BY ONLY r \in Seq(Int), drop \in Nat, IsPart(p, r, drop, end), <2>1, <2>2, <2>3, PartOf
<1>2. Len(r) \in Nat /\ v <= Len(r) /\ \A i \in 1 .. v : r[i] = i
  BY DEF Kept
<1>3. u \in Nat /\ u <= end - drop /\ (u > 0 => u = v - drop)
  BY <1>2
<1>4. ASSUME NEW i \in 1 .. u
      PROVE  p[i] = drop + i
  <2>1. i \in 1 .. end - drop /\ drop + i \in 1 .. v
    BY <1>2, <1>3
  <2> QED
    BY <1>1, <1>2, <2>1
<1>5. \A i \in 1 .. u : 1 \in 1 .. u /\ drop + i > 0 /\ drop + i = (drop + 1) + i - 1
  BY <1>3
<1> QED
  BY <1>1, <1>3, <1>4, <1>5 DEF Covers

(* What a batch leaves once the head was dropped.                          *)
Settled(c, ix) ==
  /\ IndexOK(c.index) /\ c.rows \in Seq(Int) /\ Len(c.rows) = Len(c.index.labels)
  /\ c.valid \in Nat /\ c.valid <= Len(c.rows) /\ Covers(c.rows, c.valid)
  /\ c.index.kind = "datetime" <=> ix.kind = "datetime"
  /\ ix.kind # "datetime" => Apart(c.index.labels, RetainedFrom(Len(c.index.labels)))
  /\ ix.kind = "datetime" /\ Increasing(ix.labels) => Increasing(c.index.labels)

LEMMA DropArithmetic ==
  ASSUME window \in Nat, window # 0, NEW h \in Nat, h >= Bound, NEW drop, drop = h - Capacity
  PROVE  /\ drop \in Nat /\ drop <= h /\ h - drop \in Nat
         /\ drop + RetainedFrom(h - drop) = RetainedFrom(h)
BY WindowAssumption DEF Bound, Capacity, RetainedFrom

LEMMA CompactSettles ==
  ASSUME window \in Nat, NEW ix, IndexOK(ix), NEW g, Took(g, ix, RetainedFrom(Len(ix.labels))),
         NEW c, c = Compact(g)
  PROVE  Settled(c, ix)
<1> DEFINE s == g.index.labels  h == Len(s)  r == g.rows  v == g.valid
           from == RetainedFrom(Len(ix.labels))
<1>1. /\ g = [index |-> g.index, rows |-> r, valid |-> v, ok |-> g.ok]
      /\ IndexOK(g.index) /\ r \in Seq(Int) /\ Len(r) = h
      /\ v \in Nat /\ Kept(r, v)
  BY DEF Took, FrameOK
<1>2. /\ g.index.kind = "datetime" <=> ix.kind = "datetime"
      /\ Len(ix.labels) <= h
      /\ ix.kind # "datetime" => Apart(s, from)
      /\ ix.kind = "datetime" /\ Increasing(ix.labels) => Increasing(s)
  BY DEF Took
<1>3. s \in Seq(Int) /\ h \in Nat /\ Len(ix.labels) \in Nat
  BY <1>1 DEF IndexOK
<1>4. /\ from \in Nat /\ RetainedFrom(h) \in Nat /\ RetainedFrom(h) <= h
      /\ from <= RetainedFrom(h)
  BY <1>2, <1>3, Retained
<1>5. ix.kind # "datetime" => Apart(s, RetainedFrom(h))
  <2> DEFINE later == RetainedFrom(h)
  <2>1. from \in Nat /\ later \in Nat /\ from <= later
    BY <1>4
  <2> HIDE DEF from, later, s, h
  <2>2. ix.kind # "datetime" => Apart(s, later)
    BY <1>2, <1>3, <2>1, ApartLater
  <2> QED
    BY <2>2 DEF later
<1>6. CASE window = 0 \/ h < Bound
  <2>1. c = g
    BY <1>1, <1>6 DEF Compact
  <2>2. Covers(r, v)
    BY <1>1, KeptCovers
  <2>3. v <= Len(r)
    BY <1>1 DEF Kept
  <2> QED
    BY <1>1, <1>2, <1>5, <2>1, <2>2, <2>3 DEF Settled
<1>7. CASE ~(window = 0 \/ h < Bound)
  <2> DEFINE drop == h - Capacity
             part == Slice(g.index, drop, h)
             p == SubSeq(r, drop + 1, h)
             u == IF v > drop THEN v - drop ELSE 0
             t == part.labels
             later == RetainedFrom(h - drop)
  <2>1. c = [g EXCEPT !.index = part, !.rows = p, !.valid = u]
    BY <1>1, <1>7 DEF Compact
  <2>2. drop \in Nat /\ drop <= h /\ h - drop \in Nat /\ drop + later = RetainedFrom(h)
    <3>1. h >= Bound /\ window # 0
      <4>1. Bound \in Nat
        BY WindowAssumption DEF Bound, Capacity
      <4> HIDE DEF h
      <4> QED
        BY <1>3, <1>7, <4>1
    <3>2. drop = h - Capacity
      OBVIOUS
    <3> HIDE DEF drop, h
    <3> QED
      BY <1>3, <3>1, <3>2, DropArithmetic
  <2>3. IsSlice(part, g.index, drop, h) /\ IsPart(p, r, drop, h)
        /\ u = IF v > drop THEN v - drop ELSE 0
    BY DEF IsSlice, IsPart
  <2>4. later \in Nat
    BY <2>2, Retained
  <2>5. h <= h /\ drop <= Len(r) /\ h = Len(r)
    BY <1>1, <1>3, <2>2
  <2> HIDE DEF drop, part, p, u
  <2>6. /\ IndexOK(part) /\ part.kind = g.index.kind
        /\ IsPart(t, s, drop, h) /\ Len(t) = h - drop
    <3> DEFINE i == g.index
    <3>1. IndexOK(i)
      BY <1>1
    <3>2. h \in Nat
      BY <1>3
    <3>3. h <= Len(i.labels)
      BY <2>5
    <3>4. drop \in Nat
      BY <2>2
    <3>6. drop <= h
      BY <2>2
    <3>7. IsSlice(part, i, drop, h)
      BY <2>3
    <3> HIDE DEF i, h, s, r, t, v, later
    <3>5. /\ IndexOK(part) /\ part.kind = i.kind
          /\ IsPart(part.labels, i.labels, drop, h) /\ Len(part.labels) = h - drop
      BY ONLY <3>1, <3>2, <3>3, <3>4, <3>6, <3>7, SliceOK
    <3> QED
      BY <3>5 DEF i, t, s
  <2>7. p \in Seq(Int) /\ Len(p) = h - drop
    <3> HIDE DEF r, h
    <3> QED
      BY <1>1, <1>3, <2>2, <2>3, <2>5, PartOf
  <2>8. u \in Nat /\ u <= Len(p) /\ Covers(p, u)
    <3> HIDE DEF r, h, v
    <3> QED
      BY <1>1, <2>2, <2>3, <2>5, KeptPart
  <2>9. ASSUME ix.kind # "datetime"
        PROVE  Apart(t, later)
    <3>1. Apart(s, drop + later)
      BY <1>5, <2>2, <2>9
    <3>2. drop <= Len(s) /\ h = Len(s)
      BY <2>2
    <3> HIDE DEF s, h, t, later
    <3> QED
      BY <1>3, <2>2, <2>4, <2>6, <3>1, <3>2, ApartPart
  <2>10. ASSUME ix.kind = "datetime", Increasing(ix.labels)
         PROVE  Increasing(t)
    <3>1. Increasing(s)
      BY <1>2, <2>10
    <3>2. drop <= Len(s) /\ h = Len(s)
      BY <2>2
    <3> HIDE DEF s, h, t
    <3> QED
      BY <1>3, <2>2, <2>6, <3>1, <3>2, IncreasingPart
  <2>11. c = [index |-> part, rows |-> p, valid |-> u, ok |-> g.ok]
    BY <1>1, <2>1
  <2>12. later = RetainedFrom(Len(t))
    BY <2>6
  <2> HIDE DEF t, later, s, h
  <2>13. /\ c.index = part /\ c.rows = p /\ c.valid = u
    BY <2>11
  <2> QED
    BY <1>2, <2>6, <2>7, <2>8, <2>9, <2>10, <2>12, <2>13 DEF Settled, t
<1> QED
  BY <1>6, <1>7

-----------------------------------------------------------------------------
(* The steps.                                                              *)
LEMMA FrameTaken ==
  ASSUME RowInv, NEW b \in Batches, Accepts(b), NEW f, f = Compact(CommitRows(Frame, b))
  PROVE  Settled(f, index)
<1> DEFINE g == CommitRows(Frame, b)  from == RetainedFrom(height)  F == Frame
<1>1. /\ window \in Nat /\ IndexOK(index) /\ valid \in Nat /\ valid <= height
      /\ index.kind # "datetime" => Apart(index.labels, from)
  BY DEF RowInv
<1>2. height \in Nat
  BY <1>1 DEF height, IndexOK
<1>3. from \in Nat /\ from <= height
  BY <1>1, <1>2, Retained
<1>4. FrameOK(F) /\ F.index = index /\ F.ok = TRUE
  <2> DEFINE r == [i \in 1 .. height |-> i]
  <2>1. r \in Seq(Int) /\ Len(r) = height /\ \A i \in 1 .. height : r[i] = i
    BY <1>2
  <2>2. F = [index |-> index, rows |-> r, valid |-> valid, ok |-> TRUE]
    BY DEF Frame
  <2> HIDE DEF r
  <2>3. Kept(r, valid)
    BY <1>1, <1>2, <2>1 DEF Kept
  <2> QED
    BY <1>1, <2>1, <2>2, <2>3 DEF FrameOK, height
<1>5. IndexOK(b) /\ b.start \in Nat
  BY BatchOK
<1>6. CheckAppend(index, b) /\ Routable(index, b, from)
  BY DEF Accepts, AdmitRows
<1>7. Took(g, index, from)
  <2>1. CheckAppend(F.index, b) /\ Routable(F.index, b, from)
    BY <1>4, <1>6
  <2>2. F.index.kind # "datetime" => Apart(F.index.labels, from)
    BY <1>1, <1>4
  <2>3. from <= Len(F.index.labels)
    BY <1>3, <1>4 DEF height
  <2>4. g = CommitRows(F, b)
    OBVIOUS
  <2> HIDE DEF F, g, from
  <2>5. Took(g, F.index, from)
    BY <1>3, <1>4, <1>5, <2>1, <2>2, <2>3, <2>4, CommitTook
  <2> QED
    BY <1>4, <2>5
<1>8. f = Compact(g) /\ from = RetainedFrom(Len(index.labels))
  BY DEF height
<1> HIDE DEF g
<1> QED
  BY <1>1, <1>7, <1>8, CompactSettles

LEMMA RowInit == Init => RowInv
<1> SUFFICES ASSUME Init
             PROVE  RowInv
  OBVIOUS
<1>1. window \in Nat
  BY WindowAssumption DEF Init
<1>2. \A n : index \in Built(n) /\ n \in Nat =>
        IndexOK(index) /\ (index.kind # "datetime" => Apart(index.labels, RetainedFrom(height)))
  <2> SUFFICES ASSUME NEW n, index \in Built(n), n \in Nat
               PROVE  IndexOK(index) /\
                      (index.kind # "datetime" => Apart(index.labels, RetainedFrom(height)))
    OBVIOUS
  <2>1. 0 \in Nat
    OBVIOUS
  <2>2. IndexOK(index)
    BY <2>1, BuiltOK
  <2>3. RetainedFrom(height) \in Nat
    BY <1>1, <2>2, Retained DEF IndexOK, height
  <2> QED
    BY <2>3, BuiltOK
<1>3. IndexOK(index) /\ (index.kind # "datetime" => Apart(index.labels, RetainedFrom(height)))
  <2> DEFINE n == IF window > 0 THEN Bound - 1 ELSE MaxRows
  <2>1. n \in Nat
    BY <1>1, WindowAssumption DEF Bound, Capacity
  <2>2. index \in Built(n)
    BY DEF Init
  <2> HIDE DEF n
  <2> QED
    BY <1>2, <2>1, <2>2
<1>4. height \in Nat /\ rows = [i \in 1 .. height |-> i] /\ valid = height
  BY <1>3 DEF Init, IndexOK, height
<1>5. rows \in Seq(Int) /\ Len(rows) = height /\ \A i \in 1 .. height : rows[i] = i
  BY <1>4
<1>6. CursorCoversHeldRows
  BY <1>4, <1>5 DEF CursorCoversHeldRows
<1> QED
  BY <1>1, <1>3, <1>4, <1>5, <1>6 DEF RowInv

LEMMA AppendKeeps ==
  ASSUME RowInv, NEW b \in Batches, AppendBatch(b)
  PROVE  RowInv'
<1>1. window' = window
  BY DEF AppendBatch
<1>2. CASE UNCHANGED <<index, rows, valid>>
  BY <1>1, <1>2 DEF RowInv, height, CursorCoversHeldRows, RetainedFrom
<1>3. CASE ~UNCHANGED <<index, rows, valid>>
  <2> DEFINE f == Compact(CommitRows(Frame, b))
  <2>1. Accepts(b) /\ index' = f.index /\ rows' = f.rows /\ valid' = f.valid
    BY <1>3 DEF AppendBatch
  <2>2. f = Compact(CommitRows(Frame, b))
    OBVIOUS
  <2> HIDE DEF f
  <2>3. Settled(f, index)
    BY <2>1, <2>2, FrameTaken
  <2>4. /\ IndexOK(index') /\ rows' \in Seq(Int) /\ Len(rows') = Len(index'.labels)
        /\ valid' \in Nat /\ valid' <= Len(rows') /\ Covers(rows', valid')
        /\ index'.kind # "datetime" => Apart(index'.labels, RetainedFrom(Len(index'.labels)))
    BY <2>1, <2>3 DEF Settled
  <2>5. RetainedFrom(Len(index'.labels)) = RetainedFrom(height)'
    BY <1>1 DEF RetainedFrom, height
  <2>6. window \in Nat
    BY DEF RowInv
  <2> QED
    BY <1>1, <2>4, <2>5, <2>6 DEF RowInv, Covers, CursorCoversHeldRows, height
<1> QED
  BY <1>2, <1>3

LEMMA RefreshKeeps ==
  ASSUME RowInv, Refresh
  PROVE  RowInv'
<1>1. height \in Nat
  BY DEF RowInv, IndexOK, height
<1>2. UNCHANGED <<window, index>> /\ height' = height /\ RetainedFrom(height)' = RetainedFrom(height)
  BY DEF Refresh, height, RetainedFrom
<1>3. rows' = [i \in 1 .. height |-> i] /\ valid' = height
  BY DEF Refresh
<1>4. rows' \in Seq(Int) /\ Len(rows') = height /\ \A i \in 1 .. height : rows'[i] = i
  BY <1>1, <1>3
<1>5. CursorCoversHeldRows'
  BY <1>1, <1>3, <1>4 DEF CursorCoversHeldRows
<1> QED
  BY <1>1, <1>2, <1>3, <1>4, <1>5 DEF RowInv

LEMMA RowNext ==
  ASSUME RowInv, [Next]_vars
  PROVE  RowInv'
<1>1. CASE \E b \in Batches : AppendBatch(b)
  BY <1>1, AppendKeeps
<1>2. CASE Refresh
  BY <1>2, RefreshKeeps
<1>3. CASE UNCHANGED vars
  BY <1>3 DEF vars, RowInv, height, CursorCoversHeldRows, RetainedFrom
<1> QED
  BY <1>1, <1>2, <1>3 DEF Next

(* Whatever is appended to a frame, its index is one that describes its     *)
(* labels, and the strengthened facts about its labels and its cursor hold. *)
THEOREM RowInvariance == Spec => []RowInv
<1>1. Init => RowInv
  BY RowInit
<1>2. RowInv /\ [Next]_vars => RowInv'
  BY RowNext
<1> QED
  BY <1>1, <1>2, PTL DEF Spec

(* The rows the cache's cursor vouches for are rows of before the call, in  *)
(* place (frame_access.rs: rows are written, and then the head is dropped). *)
THEOREM CursorCovers == Spec => []CursorCoversHeldRows
<1>1. RowInv => CursorCoversHeldRows
  BY DEF RowInv
<1> QED
  BY <1>1, RowInvariance, PTL

(* The search finds the first row a label has, by bisection as by a scan,   *)
(* because the order an index remembers is that of its labels (index.rs:98). *)
THEOREM SearchIsExact == Spec => []FindsFirst
<1>1. RowInv => FindsFirst
  <2> SUFFICES ASSUME RowInv
               PROVE  FindsFirst
    OBVIOUS
  <2>1. IndexOK(index) /\ height \in Nat
    BY DEF RowInv, IndexOK, height
  <2>2. index.order = OrderOf(index.kind, index.labels)
    BY <2>1 DEF IndexOK, Index
  <2>3. ASSUME NEW x \in Labels \cup {NaT}, NEW from \in 0 .. height
        PROVE  LET p == PositionIn(index, x, from)
                   here == {i \in from + 1 .. height : index.labels[i] = x}
               IN  IF p = 0 THEN here = {} ELSE p \in here /\ \A i \in here : p <= i
    <3> DEFINE p == PositionIn(index, x, from)
    <3>1. x \in Int /\ from \in Nat /\ from <= height
      BY <2>1, LabelsType
    <3>2. IsFirstAfter(p, index.labels, x, from)
      BY <2>1, <3>1, PositionFirst DEF height
    <3> HIDE DEF p
    <3>3. CASE p = 0
      <4>1. \A i \in from + 1 .. height : index.labels[i] # x
        BY <3>2, <3>3 DEF IsFirstAfter, height
      <4> QED
        BY <3>3, <4>1 DEF p
    <3>4. CASE p # 0
      <4>1. /\ p \in from + 1 .. height /\ index.labels[p] = x
            /\ \A i \in from + 1 .. p - 1 : index.labels[i] # x
        BY <3>2, <3>4 DEF IsFirstAfter, height
      <4>2. ASSUME NEW i \in from + 1 .. height, index.labels[i] = x
            PROVE  p <= i
        BY <2>1, <3>1, <4>1, <4>2
      <4> QED
        BY <3>4, <4>1, <4>2 DEF p
    <3> QED
      BY <3>3, <3>4
  <2> QED
    BY <2>2, <2>3 DEF FindsFirst
<1> QED
  BY <1>1, RowInvariance, PTL

(* Integer labels stay unique over the rows a frame retains, for every      *)
(* window, margin and batch (frame_access.rs:382).                          *)
THEOREM LabelsStayUnique == Spec => []RetainedUnique
<1>1. RowInv => RetainedUnique
  <2> SUFFICES ASSUME RowInv, index.kind # "datetime"
               PROVE  Distinct(SubSeq(index.labels, KeptFrom + 1, height))
    BY DEF RetainedUnique
  <2> DEFINE s == index.labels  from == KeptFrom  p == SubSeq(s, from + 1, height)
  <2>1. s \in Seq(Int) /\ height \in Nat /\ height = Len(s) /\ window \in Nat
    BY DEF RowInv, IndexOK, height
  <2>2. from = RetainedFrom(height)
    BY <2>1, WindowAssumption DEF KeptFrom, RetainedFrom
  <2>3. from \in Nat /\ from <= height
    BY <2>1, <2>2, Retained
  <2>4. Apart(s, from)
    BY <2>2 DEF RowInv
  <2>5. IsPart(p, s, from, height) /\ Apart(s, from + 0)
    BY <2>3, <2>4 DEF IsPart
  <2>6. from <= Len(s) /\ 0 \in Nat
    BY <2>1, <2>3
  <2> HIDE DEF s, from, p
  <2>7. Apart(p, 0)
    BY <2>1, <2>3, <2>5, <2>6, ApartPart
  <2>8. 0 + 1 = 1
    OBVIOUS
  <2>9. Distinct(p)
    BY <2>7, <2>8 DEF Apart, Distinct
  <2> QED
    BY <2>9 DEF s, from, p
<1> QED
  BY <1>1, RowInvariance, PTL

(* A time series stays one: whatever is appended, refused or dropped,       *)
(* increasing datetime labels only ever increase (admit.rs:176).            *)
THEOREM SeriesStaysIncreasing == Spec => StaysIncreasing
<1>1. RowInv /\ [Next]_vars =>
        [index.kind = "datetime" /\ Increasing(index.labels) => Increasing(index'.labels)]_vars
  <2> SUFFICES ASSUME RowInv, [Next]_vars, index.kind = "datetime", Increasing(index.labels)
               PROVE  Increasing(index'.labels)
    OBVIOUS
  <2>1. CASE index' = index
    BY <2>1
  <2>2. ASSUME NEW b \in Batches, AppendBatch(b), index' # index
        PROVE  Increasing(index'.labels)
    <3> DEFINE f == Compact(CommitRows(Frame, b))
    <3>1. Accepts(b) /\ index' = f.index
      BY <2>2 DEF AppendBatch
    <3>2. f = Compact(CommitRows(Frame, b))
      OBVIOUS
    <3> HIDE DEF f
    <3>3. Settled(f, index)
      BY <3>1, <3>2, FrameTaken
    <3> QED
      BY <3>1, <3>3 DEF Settled
  <2> QED
    BY <2>1, <2>2 DEF Next, Refresh, vars
<1> QED
  BY <1>1, RowInvariance, PTL DEF Spec, StaysIncreasing

-----------------------------------------------------------------------------
(* A batch is its rows.  The rule for one row.                             *)
TakenOK(a) ==
  /\ a = [ok |-> a.ok, taken |-> a.taken, from |-> a.from, labels |-> a.labels, rows |-> a.rows]
  /\ a.labels \in Seq(Int) /\ a.rows \in Seq(Int) /\ Len(a.rows) = Len(a.labels)
  /\ a.taken \in Nat

IsLast(s, x) == s # <<>> /\ x = s[Len(s)]
Behind(s, x) == s # <<>> /\ x < s[Len(s)]
Among(s, x, from) == \E i \in from + 1 .. Len(s) : s[i] = x

Refused(a, x) ==
  \/ x = NaT \/ x > MaxLabel
  \/ index.kind = "datetime" /\ Behind(a.labels, x)
  \/ index.kind # "datetime" /\ Among(a.labels, x, a.from)

LEMMA TakeReplaces ==
  ASSUME NEW a, TakenOK(a), NEW x \in Int, IsLast(a.labels, x), x # NaT,
         NEW c, c = TakeRow(a, x)
  PROVE  /\ TakenOK(c) /\ c.ok = a.ok /\ c.taken = a.taken + 1 /\ c.from = a.from
         /\ c.labels = a.labels /\ c.rows = [a.rows EXCEPT ![Len(a.rows)] = -(a.taken + 1)]
<1> DEFINE r == [a.rows EXCEPT ![Len(a.rows)] = -(a.taken + 1)]  t == a.taken + 1
<1>1. /\ a = [ok |-> a.ok, taken |-> a.taken, from |-> a.from, labels |-> a.labels, rows |-> a.rows]
      /\ a.labels \in Seq(Int) /\ a.rows \in Seq(Int) /\ Len(a.rows) = Len(a.labels)
      /\ a.taken \in Nat
  BY DEF TakenOK
<1>2. r \in Seq(Int) /\ Len(r) = Len(a.rows) /\ t \in Nat
  <2> DEFINE q == a.rows  u == -t
  <2>1. q \in Seq(Int) /\ u \in Int /\ t \in Nat
    BY <1>1
  <2> HIDE DEF q, u
  <2>3. [q EXCEPT ![Len(q)] = u] = [i \in 1 .. Len(q) |-> IF i = Len(q) THEN u ELSE q[i]]
    BY <2>1
  <2> DEFINE n == Len(q)  w == [i \in 1 .. n |-> IF i = n THEN u ELSE q[i]]
  <2>4. n \in Nat /\ \A i \in 1 .. n : (IF i = n THEN u ELSE q[i]) \in Int
    BY <2>1
  <2>5. w \in Seq(Int) /\ Len(w) = n
    <3> HIDE DEF n
    <3> QED
      BY <2>4
  <2>2. [q EXCEPT ![Len(q)] = u] \in Seq(Int) /\ Len([q EXCEPT ![Len(q)] = u]) = Len(q)
    BY <2>3, <2>5
  <2> QED
    BY <2>1, <2>2 DEF q, u
<1>3. c = [a EXCEPT !.taken = t, !.rows[Len(a.rows)] = -t]
  BY DEF TakeRow, IsLast
<1>4. c = [ok |-> a.ok, taken |-> t, from |-> a.from, labels |-> a.labels, rows |-> r]
  BY <1>1, <1>3
<1> HIDE DEF r, t
<1>5. TakenOK(c)
  BY <1>1, <1>2, <1>4 DEF TakenOK
<1> QED
  BY <1>4, <1>5 DEF r, t

LEMMA TakeRefuses ==
  ASSUME NEW a, TakenOK(a), NEW x \in Int, IsLast(a.labels, x) => x = NaT, Refused(a, x),
         NEW c, c = TakeRow(a, x)
  PROVE  c.ok = FALSE
<1>1. c = [a EXCEPT !.ok = FALSE]
  BY DEF TakeRow, IsLast, Refused, Behind, Among
<1>2. a = [ok |-> a.ok, taken |-> a.taken, from |-> a.from, labels |-> a.labels, rows |-> a.rows]
  BY DEF TakenOK
<1> QED
  BY <1>1, <1>2

LEMMA TakeAppends ==
  ASSUME NEW a, TakenOK(a), NEW x \in Int, ~IsLast(a.labels, x), ~Refused(a, x),
         NEW c, c = TakeRow(a, x)
  PROVE  /\ TakenOK(c) /\ c.ok = a.ok /\ c.taken = a.taken + 1 /\ c.from = a.from
         /\ Joins(c.labels, a.labels, <<x>>) /\ Joins(c.rows, a.rows, <<-(a.taken + 1)>>)
<1> DEFINE t == a.taken + 1  n == <<-t>>  y == <<x>>  l == a.labels \o y  r == a.rows \o n
<1>1. /\ a = [ok |-> a.ok, taken |-> a.taken, from |-> a.from, labels |-> a.labels, rows |-> a.rows]
      /\ a.labels \in Seq(Int) /\ a.rows \in Seq(Int) /\ Len(a.rows) = Len(a.labels)
      /\ a.taken \in Nat
  BY DEF TakenOK
<1>2. c = [a EXCEPT !.taken = t, !.labels = l, !.rows = r]
  BY DEF TakeRow, IsLast, Refused, Behind, Among
<1>3. n \in Seq(Int) /\ y \in Seq(Int) /\ Len(n) = 1 /\ Len(y) = 1 /\ t \in Nat
  BY <1>1
<1>4. Joins(l, a.labels, y) /\ Joins(r, a.rows, n)
  BY DEF Joins
<1>5. l \in Seq(Int) /\ r \in Seq(Int) /\ Len(r) = Len(l)
  BY <1>1, <1>3
<1> HIDE DEF t, n, y, l, r
<1>6. c = [ok |-> a.ok, taken |-> t, from |-> a.from, labels |-> l, rows |-> r]
  BY <1>1, <1>2
<1>7. TakenOK(c)
  BY <1>3, <1>5, <1>6 DEF TakenOK
<1> QED
  BY <1>4, <1>6, <1>7 DEF t, n, y

(* A recursion on the rows of a batch defines a function.                  *)
Taking(A, a, b) ==
  A = [k \in 0 .. Len(b.labels) |-> IF k = 0 THEN a ELSE TakeNext(A[k - 1], b, k)]

LEMMA TakingExists ==
  ASSUME NEW a, NEW b, Len(b.labels) \in Nat
  PROVE  \E A : Taking(A, a, b)
<1> DEFINE n == Len(b.labels)
           Upto(W, m) == W = [k \in 0 .. m |-> IF k = 0 THEN a ELSE TakeNext(W[k - 1], b, k)]
           T == {m \in Nat : \E W : Upto(W, m)}
<1>1. 0 \in T
  <2> DEFINE W == [k \in 0 .. 0 |-> a]
  <2>1. W = [k \in 0 .. 0 |-> IF k = 0 THEN a ELSE TakeNext(W[k - 1], b, k)]
    OBVIOUS
  <2> QED
    BY <2>1
<1>2. ASSUME NEW m \in 0 .. n - 1, m \in T
      PROVE  m + 1 \in T
  <2>1. PICK W : Upto(W, m)
    BY <1>2
  <2> DEFINE V == [k \in 0 .. m + 1 |-> IF k = m + 1 THEN TakeNext(W[m], b, m + 1) ELSE W[k]]
  <2>2. V = [k \in 0 .. m + 1 |-> V[k]]
    OBVIOUS
  <2>3. ASSUME NEW k \in 0 .. m + 1
        PROVE  V[k] = IF k = 0 THEN a ELSE TakeNext(V[k - 1], b, k)
    <3>1. CASE k = m + 1
      <4>1. V[k] = TakeNext(W[m], b, m + 1) /\ k # 0 /\ k - 1 = m
        BY <3>1
      <4>2. V[m] = W[m]
        OBVIOUS
      <4> QED
        BY <3>1, <4>1, <4>2
    <3>2. CASE k # m + 1
      <4>1. k \in 0 .. m /\ V[k] = W[k]
        BY <3>2
      <4>2. W[k] = IF k = 0 THEN a ELSE TakeNext(W[k - 1], b, k)
        BY <2>1, <4>1
      <4>3. k # 0 => V[k - 1] = W[k - 1]
        BY <4>1
      <4> QED
        BY <4>1, <4>2, <4>3
    <3> QED
      BY <3>1, <3>2
  <2> HIDE DEF V
  <2>4. V = [k \in 0 .. m + 1 |-> IF k = 0 THEN a ELSE TakeNext(V[k - 1], b, k)]
    BY <2>2, <2>3
  <2>5. m + 1 \in Nat
    OBVIOUS
  <2> QED
    BY <2>4, <2>5
<1>3. n \in Nat
  OBVIOUS
<1>4. \A m \in 0 .. n - 1 : m \in T => m + 1 \in T
  BY <1>2
<1> HIDE DEF T, n
<1>5. \A m \in 0 .. n : m \in T
  BY <1>1, <1>3, <1>4, Inductive
<1>6. n \in T
  BY <1>3, <1>5
<1> QED
  BY <1>6 DEF T, Taking, n

(* The rows taken so far are the first k labels of t, each a new row.      *)
Appended(a, t, k) ==
  /\ Len(a.labels) = height + k
  /\ \A i \in 1 .. height : a.labels[i] = index.labels[i] /\ a.rows[i] = i
  /\ \A i \in 1 .. k : a.labels[height + i] = t[i] /\ a.rows[height + i] = -i

Taken(a, k) == TakenOK(a) /\ a.ok = TRUE /\ a.taken = k /\ a.from = KeptFrom

LEMMA AppendedMore ==
  ASSUME height \in Nat, NEW k \in Nat, NEW t, NEW a, TakenOK(a), a.taken = k, Appended(a, t, k),
         NEW x, x = t[k + 1], x \in Int,
         NEW c, Joins(c.labels, a.labels, <<x>>), Joins(c.rows, a.rows, <<-(a.taken + 1)>>)
  PROVE  Appended(c, t, k + 1)
<1> DEFINE h == height  l == a.labels  r == a.rows  y == <<x>>  z == <<-(a.taken + 1)>>
           m == c.labels  s == c.rows
<1>1. h \in Nat /\ l \in Seq(Int) /\ r \in Seq(Int) /\ Len(r) = Len(l) /\ Len(l) = h + k
  BY DEF TakenOK, Appended
<1>2. y \in Seq(Int) /\ z \in Seq(Int) /\ Len(y) = 1 /\ Len(z) = 1 /\ y[1] = x /\ z[1] = -(k + 1)
  OBVIOUS
<1>3. Joins(m, l, y) /\ Joins(s, r, z)
  OBVIOUS
<1>4. /\ \A i \in 1 .. h : l[i] = index.labels[i] /\ r[i] = i
      /\ \A i \in 1 .. k : l[h + i] = t[i] /\ r[h + i] = -i
  BY DEF Appended
<1> HIDE DEF h, l, r, y, z, m, s
<1>5. /\ Len(m) = Len(l) + Len(y)
      /\ \A i \in 1 .. Len(l) : m[i] = l[i]
      /\ \A i \in 1 .. Len(y) : m[Len(l) + i] = y[i]
  <2>1. l \in Seq(Int)
    BY <1>1
  <2>2. y \in Seq(Int)
    BY <1>2
  <2>3. IsJoin(m, l, y)
    BY <1>3, <2>1, <2>2, JoinIs
  <2> QED
    BY <2>3 DEF IsJoin
<1>6. /\ \A i \in 1 .. Len(r) : s[i] = r[i]
      /\ \A i \in 1 .. Len(z) : s[Len(r) + i] = z[i]
  <2>1. r \in Seq(Int)
    BY <1>1
  <2>2. z \in Seq(Int)
    BY <1>2
  <2>3. IsJoin(s, r, z)
    BY <1>3, <2>1, <2>2, JoinIs
  <2> QED
    BY <2>3 DEF IsJoin
<1>7. Len(m) = h + (k + 1)
  BY <1>1, <1>2, <1>5
<1>8. ASSUME NEW i \in 1 .. h
      PROVE  m[i] = index.labels[i] /\ s[i] = i
  <2>1. i \in 1 .. Len(l) /\ i \in 1 .. Len(r)
    BY <1>1
  <2> QED
    BY <1>4, <1>5, <1>6, <2>1
<1>9. ASSUME NEW i \in 1 .. k + 1
      PROVE  m[h + i] = t[i] /\ s[h + i] = -i
  <2>1. CASE i = k + 1
    <3>1. 1 \in 1 .. Len(y) /\ 1 \in 1 .. Len(z) /\ Len(l) + 1 = h + i /\ Len(r) + 1 = h + i
      BY <1>1, <1>2, <2>1
    <3>2. m[h + i] = x /\ s[h + i] = -(k + 1)
      BY <1>2, <1>5, <1>6, <3>1
    <3> QED
      BY <2>1, <3>2
  <2>2. CASE i # k + 1
    <3>0. i \in 1 .. k
      BY <2>2
    <3>2. h \in Nat /\ Len(l) = h + k /\ Len(r) = h + k
      BY <1>1
    <3>1. i \in 1 .. k /\ h + i \in 1 .. Len(l) /\ h + i \in 1 .. Len(r)
      BY <3>0, <3>2
    <3> QED
      BY <1>4, <1>5, <1>6, <3>1
  <2> QED
    BY <2>1, <2>2
<1> QED
  BY <1>7, <1>8, <1>9 DEF Appended, m, s, h

(* What a commit left is what the rule for one row left.                   *)
Matches(g, a) == g.ok = TRUE /\ g.index.labels = a.labels /\ g.rows = a.rows

(* What a push of the whole batch leaves is what was appended row by row.  *)
LEMMA WholeMatches ==
  ASSUME RowInv, NEW b, IndexOK(b), CheckAppend(index, b), NEW g,
         g = PushRows(Frame, b, 0, Len(b.labels)), NEW a, TakenOK(a),
         Appended(a, Added(index, b), Len(b.labels))
  PROVE  Matches(g, a)
<1> DEFINE n == Len(b.labels)  s == index.labels  t == Added(index, b)  e == Extend(index, b)
           z == [i \in 1 .. n |-> -i]  q == Frame.rows  w == e.labels  r == g.rows
           l == a.labels  v == a.rows  h == height
<1>1. IndexOK(index) /\ s \in Seq(Int) /\ h \in Nat /\ h = Len(s) /\ n \in Nat
  BY DEF RowInv, IndexOK, height
<1>2. /\ Frame = [index |-> index, rows |-> q, valid |-> valid, ok |-> TRUE]
      /\ q = [i \in 1 .. h |-> i]
  BY DEF Frame
<1>3. q \in Seq(Int) /\ Len(q) = h /\ \A i \in 1 .. h : q[i] = i
  BY <1>1, <1>2
<1>4. g.index = e /\ g.ok = TRUE /\ r = q \o z
  <2>1. Frame.index = index
    BY <1>2
  <2> DEFINE y == [i \in 1 .. n - 0 |-> -(0 + i)]
  <2>2. y = z
    BY <1>1
  <2>3. g = [Frame EXCEPT !.index = e, !.rows = q \o y]
    BY <2>1 DEF PushRows
  <2> HIDE DEF q, e, y, z
  <2> QED
    BY <1>2, <2>2, <2>3
<1>5. t \in Seq(Int) /\ Len(t) = n
  BY <1>1, AddedType
<1>6. Joins(w, s, t)
  <2>1. e = Extend(index, b)
    OBVIOUS
  <2> HIDE DEF e
  <2> QED
    BY <1>1, <2>1, ExtendOK
<1>7. z \in Seq(Int) /\ Len(z) = n /\ \A i \in 1 .. n : z[i] = -i
  BY <1>1
<1>8. Joins(r, q, z)
  BY <1>4 DEF Joins
<1>9. /\ l \in Seq(Int) /\ v \in Seq(Int) /\ Len(v) = Len(l) /\ Len(l) = h + n
      /\ \A i \in 1 .. h : l[i] = s[i] /\ v[i] = i
      /\ \A i \in 1 .. n : l[h + i] = t[i] /\ v[h + i] = -i
  BY DEF TakenOK, Appended
<1> HIDE DEF n, s, t, e, z, q, w, r, l, v, h
<1>10. /\ w \in Seq(Int) /\ Len(w) = Len(s) + Len(t)
       /\ \A i \in 1 .. Len(s) : w[i] = s[i]
       /\ \A i \in 1 .. Len(t) : w[Len(s) + i] = t[i]
  <2>1. s \in Seq(Int)
    BY <1>1
  <2>2. t \in Seq(Int)
    BY <1>5
  <2>3. IsJoin(w, s, t)
    BY <1>6, <2>1, <2>2, JoinIs
  <2> QED
    BY ONLY <2>3 DEF IsJoin
<1>11. /\ r \in Seq(Int) /\ Len(r) = Len(q) + Len(z)
       /\ \A i \in 1 .. Len(q) : r[i] = q[i]
       /\ \A i \in 1 .. Len(z) : r[Len(q) + i] = z[i]
  <2>1. q \in Seq(Int)
    BY <1>3
  <2>2. z \in Seq(Int)
    BY <1>7
  <2>3. IsJoin(r, q, z)
    BY <1>8, <2>1, <2>2, JoinIs
  <2> QED
    BY ONLY <2>3 DEF IsJoin
<1>12. Len(w) = h + n /\ Len(r) = h + n
  BY <1>1, <1>3, <1>5, <1>7, <1>10, <1>11
<1>13. ASSUME NEW i \in 1 .. h + n
       PROVE  w[i] = l[i] /\ r[i] = v[i]
  <2>1. CASE i <= h
    <3>1. i \in 1 .. h /\ i \in 1 .. Len(s) /\ i \in 1 .. Len(q)
      BY <1>1, <1>3, <2>1
    <3> QED
      BY <1>3, <1>9, <1>10, <1>11, <3>1
  <2>2. CASE i > h
    <3> DEFINE j == i - h
    <3>1. /\ j \in 1 .. n /\ j \in 1 .. Len(t) /\ j \in 1 .. Len(z)
          /\ h + j = i /\ Len(s) + j = i /\ Len(q) + j = i
      BY <1>1, <1>3, <1>5, <1>7, <2>2
    <3> HIDE DEF j
    <3>2. w[i] = t[j] /\ r[i] = z[j]
      BY <1>10, <1>11, <3>1
    <3>3. l[i] = t[j] /\ v[i] = -j
      BY <1>9, <3>1
    <3> QED
      BY <1>7, <3>1, <3>2, <3>3
  <2> QED
    BY <1>1, <2>1, <2>2
<1>14. w = l /\ r = v
  <2>1. w = [i \in 1 .. h + n |-> w[i]]
    BY <1>10, <1>12
  <2>2. l = [i \in 1 .. h + n |-> l[i]]
    BY <1>9
  <2>3. r = [i \in 1 .. h + n |-> r[i]]
    BY <1>11, <1>12
  <2>4. v = [i \in 1 .. h + n |-> v[i]]
    BY <1>9
  <2> QED
    BY <1>13, <2>1, <2>2, <2>3, <2>4
<1> QED
  BY <1>4, <1>14 DEF Matches, w, l, r, v

(* Rows without labels.  Row k takes a label that fits.                    *)
Fits(k) == Next1(index) + k - 1 <= MaxLabel /\ ~Among(index.labels, Next1(index) + k - 1, KeptFrom)

LEMMA KeptBelow ==
  ASSUME RowInv
  PROVE  /\ height \in Nat /\ KeptFrom \in Nat /\ KeptFrom <= height
         /\ height >= 1 => KeptFrom < height
         /\ KeptFrom = RetainedFrom(height)
<1>1. height \in Nat /\ window \in Nat
  BY DEF RowInv, IndexOK, height
<1> QED
  BY <1>1, WindowAssumption DEF KeptFrom, RetainedFrom

LEMMA NextStep ==
  ASSUME RowInv, index.kind # "datetime", NEW b, IndexOK(b), IsUnlabelled(b),
         NEW k \in 1 .. Len(b.labels), NEW a, Taken(a, k - 1),
         Appended(a, Added(index, b), k - 1), NEW d, d = TakeNext(a, b, k)
  PROVE  IF Fits(k) THEN Taken(d, k) /\ Appended(d, Added(index, b), k) ELSE d.ok = FALSE
<1> DEFINE h == height  s == index.labels  n == Len(b.labels)  t == Added(index, b)
           c == Next1(index)  l == a.labels  x == c + k - 1  from == KeptFrom  m == k - 1
<1>1. /\ IndexOK(index) /\ s \in Seq(Int) /\ h = Len(s) /\ h \in Nat /\ from \in Nat /\ from <= h
      /\ index.start \in Nat
      /\ b.kind = "range" /\ n \in Nat /\ k \in Nat /\ k >= 1 /\ k <= n
  BY KeptBelow DEF RowInv, IndexOK, height, IsUnlabelled
<1>2. c \in Nat /\ x \in Nat
  <2>1. c \in Nat
    BY <1>1, AddedUnsigned
  <2> HIDE DEF c
  <2> QED
    BY <1>1, <2>1
<1>3. \A i \in 1 .. n : t[i] = c + i - 1
  BY DEF Added
<1>4. /\ TakenOK(a) /\ a.ok = TRUE /\ a.taken = m /\ a.from = from
      /\ l \in Seq(Int) /\ Len(l) = h + m
      /\ \A i \in 1 .. h : l[i] = s[i]
      /\ \A i \in 1 .. m : l[h + i] = t[i]
  BY DEF Taken, TakenOK, Appended
<1>5. ASSUME NEW i \in 1 .. m
      PROVE  l[h + i] = c + i - 1 /\ c + i - 1 < x
  <2>1. i \in 1 .. n /\ i < k
    BY <1>1
  <2>2. l[h + i] = c + i - 1
    BY <1>3, <1>4, <2>1
  <2> HIDE DEF c
  <2> QED
    BY <1>1, <1>2, <2>1, <2>2
<1>6. l # <<>> => l[Len(l)] = x - 1
  <2> SUFFICES ASSUME l # <<>>
               PROVE  l[Len(l)] = x - 1
    OBVIOUS
  <2>1. CASE m >= 1
    <3>1. m \in 1 .. m /\ Len(l) = h + m /\ m + 1 = k
      BY <1>1, <1>4, <2>1
    <3>2. l[Len(l)] = c + m - 1
      BY <1>5, <3>1
    <3> HIDE DEF c, l
    <3> QED
      BY <1>1, <1>2, <3>1, <3>2
  <2>2. CASE m = 0
    <3>1. Len(l) = h /\ k = 1 /\ h # 0
      BY <1>1, <1>4, <2>2
    <3>2. h \in 1 .. h /\ l[Len(l)] = s[h] /\ s # <<>> /\ s[h] \in Int
      BY <1>1, <1>4, <3>1
    <3>3. c = s[h] + 1
      <4>1. CASE index.kind = "range"
        <5>1. s[h] = index.start + h - 1 /\ c = index.start + h
          BY <1>1, <3>2, <4>1 DEF IndexOK, Next1, height
        <5> DEFINE v == s[h]  st == index.start
        <5>2. v = st + h - 1 /\ c = st + h /\ st \in Nat /\ h \in Nat
          BY <1>1, <5>1
        <5> HIDE DEF v, st, c, h
        <5>3. c = v + 1
          BY <5>2
        <5> QED
          BY <5>3 DEF v
      <4>2. CASE index.kind # "range"
        BY <1>1, <3>2, <4>2 DEF Next1, Continuation
      <4> QED
        BY <4>1, <4>2
    <3> DEFINE v == s[h]
    <3>4. v \in Int /\ c = v + 1 /\ l[Len(l)] = v
      BY <3>2, <3>3
    <3> HIDE DEF v, c
    <3> QED
      BY <3>1, <3>4
  <2> QED
    BY <1>1, <2>1, <2>2
<1>7. NextLabel(a) = x
  <2>1. CASE l # <<>>
    <3>1. NextLabel(a) = l[Len(l)] + 1
      BY <2>1 DEF NextLabel
    <3>2. l[Len(l)] = x - 1
      BY <1>6, <2>1
    <3> HIDE DEF x, l
    <3> QED
      BY <1>2, <3>1, <3>2
  <2>2. CASE l = <<>>
    <3>1. h = 0 /\ m = 0 /\ k = 1 /\ s = <<>>
      <4>1. Len(l) = 0
        BY <2>2
      <4>2. h = 0 /\ m = 0
        BY <1>1, <1>4, <4>1
      <4>3. Len(s) = 0
        BY <1>1, <4>2
      <4> HIDE DEF s
      <4> QED
        BY <1>1, <4>2, <4>3
    <3>2. NextLabel(a) = IF index.kind = "range" THEN index.start ELSE 0
      BY <2>2 DEF NextLabel
    <3>3. c = IF index.kind = "range" THEN index.start + 0 ELSE 0
      BY <3>1 DEF Next1, Continuation
    <3>4. x = c
      <4> HIDE DEF c
      <4> QED
        BY <1>2, <3>1
    <3>5. index.start + 0 = index.start
      BY <1>1
    <3> QED
      BY <3>2, <3>3, <3>4, <3>5
  <2> QED
    BY <2>1, <2>2
<1>8. d = TakeRow(a, x)
  BY <1>4, <1>7 DEF TakeNext
<1>9. ~IsLast(l, x)
  <2>1. x # x - 1
    <3> HIDE DEF x
    <3> QED
      BY <1>2
  <2> QED
    BY <1>6, <2>1 DEF IsLast
<1>10. Among(l, x, from) <=> Among(s, x, from)
  <2>1. ASSUME NEW i \in from + 1 .. Len(l), l[i] = x
        PROVE  Among(s, x, from)
    <3>1. CASE i <= h
      <4>1. i \in 1 .. h /\ i \in from + 1 .. Len(s)
        BY <1>1, <3>1
      <4> QED
        BY <1>4, <2>1, <4>1 DEF Among
    <3>2. CASE i > h
      <4> DEFINE j == i - h
      <4>1. j \in 1 .. m /\ h + j = i
        BY <1>1, <1>4, <3>2
      <4> HIDE DEF j
      <4>2. l[i] < x
        BY <1>5, <4>1
      <4> HIDE DEF x, l
      <4> QED
        BY <1>2, <2>1, <4>2
    <3> QED
      BY <1>1, <3>1, <3>2
  <2>2. ASSUME NEW i \in from + 1 .. Len(s), s[i] = x
        PROVE  Among(l, x, from)
    <3>1. i \in 1 .. h /\ i \in from + 1 .. Len(l)
      BY <1>1, <1>4
    <3> QED
      BY <1>4, <2>2, <3>1 DEF Among
  <2> QED
    BY <2>1, <2>2 DEF Among
<1>11. Refused(a, x) <=> ~Fits(k)
  <2>1. x # NaT
    <3> HIDE DEF x
    <3> QED
      BY <1>2 DEF NaT
  <2>2. x > MaxLabel <=> ~(x <= MaxLabel)
    <3> HIDE DEF x
    <3> QED
      BY <1>2, MaxLabelAssumption
  <2> QED
    BY <1>4, <1>10, <2>1, <2>2 DEF Refused, Fits
<1>12. CASE ~Fits(k)
  <2>1. x \in Int
    BY <1>2
  <2>3. TakenOK(a)
    BY <1>4
  <2>4. Refused(a, x)
    BY <1>11, <1>12
  <2>5. IsLast(a.labels, x) => x = NaT
    BY <1>9
  <2> HIDE DEF x
  <2>2. d.ok = FALSE
    BY ONLY <1>8, <2>1, <2>3, <2>4, <2>5, TakeRefuses
  <2> QED
    BY <1>12, <2>2
<1>13. CASE Fits(k)
  <2>1. x \in Int
    BY <1>2
  <2>2. m \in Nat /\ m + 1 = k
    BY <1>1
  <2>3. x = t[m + 1]
    BY <1>1, <1>3, <2>2
  <2>4. Appended(a, t, m)
    OBVIOUS
  <2> HIDE DEF x, t, m
  <2>5. /\ TakenOK(d) /\ d.ok = a.ok /\ d.taken = a.taken + 1 /\ d.from = a.from
        /\ Joins(d.labels, a.labels, <<x>>) /\ Joins(d.rows, a.rows, <<-(a.taken + 1)>>)
    BY <1>4, <1>8, <1>9, <1>11, <1>13, <2>1, TakeAppends
  <2>6. Appended(d, t, m + 1)
    BY <1>1, <1>4, <2>1, <2>2, <2>3, <2>4, <2>5, AppendedMore
  <2>7. Taken(d, k)
    BY <1>4, <2>2, <2>5 DEF Taken
  <2> QED
    BY <1>13, <2>2, <2>6, <2>7 DEF t
<1> QED
  BY <1>12, <1>13

(* An empty start: nothing of the batch is taken.                          *)
StartOf == [ok |-> TRUE, taken |-> 0, from |-> KeptFrom, labels |-> index.labels, rows |-> Frame.rows]

LEMMA Starts ==
  ASSUME RowInv, NEW t
  PROVE  Taken(StartOf, 0) /\ Appended(StartOf, t, 0)
<1>1. index.labels \in Seq(Int) /\ height \in Nat /\ height = Len(index.labels)
  BY DEF RowInv, IndexOK, height
<1> DEFINE r == [i \in 1 .. height |-> i]
<1>2. Frame.rows = r /\ r \in Seq(Int) /\ Len(r) = height /\ \A i \in 1 .. height : r[i] = i
  BY <1>1 DEF Frame
<1>3. /\ StartOf = [ok |-> TRUE, taken |-> 0, from |-> KeptFrom, labels |-> index.labels, rows |-> r]
  BY <1>2 DEF StartOf
<1> HIDE DEF r
<1>4. Taken(StartOf, 0)
  BY <1>1, <1>2, <1>3 DEF Taken, TakenOK
<1>5. height + 0 = height /\ 1 .. 0 = {}
  BY <1>1
<1> QED
  BY <1>1, <1>2, <1>3, <1>4, <1>5 DEF Appended

FitsUpto(k) == \A j \in 1 .. k : Fits(j)

LEMMA NextRows ==
  ASSUME RowInv, index.kind # "datetime", NEW b, IndexOK(b), IsUnlabelled(b), NEW A,
         Taking(A, StartOf, b)
  PROVE  IF FitsUpto(Len(b.labels))
         THEN /\ Taken(A[Len(b.labels)], Len(b.labels))
              /\ Appended(A[Len(b.labels)], Added(index, b), Len(b.labels))
         ELSE A[Len(b.labels)].ok = FALSE
<1> DEFINE n == Len(b.labels)  t == Added(index, b)
           P(k) == IF FitsUpto(k) THEN Taken(A[k], k) /\ Appended(A[k], t, k) ELSE A[k].ok = FALSE
           T == {k \in 0 .. n : P(k)}
<1>1. n \in Nat
  BY DEF IndexOK
<1>2. \A k \in 0 .. n : A[k] = IF k = 0 THEN StartOf ELSE TakeNext(A[k - 1], b, k)
  BY DEF Taking
<1>3. 0 \in T
  <2>1. A[0] = StartOf /\ 0 \in 0 .. n
    BY <1>1, <1>2
  <2>2. FitsUpto(0)
    BY DEF FitsUpto
  <2> HIDE DEF t
  <2>3. Taken(A[0], 0) /\ Appended(A[0], t, 0)
    BY <2>1, Starts
  <2> QED
    BY <2>1, <2>2, <2>3
<1>4. ASSUME NEW k \in 0 .. n - 1, k \in T
      PROVE  k + 1 \in T
  <2> DEFINE j == k + 1  a == A[k]  d == A[j]
  <2>1. j \in 1 .. n /\ j \in 0 .. n /\ j # 0 /\ j - 1 = k /\ k \in Nat
    BY <1>1
  <2>2. d = TakeNext(a, b, j)
    BY <1>2, <2>1
  <2>3. FitsUpto(j) <=> FitsUpto(k) /\ Fits(j)
    <3>1. \A i \in 1 .. j : i \in 1 .. k \/ i = j
      BY <2>1
    <3>2. \A i \in 1 .. k : i \in 1 .. j
      BY <2>1
    <3>3. j \in 1 .. j
      BY <2>1
    <3> HIDE DEF j
    <3> QED
      BY <3>1, <3>2, <3>3 DEF FitsUpto
  <2>4. CASE ~FitsUpto(k)
    <3>1. a.ok = FALSE
      BY <1>4, <2>4
    <3>2. d = a
      BY <2>2, <3>1 DEF TakeNext
    <3> HIDE DEF j, a, d
    <3>3. d.ok = FALSE /\ ~FitsUpto(j)
      BY <2>3, <2>4, <3>1, <3>2
    <3> QED
      BY <2>1, <3>3 DEF d, j
  <2>5. CASE FitsUpto(k)
    <3>1. Taken(a, j - 1) /\ Appended(a, t, j - 1)
      BY <1>4, <2>1, <2>5
    <3> HIDE DEF j, a, d
    <3>2. IF Fits(j) THEN Taken(d, j) /\ Appended(d, t, j) ELSE d.ok = FALSE
      BY <2>1, <2>2, <3>1, NextStep
    <3>3. IF FitsUpto(j) THEN Taken(d, j) /\ Appended(d, t, j) ELSE d.ok = FALSE
      BY <2>3, <2>5, <3>2
    <3> QED
      BY <2>1, <3>3 DEF d, j
  <2> QED
    BY <2>4, <2>5
<1>5. \A k \in 0 .. n - 1 : k \in T => k + 1 \in T
  BY <1>4
<1> HIDE DEF T, n
<1>6. \A k \in 0 .. n : k \in T
  BY <1>1, <1>3, <1>5, Inductive
<1>7. n \in T
  BY <1>1, <1>6
<1> QED
  BY <1>7 DEF T, n

(* The check of a batch without labels is that each row's label fits.      *)
LEMMA NextAccepted ==
  ASSUME RowInv, index.kind # "datetime", NEW b, IndexOK(b), IsUnlabelled(b), b.labels # <<>>,
         index.kind = "range" => index.start + height + Len(b.labels) - 1 <= MaxLabel
  PROVE  Accepts(b) <=> FitsUpto(Len(b.labels))
<1> DEFINE s == index.labels  n == Len(b.labels)  c == Next1(index)  from == KeptFrom  h == height
<1>1. /\ IndexOK(index) /\ s \in Seq(Int) /\ h = Len(s) /\ h \in Nat /\ from \in Nat /\ from <= h
      /\ index.start \in Nat /\ index.kind \in {"range", "int"}
      /\ b.kind = "range" /\ n \in Nat /\ n >= 1 /\ from = RetainedFrom(height)
  BY KeptBelow DEF RowInv, IndexOK, height, IsUnlabelled, Kinds
<1>2. c \in Nat
  BY <1>1, AddedUnsigned
<1>3. Accepts(b) <=> CheckAppend(index, b) /\ ~ContinuationClash(index, n, from)
  BY <1>1 DEF Accepts, AdmitRows, Routable
<1>4. CASE index.kind = "range"
  <2>1. Accepts(b)
    BY <1>1, <1>3, <1>4 DEF CheckAppend, ContinuationClash, IsUnlabelled
  <2>2. ASSUME NEW k \in 1 .. n
        PROVE  Fits(k)
    <3> DEFINE st == index.start
    <3>1. c = st + h /\ st \in Nat /\ st + h + n - 1 <= MaxLabel
      BY <1>1, <1>4 DEF Next1, height
    <3>2. \A i \in 1 .. h : s[i] = st + i - 1
      BY <1>1, <1>4 DEF IndexOK
    <3> HIDE DEF st, c, h, n, s, from
    <3>3. c + k - 1 <= MaxLabel
      BY <1>1, <3>1, MaxLabelAssumption
    <3>4. ASSUME NEW i \in from + 1 .. Len(s), s[i] = c + k - 1
          PROVE  FALSE
      <4>1. i \in 1 .. h /\ i <= h
        BY <1>1
      <4>2. st + i - 1 = c + k - 1
        BY <3>2, <3>4, <4>1
      <4> QED
        BY <1>1, <3>1, <4>1, <4>2
    <3> QED
      BY <3>3, <3>4 DEF Fits, Among, c, s, from
  <2> QED
    BY <2>1, <2>2 DEF FitsUpto
<1>5. CASE index.kind = "int"
  <2>1. c = Continuation(s)
    BY <1>5 DEF Next1
  <2>2. CheckAppend(index, b) <=> Continues(s, n)
    BY <1>1, <1>5 DEF CheckAppend, IsUnlabelled
  <2>3. Continues(s, n) <=> c + n - 1 <= MaxLabel
    <3>1. n # 0
      BY <1>1
    <3> QED
      BY <2>1, <3>1 DEF Continues
  <2>4. ASSUME FitsUpto(n)
        PROVE  Accepts(b)
    <3>1. n \in 1 .. n
      BY <1>1
    <3>2. c + n - 1 <= MaxLabel
      BY <2>4, <3>1 DEF FitsUpto, Fits
    <3>3. ASSUME ContinuationClash(index, n, from)
          PROVE  FALSE
      <4>1. PICK i \in from + 1 .. Len(s) : s[i] \in c .. c + n - 1
        BY <2>1, <3>3 DEF ContinuationClash
      <4> DEFINE k == (s[i] - c) + 1
      <4>2. k \in 1 .. n /\ s[i] = c + k - 1
        <5> DEFINE v == s[i]
        <5>1. v \in c .. c + n - 1
          BY <4>1
        <5> HIDE DEF v, c, n
        <5>2. (v - c) + 1 \in 1 .. n /\ v = c + ((v - c) + 1) - 1
          BY <1>1, <1>2, <5>1
        <5> QED
          BY <5>2 DEF v
      <4> HIDE DEF k
      <4>3. Fits(k)
        BY <2>4, <4>2 DEF FitsUpto
      <4> QED
        BY <4>1, <4>2, <4>3 DEF Fits, Among
    <3> QED
      BY <1>3, <2>2, <2>3, <3>2, <3>3
  <2>5. ASSUME Accepts(b), NEW k \in 1 .. n
        PROVE  Fits(k)
    <3>1. c + n - 1 <= MaxLabel /\ ~ContinuationClash(index, n, from)
      BY <1>3, <2>2, <2>3, <2>5
    <3>2. Foreign(s, Added(index, b), from)
      <4>1. CheckAppend(index, b) /\ ~ContinuationClash(index, Len(b.labels), from) /\ from <= Len(index.labels)
        BY <1>1, <1>3, <2>5
      <4> HIDE DEF from
      <4>2. Foreign(index.labels, Added(index, b), from)
        BY <1>1, <1>5, <4>1, NextLabels
      <4> QED
        BY <4>2
    <3>3. Added(index, b)[k] = c + k - 1 /\ Len(Added(index, b)) = n
      BY <1>1 DEF Added
    <3>4. \A i \in from + 1 .. Len(s) : s[i] # c + k - 1
      BY <3>2, <3>3 DEF Foreign
    <3>5. c + k - 1 <= MaxLabel
      <4> HIDE DEF c, n
      <4> QED
        BY <1>1, <1>2, <3>1, MaxLabelAssumption
    <3> QED
      BY <3>4, <3>5 DEF Fits, Among
  <2> QED
    BY <2>4, <2>5 DEF FitsUpto
<1> QED
  BY <1>1, <1>4, <1>5

(* Labelled rows.  Row k may be taken.                                     *)
Legal(b, k) ==
  b.labels[k] # NaT /\ ~OutOfOrder(index, b, k) /\ ~Repeats(index, b, k, KeptFrom)

Topped(b) == \A k \in 1 .. Len(b.labels) : b.labels[k] <= MaxLabel

(* All labels of the batch's first k rows are among those of the rows      *)
(* taken, retained ones or new ones.                                       *)
Sofar(a, b, k) ==
  /\ Taken(a, k)
  /\ Follows(a.labels, index.labels, b.labels, k)
  /\ LastOf(a.labels) = Previous(index, b, k + 1)
  /\ \A j \in 1 .. k : Among(a.labels, b.labels[j], KeptFrom)

LEMMA LastIs ==
  ASSUME NEW s, NEW x
  PROVE  IsLast(s, x) <=> LastOf(s) = <<x>>
BY DEF IsLast, LastOf

LEMMA FollowsMore ==
  ASSUME NEW u, NEW s, NEW t, NEW k \in Nat, Follows(u, s, t, k - 1)
  PROVE  Follows(u, s, t, k)
<1>1. \A j \in 1 .. k - 1 : j \in 1 .. k
  OBVIOUS
<1> QED
  BY <1>1 DEF Follows

(* Whether the row replaces the last one, or may not be taken, is decided  *)
(* ahead from the index and the batch alone.                               *)
LEMMA Decided ==
  ASSUME RowInv, NEW b, IndexOK(b), Comparable(b), Topped(b), NEW k \in 1 .. Len(b.labels),
         NEW a, Sofar(a, b, k - 1), NEW x, x = b.labels[k]
  PROVE  /\ IsLast(a.labels, x) <=> Replaces(index, b, k)
         /\ ~Replaces(index, b, k) => (Refused(a, x) <=> ~Legal(b, k))
         /\ Replaces(index, b, k) => (Legal(b, k) <=> x # NaT)
<1> DEFINE s == index.labels  t == b.labels  l == a.labels  from == KeptFrom  h == height
<1>1. /\ IndexOK(index) /\ s \in Seq(Int) /\ h = Len(s) /\ h \in Nat /\ from \in Nat /\ from <= h
      /\ t \in Seq(Int) /\ x \in Int /\ x <= MaxLabel
  BY KeptBelow DEF RowInv, IndexOK, height, Topped
<1>2. /\ TakenOK(a) /\ a.from = from /\ l \in Seq(Int)
      /\ Follows(l, s, t, k - 1)
      /\ LastOf(l) = Previous(index, b, k)
      /\ \A j \in 1 .. k - 1 : Among(l, t[j], from)
  <2>1. (k - 1) + 1 = k
    OBVIOUS
  <2> QED
    BY <2>1 DEF Sofar, Taken, TakenOK
<1>3. IsLast(l, x) <=> Replaces(index, b, k)
  BY <1>2, LastIs DEF Replaces
<1>4. b.kind = "datetime" <=> index.kind = "datetime"
  BY DEF Comparable
<1>5. ASSUME ~Replaces(index, b, k)
      PROVE  Behind(l, x) <=> Previous(index, b, k) # <<>> /\ x < Previous(index, b, k)[1]
  <2>1. l = <<>> => LastOf(l) = <<>>
    BY DEF LastOf
  <2>2. l # <<>> => LastOf(l) = <<l[Len(l)]>> /\ LastOf(l) # <<>> /\ LastOf(l)[1] = l[Len(l)]
    BY DEF LastOf
  <2> QED
    BY <1>2, <2>1, <2>2 DEF Behind
<1>6. ASSUME ~Replaces(index, b, k), index.kind # "datetime"
      PROVE  Among(l, x, from) <=> Repeats(index, b, k, from)
  <2>0. Len(l) \in Nat /\ Len(s) <= Len(l) /\ (\A i \in 1 .. Len(s) : l[i] = s[i])
    BY <1>2 DEF Follows
  <2>1. ASSUME ~Repeats(index, b, k, from), NEW i \in from + 1 .. Len(l), l[i] = x
        PROVE  FALSE
    <3>1. /\ \A p \in from + 1 .. Len(s) : s[p] # x
          /\ \A j \in 1 .. k - 1 : t[j] # x
      BY <1>1, <1>4, <1>6, <2>1, NewLabel
    <3>2. CASE i <= Len(s)
      <4>1. i \in from + 1 .. Len(s) /\ i \in 1 .. Len(s)
        BY <1>1, <3>2
      <4> QED
        BY <2>0, <2>1, <3>1, <4>1
    <3>3. CASE i > Len(s)
      <4>1. i \in Len(s) + 1 .. Len(l)
        BY <1>1, <3>3
      <4>2. PICK j \in 1 .. k - 1 : l[i] = t[j]
        BY <1>2, <4>1 DEF Follows
      <4> QED
        BY <2>1, <3>1, <4>2
    <3> QED
      BY <1>1, <3>2, <3>3
  <2>2. ASSUME Repeats(index, b, k, from)
        PROVE  Among(l, x, from)
    <3>1. PositionIn(index, x, from) # 0 \/ SeenBefore(b, k)
      BY <2>2 DEF Repeats
    <3>2. CASE PositionIn(index, x, from) # 0
      <4> DEFINE p == PositionIn(index, x, from)
      <4>1. IsFirstAfter(p, s, x, from)
        BY <1>1, PositionFirst DEF height
      <4> HIDE DEF p
      <4>2. p \in from + 1 .. Len(s) /\ s[p] = x
        BY <3>2, <4>1 DEF IsFirstAfter, p
      <4>3. p \in from + 1 .. Len(l) /\ p \in 1 .. Len(s)
        <5> DEFINE m == Len(s)  n == Len(l)
        <5>1. /\ p \in Int /\ from \in Nat /\ m \in Nat /\ n \in Nat
              /\ from + 1 <= p /\ p <= m /\ m <= n
          BY <1>1, <2>0, <4>2
        <5> HIDE DEF m, n
        <5>2. p \in from + 1 .. n /\ p \in 1 .. m
          BY ONLY <5>1
        <5> QED
          BY <5>2 DEF m, n
      <4> QED
        BY <2>0, <4>2, <4>3 DEF Among
    <3>3. CASE SeenBefore(b, k)
      BY <1>2, <3>3 DEF SeenBefore
    <3> QED
      BY <3>1, <3>2, <3>3
  <2> QED
    BY <2>1, <2>2 DEF Among
<1>7. ~(x > MaxLabel)
  BY <1>1, MaxLabelAssumption
<1>8. ASSUME ~Replaces(index, b, k)
      PROVE  Refused(a, x) <=> ~Legal(b, k)
  <2>1. OutOfOrder(index, b, k) <=> index.kind = "datetime" /\ Behind(l, x)
    BY <1>4, <1>5, <1>8 DEF OutOfOrder
  <2>2. Repeats(index, b, k, from) <=> index.kind # "datetime" /\ Among(l, x, from)
    BY <1>4, <1>6, <1>8 DEF Repeats
  <2> QED
    BY <1>2, <1>7, <2>1, <2>2 DEF Refused, Legal
<1>9. ASSUME Replaces(index, b, k)
      PROVE  Legal(b, k) <=> x # NaT
  BY <1>9 DEF Legal, OutOfOrder, Repeats
<1> QED
  BY <1>3, <1>8, <1>9

LEMMA LabelReplaces ==
  ASSUME RowInv, NEW b, IndexOK(b), ~IsUnlabelled(b), Comparable(b), Topped(b),
         NEW k \in 1 .. Len(b.labels), NEW a, Sofar(a, b, k - 1), Legal(b, k),
         Replaces(index, b, k), NEW d, d = TakeNext(a, b, k)
  PROVE  /\ Sofar(d, b, k) /\ d.labels = a.labels
         /\ d.rows = [a.rows EXCEPT ![Len(a.rows)] = -k]
<1> DEFINE s == index.labels  t == b.labels  l == a.labels  x == t[k]  from == KeptFrom  h == height
<1>1. /\ s \in Seq(Int) /\ h = Len(s) /\ h \in Nat /\ from \in Nat /\ from <= h
      /\ h >= 1 => from < h
      /\ t \in Seq(Int) /\ x \in Int /\ k \in Nat
  BY KeptBelow DEF RowInv, IndexOK, height
<1>2. /\ Taken(a, k - 1) /\ TakenOK(a) /\ a.ok = TRUE /\ a.taken = k - 1 /\ a.from = from /\ l \in Seq(Int)
      /\ Follows(l, s, t, k - 1) /\ \A j \in 1 .. k - 1 : Among(l, t[j], from)
  BY DEF Sofar, Taken, TakenOK
<1>3. IsLast(l, x) /\ x # NaT
  <2>1. x = b.labels[k]
    OBVIOUS
  <2> HIDE DEF x
  <2>2. IsLast(a.labels, x) /\ x # NaT
    BY <2>1, Decided
  <2> QED
    BY <2>2
<1>4. d = TakeRow(a, x)
  BY <1>2 DEF TakeNext
<1>5. /\ TakenOK(d) /\ d.ok = a.ok /\ d.taken = a.taken + 1 /\ d.from = a.from
      /\ d.labels = a.labels /\ d.rows = [a.rows EXCEPT ![Len(a.rows)] = -(a.taken + 1)]
  <2>1. x \in Int
    BY <1>1
  <2>2. TakenOK(a)
    BY <1>2
  <2>3. IsLast(a.labels, x)
    BY <1>3
  <2>4. x # NaT
    BY <1>3
  <2> HIDE DEF x
  <2> QED
    BY ONLY <1>4, <2>1, <2>2, <2>3, <2>4, TakeReplaces
<1>6. a.taken + 1 = k
  BY <1>1, <1>2
<1>7. Taken(d, k)
  BY <1>2, <1>5, <1>6 DEF Taken
<1>8. Follows(l, s, t, k)
  <2> HIDE DEF l, s, t
  <2> QED
    BY <1>1, <1>2, FollowsMore
<1>9. LastOf(l) = Previous(index, b, k + 1)
  <2>1. k + 1 > 1 /\ (k + 1) - 1 = k
    BY <1>1
  <2>2. LastOf(l) = <<x>>
    BY <1>3, LastIs
  <2> QED
    BY <2>1, <2>2 DEF Previous
<1>10. Among(l, x, from)
  <2>1. Len(l) \in Nat /\ Len(l) >= 1 /\ h <= Len(l)
    <3>1. l # <<>> /\ h <= Len(l)
      BY <1>1, <1>2, <1>3 DEF IsLast, Follows
    <3> HIDE DEF l
    <3> QED
      BY <1>2, <3>1
  <2>2. Len(l) \in from + 1 .. Len(l)
    BY <1>1, <2>1
  <2> QED
    BY <1>3, <2>2 DEF Among, IsLast
<1>11. ASSUME NEW j \in 1 .. k
       PROVE  Among(l, t[j], from)
  <2>1. j \in 1 .. k - 1 \/ j = k
    BY <1>1
  <2> QED
    BY <1>2, <1>10, <2>1
<1> QED
  BY <1>5, <1>6, <1>7, <1>8, <1>9, <1>11 DEF Sofar

LEMMA LabelAppends ==
  ASSUME RowInv, NEW b, IndexOK(b), ~IsUnlabelled(b), Comparable(b), Topped(b),
         NEW k \in 1 .. Len(b.labels), NEW a, Sofar(a, b, k - 1), Legal(b, k),
         ~Replaces(index, b, k), NEW d, d = TakeNext(a, b, k)
  PROVE  /\ Sofar(d, b, k) /\ a.taken + 1 = k
         /\ Joins(d.labels, a.labels, <<b.labels[k]>>) /\ Joins(d.rows, a.rows, <<-(a.taken + 1)>>)
<1> DEFINE s == index.labels  t == b.labels  l == a.labels  x == t[k]  from == KeptFrom  h == height
           y == <<x>>  m == d.labels
<1>1. /\ s \in Seq(Int) /\ h = Len(s) /\ h \in Nat /\ from \in Nat /\ from <= h
      /\ t \in Seq(Int) /\ x \in Int /\ k \in Nat /\ k \in 1 .. Len(t)
  BY KeptBelow DEF RowInv, IndexOK, height
<1>2. /\ Taken(a, k - 1) /\ TakenOK(a) /\ a.ok = TRUE /\ a.taken = k - 1 /\ a.from = from /\ l \in Seq(Int)
      /\ Follows(l, s, t, k - 1) /\ \A j \in 1 .. k - 1 : Among(l, t[j], from)
  BY DEF Sofar, Taken, TakenOK
<1>3. ~IsLast(l, x) /\ ~Refused(a, x)
  <2>1. x = b.labels[k]
    OBVIOUS
  <2> HIDE DEF x
  <2>2. ~IsLast(a.labels, x) /\ ~Refused(a, x)
    BY <2>1, Decided
  <2> QED
    BY <2>2
<1>4. d = TakeRow(a, x)
  BY <1>2 DEF TakeNext
<1>5. /\ TakenOK(d) /\ d.ok = a.ok /\ d.taken = a.taken + 1 /\ d.from = a.from
      /\ Joins(d.labels, a.labels, <<x>>) /\ Joins(d.rows, a.rows, <<-(a.taken + 1)>>)
  <2>1. x \in Int
    BY <1>1
  <2>2. TakenOK(a)
    BY <1>2
  <2>3. ~IsLast(a.labels, x)
    BY <1>3
  <2>4. ~Refused(a, x)
    BY <1>3
  <2> HIDE DEF x
  <2> QED
    BY ONLY <1>4, <2>1, <2>2, <2>3, <2>4, TakeAppends
<1>6. a.taken + 1 = k
  BY <1>1, <1>2
<1>7. Taken(d, k)
  BY <1>2, <1>5, <1>6 DEF Taken
<1>12. y \in Seq(Int) /\ Len(y) = 1 /\ y[1] = x
  BY <1>1
<1>13. Joins(m, l, y) /\ y = <<t[k]>>
  BY <1>5
<1>14. /\ Len(m) = Len(l) + 1 /\ Len(l) \in Nat /\ Len(s) <= Len(l)
       /\ \A i \in 1 .. Len(l) : m[i] = l[i]
       /\ m[Len(l) + 1] = x
  <2>1. l \in Seq(Int)
    BY <1>2
  <2>2. y \in Seq(Int)
    BY <1>12
  <2>3. Joins(m, l, y)
    BY <1>13
  <2>4. Len(s) <= Len(l)
    BY <1>2 DEF Follows
  <2>5. 1 \in 1 .. Len(y)
    BY <1>12
  <2>6. Len(y) = 1 /\ y[1] = x
    BY <1>12
  <2> HIDE DEF y, l, m, s, x
  <2>7. /\ Len(l) \in Nat /\ Len(m) = Len(l) + Len(y)
        /\ \A i \in 1 .. Len(l) : m[i] = l[i]
        /\ \A i \in 1 .. Len(y) : m[Len(l) + i] = y[i]
    <3>1. IsJoin(m, l, y)
      BY ONLY <2>1, <2>2, <2>3, JoinIs
    <3> QED
      BY <3>1 DEF IsJoin
  <2> QED
    BY <2>4, <2>5, <2>6, <2>7
<1>8. Follows(m, s, t, k)
  <2> HIDE DEF m, l, s, t, y
  <2> QED
    BY <1>1, <1>2, <1>13, FollowsJoin
<1>9. LastOf(m) = Previous(index, b, k + 1)
  <2>1. k + 1 > 1 /\ (k + 1) - 1 = k
    BY <1>1
  <2>2. m # <<>> /\ m[Len(m)] = x
    <3>1. Len(m) # 0 /\ m[Len(m)] = x
      BY <1>14
    <3> HIDE DEF m
    <3> QED
      BY <3>1
  <2>3. LastOf(m) = <<x>>
    BY <2>2 DEF LastOf
  <2> QED
    BY <2>1, <2>3 DEF Previous
<1>10. Among(m, x, from)
  <2>1. Len(l) + 1 \in from + 1 .. Len(m)
    BY <1>1, <1>14
  <2> QED
    BY <1>14, <2>1 DEF Among
<1>11. ASSUME NEW j \in 1 .. k
       PROVE  Among(m, t[j], from)
  <2>1. CASE j \in 1 .. k - 1
    <3>1. PICK i \in from + 1 .. Len(l) : l[i] = t[j]
      BY <1>2, <2>1 DEF Among
    <3>2. i \in from + 1 .. Len(m) /\ i \in 1 .. Len(l)
      BY <1>1, <1>14
    <3> QED
      BY <1>14, <3>1, <3>2 DEF Among
  <2>2. CASE j = k
    BY <1>10, <2>2
  <2> QED
    BY <1>1, <2>1, <2>2
<1> QED
  BY <1>5, <1>6, <1>7, <1>8, <1>9, <1>11 DEF Sofar

LEMMA LabelRefused ==
  ASSUME RowInv, NEW b, IndexOK(b), ~IsUnlabelled(b), Comparable(b), Topped(b),
         NEW k \in 1 .. Len(b.labels), NEW a, Sofar(a, b, k - 1), ~Legal(b, k),
         NEW d, d = TakeNext(a, b, k)
  PROVE  d.ok = FALSE
<1> DEFINE x == b.labels[k]
<1>1. x \in Int /\ x = b.labels[k]
  BY DEF IndexOK
<1>2. TakenOK(a) /\ a.ok = TRUE
  BY DEF Sofar, Taken
<1>3. d = TakeRow(a, x)
  BY <1>2 DEF TakeNext
<1> HIDE DEF x
<1>4. /\ IsLast(a.labels, x) <=> Replaces(index, b, k)
      /\ ~Replaces(index, b, k) => (Refused(a, x) <=> ~Legal(b, k))
      /\ Replaces(index, b, k) => (Legal(b, k) <=> x # NaT)
  BY <1>1, Decided
<1>5. IsLast(a.labels, x) => x = NaT
  BY <1>4
<1>6. Refused(a, x)
  BY <1>4 DEF Refused
<1> QED
  BY <1>1, <1>2, <1>3, <1>5, <1>6, TakeRefuses

LegalUpto(b, k) == \A j \in 1 .. k : Legal(b, j)

NoneReplaces(b) == \A k \in 1 .. Len(b.labels) : ~Replaces(index, b, k)

LEMMA LabelStep ==
  ASSUME RowInv, NEW b, IndexOK(b), ~IsUnlabelled(b), Comparable(b), Topped(b),
         NEW k \in 1 .. Len(b.labels), NEW a, Sofar(a, b, k - 1),
         NoneReplaces(b) => Appended(a, b.labels, k - 1), NEW d, d = TakeNext(a, b, k)
  PROVE  IF Legal(b, k)
         THEN Sofar(d, b, k) /\ (NoneReplaces(b) => Appended(d, b.labels, k))
         ELSE d.ok = FALSE
<1>1. CASE ~Legal(b, k)
  BY <1>1, LabelRefused
<1>2. CASE Legal(b, k) /\ Replaces(index, b, k)
  <2>1. Sofar(d, b, k)
    BY <1>2, LabelReplaces
  <2>2. ~NoneReplaces(b)
    BY <1>2 DEF NoneReplaces
  <2> QED
    BY <1>2, <2>1, <2>2
<1>3. CASE Legal(b, k) /\ ~Replaces(index, b, k)
  <2> DEFINE x == b.labels[k]  t == b.labels  m == k - 1
  <2>1. /\ Sofar(d, b, k) /\ a.taken + 1 = k
        /\ Joins(d.labels, a.labels, <<x>>) /\ Joins(d.rows, a.rows, <<-(a.taken + 1)>>)
    BY <1>3, LabelAppends
  <2>2. ASSUME NoneReplaces(b)
        PROVE  Appended(d, t, k)
    <3>1. height \in Nat /\ m \in Nat /\ m + 1 = k
      BY KeptBelow
    <3>2. TakenOK(a) /\ a.taken = m
      BY DEF Sofar, Taken
    <3>3. Appended(a, t, m)
      BY <2>2
    <3>4. x = t[m + 1] /\ x \in Int
      BY <3>1 DEF IndexOK
    <3>5. Joins(d.labels, a.labels, <<x>>) /\ Joins(d.rows, a.rows, <<-(a.taken + 1)>>)
      BY <2>1
    <3> HIDE DEF x, t, m
    <3>6. Appended(d, t, m + 1)
      BY <3>1, <3>2, <3>3, <3>4, <3>5, AppendedMore
    <3> QED
      BY <3>1, <3>6
  <2> QED
    BY <1>3, <2>1, <2>2
<1> QED
  BY <1>1, <1>2, <1>3

LEMMA LabelRows ==
  ASSUME RowInv, NEW b, IndexOK(b), ~IsUnlabelled(b), Comparable(b), Topped(b), NEW A,
         Taking(A, StartOf, b)
  PROVE  \A k \in 0 .. Len(b.labels) :
           IF LegalUpto(b, k)
           THEN Sofar(A[k], b, k) /\ (NoneReplaces(b) => Appended(A[k], b.labels, k))
           ELSE A[k].ok = FALSE
<1> DEFINE n == Len(b.labels)  t == b.labels
           P(k) == IF LegalUpto(b, k)
                   THEN Sofar(A[k], b, k) /\ (NoneReplaces(b) => Appended(A[k], t, k))
                   ELSE A[k].ok = FALSE
           T == {k \in 0 .. n : P(k)}
<1>1. n \in Nat
  BY DEF IndexOK
<1>2. \A k \in 0 .. n : A[k] = IF k = 0 THEN StartOf ELSE TakeNext(A[k - 1], b, k)
  BY DEF Taking
<1>3. 0 \in T
  <2>1. A[0] = StartOf /\ 0 \in 0 .. n
    BY <1>1, <1>2
  <2>2. LegalUpto(b, 0)
    BY DEF LegalUpto
  <2>3. Taken(A[0], 0) /\ Appended(A[0], t, 0)
    <3> HIDE DEF t
    <3> QED
      BY <2>1, Starts
  <2>4. Sofar(A[0], b, 0)
    <3>1. A[0].labels = index.labels
      BY <2>1 DEF StartOf
    <3>2. Follows(index.labels, index.labels, b.labels, 0)
      <4>1. index.labels \in Seq(Int)
        BY DEF RowInv, IndexOK
      <4>2. Len(index.labels) <= Len(index.labels) /\ Len(index.labels) + 1 .. Len(index.labels) = {}
        BY <4>1
      <4> QED
        BY <4>2 DEF Follows
    <3>3. Previous(index, b, 0 + 1) = LastOf(index.labels)
      BY DEF Previous
    <3> QED
      BY <2>3, <3>1, <3>2, <3>3 DEF Sofar
  <2> HIDE DEF t
  <2> QED
    BY <2>1, <2>2, <2>3, <2>4
<1>4. ASSUME NEW k \in 0 .. n - 1, k \in T
      PROVE  k + 1 \in T
  <2> DEFINE j == k + 1  a == A[k]  d == A[j]
  <2>1. j \in 1 .. n /\ j \in 0 .. n /\ j # 0 /\ j - 1 = k /\ k \in Nat
    BY <1>1
  <2>2. d = TakeNext(a, b, j)
    BY <1>2, <2>1
  <2>3. LegalUpto(b, j) <=> LegalUpto(b, k) /\ Legal(b, j)
    <3>1. \A i \in 1 .. j : i \in 1 .. k \/ i = j
      BY <2>1
    <3>2. \A i \in 1 .. k : i \in 1 .. j
      BY <2>1
    <3>3. j \in 1 .. j
      BY <2>1
    <3> HIDE DEF j
    <3> QED
      BY <3>1, <3>2, <3>3 DEF LegalUpto
  <2>4. CASE ~LegalUpto(b, k)
    <3>1. a.ok = FALSE
      BY <1>4, <2>4
    <3>2. d = a
      BY <2>2, <3>1 DEF TakeNext
    <3> HIDE DEF j, a, d
    <3>3. d.ok = FALSE /\ ~LegalUpto(b, j)
      BY <2>3, <2>4, <3>1, <3>2
    <3> QED
      BY <2>1, <3>3 DEF d, j
  <2>5. CASE LegalUpto(b, k)
    <3>1. Sofar(a, b, j - 1)
      BY <1>4, <2>1, <2>5
    <3>2. NoneReplaces(b) => Appended(a, b.labels, j - 1)
      BY <1>4, <2>1, <2>5
    <3>3. j \in 1 .. Len(b.labels)
      BY <2>1
    <3> HIDE DEF j, a, d
    <3>4. IF Legal(b, j)
          THEN Sofar(d, b, j) /\ (NoneReplaces(b) => Appended(d, b.labels, j))
          ELSE d.ok = FALSE
      BY <2>2, <3>1, <3>2, <3>3, LabelStep
    <3>5. IF LegalUpto(b, j)
          THEN Sofar(d, b, j) /\ (NoneReplaces(b) => Appended(d, t, j))
          ELSE d.ok = FALSE
      BY <2>3, <2>5, <3>4
    <3> QED
      BY <2>1, <3>5 DEF d, j
  <2> QED
    BY <2>4, <2>5
<1>5. \A k \in 0 .. n - 1 : k \in T => k + 1 \in T
  BY <1>4
<1> HIDE DEF T, n
<1>6. \A k \in 0 .. n : k \in T
  BY <1>1, <1>3, <1>5, Inductive
<1> QED
  BY <1>6 DEF T, n

(* The check of a labelled batch is that each of its rows may be taken.    *)
LEMMA LabelsAccepted ==
  ASSUME RowInv, NEW b, IndexOK(b), ~IsUnlabelled(b), Comparable(b), b.labels # <<>>
  PROVE  Accepts(b) <=> LegalUpto(b, Len(b.labels))
<1> DEFINE n == Len(b.labels)  t == b.labels
<1>1. /\ IndexOK(index) /\ index.kind \in Kinds /\ b.kind \in Kinds /\ t \in Seq(Int) /\ n \in Nat
      /\ KeptFrom = RetainedFrom(height)
  BY KeptBelow DEF RowInv, IndexOK
<1>2. CheckAppend(index, b) <=> \A k \in 1 .. n : t[k] # NaT
  <2>1. CASE b.kind = "datetime"
    <3>1. index.kind = "datetime"
      BY <2>1 DEF Comparable
    <3> QED
      BY <2>1, <3>1 DEF CheckAppend, IsUnlabelled
  <2>2. CASE b.kind # "datetime"
    <3>1. index.kind \in {"range", "int"} /\ b.kind \in {"range", "int"}
      BY <1>1, <2>2 DEF Comparable, Kinds
    <3>2. CheckAppend(index, b)
      BY <3>1 DEF CheckAppend
    <3>3. \A k \in 1 .. n : t[k] # NaT
      <4> SUFFICES ASSUME NEW k \in 1 .. n
                   PROVE  t[k] # NaT
        OBVIOUS
      <4>1. t[k] >= 0 /\ t[k] \in Int
        BY <1>1, <2>2 DEF IndexOK, Unsigned
      <4> QED
        BY <4>1 DEF NaT
    <3> QED
      BY <3>2, <3>3
  <2> QED
    BY <2>1, <2>2
<1>3. Routable(index, b, KeptFrom) <=>
        \A k \in 1 .. n : ~OutOfOrder(index, b, k) /\ ~Repeats(index, b, k, KeptFrom)
  BY DEF Routable
<1> QED
  BY <1>1, <1>2, <1>3 DEF Accepts, AdmitRows, LegalUpto, Legal

(* A row written is the row taken.                                         *)
LEMMA RowMatches ==
  ASSUME RowInv, NEW b, IndexOK(b), ~IsUnlabelled(b), Comparable(b), Topped(b),
         Ready(index, b, KeptFrom), NEW k \in 1 .. Len(b.labels), Legal(b, k),
         NEW g, Wrote(g, index, b, k - 1, KeptFrom), NEW a, Sofar(a, b, k - 1), Matches(g, a),
         NEW d, d = TakeNext(a, b, k), NEW e, e = CommitRow(g, b, Replacing(index, b), k)
  PROVE  Matches(e, d)
<1> DEFINE s == b.labels
<1>1. /\ b.start \in Nat /\ CheckAppend(index, b) /\ s \in Seq(Int) /\ Len(s) \in Nat
  BY DEF Ready, IndexOK
<1>2. /\ FrameOK(g) /\ (g.index.kind = "datetime" <=> index.kind = "datetime") /\ g.ok = TRUE
      /\ g.index.labels = a.labels /\ g.rows = a.rows
  BY DEF Wrote, Matches
<1>3. /\ g = [index |-> g.index, rows |-> g.rows, valid |-> g.valid, ok |-> g.ok]
      /\ IndexOK(g.index) /\ g.rows \in Seq(Int)
  BY <1>2 DEF FrameOK
<1>4. k \in Replacing(index, b) <=> Replaces(index, b, k)
  BY DEF Replacing
<1>5. CASE Replaces(index, b, k)
  <2>1. e = WriteLastRow(g, k)
    BY <1>2, <1>4, <1>5 DEF CommitRow
  <2>2. Sofar(d, b, k) /\ d.labels = a.labels /\ d.rows = [a.rows EXCEPT ![Len(a.rows)] = -k]
    BY <1>5, LabelReplaces
  <2>7. d.ok = TRUE
    BY <2>2 DEF Sofar, Taken
  <2> DEFINE last == Len(g.rows) - 1
             r == [g.rows EXCEPT ![last + 1] = -k]
             v == IF g.valid > last THEN last ELSE g.valid
  <2>3. e = [g EXCEPT !.rows[last + 1] = -k, !.valid = v]
    BY <2>1 DEF WriteLastRow
  <2>4. e = [index |-> g.index, rows |-> r, valid |-> v, ok |-> g.ok]
    BY <1>3, <2>3
  <2>5. last + 1 = Len(g.rows)
    BY <1>3
  <2>6. r = d.rows
    BY <1>2, <2>2, <2>5
  <2> HIDE DEF r, v, last
  <2> QED
    BY <1>2, <2>2, <2>4, <2>6, <2>7 DEF Matches
<1>6. CASE ~Replaces(index, b, k)
  <2> DEFINE c == k - 1  part == BatchPart(b, c, k)  x == <<s[k]>>
  <2>1. e = PushRows(g, b, c, k)
    BY <1>2, <1>4, <1>6 DEF CommitRow
  <2>2. c \in Nat /\ k \in Nat /\ c <= k /\ k <= Len(s) /\ k - c = 1 /\ c + 1 = k
    BY <1>1
  <2>3. part = BatchPart(b, c, k)
    OBVIOUS
  <2> HIDE DEF c, part
  <2>10. c \in Nat
    BY <2>2
  <2>11. k \in Nat
    BY <2>2
  <2>12. c <= k
    BY <2>2
  <2>13. k <= Len(b.labels)
    BY <2>2
  <2>5. /\ IndexOK(part) /\ part.kind = b.kind
        /\ b.kind = "range" => part.start = b.start + c
        /\ IsPart(part.labels, s, c, k)
        /\ Len(part.labels) = k - c
    <3>1. IsBatchPart(part, b, c, k)
      BY ONLY IndexOK(b), <2>3, <2>10, <2>11, <2>12, <2>13, BatchPartIs
    <3> QED
      BY <3>1 DEF IsBatchPart, s
  <2>6. ~IsUnlabelled(part)
    <3>1. b.kind = "range" => b.start # 0
      BY DEF IsUnlabelled
    <3>2. b.kind = "range" => part.start # 0
      BY <1>1, <2>2, <2>5, <3>1
    <3> QED
      BY <2>5, <3>2 DEF IsUnlabelled
  <2>7. part.labels = x
    <3> DEFINE p == part.labels
    <3>1. p \in Seq(Int) /\ Len(p) = 1 /\ \A i \in 1 .. 1 : p[i] = s[c + i]
      <4>1. IsPart(p, s, c, k)
        BY <2>5
      <4>2. s \in Seq(Int)
        BY <1>1
      <4>3. k <= Len(s)
        BY <2>2
      <4> HIDE DEF p, s
      <4>4. p \in Seq(Int) /\ Len(p) = k - c /\ \A i \in 1 .. k - c : p[i] = s[c + i]
        BY ONLY <2>10, <2>11, <2>12, <4>1, <4>2, <4>3, PartOf
      <4> QED
        BY <2>2, <4>4
    <3>2. p[1] = s[k]
      BY <2>2, <3>1
    <3>3. p = [i \in 1 .. 1 |-> p[i]]
      BY <3>1
    <3> QED
      BY <3>2, <3>3
  <2>8. CheckAppend(g.index, part)
    <3>1. s[k] # NaT
      BY DEF Legal
    <3>2. \A i \in 1 .. Len(part.labels) : part.labels[i] # NaT
      BY <2>7, <3>1
    <3>3. b.kind = "datetime" <=> index.kind = "datetime"
      BY DEF Comparable
    <3>4. b.kind \in Kinds /\ g.index.kind \in Kinds
      BY <1>3 DEF IndexOK
    <3> QED
      BY <1>2, <2>5, <2>6, <3>2, <3>3, <3>4 DEF CheckAppend, Kinds
  <2> DEFINE ee == Extend(g.index, part)  y == [i \in 1 .. k - c |-> -(c + i)]
             rr == g.rows \o y
  <2>9. e = [g EXCEPT !.index = ee, !.rows = rr]
    BY <2>1, <2>3, <2>8 DEF PushRows, BatchPart
  <2>14. Joins(ee.labels, g.index.labels, Added(g.index, part))
    <3>1. ee = Extend(g.index, part)
      OBVIOUS
    <3> HIDE DEF ee
    <3> QED
      BY <1>3, <2>5, <2>8, <3>1, ExtendOK
  <2>15. Added(g.index, part) = x
    BY <2>6, <2>7 DEF Added
  <2>16. y = <<-k>>
    <3>1. k - c = 1 /\ c + 1 = k
      BY <2>2
    <3> HIDE DEF c
    <3>2. y = [i \in 1 .. 1 |-> -(c + i)]
      BY <3>1
    <3>3. \A i \in 1 .. 1 : -(c + i) = -k
      BY <3>1
    <3> QED
      BY <3>2, <3>3
  <2>17. /\ Sofar(d, b, k) /\ a.taken + 1 = k
         /\ Joins(d.labels, a.labels, <<b.labels[k]>>) /\ Joins(d.rows, a.rows, <<-(a.taken + 1)>>)
    BY <1>6, LabelAppends
  <2>18. d.ok = TRUE
    BY <2>17 DEF Sofar, Taken
  <2>19. d.labels = ee.labels
    BY <1>2, <2>14, <2>15, <2>17 DEF Joins
  <2>20. d.rows = rr
    BY <1>2, <2>16, <2>17 DEF Joins
  <2> HIDE DEF ee, rr
  <2>21. e = [index |-> ee, rows |-> rr, valid |-> g.valid, ok |-> g.ok]
    BY <1>3, <2>9
  <2> QED
    BY <1>2, <2>18, <2>19, <2>20, <2>21 DEF Matches
<1> QED
  BY <1>5, <1>6

LEMMA WritingMatches ==
  ASSUME RowInv, NEW b, IndexOK(b), ~IsUnlabelled(b), Comparable(b), Topped(b),
         Ready(index, b, KeptFrom), LegalUpto(b, Len(b.labels)),
         NEW A, Taking(A, StartOf, b), NEW W, Writing(W, Frame, b, Replacing(index, b)),
         Wrote(Frame, index, b, 0, KeptFrom)
  PROVE  Matches(W[Len(b.labels)], A[Len(b.labels)])
<1> DEFINE n == Len(b.labels)  from == KeptFrom
           T == {k \in 0 .. n : Wrote(W[k], index, b, k, from) /\ Matches(W[k], A[k])}
<1>1. n \in Nat
  BY DEF IndexOK
<1>2. \A k \in 0 .. n : A[k] = IF k = 0 THEN StartOf ELSE TakeNext(A[k - 1], b, k)
  BY DEF Taking
<1>3. \A k \in 0 .. n : W[k] = IF k = 0 THEN Frame ELSE CommitRow(W[k - 1], b, Replacing(index, b), k)
  BY DEF Writing
<1>4. 0 \in T
  <2>1. A[0] = StartOf /\ W[0] = Frame /\ 0 \in 0 .. n
    BY <1>1, <1>2, <1>3
  <2>2. Matches(Frame, StartOf)
    BY DEF Matches, Frame, StartOf
  <2> QED
    BY <2>1, <2>2
<1>5. ASSUME NEW k \in 0 .. n - 1, k \in T
      PROVE  k + 1 \in T
  <2> DEFINE j == k + 1  a == A[k]  d == A[j]  g == W[k]  e == W[j]
  <2>1. j \in 1 .. n /\ j \in 0 .. n /\ j # 0 /\ j - 1 = k /\ k \in 0 .. n
    BY <1>1
  <2>2. d = TakeNext(a, b, j)
    BY <1>2, <2>1
  <2>3. e = CommitRow(g, b, Replacing(index, b), j)
    BY <1>3, <2>1
  <2>4. Wrote(g, index, b, j - 1, KeptFrom) /\ Matches(g, a)
    BY <1>5, <2>1
  <2>5. Sofar(a, b, j - 1)
    <3>1. LegalUpto(b, k)
      <4>1. \A i \in 1 .. k : i \in 1 .. n
        BY <1>1
      <4> QED
        BY <4>1 DEF LegalUpto
    <3>2. Sofar(A[k], b, k)
      BY <2>1, <3>1, LabelRows
    <3> QED
      BY <2>1, <3>2
  <2>6. Legal(b, j)
    BY <2>1 DEF LegalUpto
  <2>7. j \in 1 .. Len(b.labels)
    BY <2>1
  <2> HIDE DEF j, a, d, g, e
  <2>8. Wrote(e, index, b, j, KeptFrom)
    BY <2>3, <2>4, <2>7, RowStep
  <2>9. Matches(e, d)
    BY <2>2, <2>3, <2>4, <2>5, <2>6, <2>7, RowMatches
  <2> QED
    BY <2>1, <2>8, <2>9 DEF e, d, j
<1>6. \A k \in 0 .. n - 1 : k \in T => k + 1 \in T
  BY <1>5
<1> HIDE DEF T, n
<1>7. \A k \in 0 .. n : k \in T
  BY <1>1, <1>4, <1>6, Inductive
<1>8. n \in T
  BY <1>1, <1>7
<1> QED
  BY <1>8 DEF T, n

(* Batches have no label above the largest.                                *)
LEMMA BatchTop ==
  ASSUME NEW b \in Batches
  PROVE  Topped(b)
<1> USE WindowAssumption
<1>1. /\ Labels \subseteq Int /\ Labels \cup {NaT} \subseteq Int /\ MaxLabel \in Nat
      /\ \A x \in Labels \cup {NaT} : x <= MaxLabel
  BY MaxLabelAssumption, LabelsType DEF Labels, NaT
<1>2. ASSUME NEW S, S \subseteq Labels \cup {NaT}, NEW kind, NEW s \in Sequences(S, MaxBatch),
             b = Index(kind, 0, s)
      PROVE  Topped(b)
  <2>1. S \subseteq Int /\ b.labels = s
    BY <1>1, <1>2 DEF Index
  <2>2. \A i \in 1 .. Len(s) : s[i] \in S
    BY <1>2, <2>1, SequencesOf
  <2> QED
    BY <1>1, <1>2, <2>1, <2>2 DEF Topped
<1>3. CASE b \in Ranges(Labels, MaxBatch)
  <2>1. /\ b.start + Len(b.labels) - 1 <= MaxLabel
        /\ \E start \in Labels, n \in 0 .. MaxBatch : b = RangeIndex(start, n)
    BY <1>3, RangesMade DEF Ranges
  <2>2. PICK start \in Labels, n \in 0 .. MaxBatch : b = RangeIndex(start, n)
    BY <2>1
  <2>3. start \in Nat /\ n \in Nat
    BY LabelsType
  <2>4. IndexOK(b) /\ b.kind = "range" /\ b.start = start
    BY <2>2, <2>3, RangeMade
  <2>5. Len(b.labels) \in Nat /\ \A i \in 1 .. Len(b.labels) : b.labels[i] = start + i - 1
    BY <2>4 DEF IndexOK
  <2>6. ASSUME NEW i \in 1 .. Len(b.labels)
        PROVE  b.labels[i] <= MaxLabel
    <3>1. i <= Len(b.labels) /\ b.labels[i] = start + i - 1
      BY <2>5
    <3> QED
      BY <1>1, <2>1, <2>3, <2>4, <2>5, <3>1
  <2> QED
    BY <2>6 DEF Topped
<1>4. CASE b \in {Index("int", 0, s) : s \in Sequences(Labels, MaxBatch)}
  <2>1. \E s \in Sequences(Labels, MaxBatch) : b = Index("int", 0, s)
    BY <1>4, Zenon
  <2>2. Labels \subseteq Labels \cup {NaT}
    OBVIOUS
  <2> QED
    BY <1>2, <2>1, <2>2
<1>5. CASE b \in {Index("datetime", 0, s) : s \in Sequences(Labels \cup {NaT}, MaxBatch)}
  <2>1. \E s \in Sequences(Labels \cup {NaT}, MaxBatch) : b = Index("datetime", 0, s)
    BY <1>5, Zenon
  <2> QED
    BY <1>2, <2>1
<1> QED
  BY <1>3, <1>4, <1>5, Zenon DEF Batches

(* The rule applied to the rows of a batch is a sequence of such steps.    *)
LEMMA OneByOneTakes ==
  ASSUME NEW b, Len(b.labels) \in Nat
  PROVE  \E A : Taking(A, StartOf, b) /\ OneByOne(b) = A[Len(b.labels)]
<1> DEFINE after == CHOOSE A : Taking(A, StartOf, b)
<1>1. OneByOne(b) = after[Len(b.labels)]
  BY DEF OneByOne, Taking, StartOf
<1>2. \E A : Taking(A, StartOf, b)
  <2> DEFINE a == StartOf
  <2> HIDE DEF a
  <2>1. \E A : Taking(A, a, b)
    BY TakingExists
  <2> QED
    BY <2>1 DEF a
<1>3. Taking(after, StartOf, b)
  BY <1>2
<1> HIDE DEF after
<1> QED
  BY <1>1, <1>3

(* What a batch leaves is what its rows leave.                             *)
Agrees(b) ==
  /\ Accepts(b) <=> OneByOne(b).ok
  /\ Accepts(b) => Matches(CommitRows(Frame, b), OneByOne(b))

LEMMA WholeAgrees ==
  ASSUME RowInv, NEW b, IndexOK(b), Accepts(b), Replacing(index, b) = {}, NEW a, TakenOK(a),
         Appended(a, Added(index, b), Len(b.labels))
  PROVE  Matches(CommitRows(Frame, b), a)
<1>1. CommitRows(Frame, b) = PushRows(Frame, b, 0, Len(b.labels))
  BY DEF CommitRows, Frame
<1>2. CheckAppend(index, b)
  BY DEF Accepts, AdmitRows
<1>3. ASSUME NEW g, g = PushRows(Frame, b, 0, Len(b.labels))
      PROVE  Matches(g, a)
  BY <1>2, <1>3, WholeMatches
<1> QED
  BY <1>1, <1>3

LEMMA UnlabelledAgrees ==
  ASSUME RowInv, NEW b, IndexOK(b), IsUnlabelled(b), Comparable(b), b.labels # <<>>,
         WithinBounds(b)
  PROVE  Agrees(b)
<1> DEFINE n == Len(b.labels)
<1>1. index.kind # "datetime" /\ Replacing(index, b) = {}
  BY DEF Comparable, IsUnlabelled, Replacing
<1>2. n \in Nat
  BY DEF IndexOK
<1>3. PICK A : Taking(A, StartOf, b) /\ OneByOne(b) = A[n]
  BY <1>2, OneByOneTakes
<1> DEFINE a == A[n]
<1>4. Taking(A, StartOf, b)
  BY <1>3
<1>5. IF FitsUpto(n) THEN Taken(a, n) /\ Appended(a, Added(index, b), n) ELSE a.ok = FALSE
  BY <1>1, <1>4, NextRows
<1>6. Accepts(b) <=> FitsUpto(n)
  <2>1. index.kind = "range" => index.start + height + Len(b.labels) - 1 <= MaxLabel
    BY DEF WithinBounds
  <2> QED
    BY <1>1, <2>1, NextAccepted
<1> HIDE DEF n, a
<1>7. Accepts(b) <=> a.ok
  BY <1>5, <1>6 DEF Taken
<1>8. ASSUME Accepts(b)
      PROVE  Matches(CommitRows(Frame, b), a)
  <2>1. TakenOK(a) /\ Appended(a, Added(index, b), Len(b.labels))
    BY <1>5, <1>6, <1>8 DEF Taken, n
  <2> QED
    BY <1>1, <1>8, <2>1, WholeAgrees
<1> QED
  BY <1>3, <1>7, <1>8 DEF Agrees, a

(* A labelled batch that is accepted may be written row by row.            *)
LEMMA AcceptedReady ==
  ASSUME RowInv, NEW b, IndexOK(b), ~IsUnlabelled(b), b.labels # <<>>, Accepts(b)
  PROVE  Ready(index, b, KeptFrom) /\ Wrote(Frame, index, b, 0, KeptFrom)
<1> DEFINE from == KeptFrom  F == Frame
<1>1. /\ height \in Nat /\ from \in Nat /\ from <= height /\ from = RetainedFrom(height)
      /\ IndexOK(index) /\ valid \in Nat /\ valid <= height /\ height = Len(index.labels)
      /\ index.kind # "datetime" => Apart(index.labels, from)
  BY KeptBelow DEF RowInv, height
<1>2. Ready(index, b, from)
  <2>1. CheckAppend(index, b) /\ Routable(index, b, from)
    BY <1>1 DEF Accepts, AdmitRows
  <2>2. \A k \in 1 .. Len(b.labels) : ~OutOfOrder(index, b, k) /\ ~Repeats(index, b, k, from)
    BY <2>1 DEF Routable
  <2>3. b.start \in Nat
    BY DEF IndexOK
  <2> HIDE DEF from
  <2> QED
    BY <1>1, <2>1, <2>2, <2>3 DEF Ready
<1>3. FrameOK(F) /\ F.index = index
  <2> DEFINE r == [i \in 1 .. height |-> i]
  <2>1. r \in Seq(Int) /\ Len(r) = height /\ \A i \in 1 .. height : r[i] = i
    BY <1>1
  <2>2. F = [index |-> index, rows |-> r, valid |-> valid, ok |-> TRUE]
    BY DEF Frame
  <2> HIDE DEF r, F
  <2>3. Kept(r, valid)
    BY <1>1, <2>1 DEF Kept
  <2> QED
    BY <1>1, <2>1, <2>2, <2>3 DEF FrameOK, height
<1>4. Follows(index.labels, index.labels, b.labels, 0)
  <2>1. index.labels \in Seq(Int)
    BY <1>1 DEF IndexOK
  <2>2. Len(index.labels) <= Len(index.labels) /\ Len(index.labels) + 1 .. Len(index.labels) = {}
    BY <2>1
  <2> QED
    BY <2>2 DEF Follows
<1> HIDE DEF from, F
<1>5. Labelled(index.labels, index, b, 0, from)
  BY <1>1, <1>4 DEF Labelled
<1>6. Previous(index, b, 0 + 1) = LastOf(index.labels)
  BY DEF Previous
<1>7. Wrote(F, index, b, 0, from)
  BY <1>3, <1>5, <1>6 DEF Wrote
<1> QED
  BY <1>2, <1>7 DEF from, F

LEMMA LabelledAgrees ==
  ASSUME RowInv, NEW b, IndexOK(b), ~IsUnlabelled(b), Comparable(b), Topped(b), b.labels # <<>>
  PROVE  Agrees(b)
<1> DEFINE n == Len(b.labels)
<1>1. n \in Nat /\ n \in 0 .. n
  BY DEF IndexOK
<1>2. PICK A : Taking(A, StartOf, b) /\ OneByOne(b) = A[n]
  BY <1>1, OneByOneTakes
<1> DEFINE a == A[n]
<1>3. Taking(A, StartOf, b)
  BY <1>2
<1>4. IF LegalUpto(b, n)
      THEN Sofar(a, b, n) /\ (NoneReplaces(b) => Appended(a, b.labels, n))
      ELSE a.ok = FALSE
  BY <1>1, <1>3, LabelRows
<1>5. Accepts(b) <=> LegalUpto(b, n)
  BY LabelsAccepted
<1>6. LegalUpto(b, n) => Taken(a, n)
  BY <1>4 DEF Sofar
<1>7. Accepts(b) <=> a.ok
  BY <1>4, <1>5, <1>6 DEF Taken
<1>8. ASSUME Accepts(b)
      PROVE  Matches(CommitRows(Frame, b), a)
  <2>1. LegalUpto(b, n)
    BY <1>5, <1>8
  <2>2. CASE Replacing(index, b) = {}
    <3>1. NoneReplaces(b)
      BY <2>2 DEF Replacing, NoneReplaces
    <3>2. Appended(a, Added(index, b), Len(b.labels))
      BY <1>4, <2>1, <3>1 DEF Added
    <3>3. TakenOK(a)
      BY <1>6, <2>1 DEF Taken
    <3> HIDE DEF a, n
    <3> QED
      BY <1>8, <2>2, <3>2, <3>3, WholeAgrees
  <2>3. CASE Replacing(index, b) # {}
    <3> DEFINE R == Replacing(index, b)
               written == CHOOSE W : Writing(W, Frame, b, R)
    <3>1. CommitRows(Frame, b) = written[n]
      BY <2>3 DEF CommitRows, Writing, Frame
    <3>2. \E W : Writing(W, Frame, b, R)
      <4> DEFINE f == Frame
      <4> HIDE DEF R, f
      <4>1. \E W : Writing(W, f, b, R)
        BY <1>1, WritingExists
      <4> QED
        BY <4>1 DEF f
    <3>3. Writing(written, Frame, b, R)
      BY <3>2
    <3> HIDE DEF written
    <3>4. Ready(index, b, KeptFrom) /\ Wrote(Frame, index, b, 0, KeptFrom)
      BY <1>8, AcceptedReady
    <3>5. Matches(written[Len(b.labels)], A[Len(b.labels)])
      <4>1. Writing(written, Frame, b, Replacing(index, b)) /\ LegalUpto(b, Len(b.labels))
        BY <2>1, <3>3
      <4> QED
        BY <1>3, <3>4, <4>1, WritingMatches
    <3> QED
      BY <3>1, <3>5
  <2> QED
    BY <2>2, <2>3
<1> HIDE DEF n, a
<1> QED
  BY <1>2, <1>7, <1>8 DEF Agrees, a

(* For every frame and every batch, the whole batch is refused exactly when *)
(* one of its rows would be, taken one at a time by the documented rule;    *)
(* else no write of it fails and it leaves what those rows would leave      *)
(* (admit.rs:11).                                                           *)
THEOREM AppendIsRowByRow == Spec => []BatchIsItsRows
<1>1. RowInv => BatchIsItsRows
  <2> SUFFICES ASSUME RowInv, NEW b \in Batches, b.labels # <<>>, Comparable(b), WithinBounds(b)
               PROVE  Agrees(b)
    BY DEF BatchIsItsRows, Agrees, Matches
  <2>1. IndexOK(b) /\ Topped(b)
    BY BatchOK, BatchTop
  <2>2. CASE IsUnlabelled(b)
    BY <2>1, <2>2, UnlabelledAgrees
  <2>3. CASE ~IsUnlabelled(b)
    BY <2>1, <2>3, LabelledAgrees
  <2> QED
    BY <2>2, <2>3
<1> QED
  BY <1>1, RowInvariance, PTL
=============================================================================
