------------------------ MODULE RetainedFramesProofs ------------------------
(***************************************************************************)
(* What RetainedFrames keeps of a history is that history, for every       *)
(* window, margin, spacing of anchors and length of the series.            *)
(*                                                                         *)
(* The invariant, Held, speaks of one frame f that shows the rows after    *)
(* row `low' of the series s, whose column's history starts after row st:  *)
(* the rows it shows and vouches for are those of a computation over the   *)
(* whole history, every point it keeps sums up the history to its row, and *)
(* the rows held reach as far back as the column needs -- a window's       *)
(* lookback, a recursion's checkpoint and the operands before it.          *)
(***************************************************************************)
EXTENDS RetainedFrames, KernelProofs, SequenceTheorems

(* A recursion reads at most one row before a new one, and never more than *)
(* its lookback (lookback.rs:67: a carried operand warms up first).  With  *)
(* two, a step from the anchor after the first row held reads a row that   *)
(* is gone: the run `retained_operands'.                                   *)
ShortOperands ==
  \A c \in Columns : Recursive(c) => Reach[c].resume <= 1 /\ Reach[c].resume <= Reach[c].lookback

-----------------------------------------------------------------------------
(* The state of a recursion that reads w rows before a new one, and the    *)
(* value of a row, of the column c over the rows of s after the first st.  *)
Reads(w, s, st, i) == Run(s, Later(st, i - 1 - w), i)

HistOf(w, s, st, r) == [k \in 1 .. (r - st) |-> Reads(w, s, st, st + k)]

Hist(c, s, st, r) == HistOf(Reach[c].resume, s, st, r)

Val(c, s, st, r) ==
  IF Recursive(c)
  THEN IF r - st > Reach[c].lookback THEN Hist(c, s, st, r) ELSE Missing
  ELSE Computed(c, s, st, r)

LeadOf(c) == Later(Later(Continuation[c], Reach[c].resume), Reach[c].lookback + 1)

States == Seq(Seq(Nat))
Cells  == Seq(Seq(Nat)) \cup Seq(Nat)

(* A point that sums up the history to its row, and one that the rows      *)
(* after `base' continue.                                                  *)
PointOf(w, s, st, p) ==
  p.rows \in st + 1 .. Len(s) /\ p.state = HistOf(w, s, st, p.rows)

Usable(w, s, st, base, p) == PointOf(w, s, st, p) /\ base + w <= p.rows

RowsHeld(c, s, st, low, origin, valid, cells) ==
  \A i \in 1 .. valid :
    origin + i > low => cells[i] = Val(c, s, st, origin + i)

StatesHeld(w, s, st, origin, valid, state, before, at) ==
  /\ state # NoState =>
        valid > 0 /\ at = origin + valid - 1 /\ state = HistOf(w, s, st, origin + valid)
  /\ before # NoState =>
        state # NoState /\ valid > 1 /\ before = HistOf(w, s, st, origin + valid - 1)

CheckpointHeld(w, s, st, low, base, cp) ==
  /\ st < base => cp # NoPoint
  /\ cp # NoPoint => Usable(w, s, st, base, cp) /\ cp.rows <= low

AnchorsHeld(w, s, st, base, anchors) ==
  \A r \in DOMAIN anchors :
    r < Len(s) /\ Usable(w, s, st, base, [rows |-> r, state |-> anchors[r]])

PendingHeld(w, s, st, pending) == pending # NoPoint => PointOf(w, s, st, pending)

RecursionHeld(w, f, s, st, low) ==
  /\ StatesHeld(w, s, st, f.origin, f.meta.valid, f.meta.state, f.meta.before, f.meta.stateAt)
  /\ CheckpointHeld(w, s, st, low, Base(f), f.meta.cp)
  /\ AnchorsHeld(w, s, st, Base(f), f.meta.anchors)
  /\ PendingHeld(w, s, st, f.meta.pending)

WindowHeld(c, f, st) ==
  /\ f.meta.state = NoState /\ f.meta.before = NoState
  /\ Earlier(LeadOf(c), f.origin - st) <= f.lead

FrameFields == {"origin", "lead", "cells", "meta"}
MetaFields  == {"valid", "state", "before", "since", "stateAt", "first", "anchors",
                "cp", "pending"}
IsFrame(f) == DOMAIN f = FrameFields /\ DOMAIN f.meta = MetaFields

Sized(f, s, st, low) ==
  /\ s \in Seq(Nat) /\ st \in Nat /\ low \in Nat
  /\ f.origin \in Nat /\ f.lead \in Nat /\ f.meta.valid \in Nat /\ f.meta.stateAt \in Int
  /\ f.meta.since = st /\ st <= f.origin /\ f.lead <= f.origin /\ f.origin <= low
  /\ f.origin + f.meta.valid <= Len(s)
  /\ f.cells \in Seq(Cells) /\ f.origin + Len(f.cells) = Len(s)

Held(c, f, s, st, low) ==
  /\ IsFrame(f) /\ Sized(f, s, st, low)
  /\ RowsHeld(c, s, st, low, f.origin, f.meta.valid, f.cells)
  /\ Recursive(c) => RecursionHeld(Reach[c].resume, f, s, st, low)
  /\ ~Recursive(c) => WindowHeld(c, f, st)

-----------------------------------------------------------------------------
(* Histories and values.                                                   *)

LEMMA LaterNat ==
  ASSUME NEW a \in Nat, NEW b \in Int
  PROVE  Later(a, b) \in Nat /\ a <= Later(a, b) /\ b <= Later(a, b)
BY DEF Later

LEMMA ReachFacts ==
  ASSUME NEW c \in Columns
  PROVE  /\ Reach[c].lookback \in Nat /\ Reach[c].resume \in Nat
         /\ Continuation[c] \in Nat /\ LeadOf(c) \in Nat
         /\ LeadOf(c) > Reach[c].lookback /\ LeadOf(c) >= Reach[c].resume
BY ReachAssumption, HeldAssumption DEF LeadOf, Later

LEMMA ShortFacts ==
  ASSUME ShortOperands, NEW c \in Columns, Recursive(c)
  PROVE  Reach[c].resume \in {0, 1} /\ Reach[c].resume <= Reach[c].lookback
BY ReachFacts DEF ShortOperands

LEMMA RunOfRows ==
  ASSUME NEW s \in Seq(Nat), NEW a \in Nat, NEW b \in Nat, b <= Len(s)
  PROVE  Run(s, a, b) \in Seq(Nat)
<1>1. \A i \in 1 .. (b - a) : s[a + i] \in Nat
  OBVIOUS
<1>2. Run(s, a, b) \in [1 .. (b - a) -> Nat]
  BY <1>1 DEF Run
<1>3. CASE b - a \in Nat
  BY <1>2, <1>3, FunctionIsSeq
<1>4. CASE b - a \notin Nat
  <2>1. 1 .. (b - a) = 1 .. 0
    BY <1>4
  <2> QED
    BY <1>2, <2>1, FunctionIsSeq
<1> QED
  BY <1>3, <1>4

LEMMA ReadsType ==
  ASSUME NEW w \in Nat, NEW s \in Seq(Nat), NEW st \in Nat, NEW i \in Nat, i <= Len(s)
  PROVE  Reads(w, s, st, i) \in Seq(Nat)
<1>1. Later(st, i - 1 - w) \in Nat
  BY DEF Later
<1> QED
  BY <1>1, RunOfRows DEF Reads

LEMMA HistOfType ==
  ASSUME NEW w \in Nat, NEW s \in Seq(Nat), NEW st \in Nat, NEW r \in Nat,
         st <= r, r <= Len(s)
  PROVE  HistOf(w, s, st, r) \in [1 .. (r - st) -> Seq(Nat)]
<1>1. ASSUME NEW k \in 1 .. (r - st) PROVE Reads(w, s, st, st + k) \in Seq(Nat)
  <2> DEFINE i == st + k
  <2>1. i \in Nat /\ i <= Len(s)
    OBVIOUS
  <2> HIDE DEF i
  <2>2. Reads(w, s, st, i) \in Seq(Nat)
    BY <2>1, ReadsType
  <2> QED
    BY <2>2 DEF i
<1> QED
  BY <1>1 DEF HistOf

LEMMA LenOfFunction ==
  ASSUME NEW S, NEW n \in Nat, NEW f \in [1 .. n -> S]
  PROVE  Len(f) = n
BY FunctionIsSeq

LEMMA SeqOfFunction ==
  ASSUME NEW S, NEW n \in Nat, NEW f \in [1 .. n -> S]
  PROVE  f \in Seq(S)
BY FunctionIsSeq

LEMMA HistOfSeq ==
  ASSUME NEW w \in Nat, NEW s \in Seq(Nat), NEW st \in Nat, NEW r \in Nat,
         st <= r, r <= Len(s)
  PROVE  HistOf(w, s, st, r) \in States
<1>1. HistOf(w, s, st, r) \in [1 .. (r - st) -> Seq(Nat)]
  BY HistOfType
<1>2. r - st \in Nat
  OBVIOUS
<1> QED
  BY ONLY <1>1, <1>2, SeqOfFunction DEF States

LEMMA HistOfLen ==
  ASSUME NEW w \in Nat, NEW s \in Seq(Nat), NEW st \in Nat, NEW r \in Nat,
         st <= r, r <= Len(s)
  PROVE  Len(HistOf(w, s, st, r)) = r - st
<1>1. HistOf(w, s, st, r) \in [1 .. (r - st) -> Seq(Nat)]
  BY HistOfType
<1>2. r - st \in Nat
  OBVIOUS
<1> QED
  BY ONLY <1>1, <1>2, LenOfFunction

LEMMA HistType ==
  ASSUME NEW c \in Columns, NEW s \in Seq(Nat), NEW st \in Nat, NEW r \in Nat,
         st <= r, r <= Len(s)
  PROVE  Hist(c, s, st, r) \in States
BY HistOfSeq, ReachFacts DEF Hist

LEMMA HistEmpty ==
  ASSUME NEW c \in Columns, NEW s, NEW st \in Nat
  PROVE  Hist(c, s, st, st) = NoState
<1>1. 1 .. (st - st) = {}
  OBVIOUS
<1> QED
  BY <1>1 DEF Hist, HistOf, NoState

LEMMA RunLocal ==
  ASSUME NEW s, NEW t, NEW a \in Nat, NEW b \in Nat, NEW r \in Nat, b <= r,
         \A i \in 1 .. r : s[i] = t[i]
  PROVE  Run(s, a, b) = Run(t, a, b)
<1>1. \A i \in 1 .. (b - a) : a + i \in 1 .. r
  OBVIOUS
<1>2. \A i \in 1 .. (b - a) : s[a + i] = t[a + i]
  BY <1>1
<1> QED
  BY <1>2 DEF Run

(* Rows that agree up to row r have the same history to it.                *)
LEMMA HistOfLocal ==
  ASSUME NEW w \in Nat, NEW s, NEW t, NEW st \in Nat, NEW r \in Nat,
         \A i \in 1 .. r : s[i] = t[i]
  PROVE  HistOf(w, s, st, r) = HistOf(w, t, st, r)
<1>1. ASSUME NEW k \in 1 .. (r - st)
      PROVE  Reads(w, s, st, st + k) = Reads(w, t, st, st + k)
  <2> DEFINE b == st + k
             a == Later(st, b - 1 - w)
  <2>1. b \in Nat /\ b <= r
    OBVIOUS
  <2> HIDE DEF b
  <2>2. a \in Nat
    BY ONLY <2>1, w \in Nat, st \in Nat DEF Later
  <2> HIDE DEF a
  <2>3. Run(s, a, b) = Run(t, a, b)
    BY ONLY <2>1, <2>2, RunLocal, r \in Nat, \A i \in 1 .. r : s[i] = t[i]
  <2> QED
    BY <2>3 DEF a, b, Reads
<1> QED
  BY <1>1 DEF HistOf

LEMMA HistLocal ==
  ASSUME NEW c \in Columns, NEW s, NEW t, NEW st \in Nat, NEW r \in Nat,
         \A i \in 1 .. r : s[i] = t[i]
  PROVE  Hist(c, s, st, r) = Hist(c, t, st, r)
<1> DEFINE w == Reach[c].resume
<1>1. w \in Nat
  BY ReachFacts
<1> HIDE DEF w
<1>2. HistOf(w, s, st, r) = HistOf(w, t, st, r)
  BY ONLY <1>1, HistOfLocal, st \in Nat, r \in Nat, \A i \in 1 .. r : s[i] = t[i]
<1> QED
  BY <1>2 DEF Hist, w

LEMMA ValLocal ==
  ASSUME NEW c \in Columns, NEW s \in Seq(Nat), NEW t \in Seq(Nat),
         NEW st \in Nat, NEW r \in Nat, r <= Len(s), r <= Len(t),
         \A i \in 1 .. r : s[i] = t[i]
  PROVE  Val(c, s, st, r) = Val(c, t, st, r)
<1>0. r \in Nat /\ r <= r /\ \A i \in 1 .. r : s[i] = t[i]
  OBVIOUS
<1>1. CASE Recursive(c)
  BY <1>1, HistLocal DEF Val
<1>2. CASE ~Recursive(c)
  <2> DEFINE a == Foot(c, st, r)
  <2>1. a \in Nat
    BY FootType
  <2> HIDE DEF a
  <2>2. Run(s, a, r) = Run(t, a, r)
    BY ONLY <2>1, <1>0, RunLocal
  <2> QED
    BY <2>2, <1>2 DEF Val, Computed, Summary, a
<1> QED
  BY <1>1, <1>2

LEMMA ValType ==
  ASSUME NEW c \in Columns, NEW s \in Seq(Nat), NEW st \in Nat, NEW r \in Nat,
         st <= r, r <= Len(s)
  PROVE  Val(c, s, st, r) \in Cells
<1>1. Missing \in Cells
  BY DEF Cells, Missing
<1>2. CASE Recursive(c)
  BY <1>1, <1>2, HistType DEF Val, Cells, States
<1>3. CASE ~Recursive(c)
  <2>1. Foot(c, st, r) \in Nat
    BY FootType
  <2>2. Run(s, Foot(c, st, r), r) \in Cells
    BY <2>1, RunOfRows DEF Cells
  <2> QED
    BY <2>2, <1>1, <1>3 DEF Val, Computed, Summary
<1> QED
  BY <1>2, <1>3

(* Computed over part of the rows a window still gives a row its value,    *)
(* when that part goes back by more than the lookback.                     *)
LEMMA ValOfPart ==
  ASSUME NEW c \in Columns, ~Recursive(c), NEW s \in Seq(Nat),
         NEW st \in Nat, NEW base \in Nat, NEW r \in Nat,
         \/ base = st
         \/ st <= base /\ base + Reach[c].lookback < r
  PROVE  Computed(c, s, base, r) = Val(c, s, st, r)
<1>1. CASE base = st
  BY <1>1 DEF Val
<1>2. CASE st <= base /\ base + Reach[c].lookback < r
  <2> DEFINE back == Reach[c].lookback
  <2>1. back \in Nat
    BY ReachFacts
  <2> HIDE DEF back
  <2>2. Later(base, r - back - 1) = r - back - 1 /\ Later(st, r - back - 1) = r - back - 1
    <3>1. st <= base /\ base + back < r
      BY <1>2 DEF back
    <3> QED
      BY ONLY <2>1, <3>1, st \in Nat, base \in Nat, r \in Nat DEF Later
  <2>3. r - st > back /\ r - base > back
    BY <1>2, <2>1 DEF back
  <2>4. Foot(c, base, r) = Foot(c, st, r)
    BY <2>2 DEF Foot, back
  <2> QED
    BY <2>3, <2>4 DEF back, Val, Computed, Summary
<1> QED
  BY <1>1, <1>2

LEMMA Joined ==
  ASSUME NEW S, NEW H \in Seq(S), NEW G \in Seq(S)
  PROVE  /\ H \o G \in Seq(S)
         /\ Len(H \o G) = Len(H) + Len(G)
         /\ \A k \in 1 .. Len(H) : (H \o G)[k] = H[k]
         /\ \A k \in 1 .. Len(G) : (H \o G)[Len(H) + k] = G[k]
OBVIOUS

ContinuedOf(w, s, base, state, p, r) ==
  state \o [k \in 1 .. (r - p) |-> Reads(w, s, base, p + k)]

(* A continuation over the rows held reads what the whole series would     *)
(* give it: the operands of the first row after the point are held.        *)
LEMMA ContinueOf ==
  ASSUME NEW w \in Nat, NEW s \in Seq(Nat), NEW st \in Nat, NEW base \in Nat,
         NEW p \in Nat, NEW r \in Nat, st <= p, p <= r, r <= Len(s),
         base = st \/ (base + w <= p /\ st + w <= p)
  PROVE  ContinuedOf(w, s, base, HistOf(w, s, st, p), p, r) = HistOf(w, s, st, r)
<1> DEFINE H == HistOf(w, s, st, p)
           G == [k \in 1 .. (r - p) |-> Reads(w, s, base, p + k)]
           F == HistOf(w, s, st, r)
<1>1. \A k \in 1 .. (r - p) : Reads(w, s, base, p + k) = Reads(w, s, st, p + k)
  <2> TAKE k \in 1 .. (r - p)
  <2>1. Later(base, p + k - 1 - w) = Later(st, p + k - 1 - w)
    BY DEF Later
  <2> QED
    BY <2>1 DEF Reads
<1>0. st <= r /\ p <= Len(s)
  OBVIOUS
<1>2. H \in States /\ Len(H) = p - st
  <2>1. H \in States
    BY <1>0, HistOfSeq
  <2>2. Len(H) = p - st
    BY <1>0, HistOfLen
  <2> QED
    BY ONLY <2>1, <2>2
<1>3. F \in States /\ Len(F) = r - st
  <2>1. F \in States
    BY <1>0, HistOfSeq
  <2>2. Len(F) = r - st
    BY <1>0, HistOfLen
  <2> QED
    BY ONLY <2>1, <2>2
<1>4. G \in States /\ Len(G) = r - p
  <2>1. ASSUME NEW k \in 1 .. (r - p) PROVE Reads(w, s, base, p + k) \in Seq(Nat)
    <3> DEFINE i == p + k
    <3>1. i \in Nat /\ i <= Len(s)
      OBVIOUS
    <3> HIDE DEF i
    <3>2. Reads(w, s, base, i) \in Seq(Nat)
      BY <3>1, ReadsType
    <3> QED
      BY <3>2 DEF i
  <2>2. G \in [1 .. (r - p) -> Seq(Nat)]
    BY <2>1
  <2>3. r - p \in Nat
    OBVIOUS
  <2> QED
    BY <2>2, <2>3, FunctionIsSeq DEF States
<1>5. \A k \in 1 .. (r - st) : F[k] = Reads(w, s, st, st + k)
  BY DEF HistOf
<1>6. \A k \in 1 .. (p - st) : H[k] = Reads(w, s, st, st + k)
  BY DEF HistOf
<1>7. \A k \in 1 .. (r - p) : G[k] = Reads(w, s, st, p + k)
  BY <1>1
<1> HIDE DEF F, G, H
<1>8. H \o G \in States /\ Len(H \o G) = r - st
  <2>1. H \o G \in States /\ Len(H \o G) = Len(H) + Len(G)
    BY ONLY <1>2, <1>4, Joined DEF States
  <2>2. (p - st) + (r - p) = r - st
    OBVIOUS
  <2> QED
    BY ONLY <2>1, <2>2, <1>2, <1>4
<1>9. ASSUME NEW k \in 1 .. (r - st) PROVE (H \o G)[k] = F[k]
  <2>1. CASE k <= p - st
    <3>2. k \in 1 .. (p - st)
      BY <2>1
    <3>1. (H \o G)[k] = H[k]
      BY ONLY <3>2, <1>2, <1>4, Joined DEF States
    <3> QED
      BY ONLY <3>1, <3>2, <1>5, <1>6, k \in 1 .. (r - st)
  <2>2. CASE k > p - st
    <3> DEFINE j == k - (p - st)
    <3>1. j \in 1 .. (r - p) /\ p + j = st + k /\ k = (p - st) + j
      BY <2>2
    <3> HIDE DEF j
    <3>2. (H \o G)[Len(H) + j] = G[j]
      BY ONLY <3>1, <1>2, <1>4, Joined, SMTT(60) DEF States
    <3>3. G[j] = Reads(w, s, st, p + j)
      BY ONLY <3>1, <1>7
    <3>4. F[k] = Reads(w, s, st, st + k)
      BY <1>5
    <3> QED
      BY ONLY <3>1, <3>2, <3>3, <3>4, <1>2
  <2>3. k <= p - st \/ k > p - st
    OBVIOUS
  <2> QED
    BY ONLY <2>1, <2>2, <2>3
<1>10. H \o G = F
  <2>1. F \in States /\ H \o G \in States /\ Len(H \o G) = Len(F)
    BY <1>3, <1>8
  <2>2. \A k \in 1 .. Len(F) : (H \o G)[k] = F[k]
    BY <1>3, <1>9
  <2> QED
    BY ONLY <2>1, <2>2, SeqEqual DEF States
<1> QED
  BY <1>10 DEF F, G, H, ContinuedOf

LEMMA ContinueIs ==
  ASSUME NEW s \in Seq(Nat), NEW st \in Nat, NEW base \in Nat,
         NEW p \in Nat, NEW r \in Nat, column \in Columns, st <= p, p <= r, r <= Len(s),
         \/ base = st
         \/ base + Reach[column].resume <= p /\ st + Reach[column].resume <= p
  PROVE  Continue(s, base, Hist(column, s, st, p), p, r) = Hist(column, s, st, r)
<1> DEFINE w == Reach[column].resume
<1>1. w \in Nat
  BY ReachFacts
<1>2. base = st \/ (base + w <= p /\ st + w <= p)
  OBVIOUS
<1>3. st <= p /\ p <= r /\ r <= Len(s)
  OBVIOUS
<1> HIDE DEF w
<1>4. ContinuedOf(w, s, base, HistOf(w, s, st, p), p, r) = HistOf(w, s, st, r)
  BY <1>1, <1>2, <1>3, ContinueOf
<1> QED
  BY <1>4 DEF ContinuedOf, Continue, Input, Operands, Resume, Hist, Reads, w

LEMMA HistoryIs ==
  ASSUME NEW s \in Seq(Nat), NEW st \in Nat, NEW r \in Nat, column \in Columns,
         st <= r, r <= Len(s)
  PROVE  History(s, st, r) = Hist(column, s, st, r)
<1>1. Hist(column, s, st, st) = NoState
  BY HistEmpty
<1>2. st <= st
  OBVIOUS
<1>3. Continue(s, st, Hist(column, s, st, st), st, r) = Hist(column, s, st, r)
  BY <1>2, ContinueIs, Zenon
<1> QED
  BY <1>1, <1>3 DEF History

LEMMA ValueIs ==
  ASSUME NEW s \in Seq(Nat), NEW st \in Nat, NEW r \in Nat, column \in Columns,
         st <= r, r <= Len(s)
  PROVE  ValueOver(s, st, r) = Val(column, s, st, r)
BY HistoryIs DEF ValueOver, Val, Shown, Carried, Lookback

LEMMA ShownIs ==
  ASSUME NEW s, NEW st, NEW r, Carried
  PROVE  Shown(Hist(column, s, st, r), st, r) = Val(column, s, st, r)
BY DEF Val, Shown, Carried, Lookback

-----------------------------------------------------------------------------
(* Points.                                                                 *)

LEMMA GreatestNat ==
  ASSUME NEW T, NEW r \in Nat, T # {}, \A x \in T : x \in Nat /\ x <= r
  PROVE  \E x \in T : \A y \in T : y <= x
<1> DEFINE D == {r - x : x \in T}
<1>1. D \subseteq Nat /\ D # {}
  OBVIOUS
<1> HIDE DEF D
<1>2. PICK d \in D : \A e \in D : d <= e
  BY <1>1, LeastNat
<1>3. PICK x \in T : d = r - x
  BY <1>2 DEF D
<1>4. \A y \in T : d <= r - y
  BY <1>2 DEF D
<1>5. ASSUME NEW y \in T PROVE y <= x
  <2>1. r - x <= r - y
    BY <1>3, <1>4
  <2>2. x \in Nat /\ y \in Nat
    BY <1>3
  <2> QED
    BY ONLY <2>1, <2>2, r \in Nat
<1> QED
  BY <1>3, <1>5

(* The nearest point a replay may start from is usable, and the checkpoint *)
(* is one when it is early enough.                                         *)
LEMMA NearestUsable ==
  ASSUME NEW f, NEW s \in Seq(Nat), NEW st \in Nat, NEW w \in Nat, NEW low \in Nat,
         NEW base \in Nat, NEW r \in Nat, base = Base(f),
         CheckpointHeld(w, s, st, low, base, f.meta.cp),
         AnchorsHeld(w, s, st, base, f.meta.anchors)
  PROVE  /\ NearestPoint(f, r) # NoPoint =>
               Usable(w, s, st, base, NearestPoint(f, r)) /\ NearestPoint(f, r).rows <= r
         /\ f.meta.cp # NoPoint /\ f.meta.cp.rows <= r => NearestPoint(f, r) # NoPoint
<1> DEFINE cp == f.meta.cp
           ends == {a \in DOMAIN f.meta.anchors : base <= a /\ a <= r}
           kept == ends \cup (IF cp # NoPoint /\ base <= cp.rows /\ cp.rows <= r
                              THEN {cp.rows} ELSE {})
           last == CHOOSE a \in kept : \A b \in kept : b <= a
           Taken(p) == Usable(w, s, st, base, p) /\ p.rows <= r
<1>1. NearestPoint(f, r) = IF kept = {} THEN NoPoint
                           ELSE IF last \in DOMAIN f.meta.anchors
                                THEN AnchorPoint(f.meta, last) ELSE cp
  BY DEF NearestPoint
<1>2. \A a \in DOMAIN f.meta.anchors :
        a \in Nat /\ a > 0 /\ Usable(w, s, st, base, AnchorPoint(f.meta, a))
  BY DEF AnchorsHeld, AnchorPoint, Usable, PointOf
<1>3. \A a : AnchorPoint(f.meta, a).rows = a
  BY DEF AnchorPoint
<1>4. cp # NoPoint => cp.rows \in Nat /\ Usable(w, s, st, base, cp)
  BY DEF CheckpointHeld, Usable, PointOf
<1>5. \A x \in kept : x \in Nat /\ x <= r
  BY <1>2, <1>4
<1>6. ASSUME kept # {}
      PROVE  /\ Taken(IF last \in DOMAIN f.meta.anchors THEN AnchorPoint(f.meta, last) ELSE cp)
             /\ (IF last \in DOMAIN f.meta.anchors THEN AnchorPoint(f.meta, last) ELSE cp)
                  # NoPoint
  <2>1. \E x \in kept : \A y \in kept : y <= x
    <3> HIDE DEF kept
    <3> QED
      BY <1>5, <1>6, GreatestNat
  <2>2. last \in kept
    BY <2>1
  <2> HIDE DEF last
  <2>3. CASE last \in DOMAIN f.meta.anchors
    <3>1. AnchorPoint(f.meta, last).rows # NoPoint.rows
      BY <2>3, <1>2, <1>3 DEF NoPoint
    <3>2. AnchorPoint(f.meta, last).rows <= r
      BY <1>3, <1>5, <2>2
    <3> QED
      BY <3>1, <3>2, <2>3, <1>2
  <2>4. CASE last \notin DOMAIN f.meta.anchors
    BY <2>2, <2>4, <1>4
  <2> QED
    BY <2>3, <2>4
<1>7. cp # NoPoint /\ cp.rows <= r => cp.rows \in kept
  BY <1>4 DEF Usable
<1> QED
  BY <1>1, <1>6, <1>7

LEMMA NextAnchor ==
  ASSUME NEW r \in Nat
  PROVE  (r \div AnchorSpacing + 1) * AnchorSpacing \in Nat
         /\ (r \div AnchorSpacing + 1) * AnchorSpacing > r
<1> DEFINE n == AnchorSpacing  q == r \div n  k == r % n
<1>1. n \in Nat /\ n > 0
  BY AnchorSpacingAssumption
<1> HIDE DEF n
<1>2. q \in Nat /\ k \in Nat /\ k < n /\ r = n * q + k
  BY <1>1
<1> HIDE DEF q, k
<1>3. (q + 1) * n = n * q + n
  BY <1>1, <1>2
<1>4. n * q \in Nat
  BY <1>1, <1>2
<1>5. (q + 1) * n \in Nat /\ (q + 1) * n > r
  BY ONLY <1>1, <1>2, <1>3, <1>4
<1> QED
  BY <1>5 DEF q, n

(* Replayed from a usable point, or from the history's start while the     *)
(* rows since are held, a state is the history's.                          *)
LEMMA ReplayedIs ==
  ASSUME NEW f, NEW s \in Seq(Nat), NEW st \in Nat, NEW base \in Nat, NEW from,
         NEW r \in Nat, column \in Columns, Reach[column].resume \in {0, 1},
         base = Base(f), f.meta.since = st, st <= r, r <= Len(s),
         \/ from = NoPoint /\ base <= st
         \/ from # NoPoint /\ Usable(Reach[column].resume, s, st, base, from)
                           /\ from.rows <= r
  PROVE  ReplayedState(f, s, from, r) = Hist(column, s, st, r)
<1> DEFINE w == Reach[column].resume
<1>1. CASE from # NoPoint
  <2> DEFINE p == from.rows
  <2>1. p \in Nat /\ st < p /\ p <= r /\ base + w <= p /\ from.state = HistOf(w, s, st, p)
    BY <1>1 DEF Usable, PointOf
  <2>2. from.state = Hist(column, s, st, p)
    BY <2>1 DEF Hist
  <2>3. base + w <= p /\ st + w <= p
    <3> HIDE DEF p
    <3>1. CASE w = 0
      BY <3>1, <2>1
    <3>2. CASE w = 1
      BY ONLY <3>2, <2>1, st \in Nat
    <3> QED
      BY <3>1, <3>2
  <2> HIDE DEF p
  <2>4. Continue(s, base, Hist(column, s, st, p), p, r) = Hist(column, s, st, r)
    <3>1. base = st \/ (base + w <= p /\ st + w <= p)
      BY <2>3
    <3>2. st <= p /\ p <= r /\ p \in Nat
      BY <2>1
    <3> QED
      BY ONLY <3>1, <3>2, ContinueIs, s \in Seq(Nat), st \in Nat, base \in Nat, r \in Nat,
              column \in Columns, r <= Len(s)
  <2> QED
    BY <1>1, <2>2, <2>4 DEF ReplayedState, p
<1>2. CASE from = NoPoint
  <2> DEFINE next == (st \div AnchorSpacing + 1) * AnchorSpacing
             leg == Earlier(r, next)
  <2>1. next \in Nat /\ next > st
    BY NextAnchor
  <2>2. leg \in Nat /\ leg <= r /\ st <= leg /\ leg <= Len(s) /\ (leg = st => leg = r)
        /\ (leg > st \/ r = st)
    <3> HIDE DEF next
    <3> QED
      BY ONLY <2>1, st \in Nat, r \in Nat, st <= r, r <= Len(s), Len(s) \in Nat DEF Earlier
  <2>3. ReplayedState(f, s, from, r) = Continue(s, base, History(s, st, leg), leg, r)
    BY <1>2 DEF ReplayedState
  <2> HIDE DEF leg, next
  <2>4. History(s, st, leg) = Hist(column, s, st, leg)
    BY <2>2, HistoryIs
  <2>5. base <= st
    BY <1>2
  <2>6. CASE leg > st
    <3>1. base + w <= leg /\ st + w <= leg
      <4>1. CASE w = 0
        BY ONLY <4>1, <2>6, <2>5, <2>2, base \in Nat, st \in Nat
      <4>2. CASE w = 1
        BY ONLY <4>2, <2>6, <2>5, <2>2, base \in Nat, st \in Nat
      <4> QED
        BY <4>1, <4>2
    <3>2. base = st \/ (base + w <= leg /\ st + w <= leg)
      BY <3>1
    <3>3. Continue(s, base, Hist(column, s, st, leg), leg, r) = Hist(column, s, st, r)
      BY ONLY <3>2, <2>2, ContinueIs, s \in Seq(Nat), st \in Nat, base \in Nat, r \in Nat,
              column \in Columns, r <= Len(s)
    <3> QED
      BY <2>3, <2>4, <3>3
  <2>7. CASE r = st
    <3>1. leg = r
      BY ONLY <2>2, <2>7, r \in Nat
    <3>2. Hist(column, s, st, r) = NoState
      BY <2>7, HistEmpty
    <3>3. Continue(s, base, NoState, r, r) = NoState
      <4>1. 1 .. (r - r) = {}
        OBVIOUS
      <4> QED
        BY <4>1 DEF Continue, NoState
    <3> QED
      BY <2>3, <2>4, <3>1, <3>2, <3>3
  <2> QED
    BY <2>2, <2>6, <2>7
<1> QED
  BY <1>1, <1>2

(* What a frame holds of the points of its history.                        *)
Backed(f, s, st, low) ==
  /\ column \in Columns /\ Reach[column].resume \in {0, 1}
  /\ s \in Seq(Nat) /\ st \in Nat /\ low \in Nat
  /\ Base(f) \in Nat /\ f.meta.since = st
  /\ CheckpointHeld(Reach[column].resume, s, st, low, Base(f), f.meta.cp)
  /\ AnchorsHeld(Reach[column].resume, s, st, Base(f), f.meta.anchors)

(* The nearest point, as a start of a replay.                              *)
StartOf(f, s, st, from, r) ==
  \/ from = NoPoint /\ Base(f) <= st
  \/ from # NoPoint /\ Usable(Reach[column].resume, s, st, Base(f), from) /\ from.rows <= r

LEMMA NearestStarts ==
  ASSUME NEW f, NEW s, NEW st, NEW low, NEW r \in Nat, Backed(f, s, st, low),
         Replayable(f, r)
  PROVE  StartOf(f, s, st, NearestPoint(f, r), r)
<1> DEFINE w == Reach[column].resume  base == Base(f)
<1>1. w \in Nat /\ base \in Nat /\ base = Base(f)
  BY DEF Backed
<1>2. /\ s \in Seq(Nat) /\ st \in Nat /\ low \in Nat
      /\ CheckpointHeld(w, s, st, low, base, f.meta.cp)
      /\ AnchorsHeld(w, s, st, base, f.meta.anchors)
  BY DEF Backed
<1> HIDE DEF w, base
<1>3. NearestPoint(f, r) # NoPoint =>
         Usable(w, s, st, base, NearestPoint(f, r)) /\ NearestPoint(f, r).rows <= r
  BY <1>1, <1>2, NearestUsable, Zenon
<1>4. CASE NearestPoint(f, r) # NoPoint
  BY <1>3, <1>4, <1>1 DEF StartOf, w
<1>5. CASE NearestPoint(f, r) = NoPoint
  BY <1>5, <1>1 DEF StartOf, Replayable, Backed
<1> QED
  BY <1>4, <1>5

LEMMA CheckpointReplayable ==
  ASSUME NEW f, NEW s, NEW st, NEW low, NEW r \in Nat, Backed(f, s, st, low),
         st < Base(f) => f.meta.cp.rows <= r
  PROVE  Replayable(f, r)
<1> DEFINE w == Reach[column].resume  base == Base(f)
<1>1. w \in Nat /\ base \in Nat /\ base = Base(f)
  BY DEF Backed
<1>2. /\ s \in Seq(Nat) /\ st \in Nat /\ low \in Nat
      /\ CheckpointHeld(w, s, st, low, base, f.meta.cp)
      /\ AnchorsHeld(w, s, st, base, f.meta.anchors)
  BY DEF Backed
<1> HIDE DEF w, base
<1>3. f.meta.cp # NoPoint /\ f.meta.cp.rows <= r => NearestPoint(f, r) # NoPoint
  BY <1>1, <1>2, NearestUsable, Zenon
<1>4. st < base => f.meta.cp # NoPoint
  BY <1>2 DEF CheckpointHeld
<1>5. CASE st < base
  BY <1>1, <1>3, <1>4, <1>5 DEF Replayable
<1>6. CASE base <= st
  BY <1>1, <1>6 DEF Replayable, Backed
<1> QED
  BY <1>1, <1>2, <1>5, <1>6

LEMMA StartReplays ==
  ASSUME NEW f, NEW s, NEW st, NEW low, NEW r \in Nat, NEW a \in Nat, NEW from,
         Backed(f, s, st, low), StartOf(f, s, st, from, r), PassedBefore(f.meta, from) <= a,
         a <= Len(s)
  PROVE  ReplayedState(f, s, from, a) = Hist(column, s, st, a)
<1> DEFINE base == Base(f)
<1>1. /\ s \in Seq(Nat) /\ st \in Nat /\ base \in Nat /\ column \in Columns
      /\ Reach[column].resume \in {0, 1} /\ base = Base(f) /\ f.meta.since = st
  BY DEF Backed
<1>2. st <= a
  <2>1. CASE from = NoPoint
    BY <2>1, <1>1 DEF PassedBefore
  <2>2. CASE from # NoPoint
    <3>1. from.rows <= a /\ from.rows \in st + 1 .. Len(s)
      BY <2>2 DEF PassedBefore, StartOf, Usable, PointOf
    <3> QED
      BY ONLY <3>1, <1>1, a \in Nat
  <2> QED
    BY <2>1, <2>2
<1>3. \/ from = NoPoint /\ base <= st
      \/ from # NoPoint /\ Usable(Reach[column].resume, s, st, base, from)
                        /\ from.rows <= a
  BY DEF StartOf, PassedBefore
<1> HIDE DEF base
<1> QED
  BY ONLY <1>1, <1>2, <1>3, a \in Nat, a <= Len(s), ReplayedIs

LEMMA CheckpointIs ==
  ASSUME NEW f, NEW s, NEW st, NEW low, NEW r \in Nat, Backed(f, s, st, low),
         Replayable(f, r), st <= r, r <= Len(s)
  PROVE  CheckpointAt(f, s, r) = [rows |-> r, state |-> Hist(column, s, st, r)]
<1> DEFINE from == NearestPoint(f, r)
<1>1. StartOf(f, s, st, from, r)
  BY NearestStarts
<1>2. PassedBefore(f.meta, from) <= r
  BY <1>1 DEF StartOf, PassedBefore, Backed
<1> HIDE DEF from
<1>3. ReplayedState(f, s, from, r) = Hist(column, s, st, r)
  BY <1>1, <1>2, StartReplays
<1> QED
  BY <1>3 DEF CheckpointAt, from

LEMMA FormedHeld ==
  ASSUME NEW f, NEW s, NEW st, NEW low, NEW r \in Nat, Backed(f, s, st, low),
         Replayable(f, r), st < r, r <= Len(s)
  PROVE  AnchorsHeld(Reach[column].resume, s, st, Base(f), Formed(f, s, NearestPoint(f, r), r))
<1> DEFINE from == NearestPoint(f, r)  base == Base(f)  w == Reach[column].resume
           passed == PassedBefore(f.meta, from)
<1>1. StartOf(f, s, st, from, r)
  BY NearestStarts
<1>2. s \in Seq(Nat) /\ st \in Nat /\ base \in Nat /\ w \in {0, 1} /\ f.meta.since = st
  BY DEF Backed
<1>3. /\ passed \in Nat /\ st <= passed /\ passed <= r
      /\ (passed = st /\ base <= st) \/ (base + w <= passed /\ st < passed)
  <2>1. CASE from = NoPoint
    BY <2>1, <1>1, <1>2 DEF StartOf, PassedBefore
  <2>2. CASE from # NoPoint
    <3>1. /\ from.rows \in st + 1 .. Len(s) /\ base + w <= from.rows /\ from.rows <= r
          /\ passed = from.rows
      BY <2>2, <1>1 DEF StartOf, PassedBefore, Usable, PointOf
    <3> HIDE DEF from, passed, w, base
    <3> QED
      BY ONLY <3>1, <1>2
  <2> QED
    BY <2>1, <2>2
<1> HIDE DEF from, passed
<1>4. ASSUME NEW a \in DOMAIN Formed(f, s, from, r)
      PROVE  /\ a \in Nat /\ a < Len(s) /\ st < a /\ passed <= a
             /\ Formed(f, s, from, r)[a] = ReplayedState(f, s, from, a)
  <2>1. a \in (passed + 1 .. r) \cup {r} /\ a < Len(s)
    BY <1>4 DEF Formed, passed
  <2>2. Formed(f, s, from, r)[a] = ReplayedState(f, s, from, a)
    BY <1>4 DEF Formed
  <2>3. a \in Nat /\ st < a /\ passed <= a
    BY ONLY <2>1, <1>3, <1>2, r \in Nat, st < r
  <2> QED
    BY <2>1, <2>2, <2>3
<1>5. ASSUME NEW a \in DOMAIN Formed(f, s, from, r)
      PROVE  /\ a < Len(s)
             /\ Usable(w, s, st, base, [rows |-> a, state |-> Formed(f, s, from, r)[a]])
  <2>1. /\ a \in Nat /\ a < Len(s) /\ st < a /\ passed <= a
        /\ Formed(f, s, from, r)[a] = ReplayedState(f, s, from, a)
    BY <1>4
  <2>2. a <= Len(s) /\ Len(s) \in Nat
    BY <2>1, <1>2
  <2>3. ReplayedState(f, s, from, a) = HistOf(w, s, st, a)
    BY <2>1, <2>2, <1>1, StartReplays DEF passed, Hist
  <2> HIDE DEF w, base
  <2>4. base + w <= a
    BY ONLY <2>1, <1>2, <1>3
  <2>5. a \in st + 1 .. Len(s)
    BY ONLY <2>1, <2>2, <1>2
  <2> QED
    BY <2>1, <2>3, <2>4, <2>5 DEF Usable, PointOf
<1> QED
  BY <1>5 DEF AnchorsHeld, from

LEMMA KeptHeld ==
  ASSUME NEW meta, NEW bank, NEW w, NEW s, NEW st, NEW base,
         DOMAIN meta = MetaFields,
         AnchorsHeld(w, s, st, base, meta.anchors), AnchorsHeld(w, s, st, base, bank)
  PROVE  AnchorsHeld(w, s, st, base, KeepAnchors(meta, bank).anchors)
<1> DEFINE kept == KeepAnchors(meta, bank).anchors
<1>1. kept = [r \in DOMAIN meta.anchors \cup DOMAIN bank |->
                IF r \in DOMAIN meta.anchors THEN meta.anchors[r] ELSE bank[r]]
  BY DEF KeepAnchors, MetaFields
<1> HIDE DEF kept
<1>2. ASSUME NEW r \in DOMAIN kept
      PROVE  r < Len(s) /\ Usable(w, s, st, base, [rows |-> r, state |-> kept[r]])
  <2>1. CASE r \in DOMAIN meta.anchors
    <3>1. kept[r] = meta.anchors[r]
      BY <1>1, <2>1
    <3> QED
      BY <2>1, <3>1 DEF AnchorsHeld
  <2>2. CASE r \notin DOMAIN meta.anchors
    <3>1. r \in DOMAIN bank /\ kept[r] = bank[r]
      BY <1>1, <2>2
    <3> QED
      BY <3>1 DEF AnchorsHeld
  <2> QED
    BY <2>1, <2>2
<1> QED
  BY <1>2 DEF AnchorsHeld, kept

-----------------------------------------------------------------------------
(* Frames.                                                                 *)

LEMMA HeldBacked ==
  ASSUME NEW f, NEW s, NEW st, NEW low, ShortOperands, column \in Columns,
         Recursive(column), Held(column, f, s, st, low)
  PROVE  Backed(f, s, st, low)
<1>1. Reach[column].resume \in {0, 1}
  BY ShortFacts
<1>2. /\ f.origin \in Nat /\ f.lead \in Nat /\ f.lead <= f.origin
      /\ s \in Seq(Nat) /\ st \in Nat /\ low \in Nat /\ f.meta.since = st
  BY DEF Held, Sized
<1>3. Base(f) \in Nat
  BY ONLY <1>2 DEF Base
<1>4. /\ CheckpointHeld(Reach[column].resume, s, st, low, Base(f), f.meta.cp)
      /\ AnchorsHeld(Reach[column].resume, s, st, Base(f), f.meta.anchors)
  BY DEF Held, RecursionHeld
<1> QED
  BY <1>1, <1>2, <1>3, <1>4 DEF Backed

(* The record m with other anchors.                                        *)
AnchorsOnly(old, new) ==
  /\ DOMAIN new = MetaFields
  /\ new.valid = old.valid /\ new.state = old.state /\ new.before = old.before
  /\ new.since = old.since /\ new.stateAt = old.stateAt
  /\ new.cp = old.cp /\ new.pending = old.pending

LEMMA HeldWithAnchors ==
  ASSUME NEW f, NEW s, NEW st, NEW low, NEW meta, Held(column, f, s, st, low),
         AnchorsOnly(f.meta, meta),
         Recursive(column) =>
           AnchorsHeld(Reach[column].resume, s, st, Base(f), meta.anchors)
  PROVE  Held(column, [f EXCEPT !.meta = meta], s, st, low)
<1> DEFINE g == [f EXCEPT !.meta = meta]
<1>1. /\ IsFrame(g) /\ g.origin = f.origin /\ g.lead = f.lead /\ g.cells = f.cells
      /\ g.meta = meta
  BY DEF Held, IsFrame, FrameFields, AnchorsOnly
<1> HIDE DEF g
<1>2. Base(g) = Base(f)
  BY <1>1 DEF Base
<1>3. Sized(g, s, st, low)
  BY <1>1 DEF Held, Sized, AnchorsOnly
<1>4. RowsHeld(column, s, st, low, g.origin, g.meta.valid, g.cells)
  BY <1>1 DEF Held, AnchorsOnly
<1>5. Recursive(column) => RecursionHeld(Reach[column].resume, g, s, st, low)
  BY <1>1, <1>2 DEF Held, RecursionHeld, AnchorsOnly
<1>6. ~Recursive(column) => WindowHeld(column, g, st)
  BY <1>1 DEF Held, WindowHeld, AnchorsOnly
<1>7. Held(column, g, s, st, low)
  BY <1>1, <1>3, <1>4, <1>5, <1>6 DEF Held
<1> QED
  BY <1>7 DEF g

LEMMA HeldAsItIs ==
  ASSUME NEW f, NEW s, NEW st, NEW low, Held(column, f, s, st, low)
  PROVE  Held(column, [f EXCEPT !.meta = f.meta], s, st, low)
<1>1. AnchorsOnly(f.meta, f.meta)
  BY DEF AnchorsOnly, Held, IsFrame
<1>2. Recursive(column) => AnchorsHeld(Reach[column].resume, s, st, Base(f), f.meta.anchors)
  BY DEF Held, RecursionHeld
<1> QED
  BY <1>1, <1>2, HeldWithAnchors, Zenon

LEMMA KeepAnchorsOnly ==
  ASSUME NEW meta, NEW bank, DOMAIN meta = MetaFields
  PROVE  AnchorsOnly(meta, KeepAnchors(meta, bank))
BY DEF AnchorsOnly, KeepAnchors, MetaFields

LEMMA KeepAnchorsHeld ==
  ASSUME NEW f, NEW s, NEW st, NEW low, NEW bank, Held(column, f, s, st, low),
         Recursive(column) =>
           AnchorsHeld(Reach[column].resume, s, st, Base(f), bank)
  PROVE  Held(column, [f EXCEPT !.meta = KeepAnchors(f.meta, bank)], s, st, low)
<1>1. DOMAIN f.meta = MetaFields
  BY DEF Held, IsFrame
<1>2. Recursive(column) =>
        AnchorsHeld(Reach[column].resume, s, st, Base(f), KeepAnchors(f.meta, bank).anchors)
  <2> SUFFICES ASSUME Recursive(column)
               PROVE  AnchorsHeld(Reach[column].resume, s, st, Base(f),
                                  KeepAnchors(f.meta, bank).anchors)
    OBVIOUS
  <2>1. AnchorsHeld(Reach[column].resume, s, st, Base(f), f.meta.anchors)
    BY DEF Held, RecursionHeld
  <2> QED
    BY <1>1, <2>1, KeptHeld, Zenon
<1> QED
  BY <1>1, <1>2, KeepAnchorsOnly, HeldWithAnchors, Zenon

(* The anchors of a replay up to row r are the history's.                  *)
LEMMA AnchorsAfterOnly ==
  ASSUME NEW f, NEW s, NEW r, DOMAIN f.meta = MetaFields
  PROVE  AnchorsOnly(f.meta, AnchorsAfter(f, s, r))
<1>1. AnchorsOnly(f.meta, f.meta)
  BY DEF AnchorsOnly
<1> QED
  BY <1>1, KeepAnchorsOnly DEF AnchorsAfter

LEMMA AnchorsAfterBank ==
  ASSUME NEW f, NEW s, NEW st, NEW low, NEW r \in Nat, Backed(f, s, st, low),
         DOMAIN f.meta = MetaFields, st < r, r <= Len(s)
  PROVE  AnchorsHeld(Reach[column].resume, s, st, Base(f), AnchorsAfter(f, s, r).anchors)
<1>1. AnchorsHeld(Reach[column].resume, s, st, Base(f), f.meta.anchors)
  BY DEF Backed
<1>2. CASE Replayable(f, r)
  <2>1. AnchorsHeld(Reach[column].resume, s, st, Base(f), Formed(f, s, NearestPoint(f, r), r))
    BY <1>2, FormedHeld, Zenon
  <2>2. AnchorsHeld(Reach[column].resume, s, st, Base(f),
                    KeepAnchors(f.meta, Formed(f, s, NearestPoint(f, r), r)).anchors)
    BY <1>1, <2>1, KeptHeld, Zenon
  <2> QED
    BY <1>2, <2>2 DEF AnchorsAfter
<1>3. CASE ~Replayable(f, r)
  BY <1>1, <1>3 DEF AnchorsAfter
<1> QED
  BY <1>2, <1>3

LEMMA AnchorsAfterHeld ==
  ASSUME NEW f, NEW s, NEW st, NEW low, NEW r \in Nat, ShortOperands, column \in Columns,
         Recursive(column), Held(column, f, s, st, low), st < r, r <= Len(s)
  PROVE  Held(column, [f EXCEPT !.meta = AnchorsAfter(f, s, r)], s, st, low)
<1>1. Backed(f, s, st, low) /\ DOMAIN f.meta = MetaFields
  BY HeldBacked DEF Held, IsFrame
<1>2. AnchorsHeld(Reach[column].resume, s, st, Base(f), AnchorsAfter(f, s, r).anchors)
  BY <1>1, AnchorsAfterBank, Zenon
<1>3. AnchorsOnly(f.meta, AnchorsAfter(f, s, r))
  BY <1>1, AnchorsAfterOnly
<1> QED
  BY <1>2, <1>3, HeldWithAnchors, Zenon

-----------------------------------------------------------------------------
(* What is held of a series is held of another one that agrees with it up  *)
(* to the rows it is as of.                                                *)
Agree(s, t, k) ==
  /\ s \in Seq(Nat) /\ t \in Seq(Nat) /\ k \in Nat /\ k <= Len(s) /\ k <= Len(t)
  /\ \A i \in 1 .. k : s[i] = t[i]

LEMMA HistMoved ==
  ASSUME NEW w \in Nat, NEW s, NEW t, NEW k, NEW st \in Nat, NEW r \in Nat,
         Agree(s, t, k), r <= k
  PROVE  HistOf(w, s, st, r) = HistOf(w, t, st, r)
<1>1. \A i \in 1 .. r : s[i] = t[i]
  BY DEF Agree
<1> QED
  BY ONLY <1>1, HistOfLocal, w \in Nat, st \in Nat, r \in Nat

LEMMA ValMoved ==
  ASSUME NEW c \in Columns, NEW s, NEW t, NEW k, NEW st \in Nat, NEW r \in Nat,
         Agree(s, t, k), r <= k
  PROVE  Val(c, s, st, r) = Val(c, t, st, r)
<1>1. \A i \in 1 .. r : s[i] = t[i]
  BY DEF Agree
<1>2. s \in Seq(Nat) /\ t \in Seq(Nat) /\ r <= Len(s) /\ r <= Len(t)
  BY DEF Agree
<1> QED
  BY <1>1, <1>2, ValLocal

LEMMA PointMoved ==
  ASSUME NEW w \in Nat, NEW s, NEW t, NEW k, NEW st \in Nat, NEW p,
         Agree(s, t, k), PointOf(w, s, st, p), p.rows <= k
  PROVE  PointOf(w, t, st, p)
<1> DEFINE r == p.rows
<1>1. r \in st + 1 .. Len(s) /\ r <= k /\ p.state = HistOf(w, s, st, r)
  BY DEF PointOf
<1>2. Len(s) \in Nat /\ Len(t) \in Nat /\ k \in Nat /\ k <= Len(t)
  BY DEF Agree
<1> HIDE DEF r
<1>3. r \in Nat /\ r \in st + 1 .. Len(t)
  BY ONLY <1>1, <1>2, st \in Nat
<1>4. HistOf(w, s, st, r) = HistOf(w, t, st, r)
  BY <1>1, <1>3, HistMoved
<1> QED
  BY <1>1, <1>3, <1>4 DEF PointOf, r

LEMMA UsableMoved ==
  ASSUME NEW w \in Nat, NEW s, NEW t, NEW k, NEW st \in Nat, NEW p, NEW base,
         Agree(s, t, k), Usable(w, s, st, base, p), p.rows <= k
  PROVE  Usable(w, t, st, base, p)
BY PointMoved DEF Usable

LEMMA CheckpointMoved ==
  ASSUME NEW w \in Nat, NEW s, NEW t, NEW k, NEW st \in Nat, NEW cp, NEW base,
         NEW low \in Nat, Agree(s, t, k), low <= k,
         CheckpointHeld(w, s, st, low, base, cp)
  PROVE  CheckpointHeld(w, t, st, low, base, cp)
<1>1. ASSUME cp # NoPoint PROVE Usable(w, t, st, base, cp)
  <2>1. Usable(w, s, st, base, cp) /\ cp.rows <= low
    BY <1>1 DEF CheckpointHeld
  <2>2. cp.rows \in st + 1 .. Len(s) /\ Len(s) \in Nat /\ k \in Nat
    BY <2>1 DEF Usable, PointOf, Agree
  <2>3. cp.rows <= k
    BY ONLY <2>1, <2>2, low <= k, low \in Nat, st \in Nat
  <2> QED
    BY <2>1, <2>3, UsableMoved
<1> QED
  BY <1>1 DEF CheckpointHeld

LEMMA AnchorsMoved ==
  ASSUME NEW w \in Nat, NEW s, NEW t, NEW k, NEW st \in Nat, NEW anchors, NEW base,
         Agree(s, t, k), \A r \in DOMAIN anchors : r <= k /\ r < Len(t),
         AnchorsHeld(w, s, st, base, anchors)
  PROVE  AnchorsHeld(w, t, st, base, anchors)
<1>1. ASSUME NEW r \in DOMAIN anchors
      PROVE  r < Len(t) /\ Usable(w, t, st, base, [rows |-> r, state |-> anchors[r]])
  <2> DEFINE p == [rows |-> r, state |-> anchors[r]]
  <2>1. Usable(w, s, st, base, p) /\ p.rows <= k
    BY DEF AnchorsHeld
  <2> HIDE DEF p
  <2>2. Usable(w, t, st, base, p)
    BY <2>1, UsableMoved
  <2> QED
    BY <2>2 DEF p
<1> QED
  BY <1>1 DEF AnchorsHeld

LEMMA PendingMoved ==
  ASSUME NEW w \in Nat, NEW s, NEW t, NEW k, NEW st \in Nat, NEW pending,
         Agree(s, t, k), pending # NoPoint => pending.rows <= k,
         PendingHeld(w, s, st, pending)
  PROVE  PendingHeld(w, t, st, pending)
BY PointMoved DEF PendingHeld

LEMMA StatesMoved ==
  ASSUME NEW w \in Nat, NEW s, NEW t, NEW k, NEW st \in Nat, NEW origin \in Nat,
         NEW valid \in Nat, NEW state, NEW before, NEW at,
         Agree(s, t, k), origin + valid <= k,
         StatesHeld(w, s, st, origin, valid, state, before, at)
  PROVE  StatesHeld(w, t, st, origin, valid, state, before, at)
<1> DEFINE r == origin + valid  q == origin + valid - 1
<1>1. r \in Nat /\ r <= k
  OBVIOUS
<1>2. valid > 0 => q \in Nat /\ q <= k
  BY DEF Agree
<1> HIDE DEF r, q
<1>3. HistOf(w, s, st, r) = HistOf(w, t, st, r)
  BY <1>1, HistMoved
<1>4. valid > 0 => HistOf(w, s, st, q) = HistOf(w, t, st, q)
  BY <1>2, HistMoved
<1>5. state # NoState => state = HistOf(w, t, st, r)
  BY <1>3 DEF StatesHeld, r
<1>6. before # NoState => before = HistOf(w, t, st, q)
  BY <1>4 DEF StatesHeld, q
<1> QED
  BY <1>5, <1>6 DEF StatesHeld, r, q

LEMMA RowsMoved ==
  ASSUME NEW c \in Columns, NEW s, NEW t, NEW k, NEW st \in Nat, NEW origin \in Nat,
         NEW old \in Nat, NEW valid \in Nat, NEW low, NEW cells, NEW new,
         Agree(s, t, k), valid <= old, origin + valid <= k,
         \A i \in 1 .. valid : new[i] = cells[i],
         RowsHeld(c, s, st, low, origin, old, cells)
  PROVE  RowsHeld(c, t, st, low, origin, valid, new)
<1>1. ASSUME NEW i \in 1 .. valid, origin + i > low
      PROVE  new[i] = Val(c, t, st, origin + i)
  <2>1. i \in 1 .. old
    OBVIOUS
  <2>2. cells[i] = Val(c, s, st, origin + i)
    BY <1>1, <2>1 DEF RowsHeld
  <2> DEFINE r == origin + i
  <2>3. r \in Nat /\ r <= k
    BY DEF Agree
  <2> HIDE DEF r
  <2>4. Val(c, s, st, r) = Val(c, t, st, r)
    BY <2>3, ValMoved
  <2> QED
    BY <2>2, <2>4 DEF r
<1> QED
  BY <1>1 DEF RowsHeld

(* A frame that keeps what another one of an agreeing series held up to    *)
(* row k holds what it says of the new series.                             *)
LEMMA MovedHeld ==
  ASSUME NEW f, NEW g, NEW s, NEW t, NEW st, NEW low, NEW k, column \in Columns,
         Held(column, f, s, st, low), Agree(s, t, k), low <= k,
         IsFrame(g), g.origin = f.origin, g.lead = f.lead, g.meta.since = f.meta.since,
         g.meta.cp = f.meta.cp, g.meta.stateAt \in Int,
         g.cells \in Seq(Cells), g.origin + Len(g.cells) = Len(t),
         g.meta.valid \in Nat, g.meta.valid <= f.meta.valid, f.origin + g.meta.valid <= k,
         \A i \in 1 .. g.meta.valid : g.cells[i] = f.cells[i],
         ~Recursive(column) => g.meta.state = NoState /\ g.meta.before = NoState,
         Recursive(column) =>
           /\ StatesHeld(Reach[column].resume, s, st, f.origin, g.meta.valid,
                         g.meta.state, g.meta.before, g.meta.stateAt)
           /\ AnchorsHeld(Reach[column].resume, s, st, Base(f), g.meta.anchors)
           /\ \A r \in DOMAIN g.meta.anchors : r <= k /\ r < Len(t)
           /\ PendingHeld(Reach[column].resume, s, st, g.meta.pending)
           /\ g.meta.pending # NoPoint => g.meta.pending.rows <= k
  PROVE  Held(column, g, t, st, low)
<1> DEFINE w == Reach[column].resume
<1>1. /\ st \in Nat /\ low \in Nat /\ f.origin \in Nat /\ f.lead \in Nat
      /\ f.meta.valid \in Nat /\ f.meta.since = st /\ st <= f.origin
      /\ f.lead <= f.origin /\ f.origin <= low
  BY DEF Held, Sized
<1>2. t \in Seq(Nat) /\ Len(t) \in Nat /\ k \in Nat /\ k <= Len(t)
  BY DEF Agree
<1>3. w \in Nat
  BY ReachFacts
<1>4. Base(g) = Base(f)
  BY DEF Base
<1> HIDE DEF w
<1>5. Sized(g, t, st, low)
  <2>1. f.origin + g.meta.valid <= Len(t)
    BY ONLY <1>1, <1>2, f.origin + g.meta.valid <= k, g.meta.valid \in Nat
  <2> QED
    BY <1>1, <1>2, <2>1 DEF Sized
<1>6. RowsHeld(column, t, st, low, g.origin, g.meta.valid, g.cells)
  <2>1. RowsHeld(column, s, st, low, f.origin, f.meta.valid, f.cells)
    BY DEF Held
  <2>2. RowsHeld(column, t, st, low, f.origin, g.meta.valid, g.cells)
    BY <1>1, <2>1, RowsMoved, ZenonT(60)
  <2> QED
    BY <2>2
<1>7. ASSUME Recursive(column) PROVE RecursionHeld(w, g, t, st, low)
  <2>1. StatesHeld(w, t, st, g.origin, g.meta.valid, g.meta.state, g.meta.before, g.meta.stateAt)
    <3>1. StatesHeld(w, s, st, f.origin, g.meta.valid, g.meta.state, g.meta.before, g.meta.stateAt)
      BY <1>7 DEF w
    <3>2. StatesHeld(w, t, st, f.origin, g.meta.valid, g.meta.state, g.meta.before, g.meta.stateAt)
      BY <1>1, <1>3, <3>1, StatesMoved, Zenon
    <3> QED
      BY <3>2
  <2>2. CheckpointHeld(w, t, st, low, Base(g), g.meta.cp)
    <3>1. CheckpointHeld(w, s, st, low, Base(f), f.meta.cp)
      BY <1>7 DEF w, Held, RecursionHeld
    <3>2. CheckpointHeld(w, t, st, low, Base(f), f.meta.cp)
      BY <1>1, <1>3, <3>1, CheckpointMoved, Zenon
    <3> QED
      BY <3>2, <1>4
  <2>3. AnchorsHeld(w, t, st, Base(g), g.meta.anchors)
    <3>1. /\ AnchorsHeld(w, s, st, Base(f), g.meta.anchors)
          /\ \A r \in DOMAIN g.meta.anchors : r <= k /\ r < Len(t)
      BY <1>7 DEF w
    <3>2. AnchorsHeld(w, t, st, Base(f), g.meta.anchors)
      BY <1>1, <1>3, <3>1, AnchorsMoved, Zenon
    <3> QED
      BY <3>2, <1>4
  <2>4. PendingHeld(w, t, st, g.meta.pending)
    <3>1. /\ PendingHeld(w, s, st, g.meta.pending)
          /\ g.meta.pending # NoPoint => g.meta.pending.rows <= k
      BY <1>7 DEF w
    <3> QED
      BY <1>1, <1>3, <3>1, PendingMoved, Zenon
  <2> QED
    BY <2>1, <2>2, <2>3, <2>4 DEF RecursionHeld
<1>8. ASSUME ~Recursive(column) PROVE WindowHeld(column, g, st)
  BY <1>8 DEF Held, WindowHeld
<1> QED
  BY <1>5, <1>6, <1>7, <1>8 DEF Held, w

(* Rows the frame no longer shows it need not vouch for.                   *)
LEMMA LowerHeld ==
  ASSUME NEW f, NEW s, NEW st, NEW low, NEW to \in Nat, Held(column, f, s, st, low), low <= to
  PROVE  Held(column, f, s, st, to)
<1>1. low \in Nat /\ f.origin \in Nat
  BY DEF Held, Sized
<1>2. Sized(f, s, st, to)
  <2>1. f.origin <= to
    BY <1>1 DEF Held, Sized
  <2> QED
    BY <2>1 DEF Held, Sized
<1>3. RowsHeld(column, s, st, to, f.origin, f.meta.valid, f.cells)
  <2>1. RowsHeld(column, s, st, low, f.origin, f.meta.valid, f.cells)
    BY DEF Held
  <2>2. \A i \in 1 .. f.meta.valid : f.origin + i > to => f.origin + i > low
    BY <1>1
  <2> QED
    BY ONLY <2>1, <2>2 DEF RowsHeld
<1>4. ASSUME Recursive(column)
      PROVE  CheckpointHeld(Reach[column].resume, s, st, to, Base(f), f.meta.cp)
  <2>1. CheckpointHeld(Reach[column].resume, s, st, low, Base(f), f.meta.cp)
    BY <1>4 DEF Held, RecursionHeld
  <2>2. ASSUME f.meta.cp # NoPoint PROVE f.meta.cp.rows <= to
    <3>1. f.meta.cp.rows \in st + 1 .. Len(s) /\ f.meta.cp.rows <= low
      BY <2>1, <2>2 DEF CheckpointHeld, Usable, PointOf
    <3> QED
      BY <3>1, <1>1
  <2> QED
    BY <2>1, <2>2 DEF CheckpointHeld
<1>5. Recursive(column) => RecursionHeld(Reach[column].resume, f, s, st, to)
  BY <1>4 DEF Held, RecursionHeld
<1> QED
  BY <1>2, <1>3, <1>5 DEF Held

-----------------------------------------------------------------------------
(* Rows that come in, and rows rewritten.                                  *)

ZeroRows(n) == [i \in 1 .. n |-> 0]
NoCells(n)  == [i \in 1 .. n |-> Missing]

LEMMA RowsJoined ==
  ASSUME NEW S, NEW x \in Seq(S), NEW n \in Nat, NEW v \in S
  PROVE  /\ x \o [i \in 1 .. n |-> v] \in Seq(S)
         /\ Len(x \o [i \in 1 .. n |-> v]) = Len(x) + n
         /\ \A i \in 1 .. Len(x) : (x \o [i_1 \in 1 .. n |-> v])[i] = x[i]
<1> DEFINE y == [i \in 1 .. n |-> v]
<1>1. y \in [1 .. n -> S]
  OBVIOUS
<1>2. y \in Seq(S)
  BY ONLY <1>1, n \in Nat, SeqOfFunction
<1>3. Len(y) = n
  BY ONLY <1>1, n \in Nat, LenOfFunction
<1> HIDE DEF y
<1>4. x \o y \in Seq(S) /\ Len(x \o y) = Len(x) + n /\ \A i \in 1 .. Len(x) : (x \o y)[i] = x[i]
  BY <1>2, <1>3
<1> QED
  BY <1>4 DEF y

LEMMA GrownHeld ==
  ASSUME NEW f, NEW s, NEW st, NEW low, NEW n \in Nat, column \in Columns,
         Held(column, f, s, st, low), low <= Len(s)
  PROVE  Held(column, [f EXCEPT !.cells = @ \o NoCells(n)], s \o ZeroRows(n), st, low)
<1> DEFINE g == [f EXCEPT !.cells = @ \o NoCells(n)]
           t == s \o ZeroRows(n)
           k == Len(s)
<1>1. /\ IsFrame(f) /\ s \in Seq(Nat) /\ f.cells \in Seq(Cells)
      /\ f.origin + Len(f.cells) = Len(s) /\ f.meta.valid \in Nat /\ f.meta.stateAt \in Int
      /\ f.origin \in Nat /\ f.origin + f.meta.valid <= Len(s)
  BY DEF Held, Sized
<1>2. /\ IsFrame(g) /\ g.origin = f.origin /\ g.lead = f.lead /\ g.meta = f.meta
      /\ g.cells = f.cells \o NoCells(n)
  BY <1>1 DEF IsFrame, FrameFields
<1>3. t \in Seq(Nat) /\ Len(t) = Len(s) + n /\ \A i \in 1 .. Len(s) : t[i] = s[i]
  BY <1>1, RowsJoined DEF ZeroRows
<1>4. /\ g.cells \in Seq(Cells) /\ Len(g.cells) = Len(f.cells) + n
      /\ \A i \in 1 .. Len(f.cells) : g.cells[i] = f.cells[i]
  <2>1. Missing \in Cells
    BY DEF Missing, Cells
  <2>2. /\ f.cells \o NoCells(n) \in Seq(Cells) /\ Len(f.cells \o NoCells(n)) = Len(f.cells) + n
        /\ \A i \in 1 .. Len(f.cells) : (f.cells \o NoCells(n))[i] = f.cells[i]
    BY <1>1, <2>1, RowsJoined DEF NoCells
  <2> QED
    BY <1>2, <2>2
<1> HIDE DEF g, t
<1>5. Len(s) \in Nat /\ Len(f.cells) \in Nat
  BY <1>1
<1>6. Agree(s, t, k)
  BY <1>1, <1>3, <1>5 DEF Agree
<1>7. g.origin + Len(g.cells) = Len(t)
  <2>1. g.origin = f.origin
    BY <1>2
  <2>2. Len(g.cells) = Len(f.cells) + n /\ Len(t) = Len(s) + n
    BY <1>3, <1>4
  <2>3. f.origin \in Nat /\ f.origin + Len(f.cells) = Len(s)
    BY <1>1
  <2> QED
    BY ONLY <2>1, <2>2, <2>3, <1>5, n \in Nat, SMTT(60)
<1>8. \A i \in 1 .. g.meta.valid : g.cells[i] = f.cells[i]
  <2>1. f.meta.valid <= Len(f.cells)
    BY ONLY <1>1, <1>5
  <2> QED
    BY <1>1, <1>2, <1>4, <1>5, <2>1
<1>9. ASSUME Recursive(column)
      PROVE  /\ StatesHeld(Reach[column].resume, s, st, f.origin, g.meta.valid,
                           g.meta.state, g.meta.before, g.meta.stateAt)
             /\ AnchorsHeld(Reach[column].resume, s, st, Base(f), g.meta.anchors)
             /\ \A r \in DOMAIN g.meta.anchors : r <= k /\ r < Len(t)
             /\ PendingHeld(Reach[column].resume, s, st, g.meta.pending)
             /\ g.meta.pending # NoPoint => g.meta.pending.rows <= k
  <2>1. RecursionHeld(Reach[column].resume, f, s, st, low)
    BY <1>9 DEF Held
  <2>2. \A r \in DOMAIN f.meta.anchors : r <= k /\ r < Len(t)
    <3>1. \A r \in DOMAIN f.meta.anchors : r < Len(s) /\ r \in st + 1 .. Len(s)
      BY <2>1 DEF RecursionHeld, AnchorsHeld, Usable, PointOf
    <3>2. st \in Nat
      BY DEF Held, Sized
    <3> QED
      BY <3>1, <3>2, <1>3, <1>5
  <2>3. f.meta.pending # NoPoint => f.meta.pending.rows <= k
    BY <2>1, <1>5 DEF RecursionHeld, PendingHeld, PointOf
  <2> QED
    BY <2>1, <2>2, <2>3, <1>2 DEF RecursionHeld
<1>10. ~Recursive(column) => g.meta.state = NoState /\ g.meta.before = NoState
  BY <1>2 DEF Held, WindowHeld
<1>11. /\ g.meta.since = f.meta.since /\ g.meta.cp = f.meta.cp /\ g.meta.stateAt \in Int
       /\ g.meta.valid \in Nat /\ g.meta.valid <= f.meta.valid /\ f.origin + g.meta.valid <= k
  BY <1>1, <1>2
<1>12. Held(column, g, t, st, low)
  <2>1. low <= k
    OBVIOUS
  <2> HIDE DEF k
  <2> QED
    BY <1>2, <1>4, <1>6, <1>7, <1>8, <1>9, <1>10, <1>11, <2>1, MovedHeld, Zenon
<1> QED
  BY <1>12 DEF g, t

(* The record after its last row was replaced: one row, and one state, is  *)
(* given back.                                                             *)
LEMMA LastReplacedMeta ==
  ASSUME NEW f, NEW last, DOMAIN f.meta = MetaFields
  PROVE  LET g == LastReplaced(f, last) IN
         /\ DOMAIN g = MetaFields
         /\ g.since = f.meta.since /\ g.cp = f.meta.cp /\ g.anchors = f.meta.anchors
         /\ g.valid = IF f.meta.valid > last THEN last ELSE f.meta.valid
         /\ g.state = IF f.meta.valid > last THEN f.meta.before ELSE f.meta.state
         /\ g.before = IF f.meta.valid > last THEN NoState ELSE f.meta.before
         /\ g.stateAt = IF f.meta.valid > last /\ f.meta.state # NoState /\ f.meta.stateAt > 0
                        THEN f.meta.stateAt - 1 ELSE f.meta.stateAt
         /\ g.pending = IF f.meta.pending.rows > f.origin + last THEN NoPoint
                                                                 ELSE f.meta.pending
<1> DEFINE g == FormingRowReplaced(f.meta, last)
           h == LastReplaced(f, last)
<1>1. /\ DOMAIN g = MetaFields
      /\ g.since = f.meta.since /\ g.cp = f.meta.cp /\ g.anchors = f.meta.anchors
      /\ g.pending = f.meta.pending
      /\ g.valid = IF f.meta.valid > last THEN last ELSE f.meta.valid
      /\ g.state = IF f.meta.valid > last THEN f.meta.before ELSE f.meta.state
      /\ g.before = IF f.meta.valid > last THEN NoState ELSE f.meta.before
      /\ g.stateAt = IF f.meta.valid > last /\ f.meta.state # NoState /\ f.meta.stateAt > 0
                     THEN f.meta.stateAt - 1 ELSE f.meta.stateAt
  BY DEF FormingRowReplaced, MetaFields
<1>2. h = [g EXCEPT !.pending = IF @.rows > f.origin + last THEN NoPoint ELSE @]
  BY DEF LastReplaced
<1> HIDE DEF g
<1>3. /\ DOMAIN h = MetaFields
      /\ h.since = g.since /\ h.cp = g.cp /\ h.anchors = g.anchors
      /\ h.pending = IF g.pending.rows > f.origin + last THEN NoPoint ELSE g.pending
      /\ h.valid = g.valid /\ h.state = g.state /\ h.before = g.before
      /\ h.stateAt = g.stateAt
  BY <1>1, <1>2 DEF MetaFields
<1> HIDE DEF h
<1>4. /\ DOMAIN h = MetaFields
      /\ h.since = f.meta.since /\ h.cp = f.meta.cp /\ h.anchors = f.meta.anchors
      /\ h.valid = IF f.meta.valid > last THEN last ELSE f.meta.valid
      /\ h.state = IF f.meta.valid > last THEN f.meta.before ELSE f.meta.state
      /\ h.before = IF f.meta.valid > last THEN NoState ELSE f.meta.before
      /\ h.stateAt = IF f.meta.valid > last /\ f.meta.state # NoState /\ f.meta.stateAt > 0
                     THEN f.meta.stateAt - 1 ELSE f.meta.stateAt
      /\ h.pending = IF f.meta.pending.rows > f.origin + last THEN NoPoint
                                                              ELSE f.meta.pending
  BY <1>1, <1>3
<1> QED
  BY <1>4 DEF h

LEMMA StatesGivenBack ==
  ASSUME NEW w, NEW s, NEW st, NEW origin \in Nat, NEW valid \in Nat, NEW state, NEW before,
         NEW at \in Int, NEW last \in Nat, valid <= last + 1,
         StatesHeld(w, s, st, origin, valid, state, before, at)
  PROVE  StatesHeld(w, s, st, origin,
                    IF valid > last THEN last ELSE valid,
                    IF valid > last THEN before ELSE state,
                    IF valid > last THEN NoState ELSE before,
                    IF valid > last /\ state # NoState /\ at > 0 THEN at - 1 ELSE at)
<1>1. CASE ~(valid > last)
  BY <1>1
<1>2. CASE valid > last
  <2>1. valid = last + 1
    BY <1>2
  <2>2. CASE before = NoState
    BY <1>2, <2>2 DEF StatesHeld
  <2>3. CASE before # NoState
    <3>1. /\ state # NoState /\ valid > 1 /\ at = origin + valid - 1
          /\ before = HistOf(w, s, st, origin + valid - 1)
      BY <2>3 DEF StatesHeld
    <3>2. at > 0 /\ at - 1 = origin + last - 1 /\ last > 0 /\ origin + valid - 1 = origin + last
      BY <3>1, <2>1
    <3> QED
      BY <3>1, <3>2, <1>2 DEF StatesHeld
  <2> QED
    BY <2>2, <2>3
<1> QED
  BY <1>1, <1>2

LEMMA ReplacedHeld ==
  ASSUME NEW f, NEW s, NEW st, NEW low, NEW v \in Nat, column \in Columns,
         Held(column, f, s, st, low), low < Len(s)
  PROVE  Held(column, [f EXCEPT !.meta = LastReplaced(f, Len(s) - f.origin - 1)],
              [s EXCEPT ![Len(s)] = v], st, low)
<1> DEFINE last == Len(s) - f.origin - 1
           meta == LastReplaced(f, last)
           g == [f EXCEPT !.meta = meta]
           t == [s EXCEPT ![Len(s)] = v]
           k == Len(s) - 1
<1>1. /\ IsFrame(f) /\ s \in Seq(Nat) /\ f.cells \in Seq(Cells)
      /\ f.origin + Len(f.cells) = Len(s) /\ f.meta.valid \in Nat /\ f.meta.stateAt \in Int
      /\ f.origin \in Nat /\ f.origin + f.meta.valid <= Len(s)
      /\ st \in Nat /\ low \in Nat /\ f.origin <= low
  BY DEF Held, Sized
<1>2. Len(s) \in Nat /\ last \in Nat /\ k \in Nat /\ f.origin + last = k /\ low <= k
      /\ f.meta.valid <= last + 1 /\ k = Len(s) - 1
  <2> DEFINE o == f.origin  vr == f.meta.valid  n == Len(s)
  <2>1. /\ n \in Nat /\ o \in Nat /\ vr \in Nat /\ low \in Nat /\ o <= low /\ low < n
        /\ o + vr <= n
    BY <1>1
  <2>2. last = n - o - 1 /\ k = n - 1
    OBVIOUS
  <2> HIDE DEF o, vr, n, last, k
  <2>3. n \in Nat /\ last \in Nat /\ k \in Nat /\ o + last = k /\ low <= k
        /\ vr <= last + 1 /\ k = n - 1
    BY ONLY <2>1, <2>2
  <2> QED
    BY ONLY <2>3 DEF o, vr, n
<1>3. t \in Seq(Nat) /\ Len(t) = Len(s) /\ \A i \in 1 .. Len(s) : i # Len(s) => s[i] = t[i]
  BY <1>1, <1>2
<1> HIDE DEF last, k, t
<1>4. /\ DOMAIN meta = MetaFields
      /\ meta.since = f.meta.since /\ meta.cp = f.meta.cp /\ meta.anchors = f.meta.anchors
      /\ meta.valid = IF f.meta.valid > last THEN last ELSE f.meta.valid
      /\ meta.state = IF f.meta.valid > last THEN f.meta.before ELSE f.meta.state
      /\ meta.before = IF f.meta.valid > last THEN NoState ELSE f.meta.before
      /\ meta.stateAt = IF f.meta.valid > last /\ f.meta.state # NoState /\ f.meta.stateAt > 0
                        THEN f.meta.stateAt - 1 ELSE f.meta.stateAt
      /\ meta.pending = IF f.meta.pending.rows > f.origin + last THEN NoPoint
                                                                 ELSE f.meta.pending
  <2>1. DOMAIN f.meta = MetaFields
    BY <1>1 DEF IsFrame
  <2> QED
    BY <2>1, LastReplacedMeta
<1> HIDE DEF meta
<1>5. /\ IsFrame(g) /\ g.origin = f.origin /\ g.lead = f.lead /\ g.meta = meta
      /\ g.cells = f.cells
  BY <1>1, <1>4 DEF IsFrame, FrameFields
<1> HIDE DEF g
<1>6. Agree(s, t, k)
  <2>1. s \in Seq(Nat)
    BY <1>1
  <2>2. Len(s) \in Nat /\ k \in Nat /\ k = Len(s) - 1
    BY <1>2
  <2>3. \A i \in 1 .. k : i \in 1 .. Len(s) /\ i # Len(s)
    BY ONLY <2>2
  <2>4. k <= Len(s)
    BY ONLY <2>2
  <2> QED
    BY ONLY <2>1, <2>2, <2>3, <2>4, <1>3 DEF Agree
<1>7. /\ meta.valid \in Nat /\ meta.valid <= f.meta.valid /\ meta.stateAt \in Int
      /\ f.origin + meta.valid <= k
  <2> DEFINE o == f.origin  vr == f.meta.valid  at == f.meta.stateAt
             new == meta.valid  atNew == meta.stateAt
  <2>1. /\ o \in Nat /\ vr \in Nat /\ at \in Int /\ last \in Nat /\ o + last = k
        /\ vr <= last + 1
    BY <1>1, <1>2
  <2>2. new = (IF vr > last THEN last ELSE vr) /\ atNew \in {at, at - 1}
    BY <1>4
  <2> HIDE DEF o, vr, at, new, atNew
  <2>3. new \in Nat /\ new <= vr /\ atNew \in Int /\ o + new <= k
    BY ONLY <2>1, <2>2
  <2> QED
    BY ONLY <2>3 DEF o, vr, new, atNew
<1>8. \A i \in 1 .. g.meta.valid : g.cells[i] = f.cells[i]
  BY <1>5
<1>9. ASSUME Recursive(column)
      PROVE  /\ StatesHeld(Reach[column].resume, s, st, f.origin, meta.valid,
                           meta.state, meta.before, meta.stateAt)
             /\ AnchorsHeld(Reach[column].resume, s, st, Base(f), meta.anchors)
             /\ \A r \in DOMAIN meta.anchors : r <= k /\ r < Len(t)
             /\ PendingHeld(Reach[column].resume, s, st, meta.pending)
             /\ meta.pending # NoPoint => meta.pending.rows <= k
  <2>1. RecursionHeld(Reach[column].resume, f, s, st, low)
    BY <1>9 DEF Held
  <2>2. \A r \in DOMAIN f.meta.anchors : r <= k /\ r < Len(t)
    <3>1. \A r \in DOMAIN f.meta.anchors : r < Len(s) /\ r \in st + 1 .. Len(s)
      BY <2>1 DEF RecursionHeld, AnchorsHeld, Usable, PointOf
    <3> QED
      BY ONLY <3>1, <1>1, <1>2, <1>3, SMTT(60)
  <2>3. /\ PendingHeld(Reach[column].resume, s, st, meta.pending)
        /\ meta.pending # NoPoint => meta.pending.rows <= k
    <3>1. PendingHeld(Reach[column].resume, s, st, f.meta.pending)
      BY <2>1 DEF RecursionHeld
    <3>2. CASE f.meta.pending.rows > f.origin + last
      BY <3>2, <1>4 DEF PendingHeld
    <3>3. CASE ~(f.meta.pending.rows > f.origin + last)
      <4>1. meta.pending = f.meta.pending
        BY <3>3, <1>4
      <4>2. ASSUME f.meta.pending # NoPoint PROVE f.meta.pending.rows <= k
        <5> DEFINE p == f.meta.pending.rows  q == f.origin + last
        <5>1. p \in st + 1 .. Len(s)
          BY <3>1, <4>2 DEF PendingHeld, PointOf
        <5>2. st \in Nat /\ Len(s) \in Nat /\ q = k /\ k \in Nat /\ ~(p > q)
          BY <3>3, <1>1, <1>2
        <5> HIDE DEF p, q
        <5>3. p <= k
          BY ONLY <5>1, <5>2
        <5> QED
          BY <5>3 DEF p
      <4> QED
        BY <3>1, <4>1, <4>2
    <3> QED
      BY <3>2, <3>3
  <2>4. StatesHeld(Reach[column].resume, s, st, f.origin, meta.valid,
                   meta.state, meta.before, meta.stateAt)
    <3>1. StatesHeld(Reach[column].resume, s, st, f.origin, f.meta.valid,
                     f.meta.state, f.meta.before, f.meta.stateAt)
      BY <2>1 DEF RecursionHeld
    <3>2. StatesHeld(Reach[column].resume, s, st, f.origin,
                    IF f.meta.valid > last THEN last ELSE f.meta.valid,
                    IF f.meta.valid > last THEN f.meta.before ELSE f.meta.state,
                    IF f.meta.valid > last THEN NoState ELSE f.meta.before,
                    IF f.meta.valid > last /\ f.meta.state # NoState /\ f.meta.stateAt > 0
                    THEN f.meta.stateAt - 1 ELSE f.meta.stateAt)
      BY <3>1, <1>1, <1>2, StatesGivenBack, Zenon
    <3> QED
      BY ONLY <3>2, <1>4
  <2> QED
    BY <2>1, <2>2, <2>3, <2>4, <1>4 DEF RecursionHeld
<1>10. ~Recursive(column) => meta.state = NoState /\ meta.before = NoState
  BY <1>4 DEF Held, WindowHeld
<1>11. g.origin + Len(g.cells) = Len(t)
  BY <1>1, <1>3, <1>5
<1>12. Held(column, g, t, st, low)
  <2>1. /\ g.meta.since = f.meta.since /\ g.meta.cp = f.meta.cp /\ g.meta.stateAt \in Int
        /\ g.meta.valid \in Nat /\ g.meta.valid <= f.meta.valid
        /\ f.origin + g.meta.valid <= k /\ g.cells \in Seq(Cells)
        /\ ~Recursive(column) => g.meta.state = NoState /\ g.meta.before = NoState
    BY <1>1, <1>4, <1>5, <1>7, <1>10
  <2>2. Recursive(column) =>
           /\ StatesHeld(Reach[column].resume, s, st, f.origin, g.meta.valid,
                         g.meta.state, g.meta.before, g.meta.stateAt)
           /\ AnchorsHeld(Reach[column].resume, s, st, Base(f), g.meta.anchors)
           /\ \A r \in DOMAIN g.meta.anchors : r <= k /\ r < Len(t)
           /\ PendingHeld(Reach[column].resume, s, st, g.meta.pending)
           /\ g.meta.pending # NoPoint => g.meta.pending.rows <= k
    BY <1>9, <1>5
  <2> QED
    BY <1>2, <1>5, <1>6, <1>8, <1>11, <2>1, <2>2, MovedHeld, Zenon
<1> QED
  BY <1>12 DEF g, t, meta, last

LEMMA RewrittenHeld ==
  ASSUME NEW f, NEW s, NEW st, NEW low, NEW v \in Nat, NEW r \in Nat, column \in Columns,
         Held(column, f, s, st, low), low < r, r <= Len(s)
  PROVE  Held(column, [f EXCEPT !.meta = [StaledByWrite(f.meta) EXCEPT !.pending = NoPoint]],
              [s EXCEPT ![r] = v], st, low)
<1> DEFINE meta == [StaledByWrite(f.meta) EXCEPT !.pending = NoPoint]
           g == [f EXCEPT !.meta = meta]
           t == [s EXCEPT ![r] = v]
           k == r - 1
           w == Reach[column].resume
<1>1. /\ IsFrame(f) /\ s \in Seq(Nat) /\ f.cells \in Seq(Cells)
      /\ f.origin + Len(f.cells) = Len(s) /\ f.meta.valid \in Nat /\ f.meta.stateAt \in Int
      /\ st \in Nat
  BY DEF Held, Sized
<1>2. /\ f.origin \in Nat /\ low \in Nat /\ f.origin <= low
  BY DEF Held, Sized
<1>3. k \in Nat /\ k < r /\ low <= k /\ f.origin + 0 <= k
  <2> DEFINE o == f.origin
  <2> HIDE DEF o
  <2>1. o \in Nat /\ low \in Nat /\ o <= low
    BY <1>2 DEF o
  <2>2. k \in Nat /\ k < r /\ low <= k /\ o + 0 <= k
    BY ONLY <2>1, low < r, r \in Nat
  <2> QED
    BY ONLY <2>2 DEF o
<1>4. t \in Seq(Nat) /\ Len(t) = Len(s) /\ \A i \in 1 .. Len(s) : i # r => s[i] = t[i]
  <2>1. s \in [1 .. Len(s) -> Nat] /\ Len(s) \in Nat
    BY <1>1
  <2>2. t \in [1 .. Len(s) -> Nat] /\ \A i \in 1 .. Len(s) : i # r => s[i] = t[i]
    BY ONLY <2>1, v \in Nat
  <2> HIDE DEF t
  <2>3. t \in Seq(Nat)
    BY ONLY <2>1, <2>2, SeqOfFunction
  <2>4. Len(t) = Len(s)
    BY ONLY <2>1, <2>2, LenOfFunction
  <2> QED
    BY <2>2, <2>3, <2>4
<1> HIDE DEF k, t
<1>5. /\ DOMAIN meta = MetaFields
      /\ meta.since = f.meta.since /\ meta.cp = f.meta.cp /\ meta.anchors = NoAnchors
      /\ meta.valid = 0 /\ meta.state = NoState /\ meta.before = NoState
      /\ meta.stateAt = f.meta.stateAt /\ meta.pending = NoPoint
  <2> DEFINE h == StaledByWrite(f.meta)
  <2>1. /\ DOMAIN h = MetaFields
        /\ h.since = f.meta.since /\ h.cp = f.meta.cp /\ h.anchors = NoAnchors
        /\ h.valid = 0 /\ h.state = NoState /\ h.before = NoState
        /\ h.stateAt = f.meta.stateAt
    BY <1>1 DEF StaledByWrite, MetaFields, IsFrame
  <2> HIDE DEF h
  <2> QED
    BY <2>1 DEF MetaFields, h
<1> HIDE DEF meta
<1>6. /\ IsFrame(g) /\ g.origin = f.origin /\ g.lead = f.lead /\ g.meta = meta
      /\ g.cells = f.cells
  BY <1>1, <1>5 DEF IsFrame, FrameFields
<1> HIDE DEF g
<1>7. Agree(s, t, k)
  <2>1. s \in Seq(Nat) /\ Len(s) \in Nat
    BY <1>1
  <2>2. \A i \in 1 .. k : i \in 1 .. Len(s) /\ i # r
    BY ONLY <1>3, <2>1, r \in Nat, r <= Len(s)
  <2>3. k <= Len(s)
    BY ONLY <1>3, <2>1, r \in Nat, r <= Len(s)
  <2> QED
    BY ONLY <2>1, <2>2, <2>3, <1>3, <1>4 DEF Agree
<1>8. \A i \in 1 .. g.meta.valid : g.cells[i] = f.cells[i]
  BY <1>6
<1>9. ASSUME Recursive(column)
      PROVE  /\ StatesHeld(w, s, st, f.origin, g.meta.valid,
                           g.meta.state, g.meta.before, g.meta.stateAt)
             /\ AnchorsHeld(w, s, st, Base(f), g.meta.anchors)
             /\ \A a \in DOMAIN g.meta.anchors : a <= k /\ a < Len(t)
             /\ PendingHeld(w, s, st, g.meta.pending)
             /\ g.meta.pending # NoPoint => g.meta.pending.rows <= k
  <2>1. DOMAIN g.meta.anchors = {}
    BY <1>5, <1>6 DEF NoAnchors
  <2>2. AnchorsHeld(w, s, st, Base(f), g.meta.anchors)
    BY <2>1 DEF AnchorsHeld
  <2>3. StatesHeld(w, s, st, f.origin, g.meta.valid, g.meta.state, g.meta.before, g.meta.stateAt)
    BY <1>5, <1>6 DEF StatesHeld
  <2> QED
    BY <1>5, <1>6, <2>1, <2>2, <2>3 DEF PendingHeld
<1>10. /\ g.meta.since = f.meta.since /\ g.meta.cp = f.meta.cp /\ g.meta.stateAt \in Int
       /\ g.meta.valid \in Nat /\ g.meta.valid <= f.meta.valid
       /\ f.origin + g.meta.valid <= k /\ g.cells \in Seq(Cells)
       /\ ~Recursive(column) => g.meta.state = NoState /\ g.meta.before = NoState
  BY <1>1, <1>3, <1>5, <1>6
<1>11. g.origin + Len(g.cells) = Len(t)
  BY <1>1, <1>4, <1>6
<1>12. Held(column, g, t, st, low)
  BY <1>3, <1>6, <1>7, <1>8, <1>9, <1>10, <1>11, MovedHeld, Zenon DEF w
<1> QED
  BY <1>12 DEF g, t, meta

-----------------------------------------------------------------------------
(* Selections.                                                             *)

LEMMA SourceUsable ==
  ASSUME NEW f, NEW s \in Seq(Nat), NEW st \in Nat, NEW w \in Nat, NEW low \in Nat,
         NEW base \in Nat, NEW r \in Nat,
         CheckpointHeld(w, s, st, low, base, f.meta.cp),
         AnchorsHeld(w, s, st, base, f.meta.anchors),
         SourcePoint(f, r) # NoPoint
  PROVE  Usable(w, s, st, base, SourcePoint(f, r)) /\ SourcePoint(f, r).rows <= r
<1> DEFINE cp == f.meta.cp
           kept == {a \in DOMAIN f.meta.anchors : a <= r} \cup
                   (IF cp # NoPoint /\ cp.rows <= r THEN {cp.rows} ELSE {})
           last == CHOOSE a \in kept : \A b \in kept : b <= a
           source == IF last = cp.rows THEN cp ELSE AnchorPoint(f.meta, last)
<1>1. SourcePoint(f, r) = IF kept = {} THEN NoPoint ELSE source
  BY DEF SourcePoint
<1>2. \A a \in DOMAIN f.meta.anchors :
        a \in Nat /\ a > 0 /\ Usable(w, s, st, base, AnchorPoint(f.meta, a))
  BY DEF AnchorsHeld, AnchorPoint, Usable, PointOf
<1>3. \A a : AnchorPoint(f.meta, a).rows = a
  BY DEF AnchorPoint
<1>4. cp # NoPoint => cp.rows \in Nat /\ cp.rows > 0 /\ Usable(w, s, st, base, cp)
  BY SMTT(60) DEF CheckpointHeld, Usable, PointOf
<1>5. \A x \in kept : x \in Nat /\ x <= r /\ x > 0
  BY <1>2, <1>4
<1>6. kept # {}
  BY <1>1
<1>7. last \in kept
  <2>1. \E x \in kept : \A y \in kept : y <= x
    <3> HIDE DEF kept
    <3> QED
      BY <1>5, <1>6, GreatestNat
  <2> QED
    BY <2>1
<1> HIDE DEF last
<1>8. CASE last = cp.rows
  <2>1. cp # NoPoint
    BY <1>5, <1>7, <1>8 DEF NoPoint
  <2>2. cp.rows <= r
    BY <1>5, <1>7, <1>8
  <2> QED
    BY <1>1, <1>4, <1>6, <1>8, <2>1, <2>2
<1>9. CASE last # cp.rows
  <2>1. last \in DOMAIN f.meta.anchors
    BY <1>7, <1>9
  <2>2. last <= r
    BY <1>5, <1>7
  <2> QED
    BY <1>1, <1>2, <1>3, <1>6, <1>9, <2>1, <2>2
<1> QED
  BY <1>8, <1>9

(* The point a selection keeps is one the rows held continue, near enough  *)
(* to its first row; without one, the rows since the history's start are   *)
(* held.                                                                   *)
KeptPoint(f, s, st, low, first, end, p) ==
  /\ p # NoPoint => /\ Usable(Reach[column].resume, s, st, Base(f), p)
                    /\ p.rows <= low \/ p.rows <= first
                    /\ p.rows <= end
                    /\ first - p.rows <= AnchorSpacing
  /\ p = NoPoint /\ st < first => Base(f) <= st /\ first - st <= AnchorSpacing

LEMMA CoveredKept ==
  ASSUME NEW f, NEW s, NEW st, NEW low, NEW first \in Nat, NEW end \in Nat,
         Backed(f, s, st, low), f.meta.cp # NoPoint, Covers(first, end, f.meta.cp)
  PROVE  KeptPoint(f, s, st, low, first, end, f.meta.cp)
<1> DEFINE p == f.meta.cp  rows == p.rows
<1>1. Usable(Reach[column].resume, s, st, Base(f), p) /\ p.rows <= low
  BY DEF Backed, CheckpointHeld
<1>2. first <= rows /\ rows <= end
  BY DEF Covers
<1>3. rows \in st + 1 .. Len(s) /\ st \in Nat
  BY <1>1 DEF Usable, PointOf, Backed
<1> HIDE DEF rows
<1>4. first - rows <= AnchorSpacing
  BY ONLY <1>2, <1>3, AnchorSpacingAssumption, first \in Nat
<1> QED
  BY <1>1, <1>2, <1>4 DEF KeptPoint, rows

LEMMA BoundaryKept ==
  ASSUME NEW f, NEW s, NEW st, NEW low, NEW first \in Nat, NEW end \in Nat,
         Backed(f, s, st, low), low <= end, first <= end, end <= Len(s),
         BoundaryReplayed(f, first, end)
  PROVE  /\ Replayable(f, first) /\ st < first
         /\ KeptPoint(f, s, st, low, first, end, CheckpointAt(f, s, first))
<1> DEFINE w == Reach[column].resume  base == Base(f)  cp == f.meta.cp
           p == CheckpointAt(f, s, first)
<1>1. /\ s \in Seq(Nat) /\ st \in Nat /\ low \in Nat /\ base \in Nat /\ w \in {0, 1}
      /\ f.meta.since = st /\ CheckpointHeld(w, s, st, low, base, cp)
  BY DEF Backed
<1>2. st < first /\ ~(cp # NoPoint /\ Covers(first, end, cp))
  BY <1>1 DEF BoundaryReplayed
<1>3. /\ cp # NoPoint => base + w <= cp.rows /\ cp.rows <= low /\ cp.rows \in st + 1 .. Len(s)
      /\ st < base => cp # NoPoint
  BY <1>1 DEF CheckpointHeld, Usable, PointOf
<1>4. cp # NoPoint => cp.rows < first /\ base + w <= first
  <2> DEFINE rows == cp.rows
  <2>1. cp # NoPoint => ~(first <= rows /\ rows <= end) /\ base + w <= rows /\ rows <= low
                        /\ rows \in st + 1 .. Len(s)
    BY <1>2, <1>3 DEF Covers
  <2> HIDE DEF rows, cp, w, base
  <2>2. cp # NoPoint => rows < first /\ base + w <= first
    BY ONLY <2>1, <1>1, low <= end, first \in Nat, end \in Nat
  <2> QED
    BY <2>2 DEF rows
<1>5. base + w <= first
  <2>1. CASE cp # NoPoint
    BY <2>1, <1>4
  <2>2. CASE cp = NoPoint
    <3>1. base <= st
      BY <2>2, <1>1, <1>3
    <3> HIDE DEF base, w
    <3> QED
      BY ONLY <3>1, <1>1, <1>2, first \in Nat
  <2> QED
    BY <2>1, <2>2
<1>6. Replayable(f, first)
  <2>1. st < Base(f) => f.meta.cp.rows <= first
    <3>1. ASSUME st < Base(f) PROVE cp.rows <= first
      <4>1. cp # NoPoint
        BY <3>1, <1>3
      <4>2. cp.rows < first /\ cp.rows \in st + 1 .. Len(s)
        BY <4>1, <1>3, <1>4
      <4> DEFINE rows == cp.rows
      <4> HIDE DEF rows
      <4>3. rows <= first
        BY <4>2, <1>1 DEF rows
      <4> QED
        BY <4>3 DEF rows
    <3> QED
      BY <3>1
  <2> QED
    BY <2>1, CheckpointReplayable, Zenon
<1>7. st <= first /\ first <= Len(s) /\ first \in st + 1 .. Len(s)
  <2>1. Len(s) \in Nat
    BY <1>1
  <2> QED
    BY ONLY <2>1, <1>1, <1>2, first \in Nat, end \in Nat, first <= end, end <= Len(s)
<1>8. p = [rows |-> first, state |-> Hist(column, s, st, first)]
  BY <1>6, <1>7, CheckpointIs, Zenon
<1>9. p.rows = first /\ p.state = HistOf(w, s, st, first)
  BY <1>8 DEF Hist
<1> HIDE DEF p
<1>10. Usable(w, s, st, base, p)
  BY <1>5, <1>7, <1>9 DEF Usable, PointOf
<1>11. first - first <= AnchorSpacing
  BY AnchorSpacingAssumption
<1>12. p # NoPoint
  BY <1>1, <1>2, <1>9 DEF NoPoint
<1>13. KeptPoint(f, s, st, low, first, end, p)
  <2>1. p.rows <= first /\ p.rows <= end /\ first - p.rows <= AnchorSpacing
    BY <1>9, <1>11
  <2> QED
    BY <1>10, <1>12, <2>1 DEF KeptPoint
<1> QED
  BY <1>2, <1>6, <1>13 DEF p

LEMMA NearKept ==
  ASSUME NEW f, NEW s, NEW st, NEW low, NEW first \in Nat, NEW end \in Nat,
         Backed(f, s, st, low), first <= end,
         Near(f, first, PassedBefore(f.meta, SourcePoint(f, first)))
  PROVE  KeptPoint(f, s, st, low, first, end, SourcePoint(f, first))
<1> DEFINE w == Reach[column].resume  base == Base(f)  p == SourcePoint(f, first)
<1>1. /\ s \in Seq(Nat) /\ st \in Nat /\ low \in Nat /\ base \in Nat /\ w \in Nat
      /\ f.meta.since = st /\ CheckpointHeld(w, s, st, low, base, f.meta.cp)
      /\ AnchorsHeld(w, s, st, base, f.meta.anchors)
  BY DEF Backed
<1>2. PassedBefore(f.meta, p) >= base /\ first - PassedBefore(f.meta, p) <= AnchorSpacing
  BY DEF Near
<1>3. CASE p = NoPoint
  <2>1. PassedBefore(f.meta, p) = st
    BY <1>1, <1>3 DEF PassedBefore
  <2>2. base <= st /\ first - st <= AnchorSpacing
    BY <1>1, <1>2, <2>1
  <2> QED
    BY <1>3, <2>2 DEF KeptPoint
<1>4. CASE p # NoPoint
  <2>1. PassedBefore(f.meta, p) = p.rows
    BY <1>4 DEF PassedBefore
  <2>2. Usable(w, s, st, base, p) /\ p.rows <= first
    <3> HIDE DEF w, base
    <3> QED
      BY <1>1, <1>4, SourceUsable, Zenon
  <2>3. p.rows \in st + 1 .. Len(s)
    BY <2>2 DEF Usable, PointOf
  <2> DEFINE rows == p.rows
  <2>4. rows <= end
    <3>1. rows \in st + 1 .. Len(s) /\ rows <= first
      BY <2>2, <2>3
    <3> HIDE DEF rows
    <3> QED
      BY ONLY <3>1, <1>1, first \in Nat, end \in Nat, first <= end
  <2> QED
    BY <1>2, <1>4, <2>1, <2>2, <2>4 DEF KeptPoint
<1> QED
  BY <1>3, <1>4

LEMMA ContinuedPointKept ==
  ASSUME NEW f, NEW s, NEW st, NEW low, NEW first \in Nat, NEW end \in Nat,
         Recursive(column), Backed(f, s, st, low), low <= end, first <= end, end <= Len(s)
  PROVE  KeptPoint(f, s, st, low, first, end, ContinuedPoint(f, s, first, end))
<1> DEFINE p == ContinuedPoint(f, s, first, end)
<1>1. CASE f.meta.cp # NoPoint /\ Covers(first, end, f.meta.cp)
  <2>1. p = f.meta.cp
    BY <1>1 DEF ContinuedPoint, BoundaryReplayed
  <2>2. KeptPoint(f, s, st, low, first, end, f.meta.cp)
    BY <1>1, CoveredKept, Zenon
  <2> QED
    BY <2>1, <2>2
<1>2. CASE BoundaryReplayed(f, first, end)
  <2>1. p = CheckpointAt(f, s, first)
    BY <1>2 DEF ContinuedPoint, BoundaryReplayed
  <2>2. KeptPoint(f, s, st, low, first, end, CheckpointAt(f, s, first))
    BY <1>2, BoundaryKept, Zenon
  <2> QED
    BY <2>1, <2>2
<1>3. CASE /\ ~(f.meta.cp # NoPoint /\ Covers(first, end, f.meta.cp))
           /\ ~BoundaryReplayed(f, first, end)
  <2>1. CASE f.meta.since < first
    <3>1. p = SourcePoint(f, first)
      BY <1>3, <2>1 DEF ContinuedPoint, Carried
    <3>2. Near(f, first, PassedBefore(f.meta, SourcePoint(f, first)))
      BY <1>3, <2>1 DEF BoundaryReplayed, Carried
    <3>3. KeptPoint(f, s, st, low, first, end, SourcePoint(f, first))
      BY <3>2, NearKept
    <3> QED
      BY <3>1, <3>3
  <2>2. CASE ~(f.meta.since < first)
    <3>1. p = NoPoint
      BY <1>3, <2>2 DEF ContinuedPoint, Carried
    <3>2. ~(st < first)
      BY <2>2 DEF Backed
    <3> QED
      BY <3>1, <3>2 DEF KeptPoint
  <2> QED
    BY <2>1, <2>2
<1> QED
  BY <1>1, <1>2, <1>3

(* The lead of a recursion reaches back to the operands of its point, as   *)
(* far as the rows held before do.                                         *)
Back(w, first, st, rows) == Earlier(Later(first - Later(rows - w, 0), 0), first - st)

LeadOver(want, other, most) == Earlier(Later(want, other), most)

LEMMA BackType ==
  ASSUME NEW w \in Nat, NEW first \in Nat, NEW st \in Nat, NEW rows \in Nat, st <= first
  PROVE  Back(w, first, st, rows) \in Nat
BY DEF Back, Later, Earlier

LEMMA LeadOverType ==
  ASSUME NEW want \in Nat, NEW other \in Nat, NEW most \in Nat
  PROVE  LeadOver(want, other, most) \in Nat /\ LeadOver(want, other, most) <= most
BY DEF LeadOver, Later, Earlier

LEMMA LeadReaches ==
  ASSUME NEW w \in {0, 1}, NEW first \in Nat, NEW st \in Nat, NEW rows \in Nat,
         NEW other \in Nat, NEW most \in Nat, st < first, st < rows,
         first - most + w <= rows
  PROVE  first - LeadOver(Back(w, first, st, rows), other, most) + w <= rows
BY DEF LeadOver, Back, Later, Earlier

LEMMA LeadFromStart ==
  ASSUME NEW w \in Nat, NEW first \in Nat, NEW st \in Nat,
         NEW other \in Nat, NEW most \in Nat, st < first, first - most <= st
  PROVE  first - LeadOver(Back(w, first, st, st), other, most) <= st
BY DEF LeadOver, Back, Later, Earlier

LEMMA BackBounded ==
  ASSUME NEW w \in Nat, NEW first \in Nat, NEW st \in Nat, NEW rows \in Nat,
         NEW most \in Nat, first - rows <= AnchorSpacing, st <= first
  PROVE  LeadOver(Back(w, first, st, rows), 0, most) <= AnchorSpacing + w
BY AnchorSpacingAssumption DEF LeadOver, Back, Later, Earlier

LEMMA WantedIs ==
  ASSUME NEW meta, NEW st \in Nat, NEW first \in Nat, meta.since = st, column \in Columns
  PROVE  Wanted(meta, first) =
           IF first <= st THEN 0
           ELSE IF Recursive(column)
                THEN Back(Reach[column].resume, first, st, PassedBefore(meta, meta.cp))
                ELSE Earlier(LeadOf(column), first - st)
BY DEF Wanted, Back, Carried, Operands, Resume, LeadReach, Lookback, LeadOf

LEMMA ContinuedFields ==
  ASSUME NEW f, NEW s, NEW a, NEW b, DOMAIN f.meta = MetaFields
  PROVE  LET first == f.origin + a
             valid == Earlier(Later(f.meta.valid - a, 0), b - a)
             own   == OwnStates(f, first, valid)
             m0    == IF BoundaryReplayed(f, f.origin + a, f.origin + b)
                      THEN AnchorsAfter(f, s, f.origin + a) ELSE f.meta
             g     == ContinuedMeta(f, s, a, b)
         IN  /\ DOMAIN g = MetaFields /\ g.since = f.meta.since /\ g.valid = valid
             /\ g.state = IF own THEN f.meta.state ELSE NoState
             /\ g.before = IF own /\ valid > 1 THEN f.meta.before ELSE NoState
             /\ g.stateAt = Later(first + valid - 1, 0)
             /\ g.cp = ContinuedPoint(f, s, first, first + b - a)
             /\ g.pending = IF Covers(first, first + b - a, f.meta.pending)
                            THEN f.meta.pending ELSE NoPoint
             /\ g.anchors = [r \in {i \in DOMAIN m0.anchors : first < i /\ i < first + valid} |->
                               m0.anchors[r]]
<1> DEFINE first == f.origin + a
           m0    == IF BoundaryReplayed(f, f.origin + a, f.origin + b)
                    THEN AnchorsAfter(f, s, f.origin + a) ELSE f.meta
           valid == Earlier(Later(m0.valid - a, 0), b - a)
           own   == OwnStates(f, first, valid)
           p     == ContinuedPoint(f, s, first, first + b - a)
           g     == ContinuedMeta(f, s, a, b)
<1>1. AnchorsOnly(f.meta, m0)
  <2>1. AnchorsOnly(f.meta, f.meta)
    BY DEF AnchorsOnly
  <2>2. AnchorsOnly(f.meta, AnchorsAfter(f, s, f.origin + a))
    BY AnchorsAfterOnly
  <2> QED
    BY <2>1, <2>2
<1>2. g = [m0 EXCEPT
             !.valid   = valid,
             !.state   = IF own THEN @ ELSE NoState,
             !.before  = IF own /\ valid > 1 THEN @ ELSE NoState,
             !.stateAt = Later(first + valid - 1, 0),
             !.cp      = p,
             !.pending = IF Covers(first, first + b - a, @) THEN @ ELSE NoPoint,
             !.anchors = [r \in {i \in DOMAIN @ : first < i /\ i < first + valid} |-> @[r]]]
  BY DEF ContinuedMeta
<1>5. valid = Earlier(Later(f.meta.valid - a, 0), b - a)
  <2> HIDE DEF m0
  <2> QED
    BY <1>1 DEF AnchorsOnly
<1> HIDE DEF m0, p, own, valid
<1>3. /\ DOMAIN g = MetaFields /\ g.since = m0.since /\ g.valid = valid
      /\ g.state = IF own THEN m0.state ELSE NoState
      /\ g.before = IF own /\ valid > 1 THEN m0.before ELSE NoState
      /\ g.stateAt = Later(first + valid - 1, 0)
      /\ g.cp = p
      /\ g.pending = IF Covers(first, first + b - a, m0.pending) THEN m0.pending ELSE NoPoint
      /\ g.anchors = [r \in {i \in DOMAIN m0.anchors : first < i /\ i < first + valid} |->
                        m0.anchors[r]]
  <2>1. DOMAIN m0 = MetaFields
    BY <1>1 DEF AnchorsOnly
  <2> HIDE DEF g, first
  <2> QED
    BY ONLY <2>1, <1>2 DEF MetaFields
<1> HIDE DEF g
<1>4. /\ DOMAIN g = MetaFields /\ g.since = f.meta.since /\ g.valid = valid
      /\ g.state = IF own THEN f.meta.state ELSE NoState
      /\ g.before = IF own /\ valid > 1 THEN f.meta.before ELSE NoState
      /\ g.stateAt = Later(first + valid - 1, 0)
      /\ g.cp = p
      /\ g.pending = IF Covers(first, first + b - a, f.meta.pending)
                     THEN f.meta.pending ELSE NoPoint
      /\ g.anchors = [r \in {i \in DOMAIN m0.anchors : first < i /\ i < first + valid} |->
                        m0.anchors[r]]
  BY <1>1, <1>3 DEF AnchorsOnly
<1>6. own = OwnStates(f, first, valid)
  BY DEF own, valid
<1> HIDE DEF first
<1> QED
  BY <1>4, <1>5, <1>6 DEF g, m0, p, first

LEMMA SelectedPointHeld ==
  ASSUME NEW f, NEW s, NEW st, NEW low, NEW first \in Nat, NEW end \in Nat, NEW p,
         NEW other \in Nat, NEW most \in Nat, NEW to \in Nat,
         Backed(f, s, st, low), KeptPoint(f, s, st, low, first, end, p),
         Base(f) = first - most, low <= to, first <= to
  PROVE  CheckpointHeld(Reach[column].resume, s, st, to,
           first - LeadOver(IF first <= st THEN 0
                            ELSE Back(Reach[column].resume, first, st, PassedBefore(f.meta, p)),
                            other, most), p)
<1> DEFINE w == Reach[column].resume  base == Base(f)  rows == p.rows
           lead == LeadOver(IF first <= st THEN 0
                            ELSE Back(w, first, st, PassedBefore(f.meta, p)), other, most)
<1>1. w \in {0, 1} /\ st \in Nat /\ low \in Nat /\ base \in Nat /\ f.meta.since = st
      /\ base = first - most
  BY DEF Backed
<1>2. ASSUME p # NoPoint
      PROVE  /\ Usable(w, s, st, base, p) /\ (rows <= low \/ rows <= first) /\ rows \in Nat
             /\ st < rows /\ base + w <= rows /\ PassedBefore(f.meta, p) = rows
  <2>1. Usable(w, s, st, base, p) /\ (rows <= low \/ rows <= first)
    BY <1>2 DEF KeptPoint
  <2>2. rows \in st + 1 .. Len(s) /\ base + w <= rows
    BY <2>1 DEF Usable, PointOf
  <2>3. rows \in Nat /\ st < rows
    <3> HIDE DEF rows
    <3> QED
      BY ONLY <2>2, <1>1
  <2>4. PassedBefore(f.meta, p) = rows
    BY <1>2 DEF PassedBefore
  <2> QED
    BY <2>1, <2>2, <2>3, <2>4
<1>3. p = NoPoint => PassedBefore(f.meta, p) = st
  BY <1>1 DEF PassedBefore
<1> HIDE DEF w, base, rows
<1>4. CASE first <= st
  <2>1. lead = LeadOver(0, other, most)
    BY <1>4
  <2>2. LeadOver(0, other, most) \in Nat
    BY LeadOverType
  <2> HIDE DEF lead
  <2>3. lead \in Nat
    BY <2>1, <2>2
  <2>4. ~(st < first - lead)
    BY ONLY <2>3, <1>4, <1>1, first \in Nat
  <2>5. ASSUME p # NoPoint PROVE first - lead + w <= rows /\ rows <= to
    <3>1. rows \in Nat /\ st < rows /\ (rows <= low \/ rows <= first)
      BY <1>2, <2>5
    <3> QED
      BY ONLY <3>1, <1>1, <1>4, <2>3, first \in Nat, low <= to, first <= to, to \in Nat
  <2>6. p # NoPoint => Usable(w, s, st, first - lead, p)
    BY <1>2, <2>5 DEF Usable, rows
  <2>7. CheckpointHeld(w, s, st, to, first - lead, p)
    BY <2>4, <2>5, <2>6 DEF CheckpointHeld, rows
  <2> QED
    BY <2>7 DEF lead, w
<1>5. CASE st < first /\ p # NoPoint
  <2>1. lead = LeadOver(Back(w, first, st, rows), other, most)
    BY <1>1, <1>2, <1>5
  <2>2. rows \in Nat /\ st < rows /\ (rows <= low \/ rows <= first) /\ base + w <= rows
    BY <1>2, <1>5
  <2>3. first - LeadOver(Back(w, first, st, rows), other, most) + w <= rows
    BY ONLY <2>2, <1>1, <1>5, LeadReaches, first \in Nat, most \in Nat, other \in Nat
  <2> HIDE DEF lead
  <2>4. Usable(w, s, st, first - lead, p)
    BY <1>2, <1>5, <2>1, <2>3 DEF Usable, rows
  <2>5. rows <= to
    BY ONLY <2>2, <1>1, low <= to, first <= to, to \in Nat, first \in Nat
  <2>6. CheckpointHeld(w, s, st, to, first - lead, p)
    BY <1>5, <2>4, <2>5 DEF CheckpointHeld, rows
  <2> QED
    BY <2>6 DEF lead, w
<1>6. CASE st < first /\ p = NoPoint
  <2>1. lead = LeadOver(Back(w, first, st, st), other, most)
    BY <1>1, <1>3, <1>6
  <2>2. first - most <= st
    BY <1>1, <1>6 DEF KeptPoint, base
  <2>3. first - LeadOver(Back(w, first, st, st), other, most) <= st
    BY ONLY <2>2, <1>1, <1>6, LeadFromStart, first \in Nat, most \in Nat, other \in Nat
  <2>4. lead \in Nat
    <3>1. Back(w, first, st, st) \in Nat
      <4>1. w \in Nat /\ st \in Nat /\ st <= first
        BY <1>1, <1>6
      <4> QED
        BY ONLY <4>1, BackType, first \in Nat
    <3> QED
      BY ONLY <3>1, <2>1, LeadOverType, most \in Nat, other \in Nat
  <2> HIDE DEF lead
  <2>5. ~(st < first - lead)
    <3>1. first - lead <= st
      BY <2>1, <2>3
    <3> QED
      BY ONLY <3>1, <2>4, <1>1, first \in Nat
  <2>6. CheckpointHeld(w, s, st, to, first - lead, p)
    BY <1>6, <2>5 DEF CheckpointHeld
  <2> QED
    BY <2>6 DEF lead, w
<1> QED
  BY <1>1, <1>4, <1>5, <1>6

LEMMA SelectedAnchorsHeld ==
  ASSUME NEW w \in {0, 1}, NEW s, NEW t, NEW st \in Nat, NEW base, NEW first \in Nat,
         NEW end \in Nat, NEW valid \in Nat, NEW lead \in Nat, NEW anchors, NEW new,
         Agree(s, t, end), Len(t) = end, first + valid <= end,
         AnchorsHeld(w, s, st, base, anchors),
         \A r \in DOMAIN new :
           r \in DOMAIN anchors /\ first < r /\ r < first + valid /\ new[r] = anchors[r]
  PROVE  AnchorsHeld(w, t, st, first - lead, new)
<1>1. ASSUME NEW r \in DOMAIN new
      PROVE  r < Len(t) /\ Usable(w, t, st, first - lead, [rows |-> r, state |-> new[r]])
  <2> DEFINE p == [rows |-> r, state |-> anchors[r]]
  <2>1. Usable(w, s, st, base, p) /\ p.rows = r /\ new[r] = anchors[r]
        /\ first < r /\ r < first + valid
    BY DEF AnchorsHeld
  <2>2. r \in st + 1 .. Len(s) /\ Len(s) \in Nat
    BY <2>1 DEF Usable, PointOf, Agree
  <2> HIDE DEF p
  <2>3. r \in Nat /\ r < end /\ r <= end /\ first - lead + w <= r
    BY ONLY <2>1, <2>2, first \in Nat, lead \in Nat, w \in {0, 1}, end \in Nat, valid \in Nat,
            first + valid <= end, st \in Nat
  <2>4. PointOf(w, t, st, p)
    <3>1. PointOf(w, s, st, p) /\ p.rows <= end /\ w \in Nat
      BY <2>1, <2>3 DEF Usable
    <3> QED
      BY <3>1, PointMoved, Zenon
  <2> QED
    BY <2>1, <2>3, <2>4 DEF Usable, p
<1> QED
  BY <1>1 DEF AnchorsHeld

LEMMA SelectedStatesHeld ==
  ASSUME NEW w \in Nat, NEW s, NEW t, NEW st \in Nat, NEW f, NEW first \in Nat,
         NEW end \in Nat, NEW valid \in Nat, Agree(s, t, end), first + valid <= end,
         f.origin \in Nat, f.meta.valid \in Nat,
         StatesHeld(w, s, st, f.origin, f.meta.valid, f.meta.state, f.meta.before,
                    f.meta.stateAt)
  PROVE  LET own == OwnStates(f, first, valid) IN
         StatesHeld(w, t, st, first, valid,
                    IF own THEN f.meta.state ELSE NoState,
                    IF own /\ valid > 1 THEN f.meta.before ELSE NoState,
                    Later(first + valid - 1, 0))
<1> DEFINE own == OwnStates(f, first, valid)
           state == IF own THEN f.meta.state ELSE NoState
           before == IF own /\ valid > 1 THEN f.meta.before ELSE NoState
           at == Later(first + valid - 1, 0)
<1>1. CASE ~own
  BY <1>1 DEF StatesHeld
<1>2. CASE own
  <2> DEFINE o == f.origin  vr == f.meta.valid  sa == f.meta.stateAt
             p == o + vr  q == o + vr - 1
  <2>1. /\ o + vr - 1 = sa /\ sa + 1 = first + valid /\ valid > 0 /\ vr > 0
        /\ o \in Nat /\ vr \in Nat
    BY <1>2 DEF OwnStates, ResumeReady
  <2>2. /\ f.meta.state # NoState => f.meta.state = HistOf(w, s, st, p)
        /\ f.meta.before # NoState =>
             f.meta.state # NoState /\ vr > 1 /\ f.meta.before = HistOf(w, s, st, q)
    BY DEF StatesHeld
  <2>3. p = first + valid /\ q = first + valid - 1 /\ p \in Nat /\ p <= end
        /\ q \in Nat /\ q <= end /\ at = first + valid - 1
    <3> HIDE DEF o, vr, sa
    <3> QED
      BY ONLY <2>1, first \in Nat, valid \in Nat, end \in Nat, first + valid <= end DEF Later
  <2> HIDE DEF p, q, o, vr, sa
  <2>4. HistOf(w, s, st, p) = HistOf(w, t, st, p)
    BY <2>3, HistMoved
  <2>5. HistOf(w, s, st, q) = HistOf(w, t, st, q)
    BY <2>3, HistMoved
  <2>6. state # NoState => state = HistOf(w, t, st, first + valid)
    BY <2>2, <2>3, <2>4
  <2>7. before # NoState => state # NoState /\ valid > 1
                            /\ before = HistOf(w, t, st, first + valid - 1)
    BY <1>2, <2>2, <2>3, <2>5
  <2>8. valid > 0 /\ at = first + valid - 1
    BY <2>1, <2>3
  <2> HIDE DEF state, before, at
  <2> QED
    BY <2>6, <2>7, <2>8 DEF StatesHeld, state, before, at
<1> QED
  BY <1>1, <1>2

LEMMA SelectedRowsHeld ==
  ASSUME NEW c \in Columns, NEW s, NEW t, NEW st \in Nat, NEW low \in Nat, NEW to \in Nat,
         NEW o \in Nat, NEW vr \in Nat, NEW a \in Nat, NEW b \in Nat, NEW cells, NEW new,
         a <= b, low <= to, Agree(s, t, o + b), RowsHeld(c, s, st, low, o, vr, cells),
         \A i \in 1 .. (b - a) : new[i] = cells[a + i]
  PROVE  RowsHeld(c, t, st, to, o + a, Earlier(Later(vr - a, 0), b - a), new)
<1> DEFINE valid == Earlier(Later(vr - a, 0), b - a)
<1>1. ASSUME NEW i \in 1 .. valid, o + a + i > to
      PROVE  new[i] = Val(c, t, st, o + a + i)
  <2> DEFINE j == a + i  r == o + j
  <2>1. i \in 1 .. (b - a) /\ j \in 1 .. vr /\ r = o + a + i /\ r > low /\ r \in Nat /\ r <= o + b
    <3>1. i \in Nat /\ i > 0 /\ i <= valid
      BY DEF Earlier, Later
    <3>2. valid <= b - a /\ (valid > 0 => valid <= vr - a)
      BY DEF Earlier, Later
    <3>3. valid \in Int
      BY DEF Earlier, Later
    <3> HIDE DEF valid
    <3> QED
      BY ONLY <3>1, <3>2, <3>3, o \in Nat, a \in Nat, b \in Nat, vr \in Nat, low \in Nat,
              to \in Nat, low <= to, o + a + i > to
  <2>2. new[i] = cells[j]
    BY <2>1
  <2>3. o + j > low => cells[j] = Val(c, s, st, r)
    BY <2>1 DEF RowsHeld
  <2> HIDE DEF j, valid
  <2>4. o + j > low
    BY <2>1
  <2> HIDE DEF r
  <2>5. Val(c, s, st, r) = Val(c, t, st, r)
    BY <2>1, ValMoved
  <2> QED
    BY <2>1, <2>2, <2>3, <2>4, <2>5
<1> QED
  BY <1>1 DEF RowsHeld

LeadBound(c) == Later(LeadOf(c), AnchorSpacing + Reach[c].resume)

(* What a selection g of rows a + 1 .. b is made of, `first' and `end'     *)
(* being the rows of the series before and through it.                     *)
Selection(f, s, st, a, b, other, first, end, valid, g) ==
  LET own == OwnStates(f, first, valid)
      p   == ContinuedPoint(f, s, first, end)
      m0  == IF BoundaryReplayed(f, first, end) THEN AnchorsAfter(f, s, first) ELSE f.meta
  IN  /\ IsFrame(g) /\ g.origin = first
      /\ g.lead = LeadOver(IF first <= st THEN 0
                           ELSE IF Recursive(column)
                                THEN Back(Reach[column].resume, first, st,
                                          PassedBefore(f.meta, p))
                                ELSE Earlier(LeadOf(column), first - st),
                           other, a + f.lead)
      /\ g.cells = [i \in 1 .. (b - a) |-> f.cells[a + i]]
      /\ g.meta.since = st /\ g.meta.valid = valid
      /\ g.meta.state = IF own THEN f.meta.state ELSE NoState
      /\ g.meta.before = IF own /\ valid > 1 THEN f.meta.before ELSE NoState
      /\ g.meta.stateAt = Later(first + valid - 1, 0)
      /\ g.meta.cp = p
      /\ g.meta.pending = IF Covers(first, end, f.meta.pending)
                          THEN f.meta.pending ELSE NoPoint
      /\ g.meta.anchors =
           [r \in {i \in DOMAIN m0.anchors : first < i /\ i < first + valid} |->
              m0.anchors[r]]

LEMMA SelectedFields ==
  ASSUME NEW f, NEW s, NEW st \in Nat, NEW a \in Nat, NEW b \in Nat, NEW other \in Nat,
         NEW first, NEW end, NEW valid, DOMAIN f.meta = MetaFields, column \in Columns,
         f.meta.since = st, f.origin \in Nat, first = f.origin + a, end = f.origin + b,
         valid = Earlier(Later(f.meta.valid - a, 0), b - a)
  PROVE  Selection(f, s, st, a, b, other, first, end, valid, Selected(f, s, a, b, other))
<1> DEFINE o == f.origin
           g   == Selected(f, s, a, b, other)
           now == ContinuedMeta(f, s, a, b)
           own == OwnStates(f, first, valid)
           p   == ContinuedPoint(f, s, first, end)
           m0  == IF BoundaryReplayed(f, first, end) THEN AnchorsAfter(f, s, first)
                                                     ELSE f.meta
<1>1. first + b - a = end /\ first \in Nat
  <2>1. o \in Nat /\ first = o + a /\ end = o + b
    OBVIOUS
  <2> HIDE DEF o
  <2> QED
    BY ONLY <2>1, a \in Nat, b \in Nat
<1>2. /\ DOMAIN now = MetaFields /\ now.since = st /\ now.valid = valid
      /\ now.state = IF own THEN f.meta.state ELSE NoState
      /\ now.before = IF own /\ valid > 1 THEN f.meta.before ELSE NoState
      /\ now.stateAt = Later(first + valid - 1, 0)
      /\ now.cp = p
      /\ now.pending = IF Covers(first, end, f.meta.pending) THEN f.meta.pending ELSE NoPoint
      /\ now.anchors = [r \in {i \in DOMAIN m0.anchors : first < i /\ i < first + valid} |->
                        m0.anchors[r]]
  BY ONLY <1>1, ContinuedFields, first = f.origin + a, end = f.origin + b,
          valid = Earlier(Later(f.meta.valid - a, 0), b - a), DOMAIN f.meta = MetaFields,
          f.meta.since = st
<1>3. /\ g = [origin |-> first,
              lead   |-> LeadOver(Wanted(now, first), other, a + f.lead),
              cells  |-> [i \in 1 .. (b - a) |-> f.cells[a + i]],
              meta   |-> now]
  BY DEF Selected, LeadOver
<1>4. PassedBefore(now, p) = PassedBefore(f.meta, p)
  BY <1>2 DEF PassedBefore
<1> HIDE DEF now
<1>5. Wanted(now, first) =
        IF first <= st THEN 0
        ELSE IF Recursive(column)
             THEN Back(Reach[column].resume, first, st, PassedBefore(f.meta, p))
             ELSE Earlier(LeadOf(column), first - st)
  <2>1. now.since = st /\ now.cp = p
    BY <1>2
  <2> HIDE DEF p
  <2> QED
    BY ONLY <1>1, <1>4, <2>1, WantedIs, st \in Nat, column \in Columns
<1>6. /\ IsFrame(g) /\ g.origin = first /\ g.meta = now
      /\ g.lead = LeadOver(Wanted(now, first), other, a + f.lead)
      /\ g.cells = [i \in 1 .. (b - a) |-> f.cells[a + i]]
  <2>1. DOMAIN now = MetaFields
    BY <1>2
  <2> HIDE DEF g
  <2> QED
    BY ONLY <1>3, <2>1 DEF IsFrame, FrameFields
<1> QED
  BY <1>2, <1>5, <1>6 DEF Selection

LEMMA SelectedSizes ==
  ASSUME NEW o \in Nat, NEW a \in Nat, NEW b \in Nat, NEW vr \in Nat, NEW n \in Nat,
         NEW lead \in Nat, NEW st \in Nat, a <= b, o + b <= n, st <= o, lead <= o
  PROVE  LET valid == Earlier(Later(vr - a, 0), b - a) IN
         /\ valid \in Nat /\ valid <= b - a /\ o + a + valid <= o + b
         /\ o + a \in Nat /\ o + b \in Nat /\ o + a <= o + b /\ st <= o + a
         /\ a + lead \in Nat /\ a + lead <= o + a /\ o - lead = o + a - (a + lead)
BY DEF Earlier, Later

LEMMA SelectedCells ==
  ASSUME NEW cells \in Seq(Cells), NEW a \in Nat, NEW b \in Nat, a <= b, b <= Len(cells)
  PROVE  /\ [i \in 1 .. (b - a) |-> cells[a + i]] \in Seq(Cells)
         /\ Len([i \in 1 .. (b - a) |-> cells[a + i]]) = b - a
<1> DEFINE n == b - a  new == [i \in 1 .. (b - a) |-> cells[a + i]]
<1>1. n \in Nat
  OBVIOUS
<1>2. \A i \in 1 .. (b - a) : cells[a + i] \in Cells
  OBVIOUS
<1>3. new \in [1 .. n -> Cells]
  BY <1>2
<1> HIDE DEF n, new
<1>4. new \in Seq(Cells)
  BY ONLY <1>1, <1>3, SeqOfFunction
<1>5. Len(new) = n
  BY ONLY <1>1, <1>3, LenOfFunction
<1> QED
  BY <1>4, <1>5 DEF n, new

LEMMA SelectedHeld ==
  ASSUME NEW f, NEW s, NEW t, NEW st, NEW low, NEW to \in Nat, NEW a \in Nat, NEW b \in Nat,
         NEW other \in Nat, ShortOperands, column \in Columns, Held(column, f, s, st, low),
         a <= b, f.origin + b <= Len(s), low <= f.origin + b, low <= to,
         f.origin + a <= to, Agree(s, t, f.origin + b), Len(t) = f.origin + b
  PROVE  /\ Held(column, Selected(f, s, a, b, other), t, st, to)
         /\ other = 0 => Selected(f, s, a, b, other).lead <= LeadBound(column)
<1> DEFINE o == f.origin  first == o + a  end == o + b  vr == f.meta.valid  n == Len(s)
           valid == Earlier(Later(vr - a, 0), b - a)
           w == Reach[column].resume  old == f.lead  most == a + old
           g == Selected(f, s, a, b, other)
           p == ContinuedPoint(f, s, first, end)
           back == IF Recursive(column) THEN Back(w, first, st, PassedBefore(f.meta, p))
                   ELSE Earlier(LeadOf(column), first - st)
           own == OwnStates(f, first, valid)
           m0 == IF BoundaryReplayed(f, first, end) THEN AnchorsAfter(f, s, first)
                                                    ELSE f.meta
<1>1. /\ IsFrame(f) /\ s \in Seq(Nat) /\ f.cells \in Seq(Cells) /\ o + Len(f.cells) = n
      /\ f.meta.since = st /\ t \in Seq(Nat)
  BY DEF Held, Sized, Agree
<1>2. /\ o \in Nat /\ old \in Nat /\ vr \in Nat /\ st \in Nat /\ low \in Nat /\ n \in Nat
      /\ st <= o /\ old <= o /\ o <= low /\ o + vr <= n /\ o + b <= n
  BY <1>1 DEF Held, Sized
<1>3. /\ valid \in Nat /\ valid <= b - a /\ o + a + valid <= end
      /\ first \in Nat /\ end \in Nat /\ first <= end /\ st <= first
      /\ most \in Nat /\ most <= first /\ o - old = first - most
  <2> HIDE DEF o, old, vr, n
  <2> QED
    BY ONLY <1>2, a \in Nat, b \in Nat, a <= b DEF Earlier, Later
<1>4. Base(f) = first - most
  BY <1>3 DEF Base
<1>5. Selection(f, s, st, a, b, other, first, end, valid, g)
  <2>1. /\ DOMAIN f.meta = MetaFields /\ f.meta.since = st /\ f.origin \in Nat /\ st \in Nat
    BY <1>1, <1>2 DEF IsFrame
  <2>2. /\ first = f.origin + a /\ end = f.origin + b
        /\ valid = Earlier(Later(f.meta.valid - a, 0), b - a)
    OBVIOUS
  <2> HIDE DEF first, end, valid
  <2> QED
    BY <2>1, <2>2, SelectedFields, Zenon
<1> HIDE DEF g
<1>6. ASSUME Recursive(column)
      PROVE  KeptPoint(f, s, st, low, first, end, p) /\ Backed(f, s, st, low)
  <2>1. Backed(f, s, st, low)
    BY <1>6, HeldBacked
  <2>2. low <= end /\ end <= Len(s)
    OBVIOUS
  <2> HIDE DEF first, end
  <2> QED
    BY <1>3, <1>6, <2>1, <2>2, ContinuedPointKept, Zenon
<1>7. ASSUME Recursive(column), st < first
      PROVE  /\ PassedBefore(f.meta, p) \in Nat
             /\ first - PassedBefore(f.meta, p) <= AnchorSpacing
  <2>1. CASE p = NoPoint
    <3>1. first - st <= AnchorSpacing
      BY <1>6, <1>7, <2>1 DEF KeptPoint
    <3> QED
      BY <1>1, <1>2, <2>1, <3>1 DEF PassedBefore
  <2>2. CASE p # NoPoint
    <3>1. first - p.rows <= AnchorSpacing /\ p.rows \in st + 1 .. Len(s)
      BY <1>6, <1>7, <2>2 DEF KeptPoint, Usable, PointOf
    <3>2. PassedBefore(f.meta, p) = p.rows
      BY <2>2 DEF PassedBefore
    <3> HIDE DEF p
    <3>3. p.rows \in Nat
      BY ONLY <3>1, <1>2
    <3> QED
      BY ONLY <3>1, <3>2, <3>3
  <2> QED
    BY <2>1, <2>2
<1>8. /\ g.lead \in Nat /\ g.lead <= most
      /\ other = 0 => g.lead <= LeadBound(column)
  <2> DEFINE want == IF first <= st THEN 0 ELSE back
  <2>1. g.lead = LeadOver(want, other, most)
    BY <1>5 DEF Selection
  <2>2. /\ want \in Nat
        /\ LeadOver(want, 0, most) <= LeadBound(column)
    <3>0. /\ LeadOf(column) \in Nat /\ w \in Nat /\ AnchorSpacing \in Nat
          /\ LeadBound(column) = Later(LeadOf(column), AnchorSpacing + w)
      BY ReachFacts, AnchorSpacingAssumption DEF LeadBound
    <3> HIDE DEF w, p
    <3>1. CASE first <= st
      <4>1. want = 0
        BY <3>1
      <4>2. LeadOver(0, 0, most) = 0
        BY <1>3 DEF LeadOver, Later, Earlier
      <4> QED
        BY ONLY <4>1, <4>2, <3>0 DEF Later
    <3>2. CASE st < first /\ Recursive(column)
      <4> DEFINE rows == PassedBefore(f.meta, p)
      <4>1. rows \in Nat /\ first - rows <= AnchorSpacing
        BY <3>2, <1>7
      <4>2. want = Back(w, first, st, rows)
        BY <3>2, <1>2, <1>3, SMTT(60)
      <4> HIDE DEF rows, first, want
      <4>3. Back(w, first, st, rows) \in Nat
        BY ONLY <4>1, <3>0, <1>2, <1>3, BackType
      <4>4. LeadOver(Back(w, first, st, rows), 0, most) <= AnchorSpacing + w
        <5> HIDE DEF most
        <5> QED
          BY ONLY <4>1, <3>0, <1>2, <1>3, BackBounded
      <4>5. LeadOver(Back(w, first, st, rows), 0, most) \in Nat
        <5> HIDE DEF most
        <5>1. 0 \in Nat
          OBVIOUS
        <5> QED
          BY ONLY <4>3, <5>1, <1>3, LeadOverType
      <4> QED
        BY ONLY <4>2, <4>3, <4>4, <4>5, <3>0 DEF Later
    <3>3. CASE st < first /\ ~Recursive(column)
      <4>1. want = Earlier(LeadOf(column), first - st)
        BY <3>3, <1>2, <1>3, SMTT(60)
      <4> HIDE DEF want, most, first
      <4>2. want \in Nat /\ want <= LeadOf(column)
        <5>1. st < first /\ first \in Nat /\ st \in Nat
          BY <3>3, <1>2, <1>3
        <5> QED
          BY ONLY <4>1, <5>1, <3>0 DEF Earlier
      <4>3. LeadOver(want, 0, most) <= want /\ LeadOver(want, 0, most) \in Nat
        BY ONLY <4>2, <1>3 DEF LeadOver, Later, Earlier
      <4> QED
        BY ONLY <4>2, <4>3, <3>0 DEF Later
    <3> QED
      BY <1>2, <1>3, <3>1, <3>2, <3>3, SMTT(60)
  <2> HIDE DEF want, most
  <2>3. LeadOver(want, other, most) \in Nat /\ LeadOver(want, other, most) <= most
    BY ONLY <2>2, <1>3, LeadOverType, other \in Nat
  <2> QED
    BY <2>1, <2>2, <2>3
<1>9. Sized(g, t, st, to)
  <2>1. g.cells \in Seq(Cells) /\ Len(g.cells) = b - a
    <3>1. b <= Len(f.cells)
      <4> DEFINE len == Len(f.cells)
      <4>1. o + len = n /\ len \in Nat
        BY <1>1
      <4> HIDE DEF o, len, n
      <4>2. b <= len
        BY ONLY <4>1, <1>2, b \in Nat
      <4> QED
        BY <4>2 DEF len
    <3>2. g.cells = [i \in 1 .. (b - a) |-> f.cells[a + i]]
      BY <1>5 DEF Selection
    <3> QED
      BY ONLY <1>1, <3>1, <3>2, SelectedCells, a \in Nat, b \in Nat, a <= b
  <2>2. first + Len(g.cells) = Len(t)
    <3>1. Len(g.cells) = b - a /\ Len(t) = o + b
      BY <2>1
    <3> HIDE DEF o
    <3> QED
      BY ONLY <3>1, <1>2, a \in Nat, b \in Nat
  <2>3. /\ g.origin = first /\ g.meta.since = st /\ g.meta.valid = valid
        /\ g.meta.stateAt = Later(first + valid - 1, 0)
    BY <1>5 DEF Selection
  <2>4. first + valid <= Len(t) /\ Later(first + valid - 1, 0) \in Int
    <3> HIDE DEF valid
    <3> QED
      BY <1>3 DEF Later
  <2>5. g.lead <= first
    <3> DEFINE lead == g.lead
    <3>1. lead \in Nat /\ lead <= most /\ most <= first /\ first \in Nat /\ most \in Nat
      BY <1>3, <1>8
    <3> HIDE DEF lead, most, first
    <3>2. lead <= first
      BY ONLY <3>1
    <3> QED
      BY <3>2 DEF lead
  <2>6. first <= to
    OBVIOUS
  <2> HIDE DEF first, valid, most
  <2> QED
    BY <1>1, <1>2, <1>3, <1>8, <2>1, <2>2, <2>3, <2>4, <2>5, <2>6 DEF Sized
<1>10. RowsHeld(column, t, st, to, g.origin, g.meta.valid, g.cells)
  <2>1. RowsHeld(column, s, st, low, o, vr, f.cells)
    BY DEF Held
  <2> HIDE DEF o, vr
  <2>3. g.cells = [i \in 1 .. (b - a) |-> f.cells[a + i]]
    BY <1>5 DEF Selection
  <2>4. \A i \in 1 .. (b - a) : g.cells[i] = f.cells[a + i]
    BY <2>3
  <2>2. RowsHeld(column, t, st, to, o + a, Earlier(Later(vr - a, 0), b - a), g.cells)
    <3>1. Agree(s, t, o + b) /\ low <= to /\ a <= b
      BY DEF o
    <3>2. o \in Nat /\ vr \in Nat /\ st \in Nat /\ low \in Nat
      BY <1>2
    <3> QED
      BY ONLY <2>1, <2>4, <3>1, <3>2, SelectedRowsHeld, a \in Nat, b \in Nat, to \in Nat,
              column \in Columns
  <2> QED
    BY <1>5, <2>2 DEF Selection
<1>11. ASSUME Recursive(column) PROVE RecursionHeld(w, g, t, st, to)
  <2>0. RecursionHeld(w, f, s, st, low) /\ w \in {0, 1} /\ Base(g) = first - g.lead
    BY <1>11, <1>5, ShortFacts DEF Held, Base, Selection
  <2>1. StatesHeld(w, t, st, g.origin, g.meta.valid, g.meta.state, g.meta.before,
                   g.meta.stateAt)
    <3>1. StatesHeld(w, s, st, f.origin, f.meta.valid, f.meta.state, f.meta.before,
                     f.meta.stateAt)
      BY <2>0 DEF RecursionHeld
    <3>2. st \in Nat /\ f.origin \in Nat /\ f.meta.valid \in Nat /\ Agree(s, t, end)
      BY <1>2
    <3>0. first + valid <= end
      BY <1>3
    <3> HIDE DEF w, first, end, valid
    <3>4. w \in Nat
      BY <2>0
    <3>3. StatesHeld(w, t, st, first, valid,
                     IF own THEN f.meta.state ELSE NoState,
                     IF own /\ valid > 1 THEN f.meta.before ELSE NoState,
                     Later(first + valid - 1, 0))
      BY <3>0, <3>1, <3>2, <3>4, <1>3, SelectedStatesHeld, Zenon
    <3> QED
      BY <1>5, <3>3 DEF Selection
  <2>2. CheckpointHeld(w, t, st, to, Base(g), g.meta.cp)
    <3>1. CheckpointHeld(w, s, st, to,
            first - LeadOver(IF first <= st THEN 0
                             ELSE Back(w, first, st, PassedBefore(f.meta, p)), other, most), p)
      <4>1. low <= to /\ first <= to
        OBVIOUS
      <4> HIDE DEF first, most, end
      <4> QED
        BY <1>3, <1>4, <1>6, <1>11, <4>1, SelectedPointHeld, Zenon
    <3>2. CheckpointHeld(w, s, st, to, Base(g), p)
      <4>1. g.lead = LeadOver(IF first <= st THEN 0
                              ELSE Back(w, first, st, PassedBefore(f.meta, p)), other, most)
        BY <1>5, <1>11 DEF Selection
      <4> HIDE DEF first, most, p, w
      <4> QED
        BY <2>0, <3>1, <4>1
    <3>3. p # NoPoint => p.rows <= end
      BY <1>6, <1>11 DEF KeptPoint
    <3>4. ASSUME p # NoPoint PROVE Usable(w, t, st, Base(g), p) /\ p.rows <= to
      <4>1. Usable(w, s, st, Base(g), p) /\ p.rows <= to
        BY <3>2, <3>4 DEF CheckpointHeld
      <4>2. w \in Nat /\ st \in Nat /\ Agree(s, t, end) /\ p.rows <= end
        BY <1>2, <2>0, <3>3, <3>4, SMTT(60)
      <4> HIDE DEF w, end, p
      <4> QED
        BY <4>1, <4>2, UsableMoved, Zenon
    <3>5. st < Base(g) => p # NoPoint
      BY <3>2 DEF CheckpointHeld
    <3>6. g.meta.cp = p
      BY <1>5 DEF Selection
    <3> HIDE DEF p
    <3> QED
      BY <3>4, <3>5, <3>6 DEF CheckpointHeld
  <2>3. AnchorsHeld(w, t, st, Base(g), g.meta.anchors)
    <3>1. AnchorsHeld(w, s, st, Base(f), m0.anchors)
      <4>1. AnchorsHeld(w, s, st, Base(f), f.meta.anchors)
        BY <2>0 DEF RecursionHeld
      <4>2. CASE BoundaryReplayed(f, first, end)
        <5>1. st < first /\ first <= Len(s) /\ DOMAIN f.meta = MetaFields
          <6>1. first <= Len(s)
            <7>1. end <= n
              OBVIOUS
            <7> HIDE DEF first, end
            <7> QED
              BY ONLY <7>1, <1>2, <1>3
          <6> QED
            BY <1>1, <4>2, <6>1 DEF BoundaryReplayed, IsFrame
        <5>2. AnchorsHeld(w, s, st, Base(f), AnchorsAfter(f, s, first).anchors)
          <6> HIDE DEF first
          <6> QED
            BY <1>3, <1>6, <1>11, <5>1, AnchorsAfterBank, Zenon
        <5> QED
          BY <4>2, <5>2
      <4> QED
        BY <4>1, <4>2
    <3>2. /\ Agree(s, t, end) /\ Len(t) = end /\ first + valid <= end /\ g.lead \in Nat
      BY <1>3, <1>8
    <3> HIDE DEF w, end, first, valid, m0
    <3>3. AnchorsHeld(w, t, st, first - g.lead, g.meta.anchors)
      <4>1. /\ w \in {0, 1} /\ st \in Nat /\ first \in Nat /\ end \in Nat /\ valid \in Nat
            /\ g.lead \in Nat
        BY <1>2, <1>3, <2>0, <3>2
      <4>2. g.meta.anchors =
              [r \in {i \in DOMAIN m0.anchors : first < i /\ i < first + valid} |->
                 m0.anchors[r]]
        BY <1>5 DEF Selection, m0
      <4> DEFINE lead == g.lead  anchors == m0.anchors  base == Base(f)  new == g.meta.anchors
      <4>3. \A r \in DOMAIN new :
              r \in DOMAIN anchors /\ first < r /\ r < first + valid /\ new[r] = anchors[r]
        BY <4>2
      <4>4. /\ AnchorsHeld(w, s, st, base, anchors) /\ lead \in Nat /\ first + valid <= end
            /\ Agree(s, t, end) /\ Len(t) = end
        BY <3>1, <3>2, <4>1
      <4> HIDE DEF lead, anchors, base, new
      <4>5. AnchorsHeld(w, t, st, first - lead, new)
        BY ONLY <4>1, <4>3, <4>4, SelectedAnchorsHeld
      <4> QED
        BY <4>5 DEF lead, new
    <3> QED
      BY <2>0, <3>3 DEF first
  <2>4. PendingHeld(w, t, st, g.meta.pending)
    <3>1. PendingHeld(w, s, st, f.meta.pending)
      BY <2>0 DEF RecursionHeld
    <3>2. CASE Covers(first, end, f.meta.pending)
      <4>1. g.meta.pending = f.meta.pending /\ f.meta.pending.rows <= end
        BY <1>5, <3>2 DEF Selection, Covers
      <4>2. w \in Nat /\ st \in Nat /\ Agree(s, t, end)
        BY <1>2, <2>0, SMTT(60)
      <4> HIDE DEF w, end
      <4>3. PendingHeld(w, t, st, f.meta.pending)
        BY <3>1, <4>1, <4>2, PendingMoved, Zenon
      <4> QED
        BY <4>1, <4>3
    <3>3. CASE ~Covers(first, end, f.meta.pending)
      <4>1. g.meta.pending = NoPoint
        BY <1>5, <3>3 DEF Selection
      <4> QED
        BY <4>1 DEF PendingHeld
    <3> QED
      BY <3>2, <3>3
  <2> QED
    BY <2>1, <2>2, <2>3, <2>4 DEF RecursionHeld
<1>12. ASSUME ~Recursive(column) PROVE WindowHeld(column, g, st)
  <2>1. f.meta.state = NoState /\ f.meta.before = NoState
        /\ Earlier(LeadOf(column), o - st) <= old
    BY <1>12 DEF Held, WindowHeld
  <2>2. g.meta.state = NoState /\ g.meta.before = NoState /\ g.origin = first
    BY <1>5, <2>1 DEF Selection
  <2>3. g.lead = LeadOver(IF first <= st THEN 0 ELSE Earlier(LeadOf(column), first - st),
                          other, most)
    BY <1>5, <1>12 DEF Selection
  <2>4. Earlier(LeadOf(column), first - st)
          <= LeadOver(IF first <= st THEN 0 ELSE Earlier(LeadOf(column), first - st), other, most)
    <3> DEFINE lead == LeadOf(column)
    <3>1. lead \in Nat
      BY ReachFacts
    <3> HIDE DEF lead, o, old
    <3>2. Earlier(lead, o - st) <= old
      BY <2>1 DEF lead
    <3>3. Earlier(lead, first - st)
            <= LeadOver(IF first <= st THEN 0 ELSE Earlier(lead, first - st), other, most)
      BY ONLY <1>2, <3>1, <3>2, a \in Nat, other \in Nat DEF LeadOver, Earlier, Later
    <3> QED
      BY <3>3 DEF lead
  <2> HIDE DEF first, most
  <2> QED
    BY <2>2, <2>3, <2>4 DEF WindowHeld
<1> QED
  BY <1>5, <1>8, <1>9, <1>10, <1>11, <1>12 DEF Held, Selection, g

-----------------------------------------------------------------------------
(* A bounded frame that drops its head.                                    *)

LEMMA CheckpointReplaced ==
  ASSUME NEW f, NEW s, NEW st, NEW low, NEW p, NEW pending, column \in Columns,
         Recursive(column), Held(column, f, s, st, low),
         Usable(Reach[column].resume, s, st, Base(f), p), p.rows <= low,
         pending \in {f.meta.pending, NoPoint}, p # NoPoint
  PROVE  Held(column, [f EXCEPT !.meta = [f.meta EXCEPT !.cp = p, !.pending = pending]],
              s, st, low)
<1> DEFINE meta == [f.meta EXCEPT !.cp = p, !.pending = pending]
           g == [f EXCEPT !.meta = meta]
<1>1. IsFrame(f)
  BY DEF Held
<1>2. /\ DOMAIN meta = MetaFields /\ meta.cp = p /\ meta.pending = pending
      /\ meta.valid = f.meta.valid /\ meta.state = f.meta.state /\ meta.before = f.meta.before
      /\ meta.since = f.meta.since /\ meta.stateAt = f.meta.stateAt
      /\ meta.anchors = f.meta.anchors
  BY <1>1 DEF IsFrame, MetaFields
<1> HIDE DEF meta
<1>3. /\ IsFrame(g) /\ g.origin = f.origin /\ g.lead = f.lead /\ g.cells = f.cells
      /\ g.meta = meta
  BY <1>1, <1>2 DEF IsFrame, FrameFields
<1> HIDE DEF g
<1>4. Base(g) = Base(f)
  BY <1>3 DEF Base
<1>5. Sized(g, s, st, low)
  BY <1>2, <1>3 DEF Held, Sized
<1>6. RowsHeld(column, s, st, low, g.origin, g.meta.valid, g.cells)
  BY <1>2, <1>3 DEF Held
<1>7. RecursionHeld(Reach[column].resume, g, s, st, low)
  <2>1. CheckpointHeld(Reach[column].resume, s, st, low, Base(g), g.meta.cp)
    BY <1>2, <1>3, <1>4 DEF CheckpointHeld
  <2>2. PendingHeld(Reach[column].resume, s, st, g.meta.pending)
    BY <1>2, <1>3 DEF Held, RecursionHeld, PendingHeld
  <2> QED
    BY <1>2, <1>3, <1>4, <2>1, <2>2 DEF Held, RecursionHeld
<1>8. Held(column, g, s, st, low)
  BY <1>3, <1>5, <1>6, <1>7 DEF Held
<1> QED
  BY <1>8 DEF g, meta

(* The point a drop keeps.                                                 *)
LEMMA DropPointIs ==
  ASSUME NEW f, NEW s, NEW st, NEW low, NEW rows \in Nat, NEW to \in Nat, ShortOperands,
         column \in Columns, Recursive(column), Held(column, f, s, st, low),
         st < rows, rows <= Len(s), rows <= to, low <= to,
         f.origin + Reach[column].resume <= rows
  PROVE  /\ Usable(Reach[column].resume, s, st, Base(f), DropPoint(f, s, rows))
         /\ DropPoint(f, s, rows) # NoPoint /\ DropPoint(f, s, rows).rows <= to
<1> DEFINE w == Reach[column].resume  base == Base(f)  p == DropPoint(f, s, rows)
           cp == f.meta.cp
<1>1. Backed(f, s, st, low)
  BY HeldBacked
<1>2. /\ st \in Nat /\ low \in Nat /\ base \in Nat /\ w \in {0, 1} /\ s \in Seq(Nat)
      /\ CheckpointHeld(w, s, st, low, base, cp)
  BY <1>1 DEF Backed
<1>3. base + w <= rows /\ rows \in st + 1 .. Len(s) /\ st <= rows
  <2> DEFINE o == f.origin  lead == f.lead
  <2>1. o \in Nat /\ lead \in Nat /\ base = o - lead /\ o + w <= rows
    BY DEF Held, Sized, Base
  <2>2. Len(s) \in Nat
    BY <1>2
  <2> HIDE DEF o, lead, base, w
  <2> QED
    BY ONLY <2>1, <2>2, <1>2, st < rows, rows <= Len(s), rows \in Nat
<1>4. cp # NoPoint => cp.rows \in Nat
  BY <1>2 DEF CheckpointHeld, Usable, PointOf
<1>5. CASE f.meta.pending.rows = rows
  <2>1. p = f.meta.pending
    BY <1>5 DEF DropPoint
  <2>2. p # NoPoint /\ p.rows = rows
    BY <1>5, <2>1, <1>2 DEF NoPoint
  <2>3. PointOf(w, s, st, p)
    BY <2>1, <2>2 DEF Held, RecursionHeld, PendingHeld
  <2> HIDE DEF p, base, w
  <2> QED
    BY <1>3, <2>2, <2>3 DEF Usable, p, base, w
<1>6. CASE f.meta.pending.rows # rows /\ cp # NoPoint /\ cp.rows >= rows
  <2>1. p = cp
    BY <1>6 DEF DropPoint
  <2>2. Usable(w, s, st, base, cp) /\ cp.rows <= low
    BY <1>2, <1>6 DEF CheckpointHeld
  <2>3. cp.rows <= to
    BY <1>2, <1>4, <1>6, <2>2
  <2> QED
    BY <1>6, <2>1, <2>2, <2>3
<1>7. CASE f.meta.pending.rows # rows /\ ~(cp # NoPoint /\ cp.rows >= rows)
  <2>1. p = CheckpointAt(f, s, rows)
    BY <1>7 DEF DropPoint
  <2>2. st < Base(f) => f.meta.cp.rows <= rows
    <3>1. st < base => cp # NoPoint
      BY <1>2 DEF CheckpointHeld
    <3> QED
      BY <1>4, <1>7, <3>1
  <2>3. Replayable(f, rows)
    BY <1>1, <2>2, CheckpointReplayable, Zenon
  <2>4. CheckpointAt(f, s, rows) = [rows |-> rows, state |-> Hist(column, s, st, rows)]
    BY <1>1, <1>3, <2>3, CheckpointIs, Zenon
  <2>5. p.rows = rows /\ p.state = HistOf(w, s, st, rows)
    BY <2>1, <2>4 DEF Hist
  <2> HIDE DEF p, base, w
  <2>6. p # NoPoint
    BY <1>2, <2>5 DEF NoPoint
  <2> QED
    BY <1>3, <2>5, <2>6 DEF Usable, PointOf, p, base, w
<1> QED
  BY <1>5, <1>6, <1>7

(* The record of a drop, before the rows go.                               *)
Marked(f, s) ==
  LET head  == Len(s) - capacity
      rows  == head + Operands
      moved == Carried /\ f.meta.since < head
      known == IF moved /\ DropReplays(f, rows) THEN AnchorsAfter(f, s, rows) ELSE f.meta
  IN  IF moved
      THEN [known EXCEPT !.cp = DropPoint(f, s, rows),
                         !.pending = IF @.rows = rows THEN NoPoint ELSE @]
      ELSE known

LEMMA CompactedIs ==
  ASSUME NEW f, NEW s
  PROVE  Compacted(f, s) = Selected([f EXCEPT !.meta = Marked(f, s)], s,
                                    Len(s) - capacity - f.origin, Len(s) - f.origin, 0)
BY DEF Compacted, Marked

LEMMA CapacityType == capacity \in Nat /\ bound \in Nat /\ bound = 2 * capacity
                      /\ capacity >= Window + Margin /\ capacity > 0
BY RetainedAssumption DEF capacity, bound, Later

LEMMA MarkedHeld ==
  ASSUME NEW f, NEW s, NEW st, NEW low, NEW to \in Nat, ShortOperands, column \in Columns,
         Held(column, f, s, st, low), low <= to, Reach[column].lookback <= Margin,
         f.origin + capacity <= Len(s), to = Len(s) - Window
  PROVE  Held(column, [f EXCEPT !.meta = Marked(f, s)], s, st, to)
<1> DEFINE head == Len(s) - capacity  rows == head + Operands
           moved == Carried /\ f.meta.since < head
           known == IF moved /\ DropReplays(f, rows) THEN AnchorsAfter(f, s, rows) ELSE f.meta
           n == Len(s)  o == f.origin  w == Reach[column].resume
           g == [f EXCEPT !.meta = known]
           pending == IF known.pending.rows = rows THEN NoPoint ELSE known.pending
           p == DropPoint(f, s, rows)
<1>1. /\ IsFrame(f) /\ s \in Seq(Nat) /\ f.meta.since = st /\ st \in Nat /\ low \in Nat
      /\ o \in Nat
  BY DEF Held, Sized
<1>2. n \in Nat
  BY <1>1
<1>3. CASE ~moved
  <2>1. Marked(f, s) = f.meta
    BY <1>3 DEF Marked
  <2>2. Held(column, f, s, st, to)
    BY LowerHeld, Zenon
  <2>3. Held(column, [f EXCEPT !.meta = f.meta], s, st, to)
    BY <2>2, HeldAsItIs
  <2> QED
    BY <2>1, <2>3
<1>4. CASE moved
  <2>1. Recursive(column) /\ st < head
    BY <1>1, <1>4 DEF Carried
  <2>2. w \in {0, 1} /\ w <= Margin
    <3>1. w <= Reach[column].lookback /\ w \in {0, 1}
      BY <2>1, ShortFacts
    <3>2. Reach[column].lookback \in Nat /\ Margin \in Nat
      BY ReachFacts, RetainedAssumption
    <3> DEFINE lookback == Reach[column].lookback
    <3>3. w <= lookback /\ lookback <= Margin /\ lookback \in Nat
      BY <3>1, <3>2
    <3> HIDE DEF w, lookback
    <3> QED
      BY ONLY <3>1, <3>2, <3>3
  <2>3. rows = head + w
    BY DEF Operands, Resume
  <2>4. rows \in Nat /\ st < rows /\ rows <= n /\ rows <= to /\ o + w <= rows
    <3>1. /\ st < head /\ head = n - capacity /\ o + capacity <= n /\ to = n - Window
          /\ capacity \in Nat /\ capacity >= Window + Margin /\ Window \in Nat /\ Margin \in Nat
          /\ rows = head + w
      BY <2>1, <2>3, CapacityType, RetainedAssumption
    <3> HIDE DEF head, rows, n, o, w
    <3> QED
      BY ONLY <3>1, <2>2, <1>1, <1>2
  <2> HIDE DEF head, rows
  <2>5. Held(column, g, s, st, low)
    <3>1. CASE DropReplays(f, rows)
      <4>1. Held(column, [f EXCEPT !.meta = AnchorsAfter(f, s, rows)], s, st, low)
        BY <2>1, <2>4, AnchorsAfterHeld, Zenon
      <4> QED
        BY <1>4, <3>1, <4>1
    <3>2. CASE ~DropReplays(f, rows)
      <4>1. Held(column, [f EXCEPT !.meta = f.meta], s, st, low)
        BY HeldAsItIs
      <4> QED
        BY <3>2, <4>1
    <3> QED
      BY <3>1, <3>2
  <2>6. Held(column, g, s, st, to)
    BY <2>5, LowerHeld, Zenon
  <2>7. Usable(w, s, st, Base(f), p) /\ p # NoPoint /\ p.rows <= to
    BY <2>1, <2>4, DropPointIs, Zenon
  <2>8. DOMAIN known = MetaFields /\ g.meta = known /\ Base(g) = Base(f)
    <3>1. DOMAIN known = MetaFields
      BY <1>1, AnchorsAfterOnly DEF IsFrame, AnchorsOnly
    <3> HIDE DEF known
    <3> QED
      BY <1>1, <3>1 DEF IsFrame, FrameFields, Base
  <2>9. [g EXCEPT !.meta = [g.meta EXCEPT !.cp = p, !.pending = pending]]
          = [f EXCEPT !.meta = Marked(f, s)]
    <3>1. Marked(f, s) = [known EXCEPT !.cp = p, !.pending = pending]
      <4>1. Marked(f, s) = [known EXCEPT !.cp = p,
                                         !.pending = IF @.rows = rows THEN NoPoint ELSE @]
        BY <1>4 DEF Marked, head, rows
      <4> HIDE DEF known, p
      <4> QED
        BY <4>1, <2>8 DEF MetaFields
    <3> DEFINE marked == [known EXCEPT !.cp = p, !.pending = pending]
    <3>2. [g EXCEPT !.meta = marked] = [f EXCEPT !.meta = marked]
      <4> HIDE DEF marked
      <4> QED
        BY <1>1 DEF IsFrame, FrameFields
    <3> HIDE DEF known
    <3> QED
      BY <2>8, <3>1, <3>2
  <2>10. Held(column, [g EXCEPT !.meta = [g.meta EXCEPT !.cp = p, !.pending = pending]],
              s, st, to)
    <3>1. pending \in {g.meta.pending, NoPoint}
      BY <2>8
    <3>2. Usable(w, s, st, Base(g), p) /\ p # NoPoint /\ p.rows <= to
      BY <2>7, <2>8
    <3> HIDE DEF g, p, pending
    <3> QED
      BY <2>1, <2>6, <3>1, <3>2, CheckpointReplaced, Zenon
  <2> QED
    BY <2>9, <2>10
<1> QED
  BY <1>3, <1>4

LEMMA CompactedHeld ==
  ASSUME NEW f, NEW s, NEW st, NEW low, ShortOperands, column \in Columns,
         Held(column, f, s, st, low), Reach[column].lookback <= Margin,
         f.origin + capacity <= Len(s), low <= Len(s) - Window
  PROVE  /\ Held(column, Compacted(f, s), s, st, Len(s) - Window)
         /\ Compacted(f, s).lead <= LeadBound(column)
         /\ Compacted(f, s).origin = Len(s) - capacity
<1> DEFINE to == Len(s) - Window  g == [f EXCEPT !.meta = Marked(f, s)]
           a == Len(s) - capacity - f.origin  b == Len(s) - f.origin
           n == Len(s)  o == f.origin
<1>1. /\ s \in Seq(Nat) /\ low \in Nat /\ o \in Nat /\ IsFrame(f) /\ o <= low
  BY DEF Held, Sized
<1>2. /\ to \in Nat /\ a \in Nat /\ b \in Nat /\ a <= b /\ o + b = n /\ to <= n /\ o + a <= to
      /\ o + a = n - capacity /\ n \in Nat
  <2>1. /\ n \in Nat /\ to = n - Window /\ a = n - capacity - o /\ b = n - o
        /\ o + capacity <= n /\ capacity \in Nat /\ capacity >= Window + Margin
        /\ Window \in Nat /\ Margin \in Nat
    BY <1>1, CapacityType, RetainedAssumption
  <2> HIDE DEF n, to, a, b, o
  <2> QED
    BY ONLY <2>1, <1>1
<1>3. Held(column, g, s, st, to)
  <2>1. low <= to /\ to = Len(s) - Window
    OBVIOUS
  <2> HIDE DEF to
  <2> QED
    BY <1>2, <2>1, MarkedHeld
<1>4. g.origin = o
  BY <1>1 DEF IsFrame, FrameFields
<1>5. Agree(s, s, g.origin + b) /\ Len(s) = g.origin + b
  <2>1. g.origin + b = n
    BY <1>2, <1>4
  <2> HIDE DEF g, b
  <2> QED
    BY <1>1, <1>2, <2>1 DEF Agree
<1> HIDE DEF g
<1>6. /\ Held(column, Selected(g, s, a, b, 0), s, st, to)
      /\ Selected(g, s, a, b, 0).lead <= LeadBound(column)
  <2>1. /\ g.origin + b <= Len(s) /\ to <= g.origin + b /\ to <= to /\ g.origin + a <= to
    BY <1>2, <1>4
  <2> HIDE DEF to, a, b
  <2>2. 0 \in Nat
    OBVIOUS
  <2> QED
    BY <1>2, <1>3, <1>5, <2>1, <2>2, SelectedHeld
<1>7. Selected(g, s, a, b, 0).origin = o + a
  <2> HIDE DEF a, b, o
  <2> QED
    BY <1>4 DEF Selected
<1>8. Compacted(f, s) = Selected(g, s, a, b, 0)
  BY CompactedIs DEF g
<1> QED
  BY <1>2, <1>6, <1>7, <1>8

-----------------------------------------------------------------------------
(* Rows and states that a refresh writes.                                  *)

LEMMA HistNonEmpty ==
  ASSUME NEW w \in Nat, NEW s \in Seq(Nat), NEW st \in Nat, NEW r \in Nat,
         st < r, r <= Len(s)
  PROVE  HistOf(w, s, st, r) # NoState
<1>1. st <= r /\ r - st # 0
  OBVIOUS
<1>2. Len(HistOf(w, s, st, r)) = r - st
  BY <1>1, HistOfLen
<1>3. Len(NoState) = 0
  BY DEF NoState
<1> QED
  BY ONLY <1>1, <1>2, <1>3

LEMMA OverwriteType ==
  ASSUME NEW cells \in Seq(Cells), NEW from \in Nat, NEW tail,
         \A i \in from + 1 .. Len(cells) : tail[i] \in Cells
  PROVE  /\ Overwrite(cells, from, tail) \in Seq(Cells)
         /\ Len(Overwrite(cells, from, tail)) = Len(cells)
<1> DEFINE n == Len(cells)  new == Overwrite(cells, from, tail)
<1>1. n \in Nat
  OBVIOUS
<1>2. \A i \in 1 .. n : i > from => i \in from + 1 .. n
  BY <1>1
<1>3. \A i \in 1 .. n : (IF i > from THEN tail[i] ELSE cells[i]) \in Cells
  BY <1>2
<1>4. new \in [1 .. n -> Cells]
  BY <1>3 DEF Overwrite
<1> HIDE DEF n, new
<1>5. new \in Seq(Cells)
  BY ONLY <1>1, <1>4, SeqOfFunction
<1>6. Len(new) = n
  BY ONLY <1>1, <1>4, LenOfFunction
<1> QED
  BY <1>5, <1>6 DEF new, n

LEMMA OverwriteHeld ==
  ASSUME NEW c, NEW s, NEW st, NEW low, NEW o \in Nat, NEW old \in Nat, NEW n \in Nat,
         NEW cells, NEW from \in Nat, NEW tail, Len(cells) = n,
         RowsHeld(c, s, st, low, o, old, cells),
         \A i \in 1 .. from : o + i > low => i <= old,
         \A i \in from + 1 .. n : tail[i] = Val(c, s, st, o + i)
  PROVE  RowsHeld(c, s, st, low, o, n, Overwrite(cells, from, tail))
<1> DEFINE new == Overwrite(cells, from, tail)
<1>1. new = [i \in 1 .. n |-> IF i > from THEN tail[i] ELSE cells[i]]
  BY DEF Overwrite
<1>2. ASSUME NEW i \in 1 .. n, o + i > low
      PROVE  new[i] = Val(c, s, st, o + i)
  <2>1. new[i] = IF i > from THEN tail[i] ELSE cells[i]
    BY <1>1
  <2> HIDE DEF new
  <2>2. CASE i > from
    <3>1. i \in from + 1 .. n
      BY <2>2
    <3> QED
      BY ONLY <2>1, <2>2, <3>1, \A j \in from + 1 .. n : tail[j] = Val(c, s, st, o + j)
  <2>3. CASE ~(i > from)
    <3>1. i \in 1 .. from
      BY <2>3
    <3>2. i \in 1 .. old
      BY <1>2, <3>1
    <3> QED
      BY <1>2, <2>1, <2>3, <3>2 DEF RowsHeld
  <2> QED
    BY <2>2, <2>3
<1> QED
  BY <1>2 DEF RowsHeld

(* A frame all of whose rows a refresh made valid.                         *)
LEMMA RefreshedHeld ==
  ASSUME NEW f, NEW g, NEW s, NEW st, NEW low, NEW from \in Nat, NEW tail, NEW n \in Nat,
         column \in Columns, Held(column, f, s, st, low), f.origin + n = Len(s),
         IsFrame(g), g.origin = f.origin, g.lead = f.lead, g.meta.since = st,
         g.meta.cp = f.meta.cp, g.meta.valid = n, g.meta.stateAt \in Int,
         g.cells = Overwrite(f.cells, from, tail),
         \A i \in 1 .. from : f.origin + i > low => i <= f.meta.valid,
         \A i \in from + 1 .. n : tail[i] = Val(column, s, st, f.origin + i),
         ~Recursive(column) => g.meta.state = NoState /\ g.meta.before = NoState,
         Recursive(column) =>
           /\ StatesHeld(Reach[column].resume, s, st, f.origin, n,
                         g.meta.state, g.meta.before, g.meta.stateAt)
           /\ AnchorsHeld(Reach[column].resume, s, st, Base(f), g.meta.anchors)
           /\ PendingHeld(Reach[column].resume, s, st, g.meta.pending)
  PROVE  Held(column, g, s, st, low)
<1> DEFINE o == f.origin  vr == f.meta.valid
<1>1. /\ s \in Seq(Nat) /\ st \in Nat /\ o \in Nat /\ vr \in Nat /\ st <= o
      /\ f.cells \in Seq(Cells) /\ o + Len(f.cells) = Len(s) /\ o + n = Len(s)
      /\ RowsHeld(column, s, st, low, o, vr, f.cells)
  BY DEF Held, Sized
<1>2. Len(f.cells) = n
  <2> DEFINE len == Len(f.cells)
  <2>1. len \in Nat /\ o + len = o + n
    BY <1>1
  <2> HIDE DEF len, o
  <2>2. len = n
    BY ONLY <2>1, <1>1, n \in Nat
  <2> QED
    BY <2>2 DEF len
<1>3. \A i \in from + 1 .. n : tail[i] \in Cells
  <2> TAKE i \in from + 1 .. n
  <2> DEFINE r == o + i
  <2>1. r \in Nat /\ st <= r /\ r <= Len(s) /\ tail[i] = Val(column, s, st, r)
    <3>1. tail[i] = Val(column, s, st, r)
      OBVIOUS
    <3>2. i \in Nat /\ i <= n
      OBVIOUS
    <3>3. st \in Nat /\ o \in Nat /\ st <= o /\ o + n = Len(s)
      BY <1>1
    <3> HIDE DEF o
    <3>4. r \in Nat /\ st <= r /\ r <= Len(s)
      BY ONLY <3>2, <3>3, n \in Nat
    <3> QED
      BY <3>1, <3>4
  <2> HIDE DEF r
  <2> QED
    BY <1>1, <2>1, ValType
<1>4. g.cells \in Seq(Cells) /\ Len(g.cells) = n
  BY ONLY <1>1, <1>2, <1>3, OverwriteType, from \in Nat, g.cells = Overwrite(f.cells, from, tail)
<1>5. RowsHeld(column, s, st, low, g.origin, g.meta.valid, g.cells)
  <2>1. /\ \A i \in 1 .. from : o + i > low => i <= vr
        /\ \A i \in from + 1 .. n : tail[i] = Val(column, s, st, o + i)
    OBVIOUS
  <2>2. o \in Nat /\ vr \in Nat /\ RowsHeld(column, s, st, low, o, vr, f.cells)
    BY <1>1
  <2>3. g.cells = Overwrite(f.cells, from, tail) /\ g.origin = o /\ g.meta.valid = n
    OBVIOUS
  <2> HIDE DEF o, vr
  <2>4. RowsHeld(column, s, st, low, o, n, Overwrite(f.cells, from, tail))
    BY ONLY <1>2, <2>1, <2>2, OverwriteHeld, from \in Nat, n \in Nat
  <2> QED
    BY ONLY <2>3, <2>4
<1>6. Sized(g, s, st, low)
  <2>1. f.origin + g.meta.valid <= Len(s) /\ Len(s) \in Nat
    BY <1>1
  <2>2. g.origin + Len(g.cells) = Len(s)
    BY <1>1, <1>4
  <2> QED
    BY <1>4, <2>1, <2>2 DEF Held, Sized
<1>7. Base(g) = Base(f)
  BY DEF Base
<1>8. ASSUME Recursive(column) PROVE RecursionHeld(Reach[column].resume, g, s, st, low)
  <2>1. CheckpointHeld(Reach[column].resume, s, st, low, Base(f), f.meta.cp)
    BY <1>8 DEF Held, RecursionHeld
  <2> QED
    BY <1>7, <1>8, <2>1 DEF RecursionHeld
<1>9. ASSUME ~Recursive(column) PROVE WindowHeld(column, g, st)
  BY <1>9 DEF Held, WindowHeld
<1> QED
  BY <1>5, <1>6, <1>8, <1>9 DEF Held

LEMMA NotedOnly ==
  ASSUME NEW meta, NEW cells, NEW o, NEW from, NEW end, DOMAIN meta = MetaFields
  PROVE  LET g == NoteWritten(meta, cells, o, from, end) IN
         /\ AnchorsOnly(meta, g) /\ g.anchors = meta.anchors
<1>1. /\ AnchorsOnly(meta, meta)
      /\ \A x : AnchorsOnly(meta, [meta EXCEPT !.first = x])
                /\ [meta EXCEPT !.first = x].anchors = meta.anchors
  BY DEF AnchorsOnly, MetaFields
<1> QED
  BY <1>1 DEF NoteWritten

LEMMA WrittenFields ==
  ASSUME NEW meta, NEW cells, NEW o, NEW from, NEW end, DOMAIN meta = MetaFields
  PROVE  LET g == Written(meta, cells, o, from, end) IN
         /\ DOMAIN g = MetaFields
         /\ g.valid = Later(meta.valid, end)
         /\ g.since = IF from = 0 THEN o ELSE meta.since
         /\ g.state = meta.state /\ g.before = meta.before /\ g.stateAt = meta.stateAt
         /\ g.anchors = meta.anchors /\ g.cp = meta.cp /\ g.pending = meta.pending
<1> DEFINE x == NoteWritten(meta, cells, o, from, end)
           g == Written(meta, cells, o, from, end)
<1>1. AnchorsOnly(meta, x) /\ x.anchors = meta.anchors
  BY NotedOnly
<1>2. g = [x EXCEPT !.valid = Later(meta.valid, end), !.since = IF from = 0 THEN o ELSE @]
  BY DEF Written
<1> HIDE DEF x, g
<1>3. /\ DOMAIN g = MetaFields
      /\ g.valid = Later(meta.valid, end)
      /\ g.since = IF from = 0 THEN o ELSE x.since
      /\ g.state = x.state /\ g.before = x.before /\ g.stateAt = x.stateAt
      /\ g.anchors = x.anchors /\ g.cp = x.cp /\ g.pending = x.pending
  BY <1>1, <1>2 DEF AnchorsOnly, MetaFields
<1> QED
  BY <1>1, <1>3 DEF AnchorsOnly, g

LEMMA WithStatesFields ==
  ASSUME NEW meta, NEW o, NEW state, NEW before, DOMAIN meta = MetaFields
  PROVE  LET g == WithStates(meta, o, state, before)
             at == o + meta.valid - 1
         IN  /\ DOMAIN g = MetaFields
             /\ g.valid = meta.valid /\ g.since = meta.since
             /\ g.state = IF meta.valid > 0 THEN state ELSE NoState
             /\ g.before = IF meta.valid > 0 /\ at > o /\ state # NoState
                           THEN before ELSE NoState
             /\ g.stateAt = IF meta.valid > 0 THEN at ELSE meta.stateAt
             /\ g.anchors = meta.anchors /\ g.cp = meta.cp /\ g.pending = meta.pending
<1>1. CASE meta.valid > 0
  BY <1>1 DEF WithStates, MetaFields
<1>2. CASE ~(meta.valid > 0)
  BY <1>2 DEF WithStates, MetaFields
<1> QED
  BY <1>1, <1>2

-----------------------------------------------------------------------------
(* The refresh, outcome by outcome.                                        *)

(* A stale frame at the place of the one refreshed.                        *)
Stale(f, low) ==
  /\ column \in Columns /\ Held(column, f, series, start, low)
  /\ f.origin = frame.origin /\ f.meta.valid < height

Renewed(f, g, low) ==
  Held(column, g, series, start, low) /\ g.origin = f.origin /\ g.lead = f.lead

LEMMA StaleFacts ==
  ASSUME NEW f, NEW low, Stale(f, low)
  PROVE  /\ series \in Seq(Nat) /\ start \in Nat /\ low \in Nat /\ f.origin \in Nat
         /\ f.lead \in Nat /\ f.meta.valid \in Nat /\ f.meta.stateAt \in Int
         /\ f.meta.since = start /\ start <= f.origin /\ f.lead <= f.origin
         /\ f.origin <= low
         /\ height \in Nat /\ height > 0 /\ f.origin + height = Len(series)
         /\ f.meta.valid < height /\ IsFrame(f)
<1> DEFINE o == f.origin  n == height  len == Len(series)
<1>1. /\ series \in Seq(Nat) /\ start \in Nat /\ low \in Nat /\ o \in Nat
      /\ f.lead \in Nat /\ f.meta.valid \in Nat /\ f.meta.stateAt \in Int
      /\ f.meta.since = start /\ start <= o /\ f.lead <= o /\ o <= low
      /\ IsFrame(f)
  BY DEF Stale, Held, Sized
<1>2. n = len - o /\ f.meta.valid < n
  BY DEF Stale, height, Height
<1>3. len \in Nat /\ o + f.meta.valid <= len
  BY <1>1 DEF Stale, Held, Sized
<1> DEFINE vr == f.meta.valid
<1>4. vr \in Nat /\ vr < n
  BY <1>1, <1>2
<1> HIDE DEF o, n, len, vr
<1>5. n \in Nat /\ n > 0 /\ o + n = len
  BY ONLY <1>1, <1>2, <1>3, <1>4
<1> QED
  BY <1>1, <1>2, <1>5 DEF o, n, len

LEMMA PassedHeld ==
  ASSUME NEW s \in Seq(Nat), NEW st \in Nat, NEW w, NEW base \in Int, NEW bank,
         column \in Columns, w = Reach[column].resume, w \in {0, 1}, base <= st,
         bank \in PassedAnchors(s, st)
  PROVE  AnchorsHeld(w, s, st, base, bank)
<1>1. ASSUME NEW r \in DOMAIN bank
      PROVE  r < Len(s) /\ Usable(w, s, st, base, [rows |-> r, state |-> bank[r]])
  <2>1. bank # NoAnchors
    BY <1>1 DEF NoAnchors
  <2>2. bank = [a \in {i \in st + 1 .. Len(s) - 1 : i % AnchorSpacing = 0} |-> History(s, st, a)]
    BY <2>1 DEF PassedAnchors
  <2>3. r \in st + 1 .. Len(s) - 1 /\ bank[r] = History(s, st, r)
    BY <2>2
  <2>4. Len(s) \in Nat
    OBVIOUS
  <2>5. /\ r \in Nat /\ r < Len(s) /\ r \in st + 1 .. Len(s) /\ st <= r /\ r <= Len(s)
        /\ base + w <= r
    BY ONLY <2>3, <2>4, st \in Nat, base \in Int, w \in {0, 1}, base <= st
  <2>6. History(s, st, r) = Hist(column, s, st, r)
    BY <2>5, HistoryIs
  <2>7. bank[r] = HistOf(w, s, st, r)
    BY <2>3, <2>6 DEF Hist
  <2> QED
    BY <2>5, <2>7 DEF Usable, PointOf
<1> QED
  BY <1>1 DEF AnchorsHeld

LEMMA ResumedOverHeld ==
  ASSUME NEW f, NEW low, NEW base \in Nat, NEW at \in Nat, ShortOperands, Stale(f, low),
         Recursive(column), ResumeReady(f.meta, f.origin), start <= base,
         base = start \/ base + Reach[column].resume <= f.origin + f.meta.valid,
         at # 0 => f.origin + f.meta.valid < at /\ at <= Len(series)
  PROVE  Renewed(f, ResumedOver(f, base, at), low)
<1> DEFINE s == series  st == start  o == f.origin  vr == f.meta.valid  n == height
           done == o + vr  end == o + n  w == Reach[column].resume
           to(r) == Continue(s, base, f.meta.state, done, r)
           tail == [i \in vr + 1 .. n |-> Shown(to(o + i), f.meta.since, o + i)]
           cells == Overwrite(f.cells, vr, tail)
           written == Written(f.meta, cells, o, vr, n)
           pending == IF at # 0 THEN [rows |-> at, state |-> to(at)] ELSE written.pending
           meta == [written EXCEPT !.state = to(end), !.before = to(end - 1),
                                   !.stateAt = end - 1, !.pending = pending]
           g == [f EXCEPT !.cells = cells, !.meta = meta]
<1>1. /\ s \in Seq(Nat) /\ st \in Nat /\ o \in Nat /\ vr \in Nat /\ n \in Nat
      /\ o + n = Len(s) /\ vr < n /\ f.meta.since = st /\ st <= o
      /\ IsFrame(f) /\ column \in Columns /\ vr > 0
      /\ Held(column, f, s, st, low) /\ f.meta.state # NoState
  BY StaleFacts DEF Stale, ResumeReady
<1>2. RecursionHeld(w, f, s, st, low) /\ w \in {0, 1}
  BY <1>1, ShortFacts DEF Held
<1>3. /\ done \in Nat /\ end \in Nat /\ done < end /\ end = Len(s) /\ st < done
      /\ end - 1 \in Nat /\ done <= end - 1 /\ st + w <= done
      /\ base = st \/ base + w <= done
  <2>1. /\ st \in Nat /\ o \in Nat /\ vr \in Nat /\ n \in Nat /\ o + n = Len(s) /\ vr < n
        /\ st <= o /\ vr > 0 /\ w \in {0, 1}
    BY <1>1, <1>2
  <2>2. base = st \/ base + w <= done
    OBVIOUS
  <2>3. done = o + vr /\ end = o + n
    OBVIOUS
  <2> HIDE DEF o, vr, n, w, done, end
  <2> QED
    BY ONLY <2>1, <2>2, <2>3
<1>4. f.meta.state = Hist(column, s, st, done)
  BY <1>1, <1>2 DEF RecursionHeld, StatesHeld, Hist
<1>5. ASSUME NEW r \in Nat, done <= r, r <= end
      PROVE  to(r) = Hist(column, s, st, r)
  <2>1. /\ base = st \/ (base + w <= done /\ st + w <= done)
        /\ st <= done /\ r <= Len(s) /\ done \in Nat
    BY ONLY <1>1, <1>3, <1>5
  <2> HIDE DEF done, s, st
  <2>2. Continue(s, base, Hist(column, s, st, done), done, r) = Hist(column, s, st, r)
    <3>1. /\ s \in Seq(Nat) /\ st \in Nat /\ base \in Nat /\ done \in Nat /\ r \in Nat
          /\ column \in Columns /\ st <= done /\ done <= r /\ r <= Len(s)
      BY ONLY <2>1, <1>1, <1>5, base \in Nat, r \in Nat
    <3>2. \/ base = st
          \/ base + Reach[column].resume <= done /\ st + Reach[column].resume <= done
      BY ONLY <2>1 DEF w
    <3> QED
      BY ONLY <3>1, <3>2, ContinueIs, SMTT(60)
  <2> QED
    BY ONLY <2>2, <1>4
<1> HIDE DEF to
<1>6. \A i \in vr + 1 .. n : tail[i] = Val(column, s, st, o + i)
  <2> TAKE i \in vr + 1 .. n
  <2>1. tail[i] = Shown(to(o + i), f.meta.since, o + i)
    OBVIOUS
  <2>2. o + i \in Nat /\ done <= o + i /\ o + i <= end
    <3>1. i \in vr + 1 .. n /\ done = o + vr /\ end = o + n
      OBVIOUS
    <3> HIDE DEF o, vr, n, done, end
    <3> QED
      BY ONLY <3>1, <1>1
  <2> DEFINE r == o + i
  <2>3. r \in Nat /\ done <= r /\ r <= end
    BY <2>2
  <2> HIDE DEF tail, done, end, r
  <2>4. to(r) = Hist(column, s, st, r)
    BY <1>5, <2>3
  <2>5. Shown(Hist(column, s, st, r), st, r) = Val(column, s, st, r)
    BY ShownIs DEF Carried
  <2> QED
    BY <1>1, <2>1, <2>4, <2>5 DEF r
<1>7. ResumedOver(f, base, at) = g
  <2>1. ResumedOver(f, base, at) =
         [f EXCEPT
           !.cells = cells,
           !.meta  = [written EXCEPT
                        !.state   = to(end),
                        !.before  = to(end - 1),
                        !.stateAt = end - 1,
                        !.pending = IF at # 0 THEN [rows |-> at, state |-> to(at)] ELSE @]]
    BY DEF ResumedOver, to
  <2> HIDE DEF written, cells, end
  <2> QED
    BY <2>1
<1>8. /\ DOMAIN written = MetaFields /\ written.valid = n /\ written.since = st
      /\ written.anchors = f.meta.anchors /\ written.cp = f.meta.cp
      /\ written.pending = f.meta.pending
  <2>1. DOMAIN f.meta = MetaFields
    BY <1>1 DEF IsFrame
  <2>2. Later(vr, n) = n
    <3>1. vr \in Nat /\ n \in Nat /\ vr < n
      BY <1>1
    <3> HIDE DEF vr, n
    <3> QED
      BY ONLY <3>1 DEF Later
  <2> HIDE DEF cells, n
  <2> QED
    BY <1>1, <2>1, <2>2, WrittenFields, SMTT(60)
<1> HIDE DEF written, cells
<1>9. /\ DOMAIN meta = MetaFields /\ meta.valid = n /\ meta.since = st
      /\ meta.anchors = f.meta.anchors /\ meta.cp = f.meta.cp /\ meta.pending = pending
      /\ meta.state = to(end) /\ meta.before = to(end - 1) /\ meta.stateAt = end - 1
  <2> HIDE DEF pending, end, n
  <2> QED
    BY <1>8 DEF MetaFields
<1> HIDE DEF meta
<1>10. /\ IsFrame(g) /\ g.origin = o /\ g.lead = f.lead /\ g.cells = cells /\ g.meta = meta
  BY <1>1, <1>9 DEF IsFrame, FrameFields
<1> HIDE DEF g
<1>11. StatesHeld(w, s, st, o, n, meta.state, meta.before, meta.stateAt)
  <2>1. n > 1 /\ n > 0 /\ end - 1 = o + n - 1
    <3>1. o \in Nat /\ n \in Nat /\ vr \in Nat /\ vr > 0 /\ vr < n
      BY <1>1
    <3>2. end = o + n
      OBVIOUS
    <3> HIDE DEF o, n, vr, end
    <3> QED
      BY ONLY <3>1, <3>2
  <2>2. to(end) = HistOf(w, s, st, o + n) /\ to(end - 1) = HistOf(w, s, st, o + n - 1)
    <3>1. to(end) = Hist(column, s, st, end) /\ to(end - 1) = Hist(column, s, st, end - 1)
      <4> HIDE DEF end, done
      <4>1. end \in Nat /\ done <= end /\ end <= end /\ end - 1 \in Nat /\ end - 1 <= end
        BY <1>3
      <4> QED
        BY <1>3, <1>5, <4>1
    <3>2. to(end) = HistOf(w, s, st, end) /\ to(end - 1) = HistOf(w, s, st, end - 1)
      BY <3>1 DEF Hist
    <3>3. end = o + n
      OBVIOUS
    <3> HIDE DEF end, o, n, w
    <3> QED
      BY ONLY <3>2, <3>3, <2>1
  <2>3. HistOf(w, s, st, o + n) # NoState
    <3>1. end \in Nat /\ end <= Len(s) /\ w \in Nat
      <4>1. w \in Nat
        BY <1>2
      <4> HIDE DEF end, w
      <4> QED
        BY ONLY <4>1, <1>3, <1>1
    <3>2. st < end
      <4> HIDE DEF end, done
      <4> QED
        BY ONLY <1>1, <1>3
    <3>3. HistOf(w, s, st, end) # NoState
      <4> HIDE DEF end, w
      <4> QED
        BY ONLY <1>1, <3>1, <3>2, HistNonEmpty
    <3> QED
      BY <3>3 DEF end
  <2> HIDE DEF end, o, n
  <2> QED
    BY <1>9, <2>1, <2>2, <2>3 DEF StatesHeld
<1>12. AnchorsHeld(w, s, st, Base(f), meta.anchors)
  BY <1>2, <1>9 DEF RecursionHeld
<1>13. PendingHeld(w, s, st, meta.pending)
  <2>1. CASE at = 0
    BY <1>2, <1>8, <1>9, <2>1 DEF RecursionHeld
  <2>2. CASE at # 0
    <3>1. done < at /\ at <= end
      BY <1>3, <2>2
    <3>2. to(at) = HistOf(w, s, st, at)
      BY <1>3, <1>5, <3>1 DEF Hist
    <3>3. at \in st + 1 .. Len(s)
      <4>1. Len(s) \in Nat
        BY <1>1
      <4> HIDE DEF done, end
      <4> QED
        BY ONLY <3>1, <4>1, <1>1, <1>3, at \in Nat
    <3>4. pending.rows = at /\ pending.state = to(at)
      BY <2>2
    <3> HIDE DEF pending
    <3> QED
      BY <1>9, <3>2, <3>3, <3>4 DEF PendingHeld, PointOf
  <2> QED
    BY <2>1, <2>2
<1>14. Held(column, g, s, st, low)
  <2>1. /\ g.origin = f.origin /\ g.lead = f.lead /\ g.meta.since = st /\ g.meta.cp = f.meta.cp
        /\ g.meta.valid = n /\ g.meta.stateAt \in Int /\ g.cells = Overwrite(f.cells, vr, tail)
    BY <1>3, <1>9, <1>10 DEF cells
  <2>2. \A i \in 1 .. vr : f.origin + i > low => i <= f.meta.valid
    OBVIOUS
  <2>3. Recursive(column) =>
          /\ StatesHeld(Reach[column].resume, s, st, f.origin, n,
                        g.meta.state, g.meta.before, g.meta.stateAt)
          /\ AnchorsHeld(Reach[column].resume, s, st, Base(f), g.meta.anchors)
          /\ PendingHeld(Reach[column].resume, s, st, g.meta.pending)
    BY <1>10, <1>11, <1>12, <1>13
  <2>4. /\ vr \in Nat /\ n \in Nat /\ f.origin + n = Len(s) /\ Held(column, f, s, st, low)
        /\ column \in Columns
    BY <1>1
  <2> HIDE DEF tail, n, vr, s, st
  <2>5. IsFrame(g) /\ \A i \in vr + 1 .. n : tail[i] = Val(column, s, st, f.origin + i)
    BY <1>6, <1>10
  <2> QED
    BY <2>1, <2>2, <2>3, <2>4, <2>5, RefreshedHeld, ZenonT(60)
<1> QED
  BY <1>7, <1>10, <1>14 DEF Renewed

(* A continuation of the column over the rows after `from'.                *)
LEMMA ContinueComputedFields ==
  ASSUME NEW f, NEW from, NEW tail, NEW state, NEW before, IsFrame(f)
  PROVE  LET g == ContinueComputed(f, from, tail, state, before) IN
         /\ IsFrame(g) /\ g.origin = f.origin /\ g.lead = f.lead
         /\ g.cells = Overwrite(f.cells, from, tail)
         /\ g.meta.valid = height /\ g.meta.since = f.meta.since
         /\ g.meta.state = state
         /\ g.meta.before = IF height > 1 /\ state # NoState THEN before ELSE NoState
         /\ g.meta.stateAt = f.origin + height - 1
         /\ g.meta.anchors = f.meta.anchors /\ g.meta.cp = f.meta.cp
         /\ g.meta.pending = f.meta.pending
<1> DEFINE cells == Overwrite(f.cells, from, tail)
           noted == NoteWritten(f.meta, cells, f.origin, from, height)
           last  == f.origin + height - 1
           prior == IF height > 1 /\ state # NoState THEN before ELSE NoState
           meta  == [noted EXCEPT !.valid = height, !.stateAt = last,
                                  !.state = state, !.before = prior]
           g     == [f EXCEPT !.cells = cells, !.meta = meta]
<1>1. ContinueComputed(f, from, tail, state, before) = g
  BY DEF ContinueComputed
<1>2. DOMAIN f.meta = MetaFields /\ DOMAIN f = FrameFields
  BY DEF IsFrame
<1>3. AnchorsOnly(f.meta, noted) /\ noted.anchors = f.meta.anchors
  <2> HIDE DEF cells
  <2> QED
    BY <1>2, NotedOnly
<1> HIDE DEF noted, cells, last, prior
<1>4. /\ DOMAIN meta = MetaFields
      /\ meta.valid = height /\ meta.since = f.meta.since /\ meta.state = state
      /\ meta.before = prior /\ meta.stateAt = last /\ meta.anchors = f.meta.anchors
      /\ meta.cp = f.meta.cp /\ meta.pending = f.meta.pending
  <2> HIDE DEF height
  <2> QED
    BY <1>3 DEF AnchorsOnly, MetaFields
<1> HIDE DEF meta
<1>5. IsFrame(g) /\ g.origin = f.origin /\ g.lead = f.lead /\ g.cells = cells /\ g.meta = meta
  BY <1>2, <1>4 DEF IsFrame, FrameFields
<1> HIDE DEF g
<1> QED
  BY <1>1, <1>4, <1>5 DEF cells, last, prior

(* It is held when its rows and states are the history's.                  *)
LEMMA ContinueComputedHeld ==
  ASSUME NEW f, NEW low, NEW from \in Nat, NEW tail, NEW state, NEW before,
         ShortOperands, Stale(f, low),
         \A i \in 1 .. from : f.origin + i > low => i <= f.meta.valid,
         \A i \in from + 1 .. height : tail[i] = Val(column, series, start, f.origin + i),
         Recursive(column) =>
           /\ state = Hist(column, series, start, f.origin + height)
           /\ height > 1 => before = Hist(column, series, start, f.origin + height - 1),
         ~Recursive(column) => state = NoState
  PROVE  Renewed(f, ContinueComputed(f, from, tail, state, before), low)
<1> DEFINE s == series  st == start  o == f.origin  n == height
           g == ContinueComputed(f, from, tail, state, before)
<1>1. /\ IsFrame(f) /\ Held(column, f, s, st, low) /\ column \in Columns /\ f.meta.since = st
      /\ o \in Nat /\ n \in Nat /\ n > 0 /\ o + n = Len(s)
  BY StaleFacts DEF Stale
<1>2. /\ IsFrame(g) /\ g.origin = o /\ g.lead = f.lead
      /\ g.cells = Overwrite(f.cells, from, tail)
      /\ g.meta.valid = n /\ g.meta.since = f.meta.since /\ g.meta.state = state
      /\ g.meta.before = IF n > 1 /\ state # NoState THEN before ELSE NoState
      /\ g.meta.stateAt = o + n - 1
      /\ g.meta.anchors = f.meta.anchors /\ g.meta.cp = f.meta.cp
      /\ g.meta.pending = f.meta.pending
  BY ONLY <1>1, ContinueComputedFields
<1> HIDE DEF g
<1>3. g.meta.stateAt \in Int
  <2> HIDE DEF o, n
  <2> QED
    BY <1>1, <1>2
<1>4. ~Recursive(column) => g.meta.state = NoState /\ g.meta.before = NoState
  BY <1>2
<1>5. Recursive(column) =>
        /\ StatesHeld(Reach[column].resume, s, st, o, n,
                      g.meta.state, g.meta.before, g.meta.stateAt)
        /\ AnchorsHeld(Reach[column].resume, s, st, Base(f), g.meta.anchors)
        /\ PendingHeld(Reach[column].resume, s, st, g.meta.pending)
  <2> HAVE Recursive(column)
  <2>1. RecursionHeld(Reach[column].resume, f, s, st, low)
    BY <1>1 DEF Held
  <2>2. /\ state = HistOf(Reach[column].resume, s, st, o + n)
        /\ n > 1 => before = HistOf(Reach[column].resume, s, st, o + n - 1)
    BY DEF Hist
  <2> HIDE DEF n, o
  <2>3. StatesHeld(Reach[column].resume, s, st, o, n,
                   g.meta.state, g.meta.before, g.meta.stateAt)
    BY <1>1, <1>2, <2>2 DEF StatesHeld
  <2> QED
    BY <1>2, <2>1, <2>3 DEF RecursionHeld
<1>6. g.meta.since = st /\ n \in Nat /\ f.origin + n = Len(s)
  BY <1>1, <1>2
<1>7. Held(column, g, s, st, low)
  <2>1. /\ g.origin = f.origin /\ g.lead = f.lead /\ g.meta.since = st
        /\ g.meta.cp = f.meta.cp /\ g.meta.valid = n /\ g.meta.stateAt \in Int
        /\ g.cells = Overwrite(f.cells, from, tail)
    BY <1>1, <1>2, <1>3
  <2>2. /\ from \in Nat /\ n \in Nat /\ f.origin + n = Len(s) /\ Held(column, f, s, st, low)
        /\ column \in Columns
    BY <1>1
  <2>3. \A i \in 1 .. from : f.origin + i > low => i <= f.meta.valid
    OBVIOUS
  <2>4. \A i \in from + 1 .. n : tail[i] = Val(column, s, st, f.origin + i)
    OBVIOUS
  <2>5. Recursive(column) =>
          /\ StatesHeld(Reach[column].resume, s, st, f.origin, n,
                        g.meta.state, g.meta.before, g.meta.stateAt)
          /\ AnchorsHeld(Reach[column].resume, s, st, Base(f), g.meta.anchors)
          /\ PendingHeld(Reach[column].resume, s, st, g.meta.pending)
    BY <1>5
  <2> HIDE DEF n, s, st, o
  <2>6. IsFrame(g)
    BY <1>2
  <2> QED
    BY ONLY <1>4, <2>1, <2>2, <2>3, <2>4, <2>5, <2>6, RefreshedHeld, ZenonT(30)
<1> QED
  BY <1>2, <1>7 DEF Renewed, g

(* A point of the history may be kept as the one of the next drop.         *)
LEMMA PendingReplaced ==
  ASSUME NEW f, NEW s, NEW st, NEW low, NEW p, Held(column, f, s, st, low),
         Recursive(column) => PendingHeld(Reach[column].resume, s, st, p)
  PROVE  Held(column, [f EXCEPT !.meta = [f.meta EXCEPT !.pending = p]], s, st, low)
<1> DEFINE meta == [f.meta EXCEPT !.pending = p]
           g    == [f EXCEPT !.meta = meta]
<1>1. DOMAIN f.meta = MetaFields /\ DOMAIN f = FrameFields
  BY DEF Held, IsFrame
<1>2. /\ DOMAIN meta = MetaFields /\ meta.pending = p
      /\ meta.valid = f.meta.valid /\ meta.state = f.meta.state /\ meta.before = f.meta.before
      /\ meta.since = f.meta.since /\ meta.stateAt = f.meta.stateAt
      /\ meta.cp = f.meta.cp /\ meta.anchors = f.meta.anchors
  BY <1>1 DEF MetaFields
<1> HIDE DEF meta
<1>3. /\ IsFrame(g) /\ g.origin = f.origin /\ g.lead = f.lead /\ g.cells = f.cells
      /\ g.meta = meta
  BY <1>1, <1>2 DEF IsFrame, FrameFields
<1> HIDE DEF g
<1>4. Base(g) = Base(f)
  BY <1>3 DEF Base
<1>5. Sized(g, s, st, low)
  BY <1>2, <1>3 DEF Held, Sized
<1>6. RowsHeld(column, s, st, low, g.origin, g.meta.valid, g.cells)
  BY <1>2, <1>3 DEF Held
<1>7. Recursive(column) => RecursionHeld(Reach[column].resume, g, s, st, low)
  BY <1>2, <1>3, <1>4 DEF Held, RecursionHeld
<1>8. ~Recursive(column) => WindowHeld(column, g, st)
  BY <1>2, <1>3 DEF Held, WindowHeld
<1> QED
  BY <1>3, <1>5, <1>6, <1>7, <1>8 DEF Held, g, meta

(* The point a replay of the whole frame starts from is one of the         *)
(* history, among the rows before the ones shown.                          *)
LEMMA ReplayStartIs ==
  ASSUME NEW f, NEW low, ShortOperands, Stale(f, low), Recursive(column), start < f.origin,
         Hidden \in Nat, low <= f.origin + Hidden
  PROVE  /\ ReplayStart(f) # NoPoint
         /\ ReplayStart(f).rows \in Nat
         /\ f.origin <= ReplayStart(f).rows /\ ReplayStart(f).rows <= low
         /\ Base(f) + Reach[column].resume <= ReplayStart(f).rows
         /\ start + Reach[column].resume <= ReplayStart(f).rows
         /\ ReplayStart(f).state = Hist(column, series, start, ReplayStart(f).rows)
<1> DEFINE s == series  st == start  o == f.origin  base == Base(f)
           w == Reach[column].resume  cp == f.meta.cp  p == ReplayStart(f)
           vr == f.meta.valid
<1>1. /\ o \in Nat /\ st \in Nat /\ low \in Nat /\ vr \in Nat /\ o <= low /\ s \in Seq(Nat)
      /\ column \in Columns /\ o <= Len(s) /\ base \in Int /\ base <= o
      /\ Held(column, f, s, st, low)
  <2>1. /\ o \in Nat /\ st \in Nat /\ low \in Nat /\ vr \in Nat /\ o <= low /\ s \in Seq(Nat)
        /\ column \in Columns /\ Held(column, f, s, st, low) /\ f.lead \in Nat
        /\ height \in Nat /\ o + height = Len(s)
    BY StaleFacts DEF Stale
  <2>2. base = o - f.lead
    BY DEF Base
  <2> HIDE DEF o, st, vr, s, base
  <2>3. Len(s) \in Nat
    BY <2>1
  <2>4. o <= Len(s)
    <3> DEFINE n == height
    <3>1. n \in Nat /\ o + n = Len(s)
      BY <2>1
    <3> HIDE DEF n
    <3> QED
      BY ONLY <2>1, <2>3, <3>1
  <2> QED
    BY <2>1, <2>2, <2>4
<1>2. Backed(f, s, st, low)
  BY <1>1, HeldBacked
<1>3. w \in {0, 1} /\ CheckpointHeld(w, s, st, low, base, cp)
  BY <1>2 DEF Backed
<1>4. CASE cp # NoPoint /\ cp.rows <= o + Later(vr, Hidden) /\ cp.rows >= o
  <2>1. p = cp
    BY <1>4 DEF ReplayStart
  <2>2. Usable(w, s, st, base, cp) /\ cp.rows <= low
    BY <1>3, <1>4 DEF CheckpointHeld
  <2>3. cp.rows \in st + 1 .. Len(s) /\ cp.state = HistOf(w, s, st, cp.rows) /\ base + w <= cp.rows
    BY <2>2 DEF Usable, PointOf
  <2>4. cp.rows \in Nat /\ st + w <= cp.rows
    <3>1. Len(s) \in Nat
      BY <1>1
    <3> HIDE DEF cp, st, s, w
    <3> QED
      BY <1>1, <1>3, <2>3, <3>1, SMTT(60)
  <2> QED
    BY <1>4, <2>1, <2>2, <2>3, <2>4 DEF Hist
<1>5. CASE ~(cp # NoPoint /\ cp.rows <= o + Later(vr, Hidden) /\ cp.rows >= o)
  <2>1. p = CheckpointAt(f, s, o)
    BY <1>5 DEF ReplayStart
  <2>2. st < base => cp.rows \in Nat /\ cp.rows < o /\ base + w <= cp.rows
    <3> HAVE st < base
    <3>1. cp # NoPoint
      BY <1>3 DEF CheckpointHeld
    <3>2. Usable(w, s, st, base, cp) /\ cp.rows <= low
      BY <1>3, <3>1 DEF CheckpointHeld
    <3>3. cp.rows \in st + 1 .. Len(s) /\ base + w <= cp.rows
      BY <3>2 DEF Usable, PointOf
    <3>4. Len(s) \in Nat
      BY <1>1
    <3> DEFINE h == Hidden  top == Later(vr, h)
    <3>5. top \in Nat /\ h <= top
      <4>1. h \in Nat /\ vr \in Nat
        BY <1>1
      <4> HIDE DEF h, vr
      <4> QED
        BY ONLY <4>1 DEF Later
    <3>6. /\ h \in Nat /\ top \in Nat /\ h <= top /\ low <= o + h
          /\ ~(cp.rows <= o + top /\ cp.rows >= o)
      BY <1>5, <3>1, <3>5
    <3> HIDE DEF cp, st, s, w, o, h, top
    <3> QED
      BY ONLY <1>1, <1>3, <3>2, <3>3, <3>4, <3>6, SMTT(60)
  <2>3. st < Base(f) => f.meta.cp.rows <= o
    BY <1>1, <2>2
  <2>4. Replayable(f, o)
    <3> HIDE DEF o, s, st
    <3> QED
      BY ONLY <1>1, <1>2, <2>3, CheckpointReplayable
  <2>5. CheckpointAt(f, s, o) = [rows |-> o, state |-> Hist(column, s, st, o)]
    <3>1. st <= o
      BY <1>1
    <3> HIDE DEF o, s, st
    <3> QED
      BY ONLY <1>1, <1>2, <2>4, <3>1, CheckpointIs
  <2>6. p.rows = o /\ p.state = Hist(column, s, st, o)
    BY <2>1, <2>5
  <2>7. p # NoPoint
    <3>1. st \in Nat /\ o \in Nat /\ st < o
      BY <1>1
    <3>2. o # 0
      <4> HIDE DEF o, st
      <4> QED
        BY ONLY <3>1
    <3> HIDE DEF p, o
    <3> QED
      BY <2>6, <3>2 DEF NoPoint
  <2>8. base + w <= o /\ st + w <= o
    <3>1. st < o
      OBVIOUS
    <3> HIDE DEF o, st, base, w, cp
    <3> QED
      BY ONLY <3>1, <1>1, <1>3, <2>2
  <2> QED
    BY <1>1, <2>6, <2>7, <2>8
<1> QED
  BY <1>4, <1>5

(* The frame whose anchors a replay added to is still stale, and held.     *)
LEMMA ReplayKnownHeld ==
  ASSUME NEW f, NEW low, ShortOperands, Stale(f, low), Recursive(column), start < f.origin
  PROVE  LET known == [f EXCEPT !.meta = ReplayKnown(f)] IN
         /\ Stale(known, low) /\ known.origin = f.origin /\ known.lead = f.lead
<1> DEFINE known == [f EXCEPT !.meta = ReplayKnown(f)]
<1>1. /\ Held(column, f, series, start, low) /\ column \in Columns /\ IsFrame(f)
      /\ f.origin \in Nat /\ f.origin <= Len(series)
  <2>1. /\ Held(column, f, series, start, low) /\ column \in Columns /\ IsFrame(f)
        /\ f.origin \in Nat /\ height \in Nat /\ f.origin + height = Len(series)
    BY StaleFacts DEF Stale
  <2> DEFINE o == f.origin  n == height
  <2>2. o \in Nat /\ n \in Nat /\ o + n = Len(series)
    BY <2>1
  <2>3. o <= Len(series)
    <3> HIDE DEF o, n
    <3> QED
      BY ONLY <2>2
  <2> QED
    BY <2>1, <2>3
<1>2. AnchorsOnly(f.meta, ReplayKnown(f))
  <2>1. CASE ReplayStart(f) = f.meta.cp
    BY <1>1, <2>1 DEF ReplayKnown, AnchorsOnly, IsFrame
  <2>2. CASE ReplayStart(f) # f.meta.cp
    <3>1. AnchorsOnly(f.meta, AnchorsAfter(f, series, f.origin))
      BY <1>1, AnchorsAfterOnly DEF IsFrame
    <3> QED
      BY <2>2, <3>1 DEF ReplayKnown
  <2> QED
    BY <2>1, <2>2
<1>3. Held(column, known, series, start, low)
  <2>1. CASE ReplayStart(f) = f.meta.cp
    BY <1>1, <2>1, HeldAsItIs DEF ReplayKnown
  <2>2. CASE ReplayStart(f) # f.meta.cp
    BY <1>1, <2>2, AnchorsAfterHeld DEF ReplayKnown
  <2> QED
    BY <2>1, <2>2
<1>4. /\ known.origin = f.origin /\ known.lead = f.lead /\ known.meta = ReplayKnown(f)
  BY <1>1 DEF IsFrame, FrameFields
<1>5. known.meta.valid = f.meta.valid
  BY <1>2, <1>4 DEF AnchorsOnly
<1> HIDE DEF known
<1> QED
  BY <1>3, <1>4, <1>5 DEF Stale, known

(* A replay of the frame brings its column up to date, and never finds its *)
(* history gone.                                                           *)
LEMMA ReplayColumnHeld ==
  ASSUME NEW f, NEW low, NEW at \in Nat, ShortOperands, Stale(f, low), Recursive(column),
         start < f.origin, Hidden \in Nat, low <= f.origin + Hidden, low < Len(series),
         at # 0 => at <= Len(series)
  PROVE  /\ Renewed(f, ReplayColumn(f, at).frame, low)
         /\ ReplayColumn(f, at).answer = "done"
<1> DEFINE s == series  st == start  o == f.origin  n == height  w == Reach[column].resume
           p     == ReplayStart(f)
           base  == Base(f)
           end   == o + n
           to(r) == Continue(s, base, p.state, p.rows, r)
           from  == p.rows - o
           known == [f EXCEPT !.meta = ReplayKnown(f)]
           tail  == [i \in from + 1 .. n |-> Shown(to(o + i), f.meta.since, o + i)]
           g     == ContinueComputed(known, from, tail, to(end), to(end - 1))
           keeps == at # 0 /\ (at > p.rows \/ at = end - 1)
           mark  == IF keeps THEN [rows |-> at, state |-> to(at)] ELSE g.meta.pending
           h     == [g EXCEPT !.meta = [g.meta EXCEPT !.pending = mark]]
<1>1. /\ s \in Seq(Nat) /\ st \in Nat /\ low \in Nat /\ o \in Nat /\ n \in Nat /\ n > 0
      /\ o + n = Len(s) /\ f.meta.since = st /\ column \in Columns /\ st < o
      /\ f.meta.valid \in Nat /\ f.lead \in Nat /\ f.lead <= o /\ low < Len(s)
  BY StaleFacts DEF Stale
<1>2. /\ p # NoPoint /\ p.rows \in Nat /\ o <= p.rows /\ p.rows <= low
      /\ base + w <= p.rows /\ st + w <= p.rows
      /\ p.state = Hist(column, s, st, p.rows)
  BY ReplayStartIs
<1>3. Stale(known, low) /\ known.origin = o /\ known.lead = f.lead
  BY ReplayKnownHeld
<1>4. base \in Nat /\ w \in {0, 1}
  <2>1. base = o - f.lead
    BY DEF Base
  <2>2. w \in {0, 1}
    BY <1>1, ShortFacts
  <2> HIDE DEF base, o
  <2> QED
    BY <1>1, <2>1, <2>2
<1>5. /\ end \in Nat /\ end = Len(s) /\ p.rows < end /\ end - 1 \in Nat /\ p.rows <= end - 1
      /\ from \in Nat /\ from < n
      /\ o + from = p.rows /\ st <= p.rows
  <2> DEFINE rows == p.rows
  <2>1. rows \in Nat /\ o <= rows /\ rows <= low /\ end = o + n /\ from = rows - o
    BY <1>2
  <2> HIDE DEF rows, o, n, end, from, st
  <2>2. /\ end \in Nat /\ end = Len(s) /\ rows < end /\ end - 1 \in Nat /\ rows <= end - 1
        /\ from \in Nat /\ from < n
        /\ o + from = rows /\ st <= rows
    BY ONLY <1>1, <2>1
  <2> QED
    BY ONLY <2>2 DEF rows
<1>6. ASSUME NEW r \in Nat, p.rows <= r, r <= end
      PROVE  to(r) = Hist(column, s, st, r)
  <2>1. st <= p.rows /\ r <= Len(s)
    BY <1>5, <1>6
  <2>2. Continue(s, base, Hist(column, s, st, p.rows), p.rows, r) = Hist(column, s, st, r)
    <3> DEFINE rows == p.rows
    <3>1. rows \in Nat /\ st <= rows /\ rows <= r /\ base + Reach[column].resume <= rows
          /\ st + Reach[column].resume <= rows
      BY <1>2, <1>6, <2>1
    <3> HIDE DEF rows, base
    <3>2. Continue(s, base, Hist(column, s, st, rows), rows, r) = Hist(column, s, st, r)
      BY ONLY <3>1, <1>1, <1>4, <2>1, r \in Nat, ContinueIs
    <3> QED
      BY <3>2 DEF rows
  <2> QED
    BY ONLY <2>2, <1>2
<1>7. \A i \in 1 .. from : known.origin + i > low => i <= known.meta.valid
  <2> TAKE i \in 1 .. from
  <2>1. ~(o + i > low)
    <3> DEFINE rows == p.rows
    <3>1. /\ i \in 1 .. from /\ rows \in Nat /\ o + from = rows /\ rows <= low
          /\ o \in Nat /\ from \in Nat /\ low \in Nat
      BY <1>1, <1>2, <1>5
    <3> HIDE DEF from, o, rows
    <3> QED
      BY ONLY <3>1
  <2>2. known.origin = o
    BY <1>3
  <2> HIDE DEF known, o, from
  <2> QED
    BY <2>1, <2>2
<1>8. \A i \in from + 1 .. n : tail[i] = Val(column, s, st, known.origin + i)
  <2> TAKE i \in from + 1 .. n
  <2>1. tail[i] = Shown(to(o + i), f.meta.since, o + i)
    BY DEF tail
  <2> DEFINE r == o + i
  <2>2. r \in Nat /\ p.rows <= r /\ r <= end
    <3> DEFINE rows == p.rows
    <3>1. /\ end = o + n /\ r = o + i /\ rows \in Nat /\ o \in Nat /\ n \in Nat
          /\ from \in Nat /\ o + from = rows /\ i \in from + 1 .. n
      BY <1>1, <1>2, <1>5
    <3> HIDE DEF o, n, end, from, rows, r
    <3>2. r \in Nat /\ rows <= r /\ r <= end
      BY ONLY <3>1
    <3> QED
      BY <3>2 DEF rows
  <2> HIDE DEF tail, r, to, end
  <2>3. to(r) = Hist(column, s, st, r)
    BY <1>6, <2>2
  <2>4. Shown(Hist(column, s, st, r), st, r) = Val(column, s, st, r)
    BY ShownIs DEF Carried
  <2> QED
    BY <1>1, <1>3, <2>1, <2>3, <2>4 DEF r
<1>9. /\ to(end) = Hist(column, s, st, known.origin + n)
      /\ to(end - 1) = Hist(column, s, st, known.origin + n - 1)
  <2>1. /\ to(end) = Hist(column, s, st, end) /\ to(end - 1) = Hist(column, s, st, end - 1)
    <3> HIDE DEF to, end
    <3>1. end \in Nat /\ p.rows <= end /\ end <= end /\ end - 1 \in Nat /\ end - 1 <= end
      <4> HIDE DEF p
      <4> QED
        BY ONLY <1>2, <1>5
    <3> QED
      BY <1>5, <1>6, <3>1
  <2>2. end = known.origin + n /\ end - 1 = known.origin + n - 1
    <3>1. known.origin = o /\ end = o + n /\ o \in Nat /\ n \in Nat
      BY <1>1, <1>3
    <3> HIDE DEF known, o, n, end
    <3> QED
      BY ONLY <3>1
  <2> HIDE DEF to, end, known
  <2> QED
    BY ONLY <2>1, <2>2
<1> HIDE DEF to
<1>10. Renewed(known, g, low)
  <2>1. from \in Nat
    BY <1>5
  <2> HIDE DEF known, from, tail, end
  <2> QED
    BY ONLY <1>3, <1>7, <1>8, <1>9, <2>1, ShortOperands, Recursive(column),
            ContinueComputedHeld, ZenonT(30)
<1>11. Held(column, h, s, st, low)
  <2>1. Held(column, g, s, st, low)
    BY <1>10 DEF Renewed
  <2>2. Recursive(column) => PendingHeld(w, s, st, mark)
    <3>1. CASE keeps
      <4>1. at \in st + 1 .. Len(s) /\ p.rows <= at /\ at <= end
        <5> DEFINE rows == p.rows
        <5>1. /\ at \in Nat /\ at # 0 /\ (at > rows \/ at = end - 1) /\ at <= Len(s)
              /\ rows \in Nat
          BY <1>2, <3>1
        <5>2. /\ end \in Nat /\ end = Len(s) /\ rows <= end - 1 /\ st <= rows /\ o <= rows
              /\ st < o
          BY <1>1, <1>2, <1>5
        <5> HIDE DEF rows, end, st, s, o
        <5>3. at \in st + 1 .. Len(s) /\ rows <= at /\ at <= end
          BY ONLY <5>1, <5>2, <1>1
        <5> QED
          BY <5>3 DEF rows
      <4>2. to(at) = HistOf(w, s, st, at)
        BY <1>6, <4>1 DEF Hist
      <4>3. mark.rows = at /\ mark.state = to(at)
        BY <3>1
      <4> HIDE DEF mark
      <4> QED
        BY <4>1, <4>2, <4>3 DEF PendingHeld, PointOf
    <3>2. CASE ~keeps
      <4>1. mark = g.meta.pending
        BY <3>2
      <4> HIDE DEF mark, g
      <4> QED
        BY <2>1, <4>1 DEF Held, RecursionHeld
    <3> QED
      BY <3>1, <3>2
  <2> HIDE DEF mark, g
  <2> QED
    BY <2>1, <2>2, PendingReplaced
<1>12. h.origin = f.origin /\ h.lead = f.lead
  <2>1. g.origin = f.origin /\ g.lead = f.lead /\ DOMAIN g = FrameFields
    BY <1>3, <1>10 DEF Renewed, Held, IsFrame
  <2> HIDE DEF g, mark
  <2> QED
    BY <2>1 DEF FrameFields
<1>13. ReplayColumn(f, at) = Done(h)
  <2>1. ~(p = NoPoint \/ p.rows = end)
    <3>1. p.rows \in Nat /\ end \in Nat /\ p.rows < end
      BY <1>2, <1>5
    <3> DEFINE rows == p.rows
    <3>2. rows # end
      <4>1. rows \in Nat /\ end \in Nat /\ rows < end
        BY <3>1
      <4> HIDE DEF rows, end
      <4> QED
        BY ONLY <4>1
    <3> QED
      BY <1>2, <3>2
  <2>2. ReplayColumn(f, at) =
          IF p = NoPoint \/ p.rows = end THEN Lost(known)
          ELSE Done([g EXCEPT !.meta.pending =
                       IF keeps THEN [rows |-> at, state |-> to(at)] ELSE @])
    BY DEF ReplayColumn, to
  <2> HIDE DEF g, known, p, end, keeps
  <2> QED
    BY <2>1, <2>2
<1> HIDE DEF h
<1> QED
  BY <1>11, <1>12, <1>13 DEF Renewed, Done

(* The record of a recursion may be replaced by one that holds other       *)
(* states and points of the same history.                                  *)
LEMMA RecordReplaced ==
  ASSUME NEW f, NEW s, NEW st, NEW low, NEW meta, Held(column, f, s, st, low),
         Recursive(column), DOMAIN meta = MetaFields, meta.valid = f.meta.valid,
         meta.since = f.meta.since, meta.cp = f.meta.cp, meta.stateAt \in Int,
         StatesHeld(Reach[column].resume, s, st, f.origin, f.meta.valid,
                    meta.state, meta.before, meta.stateAt),
         AnchorsHeld(Reach[column].resume, s, st, Base(f), meta.anchors),
         PendingHeld(Reach[column].resume, s, st, meta.pending)
  PROVE  Held(column, [f EXCEPT !.meta = meta], s, st, low)
<1> DEFINE g == [f EXCEPT !.meta = meta]
<1>1. DOMAIN f.meta = MetaFields /\ DOMAIN f = FrameFields
  BY DEF Held, IsFrame
<1>2. /\ IsFrame(g) /\ g.origin = f.origin /\ g.lead = f.lead /\ g.cells = f.cells
      /\ g.meta = meta
  BY <1>1 DEF IsFrame, FrameFields
<1> HIDE DEF g
<1>3. Base(g) = Base(f)
  BY <1>2 DEF Base
<1>4. Sized(g, s, st, low)
  BY <1>2 DEF Held, Sized
<1>5. RowsHeld(column, s, st, low, g.origin, g.meta.valid, g.cells)
  BY <1>2 DEF Held
<1>6. RecursionHeld(Reach[column].resume, g, s, st, low)
  BY <1>2, <1>3 DEF Held, RecursionHeld
<1> QED
  BY <1>2, <1>4, <1>5, <1>6 DEF Held, g

(* The states read back from the points kept are the history's.            *)
LEMMA RestoredHeld ==
  ASSUME NEW f, NEW low, ShortOperands, Stale(f, low), Recursive(column),
         f.meta.valid > 0, Restorable(f, f.origin + f.meta.valid)
  PROVE  LET g == [f EXCEPT !.meta = Restored(f, series)] IN
         /\ Stale(g, low) /\ g.origin = f.origin /\ g.lead = f.lead
         /\ g.meta.valid = f.meta.valid
<1> DEFINE s == series  st == start  o == f.origin  vr == f.meta.valid  n == height
           w == Reach[column].resume  base == Base(f)
           r    == o + vr
           prev == CheckpointAt(f, s, r - 1)
           meta == Restored(f, s)
           g    == [f EXCEPT !.meta = meta]
<1>1. /\ s \in Seq(Nat) /\ st \in Nat /\ low \in Nat /\ o \in Nat /\ vr \in Nat /\ n \in Nat
      /\ o + n = Len(s) /\ vr < n /\ st <= o /\ f.meta.since = st /\ column \in Columns
      /\ IsFrame(f) /\ Held(column, f, s, st, low) /\ vr > 0
  BY StaleFacts DEF Stale
<1>2. Backed(f, s, st, low) /\ w \in {0, 1} /\ base \in Nat
  BY <1>1, HeldBacked DEF Backed
<1>3. base <= o
  <2>1. base = o - f.lead /\ f.lead \in Nat
    BY StaleFacts DEF Base
  <2> HIDE DEF base, o
  <2> QED
    BY <1>1, <1>2, <2>1
<1>4. /\ r \in Nat /\ r - 1 \in Nat /\ st < r /\ r <= Len(s) /\ st <= r - 1 /\ r - 1 <= Len(s)
      /\ r - 1 = o + vr - 1 /\ r = o + vr
      /\ vr > 1 => st < r - 1 /\ st + w <= r - 1 /\ base + w <= r - 1 /\ r - 1 > o - 1
      /\ vr > 1 => r - 1 > o
  <2>1. r = o + vr
    OBVIOUS
  <2> HIDE DEF r, o, vr, n, s, st, w, base
  <2> QED
    BY ONLY <1>1, <1>2, <1>3, <2>1
<1>5. DOMAIN f.meta = MetaFields /\ DOMAIN f = FrameFields
  BY <1>1 DEF IsFrame
<1>6. CASE vr > 1 /\ prev # NoPoint
  <2> DEFINE known == AnchorsAfter(f, s, r - 1)
             state == Continue(s, base, prev.state, r - 1, r)
             q     == r - 1
  <2>1. meta = WithStates(known, o, state, prev.state)
    BY <1>6 DEF Restored
  <2>2. q \in Nat /\ st <= q /\ st < q /\ q <= Len(s) /\ q <= r /\ r \in Nat /\ r <= Len(s)
    <3>1. vr > 1
      BY <1>6
    <3> HIDE DEF r, vr, s, st
    <3> QED
      BY ONLY <1>4, <3>1 DEF q
  <2>3. Replayable(f, q)
    BY <1>6 DEF CheckpointAt
  <2>4. CheckpointAt(f, s, q) = [rows |-> q, state |-> Hist(column, s, st, q)]
    <3> HIDE DEF q, s, st
    <3> QED
      BY ONLY <1>2, <2>2, <2>3, CheckpointIs
  <2>5. prev.state = Hist(column, s, st, q)
    BY <2>4
  <2>6. state = Hist(column, s, st, r)
    <3>1. base + Reach[column].resume <= q /\ st + Reach[column].resume <= q
      BY <1>4, <1>6
    <3> HIDE DEF q, r, base, s, st
    <3>2. Continue(s, base, Hist(column, s, st, q), q, r) = Hist(column, s, st, r)
      BY ONLY <1>1, <1>2, <2>2, <3>1, ContinueIs
    <3> QED
      BY <2>5, <3>2 DEF q
  <2>7. AnchorsOnly(f.meta, known) /\ AnchorsHeld(w, s, st, base, known.anchors)
    <3>1. AnchorsOnly(f.meta, AnchorsAfter(f, s, q))
      BY <1>5, AnchorsAfterOnly
    <3> HIDE DEF q, s, st
    <3>2. AnchorsHeld(Reach[column].resume, s, st, Base(f), AnchorsAfter(f, s, q).anchors)
      BY ONLY <1>2, <1>5, <2>2, AnchorsAfterBank
    <3> QED
      BY <3>1, <3>2 DEF q, s, st
  <2> HIDE DEF known, state, prev
  <2>8. /\ DOMAIN meta = MetaFields /\ meta.valid = vr /\ meta.since = st
        /\ meta.state = state
        /\ meta.before \in {prev.state, NoState}
        /\ meta.stateAt = o + vr - 1
        /\ meta.anchors = known.anchors /\ meta.cp = f.meta.cp /\ meta.pending = f.meta.pending
    <3>1. DOMAIN known = MetaFields /\ known.valid = vr /\ known.since = st
          /\ known.cp = f.meta.cp /\ known.pending = f.meta.pending
      BY <1>1, <2>7 DEF AnchorsOnly
    <3> HIDE DEF o, vr, meta
    <3> QED
      BY <1>1, <2>1, <3>1, WithStatesFields, SMTT(60)
  <2>9. StatesHeld(w, s, st, o, vr, meta.state, meta.before, meta.stateAt)
    <3>1. state = HistOf(w, s, st, o + vr) /\ prev.state = HistOf(w, s, st, o + vr - 1)
      <4>1. state = HistOf(w, s, st, r) /\ prev.state = HistOf(w, s, st, r - 1)
        BY <2>5, <2>6 DEF Hist
      <4> HIDE DEF r
      <4> QED
        BY <1>4, <4>1
    <3>2. state # NoState
      <4> HIDE DEF r, s, st, w
      <4>1. HistOf(w, s, st, r) # NoState
        BY ONLY <1>1, <1>2, <1>4, HistNonEmpty
      <4> QED
        BY <2>6, <4>1 DEF Hist, w
    <3>3. vr > 1 /\ vr > 0
      BY <1>6
    <3> HIDE DEF o, vr, meta
    <3> QED
      BY <2>8, <3>1, <3>2, <3>3 DEF StatesHeld
  <2>10. meta.stateAt \in Int
    <3> HIDE DEF o, vr, meta
    <3> QED
      BY <1>1, <2>8
  <2>11. PendingHeld(w, s, st, meta.pending)
    BY <1>1, <2>8 DEF Held, RecursionHeld
  <2> HIDE DEF meta
  <2>12. Held(column, g, s, st, low)
    BY <1>1, <2>7, <2>8, <2>9, <2>10, <2>11, RecordReplaced
  <2>13. g.origin = f.origin /\ g.lead = f.lead /\ g.meta.valid = vr
    BY <1>5, <2>8 DEF FrameFields
  <2> HIDE DEF g
  <2> QED
    BY <1>1, <2>12, <2>13 DEF Stale, g, meta
<1>7. CASE ~(vr > 1 /\ prev # NoPoint)
  <2> DEFINE known == AnchorsAfter(f, s, r)
             point == CheckpointAt(f, s, r)
  <2>1. meta = WithStates(known, o, point.state, NoState)
    BY <1>7 DEF Restored
  <2>2. r \in Nat /\ st <= r /\ st < r /\ r <= Len(s)
    <3> HIDE DEF r, s, st
    <3> QED
      BY ONLY <1>1, <1>4
  <2>3. Replayable(f, r)
    BY DEF Restorable
  <2>4. CheckpointAt(f, s, r) = [rows |-> r, state |-> Hist(column, s, st, r)]
    <3> HIDE DEF r, s, st
    <3> QED
      BY ONLY <1>2, <2>2, <2>3, CheckpointIs
  <2>5. point.state = Hist(column, s, st, r)
    BY <2>4
  <2>6. AnchorsOnly(f.meta, known) /\ AnchorsHeld(w, s, st, base, known.anchors)
    <3>1. AnchorsOnly(f.meta, AnchorsAfter(f, s, r))
      BY <1>5, AnchorsAfterOnly
    <3> HIDE DEF r, s, st
    <3>2. AnchorsHeld(Reach[column].resume, s, st, Base(f), AnchorsAfter(f, s, r).anchors)
      BY ONLY <1>2, <1>5, <2>2, AnchorsAfterBank
    <3> QED
      BY <3>1, <3>2 DEF r, s, st
  <2> HIDE DEF known, point
  <2>7. /\ DOMAIN meta = MetaFields /\ meta.valid = vr /\ meta.since = st
        /\ meta.state = point.state /\ meta.before = NoState
        /\ meta.stateAt = o + vr - 1
        /\ meta.anchors = known.anchors /\ meta.cp = f.meta.cp /\ meta.pending = f.meta.pending
    <3>1. DOMAIN known = MetaFields /\ known.valid = vr /\ known.since = st
          /\ known.cp = f.meta.cp /\ known.pending = f.meta.pending
      BY <1>1, <2>6 DEF AnchorsOnly
    <3> HIDE DEF o, vr, meta
    <3> QED
      BY <1>1, <2>1, <3>1, WithStatesFields
  <2>8. StatesHeld(w, s, st, o, vr, meta.state, meta.before, meta.stateAt)
    <3>1. point.state = HistOf(w, s, st, o + vr)
      BY <2>5 DEF Hist
    <3> HIDE DEF o, vr, meta
    <3> QED
      BY <1>1, <2>7, <3>1 DEF StatesHeld
  <2>9. meta.stateAt \in Int
    <3> HIDE DEF o, vr, meta
    <3> QED
      BY <1>1, <2>7
  <2>10. PendingHeld(w, s, st, meta.pending)
    BY <1>1, <2>7 DEF Held, RecursionHeld
  <2> HIDE DEF meta
  <2>11. Held(column, g, s, st, low)
    BY <1>1, <2>6, <2>7, <2>8, <2>9, <2>10, RecordReplaced
  <2>12. g.origin = f.origin /\ g.lead = f.lead /\ g.meta.valid = vr
    BY <1>5, <2>7 DEF FrameFields
  <2> HIDE DEF g
  <2> QED
    BY <1>1, <2>11, <2>12 DEF Stale, g, meta
<1> QED
  BY <1>6, <1>7

(* A computation over the rows after `base' gives the values of the whole  *)
(* series: `base' is where the history starts, or a window's reach is past.*)
LEMMA ComputedRowsExact ==
  ASSUME NEW f, NEW low, NEW from \in Nat, NEW base \in Nat, Stale(f, low),
         \/ base = start
         \/ /\ ~Recursive(column) /\ start <= base
            /\ base + Reach[column].lookback <= f.origin + from
  PROVE  \A i \in from + 1 .. height :
           ComputedRows(f, base)[i] = Val(column, series, start, f.origin + i)
<1> DEFINE s == series  st == start  o == f.origin  n == height
<1>1. /\ s \in Seq(Nat) /\ st \in Nat /\ o \in Nat /\ n \in Nat /\ o + n = Len(s)
      /\ st <= o /\ column \in Columns /\ Reach[column].lookback \in Nat
  BY StaleFacts, ReachFacts DEF Stale
<1> TAKE i \in from + 1 .. n
<1> DEFINE r == o + i
<1>2. i \in 1 .. n
  <2> HIDE DEF n
  <2> QED
    BY ONLY <1>1, from \in Nat, i \in from + 1 .. n
<1>3. ComputedRows(f, base)[i] = ValueOver(s, base, r)
  BY <1>2 DEF ComputedRows
<1>4. r \in Nat /\ st <= r /\ r <= Len(s) /\ o + from < r
  <2>1. r = o + i
    OBVIOUS
  <2> HIDE DEF n, o, r, s, st
  <2> QED
    BY ONLY <1>1, <2>1, from \in Nat, i \in from + 1 .. n, SMTT(60)
<1>5. CASE base = start
  <2>1. ValueOver(s, st, r) = Val(column, s, st, r)
    <3> HIDE DEF s, st, r
    <3> QED
      BY ONLY <1>1, <1>4, ValueIs
  <2> QED
    BY <1>3, <1>5, <2>1
<1>6. CASE ~Recursive(column) /\ start <= base /\ base + Reach[column].lookback <= o + from
  <2>1. ValueOver(s, base, r) = Computed(column, s, base, r)
    BY <1>6 DEF ValueOver, Carried
  <2>2. base + Reach[column].lookback < r
    <3> DEFINE back == Reach[column].lookback
    <3>1. back \in Nat /\ base + back <= o + from
      BY <1>1, <1>6
    <3> HIDE DEF back, o, r
    <3>2. base + back < r
      BY ONLY <1>1, <1>4, <3>1, base \in Nat, from \in Nat
    <3> QED
      BY <3>2 DEF back
  <2>3. Computed(column, s, base, r) = Val(column, s, st, r)
    <3>1. ~Recursive(column) /\ st <= base
      BY <1>6
    <3> HIDE DEF s, st, r
    <3> QED
      BY ONLY <1>1, <1>4, <2>2, <3>1, base \in Nat, ValOfPart
  <2> QED
    BY <1>3, <2>1, <2>3
<1> QED
  BY <1>5, <1>6

(* Rows of a window written again are held.                                *)
LEMMA WindowRewritten ==
  ASSUME NEW f, NEW g, NEW low, NEW from \in Nat, NEW base \in Nat, Stale(f, low),
         ~Recursive(column), from <= f.meta.valid,
         \/ base = start
         \/ start <= base /\ base + Reach[column].lookback <= f.origin + from,
         IsFrame(g), g.origin = f.origin, g.lead = f.lead,
         g.cells = Overwrite(f.cells, from, ComputedRows(f, base)),
         g.meta.since = start, g.meta.cp = f.meta.cp, g.meta.valid = height,
         g.meta.stateAt \in Int, g.meta.state = NoState, g.meta.before = NoState
  PROVE  Renewed(f, g, low)
<1> DEFINE s == series  st == start  n == height  tail == ComputedRows(f, base)
<1>1. /\ Held(column, f, s, st, low) /\ n \in Nat /\ f.origin + n = Len(s)
      /\ f.meta.valid \in Nat /\ column \in Columns
  BY StaleFacts DEF Stale
<1>2. \A i \in from + 1 .. n : tail[i] = Val(column, s, st, f.origin + i)
  BY ComputedRowsExact
<1>3. \A i \in 1 .. from : f.origin + i > low => i <= f.meta.valid
  <2> TAKE i \in 1 .. from
  <2> DEFINE vr == f.meta.valid
  <2>1. vr \in Nat /\ from <= vr
    BY <1>1
  <2> HIDE DEF vr
  <2>2. i <= vr
    BY ONLY <2>1, from \in Nat, i \in 1 .. from
  <2> QED
    BY <2>2 DEF vr
<1>4. /\ g.meta.since = st /\ g.meta.valid = n
      /\ g.cells = Overwrite(f.cells, from, tail)
  OBVIOUS
<1>5. /\ ~Recursive(column) => g.meta.state = NoState /\ g.meta.before = NoState
      /\ from \in Nat
      /\ IsFrame(g) /\ g.origin = f.origin /\ g.lead = f.lead /\ g.meta.cp = f.meta.cp
      /\ g.meta.stateAt \in Int
  OBVIOUS
<1> HIDE DEF tail, n, s, st
<1>6. Held(column, g, s, st, low)
  BY ONLY <1>1, <1>2, <1>3, <1>4, <1>5, ~Recursive(column), RefreshedHeld, ZenonT(30)
<1> QED
  BY <1>5, <1>6 DEF Renewed, s, st

(* The rows after `from' written again by a computation over those after   *)
(* `base', and what is left of the record.                                 *)
WroteOver(f, from, base) ==
  LET cells == Overwrite(f.cells, from, ComputedRows(f, base))
  IN  [f EXCEPT !.cells = cells,
                !.meta  = Written(f.meta, cells, f.origin, from, height)]

Wrote(f, from, base, g) ==
  /\ IsFrame(g) /\ g.origin = f.origin /\ g.lead = f.lead
  /\ g.cells = Overwrite(f.cells, from, ComputedRows(f, base))
  /\ g.meta.since = start /\ g.meta.valid = height /\ g.meta.cp = f.meta.cp
  /\ g.meta.anchors = f.meta.anchors /\ g.meta.pending = f.meta.pending
  /\ g.meta.state = f.meta.state /\ g.meta.before = f.meta.before
  /\ g.meta.stateAt = f.meta.stateAt

LEMMA WroteFields ==
  ASSUME NEW f, NEW low, NEW from \in Nat, NEW base, Stale(f, low),
         from # 0 \/ f.origin = start
  PROVE  Wrote(f, from, base, WroteOver(f, from, base))
<1> DEFINE cells == Overwrite(f.cells, from, ComputedRows(f, base))
           meta  == Written(f.meta, cells, f.origin, from, height)
           g     == [f EXCEPT !.cells = cells, !.meta = meta]
           vr    == f.meta.valid
           n     == height
<1>1. /\ IsFrame(f) /\ DOMAIN f.meta = MetaFields /\ DOMAIN f = FrameFields
      /\ vr \in Nat /\ n \in Nat /\ vr < n /\ f.meta.since = start
  BY StaleFacts DEF IsFrame
<1>2. Later(vr, n) = n
  <2> HIDE DEF vr, n
  <2> QED
    BY ONLY <1>1 DEF Later
<1> HIDE DEF cells, n
<1>3. /\ DOMAIN meta = MetaFields /\ meta.valid = n /\ meta.since = start
      /\ meta.cp = f.meta.cp /\ meta.anchors = f.meta.anchors
      /\ meta.pending = f.meta.pending /\ meta.state = f.meta.state
      /\ meta.before = f.meta.before /\ meta.stateAt = f.meta.stateAt
  BY <1>1, <1>2, WrittenFields DEF n
<1> HIDE DEF meta
<1>4. IsFrame(g) /\ g.origin = f.origin /\ g.lead = f.lead /\ g.cells = cells /\ g.meta = meta
  BY <1>1, <1>3 DEF IsFrame, FrameFields
<1>5. WroteOver(f, from, base) = g
  BY DEF WroteOver, cells, meta, g, n
<1> QED
  BY <1>3, <1>4, <1>5 DEF Wrote, cells, n

(* The row whose checkpoint the next drop keeps is one of the rows after   *)
(* `from'.                                                                 *)
LEMMA PendingRowFacts ==
  ASSUME NEW f, NEW low, NEW from \in Nat, Stale(f, low)
  PROVE  /\ PendingRow(f, from) \in Nat
         /\ PendingRow(f, from) # 0 =>
              f.origin + from < PendingRow(f, from) /\ PendingRow(f, from) <= Len(series)
<1> DEFINE o == f.origin  n == height  q == Operands  cap == capacity
           row == cap - 1 + q  at == o + row + 1
           p == PendingRow(f, from)
<1>1. /\ o \in Nat /\ n \in Nat /\ o + n = Len(series) /\ q \in Nat /\ cap \in Nat /\ cap > 0
  BY StaleFacts, ReachFacts, CapacityType DEF Stale, Operands, Resume
<1>2. (p = at /\ from <= row /\ row < n) \/ p = 0
  BY DEF PendingRow
<1>3. row \in Nat /\ at \in Nat /\ (from <= row /\ row < n => o + from < at /\ at <= o + n)
  <2> HIDE DEF o, n, q, cap
  <2> QED
    BY ONLY <1>1, from \in Nat
<1> HIDE DEF p, at, row, o, n
<1>4. p \in Nat /\ (p # 0 => o + from < p /\ p <= Len(series))
  BY ONLY <1>1, <1>2, <1>3
<1> QED
  BY <1>4 DEF p, o

(* Nothing of a window is read before the rows held, or all of it is.      *)
Enough(f) == Recursive(column) \/ f.origin = start \/ LeadOf(column) <= f.meta.valid

(* Where a recomputation starts from.                                      *)
LEMMA WarmRows ==
  ASSUME NEW f, NEW low, Stale(f, low), ~Recursive(column), Enough(f)
  PROVE  LET from == IF WarmFrame(f) THEN f.meta.valid ELSE 0 IN
         /\ from \in Nat /\ from <= f.meta.valid
         /\ from # 0 \/ f.origin = start
         /\ \/ f.origin = start
            \/ start <= f.origin /\ f.origin + Reach[column].lookback <= f.origin + from
<1> DEFINE o == f.origin  vr == f.meta.valid  st == start  back == Reach[column].lookback
           lead == LeadOf(column)
<1>1. /\ o \in Nat /\ vr \in Nat /\ st \in Nat /\ st <= o /\ f.meta.since = st
      /\ back \in Nat /\ lead \in Nat /\ lead > back
  BY StaleFacts, ReachFacts DEF Stale
<1>2. o = st \/ lead <= vr
  BY DEF Enough
<1>3. CASE o = st
  BY <1>1, <1>3
<1>4. CASE lead <= vr
  <2>1. WarmFrame(f) <=> o + vr >= st + back
    BY <1>1 DEF WarmFrame, Warm
  <2>2. o + vr >= st + back /\ vr \in Nat /\ vr # 0 /\ o + back <= o + vr
    <3> HIDE DEF o, vr, st, back, lead
    <3> QED
      BY ONLY <1>1, <1>4
  <2> QED
    BY <1>1, <2>1, <2>2
<1> QED
  BY <1>2, <1>3, <1>4

(* A recursion whose rows are all held is computed again, its states and   *)
(* its anchors with it.                                                    *)
LEMMA RecursionRecomputed ==
  ASSUME NEW f, NEW g, NEW low, NEW from \in Nat, NEW bank, ShortOperands, Stale(f, low),
         Recursive(column), f.origin = start, bank \in PassedAnchors(series, start),
         from = f.meta.valid \/ from = 0,
         IsFrame(g), g.origin = f.origin, g.lead = f.lead,
         g.cells = Overwrite(f.cells, from, ComputedRows(f, start)),
         g.meta.since = start, g.meta.valid = height, g.meta.cp = f.meta.cp,
         g.meta.anchors = f.meta.anchors, g.meta.pending = f.meta.pending
  PROVE  LET end == f.origin + height
             h   == WithStates(g.meta, f.origin, StateOver(f.origin, end),
                               StateOver(f.origin, end - 1))
         IN  Renewed(f, [g EXCEPT !.meta = KeepAnchors(h, bank)], low)
<1> DEFINE s == series  st == start  o == f.origin  n == height  w == Reach[column].resume
           tail == ComputedRows(f, start)
           end  == o + n
           last == StateOver(o, end)
           prior == StateOver(o, end - 1)
           h    == WithStates(g.meta, o, last, prior)
           meta == KeepAnchors(h, bank)
           k    == [g EXCEPT !.meta = meta]
<1>1. /\ s \in Seq(Nat) /\ st \in Nat /\ o \in Nat /\ n \in Nat /\ n > 0 /\ o + n = Len(s)
      /\ column \in Columns /\ Held(column, f, s, st, low) /\ f.meta.valid \in Nat /\ o = st
      /\ f.lead \in Nat /\ f.meta.since = st
  BY StaleFacts DEF Stale
<1>2. w \in {0, 1} /\ Base(f) \in Int /\ Base(f) <= st
  <2>1. w \in {0, 1}
    BY <1>1, ShortFacts
  <2>2. Base(f) = o - f.lead
    BY DEF Base
  <2> HIDE DEF o, st, w
  <2> QED
    BY <1>1, <2>1, <2>2
<1>3. /\ end \in Nat /\ end = Len(s) /\ end - 1 \in Nat /\ st <= end - 1 /\ st <= end
      /\ end - 1 <= Len(s) /\ end - 1 = o + n - 1 /\ end = o + n
      /\ end - 1 > o <=> n > 1
  <2>1. end = o + n
    OBVIOUS
  <2> HIDE DEF end, o, n, s, st
  <2> QED
    BY ONLY <1>1, <2>1
<1>4. last = Hist(column, s, st, end) /\ prior = Hist(column, s, st, end - 1)
  <2>1. /\ History(s, st, end) = Hist(column, s, st, end)
        /\ History(s, st, end - 1) = Hist(column, s, st, end - 1)
    <3> DEFINE q == end - 1
    <3>1. /\ s \in Seq(Nat) /\ st \in Nat /\ column \in Columns
          /\ end \in Nat /\ st <= end /\ end <= Len(s)
          /\ q \in Nat /\ st <= q /\ q <= Len(s)
      BY <1>1, <1>3
    <3> HIDE DEF end, q, s, st
    <3>2. History(s, st, end) = Hist(column, s, st, end)
      BY ONLY <3>1, HistoryIs, Zenon
    <3>3. History(s, st, q) = Hist(column, s, st, q)
      BY ONLY <3>1, HistoryIs, Zenon
    <3> QED
      BY <3>2, <3>3 DEF q
  <2>2. last = History(s, st, end) /\ prior = History(s, st, end - 1)
    <3> HIDE DEF end
    <3> QED
      BY <1>1 DEF StateOver, Carried
  <2> QED
    BY <2>1, <2>2
<1>5. DOMAIN g.meta = MetaFields /\ DOMAIN g = FrameFields
  BY DEF IsFrame
<1> HIDE DEF last, prior
<1>6. /\ DOMAIN h = MetaFields /\ h.valid = n /\ h.since = st /\ h.cp = f.meta.cp
      /\ h.state = last /\ h.stateAt = o + n - 1
      /\ h.before = IF n > 1 /\ last # NoState THEN prior ELSE NoState
      /\ h.anchors = f.meta.anchors /\ h.pending = f.meta.pending
  <2>1. g.meta.valid = n /\ n > 0 /\ n \in Nat /\ o \in Nat
    BY <1>1
  <2>2. o + n - 1 > o <=> n > 1
    BY ONLY <2>1
  <2> HIDE DEF n, o, st
  <2> QED
    BY <1>5, <2>1, <2>2, WithStatesFields DEF st
<1> HIDE DEF h
<1>7. AnchorsOnly(h, meta) /\ AnchorsHeld(w, s, st, Base(f), meta.anchors)
  <2>1. AnchorsHeld(w, s, st, Base(f), h.anchors)
    BY <1>1, <1>6 DEF Held, RecursionHeld
  <2>2. AnchorsHeld(w, s, st, Base(f), bank)
    BY <1>1, <1>2, PassedHeld
  <2> QED
    BY <1>6, <2>1, <2>2, KeepAnchorsOnly, KeptHeld
<1> HIDE DEF meta
<1>8. /\ DOMAIN meta = MetaFields /\ meta.valid = n /\ meta.since = st /\ meta.cp = f.meta.cp
      /\ meta.state = last /\ meta.stateAt = o + n - 1
      /\ meta.before = IF n > 1 /\ last # NoState THEN prior ELSE NoState
      /\ meta.pending = f.meta.pending
  BY <1>6, <1>7 DEF AnchorsOnly
<1>9. /\ IsFrame(k) /\ k.origin = o /\ k.lead = f.lead /\ k.meta = meta
      /\ k.cells = Overwrite(f.cells, from, tail)
  BY <1>5, <1>8 DEF IsFrame, FrameFields
<1> HIDE DEF k
<1>10. StatesHeld(w, s, st, o, n, meta.state, meta.before, meta.stateAt)
  <2>1. last = HistOf(w, s, st, o + n) /\ prior = HistOf(w, s, st, o + n - 1)
    <3>1. last = HistOf(w, s, st, end) /\ prior = HistOf(w, s, st, end - 1)
      BY <1>4 DEF Hist
    <3> HIDE DEF end, o, n
    <3> QED
      BY <1>3, <3>1
  <2> HIDE DEF o, n
  <2> QED
    BY <1>1, <1>8, <2>1 DEF StatesHeld
<1>11. PendingHeld(w, s, st, meta.pending)
  BY <1>1, <1>8 DEF Held, RecursionHeld
<1>12. \A i \in 1 .. from : o + i > low => i <= f.meta.valid
  <2> DEFINE vr == f.meta.valid
  <2>1. vr \in Nat /\ (from = vr \/ from = 0)
    BY <1>1
  <2> HIDE DEF vr
  <2>2. \A i \in 1 .. from : i <= vr
    BY ONLY <2>1
  <2> QED
    BY <2>2 DEF vr
<1>13. \A i \in from + 1 .. n : tail[i] = Val(column, s, st, o + i)
  BY <1>1, ComputedRowsExact, ZenonT(60)
<1>14. k.meta.stateAt \in Int
  <2> HIDE DEF o, n
  <2> QED
    BY <1>1, <1>8, <1>9
<1>15. k.meta.since = st /\ k.meta.cp = f.meta.cp /\ k.meta.valid = n
  BY <1>8, <1>9
<1>16. /\ StatesHeld(Reach[column].resume, s, st, f.origin, n,
                     k.meta.state, k.meta.before, k.meta.stateAt)
       /\ AnchorsHeld(Reach[column].resume, s, st, Base(f), k.meta.anchors)
       /\ PendingHeld(Reach[column].resume, s, st, k.meta.pending)
  BY <1>7, <1>9, <1>10, <1>11
<1>17. Held(column, k, s, st, low)
  <2>1. /\ k.origin = f.origin /\ k.lead = f.lead /\ from \in Nat /\ n \in Nat
        /\ f.origin + n = Len(s)
    BY <1>1, <1>9
  <2>2. /\ \A i \in 1 .. from : f.origin + i > low => i <= f.meta.valid
        /\ \A i \in from + 1 .. n : tail[i] = Val(column, s, st, f.origin + i)
    BY <1>12, <1>13
  <2>3. k.cells = Overwrite(f.cells, from, tail) /\ IsFrame(k)
    BY <1>9
  <2>4. column \in Columns /\ Held(column, f, s, st, low)
    BY <1>1
  <2> HIDE DEF tail, n, s, st, o
  <2> QED
    BY ONLY <1>14, <1>15, <1>16, <2>1, <2>2, <2>3, <2>4, Recursive(column), RefreshedHeld,
            ZenonT(30)
<1> QED
  BY <1>9, <1>17 DEF Renewed, k, meta, h, last, prior

(* A recomputation from the rows held, whatever it falls back to, brings   *)
(* the column up to date and loses nothing.                                *)
LEMMA RecomputeStaleHeld ==
  ASSUME NEW f, NEW low, ShortOperands, Stale(f, low), Enough(f), Hidden \in Nat,
         low <= f.origin + Hidden, low < Len(series), NEW out \in RecomputeStale(f)
  PROVE  Renewed(f, out.frame, low) /\ out.answer = "done"
<1> DEFINE o == f.origin  vr == f.meta.valid  st == start  n == height
           end   == o + n
           span  == 2 * (Lookback + 1)
           warm  == IF WarmFrame(f) THEN vr ELSE 0
           g     == WroteOver(f, warm, o)
           h     == WithStates(g.meta, o, StateOver(o, end), StateOver(o, end - 1))
<1>1. /\ o \in Nat /\ vr \in Nat /\ st \in Nat /\ st <= o /\ f.meta.since = st /\ n \in Nat
      /\ column \in Columns /\ Held(column, f, series, st, low)
      /\ Lookback \in Nat /\ Lookback = Reach[column].lookback
      /\ f.meta.stateAt \in Int /\ n > 0
  BY StaleFacts, ReachFacts DEF Stale, Lookback
<1>2. \/ ~Carried /\ vr > span /\ out = Done(WroteOver(f, vr, o + vr - span))
      \/ Carried /\ f.meta.since < o /\ out = ReplayColumn(f, PendingRow(f, 0))
      \/ /\ ~(~Carried /\ vr > span) /\ ~(Carried /\ f.meta.since < o)
         /\ \E bank \in PassedAnchors(series, o) :
              out = Done([g EXCEPT !.meta =
                            IF f.meta.since = o THEN KeepAnchors(h, bank) ELSE h])
  <2>1. out \in
          IF ~Carried /\ vr > span
          THEN {Done(WroteOver(f, vr, o + vr - span))}
          ELSE IF Carried /\ f.meta.since < o
          THEN {ReplayColumn(f, PendingRow(f, 0))}
          ELSE {Done([g EXCEPT !.meta =
                        IF f.meta.since = o THEN KeepAnchors(h, bank) ELSE h]) :
                  bank \in PassedAnchors(series, o)}
    BY DEF RecomputeStale, WroteOver
  <2> HIDE DEF g, h, o, vr, span
  <2> QED
    BY <2>1
<1>3. CASE ~Carried /\ vr > span /\ out = Done(WroteOver(f, vr, o + vr - span))
  <2> DEFINE base == o + vr - span
             k    == WroteOver(f, vr, base)
  <2>1. base \in Nat /\ st <= base /\ base + Lookback <= o + vr /\ vr # 0
    <3>1. /\ base = o + vr - span /\ span = 2 * (Lookback + 1) /\ vr > span
      BY <1>3
    <3> HIDE DEF base, o, vr, span, st
    <3> QED
      BY ONLY <1>1, <3>1
  <2> HIDE DEF base
  <2>2. Wrote(f, vr, base, k)
    <3>1. vr \in Nat
      BY <1>1
    <3> HIDE DEF vr
    <3> QED
      BY ONLY <2>1, <3>1, Stale(f, low), WroteFields, Zenon
  <2>3. f.meta.state = NoState /\ f.meta.before = NoState
    BY <1>1, <1>3 DEF Held, WindowHeld, Carried
  <2> HIDE DEF k
  <2>4. Renewed(f, k, low)
    <3>1. ~Recursive(column) /\ vr <= f.meta.valid /\ vr \in Nat
      BY <1>1, <1>3 DEF Carried
    <3>2. start <= base /\ base + Reach[column].lookback <= f.origin + vr /\ base \in Nat
      BY <1>1, <2>1
    <3>3. k.cells = Overwrite(f.cells, vr, ComputedRows(f, base))
      BY <2>2 DEF Wrote
    <3> HIDE DEF vr
    <3> QED
      BY <1>1, <2>2, <2>3, <3>1, <3>2, <3>3, WindowRewritten DEF Wrote
  <2> QED
    BY <1>3, <2>4 DEF Done, k, base
<1>4. CASE Carried /\ f.meta.since < o /\ out = ReplayColumn(f, PendingRow(f, 0))
  <2>1. PendingRow(f, 0) \in Nat /\ (PendingRow(f, 0) # 0 => PendingRow(f, 0) <= Len(series))
    BY PendingRowFacts
  <2>2. start < f.origin /\ Recursive(column)
    BY <1>1, <1>4 DEF Carried
  <2> QED
    BY <1>4, <2>1, <2>2, ReplayColumnHeld
<1>5. CASE /\ ~(~Carried /\ vr > span) /\ ~(Carried /\ f.meta.since < o)
           /\ \E bank \in PassedAnchors(series, o) :
                out = Done([g EXCEPT !.meta =
                              IF f.meta.since = o THEN KeepAnchors(h, bank) ELSE h])
  <2>1. PICK bank \in PassedAnchors(series, o) :
          out = Done([g EXCEPT !.meta =
                        IF f.meta.since = o THEN KeepAnchors(h, bank) ELSE h])
    BY <1>5
  <2>2. CASE Carried
    <3>1. o = st /\ f.meta.since = o
      <4>1. ~(st < o)
        BY <1>1, <1>5, <2>2
      <4> HIDE DEF o, st
      <4> QED
        BY ONLY <1>1, <4>1
    <3>2. warm \in Nat /\ (warm = f.meta.valid \/ warm = 0)
      BY <1>1
    <3>3. out = Done([g EXCEPT !.meta = KeepAnchors(h, bank)])
      <4> HIDE DEF g, h
      <4> QED
        BY <2>1, <3>1
    <3> HIDE DEF warm
    <3>4. Wrote(f, warm, o, g)
      <4>1. f.origin = start
        BY <3>1
      <4> HIDE DEF o
      <4> QED
        BY ONLY <3>2, <4>1, Stale(f, low), WroteFields, Zenon
    <3>5. Recursive(column) /\ f.origin = start /\ bank \in PassedAnchors(series, start)
      BY <2>1, <2>2, <3>1 DEF Carried
    <3>6. g.cells = Overwrite(f.cells, warm, ComputedRows(f, start))
      BY <3>1, <3>4 DEF Wrote
    <3> HIDE DEF g
    <3>7. Renewed(f, [g EXCEPT !.meta = KeepAnchors(h, bank)], low)
      BY <3>2, <3>4, <3>5, <3>6, RecursionRecomputed DEF h, end, Wrote
    <3> QED
      BY <3>3, <3>7 DEF Done
  <2>3. CASE ~Carried
    <3> DEFINE meta == IF f.meta.since = o THEN KeepAnchors(h, bank) ELSE h
               k    == [g EXCEPT !.meta = meta]
    <3>1. ~Recursive(column)
      BY <2>3 DEF Carried
    <3>2. /\ warm \in Nat /\ warm <= f.meta.valid
          /\ warm # 0 \/ f.origin = start
          /\ \/ f.origin = start
             \/ start <= f.origin /\ f.origin + Reach[column].lookback <= f.origin + warm
      BY <3>1, WarmRows
    <3> HIDE DEF warm
    <3>3. Wrote(f, warm, o, g)
      <4> HIDE DEF o
      <4> QED
        BY ONLY <3>2, Stale(f, low), WroteFields, Zenon
    <3> HIDE DEF g
    <3>4. f.meta.state = NoState /\ f.meta.before = NoState
      BY <1>1, <3>1 DEF Held, WindowHeld
    <3>5. StateOver(o, end) = NoState /\ StateOver(o, end - 1) = NoState
      BY <2>3 DEF StateOver
    <3>6. /\ DOMAIN h = MetaFields /\ h.since = st /\ h.valid = n /\ h.cp = f.meta.cp
          /\ h.state = NoState /\ h.before = NoState /\ h.stateAt \in Int
      <4>1. DOMAIN g.meta = MetaFields
        BY <3>3 DEF IsFrame, Wrote
      <4>2. g.meta.valid = n /\ n \in Nat /\ o \in Nat /\ g.meta.stateAt \in Int
        BY <1>1, <3>3 DEF Wrote
      <4> HIDE DEF n, o, end
      <4> QED
        BY <3>3, <3>4, <3>5, <4>1, <4>2, WithStatesFields DEF Wrote
    <3> HIDE DEF h
    <3>7. /\ DOMAIN meta = MetaFields /\ meta.since = st /\ meta.valid = n
          /\ meta.cp = f.meta.cp
          /\ meta.state = NoState /\ meta.before = NoState /\ meta.stateAt \in Int
      <4>1. AnchorsOnly(h, KeepAnchors(h, bank))
        BY <3>6, KeepAnchorsOnly
      <4> QED
        BY <3>6, <4>1 DEF AnchorsOnly
    <3> HIDE DEF meta
    <3>8. /\ IsFrame(k) /\ k.origin = f.origin /\ k.lead = f.lead
          /\ k.cells = Overwrite(f.cells, warm, ComputedRows(f, o)) /\ k.meta = meta
      BY <3>3, <3>7 DEF IsFrame, FrameFields, Wrote
    <3> HIDE DEF k
    <3>9. Renewed(f, k, low)
      <4>1. k.cells = Overwrite(f.cells, warm, ComputedRows(f, o)) /\ o \in Nat
        BY <1>1, <3>8
      <4>2. \/ o = start
            \/ start <= o /\ o + Reach[column].lookback <= f.origin + warm
        BY <3>2
      <4>3. /\ k.meta.since = start /\ k.meta.cp = f.meta.cp /\ k.meta.valid = height
            /\ k.meta.stateAt \in Int /\ k.meta.state = NoState /\ k.meta.before = NoState
        BY <3>7, <3>8
      <4> HIDE DEF o
      <4> QED
        BY <3>1, <3>2, <3>8, <4>1, <4>2, <4>3, WindowRewritten
    <3>10. out = Done(k)
      BY <2>1 DEF k, meta
    <3> QED
      BY <3>9, <3>10 DEF Done
  <2> QED
    BY <2>2, <2>3
<1> QED
  BY <1>2, <1>3, <1>4, <1>5

(* A refresh reads no more rows before the frame's own than it holds and   *)
(* the history has, and a window as many as its reach wants.               *)
LedEnough(f, off) ==
  /\ off \in Nat /\ off <= f.origin - start /\ off <= f.lead
  /\ ~Recursive(column) =>
       \/ off = f.origin - start
       \/ off < f.origin - start /\ LeadOf(column) <= f.meta.valid + off

LEMMA LedRowsFacts ==
  ASSUME NEW f, NEW low, NEW resumes \in BOOLEAN, Stale(f, low)
  PROVE  LedEnough(f, LedRows(f, resumes))
<1> DEFINE o == f.origin  st == start  vr == f.meta.valid  lead == f.lead
           reach  == LeadOf(column)
           needed == IF resumes /\ Carried THEN Resume ELSE LeadReach
           whole  == Carried /\ ~ResumeReady(f.meta, o) /\ st + lead >= o
           rows   == IF whole THEN o - st ELSE Later(needed - vr, 0)
           off    == LedRows(f, resumes)
<1>1. /\ o \in Nat /\ st \in Nat /\ st <= o /\ vr \in Nat /\ lead \in Nat /\ f.meta.since = st
      /\ reach \in Nat /\ Resume \in Nat /\ column \in Columns
  BY StaleFacts, ReachFacts DEF Stale, Resume
<1>2. LeadReach = reach
  BY DEF LeadReach, LeadOf, Resume, Lookback
<1>3. needed \in Nat /\ (~Recursive(column) => needed = reach /\ ~whole)
  BY <1>1, <1>2 DEF Carried
<1>4. off = IF st < o THEN Earlier(Earlier(rows, o - st), lead) ELSE 0
  BY <1>1 DEF LedRows
<1>5. ~Recursive(column) => Earlier(reach, o - st) <= lead
  BY DEF Stale, Held, WindowHeld
<1> HIDE DEF off, needed, whole, o, st, vr, lead, reach
<1>6. off \in Nat /\ off <= o - st /\ off <= lead
  BY ONLY <1>1, <1>3, <1>4 DEF Earlier, Later
<1>7. ~Recursive(column) => off = o - st \/ (off < o - st /\ reach <= vr + off)
  <2> HAVE ~Recursive(column)
  <2>1. needed = reach /\ ~whole /\ Earlier(reach, o - st) <= lead
    BY <1>3, <1>5
  <2>2. rows = Later(reach - vr, 0)
    BY <2>1
  <2> HIDE DEF rows
  <2> QED
    BY ONLY <1>1, <1>4, <2>1, <2>2 DEF Earlier, Later
<1> QED
  BY <1>6, <1>7 DEF LedEnough, off, o, st, vr, lead, reach

LEMMA EnoughWithoutLead ==
  ASSUME NEW f, NEW low, Stale(f, low), LedEnough(f, 0)
  PROVE  Enough(f)
<1> DEFINE o == f.origin  st == start  vr == f.meta.valid  reach == LeadOf(column)
<1>1. o \in Nat /\ st \in Nat /\ vr \in Nat /\ reach \in Nat
  BY StaleFacts, ReachFacts DEF Stale
<1>2. ~Recursive(column) => 0 = o - st \/ reach <= vr + 0
  BY DEF LedEnough
<1> HIDE DEF o, st, vr, reach
<1>3. Recursive(column) \/ o = st \/ reach <= vr
  BY ONLY <1>1, <1>2
<1> QED
  BY <1>3 DEF Enough, o, st, vr, reach

(* A refresh over rows of the lead.                                        *)
LEMMA RefreshLedHeld ==
  ASSUME NEW f, NEW low, NEW off, NEW declines \in BOOLEAN, ShortOperands, Stale(f, low),
         LedEnough(f, off), Hidden \in Nat, low <= f.origin + Hidden, low < Len(series),
         NEW out \in RefreshLed(f, off, declines)
  PROVE  Renewed(f, out.frame, low) /\ out.answer = "done"
<1> DEFINE o == f.origin  st == start  vr == f.meta.valid  n == height
           base == o - off
           end  == o + n
           from == IF WarmFrame(f) THEN vr ELSE 0
           back == Reach[column].lookback
           known(bank) == [f EXCEPT !.meta = IF f.meta.since = base
                                             THEN KeepAnchors(f.meta, bank) ELSE f.meta]
           next(bank)  == ContinueComputed(known(bank), from, ComputedRows(f, base),
                            StateOver(base, end), StateOver(base, end - 1))
           resumes == /\ WarmFrame(f) /\ vr + off >= Resume
                      /\ ResumeReady(f.meta, o) /\ ~declines
<1>1. /\ o \in Nat /\ st \in Nat /\ st <= o /\ vr \in Nat /\ f.meta.since = st
      /\ column \in Columns /\ Held(column, f, series, st, low) /\ n \in Nat /\ n > 0
      /\ back \in Nat /\ LeadOf(column) \in Nat /\ LeadOf(column) > back
      /\ o + n = Len(series) /\ series \in Seq(Nat) /\ IsFrame(f)
      /\ Resume = Reach[column].resume /\ Resume \in Nat
  BY StaleFacts, ReachFacts DEF Stale, Resume
<1>2. /\ off \in Nat /\ off <= o - st /\ base \in Nat /\ st <= base /\ base <= o
  <2>1. off \in Nat /\ off <= o - st /\ base = o - off
    BY DEF LedEnough
  <2> HIDE DEF o, st, base
  <2> QED
    BY ONLY <1>1, <2>1
<1>3. \/ resumes /\ out = Done(ResumedOver(f, base, 0))
      \/ ~resumes /\ Carried /\ st < base /\ out = ReplayColumn(f, 0)
      \/ /\ ~resumes /\ ~(Carried /\ st < base)
         /\ \E bank \in PassedAnchors(series, base) : out = Done(next(bank))
  <2>1. out \in
          IF resumes THEN {Done(ResumedOver(f, base, 0))}
          ELSE IF Carried /\ f.meta.since < base THEN {ReplayColumn(f, 0)}
          ELSE {Done(next(bank)) : bank \in PassedAnchors(series, base)}
    BY DEF RefreshLed
  <2> HIDE DEF resumes, base, next
  <2> QED
    BY <1>1, <2>1
<1>4. CASE resumes /\ out = Done(ResumedOver(f, base, 0))
  <2>1. ResumeReady(f.meta, f.origin) /\ vr + off >= Resume
    BY <1>4
  <2>2. Recursive(column)
    BY <1>1, <2>1 DEF Held, WindowHeld, ResumeReady
  <2>3. base + Reach[column].resume <= f.origin + f.meta.valid
    <3> DEFINE q == Resume
    <3>1. base = o - off /\ vr + off >= q /\ q \in Nat
      BY <1>1, <2>1
    <3> HIDE DEF base, o, vr, q
    <3>2. base + q <= o + vr
      BY ONLY <1>1, <1>2, <3>1
    <3> QED
      BY <1>1, <3>2 DEF o, vr, q
  <2> HIDE DEF base
  <2>4. Renewed(f, ResumedOver(f, base, 0), low)
    BY <1>2, <2>1, <2>2, <2>3, ResumedOverHeld
  <2> QED
    BY <1>4, <2>4 DEF Done
<1>5. CASE ~resumes /\ Carried /\ st < base /\ out = ReplayColumn(f, 0)
  <2>1. Recursive(column) /\ start < f.origin
    <3>1. st < base
      BY <1>5
    <3> HIDE DEF base, o, st
    <3>2. st < o
      BY ONLY <1>1, <1>2, <3>1
    <3> QED
      BY <1>5, <3>2 DEF Carried, st, o
  <2> QED
    BY <1>5, <2>1, ReplayColumnHeld
<1>6. CASE /\ ~resumes /\ ~(Carried /\ st < base)
           /\ \E bank \in PassedAnchors(series, base) : out = Done(next(bank))
  <2>1. PICK bank \in PassedAnchors(series, base) : out = Done(next(bank))
    BY <1>6
  <2> DEFINE g == known(bank)
  <2>2. Recursive(column) => base = st
    <3> HAVE Recursive(column)
    <3>1. ~(st < base)
      BY <1>6 DEF Carried
    <3> HIDE DEF base, st
    <3> QED
      BY ONLY <1>1, <1>2, <3>1
  <2>3. from \in Nat /\ (from = vr \/ from = 0)
    BY <1>1
  <2>4. \/ base = start
        \/ ~Recursive(column) /\ start <= base /\ base + back <= o + from
    <3>1. CASE Recursive(column)
      BY <2>2, <3>1
    <3>2. CASE ~Recursive(column)
      <4> DEFINE reach == LeadOf(column)
      <4>1. off = o - st \/ (off < o - st /\ reach <= vr + off)
        BY <3>2 DEF LedEnough
      <4>2. WarmFrame(f) <=> o + vr >= st + back
        BY <1>1 DEF WarmFrame, Warm
      <4>3. base = o - off /\ reach \in Nat /\ reach > back
        BY <1>1
      <4>4. WarmFrame(f) => from = vr
        OBVIOUS
      <4> HIDE DEF reach, base, o, st, vr, from, back
      <4>5. base = st \/ (st <= base /\ base + back <= o + from)
        BY ONLY <1>1, <1>2, <4>1, <4>2, <4>3, <4>4
      <4> QED
        BY <3>2, <4>5 DEF st
    <3> QED
      BY <3>1, <3>2
  <2>5. /\ Stale(g, low) /\ g.origin = o /\ g.lead = f.lead /\ g.meta.valid = vr
    <3>1. CASE f.meta.since = base
      <4>1. g = [f EXCEPT !.meta = KeepAnchors(f.meta, bank)]
        BY <3>1
      <4>2. Recursive(column) => AnchorsHeld(Reach[column].resume, series, start, Base(f), bank)
        <5> HAVE Recursive(column)
        <5>1. bank \in PassedAnchors(series, start)
          BY <2>1, <1>1, <3>1
        <5>2. Base(f) \in Int /\ Base(f) <= start
          <6> DEFINE bottom == Base(f)  lead == f.lead
          <6>1. bottom = o - lead /\ lead \in Nat /\ off <= lead
            BY StaleFacts DEF Base, LedEnough
          <6>2. base = o - off /\ base = st
            BY <1>1, <3>1
          <6> HIDE DEF bottom, lead, o, base, st
          <6>3. bottom \in Int /\ bottom <= st
            BY ONLY <1>1, <1>2, <6>1, <6>2
          <6> QED
            BY <6>3 DEF bottom, st
        <5>3. Reach[column].resume \in {0, 1}
          BY <1>1, ShortFacts
        <5> QED
          BY <1>1, <5>1, <5>2, <5>3, PassedHeld
      <4>3. Held(column, [f EXCEPT !.meta = KeepAnchors(f.meta, bank)], series, start, low)
        BY <1>1, <4>2, KeepAnchorsHeld
      <4>4. AnchorsOnly(f.meta, KeepAnchors(f.meta, bank))
        BY <1>1, KeepAnchorsOnly DEF IsFrame
      <4>5. /\ g.origin = f.origin /\ g.lead = f.lead /\ g.meta.valid = f.meta.valid
        <5> HIDE DEF base
        <5> QED
          BY <1>1, <3>1, <4>4 DEF IsFrame, FrameFields, AnchorsOnly
      <4> HIDE DEF g
      <4> QED
        BY <1>1, <4>1, <4>3, <4>5 DEF Stale
    <3>2. CASE f.meta.since # base
      <4>1. g = [f EXCEPT !.meta = f.meta]
        BY <3>2
      <4>2. Held(column, [f EXCEPT !.meta = f.meta], series, start, low)
        BY <1>1, HeldAsItIs
      <4>3. g.origin = f.origin /\ g.lead = f.lead /\ g.meta.valid = f.meta.valid
        <5> HIDE DEF base
        <5> QED
          BY <1>1, <3>2 DEF IsFrame, FrameFields
      <4> HIDE DEF g
      <4> QED
        BY <1>1, <4>1, <4>2, <4>3 DEF Stale
    <3> QED
      BY <3>1, <3>2
  <2> HIDE DEF g, from, base
  <2>6. \A i \in from + 1 .. height :
          ComputedRows(f, base)[i] = Val(column, series, start, g.origin + i)
    <3>1. base \in Nat /\ from \in Nat
      BY <1>2, <2>3
    <3>2. \A i \in from + 1 .. height :
            ComputedRows(f, base)[i] = Val(column, series, start, f.origin + i)
      BY ONLY <2>4, <3>1, Stale(f, low), ComputedRowsExact
    <3> QED
      BY <2>5, <3>2
  <2>7. \A i \in 1 .. from : g.origin + i > low => i <= g.meta.valid
    <3> HIDE DEF vr, o
    <3>1. \A i \in 1 .. from : i <= vr
      BY ONLY <1>1, <2>3
    <3> QED
      BY <2>5, <3>1
  <2>8. Recursive(column) =>
          /\ StateOver(base, end) = Hist(column, series, start, g.origin + height)
          /\ height > 1 =>
               StateOver(base, end - 1) = Hist(column, series, start, g.origin + height - 1)
    <3> HAVE Recursive(column)
    <3> DEFINE q == end - 1  s == series
    <3>1. /\ end \in Nat /\ st <= end /\ end <= Len(s) /\ q \in Nat /\ st <= q /\ q <= Len(s)
          /\ end = o + n /\ q = o + n - 1
      <4>1. end = o + n
        OBVIOUS
      <4> HIDE DEF end, o, n, st
      <4> QED
        BY ONLY <1>1, <4>1
    <3>2. s \in Seq(Nat) /\ st \in Nat /\ column \in Columns
      BY <1>1
    <3>3. StateOver(base, end) = History(s, st, end) /\ StateOver(base, q) = History(s, st, q)
      BY <2>2 DEF StateOver, Carried
    <3> HIDE DEF end, q, s, st
    <3>4. History(s, st, end) = Hist(column, s, st, end)
      BY ONLY <3>1, <3>2, HistoryIs, Zenon
    <3>5. History(s, st, q) = Hist(column, s, st, q)
      BY ONLY <3>1, <3>2, HistoryIs, Zenon
    <3>6. /\ StateOver(base, end) = Hist(column, s, st, end)
          /\ StateOver(base, q) = Hist(column, s, st, q)
      BY <3>3, <3>4, <3>5
    <3>7. end = g.origin + n /\ q = g.origin + n - 1
      BY <2>5, <3>1
    <3> QED
      BY <3>6, <3>7 DEF q, s, st
  <2>9. ~Recursive(column) => StateOver(base, end) = NoState
    BY DEF StateOver, Carried
  <2>10. Renewed(g, next(bank), low)
    <3>1. next(bank) = ContinueComputed(g, from, ComputedRows(f, base), StateOver(base, end),
                                        StateOver(base, end - 1))
      BY DEF g
    <3> DEFINE last == StateOver(base, end)  prior == StateOver(base, end - 1)
               tail == ComputedRows(f, base)
    <3>2. /\ \A i \in from + 1 .. height : tail[i] = Val(column, series, start, g.origin + i)
          /\ Recursive(column) =>
               /\ last = Hist(column, series, start, g.origin + height)
               /\ height > 1 => prior = Hist(column, series, start, g.origin + height - 1)
          /\ ~Recursive(column) => last = NoState
      BY <2>6, <2>8, <2>9
    <3> HIDE DEF last, prior, tail
    <3>3. Stale(g, low) /\ from \in Nat
      BY <2>3, <2>5
    <3>4. Renewed(g, ContinueComputed(g, from, tail, last, prior), low)
      BY ONLY <2>7, <3>2, <3>3, ShortOperands, ContinueComputedHeld, ZenonT(30)
    <3> QED
      BY <3>1, <3>4 DEF last, prior, tail
  <2>11. Renewed(f, next(bank), low)
    BY <2>5, <2>10 DEF Renewed
  <2> QED
    BY <2>1, <2>11 DEF Done
<1> QED
  BY <1>3, <1>4, <1>5, <1>6

(* Whatever way a refresh goes, the column is up to date after it, and its *)
(* history was found.                                                      *)
LEMMA RefreshOutcomesHeld ==
  ASSUME NEW f, NEW low, NEW declines \in BOOLEAN, ShortOperands, Stale(f, low),
         Hidden \in Nat, low <= f.origin + Hidden, low < Len(series),
         NEW out \in RefreshOutcomes(f, declines)
  PROVE  Renewed(f, out.frame, low) /\ out.answer = "done"
<1> DEFINE can     == WarmFrame(f) /\ f.meta.valid >= Resume
           restore == /\ can /\ ~ResumeReady(f.meta, f.origin)
                      /\ f.meta.valid > 0 /\ Carried
                      /\ Restorable(f, f.origin + f.meta.valid)
           g       == IF restore THEN [f EXCEPT !.meta = Restored(f, series)] ELSE f
           resumes == can /\ ResumeReady(g.meta, g.origin)
           off     == LedRows(g, resumes)
           at      == PendingRow(g, g.meta.valid)
<1>1. out \in IF off > 0 THEN RefreshLed(g, off, declines)
              ELSE IF resumes /\ ~declines
              THEN {Done(ResumedOver(g, g.origin, at))}
              ELSE RecomputeStale(g)
  BY DEF RefreshOutcomes
<1>2. /\ Stale(g, low) /\ g.origin = f.origin /\ g.lead = f.lead
      /\ g.meta.valid = f.meta.valid
  <2>1. CASE restore
    <3>1. Recursive(column)
      BY <2>1 DEF Carried
    <3> QED
      BY <2>1, <3>1, RestoredHeld
  <2>2. CASE ~restore
    BY <2>2
  <2> QED
    BY <2>1, <2>2
<1>3. can \in BOOLEAN /\ resumes \in BOOLEAN
  BY DEF ResumeReady, WarmFrame, Warm
<1> HIDE DEF g
<1>4. LedEnough(g, off)
  <2> HIDE DEF resumes
  <2> QED
    BY <1>2, <1>3, LedRowsFacts
<1>5. Hidden \in Nat /\ low <= g.origin + Hidden /\ low < Len(series)
  BY <1>2
<1>6. Renewed(g, out.frame, low) /\ out.answer = "done"
  <2>1. CASE off > 0
    <3>1. out \in RefreshLed(g, off, declines)
      BY <1>1, <2>1
    <3> HIDE DEF off
    <3> QED
      BY <1>2, <1>4, <1>5, <3>1, RefreshLedHeld
  <2>2. CASE ~(off > 0) /\ resumes /\ ~declines
    <3>1. out = Done(ResumedOver(g, g.origin, at))
      BY <1>1, <2>2
    <3>2. ResumeReady(g.meta, g.origin)
      BY <2>2
    <3>3. Recursive(column) /\ Reach[column].resume \in Nat
      BY <1>2, <3>2, ReachFacts DEF Stale, Held, WindowHeld, ResumeReady
    <3>4. /\ g.origin \in Nat /\ g.meta.valid \in Nat /\ start <= g.origin
      BY <1>2, StaleFacts
    <3>5. g.origin + Reach[column].resume <= g.origin + g.meta.valid
      <4> DEFINE o == g.origin  vr == g.meta.valid  w == Reach[column].resume
      <4>1. w <= vr
        BY <1>2, <2>2, <3>3, <3>4 DEF Resume
      <4>2. o \in Nat /\ vr \in Nat /\ w \in Nat
        BY <3>3, <3>4
      <4> HIDE DEF o, vr, w
      <4>3. o + w <= o + vr
        BY ONLY <4>1, <4>2
      <4> QED
        BY <4>3 DEF o, vr, w
    <3>6. at \in Nat /\ (at # 0 => g.origin + g.meta.valid < at /\ at <= Len(series))
      <4> DEFINE vr == g.meta.valid
      <4>1. vr \in Nat
        BY <3>4
      <4> HIDE DEF vr
      <4>2. /\ PendingRow(g, vr) \in Nat
            /\ PendingRow(g, vr) # 0 =>
                 g.origin + vr < PendingRow(g, vr) /\ PendingRow(g, vr) <= Len(series)
        BY ONLY <1>2, <4>1, PendingRowFacts
      <4> QED
        BY <4>2 DEF vr
    <3> HIDE DEF at
    <3>7. Renewed(g, ResumedOver(g, g.origin, at), low)
      <4> DEFINE o == g.origin
      <4>1. o \in Nat /\ start <= o /\ o + Reach[column].resume <= g.origin + g.meta.valid
        BY <3>4, <3>5
      <4> HIDE DEF o
      <4>2. Renewed(g, ResumedOver(g, o, at), low)
        BY ONLY <1>2, <3>2, <3>3, <3>6, <4>1, ShortOperands, ResumedOverHeld
      <4> QED
        BY <4>2 DEF o
    <3> QED
      BY <3>1, <3>7 DEF Done
  <2>3. CASE ~(off > 0) /\ ~(resumes /\ ~declines)
    <3>1. out \in RecomputeStale(g)
      BY <1>1, <2>3
    <3>2. off = 0
      <4>1. off \in Nat
        BY <1>4 DEF LedEnough
      <4> HIDE DEF off
      <4> QED
        BY <2>3, <4>1
    <3>3. Enough(g)
      <4> HIDE DEF off
      <4> QED
        BY <1>2, <1>4, <3>2, EnoughWithoutLead
    <3> QED
      BY <1>2, <1>5, <3>1, <3>3, RecomputeStaleHeld
  <2> QED
    BY <2>1, <2>2, <2>3
<1> QED
  BY <1>2, <1>6 DEF Renewed

-----------------------------------------------------------------------------
(* The rows of the series before the first one shown.                      *)
Low == frame.origin + Hidden

(* The invariant: what the frame and its record hold is the history; a     *)
(* frame that drops its head never grows to its bound, and no column of it *)
(* looks back further than its margin; a lead kept for this column alone   *)
(* stays within its bound; and no refresh has found the history gone.      *)
Invariant ==
  /\ column \in Columns /\ shared \in BOOLEAN /\ bounded \in BOOLEAN /\ changes \in Nat
  /\ Held(column, frame, series, start, Low)
  /\ bounded => Lookback <= Margin /\ height < bound
  /\ ~shared => frame.lead <= LeadBound(column)
  /\ answer = "done"

(* The sizes of the frame.                                                 *)
LEMMA Sizes ==
  ASSUME Invariant
  PROVE  /\ series \in Seq(Nat) /\ Len(series) \in Nat /\ start \in Nat
         /\ frame.origin \in Nat /\ start <= frame.origin /\ frame.lead \in Nat
         /\ height \in Nat /\ frame.origin + height = Len(series)
         /\ Hidden \in Nat /\ Hidden <= height /\ (height > 0 => Hidden < height)
         /\ Hidden = (IF bounded THEN Later(height - Window, 0) ELSE 0)
         /\ Low \in Nat /\ Low = frame.origin + Hidden
         /\ Window \in Nat /\ Window > 0 /\ frame.meta.valid \in Nat
         /\ frame.meta.valid <= height
<1> DEFINE o == frame.origin  n == height  len == Len(series)  h == Hidden  k == Len(frame.cells)
           vr == frame.meta.valid
<1>1. /\ series \in Seq(Nat) /\ start \in Nat /\ o \in Nat /\ start <= o /\ frame.lead \in Nat
      /\ frame.cells \in Seq(Cells) /\ o + k = len /\ vr \in Nat /\ o + vr <= len
  BY DEF Invariant, Held, Sized
<1>2. len \in Nat /\ k \in Nat
  BY <1>1
<1>3. n = len - o
  BY DEF height, Height
<1>4. Window \in Nat /\ Window > 0 /\ bounded \in BOOLEAN
  BY RetainedAssumption DEF Invariant
<1>5. h = IF bounded THEN Later(n - Window, 0) ELSE 0
  BY DEF Hidden
<1> HIDE DEF o, n, len, h, k, vr
<1>6. n \in Nat /\ o + n = len /\ vr <= n
  BY ONLY <1>1, <1>2, <1>3
<1>7. h \in Nat /\ h <= n /\ (n > 0 => h < n) /\ o + h \in Nat
  BY ONLY <1>1, <1>4, <1>5, <1>6 DEF Later
<1> QED
  BY <1>1, <1>2, <1>4, <1>5, <1>6, <1>7 DEF Low, o, n, len, h, vr

(* The record of a column just cached.                                     *)
JustCached(s, origin, n, g) ==
  LET end    == Len(s)
      state  == IF Carried THEN History(s, origin, end) ELSE NoState
      before == IF Carried THEN History(s, origin, end - 1) ELSE NoState
  IN  /\ DOMAIN g = MetaFields
      /\ g.valid = n /\ g.since = origin /\ g.state = state
      /\ g.before = IF n > 1 /\ state # NoState THEN before ELSE NoState
      /\ g.stateAt = origin + n - 1 /\ g.anchors = NoAnchors
      /\ g.cp = NoPoint /\ g.pending = NoPoint

LEMMA CachedMetaFields ==
  ASSUME NEW cells, NEW s, NEW origin \in Nat, NEW n \in Nat, n > 0, Len(s) - origin = n
  PROVE  JustCached(s, origin, n, CachedMeta(cells, s, origin))
<1> DEFINE end    == Len(s)
           state  == IF Carried THEN History(s, origin, end) ELSE NoState
           before == IF Carried THEN History(s, origin, end - 1) ELSE NoState
           blank  == [valid |-> n, state |-> NoState, before |-> NoState, since |-> origin,
                      stateAt |-> 0, first |-> NoRow, anchors |-> NoAnchors]
           new    == NewMeta(cells, origin, n)
           at     == WithStates(new, origin, state, before)
           own    == {"valid", "state", "before", "since", "stateAt", "first", "anchors"}
           g      == [field \in DOMAIN at \cup {"cp", "pending"} |->
                        IF field \in DOMAIN at THEN at[field] ELSE NoPoint]
<1>1. CachedMeta(cells, s, origin) = g
  BY DEF CachedMeta
<1>2. /\ DOMAIN new = own /\ new.valid = n /\ new.since = origin /\ new.anchors = NoAnchors
      /\ new.stateAt = 0
  <2> DEFINE found == FirstPresent(cells, origin, 0, n)
  <2>1. new = NoteWritten(blank, cells, origin, 0, n)
    BY DEF NewMeta
  <2>2. \/ NoteWritten(blank, cells, origin, 0, n) = blank
        \/ NoteWritten(blank, cells, origin, 0, n) = [blank EXCEPT !.first = found]
    <3> HIDE DEF blank, found
    <3> QED
      BY DEF NoteWritten, found
  <2> HIDE DEF found, new
  <2> QED
    BY <2>1, <2>2
<1> HIDE DEF new, state, before
<1>3. origin + n - 1 > origin <=> n > 1
  OBVIOUS
<1>4. /\ DOMAIN at = own /\ at.valid = n /\ at.since = origin /\ at.anchors = NoAnchors
      /\ at.state = state /\ at.stateAt = origin + n - 1
      /\ at.before = IF n > 1 /\ state # NoState THEN before ELSE NoState
  BY <1>2, <1>3 DEF WithStates
<1> HIDE DEF at
<1>5. /\ DOMAIN g = MetaFields /\ g.valid = at.valid /\ g.since = at.since
      /\ g.state = at.state /\ g.before = at.before /\ g.stateAt = at.stateAt
      /\ g.anchors = at.anchors /\ g.cp = NoPoint /\ g.pending = NoPoint
  BY <1>4 DEF MetaFields
<1> HIDE DEF g
<1> QED
  BY <1>1, <1>4, <1>5 DEF JustCached, state, before

LEMMA InitInvariant ==
  ASSUME ShortOperands, Init
  PROVE  Invariant
<1> DEFINE s == series  st == start  n == Len(s) - st  w == Reach[column].resume
           vals == [i \in 1 .. Len(s) - st |-> ValueOver(s, st, st + i)]
           last  == IF Carried THEN History(s, st, Len(s)) ELSE NoState
           prior == IF Carried THEN History(s, st, Len(s) - 1) ELSE NoState
           base  == CachedMeta(vals, s, st)
<1>1. /\ column \in Columns /\ shared \in BOOLEAN /\ st \in Nat /\ bounded = FALSE
      /\ changes = 0 /\ answer = "done"
  BY RetainedAssumption DEF Init
<1>2. /\ s \in Seq(Nat) /\ Len(s) \in Nat /\ n \in Nat /\ n > 0 /\ Len(s) = st + n
  <2>1. PICK k \in 1 .. 2 : s = [i \in 1 .. st + k |-> 0]
    BY DEF Init
  <2>2. st + k \in Nat
    BY <1>1
  <2>3. s \in Seq(Nat) /\ Len(s) = st + k
    <3> DEFINE e == st + k
    <3>1. s \in [1 .. e -> Nat] /\ e \in Nat
      BY <2>1, <2>2
    <3> HIDE DEF e, s
    <3>2. s \in Seq(Nat) /\ Len(s) = e
      BY <3>1, SeqOfFunction, LenOfFunction
    <3> QED
      BY <3>2 DEF e
  <2> DEFINE len == Len(s)
  <2>4. len = st + k /\ n = len - st
    BY <2>3
  <2> HIDE DEF len, n, st, s
  <2>5. len \in Nat /\ n \in Nat /\ n > 0 /\ len = st + n
    BY ONLY <1>1, <2>4, k \in 1 .. 2
  <2> QED
    BY <2>3, <2>5 DEF len
<1>3. PICK older \in (IF shared THEN 0 .. st ELSE {0}), bank \in PassedAnchors(s, st) :
        frame = [origin |-> st, lead |-> older, cells |-> vals, meta |-> KeepAnchors(base, bank)]
  BY DEF Init
<1>4. older \in Nat /\ older <= st /\ (~shared => older = 0)
  <2> HIDE DEF st
  <2> QED
    BY <1>1
<1>5. /\ DOMAIN base = MetaFields /\ base.valid = n /\ base.since = st /\ base.state = last
      /\ base.before = IF n > 1 /\ last # NoState THEN prior ELSE NoState
      /\ base.stateAt = st + n - 1 /\ base.anchors = NoAnchors
      /\ base.cp = NoPoint /\ base.pending = NoPoint
  <2>1. Len(s) - st = n /\ st \in Nat /\ n \in Nat /\ n > 0
    BY <1>1, <1>2
  <2> HIDE DEF vals, s, st, n
  <2>2. JustCached(s, st, n, base)
    BY ONLY <2>1, CachedMetaFields, Zenon
  <2> HIDE DEF base
  <2> QED
    BY ONLY <2>2 DEF JustCached
<1>6. vals \in Seq(Cells) /\ Len(vals) = n /\ \A i \in 1 .. n : vals[i] = Val(column, s, st, st + i)
  <2>1. \A i \in 1 .. n : vals[i] = Val(column, s, st, st + i) /\ vals[i] \in Cells
    <3> TAKE i \in 1 .. n
    <3> DEFINE r == st + i
    <3>1. vals[i] = ValueOver(s, st, r)
      OBVIOUS
    <3>2. r \in Nat /\ st <= r /\ r <= Len(s)
      <4>1. r = st + i
        OBVIOUS
      <4> HIDE DEF r, st, n, s
      <4> QED
        BY ONLY <1>1, <1>2, <4>1, i \in 1 .. n
    <3> HIDE DEF r, vals, s, st
    <3>3. ValueOver(s, st, r) = Val(column, s, st, r)
      BY ONLY <1>1, <1>2, <3>2, ValueIs
    <3>4. Val(column, s, st, r) \in Cells
      BY ONLY <1>1, <1>2, <3>2, ValType
    <3> QED
      BY <3>1, <3>3, <3>4 DEF r
  <2>2. vals \in [1 .. n -> Cells]
    <3>1. vals = [i \in 1 .. n |-> vals[i]]
      OBVIOUS
    <3> HIDE DEF vals, n
    <3> QED
      BY <2>1, <3>1
  <2> HIDE DEF vals, n, s, st
  <2>3. vals \in Seq(Cells) /\ Len(vals) = n
    BY ONLY <1>2, <2>2, SeqOfFunction, LenOfFunction
  <2> QED
    BY <2>1, <2>3
<1>7. Recursive(column) =>
        /\ last = HistOf(w, s, st, st + n) /\ prior = HistOf(w, s, st, st + n - 1)
        /\ w \in {0, 1}
  <2> HAVE Recursive(column)
  <2> DEFINE end == Len(s)  q == end - 1
  <2>1. last = History(s, st, end) /\ prior = History(s, st, q)
    BY DEF Carried
  <2>2. /\ end \in Nat /\ st <= end /\ end <= Len(s) /\ q \in Nat /\ st <= q /\ q <= Len(s)
        /\ end = st + n /\ q = st + n - 1
    <3>1. end \in Nat /\ end = st + n
      BY <1>2
    <3> HIDE DEF end, n, st
    <3>2. /\ end \in Nat /\ st <= end /\ q \in Nat /\ st <= q /\ q <= end
          /\ end = st + n /\ q = st + n - 1
      BY ONLY <1>1, <1>2, <3>1
    <3> QED
      BY <3>2 DEF end
  <2>3. s \in Seq(Nat) /\ st \in Nat /\ column \in Columns
    BY <1>1, <1>2
  <2> HIDE DEF end, q, s, st, n, last, prior
  <2>4. History(s, st, end) = Hist(column, s, st, end)
    BY ONLY <2>2, <2>3, HistoryIs, Zenon
  <2>5. History(s, st, q) = Hist(column, s, st, q)
    BY ONLY <2>2, <2>3, HistoryIs, Zenon
  <2>6. w \in {0, 1}
    BY <1>1, ShortFacts
  <2> QED
    BY <2>1, <2>2, <2>4, <2>5, <2>6 DEF Hist
<1> HIDE DEF base, last, prior, vals
<1> DEFINE meta == KeepAnchors(base, bank)
<1>8. AnchorsOnly(base, meta)
  BY <1>5, KeepAnchorsOnly
<1>9. Recursive(column) => AnchorsHeld(w, s, st, Base(frame), meta.anchors)
  <2> HAVE Recursive(column)
  <2>1. Base(frame) \in Int /\ Base(frame) <= st
    <3>1. Base(frame) = st - older
      BY <1>3 DEF Base
    <3> HIDE DEF st
    <3> QED
      BY <1>1, <1>4, <3>1
  <2>2. AnchorsHeld(w, s, st, Base(frame), bank)
    BY <1>1, <1>2, <1>7, <2>1, PassedHeld
  <2>3. AnchorsHeld(w, s, st, Base(frame), base.anchors)
    BY <1>5 DEF AnchorsHeld, NoAnchors
  <2> QED
    BY <1>5, <2>2, <2>3, KeptHeld
<1> HIDE DEF meta
<1>10. /\ DOMAIN meta = MetaFields /\ meta.valid = n /\ meta.since = st /\ meta.state = last
       /\ meta.before = IF n > 1 /\ last # NoState THEN prior ELSE NoState
       /\ meta.stateAt = st + n - 1 /\ meta.cp = NoPoint /\ meta.pending = NoPoint
  BY <1>5, <1>8 DEF AnchorsOnly
<1>11. /\ IsFrame(frame) /\ frame.origin = st /\ frame.lead = older /\ frame.cells = vals
       /\ frame.meta = meta
  BY <1>3, <1>10 DEF IsFrame, FrameFields, meta
<1>12. Hidden = 0 /\ Low = st
  <2>1. Hidden = 0
    BY <1>1 DEF Hidden
  <2> HIDE DEF st
  <2> QED
    BY <1>1, <1>11, <2>1 DEF Low
<1>13. Sized(frame, s, st, st)
  <2>1. st + n - 1 \in Int /\ st <= st /\ st + n <= Len(s)
    <3> HIDE DEF st, n
    <3> QED
      BY <1>1, <1>2
  <2> HIDE DEF st, n, s
  <2> QED
    BY <1>1, <1>2, <1>4, <1>6, <1>10, <1>11, <2>1 DEF Sized
<1>14. RowsHeld(column, s, st, st, frame.origin, frame.meta.valid, frame.cells)
  BY <1>6, <1>10, <1>11 DEF RowsHeld
<1>15. Recursive(column) => RecursionHeld(w, frame, s, st, st)
  <2> HAVE Recursive(column)
  <2>1. StatesHeld(w, s, st, st, n, last,
                   IF n > 1 /\ last # NoState THEN prior ELSE NoState, st + n - 1)
    <3> HIDE DEF st, n, s
    <3> QED
      BY <1>1, <1>2, <1>7 DEF StatesHeld
  <2>2. CheckpointHeld(w, s, st, st, Base(frame), NoPoint)
    <3>1. ~(st < Base(frame))
      <4>1. Base(frame) = st - older
        BY <1>11 DEF Base
      <4> HIDE DEF st
      <4> QED
        BY <1>1, <1>4, <4>1
    <3> QED
      BY <3>1 DEF CheckpointHeld
  <2>3. PendingHeld(w, s, st, NoPoint)
    BY DEF PendingHeld
  <2> HIDE DEF st, n, s
  <2> QED
    BY <1>9, <1>10, <1>11, <2>1, <2>2, <2>3 DEF RecursionHeld
<1>16. ~Recursive(column) => WindowHeld(column, frame, st)
  <2> HAVE ~Recursive(column)
  <2>1. last = NoState
    BY DEF last, Carried
  <2>2. Earlier(LeadOf(column), st - st) <= older
    <3>1. LeadOf(column) \in Nat
      BY <1>1, ReachFacts
    <3> DEFINE reach == LeadOf(column)
    <3> HIDE DEF st, reach
    <3>2. Earlier(reach, st - st) <= older
      BY ONLY <1>1, <1>4, <3>1 DEF Earlier, reach
    <3> QED
      BY <3>2 DEF reach
  <2> HIDE DEF st, n
  <2> QED
    BY <1>10, <1>11, <2>1, <2>2 DEF WindowHeld
<1>17. Held(column, frame, s, st, Low)
  BY <1>11, <1>12, <1>13, <1>14, <1>15, <1>16 DEF Held
<1>18. ~shared => frame.lead <= LeadBound(column)
  <2>1. LeadOf(column) \in Nat /\ Reach[column].resume \in Nat /\ AnchorSpacing \in Nat
    BY <1>1, ReachFacts, AnchorSpacingAssumption
  <2>2. 0 <= LeadBound(column)
    BY <2>1 DEF LeadBound, Later
  <2> QED
    BY <1>4, <1>11, <2>2
<1> QED
  BY <1>1, <1>17, <1>18 DEF Invariant

(* What a step has to establish.                                           *)
HiddenOf(drops, n) == IF drops THEN Later(n - Window, 0) ELSE 0

LEMMA InvariantNext ==
  ASSUME Invariant, UNCHANGED <<column, shared, start>>, bounded' \in BOOLEAN,
         changes' \in Nat, answer' = "done",
         Held(column, frame', series', start,
              frame'.origin + HiddenOf(bounded', Height(frame', series'))),
         bounded' => Lookback <= Margin /\ Height(frame', series') < bound,
         ~shared => frame'.lead <= LeadBound(column)
  PROVE  Invariant'
<1>1. Hidden' = HiddenOf(bounded', Height(frame', series'))
  BY DEF Hidden, HiddenOf, height
<1>2. Low' = frame'.origin + HiddenOf(bounded', Height(frame', series'))
  BY <1>1 DEF Low
<1>3. height' = Height(frame', series')
  BY DEF height
<1>4. Lookback' = Lookback /\ bound' = bound
  BY DEF Lookback, bound, capacity
<1>5. Held(column, frame, series, start, Low)'
  BY <1>2
<1> QED
  BY <1>3, <1>4, <1>5 DEF Invariant

LEMMA AppendInvariant ==
  ASSUME ShortOperands, Invariant, AppendRows
  PROVE  Invariant'
<1>1. PICK replacing \in BOOLEAN, n \in 0 .. MaxBatch : AppendBatch(replacing, n)
  BY DEF AppendRows
<1> DEFINE s == series  st == start  o == frame.origin  len == Len(s)  f == frame
           kept  == IF replacing THEN [s EXCEPT ![len] = changes + 1] ELSE s
           meta  == IF replacing THEN LastReplaced(f, height - 1) ELSE f.meta
           noted == [f EXCEPT !.meta = meta]
           grown == [noted EXCEPT !.cells = noted.cells \o NoCells(n)]
           s2    == kept \o ZeroRows(n)
           full  == bounded /\ height + n >= bound
<1>2. /\ s2 = series' /\ frame' = (IF full THEN Compacted(grown, s2) ELSE grown)
      /\ UNCHANGED <<column, shared, start, bounded, answer>>
      /\ changes' = (IF replacing THEN changes + 1 ELSE changes)
      /\ replacing => height > 0
  <2>1. grown = [f EXCEPT !.meta = meta, !.cells = f.cells \o NoCells(n)]
    <3>1. DOMAIN f = FrameFields
      BY DEF Invariant, Held, IsFrame
    <3> HIDE DEF meta
    <3>2. noted.cells = f.cells
      BY <3>1 DEF FrameFields
    <3> QED
      BY <3>2
  <2> QED
    BY <1>1, <2>1 DEF AppendBatch, NoCells, ZeroRows
<1>3. /\ s \in Seq(Nat) /\ len \in Nat /\ st \in Nat /\ o \in Nat /\ height \in Nat
      /\ o + height = len /\ Hidden \in Nat /\ Hidden <= height
      /\ (height > 0 => Hidden < height) /\ Low \in Nat /\ Low = o + Hidden
      /\ Window \in Nat /\ Window > 0 /\ changes \in Nat /\ column \in Columns
      /\ Held(column, f, s, st, Low)
  BY Sizes DEF Invariant
<1>4. n \in Nat
  BY RetainedAssumption
<1>5. kept \in Seq(Nat) /\ Len(kept) = len
  <2> DEFINE v == changes + 1
  <2>1. v \in Nat /\ s \in Seq(Nat)
    BY <1>3
  <2>2. replacing => 1 <= len
    <3> DEFINE n0 == height
    <3>1. o \in Nat /\ n0 \in Nat /\ o + n0 = len /\ (replacing => n0 > 0)
      BY <1>2, <1>3
    <3> HIDE DEF o, n0, len
    <3> QED
      BY ONLY <3>1
  <2> HIDE DEF v, s
  <2>3. replacing => [s EXCEPT ![len] = v] \in Seq(Nat) /\ Len([s EXCEPT ![len] = v]) = len
    BY ONLY <2>1, <2>2
  <2> QED
    BY <2>1, <2>3 DEF v
<1>6. Held(column, noted, kept, st, Low)
  <2>1. CASE replacing
    <3>1. Low < len /\ height - 1 = len - o - 1
      <4> DEFINE n0 == height  h == Hidden  low == Low
        <4>1. /\ o \in Nat /\ n0 \in Nat /\ len \in Nat /\ o + n0 = len /\ h \in Nat /\ n0 > 0
              /\ h < n0 /\ low = o + h
          BY <1>2, <1>3, <2>1
      <4> HIDE DEF o, n0, len, h, low
      <4>2. low < len /\ n0 - 1 = len - o - 1
        BY ONLY <4>1
      <4> QED
        BY <4>2 DEF low, n0
    <3>2. Held(column, [f EXCEPT !.meta = LastReplaced(f, len - o - 1)],
               [s EXCEPT ![len] = changes + 1], st, Low)
      <4>1. changes + 1 \in Nat
        BY <1>3
      <4> QED
        BY <1>3, <3>1, <4>1, ReplacedHeld
    <3> QED
      BY <2>1, <3>1, <3>2
  <2>2. CASE ~replacing
    BY <1>3, <2>2, HeldAsItIs
  <2> QED
    BY <2>1, <2>2
<1>7. Low <= Len(kept)
  <2> DEFINE n0 == height  h == Hidden  low == Low
  <2>1. o \in Nat /\ n0 \in Nat /\ o + n0 = len /\ h \in Nat /\ h <= n0 /\ low = o + h
    BY <1>3
  <2> HIDE DEF o, n0, h, low, len
  <2>2. low <= len
    BY ONLY <2>1
  <2> QED
    BY <1>5, <2>2 DEF low
<1> HIDE DEF kept, noted
<1>8. Held(column, grown, s2, st, Low)
  BY <1>3, <1>4, <1>6, <1>7, GrownHeld
<1>9. /\ grown.origin = o /\ grown.lead = f.lead
  <2>1. DOMAIN f = FrameFields
    BY <1>3 DEF Held, IsFrame
  <2>2. DOMAIN noted = FrameFields /\ noted.origin = o /\ noted.lead = f.lead
    <3> HIDE DEF meta
    <3> QED
      BY <2>1 DEF noted, FrameFields
  <2> QED
    BY <2>2 DEF FrameFields
<1>10. s2 \in Seq(Nat) /\ Len(s2) = o + height + n
  <2>1. Len(s2) = Len(kept) + n /\ s2 \in Seq(Nat)
    <3>1. 0 \in Nat
      OBVIOUS
    <3> QED
      BY <1>4, <1>5, <3>1, RowsJoined DEF ZeroRows
  <2> DEFINE n0 == height  m2 == Len(s2)
  <2>2. o \in Nat /\ n0 \in Nat /\ m2 = len + n /\ o + n0 = len
    BY <1>3, <1>5, <2>1
  <2> HIDE DEF o, n0, m2, len, s2
  <2>3. m2 = o + n0 + n
    BY ONLY <1>4, <2>2
  <2> QED
    BY <2>1, <2>3 DEF m2, n0
<1>11. /\ capacity \in Nat /\ capacity > 0 /\ bound = 2 * capacity /\ capacity >= Window
  <2>1. Margin \in Nat
    BY RetainedAssumption
  <2>2. capacity \in Nat /\ bound = 2 * capacity /\ capacity >= Window + Margin /\ capacity > 0
    BY CapacityType
  <2> DEFINE cap == capacity
  <2> HIDE DEF cap
  <2>3. cap >= Window
    BY <1>3, <2>1, <2>2 DEF cap
  <2> QED
    BY <2>2, <2>3 DEF cap
<1> HIDE DEF grown, s2
<1>12. CASE full
  <2>1. Hidden = Later(height - Window, 0) /\ bounded /\ Reach[column].lookback <= Margin
    BY <1>12, Sizes DEF Invariant, Lookback
  <2> DEFINE n0 == height  h == Hidden  low == Low  cap == capacity  win == Window
             g == Compacted(grown, s2)
  <2> DEFINE m2 == Len(s2)
  <2>2. /\ o + cap <= m2 /\ low <= m2 - win /\ cap < 2 * cap
        /\ m2 - (m2 - cap) = cap /\ (m2 - cap) + Later(cap - win, 0) = m2 - win
    <3>1. /\ o \in Nat /\ n0 \in Nat /\ cap \in Nat /\ win \in Nat /\ cap >= win /\ win > 0
          /\ cap > 0 /\ h = Later(n0 - win, 0) /\ n0 + n >= 2 * cap /\ low = o + h
          /\ m2 = o + n0 + n
      BY <1>3, <1>10, <1>11, <1>12, <2>1
    <3> HIDE DEF o, n0, cap, win, h, low, m2
    <3> QED
      BY ONLY <1>4, <3>1 DEF Later
  <2>3. grown.origin + capacity <= Len(s2) /\ Low <= Len(s2) - Window
    BY <1>9, <2>2
  <2>4. /\ Held(column, g, s2, st, Len(s2) - Window) /\ g.lead <= LeadBound(column)
        /\ g.origin = Len(s2) - capacity
    BY <1>3, <1>8, <2>1, <2>3, CompactedHeld
  <2> HIDE DEF g
  <2>5. /\ Height(g, s2) = capacity
        /\ g.origin + Later(capacity - Window, 0) = Len(s2) - Window
    <3>1. Height(g, s2) = Len(s2) - g.origin
      BY DEF Height
    <3>2. g.origin = m2 - cap
      BY <2>4
    <3> HIDE DEF o, n0, cap, win, h, m2
    <3>3. m2 - g.origin = cap /\ g.origin + Later(cap - win, 0) = m2 - win
      BY ONLY <2>2, <3>2
    <3> QED
      BY <3>1, <3>3 DEF m2, cap, win
  <2>6. frame' = g /\ series' = s2
    BY <1>2, <1>12 DEF g
  <2>7. Held(column, frame', series', start,
             frame'.origin + HiddenOf(bounded', Height(frame', series')))
    <3>1. HiddenOf(bounded', Height(frame', series')) = Later(capacity - Window, 0)
      BY <1>2, <2>1, <2>5, <2>6 DEF HiddenOf
    <3> QED
      BY <2>4, <2>5, <2>6, <3>1
  <2>8. Lookback <= Margin /\ Height(frame', series') < bound
    <3>1. capacity < bound
      BY <1>11, <2>2
    <3> QED
      BY <2>1, <2>5, <2>6, <3>1 DEF Lookback
  <2>9. bounded' \in BOOLEAN /\ changes' \in Nat /\ answer' = "done"
    BY <1>2, <1>3 DEF Invariant
  <2> QED
    BY <1>2, <2>4, <2>6, <2>7, <2>8, <2>9, InvariantNext
<1>13. CASE ~full
  <2>1. frame' = grown /\ series' = s2
    BY <1>2, <1>13
  <2> DEFINE n0 == height  h == Hidden  low == Low  win == Window
             to == o + HiddenOf(bounded, height + n)
  <2>2. to \in Nat /\ Low <= to
    <3>1. CASE bounded
      <4>1. /\ o \in Nat /\ n0 \in Nat /\ win \in Nat /\ win > 0 /\ h = Later(n0 - win, 0)
            /\ low = o + h /\ to = o + Later(n0 + n - win, 0)
        BY <1>3, <3>1, Sizes DEF HiddenOf
      <4> HIDE DEF o, n0, win, h, low, to
      <4>2. to \in Nat /\ low <= to
        BY ONLY <1>4, <4>1 DEF Later
      <4> QED
        BY <4>2 DEF low
    <3>2. CASE ~bounded
      <4>1. o \in Nat /\ h = 0 /\ low = o + h /\ to = o + 0
        BY <1>3, <3>2, Sizes DEF HiddenOf
      <4> HIDE DEF o, h, low, to
      <4>2. to \in Nat /\ low <= to
        BY ONLY <4>1
      <4> QED
        BY <4>2 DEF low
    <3> QED
      BY <3>1, <3>2
  <2> HIDE DEF to
  <2>3. Held(column, grown, s2, st, to)
    BY <1>8, <2>2, LowerHeld
  <2>4. Height(grown, s2) = height + n
    <3>1. Height(grown, s2) = Len(s2) - o
      BY <1>9 DEF Height
    <3> DEFINE m2 == Len(s2)
    <3>2. m2 = o + n0 + n /\ o \in Nat /\ n0 \in Nat
      BY <1>3, <1>10
    <3> HIDE DEF m2, o, n0
    <3>3. m2 - o = n0 + n
      BY ONLY <1>4, <3>2
    <3> QED
      BY <3>1, <3>3 DEF m2, n0
  <2>5. Held(column, frame', series', start,
             frame'.origin + HiddenOf(bounded', Height(frame', series')))
    BY <1>2, <1>9, <2>1, <2>3, <2>4 DEF to
  <2>6. bounded' => Lookback <= Margin /\ Height(frame', series') < bound
    <3> HAVE bounded'
    <3>1. bounded /\ ~(height + n >= bound) /\ Lookback <= Margin
      BY <1>2, <1>13 DEF Invariant
    <3> DEFINE top == bound
    <3>2. n0 + n < top
      <4>1. n0 \in Nat /\ top \in Nat /\ ~(n0 + n >= top)
        BY <1>3, <3>1, CapacityType
      <4> HIDE DEF n0, top
      <4> QED
        BY ONLY <1>4, <4>1
    <3> QED
      BY <2>1, <2>4, <3>1, <3>2
  <2>7. bounded' \in BOOLEAN /\ changes' \in Nat /\ answer' = "done"
    BY <1>2, <1>3 DEF Invariant
  <2>8. ~shared => frame'.lead <= LeadBound(column)
    BY <1>9, <2>1 DEF Invariant
  <2> QED
    BY <1>2, <2>5, <2>6, <2>7, <2>8, InvariantNext
<1> QED
  BY <1>12, <1>13

LEMMA WriteInvariant ==
  ASSUME ShortOperands, Invariant, WriteSomeRow
  PROVE  Invariant'
<1>1. PICK i \in Hidden + 1 .. height : WriteRow(i)
  BY DEF WriteSomeRow
<1> DEFINE s == series  o == frame.origin  r == o + i  v == changes + 1
           g == [frame EXCEPT !.meta = [StaledByWrite(frame.meta) EXCEPT !.pending = NoPoint]]
           t == [s EXCEPT ![r] = v]
<1>2. /\ series' = t /\ frame' = g /\ changes' = v
      /\ UNCHANGED <<column, shared, start, bounded, answer>>
  BY <1>1 DEF WriteRow, m
<1>3. /\ s \in Seq(Nat) /\ Len(s) \in Nat /\ o \in Nat /\ height \in Nat /\ o + height = Len(s)
      /\ Hidden \in Nat /\ Low = o + Hidden /\ changes \in Nat /\ column \in Columns
      /\ Held(column, frame, s, start, Low)
  BY Sizes DEF Invariant
<1>4. r \in Nat /\ Low < r /\ r <= Len(s) /\ v \in Nat /\ 1 <= r
  <2> DEFINE n0 == height  h == Hidden  low == Low  len == Len(s)
  <2>1. /\ o \in Nat /\ n0 \in Nat /\ len \in Nat /\ o + n0 = len /\ h \in Nat /\ low = o + h
        /\ i \in h + 1 .. n0 /\ r = o + i /\ changes \in Nat /\ v = changes + 1
    BY <1>3
  <2> HIDE DEF n0, h, low, len, o, r, v
  <2>2. r \in Nat /\ low < r /\ r <= len /\ v \in Nat /\ 1 <= r
    BY ONLY <2>1
  <2> QED
    BY <2>2 DEF low, len
<1> HIDE DEF r, v
<1>5. Held(column, g, t, start, Low)
  BY <1>3, <1>4, RewrittenHeld
<1>6. g.origin = o /\ g.lead = frame.lead
  <2>1. DOMAIN frame = FrameFields
    BY <1>3 DEF Held, IsFrame
  <2> QED
    BY <2>1 DEF FrameFields
<1> HIDE DEF g
<1>7. Len(t) = Len(s)
  <2> HIDE DEF s
  <2> QED
    BY <1>3, <1>4
<1>8. Height(g, t) = height
  BY <1>6, <1>7 DEF Height, height
<1> HIDE DEF t
<1>9. HiddenOf(bounded', Height(frame', series')) = Hidden
  BY <1>2, <1>8 DEF HiddenOf, Hidden
<1>10. Held(column, frame', series', start,
            frame'.origin + HiddenOf(bounded', Height(frame', series')))
  BY <1>2, <1>3, <1>5, <1>6, <1>9
<1>11. bounded' => Lookback <= Margin /\ Height(frame', series') < bound
  BY <1>2, <1>8 DEF Invariant
<1>12. bounded' \in BOOLEAN /\ changes' \in Nat /\ answer' = "done"
  BY <1>2, <1>4 DEF Invariant
<1>13. ~shared => frame'.lead <= LeadBound(column)
  BY <1>2, <1>6 DEF Invariant
<1> QED
  BY <1>2, <1>10, <1>11, <1>12, <1>13, InvariantNext

LEMMA SelectInvariant ==
  ASSUME ShortOperands, Invariant, SelectSomeRows
  PROVE  Invariant'
<1>1. PICK a \in Hidden .. height, b \in Hidden .. height : a <= b /\ SelectRows(a, b)
  BY DEF SelectSomeRows
<1>2. PICK other \in (IF shared THEN 0 .. a + frame.lead ELSE {0}) :
        frame' = Selected(frame, series, a, b, other)
  BY <1>1 DEF SelectRows
<1> DEFINE s == series  o == frame.origin  end == o + b  to == o + a
           t == SubSeq(s, 1, end)
           g == Selected(frame, s, a, b, other)
<1>3. /\ s \in Seq(Nat) /\ Len(s) \in Nat /\ o \in Nat /\ height \in Nat /\ o + height = Len(s)
      /\ Hidden \in Nat /\ Low = o + Hidden /\ changes \in Nat /\ column \in Columns
      /\ Held(column, frame, s, start, Low) /\ frame.lead \in Nat
  BY Sizes DEF Invariant
<1>4. a \in Nat /\ b \in Nat /\ a <= b /\ other \in Nat /\ (~shared => other = 0)
  <2> DEFINE lead == frame.lead
  <2>1. a \in Hidden .. height /\ b \in Hidden .. height /\ a <= b /\ lead \in Nat
        /\ Hidden \in Nat /\ height \in Nat
        /\ other \in (IF shared THEN 0 .. a + lead ELSE {0})
    BY <1>1, <1>2, <1>3
  <2> HIDE DEF lead
  <2> QED
    BY <2>1
<1>5. /\ end \in Nat /\ to \in Nat /\ end <= Len(s) /\ Low <= end /\ Low <= to
  <2> DEFINE n0 == height  h == Hidden  low == Low  len == Len(s)
  <2>1. /\ o \in Nat /\ n0 \in Nat /\ len \in Nat /\ o + n0 = len /\ h \in Nat /\ low = o + h
        /\ a \in h .. n0 /\ b \in h .. n0 /\ end = o + b /\ to = o + a
    BY <1>1, <1>3
  <2> HIDE DEF n0, h, low, len, o, end, to
  <2>2. end \in Nat /\ to \in Nat /\ end <= len /\ low <= end /\ low <= to
    BY ONLY <2>1
  <2> QED
    BY <2>2 DEF low, len
<1>6. Agree(s, t, end) /\ Len(t) = end
  <2> HIDE DEF s, end
  <2>1. t \in Seq(Nat) /\ Len(t) = end /\ \A k \in 1 .. end : s[k] = t[k]
    <3>1. \A i \in 1 .. end : s[i] \in Nat
      <4>1. s \in Seq(Nat) /\ Len(s) \in Nat /\ end \in Nat /\ end <= Len(s)
        BY <1>3, <1>5
      <4> QED
        BY ONLY <4>1
    <3>2. 1 \in Int /\ end \in Int
      BY <1>5
    <3>3. /\ SubSeq(s, 1, end) \in Seq(Nat)
          /\ Len(SubSeq(s, 1, end)) = IF 1 <= end THEN end - 1 + 1 ELSE 0
          /\ \A i \in 1 .. end - 1 + 1 : SubSeq(s, 1, end)[i] = s[1 + i - 1]
      BY ONLY <3>1, <3>2, SubSeqProperties
    <3> HIDE DEF t
    <3>4. t = SubSeq(s, 1, end)
      BY DEF t
    <3> QED
      BY ONLY <1>5, <3>3, <3>4
  <2> QED
    BY <1>3, <1>5, <2>1 DEF Agree
<1>7. Held(column, g, t, start, to) /\ (other = 0 => g.lead <= LeadBound(column))
  <2> DEFINE low == Low
  <2>1. /\ Agree(s, t, frame.origin + b) /\ Len(t) = frame.origin + b
        /\ frame.origin + b <= Len(s) /\ low <= frame.origin + b
        /\ frame.origin + a <= to /\ low <= to /\ to \in Nat
        /\ Held(column, frame, s, start, low)
    BY <1>3, <1>5, <1>6
  <2> HIDE DEF t, to, low, s
  <2>2. /\ Held(column, Selected(frame, s, a, b, other), t, start, to)
        /\ other = 0 => Selected(frame, s, a, b, other).lead <= LeadBound(column)
    BY ONLY <1>3, <1>4, <2>1, ShortOperands, SelectedHeld
  <2> QED
    BY <2>2
<1>8. g.origin = to
  BY DEF Selected
<1> HIDE DEF g, t, to
<1>9. /\ frame' = g /\ series' = t /\ bounded' = FALSE
      /\ UNCHANGED <<column, shared, start, changes, answer>>
  BY <1>1, <1>2 DEF SelectRows, g, t
<1>10. frame'.origin + HiddenOf(bounded', Height(frame', series')) = to
  BY <1>5, <1>8, <1>9 DEF HiddenOf
<1>11. /\ bounded' \in BOOLEAN /\ changes' \in Nat /\ answer' = "done"
       /\ bounded' => Lookback <= Margin /\ Height(frame', series') < bound
  BY <1>3, <1>9 DEF Invariant
<1>12. ~shared => frame'.lead <= LeadBound(column)
  BY <1>4, <1>7, <1>9
<1>13. Held(column, frame', series', start,
            frame'.origin + HiddenOf(bounded', Height(frame', series')))
  BY <1>7, <1>9, <1>10
<1> QED
  BY <1>9, <1>11, <1>12, <1>13, InvariantNext

LEMMA AsideInvariant ==
  ASSUME ShortOperands, Invariant, SelectSomeAside
  PROVE  Invariant'
<1>1. PICK a \in Hidden .. height, b \in Hidden .. height : a <= b /\ SelectAside(a, b)
  BY DEF SelectSomeAside
<1> DEFINE s == series  o == frame.origin  r == o + a
           g == [frame EXCEPT !.meta = AnchorsAfter(frame, s, r)]
<1>2. /\ frame' = g /\ BoundaryReplayed(frame, r, o + b)
      /\ UNCHANGED <<column, shared, series, start, bounded, changes, answer>>
  BY <1>1 DEF SelectAside
<1>3. /\ s \in Seq(Nat) /\ Len(s) \in Nat /\ o \in Nat /\ height \in Nat /\ o + height = Len(s)
      /\ Hidden \in Nat /\ Low = o + Hidden /\ changes \in Nat /\ column \in Columns
      /\ Held(column, frame, s, start, Low) /\ frame.meta.since = start
  BY Sizes DEF Invariant, Held, Sized
<1>4. Recursive(column) /\ start < r
  BY <1>2, <1>3 DEF BoundaryReplayed, Carried
<1>5. r \in Nat /\ r <= Len(s)
  <2> DEFINE n0 == height  h == Hidden  len == Len(s)
  <2>1. /\ o \in Nat /\ n0 \in Nat /\ len \in Nat /\ o + n0 = len /\ h \in Nat
        /\ a \in h .. n0 /\ r = o + a
    BY <1>3
  <2> HIDE DEF n0, h, len, o, r
  <2>2. r \in Nat /\ r <= len
    BY ONLY <2>1
  <2> QED
    BY <2>2 DEF len
<1> HIDE DEF r
<1>6. Held(column, g, s, start, Low)
  BY <1>3, <1>4, <1>5, AnchorsAfterHeld
<1>7. g.origin = o /\ g.lead = frame.lead
  <2>1. DOMAIN frame = FrameFields
    BY <1>3 DEF Held, IsFrame
  <2> QED
    BY <2>1 DEF FrameFields
<1> HIDE DEF g
<1>8. Height(g, s) = height
  BY <1>7 DEF Height, height
<1>9. HiddenOf(bounded', Height(frame', series')) = Hidden
  BY <1>2, <1>8 DEF HiddenOf, Hidden
<1>10. Held(column, frame', series', start,
            frame'.origin + HiddenOf(bounded', Height(frame', series')))
  BY <1>2, <1>3, <1>6, <1>7, <1>9
<1>11. /\ bounded' \in BOOLEAN /\ changes' \in Nat /\ answer' = "done"
       /\ bounded' => Lookback <= Margin /\ Height(frame', series') < bound
       /\ ~shared => frame'.lead <= LeadBound(column)
  BY <1>2, <1>3, <1>7, <1>8 DEF Invariant
<1> QED
  BY <1>2, <1>10, <1>11, InvariantNext

(* The checkpoint of a copy is kept already when it is needed.             *)
LEMMA CheckpointedAsItIs ==
  ASSUME NEW f, NEW s, NEW st, NEW low, column \in Columns, Held(column, f, s, st, low)
  PROVE  Checkpointed(f) = f
<1>1. f.meta.since = st
  BY DEF Held, Sized
<1>2. CASE Recursive(column)
  <2>1. st < Base(f) => f.meta.cp # NoPoint
    BY <1>2 DEF Held, RecursionHeld, CheckpointHeld
  <2> QED
    BY <1>1, <2>1 DEF Checkpointed
<1>3. CASE ~Recursive(column)
  BY <1>3 DEF Checkpointed, Carried
<1> QED
  BY <1>2, <1>3

LEMMA BoundInvariant ==
  ASSUME ShortOperands, Invariant, MakeBounded
  PROVE  Invariant'
<1> DEFINE s == series  o == frame.origin  len == Len(s)
           kept == [r \in {i \in DOMAIN m.anchors : i < o + m.valid} |-> m.anchors[r]]
           meta == [frame.meta EXCEPT !.anchors = kept]
           copy == [frame EXCEPT !.meta = meta]
           full == height >= bound
<1>1. /\ s \in Seq(Nat) /\ len \in Nat /\ o \in Nat /\ height \in Nat /\ o + height = len
      /\ changes \in Nat /\ column \in Columns /\ Held(column, frame, s, start, Low)
      /\ Window \in Nat /\ Window > 0 /\ IsFrame(frame)
  BY Sizes DEF Invariant, Held
<1>2. ~bounded /\ Low = o /\ Reach[column].lookback <= Margin /\ Lookback <= Margin
  <2>1. ~bounded /\ Lookback <= Margin
    BY DEF MakeBounded
  <2>2. Hidden = 0
    BY <2>1 DEF Hidden
  <2> HIDE DEF o
  <2>3. o + 0 = o
    BY <1>1
  <2> QED
    BY <2>1, <2>2, <2>3 DEF Low, Lookback, o
<1>3. AnchorsOnly(frame.meta, meta) /\ meta.anchors = kept
  <2>1. DOMAIN frame.meta = MetaFields
    BY <1>1 DEF IsFrame
  <2> HIDE DEF kept
  <2> QED
    BY <2>1 DEF AnchorsOnly, MetaFields
<1>4. Recursive(column) =>
        AnchorsHeld(Reach[column].resume, s, start, Base(frame), meta.anchors)
  <2> HAVE Recursive(column)
  <2>1. AnchorsHeld(Reach[column].resume, s, start, Base(frame), frame.meta.anchors)
    BY <1>1 DEF Held, RecursionHeld
  <2>2. \A r \in DOMAIN kept : r \in DOMAIN frame.meta.anchors /\ kept[r] = frame.meta.anchors[r]
    BY DEF m
  <2> HIDE DEF kept, s
  <2> QED
    BY <1>3, <2>1, <2>2 DEF AnchorsHeld
<1> HIDE DEF meta
<1>5. Held(column, copy, s, start, Low)
  BY <1>1, <1>3, <1>4, HeldWithAnchors
<1>6. copy.origin = o /\ copy.lead = frame.lead
  BY <1>1 DEF IsFrame, FrameFields
<1>7. copy = [frame EXCEPT !.meta.anchors =
                [r \in {i \in DOMAIN @ : i < frame.origin + m.valid} |-> @[r]]]
  <2>1. DOMAIN frame.meta = MetaFields /\ DOMAIN frame = FrameFields
    BY <1>1 DEF IsFrame
  <2> QED
    BY <2>1 DEF meta, m, MetaFields, FrameFields
<1>8. Checkpointed(copy) = copy
  <2> HIDE DEF copy, s
  <2> QED
    BY <1>1, <1>5, CheckpointedAsItIs
<1> HIDE DEF copy
<1>9. /\ frame' = (IF full THEN Compacted(copy, series) ELSE copy) /\ bounded' = TRUE
      /\ UNCHANGED <<column, shared, series, start, changes, answer>>
  BY <1>7, <1>8 DEF MakeBounded
<1>10. bounded' \in BOOLEAN /\ changes' \in Nat /\ answer' = "done"
  BY <1>1, <1>9 DEF Invariant
<1>11. /\ capacity \in Nat /\ capacity > 0 /\ bound = 2 * capacity /\ capacity >= Window
  <2>1. Margin \in Nat
    BY RetainedAssumption
  <2>2. capacity \in Nat /\ bound = 2 * capacity /\ capacity >= Window + Margin /\ capacity > 0
    BY CapacityType
  <2> DEFINE cap == capacity
  <2> HIDE DEF cap
  <2>3. cap >= Window
    BY <1>1, <2>1, <2>2 DEF cap
  <2> QED
    BY <2>2, <2>3 DEF cap
<1>12. CASE full
  <2> DEFINE n0 == height  cap == capacity  win == Window  g == Compacted(copy, s)
  <2>1. /\ o + cap <= len /\ o <= len - win /\ cap < 2 * cap
        /\ len - (len - cap) = cap /\ (len - cap) + Later(cap - win, 0) = len - win
    <3>1. /\ o \in Nat /\ n0 \in Nat /\ cap \in Nat /\ win \in Nat /\ cap >= win /\ win > 0
          /\ cap > 0 /\ n0 >= 2 * cap /\ o + n0 = len
      BY <1>1, <1>11, <1>12
    <3> HIDE DEF o, n0, cap, win, len
    <3> QED
      BY ONLY <3>1 DEF Later
  <2>2. copy.origin + capacity <= Len(s) /\ Low <= Len(s) - Window
    BY <1>2, <1>6, <2>1
  <2>3. /\ Held(column, g, s, start, Len(s) - Window) /\ g.lead <= LeadBound(column)
        /\ g.origin = Len(s) - capacity
    BY <1>1, <1>2, <1>5, <2>2, CompactedHeld
  <2> HIDE DEF g
  <2>4. /\ Height(g, s) = capacity
        /\ g.origin + Later(capacity - Window, 0) = Len(s) - Window
    <3>1. Height(g, s) = Len(s) - g.origin
      BY DEF Height
    <3>2. g.origin = len - cap
      BY <2>3
    <3> HIDE DEF o, n0, cap, win, len
    <3>3. len - g.origin = cap /\ g.origin + Later(cap - win, 0) = len - win
      BY ONLY <2>1, <3>2
    <3> QED
      BY <3>1, <3>3 DEF len, cap, win
  <2>5. frame' = g /\ series' = s
    BY <1>9, <1>12 DEF g
  <2>6. Held(column, frame', series', start,
             frame'.origin + HiddenOf(bounded', Height(frame', series')))
    <3>1. HiddenOf(bounded', Height(frame', series')) = Later(capacity - Window, 0)
      BY <1>9, <2>4, <2>5 DEF HiddenOf
    <3> QED
      BY <2>3, <2>4, <2>5, <3>1
  <2>7. Lookback <= Margin /\ Height(frame', series') < bound
    <3>1. capacity < bound
      BY <1>11, <2>1
    <3> QED
      BY <1>2, <2>4, <2>5, <3>1
  <2> QED
    BY <1>9, <1>10, <2>3, <2>5, <2>6, <2>7, InvariantNext
<1>13. CASE ~full
  <2>1. frame' = copy /\ series' = s
    BY <1>9, <1>13
  <2> DEFINE to == o + HiddenOf(TRUE, height)
  <2>2. to \in Nat /\ Low <= to
    <3> DEFINE n0 == height  low == Low  win == Window
    <3>1. /\ o \in Nat /\ n0 \in Nat /\ win \in Nat /\ low = o /\ to = o + Later(n0 - win, 0)
      BY <1>1, <1>2 DEF HiddenOf
    <3> HIDE DEF o, n0, win, low, to
    <3>2. to \in Nat /\ low <= to
      BY ONLY <3>1 DEF Later
    <3> QED
      BY <3>2 DEF low
  <2>3. Held(column, copy, s, start, to)
    <3> HIDE DEF to, s
    <3> QED
      BY <1>5, <2>2, LowerHeld
  <2>4. Height(copy, s) = height
    BY <1>6 DEF Height, height
  <2>5. Held(column, frame', series', start,
             frame'.origin + HiddenOf(bounded', Height(frame', series')))
    BY <1>6, <1>9, <2>1, <2>3, <2>4 DEF to
  <2>6. bounded' => Lookback <= Margin /\ Height(frame', series') < bound
    <3> DEFINE n0 == height  top == bound
    <3>1. n0 \in Nat /\ top \in Nat /\ ~(n0 >= top)
      BY <1>1, <1>13, CapacityType
    <3> HIDE DEF n0, top
    <3>2. n0 < top
      BY ONLY <3>1
    <3> QED
      BY <1>2, <2>1, <2>4, <3>2 DEF n0, top
  <2>7. ~shared => frame'.lead <= LeadBound(column)
    BY <1>6, <2>1 DEF Invariant
  <2> QED
    BY <1>9, <1>10, <2>5, <2>6, <2>7, InvariantNext
<1> QED
  BY <1>12, <1>13

LEMMA RefreshInvariant ==
  ASSUME ShortOperands, Invariant, Refresh
  PROVE  Invariant'
<1>1. PICK declines \in BOOLEAN :
        \E out \in RefreshOutcomes(frame, declines) :
          frame' = out.frame /\ answer' = out.answer
  BY DEF Refresh
<1>2. PICK out \in RefreshOutcomes(frame, declines) :
        frame' = out.frame /\ answer' = out.answer
  BY <1>1
<1>3. ~Fresh /\ UNCHANGED <<column, shared, series, start, bounded, changes>>
  BY DEF Refresh
<1>4. /\ Hidden \in Nat /\ Low = frame.origin + Hidden /\ changes \in Nat /\ column \in Columns
      /\ Held(column, frame, series, start, Low)
  BY Sizes DEF Invariant
<1> DEFINE n == height  vr == frame.meta.valid  o == frame.origin  h == Hidden  low == Low
           len == Len(series)
<1>5. vr < n /\ low <= o + h /\ low < len
  <2>1. /\ n \in Nat /\ vr \in Nat /\ vr <= n /\ vr # n /\ o \in Nat /\ o + n = len /\ h \in Nat
        /\ (n > 0 => h < n) /\ low = o + h
    BY <1>3, Sizes DEF Fresh, m
  <2> HIDE DEF n, vr, o, h, low, len
  <2> QED
    BY ONLY <2>1
<1>6. Stale(frame, Low)
  BY <1>4, <1>5 DEF Stale
<1>7. Renewed(frame, out.frame, Low) /\ out.answer = "done"
  BY <1>4, <1>5, <1>6, RefreshOutcomesHeld
<1>8. /\ Held(column, frame', series', start, Low) /\ frame'.origin = frame.origin
      /\ frame'.lead = frame.lead /\ answer' = "done"
  BY <1>2, <1>3, <1>7 DEF Renewed
<1>9. Height(frame', series') = height
  BY <1>3, <1>8 DEF Height, height
<1>10. frame'.origin + HiddenOf(bounded', Height(frame', series')) = Low
  BY <1>3, <1>4, <1>8, <1>9 DEF HiddenOf, Hidden
<1>11. /\ bounded' \in BOOLEAN /\ changes' \in Nat
       /\ bounded' => Lookback <= Margin /\ Height(frame', series') < bound
       /\ ~shared => frame'.lead <= LeadBound(column)
  BY <1>3, <1>8, <1>9 DEF Invariant
<1>12. Held(column, frame', series', start,
            frame'.origin + HiddenOf(bounded', Height(frame', series')))
  BY <1>3, <1>8, <1>10
<1> QED
  BY <1>3, <1>8, <1>11, <1>12, InvariantNext

LEMMA InvariantStep ==
  ASSUME ShortOperands, Invariant, [Next]_vars
  PROVE  Invariant'
<1>1. CASE AppendRows
  BY <1>1, AppendInvariant
<1>2. CASE WriteSomeRow
  BY <1>2, WriteInvariant
<1>3. CASE SelectSomeRows
  BY <1>3, SelectInvariant
<1>4. CASE SelectSomeAside
  BY <1>4, AsideInvariant
<1>5. CASE MakeBounded
  BY <1>5, BoundInvariant
<1>6. CASE Refresh
  BY <1>6, RefreshInvariant
<1>7. CASE UNCHANGED vars
  <2>1. UNCHANGED <<column, shared, series, start, frame, bounded, changes, answer>>
    BY <1>7 DEF vars
  <2>2. frame'.origin + HiddenOf(bounded', Height(frame', series')) = Low
    BY <2>1 DEF HiddenOf, Hidden, Low, height, Height
  <2>3. Height(frame', series') = height
    BY <2>1 DEF height
  <2> QED
    BY <2>1, <2>2, <2>3, InvariantNext DEF Invariant
<1> QED
  BY <1>1, <1>2, <1>3, <1>4, <1>5, <1>6, <1>7 DEF Next

-----------------------------------------------------------------------------
(* What the invariant says of the frame.                                   *)

LEMMA InvariantShows ==
  ASSUME Invariant
  PROVE  ShownRowsExact
<1> DEFINE s == series  st == start  o == frame.origin  h == Hidden  low == Low
           vr == frame.meta.valid  len == Len(s)
<1>1. /\ s \in Seq(Nat) /\ st \in Nat /\ o \in Nat /\ st <= o /\ h \in Nat /\ vr \in Nat
      /\ low = o + h /\ column \in Columns
      /\ RowsHeld(column, s, st, low, o, vr, frame.cells) /\ o + vr <= len /\ len \in Nat
  BY Sizes DEF Invariant, Held, Sized
<1> SUFFICES ASSUME NEW i \in Hidden + 1 .. m.valid
             PROVE  frame.cells[i] = ValueOver(series, start, frame.origin + i)
  BY DEF ShownRowsExact
<1> DEFINE r == o + i
<1>2. i \in h + 1 .. vr
  BY DEF m
<1> HIDE DEF s, st, o, h, low, vr, len
<1>3. /\ i \in 1 .. vr /\ r > low /\ r \in Nat /\ st <= r /\ r <= len
  BY ONLY <1>1, <1>2 DEF r
<1>4. frame.cells[i] = Val(column, s, st, r)
  BY <1>1, <1>3 DEF RowsHeld, r
<1> HIDE DEF r
<1>5. r <= Len(s)
  BY <1>3 DEF len
<1>6. ValueOver(s, st, r) = Val(column, s, st, r)
  BY ONLY <1>1, <1>3, <1>5, ValueIs
<1> QED
  BY <1>4, <1>6 DEF r, s, st, o

LEMMA InvariantPoints ==
  ASSUME Invariant
  PROVE  PointsExact
<1> SUFFICES ASSUME Carried
             PROVE  /\ m.state # NoState => m.stateAt = frame.origin + m.valid - 1
                    /\ m.state # NoState => m.state = History(series, start, m.stateAt + 1)
                    /\ m.before # NoState => m.before = History(series, start, m.stateAt)
                    /\ ExactPoint(m.cp) /\ ExactPoint(m.pending)
                    /\ \A r \in DOMAIN m.anchors : ExactPoint(AnchorPoint(m, r))
  BY DEF PointsExact
<1> DEFINE s == series  st == start  o == frame.origin  vr == m.valid  at == m.stateAt
           w == Reach[column].resume  len == Len(s)
<1>1. /\ s \in Seq(Nat) /\ st \in Nat /\ o \in Nat /\ st <= o /\ vr \in Nat
      /\ column \in Columns /\ o + vr <= len /\ len \in Nat
      /\ StatesHeld(w, s, st, o, vr, m.state, m.before, at)
      /\ CheckpointHeld(w, s, st, Low, Base(frame), m.cp)
      /\ AnchorsHeld(w, s, st, Base(frame), m.anchors)
      /\ PendingHeld(w, s, st, m.pending)
  BY DEF Invariant, Held, Sized, RecursionHeld, Carried, m
<1>2. ASSUME NEW r \in Nat, st <= r, r <= len
      PROVE  History(s, st, r) = HistOf(w, s, st, r)
  <2> HIDE DEF s, st, w
  <2>1. History(s, st, r) = Hist(column, s, st, r)
    BY ONLY <1>1, <1>2, HistoryIs DEF len
  <2> QED
    BY <2>1 DEF Hist, w
<1>3. ASSUME NEW p, PointOf(w, s, st, p)
      PROVE  ExactPoint(p)
  <2> DEFINE q == p.rows
  <2>1. q \in st + 1 .. len /\ p.state = HistOf(w, s, st, q)
    BY <1>3 DEF PointOf
  <2> HIDE DEF s, st, w, len, q
  <2>2. q \in Nat /\ st <= q /\ q <= len
    BY ONLY <1>1, <2>1
  <2>3. p.state = History(s, st, q)
    BY <1>2, <2>1, <2>2
  <2> QED
    BY <2>3 DEF ExactPoint, q, s, st
<1>4. m.state # NoState =>
        at = o + vr - 1 /\ m.state = History(s, st, at + 1)
  <2> HAVE m.state # NoState
  <2>1. vr > 0 /\ at = o + vr - 1 /\ m.state = HistOf(w, s, st, o + vr)
    BY <1>1 DEF StatesHeld
  <2> HIDE DEF s, st, o, vr, at, w, len
  <2>2. at + 1 = o + vr /\ o + vr \in Nat /\ st <= o + vr /\ o + vr <= len
    BY ONLY <1>1, <2>1
  <2> QED
    BY <1>2, <2>1, <2>2
<1>5. m.before # NoState => m.before = History(s, st, at)
  <2> HAVE m.before # NoState
  <2>1. /\ vr > 1 /\ at = o + vr - 1 /\ m.before = HistOf(w, s, st, o + vr - 1)
    BY <1>1 DEF StatesHeld
  <2> HIDE DEF s, st, o, vr, at, w, len
  <2>2. at \in Nat /\ st <= at /\ at <= len
    BY ONLY <1>1, <2>1
  <2> QED
    BY <1>2, <2>1, <2>2
<1>6. ExactPoint(m.cp) /\ ExactPoint(m.pending)
  BY <1>1, <1>3 DEF CheckpointHeld, Usable, PendingHeld, ExactPoint
<1>7. ASSUME NEW r \in DOMAIN m.anchors
      PROVE  ExactPoint(AnchorPoint(m, r))
  <2>1. PointOf(w, s, st, AnchorPoint(m, r))
    BY <1>1 DEF AnchorsHeld, Usable, AnchorPoint
  <2> QED
    BY <1>3, <2>1
<1> QED
  BY <1>4, <1>5, <1>6, <1>7

LEMMA InvariantBounds ==
  ASSUME Invariant
  PROVE  HeldRowsBounded
<1>1. LeadBound(column) = Later(LeadReach, AnchorSpacing + Operands)
  BY DEF LeadBound, LeadOf, LeadReach, Operands, Resume, Lookback
<1> QED
  BY <1>1 DEF Invariant, HeldRowsBounded

-----------------------------------------------------------------------------
(* However a frame was grown, bounded, cut and refreshed, what it keeps of *)
(* its column's history is that history, and enough of it to go on.        *)
THEOREM HistoryKept ==
  ASSUME ShortOperands
  PROVE  Spec => []Invariant
<1>1. Init => Invariant
  BY InitInvariant
<1>2. Invariant /\ [Next]_vars => Invariant'
  BY InvariantStep
<1> QED
  BY <1>1, <1>2, PTL DEF Spec

(* Every row shown and vouched for holds the value a computation over the  *)
(* whole series would give it, whatever rows were dropped or selected away *)
(* (frame_bounded.rs:10, derive.rs:6).                                     *)
THEOREM ShownRows ==
  ASSUME ShortOperands
  PROVE  Spec => []ShownRowsExact
<1>1. Invariant => ShownRowsExact
  BY InvariantShows
<1> QED
  BY <1>1, HistoryKept, PTL

(* Every state, checkpoint and anchor a frame keeps sums up the history to *)
(* its row, through rewrites, replaced rows, drops and selections          *)
(* (history.rs, derive.rs, replay.rs).                                     *)
THEOREM PointsKept ==
  ASSUME ShortOperands
  PROVE  Spec => []PointsExact
<1>1. Invariant => PointsExact
  BY InvariantPoints
<1> QED
  BY <1>1, HistoryKept, PTL

(* A refresh never finds the history gone: a point to replay from is kept, *)
(* with the operands before it (frame_refresh.rs, replay.rs).              *)
THEOREM HistoryNeverLost ==
  ASSUME ShortOperands
  PROVE  Spec => []NeverLost
<1>1. Invariant => NeverLost
  BY DEF Invariant, NeverLost
<1> QED
  BY <1>1, HistoryKept, PTL

(* A bounded frame stays under twice its retention, and the lead within    *)
(* the column's reach or a spacing of anchors (frame_bounded.rs, lead.rs). *)
THEOREM RowsBounded ==
  ASSUME ShortOperands
  PROVE  Spec => []HeldRowsBounded
<1>1. Invariant => HeldRowsBounded
  BY InvariantBounds
<1> QED
  BY <1>1, HistoryKept, PTL

-----------------------------------------------------------------------------
(* The live row of a bounded frame.                                        *)

(* A drop carries the states along, when a valid row of them is left.      *)
Carries(g, o, vr, state) ==
  /\ DOMAIN g = MetaFields /\ g.valid = vr /\ g.state = state
  /\ state # NoState /\ vr > 0 /\ g.stateAt = o + vr - 1

LEMMA MarkedCarries ==
  ASSUME NEW f, NEW s, NEW o, NEW vr, NEW state, Carries(f.meta, o, vr, state)
  PROVE  Carries(Marked(f, s), o, vr, state) /\ Marked(f, s).since = f.meta.since
<1> DEFINE rows  == Len(s) - capacity + Operands
           moved == Carried /\ f.meta.since < Len(s) - capacity
           known == IF moved /\ DropReplays(f, rows) THEN AnchorsAfter(f, s, rows) ELSE f.meta
           p     == DropPoint(f, s, rows)
           marked == [known EXCEPT !.cp = p, !.pending = IF @.rows = rows THEN NoPoint ELSE @]
<1>1. AnchorsOnly(f.meta, known)
  <2>1. DOMAIN f.meta = MetaFields
    BY DEF Carries
  <2>2. AnchorsOnly(f.meta, f.meta)
    BY <2>1 DEF AnchorsOnly
  <2>3. AnchorsOnly(f.meta, AnchorsAfter(f, s, rows))
    <3> HIDE DEF rows
    <3> QED
      BY <2>1, AnchorsAfterOnly
  <2> HIDE DEF moved, rows
  <2> QED
    BY <2>2, <2>3
<1>2. Marked(f, s) = IF moved THEN marked ELSE known
  BY DEF Marked
<1> HIDE DEF known, moved, rows, p
<1>3. Carries(known, o, vr, state) /\ known.since = f.meta.since
  BY <1>1 DEF Carries, AnchorsOnly
<1>4. Carries(marked, o, vr, state) /\ marked.since = f.meta.since
  BY <1>3 DEF Carries, MetaFields
<1> HIDE DEF marked
<1> QED
  BY <1>2, <1>3, <1>4

LEMMA CompactedCarries ==
  ASSUME NEW f, NEW s, NEW vr \in Nat, NEW state, NEW len \in Nat, NEW left \in Nat,
         column \in Columns, IsFrame(f), f.origin \in Nat, f.meta.since \in Nat,
         Carries(f.meta, f.origin, vr, state), len = Len(s), f.origin + capacity <= len,
         f.origin + vr <= len, left = f.origin + vr + capacity - len, left > 0
  PROVE  LET g == Compacted(f, s) IN
         Carries(g.meta, g.origin, left, state)
<1> DEFINE o == f.origin  cap == capacity  a == Len(s) - capacity - o  b == Len(s) - o
           m0 == Marked(f, s)  h == [f EXCEPT !.meta = m0]  st == f.meta.since
           g == Selected(h, s, a, b, 0)  first == o + a  end == o + b
           valid == Earlier(Later(h.meta.valid - a, 0), b - a)
<1>1. Carries(m0, o, vr, state) /\ m0.since = st
  BY MarkedCarries
<1>2. Compacted(f, s) = g
  BY CompactedIs
<1> HIDE DEF m0
<1>3. h.origin = o /\ h.meta = m0
  BY DEF IsFrame, FrameFields
<1>4. /\ a \in Nat /\ b \in Nat /\ first \in Nat /\ valid = left /\ left > 0
      /\ o + vr = first + left /\ Later(first + left - 1, 0) = first + left - 1
      /\ (o + vr - 1) + 1 = first + left /\ left <= b - a
  <2>1. h.meta.valid = vr
    BY <1>1, <1>3 DEF Carries
  <2>2. /\ o \in Nat /\ cap \in Nat /\ a = len - cap - o /\ b = len - o /\ first = o + a
        /\ o + cap <= len /\ o + vr <= len /\ left = o + vr + cap - len
        /\ valid = Earlier(Later(vr - a, 0), b - a) /\ cap > 0
    BY <2>1, CapacityType
  <2> HIDE DEF o, cap, a, b, first, valid
  <2>3. /\ a \in Nat /\ b \in Nat /\ first \in Nat /\ vr - a = left /\ b - a = cap
        /\ left <= cap /\ o + vr = first + left /\ (o + vr - 1) + 1 = first + left
        /\ first + left - 1 \in Nat
    BY ONLY <2>2, vr \in Nat, len \in Nat, left \in Nat, left > 0
  <2>4. Later(left, 0) = left /\ Later(first + left - 1, 0) = first + left - 1
    BY ONLY <2>3, left \in Nat DEF Later
  <2>5. Earlier(left, cap) = left
    BY ONLY <2>2, <2>3, left \in Nat DEF Earlier
  <2> QED
    BY <2>2, <2>3, <2>4, <2>5
<1>5. Selection(h, s, st, a, b, 0, first, end, valid, g)
  <2>1. /\ DOMAIN h.meta = MetaFields /\ h.meta.since = st /\ h.origin \in Nat
        /\ first = h.origin + a /\ end = h.origin + b /\ 0 \in Nat /\ st \in Nat
        /\ valid = Earlier(Later(h.meta.valid - a, 0), b - a)
    BY <1>1, <1>3 DEF Carries
  <2> HIDE DEF h, st, a, b, first, end, valid
  <2> QED
    BY <1>4, <2>1, SelectedFields
<1>6. OwnStates(h, first, valid)
  <2>1. ResumeReady(h.meta, h.origin)
    BY <1>1, <1>3 DEF ResumeReady, Carries
  <2>2. h.meta.stateAt = o + vr - 1
    BY <1>1, <1>3 DEF Carries
  <2> HIDE DEF h, o, first, valid
  <2>3. h.meta.stateAt + 1 = first + valid /\ valid > 0
    BY ONLY <1>4, <2>2
  <2> QED
    BY <2>1, <2>3 DEF OwnStates
<1>7. /\ g.origin = first /\ DOMAIN g.meta = MetaFields /\ g.meta.valid = valid
      /\ g.meta.state = h.meta.state /\ g.meta.stateAt = Later(first + valid - 1, 0)
  <2> HIDE DEF g, h, first, valid, end, a, b, st
  <2> QED
    BY <1>5, <1>6 DEF Selection, IsFrame
<1>8. Carries(g.meta, g.origin, left, state)
  <2>1. h.meta.state = state /\ state # NoState
    BY <1>1, <1>3 DEF Carries
  <2> HIDE DEF g, h, first, valid
  <2> QED
    BY <1>4, <1>7, <2>1 DEF Carries
<1> QED
  BY <1>2, <1>8

(* A column keeps its states when the last row alone is replaced.          *)
LEMMA ReplacedCarries ==
  ASSUME NEW f, NEW vr \in Nat, NEW last \in Nat, last + 1 = vr, last > 0,
         DOMAIN f.meta = MetaFields, f.origin \in Nat, f.meta.valid = vr,
         f.meta.state # NoState, f.meta.before # NoState,
         f.meta.stateAt = f.origin + vr - 1
  PROVE  Carries(LastReplaced(f, last), f.origin, last, f.meta.before)
<1> DEFINE g == LastReplaced(f, last)  o == f.origin
<1>1. vr > last /\ o + vr - 1 > 0 /\ (o + vr - 1) - 1 = o + last - 1
  <2>1. o \in Nat
    OBVIOUS
  <2> HIDE DEF o
  <2> QED
    BY ONLY <2>1, vr \in Nat, last \in Nat, last + 1 = vr, last > 0
<1>2. /\ DOMAIN g = MetaFields
      /\ g.valid = IF f.meta.valid > last THEN last ELSE f.meta.valid
      /\ g.state = IF f.meta.valid > last THEN f.meta.before ELSE f.meta.state
      /\ g.stateAt = IF f.meta.valid > last /\ f.meta.state # NoState /\ f.meta.stateAt > 0
                     THEN f.meta.stateAt - 1 ELSE f.meta.stateAt
  BY LastReplacedMeta
<1> HIDE DEF g
<1>3. g.valid = last /\ g.state = f.meta.before /\ g.stateAt = (o + vr - 1) - 1
  BY <1>1, <1>2
<1> QED
  BY <1>1, <1>2, <1>3 DEF Carries, g

LEMMA BatchSizes ==
  ASSUME NEW s \in Seq(Nat), NEW v \in Nat, NEW n \in Nat, NEW replacing \in BOOLEAN,
         replacing => 0 < Len(s)
  PROVE  LET kept == IF replacing THEN [s EXCEPT ![Len(s)] = v] ELSE s IN
         Len(kept \o ZeroRows(n)) = Len(s) + n
<1> DEFINE len == Len(s)  kept == IF replacing THEN [s EXCEPT ![len] = v] ELSE s
<1>1. kept \in Seq(Nat) /\ Len(kept) = len
  <2>1. len \in Nat /\ (replacing => 1 <= len)
    OBVIOUS
  <2> HIDE DEF len
  <2>2. replacing => [s EXCEPT ![len] = v] \in Seq(Nat) /\ Len([s EXCEPT ![len] = v]) = Len(s)
    BY <2>1 DEF len
  <2> QED
    BY <2>2 DEF len
<1> HIDE DEF kept
<1>2. 0 \in Nat
  OBVIOUS
<1>3. Len(kept \o ZeroRows(n)) = len + n
  BY <1>1, <1>2, RowsJoined DEF ZeroRows
<1> QED
  BY <1>3 DEF kept

(* One more row, the last one replaced with it, leaves the states to       *)
(* resume from.                                                            *)
LEMMA LiveRowStep ==
  ASSUME ShortOperands, Invariant, capacity > 2, AppendRows, bounded, Carried, Fresh,
         m.state # NoState, m.before # NoState, m.valid > Resume + 1,
         Len(series') <= Len(series) + 1
  PROVE  ResumeReady(frame'.meta, frame'.origin) /\ frame'.meta.valid >= Resume
<1>1. PICK replacing \in BOOLEAN, n \in 0 .. MaxBatch : AppendBatch(replacing, n)
  BY DEF AppendRows
<1> DEFINE s == series  o == frame.origin  len == Len(s)  f == frame  w == Resume
           meta == IF replacing THEN LastReplaced(f, height - 1) ELSE f.meta
           grown == [f EXCEPT !.meta = meta, !.cells = @ \o NoCells(n)]
           full  == bounded /\ height + n >= bound
           vr    == IF replacing THEN height - 1 ELSE height
           state == IF replacing THEN m.before ELSE m.state
           len2  == Len(series')
<1>2. /\ frame' = (IF full THEN Compacted(grown, series') ELSE grown)
      /\ series' = (IF replacing THEN [s EXCEPT ![Len(s)] = changes + 1] ELSE s) \o ZeroRows(n)
      /\ replacing => height > 0
  BY <1>1 DEF AppendBatch, NoCells, ZeroRows
<1>3. /\ s \in Seq(Nat) /\ len \in Nat /\ o \in Nat /\ height \in Nat /\ o + height = len
      /\ changes + 1 \in Nat /\ IsFrame(f) /\ column \in Columns /\ f.meta.since \in Nat
      /\ m = f.meta /\ m.valid = height /\ Margin \in Nat /\ Window \in Nat
  BY Sizes, RetainedAssumption DEF Invariant, Held, Sized, m, Fresh
<1>4. n \in Nat
  BY RetainedAssumption
<1>5. w \in Nat /\ w <= Margin
  <2>1. Reach[column].resume <= Reach[column].lookback /\ Reach[column].lookback <= Margin
    BY <1>3, ShortFacts DEF Invariant, Carried, Lookback
  <2>2. Reach[column].resume \in Nat /\ Reach[column].lookback \in Nat
    BY <1>3, ReachFacts
  <2> DEFINE back == Reach[column].lookback
  <2>3. w <= back /\ back <= Margin /\ back \in Nat /\ w \in Nat
    BY <2>1, <2>2 DEF Resume
  <2> HIDE DEF w, back
  <2> QED
    BY ONLY <1>3, <2>3
<1>6. len2 = len + n /\ n <= 1 /\ len2 \in Nat
  <2>1. replacing => 0 < Len(s)
    <3> DEFINE n0 == height
    <3>1. o \in Nat /\ n0 \in Nat /\ o + n0 = len /\ (replacing => n0 > 0)
      BY <1>2, <1>3
    <3> HIDE DEF o, n0, len
    <3>2. replacing => 0 < len
      BY ONLY <3>1
    <3> QED
      BY <3>2 DEF len
  <2> DEFINE v == changes + 1
  <2>2. s \in Seq(Nat) /\ v \in Nat
    BY <1>3
  <2>3. series' = (IF replacing THEN [s EXCEPT ![Len(s)] = v] ELSE s) \o ZeroRows(n)
    BY <1>2
  <2> HIDE DEF v, s
  <2>4. Len((IF replacing THEN [s EXCEPT ![Len(s)] = v] ELSE s) \o ZeroRows(n)) = Len(s) + n
    BY ONLY <1>4, <2>1, <2>2, BatchSizes
  <2>5. len2 = len + n /\ len2 <= len + 1
    BY <2>3, <2>4 DEF s
  <2> HIDE DEF len, len2
  <2> QED
    BY ONLY <1>3, <1>4, <2>5
<1>7. /\ vr \in Nat /\ vr > w /\ o + vr <= len /\ height - 1 \in Nat /\ height - 1 > 0
      /\ (height - 1) + 1 = height /\ height + n <= vr + 2
  <2> DEFINE n0 == height
  <2>1. /\ n0 \in Nat /\ n0 > w + 1 /\ o \in Nat /\ o + n0 = len
        /\ vr = IF replacing THEN n0 - 1 ELSE n0
    BY <1>3
  <2> HIDE DEF n0, w, vr, o, len
  <2>2. /\ vr \in Nat /\ vr > w /\ o + vr <= len /\ n0 - 1 \in Nat /\ n0 - 1 > 0
        /\ (n0 - 1) + 1 = n0 /\ n0 + n <= vr + 2
    BY ONLY <1>4, <1>5, <1>6, <2>1
  <2> QED
    BY <2>2 DEF n0
<1>8. Carries(meta, o, vr, state)
  <2>1. m.stateAt = o + m.valid - 1
    BY InvariantPoints DEF PointsExact
  <2>2. CASE replacing
    <3>1. Carries(LastReplaced(f, height - 1), f.origin, height - 1, f.meta.before)
      <4>1. /\ DOMAIN f.meta = MetaFields /\ f.origin \in Nat /\ f.meta.valid = height
            /\ f.meta.state # NoState /\ f.meta.before # NoState
            /\ f.meta.stateAt = f.origin + height - 1
        BY <1>3, <2>1 DEF IsFrame
      <4> DEFINE last == height - 1
      <4>2. last \in Nat /\ last + 1 = height /\ last > 0 /\ height \in Nat
        BY <1>3, <1>7
      <4> HIDE DEF f, last
      <4>3. Carries(LastReplaced(f, last), f.origin, last, f.meta.before)
        BY ONLY <4>1, <4>2, ReplacedCarries
      <4> QED
        BY <4>3 DEF last
    <3> QED
      BY <1>3, <2>2, <3>1
  <2>3. CASE ~replacing
    <3>1. vr > 0
      <4> HIDE DEF vr, w
      <4> QED
        BY ONLY <1>5, <1>7
    <3> QED
      BY <1>3, <2>1, <2>3, <3>1 DEF Carries, IsFrame
  <2> QED
    BY <2>2, <2>3
<1>9. meta.since \in Nat
  <2>1. LastReplaced(f, height - 1).since = f.meta.since
    BY <1>3, LastReplacedMeta DEF IsFrame
  <2> QED
    BY <1>3, <2>1
<1>10. IsFrame(grown) /\ grown.origin = o /\ grown.meta = meta
  <2>1. DOMAIN meta = MetaFields
    BY <1>8 DEF Carries
  <2> HIDE DEF meta
  <2> QED
    BY <1>3, <2>1 DEF IsFrame, FrameFields
<1> HIDE DEF grown, meta, state
<1>11. CASE ~full
  <2>1. frame' = grown
    BY <1>2, <1>11
  <2>2. ResumeReady(frame'.meta, frame'.origin) /\ frame'.meta.valid = vr
    BY <1>8, <1>10, <2>1 DEF ResumeReady, Carries
  <2>3. vr >= w
    <3> HIDE DEF vr, w
    <3> QED
      BY ONLY <1>5, <1>7
  <2> QED
    BY <2>2, <2>3
<1>12. CASE full
  <2> DEFINE left == o + vr + capacity - len2  t == series'
  <2>1. /\ left \in Nat /\ left > 0 /\ left >= w /\ o + capacity <= len2 /\ o + vr <= len2
    <3> DEFINE cap == capacity  n0 == height  top == bound
    <3>1. /\ cap \in Nat /\ cap > 2 /\ top = 2 * cap /\ cap >= 2 + Margin
      <4>1. cap \in Nat /\ top = 2 * cap
        BY CapacityType
      <4>2. cap >= 2 + Margin
        <5>1. Later(Window, 2) >= 2 /\ Later(Window, 2) \in Nat
          BY <1>3 DEF Later
        <5> DEFINE two == Later(Window, 2)
        <5>2. two >= 2 /\ two \in Nat /\ cap = two + Margin
          BY <5>1 DEF capacity
        <5> HIDE DEF two, cap
        <5> QED
          BY ONLY <1>3, <5>2
      <4> QED
        BY <4>1, <4>2
    <3>2. /\ o \in Nat /\ n0 \in Nat /\ o + n0 = len /\ len2 = len + n /\ n0 + n >= top
          /\ vr \in Nat /\ o + vr <= len /\ n0 + n <= vr + 2 /\ left = o + vr + cap - len2
      BY <1>3, <1>6, <1>7, <1>12
    <3> HIDE DEF o, n0, cap, top, len, len2, vr, left, w
    <3>3. /\ left \in Nat /\ left > 0 /\ left >= w /\ o + cap <= len2 /\ o + vr <= len2
      BY ONLY <1>3, <1>4, <1>5, <3>1, <3>2
    <3> QED
      BY <3>3 DEF cap
  <2> DEFINE g == Compacted(grown, t)
  <2>2. frame' = g
    BY <1>2, <1>12
  <2>3. Carries(g.meta, g.origin, left, state)
    <3>1. /\ column \in Columns /\ IsFrame(grown) /\ grown.origin \in Nat
          /\ grown.meta.since \in Nat /\ Carries(grown.meta, grown.origin, vr, state)
          /\ len2 = Len(t) /\ grown.origin + capacity <= len2 /\ grown.origin + vr <= len2
          /\ left = grown.origin + vr + capacity - len2 /\ left > 0
          /\ vr \in Nat /\ len2 \in Nat /\ left \in Nat
      BY <1>3, <1>6, <1>7, <1>8, <1>9, <1>10, <2>1
    <3> HIDE DEF vr, len2, left, t, g
    <3>2. Carries(Compacted(grown, t).meta, Compacted(grown, t).origin, left, state)
      BY ONLY <3>1, CompactedCarries
    <3> QED
      BY <3>2 DEF g
  <2> HIDE DEF g, left
  <2> QED
    BY <2>1, <2>2, <2>3 DEF ResumeReady, Carries
<1> QED
  BY <1>11, <1>12

(* A bounded frame's live row never falls back to a replay: a fresh column *)
(* resumes after one more row, the last one replaced with it, even when    *)
(* the head is dropped under it (frame_bounded.rs:6) -- wherever more than *)
(* two rows are retained, the least that window= and max_lookback= allow.  *)
THEOREM LiveRowGoesOn ==
  ASSUME ShortOperands, capacity > 2
  PROVE  Spec => LiveRowResumes
<1>1. Invariant /\ [Next]_vars =>
        [(/\ bounded /\ bounded' /\ Carried /\ Fresh
          /\ m.state # NoState /\ m.before # NoState
          /\ m.valid > Resume + 1
          /\ Len(series') <= Len(series) + 1
          /\ AppendRows)
         => ResumeReady(frame'.meta, frame'.origin) /\ frame'.meta.valid >= Resume]_vars
  BY LiveRowStep
<1> QED
  BY <1>1, HistoryKept, PTL DEF LiveRowResumes, Spec
=============================================================================
