---------------------------- MODULE KernelProofs ----------------------------
(***************************************************************************)
(* Lemmas about the operators of Kernel and ColumnMeta.                    *)
(***************************************************************************)
EXTENDS ColumnMeta, WellFoundedInduction, TLAPS

USE DEF NoState, Missing

-----------------------------------------------------------------------------
(* Rows of a series.                                                       *)

LEMMA FunctionIsSeq ==
  ASSUME NEW S, NEW n \in Nat, NEW f \in [1 .. n -> S]
  PROVE  f \in Seq(S) /\ Len(f) = n
OBVIOUS

LEMMA FootType ==
  ASSUME NEW c \in Columns, NEW start \in Nat, NEW r \in Nat
  PROVE  Foot(c, start, r) \in Nat
BY ReachAssumption DEF Foot, Later

LEMMA FootZero ==
  ASSUME NEW c \in Columns, NEW r \in Nat
  PROVE  Foot(c, 0, r) <= r /\ (r > 0 => Foot(c, 0, r) < r)
BY ReachAssumption DEF Foot, Later

LEMMA RunType ==
  ASSUME NEW s \in Seq(Values), NEW a \in Nat, NEW b \in 0 .. Len(s), a <= b
  PROVE  Run(s, a, b) \in Seq(Values) /\ Len(Run(s, a, b)) = b - a
<1>1. \A i \in 1 .. (b - a) : s[a + i] \in Values
  OBVIOUS
<1>2. Run(s, a, b) \in [1 .. (b - a) -> Values]
  BY <1>1 DEF Run
<1>3. b - a \in Nat
  OBVIOUS
<1> QED
  BY <1>2, <1>3

(* The state of a computation is a sequence of as many rows as it covers,  *)
(* and the state as of a row that exists is never the absent state.        *)
LEMMA SummaryType ==
  ASSUME NEW c \in Columns, NEW s \in Seq(Values), NEW r \in 0 .. Len(s)
  PROVE  /\ Summary(c, s, 0, r) \in Seq(Values)
         /\ Len(Summary(c, s, 0, r)) = r - Foot(c, 0, r)
         /\ r > 0 => Summary(c, s, 0, r) # NoState
<1>1. Foot(c, 0, r) \in Nat /\ Foot(c, 0, r) <= r /\ (r > 0 => Foot(c, 0, r) < r)
  BY FootType, FootZero
<1>2. /\ Summary(c, s, 0, r) \in Seq(Values)
      /\ Len(Summary(c, s, 0, r)) = r - Foot(c, 0, r)
  BY <1>1, RunType DEF Summary
<1>3. ASSUME r > 0 PROVE Summary(c, s, 0, r) # NoState
  <2>1. Len(Summary(c, s, 0, r)) > 0
    BY <1>1, <1>2, <1>3
  <2>2. Len(<<>>) = 0
    OBVIOUS
  <2> QED
    BY <2>1, <2>2
<1> QED
  BY <1>2, <1>3

(* Continuing the state as of row `from' over the rows after it is the     *)
(* state as of row `to': a resume is a full computation.                   *)
LEMMA ExtendSummary ==
  ASSUME NEW c \in Columns, NEW s \in Seq(Values),
         NEW from \in Nat, NEW to \in 0 .. Len(s), from <= to,
         NEW prev, prev = Summary(c, s, 0, from)
  PROVE  Extend(c, prev, s, from, to) = Summary(c, s, 0, to)
<1> DEFINE f == Foot(c, 0, from)
           g == Foot(c, 0, to)
           n == Len(prev) + (to - from)
           drop == IF Recursive(c) THEN 0 ELSE Later(0, n - Reach[c].lookback - 1)
<1>1. f \in Nat /\ g \in Nat /\ f <= from /\ f <= g /\ g <= to
  BY ReachAssumption DEF Foot, Later
<1>2. Len(prev) = from - f /\ prev = Run(s, f, from)
  <2>1. prev = Run(s, f, from)
    BY DEF Summary
  <2>2. from \in 0 .. Len(s)
    OBVIOUS
  <2>3. Len(Run(s, f, from)) = from - f
    <3> HIDE DEF f
    <3> QED
      BY <1>1, <2>2, RunType
  <2> QED
    BY <2>1, <2>3
<1>3. n = to - f
  BY <1>1, <1>2
<1>4. drop = g - f
  <2>1. CASE Recursive(c)
    BY <2>1 DEF Foot
  <2>2. CASE ~Recursive(c)
    <3> DEFINE l == Reach[c].lookback
    <3>1. l \in Nat
      BY ReachAssumption
    <3>2. f = Later(0, from - l - 1) /\ g = Later(0, to - l - 1)
      BY <2>2 DEF Foot
    <3>3. drop = Later(0, to - f - l - 1)
      BY <1>3, <2>2
    <3> HIDE DEF f, g, drop, l
    <3> QED
      BY <3>1, <3>2, <3>3 DEF Later
  <2> QED
    BY <2>1, <2>2
<1>5. n - drop = to - g
  BY <1>1, <1>3, <1>4
<1>6. \A i \in 1 .. (to - g) :
        (IF i + drop <= Len(prev) THEN prev[i + drop]
                                  ELSE s[from + i + drop - Len(prev)]) = s[g + i]
  <2> SUFFICES ASSUME NEW i \in 1 .. (to - g)
               PROVE (IF i + drop <= Len(prev) THEN prev[i + drop]
                        ELSE s[from + i + drop - Len(prev)]) = s[g + i]
    OBVIOUS
  <2>1. CASE i + drop <= Len(prev)
    <3>1. i + drop \in 1 .. (from - f)
      BY <1>1, <1>2, <1>4, <2>1
    <3>2. prev[i + drop] = s[f + (i + drop)]
      BY <3>1, <1>2 DEF Run
    <3>3. f + (i + drop) = g + i
      BY <1>1, <1>4
    <3> QED
      BY <2>1, <3>2, <3>3
  <2>2. CASE ~(i + drop <= Len(prev))
    <3>1. from + i + drop - Len(prev) = g + i
      BY <1>1, <1>2, <1>4
    <3> QED
      BY <2>2, <3>1
  <2> QED
    BY <2>1, <2>2
<1> HIDE DEF n, drop, f, g
<1>7. Extend(c, prev, s, from, to) =
        [i \in 1 .. (n - drop) |->
           IF i + drop <= Len(prev) THEN prev[i + drop]
                                    ELSE s[from + i + drop - Len(prev)]]
  BY DEF Extend, n, drop
<1>8. Summary(c, s, 0, to) = [i \in 1 .. (to - g) |-> s[g + i]]
  BY DEF Summary, Run, g
<1> QED
  BY <1>5, <1>6, <1>7, <1>8
(* What a computation gives at a row depends on the rows through it only.  *)
LEMMA SummaryLocal ==
  ASSUME NEW c \in Columns, NEW s \in Seq(Values), NEW t \in Seq(Values),
         NEW r \in Nat, r <= Len(s), r <= Len(t),
         \A i \in 1 .. r : s[i] = t[i]
  PROVE  /\ Summary(c, s, 0, r) = Summary(c, t, 0, r)
         /\ Computed(c, s, 0, r) = Computed(c, t, 0, r)
<1> DEFINE f == Foot(c, 0, r)
<1>1. f \in Nat /\ f <= r
  BY FootType, FootZero
<1>2. \A i \in 1 .. (r - f) : s[f + i] = t[f + i]
  BY <1>1
<1>3. Summary(c, s, 0, r) = Summary(c, t, 0, r)
  BY <1>2 DEF Summary, Run
<1> QED
  BY <1>3 DEF Computed

(* A computation over a slice that starts more than its lookback before a  *)
(* row gives that row the value it has over the whole series.              *)
LEMMA WindowExact ==
  ASSUME NEW c \in Columns, ~Recursive(c), NEW s \in Seq(Values),
         NEW start \in Nat, NEW r \in Nat, r - start > Reach[c].lookback
  PROVE  Computed(c, s, start, r) = Computed(c, s, 0, r)
<1>1. Foot(c, start, r) = Foot(c, 0, r)
  BY ReachAssumption DEF Foot, Later
<1>2. r > Reach[c].lookback
  BY ReachAssumption
<1> QED
  BY <1>1, <1>2, ReachAssumption DEF Computed, Summary

(* Past the warm-up a value is the state read off at its row.              *)
LEMMA ComputedWarm ==
  ASSUME NEW c \in Columns, NEW s \in Seq(Values), NEW r \in Nat,
         r > Reach[c].lookback
  PROVE  Computed(c, s, 0, r) = Summary(c, s, 0, r)
BY ReachAssumption DEF Computed

LEMMA ComputedType ==
  ASSUME NEW c \in Columns, NEW s \in Seq(Values), NEW r \in 0 .. Len(s)
  PROVE  Computed(c, s, 0, r) \in Seq(Values)
<1>1. <<>> \in Seq(Values)
  OBVIOUS
<1> QED
  BY <1>1, SummaryType DEF Computed

-----------------------------------------------------------------------------
(* The record of a cached column.                                          *)

Banks == UNION {[S -> Seq(Values)] : S \in SUBSET Nat}

Meta == [valid : Nat, state : Seq(Values), before : Seq(Values), since : Nat,
         stateAt : Nat, first : Int, anchors : Banks]

(* A record in order for a column over series s: its states and anchors    *)
(* are those of the rows they are recorded at, inside the valid rows (and, *)
(* for anchors, before the last row).                                      *)
StatesOK(c, m, s) ==
  /\ m.state # NoState =>
       /\ m.stateAt < m.valid
       /\ m.state = Summary(c, s, 0, m.stateAt + 1)
  /\ m.before # NoState =>
       /\ m.state # NoState
       /\ m.stateAt > 0
       /\ m.before = Summary(c, s, 0, m.stateAt)

AnchorsOK(c, m, s) ==
  \A a \in DOMAIN m.anchors :
    /\ a \in 1 .. Len(s) - 1
    /\ m.anchors[a] = Summary(c, s, 0, a)

Good(c, m, s) ==
  /\ m \in Meta
  /\ m.since = 0
  /\ m.valid <= Len(s)
  /\ StatesOK(c, m, s)
  /\ AnchorsOK(c, m, s)

LEMMA BankType ==
  ASSUME NEW S \in SUBSET Nat, NEW f \in [S -> Seq(Values)]
  PROVE  f \in Banks
BY DEF Banks

LEMMA NoAnchorsType == NoAnchors \in Banks
<1>1. NoAnchors \in [{} -> Seq(Values)]
  BY DEF NoAnchors
<1> QED
  BY <1>1, BankType

LEMMA BankShape ==
  ASSUME NEW b \in Banks
  PROVE  /\ DOMAIN b \subseteq Nat
         /\ \A a \in DOMAIN b : b[a] \in Seq(Values)
BY DEF Banks

LEMMA LeastNat ==
  ASSUME NEW T, T \subseteq Nat, T # {}
  PROVE  \E x \in T : \A y \in T : x <= y
<1> DEFINE R == OpToRel(<, Nat)
<1>1. IsWellFoundedOn(R, Nat)
  BY NatLessThanWellFounded
<1>2. \A x, y \in Nat : y < x => <<y, x>> \in R
  BY DEF OpToRel
<1> HIDE DEF R
<1>3. \E x \in T : \A y \in T : ~(<<y, x>> \in R)
  BY <1>1, WFMin
<1>4. PICK x \in T : \A y \in T : ~(<<y, x>> \in R)
  BY <1>3
<1>5. ASSUME NEW y \in T PROVE x <= y
  <2>1. ~(y < x)
    BY <1>2, <1>4
  <2>2. x \in Nat /\ y \in Nat
    OBVIOUS
  <2> QED
    BY <2>1, <2>2
<1> QED
  BY <1>5

(* Writing rows touches the cursor, the history's start and the first      *)
(* present value, never what is carried.                                   *)
LEMMA WrittenType ==
  ASSUME NEW m \in Meta, NEW col, NEW from \in Nat, NEW end \in Nat,
         m.since = 0
  PROVE  /\ Written(m, col, 0, from, end) \in Meta
         /\ Written(m, col, 0, from, end).valid = Later(m.valid, end)
         /\ Written(m, col, 0, from, end).since = 0
         /\ Written(m, col, 0, from, end).state = m.state
         /\ Written(m, col, 0, from, end).before = m.before
         /\ Written(m, col, 0, from, end).stateAt = m.stateAt
         /\ Written(m, col, 0, from, end).anchors = m.anchors
<1> DEFINE found == FirstPresent(col, 0, from, end)
<1>1. found \in Int
  <2>1. CASE {i \in from + 1 .. end : col[i] # Missing} = {}
    BY <2>1 DEF FirstPresent, NoRow
  <2>2. CASE {i \in from + 1 .. end : col[i] # Missing} # {}
    <3> DEFINE P == {i \in from + 1 .. end : col[i] # Missing}
               least == CHOOSE i \in P : \A j \in P : i <= j
    <3>1. P \subseteq Nat /\ P # {}
      BY <2>2
    <3>2. \E i \in P : \A j \in P : i <= j
      BY <3>1, LeastNat
    <3>3. least \in P
      BY <3>2
    <3>4. FirstPresent(col, 0, from, end) = 0 + least - 1
      BY <2>2 DEF FirstPresent
    <3> QED
      BY <3>1, <3>3, <3>4
  <2> QED
    BY <2>1, <2>2
<1>2. NoteWritten(m, col, 0, from, end) \in {m, [m EXCEPT !.first = found]}
  BY DEF NoteWritten
<1> HIDE DEF found
<1> QED
  BY <1>1, <1>2 DEF Written, Meta, Later
LEMMA WrittenGood ==
  ASSUME NEW c \in Columns, NEW s \in Seq(Values), NEW m, Good(c, m, s),
         NEW col, NEW from \in Nat, NEW end \in Nat, end <= Len(s)
  PROVE  Good(c, Written(m, col, 0, from, end), s)
<1> DEFINE w == Written(m, col, 0, from, end)
<1>1. m \in Meta /\ m.since = 0
  BY DEF Good
<1>2. /\ w \in Meta /\ w.valid = Later(m.valid, end) /\ w.since = 0
      /\ w.state = m.state /\ w.before = m.before /\ w.stateAt = m.stateAt
      /\ w.anchors = m.anchors
  BY <1>1, WrittenType
<1> HIDE DEF w
<1>3. m.valid \in Nat /\ m.stateAt \in Nat
  BY <1>1 DEF Meta
<1>4. w.valid >= m.valid /\ w.valid <= Len(s)
  BY <1>2, <1>3 DEF Later, Good
<1>5. StatesOK(c, w, s)
  BY <1>2, <1>3, <1>4 DEF Good, StatesOK, Meta
<1>6. AnchorsOK(c, w, s)
  BY <1>2 DEF Good, AnchorsOK
<1> QED
  BY <1>2, <1>4, <1>5, <1>6 DEF Good, w

(* A record in order stays in order when the series grows, or changes      *)
(* behind its valid rows in the last row only.                             *)
LEMMA GoodTransfer ==
  ASSUME NEW c \in Columns, NEW s \in Seq(Values), NEW t \in Seq(Values),
         NEW m, Good(c, m, s), Len(s) <= Len(t),
         NEW n \in Nat, Len(s) - 1 <= n, n <= Len(s), m.valid <= n,
         \A i \in 1 .. n : s[i] = t[i]
  PROVE  Good(c, m, t)
<1>1. /\ m \in Meta /\ m.since = 0
      /\ m.valid \in Nat /\ m.stateAt \in Nat
  BY DEF Good, Meta
<1>2. \A r \in 0 .. n : Summary(c, s, 0, r) = Summary(c, t, 0, r)
  <2>1. ASSUME NEW r \in 0 .. n
        PROVE  Summary(c, s, 0, r) = Summary(c, t, 0, r)
    <3>1. r \in Nat /\ r <= Len(s) /\ r <= Len(t) /\ \A i \in 1 .. r : s[i] = t[i]
      OBVIOUS
    <3> QED
      BY <3>1, SummaryLocal
  <2> QED
    BY <2>1
<1>3. StatesOK(c, m, t)
  <2>1. m.state # NoState => m.stateAt + 1 \in 0 .. n
    BY <1>1 DEF Good, StatesOK
  <2>2. m.before # NoState => m.stateAt \in 0 .. n
    BY <1>1 DEF Good, StatesOK
  <2> QED
    BY <1>2, <2>1, <2>2 DEF Good, StatesOK
<1>4. AnchorsOK(c, m, t)
  <2>1. ASSUME NEW a \in DOMAIN m.anchors
        PROVE  a \in 1 .. Len(t) - 1 /\ m.anchors[a] = Summary(c, t, 0, a)
    <3>1. a \in 1 .. Len(s) - 1 /\ m.anchors[a] = Summary(c, s, 0, a)
      BY DEF Good, AnchorsOK
    <3>2. a \in 0 .. n /\ a \in 1 .. Len(t) - 1
      BY <3>1
    <3> QED
      BY <1>2, <3>1, <3>2
  <2> QED
    BY <2>1 DEF AnchorsOK
<1>5. m.valid <= Len(t)
  BY <1>1
<1> QED
  BY <1>1, <1>3, <1>4, <1>5 DEF Good

(* Dropping back by one row drops back to the state as of that row.        *)
LEMMA FormingRowGood ==
  ASSUME NEW c \in Columns, NEW s \in Seq(Values), Len(s) > 0,
         NEW m, Good(c, m, s)
  PROVE  LET f == FormingRowReplaced(m, Len(s) - 1)
         IN  Good(c, f, s) /\ f.valid <= Len(s) - 1 /\ f.valid <= m.valid
<1> DEFINE f == FormingRowReplaced(m, Len(s) - 1)
<1>1. /\ m \in Meta /\ m.since = 0 /\ m.valid <= Len(s)
      /\ m.valid \in Nat /\ m.stateAt \in Nat
      /\ m.state \in Seq(Values) /\ m.before \in Seq(Values)
  BY DEF Good, Meta
<1>2. CASE ~(m.valid > Len(s) - 1)
  <2>1. f = m
    BY <1>2 DEF FormingRowReplaced
  <2> QED
    BY <1>1, <1>2, <2>1
<1>3. CASE m.valid > Len(s) - 1
  <2>1. m.valid = Len(s)
    BY <1>1, <1>3
  <2> DEFINE at == IF m.state # NoState /\ m.stateAt > 0 THEN m.stateAt - 1 ELSE m.stateAt
  <2>2. at \in Nat /\ <<>> \in Seq(Values) /\ Len(s) - 1 \in Nat
    BY <1>1
  <2>3. f = [m EXCEPT !.valid = Len(s) - 1, !.state = m.before,
                      !.before = NoState, !.stateAt = at]
    BY <1>3 DEF FormingRowReplaced
  <2> HIDE DEF at, f
  <2>4. /\ f \in Meta /\ f.valid = Len(s) - 1 /\ f.since = 0
        /\ f.state = m.before /\ f.before = NoState /\ f.stateAt = at
        /\ f.anchors = m.anchors
    BY <1>1, <2>2, <2>3 DEF Meta
  <2>5. StatesOK(c, f, s)
    <3>1. ASSUME m.before # NoState
          PROVE  f.stateAt < f.valid /\ f.state = Summary(c, s, 0, f.stateAt + 1)
      <4>1. m.state # NoState /\ m.stateAt > 0 /\ m.stateAt < m.valid
            /\ m.before = Summary(c, s, 0, m.stateAt)
        BY <3>1 DEF Good, StatesOK
      <4>2. at = m.stateAt - 1 /\ at + 1 = m.stateAt
        BY <1>1, <4>1 DEF at
      <4> QED
        BY <1>1, <2>1, <2>4, <4>1, <4>2
    <3> QED
      BY <2>4, <3>1 DEF StatesOK
  <2>6. AnchorsOK(c, f, s)
    BY <2>4 DEF Good, AnchorsOK
  <2> QED
    BY <2>1, <2>4, <2>5, <2>6 DEF Good, f
<1> QED
  BY <1>2, <1>3

LEMMA StaledGood ==
  ASSUME NEW c \in Columns, NEW s \in Seq(Values), NEW t \in Seq(Values),
         NEW m, Good(c, m, s)
  PROVE  Good(c, StaledByWrite(m), t) /\ StaledByWrite(m).valid = 0
<1> DEFINE z == StaledByWrite(m)
<1>1. m \in Meta /\ m.since = 0
  BY DEF Good
<1>2. <<>> \in Seq(Values) /\ NoAnchors \in Banks /\ DOMAIN NoAnchors = {}
  BY NoAnchorsType DEF NoAnchors
<1>3. /\ z \in Meta /\ z.valid = 0 /\ z.since = 0 /\ z.state = NoState
      /\ z.before = NoState /\ z.anchors = NoAnchors
  BY <1>1, <1>2 DEF StaledByWrite, Meta
<1> HIDE DEF z
<1>4. StatesOK(c, z, t) /\ AnchorsOK(c, z, t)
  BY <1>2, <1>3 DEF StatesOK, AnchorsOK
<1> QED
  BY <1>3, <1>4 DEF Good, z

LEMMA NewGood ==
  ASSUME NEW c \in Columns, NEW s \in Seq(Values), NEW col
  PROVE  Good(c, NewMeta(col, 0, Len(s)), s) /\ NewMeta(col, 0, Len(s)).valid = Len(s)
<1> DEFINE e == [valid |-> Len(s), state |-> NoState, before |-> NoState,
                 since |-> 0, stateAt |-> 0, first |-> NoRow, anchors |-> NoAnchors]
           n == NewMeta(col, 0, Len(s))
<1>1. <<>> \in Seq(Values) /\ NoAnchors \in Banks /\ DOMAIN NoAnchors = {}
  BY NoAnchorsType DEF NoAnchors
<1>2. e \in Meta /\ e.since = 0 /\ e.valid = Len(s)
  BY <1>1 DEF Meta, NoRow
<1>3. n = NoteWritten(e, col, 0, 0, Len(s))
  BY DEF NewMeta
<1> HIDE DEF e
<1>4. n = Written(e, col, 0, 0, Len(s))
  <2>1. n \in {e, [e EXCEPT !.first = FirstPresent(col, 0, 0, Len(s))]}
    BY <1>3 DEF NoteWritten
  <2> HIDE DEF n
  <2>2. n.valid = Len(s) /\ n.since = 0 /\ n = [x \in DOMAIN n |-> n[x]]
    BY <1>2, <2>1 DEF Meta
  <2>3. Later(e.valid, Len(s)) = Len(s)
    BY <1>2 DEF Later
  <2>4. Written(e, col, 0, 0, Len(s)) = [n EXCEPT !.valid = Len(s), !.since = 0]
    BY <1>3, <2>3 DEF Written
  <2> QED
    BY <2>2, <2>4
<1>5. Good(c, e, s)
  BY <1>1, <1>2 DEF Good, StatesOK, AnchorsOK, e
<1>6. /\ Good(c, Written(e, col, 0, 0, Len(s)), s)
      /\ Written(e, col, 0, 0, Len(s)).valid = Len(s)
  <2>1. Written(e, col, 0, 0, Len(s)).valid = Later(Len(s), Len(s))
    BY <1>2, WrittenType
  <2>2. Len(s) \in Nat
    OBVIOUS
  <2> QED
    BY <1>5, <2>1, <2>2, WrittenGood DEF Later
<1> QED
  BY <1>4, <1>6
(* The states a computation, a resume or a replay leaves.                  *)
LEMMA WithStatesGood ==
  ASSUME NEW c \in Columns, NEW s \in Seq(Values), NEW m, Good(c, m, s),
         NEW state, state = NoState \/ state = Summary(c, s, 0, m.valid),
         NEW before,
         before = NoState \/ (m.valid > 1 => before = Summary(c, s, 0, m.valid - 1))
  PROVE  /\ Good(c, WithStates(m, 0, state, before), s)
         /\ WithStates(m, 0, state, before).valid = m.valid
         /\ WithStates(m, 0, state, before).anchors = m.anchors
<1> DEFINE w == WithStates(m, 0, state, before)
<1>1. /\ m \in Meta /\ m.since = 0 /\ m.valid <= Len(s)
      /\ m.valid \in Nat /\ m.stateAt \in Nat
  BY DEF Good, Meta
<1>2. <<>> \in Seq(Values)
  OBVIOUS
<1>3. CASE m.valid = 0
  <2>1. w = [m EXCEPT !.state = NoState, !.before = NoState]
    BY <1>3 DEF WithStates
  <2> HIDE DEF w
  <2>2. /\ w \in Meta /\ w.valid = m.valid /\ w.since = 0 /\ w.state = NoState
        /\ w.before = NoState /\ w.anchors = m.anchors
    BY <1>1, <1>2, <2>1 DEF Meta
  <2>3. StatesOK(c, w, s) /\ AnchorsOK(c, w, s)
    BY <2>2 DEF StatesOK, AnchorsOK, Good
  <2> QED
    BY <1>1, <2>2, <2>3 DEF Good, w
<1>4. CASE m.valid > 0
  <2> DEFINE at == 0 + m.valid - 1
             b  == IF at > 0 /\ state # NoState THEN before ELSE NoState
  <2>1. w = [m EXCEPT !.stateAt = at, !.state = state, !.before = b]
    BY <1>4 DEF WithStates
  <2>2. at \in Nat /\ at = m.valid - 1 /\ at + 1 = m.valid /\ (at > 0 => m.valid > 1)
    BY <1>1, <1>4
  <2>3. state \in Seq(Values)
    <3>1. m.valid \in 0 .. Len(s)
      BY <1>1
    <3> QED
      BY <1>2, <3>1, SummaryType
  <2>4. b \in Seq(Values) /\ (b # NoState => state # NoState /\ at > 0
                                              /\ b = Summary(c, s, 0, at))
    <3>1. m.valid - 1 \in 0 .. Len(s)
      BY <1>1, <1>4
    <3>2. Summary(c, s, 0, m.valid - 1) \in Seq(Values)
      BY <3>1, SummaryType
    <3> QED
      BY <1>2, <2>2, <3>2
  <2> HIDE DEF w, at, b
  <2>5. /\ w \in Meta /\ w.valid = m.valid /\ w.since = 0 /\ w.state = state
        /\ w.before = b /\ w.stateAt = at /\ w.anchors = m.anchors
    BY <1>1, <2>1, <2>2, <2>3, <2>4 DEF Meta
  <2>6. StatesOK(c, w, s)
    <3>1. at < m.valid
      BY <1>1, <2>2
    <3> QED
      BY <2>2, <2>4, <2>5, <3>1 DEF StatesOK
  <2>7. AnchorsOK(c, w, s)
    BY <2>5 DEF AnchorsOK, Good
  <2> QED
    BY <1>1, <2>5, <2>6, <2>7 DEF Good, w
<1> QED
  BY <1>1, <1>3, <1>4

LEMMA CapturedStates ==
  ASSUME NEW c \in Columns, NEW s \in Seq(Values), NEW r \in Nat,
         NEW st \in Captured(c, s, 0, r)
  PROVE  /\ st[1] = NoState \/ st[1] = Summary(c, s, 0, r)
         /\ st[2] = NoState \/ st[2] = Summary(c, s, 0, r - 1)
BY DEF Captured

LEMMA KeepAnchorsGood ==
  ASSUME NEW c \in Columns, NEW s \in Seq(Values), NEW m, Good(c, m, s),
         NEW new, DOMAIN new \subseteq 1 .. Len(s) - 1,
         \A a \in DOMAIN new : new[a] = Summary(c, s, 0, a)
  PROVE  /\ Good(c, KeepAnchors(m, new), s)
         /\ KeepAnchors(m, new).valid = m.valid
<1> DEFINE k == KeepAnchors(m, new)
           D == DOMAIN m.anchors \cup DOMAIN new
           bank == [r \in D |-> IF r \in DOMAIN m.anchors THEN m.anchors[r] ELSE new[r]]
<1>1. m \in Meta /\ m.since = 0 /\ m.valid <= Len(s)
  BY DEF Good
<1>2. \A a \in D : a \in 1 .. Len(s) - 1 /\ bank[a] = Summary(c, s, 0, a)
  BY DEF Good, AnchorsOK
<1> HIDE DEF D
<1>3. bank \in Banks
  <2> HIDE DEF bank
  <2>1. D \subseteq Nat
    BY <1>2
  <2>2. \A a \in D : Summary(c, s, 0, a) \in Seq(Values)
    <3>1. \A a \in D : a \in 0 .. Len(s)
      BY <1>2
    <3> QED
      BY <3>1, SummaryType
  <2>3. \A a \in D : bank[a] \in Seq(Values)
    BY <1>2, <2>2
  <2>4. bank \in [D -> Seq(Values)]
    BY <2>3 DEF bank
  <2> QED
    BY <2>1, <2>4, BankType
<1>4. k = [m EXCEPT !.anchors = bank]
  BY DEF KeepAnchors, D
<1>5. DOMAIN bank = D
  OBVIOUS
<1> HIDE DEF k, bank
<1>6. /\ k \in Meta /\ k.valid = m.valid /\ k.since = 0 /\ k.state = m.state
      /\ k.before = m.before /\ k.stateAt = m.stateAt /\ k.anchors = bank
  BY <1>1, <1>3, <1>4 DEF Meta
<1>7. StatesOK(c, k, s)
  BY <1>6 DEF Good, StatesOK
<1>8. AnchorsOK(c, k, s)
  BY <1>2, <1>5, <1>6 DEF AnchorsOK
<1> QED
  BY <1>1, <1>6, <1>7, <1>8 DEF Good, k

(* A resume of one row, after the row was written.                         *)
LEMMA SteppedGood ==
  ASSUME NEW c \in Columns, NEW s \in Seq(Values), NEW m, Good(c, m, s),
         m.state # NoState, m.stateAt + 2 = m.valid,
         NEW next, next = Summary(c, s, 0, m.valid)
  PROVE  Good(c, Stepped(m, next), s) /\ Stepped(m, next).valid = m.valid
<1> DEFINE w == Stepped(m, next)
<1>1. /\ m \in Meta /\ m.since = 0 /\ m.valid <= Len(s)
      /\ m.valid \in Nat /\ m.stateAt \in Nat
      /\ m.state = Summary(c, s, 0, m.stateAt + 1)
  BY DEF Good, Meta, StatesOK
<1>2. next \in Seq(Values) /\ next # NoState
  <2>1. m.valid \in 0 .. Len(s) /\ m.valid > 0
    BY <1>1
  <2> QED
    BY <2>1, SummaryType
<1>3. /\ w \in Meta /\ w.valid = m.valid /\ w.since = 0 /\ w.state = next
      /\ w.before = m.state /\ w.stateAt = m.stateAt + 1 /\ w.anchors = m.anchors
  <2> DEFINE at == m.stateAt + 1
  <2>1. at \in Nat /\ m.state \in Seq(Values)
    BY <1>1 DEF Meta
  <2>2. w = [m EXCEPT !.before = m.state, !.state = next, !.stateAt = at]
    BY DEF Stepped
  <2> HIDE DEF at, w
  <2>3. /\ w \in Meta /\ w.valid = m.valid /\ w.since = 0 /\ w.state = next
        /\ w.before = m.state /\ w.stateAt = at /\ w.anchors = m.anchors
    BY <1>1, <1>2, <2>1, <2>2 DEF Meta
  <2> QED
    BY <2>3 DEF at
<1> HIDE DEF w
<1>4. StatesOK(c, w, s)
  <2>1. w.stateAt < w.valid /\ w.stateAt + 1 = m.valid /\ w.stateAt > 0
    BY <1>1, <1>3
  <2> QED
    BY <1>1, <1>2, <1>3, <2>1 DEF StatesOK
<1>5. AnchorsOK(c, w, s)
  BY <1>3 DEF AnchorsOK, Good
<1> QED
  BY <1>1, <1>3, <1>4, <1>5 DEF Good, w

LEMMA AdvancedGood ==
  ASSUME NEW c \in Columns, NEW s \in Seq(Values), NEW m, Good(c, m, s),
         m.state # NoState, m.stateAt + 2 = m.valid,
         NEW next, next = Summary(c, s, 0, m.valid)
  PROVE  Good(c, Advanced(m, 0, next), s) /\ Advanced(m, 0, next).valid = m.valid
<1>1. m \in Meta /\ m.valid \in Nat /\ m.stateAt \in Nat
  BY DEF Good, Meta
<1>2. 0 + m.valid - 1 = m.stateAt + 1
  BY <1>1
<1>3. Advanced(m, 0, next) = Stepped(m, next)
  BY <1>1, <1>2 DEF Advanced, Stepped, Meta
<1> QED
  BY <1>3, SteppedGood
=============================================================================
