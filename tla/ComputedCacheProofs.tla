------------------------- MODULE ComputedCacheProofs -------------------------
(***************************************************************************)
(* What is proved of ComputedCache, and at the end of the list reads that  *)
(* StagedReads adds, for any directives, reaches, values and bounds. The   *)
(* cache keeps its types, and its valid rows and carried states are exact. *)
(* A refresh brings every column its caller asked for up to the last row,  *)
(* it never takes a valid row back, the remembered first present value     *)
(* stays exact, the live row costs one step, and every answer of the cache *)
(* is one the abstract specification gives.                                *)
(*                                                                         *)
(* Valid rows alone are not inductive: a resume is only exact because the  *)
(* state it continues sums up the rows through the last valid one (Good),  *)
(* because it starts past the warm-up, and because the row it is at is the *)
(* column's cursor (JobInv). That invariant, IInv, says nothing of the     *)
(* columns a refresh has yet to reach, nor of the remembered position. RInv*)
(* adds what a running refresh still owes (Owed), and that the position    *)
(* follows every write, clear and append (FirstInv).                       *)
(***************************************************************************)
EXTENDS StagedReads, KernelProofs

Kinds  == {"absent", "cached", "plain"}
Phases == {"idle", "next", "restore", "step", "rows", "recompute"}

Jobs == [phase : Phases, want : SUBSET Columns, todo : SUBSET Columns,
         cur : SUBSET Columns, vr : Nat, warm : BOOLEAN, row : Nat]

Shape ==
  /\ series \in Seq(Values) /\ height \in 1 .. MaxRows
  /\ kind \in [Columns -> Kinds]
  /\ cells \in [Columns -> Seq(Seq(Values))]
  /\ \A c \in Columns : kind[c] # "absent" => Len(cells[c]) = height
  /\ meta \in [Columns -> Meta]
  /\ job \in Jobs

(* The column col is exact over series s through row n.                    *)
ExactThrough(c, col, s, n) ==
  \A r \in 1 .. n : col[r] = Computed(c, s, 0, r)

(* A column `col' of a cached directive over series s, with its record.     *)
ColumnOK(c, m, col, s) ==
  Good(c, m, s) /\ ExactThrough(c, col, s, m.valid)

ColumnInv ==
  \A c \in Columns :
    kind[c] = "cached" => ColumnOK(c, meta[c], cells[c], series)

JobInv ==
  /\ \A c \in job.todo \cup job.cur : kind[c] = "cached"
  /\ \A c \in job.todo : meta[c].valid < height /\ c \notin job.cur
  /\ \A c, d \in job.cur : c = d
  /\ \A c \in job.cur :
       /\ job.vr <= meta[c].valid
       /\ job.phase \in {"restore", "step", "rows"} =>
            /\ job.row = meta[c].valid
            /\ meta[c].valid < height
            /\ meta[c].valid >= Reach[c].lookback
       /\ job.phase = "restore" =>
            Recursive(c) /\ job.vr = meta[c].valid /\ meta[c].valid > 0

IInv == Shape /\ ColumnInv /\ JobInv

-----------------------------------------------------------------------------
LEMMA OverwrittenType ==
  ASSUME NEW col \in Seq(Seq(Values)), NEW from \in Nat, NEW end \in Nat, NEW tail,
         \A i \in from + 1 .. end : tail[i] \in Seq(Values)
  PROVE  /\ Overwritten(col, from, end, tail) \in Seq(Seq(Values))
         /\ Len(Overwritten(col, from, end, tail)) = Len(col)
<1> DEFINE o == Overwritten(col, from, end, tail)
<1>1. \A i \in 1 .. Len(col) :
        (IF from < i /\ i <= end THEN tail[i] ELSE col[i]) \in Seq(Values)
  <2>1. ASSUME NEW i \in 1 .. Len(col)
        PROVE  (IF from < i /\ i <= end THEN tail[i] ELSE col[i]) \in Seq(Values)
    <3>1. from < i /\ i <= end => i \in from + 1 .. end
      OBVIOUS
    <3>2. col[i] \in Seq(Values)
      OBVIOUS
    <3> QED
      BY <3>1, <3>2
  <2> QED
    BY <2>1
<1>2. o \in [1 .. Len(col) -> Seq(Values)]
  BY <1>1 DEF Overwritten
<1>3. Len(col) \in Nat
  OBVIOUS
<1> QED
  BY <1>2, <1>3, FunctionIsSeq

LEMMA OverwrittenExact ==
  ASSUME NEW c \in Columns, NEW s \in Seq(Values), NEW col,
         Len(col) = Len(s), NEW v \in Nat, v <= Len(s),
         ExactThrough(c, col, s, v),
         NEW from \in Nat, from <= v, NEW end \in Nat, end <= Len(s), NEW tail,
         \A i \in from + 1 .. end : tail[i] = Computed(c, s, 0, i)
  PROVE  ExactThrough(c, Overwritten(col, from, end, tail), s, Later(v, end))
<1> SUFFICES ASSUME NEW r \in 1 .. Later(v, end)
             PROVE  Overwritten(col, from, end, tail)[r] = Computed(c, s, 0, r)
  BY DEF ExactThrough
<1>1. r \in 1 .. Len(col)
  BY DEF Later
<1>2. Overwritten(col, from, end, tail)[r] =
        IF from < r /\ r <= end THEN tail[r] ELSE col[r]
  BY <1>1 DEF Overwritten
<1>3. CASE from < r /\ r <= end
  <2>1. r \in from + 1 .. end
    BY <1>3
  <2> QED
    BY <1>2, <1>3, <2>1
<1>4. CASE ~(from < r /\ r <= end)
  <2>1. r \in 1 .. v
    BY <1>4 DEF Later
  <2> QED
    BY <1>2, <1>4, <2>1 DEF ExactThrough
<1> QED
  BY <1>3, <1>4

(* Two sequences agree on their first n elements.                           *)
SameThrough(a, b, n) == \A i \in 1 .. n : a[i] = b[i]

LEMMA SameShorter ==
  ASSUME NEW a, NEW b, NEW n \in Int, NEW m \in Int, m <= n, SameThrough(a, b, n)
  PROVE  SameThrough(a, b, m)
BY DEF SameThrough

LEMMA ExactTransfer ==
  ASSUME NEW c \in Columns, NEW s \in Seq(Values), NEW t \in Seq(Values),
         NEW v \in Nat, v <= Len(s), v <= Len(t), SameThrough(s, t, v),
         NEW col, NEW col2, SameThrough(col, col2, v),
         ExactThrough(c, col, s, v)
  PROVE  ExactThrough(c, col2, t, v)
<1> SUFFICES ASSUME NEW r \in 1 .. v
             PROVE  col2[r] = Computed(c, t, 0, r)
  BY DEF ExactThrough
<1>1. col2[r] = col[r] /\ col[r] = Computed(c, s, 0, r)
  BY DEF ExactThrough, SameThrough
<1>2. r \in Nat /\ r <= Len(s) /\ r <= Len(t) /\ \A i \in 1 .. r : s[i] = t[i]
  BY DEF SameThrough
<1>3. Computed(c, s, 0, r) = Computed(c, t, 0, r)
  BY <1>2, SummaryLocal
<1> QED
  BY <1>1, <1>3

(* What one write of computed rows does to the shape and the exactness of  *)
(* the columns; m is the record it leaves.                                 *)
LEMMA ComputedWrite ==
  ASSUME Shape, ColumnInv,
         NEW c \in Columns, kind[c] = "cached",
         NEW from \in Nat, NEW end \in Nat, NEW tail,
         \A i \in from + 1 .. end : tail[i] = Computed(c, series, 0, i),
         WriteComputed(c, from, end, tail),
         NEW m, meta' = [meta EXCEPT ![c] = m], Good(c, m, series),
         m.valid = Later(meta[c].valid, end),
         job' \in Jobs
  PROVE  /\ Shape' /\ ColumnInv'
         /\ \A d \in Columns : d # c => meta'[d] = meta[d]
         /\ meta'[c].valid = Later(meta[c].valid, end)
<1>1. /\ series' = series /\ kind' = kind /\ end <= Len(series)
      /\ from <= meta[c].valid
      /\ cells' = [cells EXCEPT ![c] = Overwritten(cells[c], from, end, tail)]
  BY DEF WriteComputed, MayWrite, height
<1>2. /\ series \in Seq(Values) /\ cells \in [Columns -> Seq(Seq(Values))]
      /\ Len(cells[c]) = Len(series) /\ meta \in [Columns -> Meta]
      /\ meta[c].valid \in Nat /\ meta[c].valid <= Len(series)
      /\ ExactThrough(c, cells[c], series, meta[c].valid)
  BY DEF Shape, ColumnInv, ColumnOK, Good, Meta, height
<1> DEFINE o == Overwritten(cells[c], from, end, tail)
<1>3. o \in Seq(Seq(Values)) /\ Len(o) = Len(series)
  <2>1. \A i \in from + 1 .. end : tail[i] \in Seq(Values)
    <3>1. ASSUME NEW i \in from + 1 .. end PROVE tail[i] \in Seq(Values)
      <4>1. i \in 0 .. Len(series)
        BY <1>1, <1>2
      <4> QED
        BY <1>2, <4>1, ComputedType
    <3> QED
      BY <3>1
  <2> QED
    BY <1>2, <2>1, OverwrittenType
<1>4. ExactThrough(c, o, series, Later(meta[c].valid, end))
  BY <1>1, <1>2, OverwrittenExact
<1> HIDE DEF o
<1>5. cells' = [cells EXCEPT ![c] = o]
  BY <1>1 DEF o
<1>6. Shape'
  <2>1. m \in Meta
    BY DEF Good
  <2>2. meta' \in [Columns -> Meta] /\ cells' \in [Columns -> Seq(Seq(Values))]
    BY <1>2, <1>3, <1>5, <2>1
  <2>3. \A d \in Columns : kind[d] # "absent" => Len(cells'[d]) = Len(series)
    BY <1>2, <1>3, <1>5 DEF Shape, height
  <2> QED
    BY <1>1, <2>2, <2>3 DEF Shape, height
<1>7. ColumnInv'
  <2>1. ASSUME NEW d \in Columns, kind[d] = "cached"
        PROVE  ColumnOK(d, meta'[d], cells'[d], series)
    <3>1. CASE d = c
      BY <1>2, <1>4, <1>5, <3>1 DEF ColumnOK
    <3>2. CASE d # c
      BY <1>2, <1>5, <2>1, <3>2 DEF ColumnInv
    <3> QED
      BY <3>1, <3>2
  <2> QED
    BY <1>1, <2>1 DEF ColumnInv
<1> QED
  BY <1>2, <1>6, <1>7
-----------------------------------------------------------------------------
LEMMA NoMetaType == \A c \in Columns : NoMeta \in Meta
<1>1. <<>> \in Seq(Values) /\ Len(<<>>) = 0
  OBVIOUS
<1> QED
  BY <1>1, NewGood DEF NoMeta, Good

LEMMA NoJobType == NoJob \in Jobs /\ NoJob.todo = {} /\ NoJob.cur = {}
BY DEF NoJob, Jobs, Phases

LEMMA InitInv == Init => IInv
<1> SUFFICES ASSUME Init PROVE IInv
  OBVIOUS
<1>1. series \in Seq(Values) /\ Len(series) = 1
  <2>1. series \in [1 .. 1 -> Values] /\ 1 \in Nat
    BY DEF Init
  <2> QED
    BY <2>1, FunctionIsSeq
<1>2. meta \in [Columns -> Meta]
  BY NoMetaType DEF Init
<1>3. cells \in [Columns -> Seq(Seq(Values))]
  BY DEF Init
<1>4. Shape
  BY <1>1, <1>2, <1>3, NoJobType, BoundsAssumption
     DEF Init, Shape, Kinds, height, Silent
<1> QED
  BY <1>4, NoJobType DEF Init, IInv, ColumnInv, JobInv

LEMMA ConcatFacts ==
  ASSUME NEW S, NEW a \in Seq(S), NEW b \in Seq(S)
  PROVE  /\ a \o b \in Seq(S) /\ Len(a \o b) = Len(a) + Len(b)
         /\ SameThrough(a, a \o b, Len(a))
BY DEF SameThrough

LEMMA PutType ==
  ASSUME NEW S, NEW a \in Seq(S), NEW r \in Nat, NEW v \in S,
         NEW b, b = [a EXCEPT ![r] = v]
  PROVE  b \in Seq(S) /\ Len(b) = Len(a)
<1>1. Len(a) \in Nat /\ a \in [1 .. Len(a) -> S]
  OBVIOUS
<1>2. b \in [1 .. Len(a) -> S]
  BY <1>1
<1> QED
  BY <1>1, <1>2, FunctionIsSeq

LEMMA ReplacedFacts ==
  ASSUME NEW S, NEW a \in Seq(S), Len(a) > 0, NEW v \in S
  PROVE  /\ [a EXCEPT ![Len(a)] = v] \in Seq(S)
         /\ Len([a EXCEPT ![Len(a)] = v]) = Len(a)
         /\ SameThrough(a, [a EXCEPT ![Len(a)] = v], Len(a) - 1)
<1>1. Len(a) \in Nat /\ [a EXCEPT ![Len(a)] = v] \in [1 .. Len(a) -> S]
  OBVIOUS
<1>2. SameThrough(a, [a EXCEPT ![Len(a)] = v], Len(a) - 1)
  BY DEF SameThrough
<1> QED
  BY <1>1, <1>2, FunctionIsSeq

(* A column when rows come behind unchanged ones.                          *)
LEMMA ColumnExtended ==
  ASSUME NEW c \in Columns, NEW s \in Seq(Values), NEW t \in Seq(Values),
         Len(s) <= Len(t), SameThrough(s, t, Len(s)),
         NEW col, NEW col2, SameThrough(col, col2, Len(s)),
         NEW m, ColumnOK(c, m, col, s)
  PROVE  ColumnOK(c, m, col2, t)
<1>1. m.valid \in Nat /\ m.valid <= Len(s) /\ Len(s) \in Nat /\ m.valid <= Len(t)
  BY DEF ColumnOK, Good, Meta
<1>2. Good(c, m, t)
  BY <1>1, GoodTransfer DEF ColumnOK, SameThrough
<1>3. SameThrough(s, t, m.valid) /\ SameThrough(col, col2, m.valid)
  BY <1>1, SameShorter
<1>4. ExactThrough(c, col2, t, m.valid)
  BY <1>1, <1>3, ExactTransfer DEF ColumnOK
<1> QED
  BY <1>2, <1>4 DEF ColumnOK

(* A column when the last row is replaced: it has dropped back behind it.  *)
LEMMA ColumnReplaced ==
  ASSUME NEW c \in Columns, NEW s \in Seq(Values), NEW t \in Seq(Values),
         Len(s) > 0, Len(s) <= Len(t), SameThrough(s, t, Len(s) - 1),
         NEW col, NEW col2, SameThrough(col, col2, Len(s)),
         NEW m, ColumnOK(c, m, col, s),
         NEW f, f = FormingRowReplaced(m, Len(s) - 1)
  PROVE  ColumnOK(c, f, col2, t)
<1>1. Good(c, f, s) /\ f.valid <= Len(s) - 1 /\ f.valid <= m.valid
  BY FormingRowGood DEF ColumnOK
<1>2. /\ f.valid \in Nat /\ m.valid \in Nat /\ Len(s) - 1 \in Nat /\ Len(s) \in Nat
      /\ f.valid <= Len(s) /\ f.valid <= Len(t)
  BY <1>1 DEF ColumnOK, Good, Meta
<1>3. Good(c, f, t)
  BY <1>1, <1>2, GoodTransfer DEF SameThrough
<1>4. ExactThrough(c, col, s, f.valid)
  BY <1>1, <1>2 DEF ExactThrough, ColumnOK
<1>5. SameThrough(s, t, f.valid) /\ SameThrough(col, col2, f.valid)
  BY <1>1, <1>2, SameShorter
<1>6. ExactThrough(c, col2, t, f.valid)
  BY <1>2, <1>4, <1>5, ExactTransfer
<1> QED
  BY <1>3, <1>6 DEF ColumnOK

(* A batch of rows: the series keeps its rows up to the replaced one, and  *)
(* a column valid through it has dropped back.                             *)
LEMMA AppendInv ==
  ASSUME IInv, NEW replacing, replacing = <<>> \/ \E v \in Values : replacing = <<v>>,
         NEW n \in Nat, NEW rows \in [1 .. n -> Values],
         AppendBatch(replacing, rows)
  PROVE  IInv'
<1> DEFINE kept == IF replacing = <<>> THEN series
                   ELSE [series EXCEPT ![Len(series)] = replacing[1]]
           pad  == [i \in 1 .. Len(rows) |-> Missing]
           lastOf(c) == IF replacing # <<>> /\ kind[c] = "plain"
                        THEN [cells[c] EXCEPT ![Len(series)] = Missing] ELSE cells[c]
<1>1. /\ series \in Seq(Values) /\ Len(series) \in Nat /\ Len(series) > 0
      /\ kind \in [Columns -> Kinds]
      /\ cells \in [Columns -> Seq(Seq(Values))]
      /\ meta \in [Columns -> Meta]
      /\ job = NoJob
  BY DEF IInv, Shape, AppendBatch, height
<1>2. rows \in Seq(Values) /\ Len(rows) = n
  BY FunctionIsSeq
<1>3. /\ series' = kept \o rows /\ Len(series) + n <= MaxRows
      /\ cells' = [c \in Columns |-> IF c \in Present THEN lastOf(c) \o pad
                                                     ELSE cells[c]]
      /\ meta' = [c \in Columns |->
                    IF c \in Cached /\ replacing # <<>>
                    THEN FormingRowReplaced(meta[c], Len(series) - 1) ELSE meta[c]]
      /\ kind' = kind /\ job' = job /\ answer' = Silent
  BY <1>2 DEF AppendBatch, height
<1>4. /\ kept \in Seq(Values) /\ Len(kept) = Len(series)
      /\ SameThrough(series, kept, Len(series) - 1)
      /\ replacing = <<>> => kept = series
  <2>1. CASE replacing = <<>>
    BY <1>1, <2>1 DEF SameThrough
  <2>2. CASE replacing # <<>>
    <3>1. replacing[1] \in Values
      BY <2>2
    <3> QED
      BY <1>1, <2>2, <3>1, ReplacedFacts
  <2> QED
    BY <2>1, <2>2
<1> HIDE DEF kept
<1>5. /\ series' \in Seq(Values) /\ Len(series') = Len(series) + n
      /\ SameThrough(series, series', Len(series) - 1)
      /\ replacing = <<>> => SameThrough(series, series', Len(series))
  <2>1. /\ kept \o rows \in Seq(Values)
        /\ Len(kept \o rows) = Len(kept) + Len(rows)
        /\ SameThrough(kept, kept \o rows, Len(kept))
    BY <1>2, <1>4, ConcatFacts
  <2>2. SameThrough(series, kept \o rows, Len(series) - 1)
    <3>1. SameThrough(kept, kept \o rows, Len(series) - 1)
      BY <1>1, <1>4, <2>1, SameShorter
    <3> QED
      BY <1>4, <3>1 DEF SameThrough
  <2> QED
    BY <1>2, <1>3, <1>4, <2>1, <2>2
<1>6. pad \in Seq(Seq(Values)) /\ Len(pad) = n
  <2>1. Missing \in Seq(Values)
    BY DEF Missing
  <2>2. pad \in [1 .. n -> Seq(Values)]
    BY <1>2, <2>1
  <2> QED
    BY <2>2, FunctionIsSeq
<1> HIDE DEF pad
<1>7. ASSUME NEW c \in Columns, kind[c] # "absent"
      PROVE  /\ lastOf(c) \in Seq(Seq(Values)) /\ Len(lastOf(c)) = Len(series)
             /\ kind[c] = "cached" => lastOf(c) = cells[c]
  <2>1. cells[c] \in Seq(Seq(Values)) /\ Len(cells[c]) = Len(series)
    BY <1>1, <1>7 DEF IInv, Shape, height
  <2>2. Missing \in Seq(Values)
    BY DEF Missing
  <2>3. /\ [cells[c] EXCEPT ![Len(cells[c])] = Missing] \in Seq(Seq(Values))
        /\ Len([cells[c] EXCEPT ![Len(cells[c])] = Missing]) = Len(cells[c])
    BY <1>1, <2>1, <2>2, ReplacedFacts
  <2> QED
    BY <2>1, <2>3
<1> HIDE DEF lastOf
<1>8. ASSUME NEW c \in Columns, kind[c] # "absent"
      PROVE  /\ cells'[c] \in Seq(Seq(Values)) /\ Len(cells'[c]) = Len(series')
             /\ kind[c] = "cached" => SameThrough(cells[c], cells'[c], Len(series))
  <2>1. cells'[c] = lastOf(c) \o pad
    BY <1>3, <1>8 DEF Present
  <2>2. /\ lastOf(c) \in Seq(Seq(Values)) /\ Len(lastOf(c)) = Len(series)
        /\ kind[c] = "cached" => lastOf(c) = cells[c]
    BY <1>7, <1>8
  <2>3. /\ lastOf(c) \o pad \in Seq(Seq(Values))
        /\ Len(lastOf(c) \o pad) = Len(lastOf(c)) + Len(pad)
        /\ SameThrough(lastOf(c), lastOf(c) \o pad, Len(lastOf(c)))
    BY <1>6, <2>2, ConcatFacts
  <2> QED
    BY <1>5, <1>6, <2>1, <2>2, <2>3
<1>9. ASSUME NEW c \in Columns, kind[c] = "cached"
      PROVE  ColumnOK(c, meta'[c], cells'[c], series')
  <2>1. ColumnOK(c, meta[c], cells[c], series)
    BY <1>9 DEF IInv, ColumnInv
  <2>2. SameThrough(cells[c], cells'[c], Len(series))
    BY <1>8, <1>9
  <2>3. Len(series) > 0 /\ Len(series) <= Len(series')
    BY <1>1, <1>5
  <2>4. CASE replacing = <<>>
    <3>1. meta'[c] = meta[c]
      BY <1>3, <2>4
    <3>2. SameThrough(series, series', Len(series))
      BY <1>5, <2>4
    <3>3. ColumnOK(c, meta[c], cells'[c], series')
      BY <1>1, <1>5, <2>1, <2>2, <2>3, <3>2, ColumnExtended
    <3> QED
      BY <3>1, <3>3
  <2>5. CASE replacing # <<>>
    <3>1. meta'[c] = FormingRowReplaced(meta[c], Len(series) - 1)
      BY <1>3, <1>9, <2>5 DEF Cached
    <3>2. SameThrough(series, series', Len(series) - 1)
      BY <1>5
    <3> QED
      BY <1>1, <1>5, <2>1, <2>2, <2>3, <3>1, <3>2, ColumnReplaced
  <2> QED
    BY <2>4, <2>5
<1>10. Shape'
  <2>1. meta' \in [Columns -> Meta]
    <3>1. ASSUME NEW c \in Columns PROVE meta'[c] \in Meta
      <4>1. CASE kind[c] = "cached"
        BY <1>9, <4>1 DEF ColumnOK, Good
      <4>2. CASE kind[c] # "cached"
        BY <1>1, <1>3, <4>2 DEF Cached
      <4> QED
        BY <4>1, <4>2
    <3> QED
      BY <1>3, <3>1
  <2>2. cells' \in [Columns -> Seq(Seq(Values))]
    <3>1. ASSUME NEW c \in Columns PROVE cells'[c] \in Seq(Seq(Values))
      BY <1>1, <1>3, <1>8 DEF Present
    <3> QED
      BY <1>3, <3>1
  <2>3. Len(series') \in 1 .. MaxRows
    BY <1>1, <1>3, <1>5, BoundsAssumption
  <2> QED
    BY <1>1, <1>3, <1>5, <1>8, <2>1, <2>2, <2>3, NoJobType
       DEF Shape, Silent, height
<1>11. ColumnInv'
  BY <1>3, <1>9 DEF ColumnInv
<1>12. JobInv'
  BY <1>1, <1>3, NoJobType DEF JobInv
<1> QED
  BY <1>10, <1>11, <1>12 DEF IInv

-----------------------------------------------------------------------------
(* A user's write: every column still cached afterwards vouches for no row *)
(* and carries nothing.                                                    *)
LEMMA StaledColumn ==
  ASSUME NEW c \in Columns, NEW s \in Seq(Values), NEW t \in Seq(Values),
         NEW col, NEW col2, NEW m, ColumnOK(c, m, col, s)
  PROVE  ColumnOK(c, StaledByWrite(m), col2, t)
<1>1. Good(c, StaledByWrite(m), t) /\ StaledByWrite(m).valid = 0
  BY StaledGood DEF ColumnOK
<1> QED
  BY <1>1 DEF ColumnOK, ExactThrough

LEMMA Invalidated ==
  ASSUME Shape, ColumnInv, NEW C, Invalidate(C), series' \in Seq(Values)
  PROVE  /\ kind' \in [Columns -> Kinds]
         /\ meta' \in [Columns -> Meta]
         /\ \A c \in Columns : kind'[c] # "absent" => c \in C \/ kind[c] # "absent"
         /\ ColumnInv'
<1>1. /\ series \in Seq(Values) /\ kind \in [Columns -> Kinds]
      /\ meta \in [Columns -> Meta]
  BY DEF Shape
<1>2. /\ kind' = [c \in Columns |-> IF c \in C THEN "plain" ELSE kind[c]]
      /\ meta' = [c \in Columns |->
                    IF c \in C THEN NoMeta
                    ELSE IF c \in Cached THEN StaledByWrite(meta[c]) ELSE meta[c]]
  BY DEF Invalidate
<1>3. kind' \in [Columns -> Kinds]
  BY <1>1, <1>2 DEF Kinds
<1>4. ASSUME NEW c \in Columns, kind'[c] = "cached"
      PROVE  kind[c] = "cached" /\ ColumnOK(c, meta'[c], cells'[c], series')
  <2>1. c \notin C /\ kind[c] = "cached"
    BY <1>2, <1>4
  <2>2. meta'[c] = StaledByWrite(meta[c])
    BY <1>2, <2>1 DEF Cached
  <2>3. ColumnOK(c, meta[c], cells[c], series)
    BY <2>1 DEF ColumnInv
  <2> QED
    BY <1>1, <2>1, <2>2, <2>3, StaledColumn
<1>5. meta' \in [Columns -> Meta]
  <2>1. ASSUME NEW c \in Columns PROVE meta'[c] \in Meta
    <3>1. CASE c \in C
      BY <1>2, <3>1, NoMetaType
    <3>2. CASE c \notin C /\ kind[c] = "cached"
      <4>1. kind'[c] = "cached"
        BY <1>2, <3>2
      <4> QED
        BY <1>4, <4>1 DEF ColumnOK, Good
    <3>3. CASE c \notin C /\ kind[c] # "cached"
      BY <1>1, <1>2, <3>3 DEF Cached
    <3> QED
      BY <3>1, <3>2, <3>3
  <2> QED
    BY <1>2, <2>1
<1>6. ColumnInv'
  BY <1>4 DEF ColumnInv
<1>7. \A c \in Columns : kind'[c] # "absent" => c \in C \/ kind[c] # "absent"
  BY <1>2
<1> QED
  BY <1>3, <1>5, <1>6, <1>7

LEMMA WriteCellsInv ==
  ASSUME IInv, NEW r \in 1 .. height, NEW v \in Values, NEW data \in BOOLEAN,
         NEW C \in SUBSET Present, WriteCells(r, v, data, C)
  PROVE  IInv'
<1>1. /\ Shape /\ ColumnInv
      /\ series \in Seq(Values) /\ height \in 1 .. MaxRows
      /\ cells \in [Columns -> Seq(Seq(Values))]
      /\ job = NoJob /\ job' = NoJob /\ answer' = Silent
      /\ Invalidate(C)
  BY DEF IInv, Shape, WriteCells
<1>2. series' \in Seq(Values) /\ Len(series') = height
  <2>1. series' = series \/ series' = [series EXCEPT ![r] = v]
    BY DEF WriteCells
  <2>2. r \in Nat
    BY <1>1
  <2> QED
    BY <1>1, <2>1, <2>2, PutType DEF height
<1>3. /\ kind' \in [Columns -> Kinds] /\ meta' \in [Columns -> Meta] /\ ColumnInv'
      /\ \A c \in Columns : kind'[c] # "absent" => c \in C \/ kind[c] # "absent"
  BY <1>1, <1>2, Invalidated
<1>4. ASSUME NEW c \in Columns
      PROVE  /\ cells'[c] \in Seq(Seq(Values))
             /\ Len(cells'[c]) = Len(cells[c])
  <2> DEFINE tail == [i \in {r} |-> <<v>>]
  <2>1. cells[c] \in Seq(Seq(Values)) /\ r \in Nat /\ r - 1 \in Nat
    BY <1>1
  <2>2. \A i \in (r - 1) + 1 .. r : tail[i] \in Seq(Values)
    BY <2>1
  <2>3. cells'[c] = cells[c] \/ cells'[c] = Overwritten(cells[c], r - 1, r, tail)
    BY <1>1 DEF WriteCells
  <2> HIDE DEF tail
  <2> QED
    BY <2>1, <2>2, <2>3, OverwrittenType
<1>5. \A c \in Columns : kind'[c] # "absent" => Len(cells'[c]) = height
  BY <1>1, <1>3, <1>4 DEF Shape, Present
<1>6. cells' \in [Columns -> Seq(Seq(Values))]
  BY <1>4 DEF WriteCells
<1>7. Shape'
  BY <1>1, <1>2, <1>3, <1>5, <1>6, NoJobType DEF Shape, Silent, height
<1>8. JobInv'
  BY <1>1, NoJobType DEF JobInv
<1> QED
  BY <1>3, <1>7, <1>8 DEF IInv

LEMMA SetDataInv ==
  ASSUME IInv, SetData
  PROVE  IInv'
<1>1. /\ Shape /\ ColumnInv /\ height \in 1 .. MaxRows /\ height \in Nat
      /\ cells \in [Columns -> Seq(Seq(Values))] /\ cells' = cells
      /\ job = NoJob /\ job' = NoJob /\ answer' = Silent
      /\ Invalidate({}) /\ series' \in [1 .. height -> Values]
  BY DEF IInv, Shape, SetData, height
<1>2. series' \in Seq(Values) /\ Len(series') = height
  BY <1>1, FunctionIsSeq
<1>3. /\ kind' \in [Columns -> Kinds] /\ meta' \in [Columns -> Meta] /\ ColumnInv'
      /\ \A c \in Columns : kind'[c] # "absent" => c \in {} \/ kind[c] # "absent"
  BY <1>1, <1>2, Invalidated
<1>4. \A c \in Columns : kind'[c] # "absent" => Len(cells'[c]) = height
  BY <1>1, <1>3 DEF Shape
<1>5. Shape'
  BY <1>1, <1>2, <1>3, <1>4, NoJobType DEF Shape, Silent, height
<1>6. JobInv'
  BY <1>1, NoJobType DEF JobInv
<1> QED
  BY <1>3, <1>5, <1>6 DEF IInv

LEMMA SetColumnInv ==
  ASSUME IInv, NEW c \in Columns, NEW v \in Values, SetColumn(c, v)
  PROVE  IInv'
<1> DEFINE new == [i \in 1 .. height |-> <<v>>]
<1>1. /\ Shape /\ ColumnInv /\ height \in 1 .. MaxRows /\ height \in Nat
      /\ series \in Seq(Values) /\ series' = series
      /\ kind \in [Columns -> Kinds] /\ meta \in [Columns -> Meta]
      /\ cells \in [Columns -> Seq(Seq(Values))] /\ cells' = [cells EXCEPT ![c] = new]
      /\ job = NoJob /\ job' = NoJob /\ answer' = Silent
  BY DEF IInv, Shape, SetColumn, height
<1>2. new \in Seq(Seq(Values)) /\ Len(new) = height
  <2>1. new \in [1 .. height -> Seq(Values)]
    OBVIOUS
  <2> QED
    BY <1>1, <2>1, FunctionIsSeq
<1> HIDE DEF new
<1>3. /\ kind' \in [Columns -> Kinds] /\ meta' \in [Columns -> Meta] /\ ColumnInv'
      /\ \A d \in Columns : kind'[d] # "absent" => d = c \/ kind[d] # "absent"
  <2>1. CASE c \in Present
    <3>1. Invalidate({c})
      BY <2>1 DEF SetColumn
    <3> QED
      BY <1>1, <3>1, Invalidated
  <2>2. CASE c \notin Present
    <3>1. kind' = [kind EXCEPT ![c] = "plain"] /\ meta' = meta
      BY <2>2 DEF SetColumn
    <3>2. ASSUME NEW d \in Columns, kind'[d] = "cached"
          PROVE  ColumnOK(d, meta'[d], cells'[d], series')
      <4>1. d # c /\ kind[d] = "cached"
        BY <1>1, <3>1, <3>2
      <4> QED
        BY <1>1, <3>1, <4>1 DEF ColumnInv
    <3> QED
      BY <1>1, <3>1, <3>2 DEF ColumnInv, Kinds
  <2> QED
    BY <2>1, <2>2
<1>4. \A d \in Columns : kind'[d] # "absent" => Len(cells'[d]) = height
  BY <1>1, <1>2, <1>3 DEF Shape
<1>5. Shape'
  BY <1>1, <1>2, <1>3, <1>4, NoJobType DEF Shape, Silent, height
<1>6. JobInv'
  BY <1>1, NoJobType DEF JobInv
<1> QED
  BY <1>3, <1>5, <1>6 DEF IInv

-----------------------------------------------------------------------------
(* What a full computation leaves: its states and the anchors it passed.   *)
LEMMA MarksBefore == \A n \in Nat : Marks(n) \subseteq 1 .. n - 1
BY DEF Marks

LEMMA CapturedGood ==
  ASSUME NEW c \in Columns, NEW s \in Seq(Values), NEW m, Good(c, m, s),
         m.valid = Len(s),
         NEW p, p = NoState \/ p = Summary(c, s, 0, Len(s)),
         NEW q, q = NoState \/ q = Summary(c, s, 0, Len(s) - 1),
         NEW bank, bank = NoAnchors \/ bank = AnchorsOf(c, s, Marks(Len(s))),
         NEW k, k = KeepAnchors(WithStates(m, 0, p, q), bank)
  PROVE  Good(c, k, s) /\ k.valid = Len(s)
<1> DEFINE w == WithStates(m, 0, p, q)
<1>2. Good(c, w, s) /\ w.valid = m.valid
  BY WithStatesGood
<1> HIDE DEF w
<1>3. /\ DOMAIN bank \subseteq 1 .. Len(s) - 1
      /\ \A a \in DOMAIN bank : bank[a] = Summary(c, s, 0, a)
  <2>1. CASE bank = NoAnchors
    BY <2>1 DEF NoAnchors
  <2>2. CASE bank = AnchorsOf(c, s, Marks(Len(s)))
    <3>1. Len(s) \in Nat
      OBVIOUS
    <3> QED
      BY <2>2, <3>1, MarksBefore DEF AnchorsOf
  <2> QED
    BY <2>1, <2>2
<1>4. Good(c, KeepAnchors(w, bank), s) /\ KeepAnchors(w, bank).valid = w.valid
  BY <1>2, <1>3, KeepAnchorsGood
<1>5. k = KeepAnchors(w, bank)
  BY DEF w
<1> QED
  BY <1>2, <1>4, <1>5

LEMMA BanksOf ==
  ASSUME NEW c \in Columns, NEW bank \in AnchorBanks(c)
  PROVE  bank = NoAnchors \/ bank = AnchorsOf(c, series, Marks(Len(series)))
BY DEF AnchorBanks, height

LEMMA CacheNewInv ==
  ASSUME IInv, NEW c \in Columns, CacheNew(c)
  PROVE  IInv'
<1> DEFINE full == [i \in 1 .. height |-> Computed(c, series, 0, i)]
<1>1. /\ Shape /\ ColumnInv /\ height \in 1 .. MaxRows /\ height \in Nat
      /\ series \in Seq(Values) /\ series' = series /\ height = Len(series)
      /\ kind \in [Columns -> Kinds] /\ kind' = [kind EXCEPT ![c] = "cached"]
      /\ meta \in [Columns -> Meta]
      /\ cells \in [Columns -> Seq(Seq(Values))] /\ cells' = [cells EXCEPT ![c] = full]
      /\ job = NoJob /\ job' = NoJob /\ answer'.what = "read"
  BY DEF IInv, Shape, CacheNew, height
<1>2. full \in Seq(Seq(Values)) /\ Len(full) = height
  <2>1. full \in [1 .. height -> Seq(Values)]
    <3>1. \A i \in 1 .. height : Computed(c, series, 0, i) \in Seq(Values)
      <4>1. \A i \in 1 .. height : i \in 0 .. Len(series)
        BY <1>1
      <4> QED
        BY <1>1, <4>1, ComputedType
    <3> QED
      BY <3>1
  <2> HIDE DEF full
  <2> QED
    BY <1>1, <2>1, FunctionIsSeq
<1>3. \A r \in 1 .. height : full[r] = Computed(c, series, 0, r)
  OBVIOUS
<1>4. PICK m :
        /\ meta' = [meta EXCEPT ![c] = m]
        /\ Good(c, m, series) /\ m.valid = height
  <2>1. PICK st \in Captured(c, series, 0, height), bank \in AnchorBanks(c) :
          meta' = [meta EXCEPT ![c] =
            KeepAnchors(WithStates(NewMeta(full, 0, height), 0, st[1], st[2]), bank)]
    BY DEF CacheNew
  <2> DEFINE new == NewMeta(full, 0, height)
  <2>2. Good(c, new, series) /\ new.valid = height
    BY <1>1, NewGood
  <2> HIDE DEF new, full
  <2> DEFINE k == KeepAnchors(WithStates(new, 0, st[1], st[2]), bank)
  <2>3. /\ st[1] = NoState \/ st[1] = Summary(c, series, 0, Len(series))
        /\ st[2] = NoState \/ st[2] = Summary(c, series, 0, Len(series) - 1)
    BY <1>1, <2>1, CapturedStates
  <2>4. bank = NoAnchors \/ bank = AnchorsOf(c, series, Marks(Len(series)))
    BY BanksOf
  <2>5. meta' = [meta EXCEPT ![c] = k]
    BY <2>1 DEF new
  <2>6. Good(c, k, series) /\ k.valid = Len(series)
    BY <1>1, <2>2, <2>3, <2>4, CapturedGood
  <2> HIDE DEF k
  <2> QED
    BY <1>1, <2>5, <2>6
<1> HIDE DEF full
<1>5. meta' \in [Columns -> Meta] /\ meta'[c] = m
  BY <1>1, <1>4 DEF Good
<1>6. cells' \in [Columns -> Seq(Seq(Values))] /\ cells'[c] = full
  BY <1>1, <1>2
<1>7. Shape'
  <2>1. \A d \in Columns : kind'[d] # "absent" => Len(cells'[d]) = height
    BY <1>1, <1>2, <1>6 DEF Shape
  <2>2. kind' \in [Columns -> Kinds]
    BY <1>1 DEF Kinds
  <2> QED
    BY <1>1, <1>5, <1>6, <2>1, <2>2, NoJobType DEF Shape, height
<1>8. ColumnInv'
  <2>1. ASSUME NEW d \in Columns, kind'[d] = "cached"
        PROVE  ColumnOK(d, meta'[d], cells'[d], series')
    <3>1. CASE d = c
      BY <1>1, <1>3, <1>4, <1>5, <1>6, <3>1 DEF ColumnOK, ExactThrough
    <3>2. CASE d # c
      BY <1>1, <1>4, <2>1, <3>2 DEF ColumnInv
    <3> QED
      BY <3>1, <3>2
  <2> QED
    BY <2>1 DEF ColumnInv
<1>9. JobInv'
  BY <1>1, NoJobType DEF JobInv
<1> QED
  BY <1>7, <1>8, <1>9 DEF IInv

(* Calls that only start a refresh, or only answer.                        *)
LEMMA StartJobInv ==
  ASSUME IInv, job = NoJob, NEW want \in SUBSET Columns, NEW todo \in SUBSET StaleColumns,
         StartJob(want, todo), UNCHANGED <<series, kind, cells, meta, answer>>
  PROVE  IInv'
<1>1. job' \in Jobs /\ job'.todo = todo /\ job'.cur = {}
  BY DEF StartJob, NoJob, Jobs, Phases, StaleColumns, Cached
<1>2. Shape'
  BY <1>1 DEF IInv, Shape, height
<1>3. ColumnInv'
  BY DEF IInv, ColumnInv
<1>4. JobInv'
  BY <1>1 DEF JobInv, StaleColumns, Stale, Cached, height
<1> QED
  BY <1>2, <1>3, <1>4 DEF IInv

LEMMA GetItemInv ==
  ASSUME IInv, NEW c \in Columns, GetItem(c)
  PROVE  IInv'
<1>1. StaleColumns \cap {c} \in SUBSET StaleColumns /\ {c} \in SUBSET Columns
  OBVIOUS
<1> QED
  BY <1>1, StartJobInv DEF GetItem

LEMMA FulfillInv ==
  ASSUME IInv, Fulfill
  PROVE  IInv'
<1>1. StaleColumns \in SUBSET StaleColumns /\ {} \in SUBSET Columns
  OBVIOUS
<1> QED
  BY <1>1, StartJobInv DEF Fulfill

(* Steps that leave the frame alone and keep or end the job.               *)
LEMMA FrameUnchanged ==
  ASSUME IInv, UNCHANGED <<series, kind, cells, meta>>,
         job' = NoJob \/ job' = job
  PROVE  IInv'
<1>1. Shape'
  BY NoJobType DEF IInv, Shape, height
<1>2. ColumnInv'
  BY DEF IInv, ColumnInv
<1>3. JobInv'
  BY NoJobType DEF IInv, JobInv, height
<1> QED
  BY <1>1, <1>2, <1>3 DEF IInv

LEMMA BulkReadInv ==
  ASSUME IInv, BulkRead
  PROVE  IInv'
BY FrameUnchanged DEF BulkRead

LEMMA RecomputeRaisesInv ==
  ASSUME IInv, RecomputeRaises
  PROVE  IInv'
BY FrameUnchanged DEF RecomputeRaises

LEMMA EndRefreshInv ==
  ASSUME IInv, EndRefresh
  PROVE  IInv'
BY FrameUnchanged DEF EndRefresh

LEMMA StutterInv ==
  ASSUME IInv, UNCHANGED vars
  PROVE  IInv'
BY FrameUnchanged DEF IInv, Shape, vars

-----------------------------------------------------------------------------
(* The steps of a refresh.                                                 *)
LEMMA JobShape ==
  ASSUME IInv, NEW c \in job.cur
  PROVE  /\ c \in Columns /\ kind[c] = "cached"
         /\ series \in Seq(Values) /\ height = Len(series) /\ height \in Nat
         /\ meta[c].valid \in Nat /\ meta[c].valid <= height
         /\ job.vr \in Nat /\ job.vr <= meta[c].valid
         /\ ColumnOK(c, meta[c], cells[c], series)
         /\ Good(c, meta[c], series)
<1>1. c \in Columns /\ kind[c] = "cached" /\ job.vr \in Nat /\ job.vr <= meta[c].valid
  BY DEF IInv, Shape, Jobs, JobInv
<1>2. ColumnOK(c, meta[c], cells[c], series)
  BY <1>1 DEF IInv, ColumnInv
<1>3. meta[c].valid \in Nat /\ meta[c].valid <= Len(series)
  BY <1>2 DEF ColumnOK, Good, Meta
<1> QED
  BY <1>1, <1>2, <1>3 DEF IInv, Shape, ColumnOK, height

LEMMA BeginColumnInv ==
  ASSUME IInv, NEW c \in Columns, BeginColumn(c)
  PROVE  IInv'
<1>1. /\ c \in job.todo /\ kind[c] = "cached" /\ meta[c].valid < height
      /\ Good(c, meta[c], series)
  BY DEF BeginColumn, IInv, JobInv, ColumnInv, ColumnOK
<1>2. meta[c].valid \in Nat /\ meta[c].since = 0 /\ Reach[c].lookback \in Nat
  BY <1>1, ReachAssumption DEF Good, Meta
<1>3. job \in Jobs /\ UNCHANGED <<series, kind, cells, meta, answer>>
  BY DEF BeginColumn, IInv, Shape
<1>4. /\ job' \in Jobs
      /\ job'.todo = job.todo \ {c} /\ job'.cur = {c}
      /\ job'.vr = meta[c].valid /\ job'.row = meta[c].valid
      /\ job'.phase = IF ~CanResume(c, meta[c]) THEN "recompute"
                      ELSE IF ResumeReady(meta[c], 0) THEN "step"
                      ELSE IF meta[c].valid > 0 /\ Recursive(c) THEN "restore"
                      ELSE "recompute"
  <2>1. Warm(c, meta[c], 0) \in BOOLEAN
    BY DEF Warm
  <2> QED
    BY <1>2, <1>3, <2>1 DEF BeginColumn, Jobs, Phases
<1>5. CanResume(c, meta[c]) => meta[c].valid >= Reach[c].lookback
  BY <1>2 DEF CanResume, Warm
<1>6. Shape'
  BY <1>3, <1>4 DEF IInv, Shape, height
<1>7. ColumnInv'
  BY <1>3 DEF IInv, ColumnInv
<1>8. JobInv'
  <2>1. height' = height
    BY <1>3 DEF height
  <2>2. \A d \in job'.todo \cup job'.cur : kind'[d] = "cached"
    BY <1>1, <1>3, <1>4 DEF IInv, JobInv
  <2>3. \A d \in job'.todo : meta'[d].valid < height' /\ d \notin job'.cur
    BY <1>3, <1>4, <2>1 DEF IInv, JobInv
  <2>4. /\ job'.vr <= meta'[c].valid
        /\ job'.phase \in {"restore", "step", "rows"} =>
             /\ job'.row = meta'[c].valid
             /\ meta'[c].valid < height'
             /\ meta'[c].valid >= Reach[c].lookback
        /\ job'.phase = "restore" =>
             Recursive(c) /\ job'.vr = meta'[c].valid /\ meta'[c].valid > 0
    BY <1>1, <1>2, <1>3, <1>4, <1>5, <2>1
  <2> QED
    BY <1>4, <2>2, <2>3, <2>4 DEF JobInv
<1> QED
  BY <1>6, <1>7, <1>8 DEF IInv

(* The column is done: the other columns on the list are as they were.     *)
LEMMA DoneJobInv ==
  ASSUME IInv, NEW c \in job.cur, UNCHANGED <<series, kind>>,
         \A d \in Columns : d # c => meta'[d] = meta[d],
         ColumnDone
  PROVE  JobInv' /\ job' \in Jobs
<1>1. job \in Jobs /\ job.todo \subseteq Columns
  BY DEF IInv, Shape, Jobs
<1>2. job' \in Jobs /\ job'.todo = job.todo /\ job'.cur = {}
  BY <1>1 DEF ColumnDone, Jobs, Phases
<1>3. \A d \in job.todo : d # c /\ kind[d] = "cached" /\ meta[d].valid < height
  BY DEF IInv, JobInv
<1> QED
  BY <1>1, <1>2, <1>3 DEF JobInv, height

LEMMA WriteDone ==
  ASSUME IInv, NEW c \in job.cur, NEW from \in Nat, NEW end \in Nat, NEW tail,
         \A i \in from + 1 .. end : tail[i] = Computed(c, series, 0, i),
         WriteComputed(c, from, end, tail),
         NEW m, meta' = [meta EXCEPT ![c] = m], Good(c, m, series),
         m.valid = Later(meta[c].valid, end), ColumnDone
  PROVE  IInv'
<1>1. c \in Columns /\ kind[c] = "cached"
  BY JobShape
<1>2. /\ Shape /\ ColumnInv /\ UNCHANGED <<series, kind>>
      /\ meta \in [Columns -> Meta]
  BY DEF IInv, Shape, WriteComputed
<1>3. \A d \in Columns : d # c => meta'[d] = meta[d]
  BY <1>1, <1>2
<1>4. JobInv' /\ job' \in Jobs
  BY <1>2, <1>3, DoneJobInv
<1>5. Shape' /\ ColumnInv'
  BY <1>1, <1>2, <1>4, ComputedWrite
<1> QED
  BY <1>4, <1>5 DEF IInv

(* The record Written leaves, when rows through the last one are written.  *)
LEMMA AfterWriteGood ==
  ASSUME NEW c \in Columns, NEW s \in Seq(Values), NEW m, Good(c, m, s),
         NEW col, NEW from \in Nat, NEW end \in Nat, end <= Len(s),
         NEW w, w = Written(m, col, 0, from, end)
  PROVE  /\ Good(c, w, s) /\ w.valid = Later(m.valid, end)
         /\ w.state = m.state /\ w.stateAt = m.stateAt
<1>1. m \in Meta /\ m.since = 0
  BY DEF Good
<1> QED
  BY <1>1, WrittenGood, WrittenType

(* What resuming from a column's state gives: the state as of a later row, *)
(* which past the warm-up is that row's value.                             *)
LEMMA ResumedRows ==
  ASSUME NEW c \in Columns, NEW s \in Seq(Values), NEW m, Good(c, m, s),
         ResumeReady(m, 0), m.valid >= Reach[c].lookback,
         NEW r \in Nat, m.valid < r, r <= Len(s)
  PROVE  /\ Extend(c, m.state, s, m.valid, r) = Summary(c, s, 0, r)
         /\ Summary(c, s, 0, r) = Computed(c, s, 0, r)
<1>1. /\ m.valid \in Nat /\ m.stateAt \in Nat /\ m.state # NoState
      /\ m.valid - 1 = m.stateAt
  BY DEF Good, Meta, ResumeReady
<1>2. m.state = Summary(c, s, 0, m.valid)
  BY <1>1 DEF Good, StatesOK
<1>3. r \in 0 .. Len(s) /\ m.valid <= r /\ Reach[c].lookback \in Nat
  BY <1>1, ReachAssumption
<1>4. Extend(c, m.state, s, m.valid, r) = Summary(c, s, 0, r)
  BY <1>1, <1>2, <1>3, ExtendSummary
<1>5. r > Reach[c].lookback
  BY <1>1, <1>3
<1> QED
  BY <1>4, <1>5, ComputedWarm

LEMMA StepRowInv ==
  ASSUME IInv, NEW c \in Columns, StepRow(c)
  PROVE  IInv'
<1> DEFINE v    == meta[c].valid
           next == Extend(c, meta[c].state, series, v, v + 1)
           tail == [i \in {v + 1} |-> next]
           w    == Written(meta[c], cells'[c], 0, v, v + 1)
<1>1. /\ c \in job.cur /\ kind[c] = "cached"
      /\ series \in Seq(Values) /\ height = Len(series) /\ height \in Nat
      /\ v \in Nat /\ v < height /\ v >= Reach[c].lookback /\ v + 1 \in Nat
      /\ job.row = v /\ job.vr \in Nat /\ job.vr <= v
      /\ Good(c, meta[c], series) /\ ResumeReady(meta[c], 0)
      /\ job.phase = "step"
  BY JobShape DEF StepRow, IInv, JobInv
<1>2. /\ WriteComputed(c, v, v + 1, tail)
      /\ meta' = [meta EXCEPT ![c] = Stepped(w, next)]
      /\ job' = IF v + 1 = height
                THEN [job EXCEPT !.phase = "next", !.cur = {}]
                ELSE [job EXCEPT !.row = v + 1]
  BY <1>1 DEF StepRow, AfterWrite
<1>3. next = Summary(c, series, 0, v + 1) /\ next = Computed(c, series, 0, v + 1)
  <2>1. v < v + 1 /\ v + 1 <= Len(series)
    BY <1>1
  <2> QED
    BY <1>1, <2>1, ResumedRows
<1>4. \A i \in v + 1 .. v + 1 : tail[i] = Computed(c, series, 0, i)
  BY <1>1, <1>3
<1>5. /\ Good(c, w, series) /\ w.valid = v + 1
      /\ w.state = meta[c].state /\ w.stateAt = meta[c].stateAt
  <2> HIDE DEF w
  <2>1. w = Written(meta[c], cells'[c], 0, v, v + 1) /\ v + 1 <= Len(series)
    BY <1>1 DEF w
  <2>2. /\ Good(c, w, series) /\ w.valid = Later(v, v + 1)
        /\ w.state = meta[c].state /\ w.stateAt = meta[c].stateAt
    BY <1>1, <2>1, AfterWriteGood
  <2> QED
    BY <1>1, <2>2 DEF Later
<1> HIDE DEF w, next, tail
<1>6. w.state # NoState /\ w.stateAt + 2 = w.valid
  <2>1. meta[c].state # NoState /\ v - 1 = meta[c].stateAt
    BY <1>1 DEF ResumeReady, Good, Meta
  <2> QED
    BY <1>1, <1>5, <2>1
<1>7. Good(c, Stepped(w, next), series) /\ Stepped(w, next).valid = v + 1
  <2>1. next = Summary(c, series, 0, w.valid)
    BY <1>3, <1>5
  <2> QED
    BY <1>1, <1>5, <1>6, <2>1, SteppedGood
<1>8. Later(v, v + 1) = v + 1
  BY <1>1 DEF Later
<1>9. /\ Shape /\ ColumnInv /\ UNCHANGED <<series, kind>>
      /\ job \in Jobs /\ job.todo \subseteq Columns
  <2>1. Shape /\ ColumnInv /\ job \in Jobs
    BY DEF IInv, Shape
  <2>2. UNCHANGED <<series, kind>>
    BY <1>2 DEF WriteComputed
  <2> QED
    BY <2>1, <2>2 DEF Jobs
<1>10. job' \in Jobs
  <2>1. CASE v + 1 = height
    BY <1>2, <1>9, <2>1 DEF Jobs, Phases
  <2>2. CASE v + 1 # height
    BY <1>1, <1>2, <1>9, <2>2 DEF Jobs, Phases
  <2> QED
    BY <2>1, <2>2
<1>11. /\ Shape' /\ ColumnInv'
       /\ \A d \in Columns : d # c => meta'[d] = meta[d]
       /\ meta'[c].valid = v + 1
  <2> DEFINE m == Stepped(w, next)
  <2>1. meta' = [meta EXCEPT ![c] = m] /\ m.valid = Later(v, v + 1) /\ Good(c, m, series)
    BY <1>2, <1>7, <1>8
  <2>2. /\ v \in Nat /\ v + 1 \in Nat /\ m.valid = Later(meta[c].valid, v + 1)
        /\ WriteComputed(c, v, v + 1, tail)
        /\ \A i \in v + 1 .. v + 1 : tail[i] = Computed(c, series, 0, i)
    BY <1>1, <1>2, <1>4, <2>1
  <2> HIDE DEF m
  <2>3. /\ Shape' /\ ColumnInv'
        /\ \A d \in Columns : d # c => meta'[d] = meta[d]
        /\ meta'[c].valid = Later(meta[c].valid, v + 1)
    <3> HIDE DEF v
    <3> QED
      BY <1>1, <1>9, <1>10, <2>1, <2>2, ComputedWrite
  <2> QED
    BY <1>8, <2>3
<1>12. JobInv'
  <2>1. CASE v + 1 = height
    <3>1. job'.todo = job.todo /\ job'.cur = {}
      BY <1>2, <1>9, <2>1 DEF Jobs
    <3>2. \A d \in job.todo : d # c /\ kind[d] = "cached" /\ meta[d].valid < height
      BY <1>1 DEF IInv, JobInv
    <3> QED
      BY <1>9, <1>11, <3>1, <3>2 DEF JobInv, height
  <2>2. CASE v + 1 # height
    <3>1. /\ job'.todo = job.todo /\ job'.cur = job.cur /\ job'.row = v + 1
          /\ job'.phase = "step" /\ job'.vr = job.vr
      BY <1>1, <1>2, <1>9, <2>2 DEF Jobs
    <3>2. /\ \A d \in job.todo : d # c /\ kind[d] = "cached" /\ meta[d].valid < height
          /\ \A d \in job.todo : d \notin job.cur
          /\ \A d \in job.cur : d = c
          /\ \A d, e \in job.cur : d = e
      BY <1>1 DEF IInv, JobInv
    <3>3. /\ job.vr <= v + 1 /\ v + 1 < height /\ v + 1 >= Reach[c].lookback
      BY <1>1, <2>2, ReachAssumption
    <3>4. height' = height
      BY <1>9 DEF height
    <3>5. \A d \in job'.todo \cup job'.cur : kind'[d] = "cached"
      BY <1>1, <1>9, <3>1, <3>2
    <3>6. \A d \in job'.todo : meta'[d].valid < height' /\ d \notin job'.cur
      BY <1>9, <1>11, <3>1, <3>2, <3>4
    <3>7. \A d \in job'.cur :
            /\ job'.vr <= meta'[d].valid
            /\ job'.row = meta'[d].valid
            /\ meta'[d].valid < height'
            /\ meta'[d].valid >= Reach[d].lookback
      BY <1>11, <3>1, <3>2, <3>3, <3>4
    <3> QED
      BY <3>1, <3>2, <3>5, <3>6, <3>7 DEF JobInv
  <2> QED
    BY <2>1, <2>2
<1> QED
  BY <1>11, <1>12 DEF IInv

(* Steps that only change the phase, to one that asks no more of the job.  *)
LEMMA StepDeclinesInv ==
  ASSUME IInv, StepDeclines
  PROVE  IInv'
<1>1. /\ job \in Jobs /\ job.phase = "step" /\ UNCHANGED <<series, kind, cells, meta, answer>>
      /\ job' = [job EXCEPT !.phase = "rows"]
  BY DEF IInv, Shape, StepDeclines, Goto
<1>2. /\ job' \in Jobs /\ job'.todo = job.todo /\ job'.cur = job.cur
      /\ job'.row = job.row /\ job'.vr = job.vr /\ job'.phase = "rows"
  BY <1>1 DEF Jobs, Phases
<1>3. Shape' /\ ColumnInv'
  BY <1>1, <1>2 DEF IInv, Shape, ColumnInv, height
<1>4. JobInv'
  BY <1>1, <1>2 DEF IInv, JobInv, height
<1> QED
  BY <1>3, <1>4 DEF IInv

LEMMA ResumeDeclinesInv ==
  ASSUME IInv, ResumeDeclines
  PROVE  IInv'
<1>1. /\ job \in Jobs /\ UNCHANGED <<series, kind, cells, meta, answer>>
      /\ job' = [job EXCEPT !.phase = "recompute"]
  BY DEF IInv, Shape, ResumeDeclines, Goto
<1>2. /\ job' \in Jobs /\ job'.todo = job.todo /\ job'.cur = job.cur
      /\ job'.row = job.row /\ job'.vr = job.vr /\ job'.phase = "recompute"
  BY <1>1 DEF Jobs, Phases
<1>3. Shape' /\ ColumnInv'
  BY <1>1, <1>2 DEF IInv, Shape, ColumnInv, height
<1>4. JobInv'
  BY <1>1, <1>2 DEF IInv, JobInv, height
<1> QED
  BY <1>3, <1>4 DEF IInv

LEMMA ResumeRowsInv ==
  ASSUME IInv, NEW c \in Columns, ResumeRows(c)
  PROVE  IInv'
<1> DEFINE v      == meta[c].valid
           n      == Len(series)
           state  == meta[c].state
           before == Extend(c, state, series, v, n - 1)
           last   == Extend(c, IF v + 1 < n THEN before ELSE state, series, n - 1, n)
           tail   == [i \in v + 1 .. n |->
                        IF i = n THEN last ELSE Extend(c, state, series, v, i)]
           w      == Written(meta[c], cells'[c], 0, v, n)
           m      == IF v + 1 < n THEN WithStates(w, 0, last, before)
                                  ELSE Advanced(w, 0, last)
<1>1. /\ c \in job.cur
      /\ series \in Seq(Values) /\ height = n /\ n \in Nat
      /\ v \in Nat /\ v < n /\ v >= Reach[c].lookback /\ job.row = v
      /\ Good(c, meta[c], series) /\ ResumeReady(meta[c], 0)
  BY JobShape DEF ResumeRows, IInv, JobInv
<1>2. /\ WriteComputed(c, v, n, tail)
      /\ meta' = [meta EXCEPT ![c] = m]
      /\ ColumnDone
  BY <1>1 DEF ResumeRows, AfterWrite
<1>3. \A r \in v + 1 .. n : /\ Extend(c, state, series, v, r) = Summary(c, series, 0, r)
                            /\ Summary(c, series, 0, r) = Computed(c, series, 0, r)
  <2>1. \A r \in v + 1 .. n : r \in Nat /\ v < r /\ r <= n
    BY <1>1
  <2> QED
    BY <1>1, <2>1, ResumedRows
<1>4. v + 1 < n => before = Summary(c, series, 0, n - 1)
  BY <1>1, <1>3
<1>5. state = Summary(c, series, 0, v)
  BY <1>1 DEF ResumeReady, Good, StatesOK, Meta
<1>6. last = Summary(c, series, 0, n)
  <2>1. (IF v + 1 < n THEN before ELSE state) = Summary(c, series, 0, n - 1)
    <3>1. CASE v + 1 < n
      BY <1>4, <3>1
    <3>2. CASE ~(v + 1 < n)
      <4>1. v = n - 1
        BY <1>1, <3>2
      <4> QED
        BY <1>5, <3>2, <4>1
    <3> QED
      BY <3>1, <3>2
  <2>2. n - 1 \in Nat /\ n \in 0 .. Len(series) /\ n - 1 <= n
    BY <1>1
  <2> QED
    BY <1>1, <2>1, <2>2, ExtendSummary
<1> HIDE DEF before, last, w
<1>7. \A i \in v + 1 .. n : tail[i] = Computed(c, series, 0, i)
  <2>1. ASSUME NEW i \in v + 1 .. n PROVE tail[i] = Computed(c, series, 0, i)
    <3>1. tail[i] = IF i = n THEN last ELSE Extend(c, state, series, v, i)
      OBVIOUS
    <3>2. /\ Extend(c, state, series, v, i) = Summary(c, series, 0, i)
          /\ Summary(c, series, 0, i) = Computed(c, series, 0, i)
      BY <1>3
    <3> QED
      BY <1>6, <3>1, <3>2
  <2> QED
    BY <2>1
<1>8. /\ Good(c, w, series) /\ w.valid = n
      /\ w.state = state /\ w.stateAt = meta[c].stateAt
  <2>1. w = Written(meta[c], cells'[c], 0, v, n) /\ n <= Len(series)
    BY <1>1 DEF w
  <2>2. /\ Good(c, w, series) /\ w.valid = Later(v, n)
        /\ w.state = state /\ w.stateAt = meta[c].stateAt
    BY <1>1, <2>1, AfterWriteGood
  <2> QED
    BY <1>1, <2>2 DEF Later
<1> HIDE DEF tail
<1>9. Good(c, m, series) /\ m.valid = n
  <2>1. CASE v + 1 < n
    <3>1. /\ last = Summary(c, series, 0, w.valid)
          /\ before = Summary(c, series, 0, w.valid - 1)
      BY <1>4, <1>6, <1>8, <2>1
    <3>2. /\ Good(c, WithStates(w, 0, last, before), series)
          /\ WithStates(w, 0, last, before).valid = w.valid
      BY <1>1, <1>8, <3>1, WithStatesGood
    <3> QED
      BY <1>8, <2>1, <3>2
  <2>2. CASE ~(v + 1 < n)
    <3>1. w.state # NoState /\ w.stateAt + 2 = w.valid
      BY <1>1, <1>8, <2>2 DEF ResumeReady, Good, Meta
    <3>2. last = Summary(c, series, 0, w.valid)
      BY <1>6, <1>8
    <3>3. /\ Good(c, Advanced(w, 0, last), series)
          /\ Advanced(w, 0, last).valid = w.valid
      BY <1>1, <1>8, <3>1, <3>2, AdvancedGood
    <3> QED
      BY <1>8, <2>2, <3>3
  <2> QED
    BY <2>1, <2>2
<1>10. m.valid = Later(v, n)
  BY <1>1, <1>9 DEF Later
<1> HIDE DEF m
<1> QED
  BY <1>1, <1>2, <1>7, <1>9, <1>10, WriteDone

LEMMA RecomputeWindowInv ==
  ASSUME IInv, NEW c \in Columns, RecomputeWindow(c)
  PROVE  IInv'
<1> DEFINE v     == meta[c].valid
           n     == Len(series)
           start == job.vr - Window(c)
           tail  == [i \in job.vr + 1 .. n |-> Computed(c, series, start, i)]
           w     == Written(meta[c], cells'[c], 0, job.vr, n)
<1>1. /\ c \in job.cur
      /\ series \in Seq(Values) /\ height = n /\ n \in Nat
      /\ v \in Nat /\ v <= n /\ job.vr \in Nat /\ job.vr <= v
      /\ Good(c, meta[c], series)
      /\ ~Recursive(c) /\ job.vr > Window(c)
  BY JobShape DEF RecomputeWindow, OnAWindow, EvaluatesOnAWindow
<1>2. /\ WriteComputed(c, job.vr, n, tail)
      /\ meta' = [meta EXCEPT ![c] = w]
      /\ ColumnDone
  BY <1>1 DEF RecomputeWindow, AfterWrite
<1>3. /\ Reach[c].lookback \in Nat /\ start \in Nat
      /\ job.vr - start > Reach[c].lookback
  BY <1>1, ReachAssumption DEF Window
<1> HIDE DEF start
<1>4. \A i \in job.vr + 1 .. n : tail[i] = Computed(c, series, 0, i)
  <2>1. ASSUME NEW i \in job.vr + 1 .. n PROVE tail[i] = Computed(c, series, 0, i)
    <3>1. i \in Nat /\ i - start > Reach[c].lookback
      BY <1>1, <1>3
    <3>2. Computed(c, series, start, i) = Computed(c, series, 0, i)
      BY <1>1, <1>3, <3>1, WindowExact
    <3> QED
      BY <3>2
  <2> QED
    BY <2>1
<1> HIDE DEF tail, w
<1>5. Good(c, w, series) /\ w.valid = Later(v, n)
  <2>1. w = Written(meta[c], cells'[c], 0, job.vr, n) /\ n <= Len(series)
    BY <1>1 DEF w
  <2> QED
    BY <1>1, <2>1, AfterWriteGood
<1> QED
  BY <1>1, <1>2, <1>4, <1>5, WriteDone

LEMMA RecomputeWholeInv ==
  ASSUME IInv, NEW c \in Columns, RecomputeWhole(c)
  PROVE  IInv'
<1> DEFINE v    == meta[c].valid
           n    == Len(series)
           from == IF job.warm THEN job.vr ELSE 0
           tail == [i \in from + 1 .. n |-> Computed(c, series, 0, i)]
           w    == Written(meta[c], cells'[c], 0, from, n)
<1>1. /\ c \in job.cur
      /\ series \in Seq(Values) /\ height = n /\ n \in Nat
      /\ v \in Nat /\ v <= n /\ from \in Nat
      /\ Good(c, meta[c], series)
  BY JobShape DEF RecomputeWhole
<1>2. WriteComputed(c, from, n, tail) /\ ColumnDone
  BY <1>1 DEF RecomputeWhole
<1>3. PICK st \in Captured(c, series, 0, n), bank \in AnchorBanks(c) :
        meta' = [meta EXCEPT ![c] = KeepAnchors(WithStates(w, 0, st[1], st[2]), bank)]
  BY <1>1 DEF RecomputeWhole, AfterWrite
<1> HIDE DEF from
<1>4. \A i \in from + 1 .. n : tail[i] = Computed(c, series, 0, i)
  OBVIOUS
<1> HIDE DEF tail, w
<1>5. Good(c, w, series) /\ w.valid = n
  <2>1. w = Written(meta[c], cells'[c], 0, from, n) /\ n <= Len(series)
    BY <1>1 DEF w
  <2>2. Good(c, w, series) /\ w.valid = Later(v, n)
    BY <1>1, <2>1, AfterWriteGood
  <2> QED
    BY <1>1, <2>2 DEF Later
<1> DEFINE m == KeepAnchors(WithStates(w, 0, st[1], st[2]), bank)
<1>6. Good(c, m, series) /\ m.valid = n
  <2>1. /\ st[1] = NoState \/ st[1] = Summary(c, series, 0, n)
        /\ st[2] = NoState \/ st[2] = Summary(c, series, 0, n - 1)
    BY <1>1, CapturedStates
  <2>2. bank = NoAnchors \/ bank = AnchorsOf(c, series, Marks(n))
    BY BanksOf
  <2> QED
    BY <1>1, <1>5, <2>1, <2>2, CapturedGood
<1>7. m.valid = Later(v, n)
  BY <1>1, <1>6 DEF Later
<1>8. meta' = [meta EXCEPT ![c] = m]
  BY <1>3
<1> HIDE DEF m
<1> QED
  BY <1>1, <1>2, <1>4, <1>6, <1>7, <1>8, WriteDone

(* The nearest anchor at or before a row, or the start of the series.      *)
LEMMA NearestAnchor ==
  ASSUME NEW c \in Columns, NEW s \in Seq(Values), NEW m, Good(c, m, s),
         NEW r \in Nat
  PROVE  /\ Nearest(m, r) \in Nat /\ Nearest(m, r) <= r
         /\ Nearest(m, r) # 0 => Nearest(m, r) \in DOMAIN m.anchors
<1> DEFINE kept == {a \in DOMAIN m.anchors : a <= r}
<1>1. CASE kept = {}
  BY <1>1 DEF Nearest
<1>2. CASE kept # {}
  <2>1. kept \subseteq Nat /\ \A a \in kept : a <= r
    BY DEF Good, AnchorsOK
  <2> DEFINE T == {r - a : a \in kept}
  <2>2. T \subseteq Nat /\ T # {}
    BY <1>2, <2>1
  <2> HIDE DEF T
  <2>3. PICK x \in T : \A y \in T : x <= y
    BY <2>2, LeastNat
  <2>4. PICK a \in kept : x = r - a
    BY <2>3 DEF T
  <2>5. \A b \in kept : b <= a
    <3>1. ASSUME NEW b \in kept PROVE b <= a
      <4>1. r - a <= r - b
        BY <2>3, <2>4 DEF T
      <4>2. a \in Nat /\ b \in Nat
        BY <2>1
      <4> QED
        BY <4>1, <4>2
    <3> QED
      BY <3>1
  <2>6. Nearest(m, r) = CHOOSE k \in kept : \A b \in kept : b <= k
    BY <1>2 DEF Nearest
  <2>7. Nearest(m, r) \in kept
    BY <2>5, <2>6
  <2> QED
    BY <2>1, <2>7
<1> QED
  BY <1>1, <1>2

LEMMA AnchorSummary ==
  ASSUME NEW c \in Columns, Recursive(c), NEW s \in Seq(Values),
         NEW m, Good(c, m, s), NEW r \in Nat
  PROVE  AnchorState(m, Nearest(m, r)) = Summary(c, s, 0, Nearest(m, r))
<1>1. CASE Nearest(m, r) = 0
  <2>1. Summary(c, s, 0, 0) = <<>>
    BY DEF Summary, Foot, Run
  <2> QED
    BY <1>1, <2>1 DEF AnchorState, NoState
<1>2. CASE Nearest(m, r) # 0
  <2>1. Nearest(m, r) \in DOMAIN m.anchors
    BY <1>2, NearestAnchor
  <2> QED
    BY <1>2, <2>1 DEF AnchorState, Good, AnchorsOK
<1> QED
  BY <1>1, <1>2

(* The states of a recursion replayed from an anchor are those of the      *)
(* column's last valid rows.                                               *)
LEMMA RestoreStateGood ==
  ASSUME IInv, NEW c \in job.cur, job.phase = "restore", RestoreState(c)
  PROVE  \E m : /\ meta' = [meta EXCEPT ![c] = m]
                /\ Good(c, m, series) /\ m.valid = meta[c].valid
<1> DEFINE n    == Len(series)
           old  == meta[c]
           vr   == job.vr
           to   == IF vr > 1 THEN vr - 1 ELSE vr
           a    == Nearest(old, to)
           stop(r) == Extend(c, AnchorState(old, a), series, a, r)
           passed  == {r \in a + 1 .. to : r % AnchorSpacing = 0 /\ r < height}
           state   == IF vr > 1 THEN Extend(c, stop(to), series, to, vr) ELSE stop(vr)
           before  == IF vr > 1 THEN stop(to) ELSE NoState
           bank    == [r \in passed |-> stop(r)]
           k       == KeepAnchors(old, bank)
           m       == WithStates(k, 0, state, before)
<1>1. /\ c \in Columns /\ Recursive(c)
      /\ series \in Seq(Values) /\ height = n /\ n \in Nat
      /\ Good(c, old, series)
      /\ vr \in Nat /\ vr > 0 /\ vr <= n /\ vr = old.valid
  BY JobShape DEF IInv, JobInv
<1>2. to \in Nat /\ to <= vr /\ to > 0
  BY <1>1
<1>3. a \in Nat /\ a <= to
  BY <1>1, <1>2, NearestAnchor
<1>4. AnchorState(old, a) = Summary(c, series, 0, a)
  BY <1>1, <1>2, AnchorSummary
<1>5. meta' = [meta EXCEPT ![c] = m]
  BY DEF RestoreState
<1> HIDE DEF a, to
<1>6. \A r \in a .. n : stop(r) = Summary(c, series, 0, r)
  <2>1. \A r \in a .. n : r \in 0 .. Len(series) /\ a <= r
    BY <1>1, <1>3
  <2> QED
    BY <1>1, <1>3, <1>4, <2>1, ExtendSummary
<1> HIDE DEF stop
<1>7. to \in a .. n /\ stop(to) = Summary(c, series, 0, to)
  BY <1>1, <1>2, <1>3, <1>6
<1>8. state = Summary(c, series, 0, old.valid)
  <2>1. CASE vr > 1
    <3>1. vr \in 0 .. Len(series)
      BY <1>1
    <3>2. Extend(c, stop(to), series, to, vr) = Summary(c, series, 0, vr)
      BY <1>1, <1>2, <1>7, <3>1, ExtendSummary
    <3> QED
      BY <1>1, <2>1, <3>2
  <2>2. CASE ~(vr > 1)
    <3>1. vr = to
      BY <2>2 DEF to
    <3> QED
      BY <1>1, <1>7, <2>2, <3>1
  <2> QED
    BY <2>1, <2>2
<1>9. before = NoState \/ (old.valid > 1 => before = Summary(c, series, 0, old.valid - 1))
  <2>1. CASE vr > 1
    BY <1>1, <1>7, <2>1 DEF to
  <2>2. CASE ~(vr > 1)
    BY <2>2
  <2> QED
    BY <2>1, <2>2
<1>10. /\ DOMAIN bank \subseteq 1 .. n - 1
       /\ \A r \in DOMAIN bank : bank[r] = Summary(c, series, 0, r)
  <2>1. \A r \in passed : r \in a .. n /\ r \in 1 .. n - 1
    BY <1>1, <1>2, <1>3
  <2>2. DOMAIN bank = passed /\ \A r \in passed : bank[r] = stop(r)
    OBVIOUS
  <2> HIDE DEF bank, passed
  <2> QED
    BY <1>6, <2>1, <2>2
<1> HIDE DEF bank, state, before
<1>11. Good(c, k, series) /\ k.valid = old.valid
  BY <1>1, <1>10, KeepAnchorsGood
<1> HIDE DEF k
<1>12. Good(c, m, series) /\ m.valid = old.valid
  <2>1. /\ state = Summary(c, series, 0, k.valid)
        /\ before = NoState \/ (k.valid > 1 => before = Summary(c, series, 0, k.valid - 1))
    BY <1>8, <1>9, <1>11
  <2> QED
    BY <1>1, <1>11, <2>1, WithStatesGood
<1> QED
  BY <1>5, <1>12

LEMMA RestoreCarriedStateInv ==
  ASSUME IInv, NEW c \in Columns, RestoreCarriedState(c)
  PROVE  IInv'
<1>1. /\ c \in job.cur /\ c \in Columns /\ kind[c] = "cached" /\ job.phase = "restore"
      /\ UNCHANGED <<series, kind, cells, answer>>
      /\ ColumnOK(c, meta[c], cells[c], series)
      /\ job \in Jobs /\ meta \in [Columns -> Meta]
  BY JobShape DEF RestoreCarriedState, IInv, Shape
<1>2. PICK m : /\ meta' = [meta EXCEPT ![c] = m]
               /\ Good(c, m, series) /\ m.valid = meta[c].valid
  <2>1. CASE RestoreState(c)
    BY <1>1, <2>1, RestoreStateGood
  <2>2. CASE UNCHANGED meta
    <3>1. meta' = [meta EXCEPT ![c] = meta[c]]
      BY <1>1, <2>2
    <3> QED
      BY <1>1, <3>1 DEF ColumnOK
  <2> QED
    BY <2>1, <2>2 DEF RestoreCarriedState
<1>3. \A d \in Columns : meta'[d].valid = meta[d].valid
  BY <1>1, <1>2
<1>4. /\ job' \in Jobs /\ job'.todo = job.todo /\ job'.cur = job.cur
      /\ job'.row = job.row /\ job'.vr = job.vr /\ job'.phase \in {"step", "recompute"}
  BY <1>1 DEF RestoreCarriedState, RestoreState, Goto, Jobs, Phases
<1>5. Shape'
  <2>1. meta' \in [Columns -> Meta]
    BY <1>1, <1>2 DEF Good
  <2> QED
    BY <1>1, <1>4, <2>1 DEF IInv, Shape, height
<1>6. ColumnInv'
  <2>1. ASSUME NEW d \in Columns, kind[d] = "cached"
        PROVE  ColumnOK(d, meta'[d], cells[d], series)
    <3>1. ColumnOK(d, meta[d], cells[d], series)
      BY <2>1 DEF IInv, ColumnInv
    <3>2. CASE d = c
      <4>1. meta'[c] = m
        BY <1>1, <1>2
      <4> QED
        BY <1>2, <3>1, <3>2, <4>1 DEF ColumnOK
    <3>3. CASE d # c
      BY <1>1, <1>2, <3>1, <3>3
    <3> QED
      BY <3>2, <3>3
  <2> QED
    BY <1>1, <2>1 DEF ColumnInv
<1>7. JobInv'
  <2>1. height' = height
    BY <1>1 DEF height
  <2>2. /\ \A d \in job.todo \cup job.cur : kind[d] = "cached" /\ d \in Columns
        /\ \A d \in job.todo : meta[d].valid < height /\ d \notin job.cur
        /\ \A d, e \in job.cur : d = e
        /\ \A d \in job.cur : /\ job.vr <= meta[d].valid
                              /\ job.row = meta[d].valid
                              /\ meta[d].valid < height
                              /\ meta[d].valid >= Reach[d].lookback
    BY <1>1 DEF IInv, JobInv, Jobs
  <2>3. \A d \in job'.todo \cup job'.cur : kind'[d] = "cached"
    BY <1>1, <1>4, <2>2
  <2>4. \A d \in job'.todo : meta'[d].valid < height' /\ d \notin job'.cur
    BY <1>3, <1>4, <2>1, <2>2
  <2>5. \A d \in job'.cur :
          /\ job'.vr <= meta'[d].valid
          /\ job'.row = meta'[d].valid
          /\ meta'[d].valid < height'
          /\ meta'[d].valid >= Reach[d].lookback
    BY <1>3, <1>4, <2>1, <2>2
  <2> QED
    BY <1>4, <2>2, <2>3, <2>4, <2>5 DEF JobInv
<1> QED
  BY <1>5, <1>6, <1>7 DEF IInv

-----------------------------------------------------------------------------
LEMMA StepInv == IInv /\ [Next]_vars => IInv'
<1> SUFFICES ASSUME IInv, [Next]_vars PROVE IInv'
  OBVIOUS
<1>1. CASE AppendRows
  <2>1. PICK replacing \in {<<>>} \cup {<<v>> : v \in Values} :
          \E n \in 0 .. MaxBatch : \E rows \in [1 .. n -> Values] :
            AppendBatch(replacing, rows)
    BY <1>1 DEF AppendRows
  <2>2. PICK n \in 0 .. MaxBatch : \E rows \in [1 .. n -> Values] :
          AppendBatch(replacing, rows)
    BY <2>1
  <2>3. PICK rows \in [1 .. n -> Values] : AppendBatch(replacing, rows)
    BY <2>2
  <2>4. n \in Nat
    BY BoundsAssumption
  <2>5. replacing = <<>> \/ \E v \in Values : replacing = <<v>>
    BY <2>1
  <2> QED
    BY <2>3, <2>4, <2>5, AppendInv
<1>2. CASE WriteSomeCells
  BY <1>2, WriteCellsInv DEF WriteSomeCells
<1>3. CASE SetData
  BY <1>3, SetDataInv
<1>4. CASE SetSomeColumn
  BY <1>4, SetColumnInv DEF SetSomeColumn
<1>5. CASE \E c \in Columns : CacheNew(c) \/ GetItem(c)
  BY <1>5, CacheNewInv, GetItemInv
<1>6. CASE Fulfill \/ BulkRead
  BY <1>6, FulfillInv, BulkReadInv
<1>7. ASSUME NEW c \in Columns,
             \/ BeginColumn(c) \/ RestoreCarriedState(c) \/ StepRow(c)
             \/ ResumeRows(c)  \/ RecomputeWindow(c)     \/ RecomputeWhole(c)
      PROVE  IInv'
  BY <1>7, BeginColumnInv, RestoreCarriedStateInv, StepRowInv, ResumeRowsInv,
     RecomputeWindowInv, RecomputeWholeInv
<1>8. CASE StepDeclines \/ ResumeDeclines \/ RecomputeRaises \/ EndRefresh
  BY <1>8, StepDeclinesInv, ResumeDeclinesInv, RecomputeRaisesInv, EndRefreshInv
<1>9. CASE UNCHANGED vars
  BY <1>9, StutterInv
<1> QED
  BY <1>1, <1>2, <1>3, <1>4, <1>5, <1>6, <1>7, <1>8, <1>9 DEF Next, Call, RefreshStep

(* The inductive invariant holds of every reachable state: whatever calls *)
(* and refreshes came before, each cached column is exact through its      *)
(* cursor and a running refresh has the hold on it the code relies on.     *)
THEOREM Invariance == Spec => []IInv
<1>1. Init => IInv
  BY InitInv
<1>2. IInv /\ [Next]_vars => IInv'
  BY StepInv
<1> QED
  BY <1>1, <1>2, PTL DEF Spec

AnswerOK == answer.what \in {"silent", "refused", "raised", "read"}

LEMMA Answered == Spec => []AnswerOK
<1>1. Init => AnswerOK
  BY DEF Init, Silent, AnswerOK
<1>2. AnswerOK /\ [Next]_vars => AnswerOK'
  <2> SUFFICES ASSUME AnswerOK, [Next]_vars PROVE AnswerOK'
    OBVIOUS
  <2>1. CASE Call
    <3>1. AppendRows \/ WriteSomeCells \/ SetData \/ SetSomeColumn => AnswerOK'
      <4>1. AppendRows => answer' = Silent
        BY DEF AppendRows, AppendBatch
      <4>2. WriteSomeCells \/ SetData => answer' = Silent
        BY DEF WriteSomeCells, WriteCells, SetData
      <4>3. SetSomeColumn => answer' = Silent
        BY DEF SetSomeColumn, SetColumn
      <4> QED
        BY <4>1, <4>2, <4>3 DEF AnswerOK, Silent
    <3>2. ASSUME NEW c \in Columns, CacheNew(c) \/ GetItem(c) PROVE AnswerOK'
      <4>1. ASSUME CacheNew(c) PROVE answer'.what = "read"
        BY <4>1 DEF CacheNew
      <4>2. GetItem(c) => answer' = answer
        BY DEF GetItem
      <4> QED
        BY <3>2, <4>1, <4>2 DEF AnswerOK
    <3>3. Fulfill \/ BulkRead => AnswerOK'
      BY DEF AnswerOK, Fulfill, BulkRead, Refused, Read
    <3> QED
      BY <2>1, <3>1, <3>2, <3>3 DEF Call
  <2>2. CASE RefreshStep
    <3>1. ASSUME NEW c \in Columns,
                 \/ BeginColumn(c) \/ RestoreCarriedState(c) \/ StepRow(c)
                 \/ ResumeRows(c)  \/ RecomputeWindow(c)     \/ RecomputeWhole(c)
          PROVE  answer' = answer
      BY <3>1 DEF BeginColumn, RestoreCarriedState, StepRow, ResumeRows,
                  RecomputeWindow, RecomputeWhole, WriteComputed
    <3>2. StepDeclines \/ ResumeDeclines => answer' = answer
      BY DEF StepDeclines, ResumeDeclines
    <3>3. RecomputeRaises \/ EndRefresh => AnswerOK'
      BY DEF RecomputeRaises, EndRefresh, Silent, Raised, Read, AnswerOK
    <3> QED
      BY <2>2, <3>1, <3>2, <3>3 DEF RefreshStep, AnswerOK
  <2>3. CASE UNCHANGED vars
    BY <2>3 DEF vars, AnswerOK
  <2> QED
    BY <2>1, <2>2, <2>3 DEF Next
<1> QED
  BY <1>1, <1>2, PTL DEF Spec

(* Every state of the cache has its type: the cursor of a cached column is *)
(* within the frame and its states and anchors belong to rows it has       *)
(* (debug_check).                                                          *)
THEOREM TypeCorrect == Spec => []TypeOK
<1>1. IInv /\ AnswerOK => TypeOK
  <2> SUFFICES ASSUME IInv, AnswerOK PROVE TypeOK
    OBVIOUS
  <2>1. \A c \in Cached : MetaOK(meta[c], height)
    <3> SUFFICES ASSUME NEW c \in Cached PROVE MetaOK(meta[c], height)
      OBVIOUS
    <3>1. Good(c, meta[c], series) /\ Len(series) \in Nat
      BY DEF Cached, IInv, ColumnInv, ColumnOK, Shape
    <3>2. meta[c].anchors \in Banks
      BY <3>1 DEF Good, Meta
    <3> QED
      BY <3>1, <3>2, BankShape
         DEF MetaOK, Good, Meta, StatesOK, AnchorsOK, height, States
  <2>2. \A c \in Present : cells[c] \in Seq(States) /\ Len(cells[c]) = height
    BY DEF IInv, Shape, Present, States
  <2>3. job.todo \subseteq Cached /\ job.cur \subseteq Cached
    BY DEF IInv, Shape, JobInv, Cached, Jobs
  <2>4. job \in Jobs
    BY DEF IInv, Shape
  <2> QED
    BY <2>1, <2>2, <2>3, <2>4 DEF IInv, Shape, TypeOK, AnswerOK, Kinds, Phases, Jobs
<1> QED
  BY <1>1, Invariance, Answered, PTL

(* A row a cursor vouches for holds the value of a full recomputation,     *)
(* whatever calls and declined or failed refreshes came before.            *)
THEOREM ValidRows == Spec => []ValidRowsExact
<1>1. IInv => ValidRowsExact
  BY DEF IInv, ColumnInv, ColumnOK, ExactThrough, ValidRowsExact, Cached
<1> QED
  BY <1>1, Invariance, PTL

(* A carried state sums up exactly the rows through its own.               *)
THEOREM CarriedStates == Spec => []StatesDescribeTheirRows
<1>1. IInv => StatesDescribeTheirRows
  BY DEF IInv, ColumnInv, ColumnOK, Good, StatesOK, StatesDescribeTheirRows, Cached
<1> QED
  BY <1>1, Invariance, PTL

(* An anchor is the state as of its row, and that is never the last row.   *)
THEOREM Anchors == Spec => []AnchorsExact
<1>1. IInv => AnchorsExact
  <2> SUFFICES ASSUME IInv, NEW c \in Cached, NEW a \in DOMAIN meta[c].anchors
               PROVE  a < height /\ meta[c].anchors[a] = Summary(c, series, 0, a)
    BY DEF AnchorsExact
  <2>1. AnchorsOK(c, meta[c], series) /\ Len(series) \in Nat
    BY DEF Cached, IInv, ColumnInv, ColumnOK, Shape, Good
  <2> QED
    BY <2>1 DEF AnchorsOK, height
<1> QED
  BY <1>1, Invariance, PTL

-----------------------------------------------------------------------------
(* The refresh.                                                            *)
(* A running refresh owes its caller the columns it has not reached: each  *)
(* that is neither done nor queued nor in hand vouches for every row.      *)
Owed ==
  /\ \A c \in job.want : kind[c] # "absent"
  /\ job.phase # "idle" =>
       \A c \in Columns :
         kind[c] = "cached" /\ (job.want = {} \/ c \in job.want) =>
           c \in job.todo \cup job.cur \/ meta[c].valid = height
  /\ job.phase = "next" => job.cur = {}

(* No valid row holds a value before the remembered one, and the           *)
(* remembered row, once valid, holds one.                                  *)
FirstOK(m, col) ==
  /\ m.first \in Nat \cup {NoRow}
  /\ \A r \in 1 .. m.valid :
       col[r] # Missing => m.first # NoRow /\ m.first + 1 <= r
  /\ m.first # NoRow /\ m.first < m.valid => col[m.first + 1] # Missing

FirstInv ==
  \A c \in Columns : kind[c] = "cached" => FirstOK(meta[c], cells[c])

RInv == IInv /\ Owed /\ FirstInv

-----------------------------------------------------------------------------
(* The first present value found is the least one.                         *)
LEMMA FoundLeast ==
  ASSUME NEW col, NEW from \in Nat, NEW end \in Nat,
         NEW found, found = FirstPresent(col, 0, from, end)
  PROVE  \/ /\ found = NoRow
            /\ \A i \in from + 1 .. end : col[i] = Missing
         \/ /\ found \in Nat /\ from <= found /\ found < end
            /\ col[found + 1] # Missing
            /\ \A i \in from + 1 .. end : col[i] # Missing => found + 1 <= i
<1> DEFINE present == {i \in from + 1 .. end : col[i] # Missing}
<1>1. CASE present = {}
  BY <1>1 DEF FirstPresent
<1>2. CASE present # {}
  <2>1. present \subseteq Nat
    OBVIOUS
  <2> DEFINE least == CHOOSE i \in present : \A j \in present : i <= j
  <2>2. \E i \in present : \A j \in present : i <= j
    <3> HIDE DEF present
    <3> QED
      BY <1>2, <2>1, LeastNat
  <2>3. least \in present /\ \A j \in present : least <= j
    BY <2>2
  <2>4. found = least - 1
    <3>1. found = 0 + least - 1
      BY <1>2 DEF FirstPresent
    <3> QED
      BY <3>1, <2>3
  <2> HIDE DEF least
  <2>5. /\ least \in from + 1 .. end /\ col[least] # Missing
        /\ \A i \in from + 1 .. end : col[i] # Missing => least <= i
    BY <2>3
  <2> QED
    BY <2>4, <2>5
<1> QED
  BY <1>1, <1>2

(* Records that agree on the cursor and the first present value.           *)
Fields(m) == "valid" \in DOMAIN m /\ "first" \in DOMAIN m

SameCursor(m, n) == Fields(n) /\ n.valid = m.valid /\ n.first = m.first

LEMMA MetaFields == \A m \in Meta : Fields(m) /\ SameCursor(m, m)
BY DEF Meta, Fields, SameCursor

LEMMA StatesKeepCursor ==
  ASSUME NEW m, NEW n, SameCursor(m, n), NEW origin, NEW state, NEW before, NEW bank
  PROVE  /\ SameCursor(m, WithStates(n, origin, state, before))
         /\ SameCursor(m, KeepAnchors(n, bank))
         /\ SameCursor(m, Stepped(n, state))
         /\ SameCursor(m, Advanced(n, origin, state))
BY DEF SameCursor, Fields, WithStates, KeepAnchors, Stepped, Advanced

LEMMA FirstSame ==
  ASSUME NEW m, NEW n, SameCursor(m, n), NEW col, FirstOK(m, col)
  PROVE  FirstOK(n, col)
BY DEF SameCursor, FirstOK

(* Rows from + 1 .. end written, through the cursor or beyond.             *)
LEMMA WrittenFirst ==
  ASSUME NEW m \in Meta, m.since = 0, NEW col, FirstOK(m, col),
         NEW from \in Nat, NEW end \in Nat, from <= m.valid, m.valid <= end,
         NEW col2, \A r \in 1 .. from : col2[r] = col[r],
         NEW w, w = Written(m, col2, 0, from, end)
  PROVE  FirstOK(w, col2) /\ w.valid = end /\ w \in Meta
<1> DEFINE found == FirstPresent(col2, 0, from, end)
<1>1. w \in Meta /\ w.valid = end
  <2>1. w \in Meta /\ w.valid = Later(m.valid, end)
    BY WrittenType
  <2> QED
    BY <2>1 DEF Later, Meta
<1>2. w.first = NoteWritten(m, col2, 0, from, end).first
  BY DEF Written, NoteWritten, Meta
<1>3. \/ /\ found = NoRow
         /\ \A i \in from + 1 .. end : col2[i] = Missing
      \/ /\ found \in Nat /\ from <= found /\ found < end
         /\ col2[found + 1] # Missing
         /\ \A i \in from + 1 .. end : col2[i] # Missing => found + 1 <= i
  BY FoundLeast
<1>4. w.first = IF m.first # NoRow /\ m.first < from THEN m.first
                ELSE IF found # NoRow \/ (m.first # NoRow /\ m.first < end)
                     THEN found ELSE m.first
  BY <1>2 DEF NoteWritten, Meta
<1> HIDE DEF found
<1>5. m.valid \in Nat /\ m.first \in Nat \cup {NoRow}
  BY DEF Meta, FirstOK
<1>6. \A r \in 1 .. from : col2[r] # Missing => m.first # NoRow /\ m.first + 1 <= r
  BY <1>5 DEF FirstOK
<1>7. \A r \in 1 .. end : r \in 1 .. from \/ r \in from + 1 .. end
  OBVIOUS
<1>8. CASE m.first # NoRow /\ m.first < from
  <2>1. w.first = m.first /\ m.first + 1 \in 1 .. from /\ col[m.first + 1] # Missing
    BY <1>4, <1>5, <1>8 DEF FirstOK
  <2> QED
    BY <1>1, <1>5, <1>6, <1>7, <1>8, <2>1 DEF FirstOK
<1>9. CASE ~(m.first # NoRow /\ m.first < from)
  <2>1. \A r \in 1 .. from : col2[r] = Missing
    BY <1>5, <1>6, <1>9
  <2>2. CASE found # NoRow
    <3>1. w.first = found
      BY <1>4, <1>9, <2>2
    <3> QED
      BY <1>1, <1>3, <1>7, <2>1, <2>2, <3>1 DEF FirstOK
  <2>3. CASE found = NoRow
    <3>1. \A r \in 1 .. end : col2[r] = Missing
      BY <1>3, <1>7, <2>1, <2>3 DEF NoRow
    <3>2. w.first = NoRow \/ (w.first \in Nat /\ w.first >= end)
      BY <1>4, <1>5, <1>9, <2>3
    <3> QED
      BY <1>1, <3>1, <3>2 DEF FirstOK, NoRow
  <2> QED
    BY <2>2, <2>3
<1> QED
  BY <1>8, <1>9

(* A shorter cursor over the same rows.                                    *)
LEMMA FirstShorter ==
  ASSUME NEW m, NEW col, FirstOK(m, col), NEW n, n.first = m.first,
         m.valid \in Nat, n.valid \in Nat, n.valid <= m.valid,
         NEW col2, \A r \in 1 .. n.valid : col2[r] = col[r]
  PROVE  FirstOK(n, col2)
<1>1. m.first \in Nat \cup {NoRow}
  BY DEF FirstOK
<1>2. \A r \in 1 .. n.valid : col2[r] # Missing => m.first # NoRow /\ m.first + 1 <= r
  BY DEF FirstOK
<1>3. ASSUME m.first # NoRow, m.first < n.valid
      PROVE  col2[m.first + 1] # Missing
  <2>1. m.first + 1 \in 1 .. n.valid /\ m.first < m.valid
    BY <1>1, <1>3
  <2> QED
    BY <1>3, <2>1 DEF FirstOK
<1> QED
  BY <1>1, <1>2, <1>3 DEF FirstOK

(* A column staled whole keeps the position, which no row contradicts.    *)
LEMMA FirstStaled ==
  ASSUME NEW m \in Meta, NEW col, FirstOK(m, col), NEW col2
  PROVE  FirstOK(StaledByWrite(m), col2)
<1>1. StaledByWrite(m).valid = 0 /\ StaledByWrite(m).first = m.first
  BY DEF StaledByWrite, Meta
<1> QED
  BY <1>1 DEF FirstOK

(* A column just computed over every row.                                  *)
LEMMA FirstNew ==
  ASSUME NEW n \in Nat, NEW col
  PROVE  FirstOK(NewMeta(col, 0, n), col) /\ NewMeta(col, 0, n).valid = n
<1> DEFINE e == [valid |-> n, state |-> NoState, before |-> NoState,
                 since |-> 0, stateAt |-> 0, first |-> NoRow, anchors |-> NoAnchors]
           found == FirstPresent(col, 0, 0, n)
           m == NewMeta(col, 0, n)
<1>1. \/ /\ found = NoRow
         /\ \A i \in 0 + 1 .. n : col[i] = Missing
      \/ /\ found \in Nat /\ 0 <= found /\ found < n
         /\ col[found + 1] # Missing
         /\ \A i \in 0 + 1 .. n : col[i] # Missing => found + 1 <= i
  BY FoundLeast
<1>2. m = IF found # NoRow THEN [e EXCEPT !.first = found] ELSE e
  BY DEF NewMeta, NoteWritten
<1>3. m.valid = n /\ m.first = found
  BY <1>2
<1> HIDE DEF found, m
<1>4. 0 + 1 = 1
  OBVIOUS
<1>5. FirstOK(m, col)
  BY <1>1, <1>3, <1>4 DEF FirstOK, NoRow
<1> QED
  BY <1>3, <1>5 DEF m
-----------------------------------------------------------------------------
(* Calls leave nothing owed.                                               *)
LEMMA IdleOwed ==
  ASSUME job' = NoJob
  PROVE  Owed'
BY DEF NoJob, Owed

(* At first no column is cached.                                           *)
LEMMA InitOwed == Init => Owed /\ FirstInv
BY DEF Init, Owed, FirstInv, NoJob

(* The forming row taken back keeps the position of an earlier one.        *)
LEMMA FormingKeepsFirst ==
  ASSUME NEW m \in Meta, NEW last \in Nat
  PROVE  /\ FormingRowReplaced(m, last).first = m.first
         /\ FormingRowReplaced(m, last).valid \in Nat
         /\ FormingRowReplaced(m, last).valid <= m.valid
<1>1. CASE m.valid > last
  <2>1. FormingRowReplaced(m, last).valid = last /\ m.valid \in Nat
        /\ FormingRowReplaced(m, last).first = m.first
    BY <1>1 DEF FormingRowReplaced, Meta
  <2> QED
    BY <1>1, <2>1
<1>2. CASE ~(m.valid > last)
  BY <1>2 DEF FormingRowReplaced, Meta
<1> QED
  BY <1>1, <1>2

(* An append with or without a row that replaces the last.                 *)
LEMMA AppendFirst ==
  ASSUME IInv, FirstInv,
         NEW replacing, NEW rows, AppendBatch(replacing, rows)
  PROVE  FirstInv'
<1> SUFFICES ASSUME NEW c \in Columns, kind'[c] = "cached"
             PROVE  FirstOK(meta'[c], cells'[c])
  BY DEF FirstInv
<1> DEFINE pad == [i \in 1 .. Len(rows) |-> Missing]
           last == height - 1
<1>1. /\ kind[c] = "cached" /\ c \in Cached /\ c \in Present
      /\ cells \in [Columns -> Seq(Seq(Values))] /\ Len(cells[c]) = height
      /\ meta[c] \in Meta /\ meta[c].valid \in Nat /\ meta[c].valid <= height
      /\ height \in Nat /\ height > 0 /\ FirstOK(meta[c], cells[c])
  <2>1. kind[c] = "cached"
    BY DEF AppendBatch
  <2>2. Good(c, meta[c], series) /\ FirstOK(meta[c], cells[c])
    BY <2>1 DEF IInv, ColumnInv, ColumnOK, FirstInv
  <2>3. height \in Nat /\ height > 0
    BY BoundsAssumption DEF IInv, Shape
  <2> QED
    BY <2>1, <2>2, <2>3 DEF Cached, Present, IInv, Shape, Good, Meta, height
<1>2. cells'[c] = cells[c] \o pad
  BY <1>1 DEF AppendBatch
<1>3. meta'[c] = meta[c] \/ meta'[c] = FormingRowReplaced(meta[c], last)
  BY <1>1 DEF AppendBatch
<1>4. /\ meta'[c].first = meta[c].first /\ meta'[c].valid \in Nat
      /\ meta'[c].valid <= meta[c].valid
  <2>1. CASE meta'[c] = meta[c]
    BY <1>1, <2>1
  <2>2. CASE meta'[c] = FormingRowReplaced(meta[c], last)
    <3>1. last \in Nat
      BY <1>1
    <3> HIDE DEF last
    <3> QED
      BY <1>1, <2>2, <3>1, FormingKeepsFirst
  <2> QED
    BY <1>3, <2>1, <2>2
<1>5. \A r \in 1 .. meta'[c].valid : cells'[c][r] = cells[c][r]
  <2> SUFFICES ASSUME NEW r \in 1 .. meta'[c].valid
               PROVE  (cells[c] \o pad)[r] = cells[c][r]
    BY <1>2
  <2>1. r \in 1 .. Len(cells[c]) /\ Len(cells[c]) \in Nat /\ cells[c] \in Seq(Seq(Values))
    BY <1>1, <1>4
  <2>2. pad \in Seq(Seq(Values))
    BY DEF Missing
  <2> HIDE DEF pad
  <2>3. SameThrough(cells[c], cells[c] \o pad, Len(cells[c]))
    BY <2>1, <2>2, ConcatFacts
  <2> QED
    BY <2>1, <2>3 DEF SameThrough
<1> QED
  <2> DEFINE m == meta[c]  n == meta'[c]  col == cells[c]  col2 == cells'[c]
  <2>1. /\ FirstOK(m, col) /\ n.first = m.first /\ m.valid \in Nat
        /\ n.valid \in Nat /\ n.valid <= m.valid
        /\ \A r \in 1 .. n.valid : col2[r] = col[r]
    BY <1>1, <1>4, <1>5
  <2> HIDE DEF m, n, col, col2
  <2>2. FirstOK(n, col2)
    BY <2>1, FirstShorter
  <2> QED
    BY <2>2 DEF n, col2

(* A write that keeps a column cached stales it.                           *)
LEMMA InvalidatedFirst ==
  ASSUME IInv, FirstInv, NEW C, Invalidate(C),
         NEW c \in Columns, kind'[c] = "cached"
  PROVE  FirstOK(meta'[c], cells'[c]) /\ kind[c] = "cached" /\ c \notin C
<1>1. c \notin C /\ kind[c] = "cached"
  BY DEF Invalidate
<1>2. meta'[c] = StaledByWrite(meta[c])
  BY <1>1 DEF Invalidate, Cached
<1>3. meta[c] \in Meta /\ FirstOK(meta[c], cells[c])
  BY <1>1 DEF IInv, Shape, FirstInv
<1> QED
  BY <1>1, <1>2, <1>3, FirstStaled

(* A name set to data is no cached column; the columns over it are staled. *)
LEMMA SetColumnFirst ==
  ASSUME IInv, FirstInv, NEW c \in Columns, NEW v \in Values, SetColumn(c, v)
  PROVE  FirstInv'
<1> SUFFICES ASSUME NEW d \in Columns, kind'[d] = "cached"
             PROVE  FirstOK(meta'[d], cells'[d])
  BY DEF FirstInv
<1>1. CASE c \in Present
  BY <1>1, InvalidatedFirst DEF SetColumn
<1>2. CASE c \notin Present
  <2>1. /\ kind' = [kind EXCEPT ![c] = "plain"] /\ meta' = meta
        /\ cells' = [cells EXCEPT ![c] = [i \in 1 .. height |-> <<v>>]]
    BY <1>2 DEF SetColumn
  <2>2. d # c /\ kind[d] = "cached" /\ cells'[d] = cells[d]
    BY <2>1 DEF IInv, Shape
  <2> QED
    BY <2>1, <2>2 DEF FirstInv
<1> QED
  BY <1>1, <1>2

(* A directive computed for the first time.                                *)
LEMMA CacheNewFirst ==
  ASSUME IInv, FirstInv, NEW c \in Columns, CacheNew(c)
  PROVE  FirstInv'
<1> DEFINE full == [i \in 1 .. height |-> Computed(c, series, 0, i)]
           n    == NewMeta(full, 0, height)
<1> SUFFICES ASSUME NEW d \in Columns, kind'[d] = "cached"
             PROVE  FirstOK(meta'[d], cells'[d])
  BY DEF FirstInv
<1>1. PICK st \in Captured(c, series, 0, height), bank \in AnchorBanks(c) :
        meta' = [meta EXCEPT ![c] =
                   KeepAnchors(WithStates(n, 0, st[1], st[2]), bank)]
  BY DEF CacheNew
<1>2. /\ cells' = [cells EXCEPT ![c] = full] /\ kind' = [kind EXCEPT ![c] = "cached"]
      /\ DOMAIN cells = Columns /\ DOMAIN meta = Columns /\ DOMAIN kind = Columns
      /\ height \in Nat /\ series \in Seq(Values) /\ height = Len(series)
  BY BoundsAssumption DEF CacheNew, IInv, Shape, height
<1>3. CASE d = c
  <2>1. FirstOK(n, full) /\ n \in Meta
    <3>1. n \in Meta
      BY <1>2, NewGood DEF Good
    <3> HIDE DEF full
    <3> QED
      BY <1>2, <3>1, FirstNew
  <2> HIDE DEF n
  <2>2. SameCursor(n, KeepAnchors(WithStates(n, 0, st[1], st[2]), bank))
    BY <2>1, MetaFields, StatesKeepCursor
  <2> QED
    BY <1>1, <1>2, <1>3, <2>1, <2>2, FirstSame
<1>4. CASE d # c
  BY <1>1, <1>2, <1>4 DEF FirstInv
<1> QED
  BY <1>3, <1>4

(* A refresh starts with every stale column queued.                        *)
LEMMA StartOwed ==
  ASSUME IInv, NEW want \in SUBSET Columns, \A c \in want : kind[c] # "absent",
         NEW todo, \A c \in StaleColumns : want = {} \/ c \in want => c \in todo,
         StartJob(want, todo), UNCHANGED <<series, kind, cells, meta, answer>>
  PROVE  Owed'
<1>1. /\ job'.phase = "next" /\ job'.want = want /\ job'.todo = todo
      /\ job'.cur = {}
  BY DEF StartJob, NoJob
<1>2. ASSUME NEW c \in Columns, kind[c] = "cached", want = {} \/ c \in want
      PROVE  c \in todo \/ meta[c].valid = height
  <2>1. Good(c, meta[c], series) /\ height \in Nat /\ height = Len(series)
    BY <1>2, BoundsAssumption DEF IInv, ColumnInv, ColumnOK, Shape, height
  <2>2. meta[c].valid < height => c \in StaleColumns
    BY <1>2 DEF StaleColumns, Stale, Cached
  <2> QED
    BY <1>2, <2>1, <2>2 DEF Good, Meta
<1>3. height' = height
  BY DEF height
<1> QED
  BY <1>1, <1>2, <1>3 DEF Owed
-----------------------------------------------------------------------------
(* What a refresh does to the columns: cached ones only grow, the user's   *)
(* own stay as they are.                                                   *)
Grown ==
  \A d \in Columns :
    /\ kind'[d] = kind[d]
    /\ kind[d] = "cached" => meta'[d].valid >= meta[d].valid
    /\ kind[d] = "plain" => cells'[d] = cells[d]

(* A step that leaves the columns alone grows nothing.                     *)
LEMMA NothingGrown ==
  ASSUME IInv, UNCHANGED <<kind, cells, meta>>
  PROVE  Grown
BY DEF Grown, IInv, Shape, Meta

(* A step within the refresh of a column.                                  *)
LEMMA BusyOwed ==
  ASSUME Owed, UNCHANGED <<series, kind>>, job.phase # "idle",
         job'.phase \notin {"idle", "next"}, job'.want = job.want,
         job'.todo \cup job'.cur = job.todo \cup job.cur,
         \A d \in Columns : d \notin job'.cur => meta'[d] = meta[d]
  PROVE  Owed'
BY DEF Owed, height

(* The step that brings it up to date.                                     *)
LEMMA DoneOwed ==
  ASSUME IInv, Owed, UNCHANGED <<series, kind>>, job.phase # "idle",
         NEW c \in job.cur, job' = [job EXCEPT !.phase = "next", !.cur = {}],
         \A d \in Columns : d # c => meta'[d] = meta[d],
         meta'[c].valid = height
  PROVE  Owed'
<1>1. \A d \in job.cur : d = c
  BY DEF IInv, JobInv
<1>2. /\ job'.phase = "next" /\ job'.cur = {}
      /\ job'.want = job.want /\ job'.todo = job.todo
  BY DEF IInv, Shape, Jobs
<1>3. height' = height
  BY DEF height
<1> QED
  BY <1>1, <1>2, <1>3 DEF Owed

(* Rows appended past the cursor of one column.                            *)
LEMMA RowsWritten ==
  ASSUME IInv, FirstInv, NEW c \in job.cur, NEW from \in Nat, NEW end \in Nat,
         NEW tail, WriteComputed(c, from, end, tail), meta[c].valid <= end,
         NEW m, meta' = [meta EXCEPT ![c] = m],
         SameCursor(AfterWrite(c, from, end), m)
  PROVE  /\ FirstInv' /\ Grown /\ meta'[c].valid = end
         /\ \A d \in Columns : d # c => meta'[d] = meta[d]
<1> DEFINE w == Written(meta[c], cells'[c], 0, from, end)
<1>1. /\ c \in Columns /\ kind[c] = "cached" /\ Good(c, meta[c], series)
      /\ FirstOK(meta[c], cells[c]) /\ meta[c] \in Meta /\ meta[c].since = 0
      /\ meta \in [Columns -> Meta] /\ cells \in [Columns -> Seq(Seq(Values))]
      /\ meta[c].valid \in Nat /\ Len(cells[c]) = height /\ height \in Nat
      /\ meta[c].valid <= height
  BY JobShape DEF IInv, Shape, Good, FirstInv
<1>2. /\ cells' = [cells EXCEPT ![c] = Overwritten(cells[c], from, end, tail)]
      /\ kind' = kind /\ from <= meta[c].valid
  BY DEF WriteComputed, MayWrite
<1>3. \A r \in 1 .. from : cells'[c][r] = cells[c][r]
  <2> SUFFICES ASSUME NEW r \in 1 .. from
               PROVE  Overwritten(cells[c], from, end, tail)[r] = cells[c][r]
    BY <1>1, <1>2
  <2>1. r \in 1 .. Len(cells[c]) /\ ~(from < r)
    BY <1>1, <1>2
  <2>2. Overwritten(cells[c], from, end, tail)[r] =
          IF from < r /\ r <= end THEN tail[r] ELSE cells[c][r]
    BY <2>1 DEF Overwritten
  <2> QED
    BY <2>1, <2>2
<1>4. FirstOK(w, cells'[c]) /\ w.valid = end
  <2> DEFINE old == meta[c]  col == cells[c]  col2 == cells'[c]
  <2>1. /\ old \in Meta /\ old.since = 0 /\ FirstOK(old, col)
        /\ from <= old.valid /\ old.valid <= end
        /\ \A r \in 1 .. from : col2[r] = col[r]
        /\ w = Written(old, col2, 0, from, end)
    BY <1>1, <1>2, <1>3
  <2> HIDE DEF w, old, col, col2
  <2>2. FirstOK(w, col2) /\ w.valid = end
    BY <2>1, WrittenFirst
  <2> QED
    BY <2>2 DEF col2
<1>5. SameCursor(w, m)
  BY DEF AfterWrite
<1> HIDE DEF w
<1>6. FirstOK(meta'[c], cells'[c]) /\ meta'[c].valid = end
  BY <1>1, <1>4, <1>5, FirstSame DEF SameCursor
<1>7. \A d \in Columns : d # c => meta'[d] = meta[d] /\ cells'[d] = cells[d]
  BY <1>1, <1>2
<1>8. Grown
  <2>1. \A d \in Columns : meta[d].valid \in Nat
    BY <1>1 DEF Meta
  <2>2. \A d \in Columns : meta'[d].valid >= meta[d].valid
    BY <1>6, <1>7, <2>1
  <2> QED
    BY <1>1, <1>2, <1>7, <2>2 DEF Grown
<1> QED
  BY <1>1, <1>2, <1>6, <1>7, <1>8 DEF FirstInv

(* One row stepped: the column in hand is done if that was the last.       *)
LEMMA StepRowOwed ==
  ASSUME IInv, Owed, FirstInv, NEW c \in Columns, StepRow(c)
  PROVE  Owed' /\ FirstInv' /\ Grown
<1> DEFINE v    == meta[c].valid
           next == Extend(c, meta[c].state, series, job.row, job.row + 1)
           tail == [i \in {v + 1} |-> next]
<1>1. /\ c \in job.cur /\ v \in Nat /\ v + 1 \in Nat /\ meta[c] \in Meta /\ job \in Jobs
      /\ job.row = v /\ job.phase = "step" /\ meta[c].since = 0
      /\ UNCHANGED <<series, kind>>
      /\ WriteComputed(c, v, v + 1, tail)
      /\ meta' = [meta EXCEPT ![c] = Stepped(AfterWrite(c, v, v + 1), next)]
  BY JobShape DEF StepRow, IInv, JobInv, Shape, WriteComputed, Good
<1> HIDE DEF next, tail
<1>2. SameCursor(AfterWrite(c, v, v + 1), Stepped(AfterWrite(c, v, v + 1), next))
  <2>1. AfterWrite(c, v, v + 1) \in Meta
    BY <1>1, WrittenType DEF AfterWrite
  <2> QED
    BY <2>1, MetaFields, StatesKeepCursor
<1>3. /\ FirstInv' /\ Grown /\ meta'[c].valid = v + 1
      /\ \A d \in Columns : d # c => meta'[d] = meta[d]
  <2> DEFINE m == Stepped(AfterWrite(c, v, v + 1), next)
  <2>1. meta' = [meta EXCEPT ![c] = m] /\ SameCursor(AfterWrite(c, v, v + 1), m)
    BY <1>1, <1>2
  <2> HIDE DEF m
  <2>2. /\ c \in job.cur /\ v \in Nat /\ v + 1 \in Nat /\ meta[c].valid <= v + 1
        /\ WriteComputed(c, v, v + 1, tail)
    BY <1>1
  <2> HIDE DEF v
  <2> QED
    BY <2>1, <2>2, RowsWritten
<1>4. CASE v + 1 = height
  <2>1. job' = [job EXCEPT !.phase = "next", !.cur = {}]
    BY <1>1, <1>4 DEF StepRow
  <2> QED
    BY <1>1, <1>3, <1>4, <2>1, DoneOwed
<1>5. CASE v + 1 # height
  <2>1. /\ job'.phase = "step" /\ job'.want = job.want
        /\ job'.todo = job.todo /\ job'.cur = job.cur
    BY <1>1, <1>5 DEF StepRow, Jobs
  <2> QED
    BY <1>1, <1>3, <2>1, BusyOwed
<1> QED
  BY <1>3, <1>4, <1>5

(* The steps that write a column through to its last row.                  *)
LEMMA LastRowWritten ==
  ASSUME IInv, Owed, FirstInv, NEW c \in job.cur, job.phase # "idle",
         NEW from \in Nat, NEW tail, WriteComputed(c, from, height, tail),
         NEW m, meta' = [meta EXCEPT ![c] = m],
         SameCursor(AfterWrite(c, from, height), m), ColumnDone
  PROVE  Owed' /\ FirstInv' /\ Grown
<1>1. meta[c].valid <= height /\ height \in Nat
  BY JobShape
<1>2. /\ FirstInv' /\ Grown /\ meta'[c].valid = height
      /\ \A d \in Columns : d # c => meta'[d] = meta[d]
  BY <1>1, RowsWritten
<1>3. UNCHANGED <<series, kind>>
  BY DEF WriteComputed
<1> QED
  BY <1>2, <1>3, DoneOwed DEF ColumnDone

(* What the states and anchors set after a write leave alone.              *)
LEMMA AfterWriteFields ==
  ASSUME IInv, NEW c \in job.cur, NEW from \in Nat, NEW end \in Nat
  PROVE  /\ AfterWrite(c, from, end) \in Meta
         /\ SameCursor(AfterWrite(c, from, end), AfterWrite(c, from, end))
<1>1. meta[c] \in Meta /\ meta[c].since = 0
  BY JobShape DEF Good
<1>2. AfterWrite(c, from, end) \in Meta
  BY <1>1, WrittenType DEF AfterWrite
<1> QED
  BY <1>2, MetaFields

(* The stale rows resumed at once: the column is done.                     *)
LEMMA ResumeRowsOwed ==
  ASSUME IInv, Owed, FirstInv, NEW c \in Columns, ResumeRows(c)
  PROVE  Owed' /\ FirstInv' /\ Grown
<1>1. /\ c \in job.cur /\ job.phase # "idle" /\ ColumnDone
      /\ job.row \in Nat /\ height \in Nat
      /\ \E tail : WriteComputed(c, job.row, height, tail)
  BY JobShape DEF ResumeRows, IInv, Shape, Jobs
<1>2. \E last, before :
        meta' = [meta EXCEPT ![c] =
                   IF job.row + 1 < height
                   THEN WithStates(AfterWrite(c, job.row, height), 0, last, before)
                   ELSE Advanced(AfterWrite(c, job.row, height), 0, last)]
  BY DEF ResumeRows
<1>3. PICK m : /\ meta' = [meta EXCEPT ![c] = m]
               /\ SameCursor(AfterWrite(c, job.row, height), m)
  <2>1. PICK last, before :
          meta' = [meta EXCEPT ![c] =
                     IF job.row + 1 < height
                     THEN WithStates(AfterWrite(c, job.row, height), 0, last, before)
                     ELSE Advanced(AfterWrite(c, job.row, height), 0, last)]
    BY <1>2
  <2> DEFINE w == AfterWrite(c, job.row, height)
  <2>2. SameCursor(w, w)
    BY <1>1, AfterWriteFields
  <2> HIDE DEF w
  <2>3. /\ SameCursor(w, WithStates(w, 0, last, before))
        /\ SameCursor(w, Advanced(w, 0, last))
    BY <2>2, StatesKeepCursor
  <2>4. CASE job.row + 1 < height
    BY <2>1, <2>3, <2>4 DEF w
  <2>5. CASE ~(job.row + 1 < height)
    BY <2>1, <2>3, <2>5 DEF w
  <2> QED
    BY <2>4, <2>5
<1> QED
  BY <1>1, <1>3, LastRowWritten

(* The stale rows recomputed over a window: the column is done.            *)
LEMMA RecomputeWindowOwed ==
  ASSUME IInv, Owed, FirstInv, NEW c \in Columns, RecomputeWindow(c)
  PROVE  Owed' /\ FirstInv' /\ Grown
<1>1. /\ c \in job.cur /\ job.phase # "idle" /\ ColumnDone
      /\ job.vr \in Nat /\ height \in Nat
      /\ \E tail : WriteComputed(c, job.vr, height, tail)
      /\ meta' = [meta EXCEPT ![c] = AfterWrite(c, job.vr, height)]
  BY JobShape DEF RecomputeWindow
<1>2. SameCursor(AfterWrite(c, job.vr, height), AfterWrite(c, job.vr, height))
  BY <1>1, AfterWriteFields
<1> QED
  BY <1>1, <1>2, LastRowWritten

(* The whole column recomputed: the column is done.                        *)
LEMMA RecomputeWholeOwed ==
  ASSUME IInv, Owed, FirstInv, NEW c \in Columns, RecomputeWhole(c)
  PROVE  Owed' /\ FirstInv' /\ Grown
<1> DEFINE from == IF job.warm THEN job.vr ELSE 0
           w    == AfterWrite(c, from, height)
<1>1. /\ c \in job.cur /\ job.phase # "idle" /\ ColumnDone
      /\ from \in Nat /\ height \in Nat
      /\ \E tail : WriteComputed(c, from, height, tail)
  BY JobShape DEF RecomputeWhole
<1>2. PICK st \in Captured(c, series, 0, height), bank \in AnchorBanks(c) :
        meta' = [meta EXCEPT ![c] =
                   KeepAnchors(WithStates(w, 0, st[1], st[2]), bank)]
  BY DEF RecomputeWhole
<1> HIDE DEF from
<1>3. SameCursor(w, w)
  BY <1>1, AfterWriteFields
<1>4. SameCursor(w, KeepAnchors(WithStates(w, 0, st[1], st[2]), bank))
  <2> HIDE DEF w
  <2> QED
    BY <1>3, StatesKeepCursor
<1> QED
  BY <1>1, <1>2, <1>4, LastRowWritten

(* A state restored writes no row.                                         *)
LEMMA RestoreOwed ==
  ASSUME IInv, Owed, FirstInv, NEW c \in Columns, RestoreCarriedState(c)
  PROVE  Owed' /\ FirstInv' /\ Grown
<1>1. /\ c \in job.cur /\ kind[c] = "cached" /\ job.phase = "restore"
      /\ UNCHANGED <<series, kind, cells>>
      /\ meta[c] \in Meta /\ meta \in [Columns -> Meta] /\ job \in Jobs
  BY JobShape DEF RestoreCarriedState, IInv, Shape
<1>2. /\ job'.phase \in {"step", "recompute"} /\ job'.want = job.want
      /\ job'.todo = job.todo /\ job'.cur = job.cur
  BY <1>1 DEF RestoreCarriedState, RestoreState, Goto, Jobs
<1>3. PICK m : meta' = [meta EXCEPT ![c] = m] /\ SameCursor(meta[c], m)
  <2>1. SameCursor(meta[c], meta[c])
    BY <1>1, MetaFields
  <2>2. CASE RestoreState(c)
    <3>1. \E bank, state, before :
            meta' = [meta EXCEPT ![c] =
                       WithStates(KeepAnchors(meta[c], bank), 0, state, before)]
      BY <2>2 DEF RestoreState
    <3>2. \A bank, state, before :
            SameCursor(meta[c], WithStates(KeepAnchors(meta[c], bank), 0, state, before))
      BY <2>1, StatesKeepCursor
    <3> QED
      BY <3>1, <3>2
  <2>3. CASE UNCHANGED meta
    BY <1>1, <2>1, <2>3
  <2> QED
    BY <2>2, <2>3 DEF RestoreCarriedState
<1>4. /\ meta'[c].valid = meta[c].valid /\ FirstOK(meta'[c], cells[c])
      /\ \A d \in Columns : d # c => meta'[d] = meta[d]
  <2>1. FirstOK(meta[c], cells[c])
    BY <1>1 DEF FirstInv
  <2>2. FirstOK(m, cells[c]) /\ m.valid = meta[c].valid
    BY <1>3, <2>1, FirstSame DEF SameCursor
  <2> QED
    BY <1>1, <1>3, <2>2
<1>5. FirstInv'
  BY <1>1, <1>4 DEF FirstInv
<1>6. Grown
  <2>1. \A d \in Columns : meta[d].valid \in Nat /\ meta'[d].valid = meta[d].valid
    BY <1>1, <1>4 DEF Meta
  <2> QED
    BY <1>1, <2>1 DEF Grown
<1>7. Owed'
  BY <1>1, <1>2, <1>4, BusyOwed
<1> QED
  BY <1>5, <1>6, <1>7

(* A column is taken in hand, or is done already.                          *)
LEMMA BeginColumnOwed ==
  ASSUME IInv, Owed, FirstInv, NEW c \in Columns, BeginColumn(c)
  PROVE  Owed' /\ FirstInv' /\ Grown
<1>1. /\ job.phase = "next" /\ job.cur = {} /\ c \in job.todo
      /\ UNCHANGED <<series, kind, cells, meta>>
  BY DEF BeginColumn, Owed
<1>2. /\ job'.phase \in {"step", "restore", "recompute"} /\ job'.want = job.want
      /\ job'.todo = job.todo \ {c} /\ job'.cur = {c}
  BY DEF BeginColumn, IInv, Shape, Jobs
<1>3. Owed'
  BY <1>1, <1>2, BusyOwed
<1> QED
  BY <1>1, <1>3, NothingGrown DEF FirstInv

(* A declined step passes the column to the next fallback.                 *)
LEMMA DeclinesOwed ==
  ASSUME IInv, Owed, FirstInv, StepDeclines \/ ResumeDeclines
  PROVE  Owed' /\ FirstInv' /\ Grown
<1>1. /\ UNCHANGED <<series, kind, cells, meta>> /\ job.phase # "idle"
      /\ job'.phase \in {"rows", "recompute"} /\ job'.want = job.want
      /\ job'.todo = job.todo /\ job'.cur = job.cur
  BY DEF StepDeclines, ResumeDeclines, Goto, IInv, Shape, Jobs
<1>2. Owed'
  BY <1>1, BusyOwed
<1> QED
  BY <1>1, <1>2, NothingGrown DEF FirstInv

(* A refresh that ends owes nothing.                                       *)
LEMMA EndOwed ==
  ASSUME IInv, FirstInv, RecomputeRaises \/ EndRefresh
  PROVE  Owed' /\ FirstInv' /\ Grown
<1>1. UNCHANGED <<series, kind, cells, meta>> /\ job' = NoJob
  BY DEF RecomputeRaises, EndRefresh
<1> QED
  BY <1>1, IdleOwed, NothingGrown DEF FirstInv

(* Every step of a refresh keeps what is owed and grows cached columns     *)
(* only.                                                                   *)
LEMMA RefreshStepOwed ==
  ASSUME IInv, Owed, FirstInv, RefreshStep
  PROVE  Owed' /\ FirstInv' /\ Grown
<1>1. ASSUME NEW c \in Columns,
             \/ BeginColumn(c) \/ RestoreCarriedState(c) \/ StepRow(c)
             \/ ResumeRows(c)  \/ RecomputeWindow(c)     \/ RecomputeWhole(c)
      PROVE  Owed' /\ FirstInv' /\ Grown
  BY <1>1, BeginColumnOwed, RestoreOwed, StepRowOwed, ResumeRowsOwed,
     RecomputeWindowOwed, RecomputeWholeOwed
<1>2. CASE StepDeclines \/ ResumeDeclines
  BY <1>2, DeclinesOwed
<1>3. CASE RecomputeRaises \/ EndRefresh
  BY <1>3, EndOwed
<1> QED
  BY <1>1, <1>2, <1>3 DEF RefreshStep

(* Every call of a user.                                                   *)
LEMMA CallOwed ==
  ASSUME IInv, FirstInv, Call
  PROVE  Owed' /\ FirstInv'
<1>1. CASE AppendRows
  <2>1. PICK replacing, rows : AppendBatch(replacing, rows)
    BY <1>1 DEF AppendRows
  <2> QED
    BY <2>1, AppendFirst, IdleOwed DEF AppendBatch
<1>2. CASE WriteSomeCells
  <2>1. PICK r, v, data, C : WriteCells(r, v, data, C)
    BY <1>2 DEF WriteSomeCells
  <2> QED
    BY <2>1, InvalidatedFirst, IdleOwed DEF WriteCells, FirstInv
<1>3. CASE SetData
  BY <1>3, InvalidatedFirst, IdleOwed DEF SetData, FirstInv
<1>4. CASE SetSomeColumn
  <2>1. PICK c \in Columns, v \in Values : SetColumn(c, v)
    BY <1>4 DEF SetSomeColumn
  <2> QED
    BY <2>1, SetColumnFirst, IdleOwed DEF SetColumn
<1>5. ASSUME NEW c \in Columns, CacheNew(c)
      PROVE  Owed' /\ FirstInv'
  BY <1>5, CacheNewFirst, IdleOwed DEF CacheNew
<1>6. ASSUME NEW c \in Columns, GetItem(c)
      PROVE  Owed' /\ FirstInv'
  <2>1. Owed'
    <3>1. \A d \in StaleColumns : d \in {c} => d \in StaleColumns \cap {c}
      OBVIOUS
    <3> QED
      BY <1>6, <3>1, StartOwed DEF GetItem
  <2> QED
    BY <1>6, <2>1 DEF GetItem, FirstInv
<1>7. CASE Fulfill
  BY <1>7, StartOwed DEF Fulfill, FirstInv
<1>8. CASE BulkRead
  BY <1>8, IdleOwed DEF BulkRead, FirstInv
<1> QED
  BY <1>1, <1>2, <1>3, <1>4, <1>5, <1>6, <1>7, <1>8 DEF Call

(* One step, case by case.                                                 *)
LEMMA OwedStep == RInv /\ [Next]_vars => RInv'
<1> SUFFICES ASSUME RInv, [Next]_vars PROVE RInv'
  OBVIOUS
<1>1. IInv'
  BY StepInv DEF RInv
<1>2. CASE Call
  BY <1>1, <1>2, CallOwed DEF RInv
<1>3. CASE RefreshStep
  BY <1>1, <1>3, RefreshStepOwed DEF RInv
<1>4. CASE UNCHANGED vars
  BY <1>1, <1>4 DEF RInv, vars, Owed, FirstInv, height
<1> QED
  BY <1>2, <1>3, <1>4 DEF Next

(* In every reachable state a running refresh owes only the columns it has *)
(* yet to reach, and the remembered first present value is exact           *)
(* (frame_refresh.rs, refresh_column; computed.rs, note_written).         *)
THEOREM RefreshInvariance == Spec => []RInv
<1>1. Init => RInv
  BY InitInv, InitOwed DEF RInv
<1> QED
  BY <1>1, OwedStep, PTL DEF Spec

(* The remembered row of the first present value is the least valid row    *)
(* that has one, whatever rows were written, staled or replaced since      *)
(* (computed.rs, first_present).                                           *)
THEOREM FirstPresentValues == Spec => []FirstPresentExact
<1>1. RInv => FirstPresentExact
  <2> SUFFICES ASSUME RInv, NEW c \in Cached
               PROVE  LET m == meta[c]
                          present == {r \in 1 .. m.valid : cells[c][r] # Missing}
                      IN  IF present = {}
                          THEN m.first = NoRow \/ m.first >= m.valid
                          ELSE /\ m.first + 1 \in present
                               /\ \A r \in present : m.first + 1 <= r
    BY DEF FirstPresentExact
  <2>1. FirstOK(meta[c], cells[c]) /\ meta[c].valid \in Nat
    BY DEF RInv, FirstInv, IInv, Shape, Meta, Cached
  <2> QED
    BY <2>1 DEF FirstOK
<1> QED
  BY <1>1, RefreshInvariance, PTL

(* A step of a refresh only ever extends what a cached column vouches for  *)
(* and never changes a column of the user's own: no valid row is taken     *)
(* back while a caller waits, even when the computation of a later column  *)
(* raises.                                                                 *)
THEOREM Extends == Spec => RefreshOnlyExtends
<1>1. RInv /\ [Next]_vars =>
        [job.phase # "idle" =>
           \A c \in Columns :
             /\ kind'[c] = kind[c]
             /\ c \in Cached => meta'[c].valid >= meta[c].valid
             /\ kind[c] = "plain" => cells'[c] = cells[c]]_vars
  <2> SUFFICES ASSUME RInv, Next, job.phase # "idle" PROVE Grown
    BY DEF Grown, Cached
  <2>1. job # NoJob
    BY DEF NoJob
  <2>2. ~Call
    BY <2>1 DEF Call, AppendRows, AppendBatch, WriteSomeCells, WriteCells, SetData,
                SetSomeColumn, SetColumn, CacheNew, GetItem, Fulfill, BulkRead
  <2> QED
    BY <2>2, RefreshStepOwed DEF RInv, Next
<1> QED
  BY <1>1, RefreshInvariance, PTL DEF Spec, RefreshOnlyExtends

(* The step that ends a refresh finds nothing owed.                        *)
LEMMA CompletesStep ==
  RInv /\ Next =>
    ((job.phase # "idle" /\ job'.phase = "idle" /\ answer'.what # "raised") =>
       \A c \in Cached : (job.want = {} \/ c \in job.want) => ~Stale(c))
<1> SUFFICES ASSUME RInv, Next, job.phase # "idle", job'.phase = "idle",
                    answer'.what # "raised",
                    NEW c \in Cached, job.want = {} \/ c \in job.want
             PROVE  ~Stale(c)
  OBVIOUS
<1>1. job \in Jobs /\ job # NoJob
  BY DEF RInv, IInv, Shape, NoJob
<1>2. ~Call
  BY <1>1 DEF Call, AppendRows, AppendBatch, WriteSomeCells, WriteCells, SetData,
              SetSomeColumn, SetColumn, CacheNew, GetItem, Fulfill, BulkRead
<1>3. EndRefresh
  <2>1. ~RecomputeRaises
    BY DEF RecomputeRaises, Raised
  <2>2. ~StepDeclines /\ ~ResumeDeclines
    BY <1>1 DEF StepDeclines, ResumeDeclines, Goto, Jobs
  <2>3. ASSUME NEW d \in Columns
        PROVE  ~BeginColumn(d) /\ ~RestoreCarriedState(d)
    BY <1>1 DEF BeginColumn, RestoreCarriedState, RestoreState, Goto, Jobs
  <2>4. ASSUME NEW d \in Columns
        PROVE  ~StepRow(d)
    BY <1>1 DEF StepRow, Jobs
  <2>5. ASSUME NEW d \in Columns
        PROVE  ~ResumeRows(d) /\ ~RecomputeWindow(d) /\ ~RecomputeWhole(d)
    BY <1>1 DEF ResumeRows, RecomputeWindow, RecomputeWhole, ColumnDone, Jobs
  <2> QED
    BY <1>2, <2>1, <2>2, <2>3, <2>4, <2>5 DEF Next, RefreshStep
<1>4. job.todo = {} /\ job.cur = {}
  BY <1>3 DEF EndRefresh, RInv, Owed
<1>5. meta[c].valid = height
  BY <1>4 DEF RInv, Owed, Cached
<1>6. height \in Nat
  BY BoundsAssumption DEF RInv, IInv, Shape
<1> QED
  BY <1>5, <1>6 DEF Stale

(* A refresh that ends without raising has made every column it was asked  *)
(* for valid through the last row (frame_refresh.rs).                      *)
THEOREM Completes == Spec => RefreshCompletes
<1>1. RInv /\ [Next]_vars =>
        [(job.phase # "idle" /\ job'.phase = "idle" /\ answer'.what # "raised") =>
           \A c \in Cached : (job.want = {} \/ c \in job.want) => ~Stale(c)]_vars
  BY CompletesStep
<1> QED
  BY <1>1, RefreshInvariance, PTL DEF Spec, RefreshCompletes

-----------------------------------------------------------------------------
(* The state before the last row is there whenever the last row was        *)
(* stepped.                                                                *)
LEMMA FormingReady ==
  ASSUME NEW c \in Columns, NEW s \in Seq(Values), Len(s) > 0, NEW m, Good(c, m, s),
         m.valid = Len(s), ResumeReady(m, 0), m.before # NoState,
         NEW f, f = FormingRowReplaced(m, Len(s) - 1)
  PROVE  ResumeReady(f, 0) /\ f.valid = Len(s) - 1
<1>1. /\ m \in Meta /\ m.state # NoState /\ m.stateAt > 0 /\ m.valid - 1 = m.stateAt
      /\ m.stateAt \in Nat /\ m.valid \in Nat
  BY DEF Good, StatesOK, ResumeReady, Meta
<1>2. /\ f.valid = Len(s) - 1 /\ f.state = m.before /\ f.stateAt = m.stateAt - 1
  BY <1>1 DEF FormingRowReplaced, Meta
<1> QED
  BY <1>1, <1>2 DEF ResumeReady

(* Replacing the last row of a column that is current never costs more     *)
(* than one step: the state before that row is kept, so neither a replay   *)
(* nor a recomputation is called for (computed.rs,                         *)
(* invalidate_computed_forming_row).                                       *)
THEOREM LiveRows == Spec => LiveRowCheap
<1>1. IInv /\ [Next]_vars =>
        [\A c \in Cached :
           (/\ Len(series') = height
            /\ AppendRows
            /\ ResumeReady(meta[c], 0)
            /\ meta[c].before # NoState
            /\ ~Stale(c))
           => ResumeReady(meta'[c], 0) /\ meta'[c].valid = height - 1]_vars
  <2> SUFFICES ASSUME IInv, NEW c \in Cached, Len(series') = height, AppendRows,
                      ResumeReady(meta[c], 0), meta[c].before # NoState, ~Stale(c)
               PROVE  ResumeReady(meta'[c], 0) /\ meta'[c].valid = height - 1
    OBVIOUS
  <2>1. /\ Good(c, meta[c], series) /\ series \in Seq(Values) /\ c \in Columns
        /\ Len(series) \in Nat /\ Len(series) > 0 /\ height = Len(series)
    BY BoundsAssumption DEF IInv, ColumnInv, ColumnOK, Shape, Cached, height
  <2>2. meta[c].valid = Len(series)
    BY <2>1 DEF Stale, Good, Meta
  <2>3. PICK replacing \in {<<>>} \cup {<<v>> : v \in Values} :
          \E n \in 0 .. MaxBatch : \E rows \in [1 .. n -> Values] :
            AppendBatch(replacing, rows)
    BY DEF AppendRows
  <2>4. PICK n \in 0 .. MaxBatch : \E rows \in [1 .. n -> Values] :
          AppendBatch(replacing, rows)
    BY <2>3
  <2>5. PICK rows \in [1 .. n -> Values] : AppendBatch(replacing, rows)
    BY <2>4
  <2>6. rows = <<>> /\ replacing # <<>>
    <3> DEFINE kept == IF replacing = <<>> THEN series
                       ELSE [series EXCEPT ![Len(series)] = replacing[1]]
    <3>1. kept \in Seq(Values) /\ Len(kept) = Len(series)
      BY <2>1, <2>5, ReplacedFacts
    <3>2. n \in Nat /\ rows \in Seq(Values) /\ Len(rows) = n
      BY <2>5, BoundsAssumption, FunctionIsSeq
    <3>3. series' = kept \o rows /\ (replacing # <<>> \/ rows # <<>>)
      BY <2>1, <2>5 DEF AppendBatch
    <3> HIDE DEF kept
    <3>4. Len(kept \o rows) = Len(kept) + Len(rows)
      BY <3>1, <3>2, ConcatFacts
    <3>5. Len(rows) = 0
      BY <2>1, <3>1, <3>2, <3>3, <3>4
    <3> QED
      BY <3>2, <3>3, <3>5
  <2>7. meta'[c] = FormingRowReplaced(meta[c], Len(series) - 1)
    BY <2>1, <2>5, <2>6 DEF AppendBatch
  <2> QED
    BY <2>1, <2>2, <2>7, FormingReady
<1> QED
  BY <1>1, Invariance, PTL DEF Spec, LiveRowCheap

-----------------------------------------------------------------------------
OwnerOf == [c \in Columns |-> IF kind[c] = "plain" THEN "user" ELSE "directive"]

(* A column valid through the last row holds the reference.                *)
LEMMA FreshIsReference ==
  ASSUME IInv, NEW c \in Columns, kind[c] = "cached", meta[c].valid = height
  PROVE  cells[c] = RefColumn(c, series)
<1>1. /\ cells[c] \in Seq(Seq(Values)) /\ Len(cells[c]) = Len(series)
      /\ ExactThrough(c, cells[c], series, Len(series))
  BY DEF IInv, Shape, ColumnInv, ColumnOK, height
<1>2. cells[c] = [r \in 1 .. Len(series) |-> cells[c][r]]
  BY <1>1
<1> QED
  BY <1>1, <1>2 DEF ExactThrough, RefColumn

(* A column answered is the reference.                                     *)
LEMMA AnswersReference ==
  ASSUME IInv, NEW C \in SUBSET Columns,
         \A c \in C : kind[c] # "absent" /\ (kind[c] = "cached" => meta[c].valid = height),
         answer' = Read(C), UNCHANGED <<series, kind>>
  PROVE  Abstract!Answers
<1>1. answer'.what = "read" /\ DOMAIN answer'.cells = C
      /\ \A c \in C : answer'.cells[c] = cells[c]
  BY DEF Read
<1>2. ASSUME NEW c \in C, kind[c] # "plain"
      PROVE  answer'.cells[c] = RefColumn(c, series)
  <2>1. kind[c] = "cached"
    BY <1>2 DEF IInv, Shape, Kinds
  <2> QED
    BY <1>1, <2>1, FreshIsReference
<1>3. OwnerOf' = OwnerOf
  BY DEF OwnerOf
<1> QED
  BY <1>1, <1>2, <1>3 DEF Abstract!Answers, OwnerOf

(* A change of the data maps to a change of the data.                      *)
LEMMA ChangeMaps ==
  ASSUME series' \in Seq(Values), answer' = Silent,
         \A c \in Columns : kind[c] = "plain" => kind'[c] = "plain"
  PROVE  Abstract!Change
BY DEF Abstract!Change, Abstract!Quiet, Abstract!Owners, Silent

(* A refused or raised call maps to one.                                   *)
LEMMA DeclineMaps ==
  ASSUME answer' \in {Silent, Refused, Raised}, UNCHANGED <<series, kind>>
  PROVE  Abstract!Declines
BY DEF Abstract!Declines, Abstract!Quiet, Silent, Refused, Raised

(* A step within a refresh maps to a stutter.                              *)
LEMMA StutterMaps ==
  ASSUME UNCHANGED <<series, kind, answer>>
  PROVE  UNCHANGED Abstract!vars
BY DEF Abstract!vars

(* Every call maps to an abstract one or to a stutter.                     *)
LEMMA CallMaps ==
  ASSUME IInv, IInv', Call
  PROVE  [Abstract!Next]_(Abstract!vars)
<1>1. series' \in Seq(Values)
  BY DEF IInv, Shape
<1>2. ASSUME AppendRows \/ WriteSomeCells \/ SetData \/ SetSomeColumn
      PROVE  Abstract!Change
  <2>1. answer' = Silent
    BY <1>2 DEF AppendRows, AppendBatch, WriteSomeCells, WriteCells, SetData,
                SetSomeColumn, SetColumn
  <2>2. ASSUME NEW c \in Columns, kind[c] = "plain"
        PROVE  kind'[c] = "plain"
    <3>1. CASE kind' = kind
      BY <2>2, <3>1
    <3>2. CASE \E C : Invalidate(C)
      BY <2>2, <3>2 DEF Invalidate
    <3>3. CASE \E d \in Columns : kind' = [kind EXCEPT ![d] = "plain"]
      BY <2>2, <3>3 DEF IInv, Shape
    <3> QED
      BY <1>2, <3>1, <3>2, <3>3
         DEF AppendRows, AppendBatch, WriteSomeCells, WriteCells, SetData,
             SetSomeColumn, SetColumn
  <2> QED
    BY <1>1, <2>1, <2>2, ChangeMaps
<1>3. ASSUME NEW c \in Columns, CacheNew(c)
      PROVE  Abstract!Answers
  <2>1. /\ answer'.what = "read" /\ DOMAIN answer'.cells = {c}
        /\ answer'.cells[c] = RefColumn(c, series)
        /\ series' = series /\ kind[c] = "absent"
        /\ kind' = [kind EXCEPT ![c] = "cached"]
    BY <1>3 DEF CacheNew, RefColumn, height
  <2>2. OwnerOf' = OwnerOf
    BY <2>1 DEF OwnerOf, IInv, Shape
  <2> QED
    BY <2>1, <2>2 DEF Abstract!Answers, OwnerOf
<1>4. ASSUME Fulfill \/ \E c \in Columns : GetItem(c)
      PROVE  UNCHANGED Abstract!vars
  BY <1>4, StutterMaps DEF Fulfill, GetItem
<1>5. CASE BulkRead
  <2>1. CASE StaleColumns = {}
    <3>1. \A c \in Present : kind[c] = "cached" => meta[c].valid = height
      <4> SUFFICES ASSUME NEW c \in Present, kind[c] = "cached"
                   PROVE  meta[c].valid = height
        OBVIOUS
      <4>1. ~(meta[c].valid < height)
        BY <2>1 DEF StaleColumns, Stale, Cached, Present
      <4>2. Good(c, meta[c], series) /\ height \in Nat /\ height = Len(series)
        BY BoundsAssumption DEF IInv, ColumnInv, ColumnOK, Shape, height, Present
      <4> QED
        BY <4>1, <4>2 DEF Good, Meta
    <3>2. answer' = Read(Present) /\ UNCHANGED <<series, kind>>
      BY <1>5, <2>1 DEF BulkRead
    <3>3. Present \in SUBSET Columns /\ \A c \in Present : kind[c] # "absent"
      BY DEF Present
    <3>4. Abstract!Answers
      BY <3>1, <3>2, <3>3, AnswersReference
    <3> QED
      BY <3>4 DEF Abstract!Next
  <2>2. CASE StaleColumns # {}
    <3>1. answer' = Refused /\ UNCHANGED <<series, kind>>
      BY <1>5, <2>2 DEF BulkRead
    <3> QED
      BY <3>1, DeclineMaps DEF Abstract!Next
  <2> QED
    BY <2>1, <2>2
<1> QED
  BY <1>2, <1>3, <1>4, <1>5 DEF Call, Abstract!Next

(* Every step of a refresh maps to its answer or to a stutter.             *)
LEMMA RefreshStepMaps ==
  ASSUME IInv, Owed, RefreshStep
  PROVE  [Abstract!Next]_(Abstract!vars)
<1>1. CASE RecomputeRaises
  BY <1>1, DeclineMaps DEF RecomputeRaises, Abstract!Next
<1>2. CASE EndRefresh
  <2>1. /\ UNCHANGED <<series, kind>> /\ job.phase # "idle"
        /\ job.todo = {} /\ job.cur = {} /\ job.want \in SUBSET Columns
        /\ answer' = IF job.want = {} THEN Silent ELSE Read(job.want)
    BY <1>2 DEF EndRefresh, Owed, IInv, Shape, Jobs
  <2>2. CASE job.want = {}
    BY <2>1, <2>2, DeclineMaps DEF Abstract!Next
  <2>3. CASE job.want # {}
    <3>1. \A c \in job.want :
            kind[c] # "absent" /\ (kind[c] = "cached" => meta[c].valid = height)
      BY <2>1 DEF Owed
    <3>2. Abstract!Answers
      BY <2>1, <2>3, <3>1, AnswersReference
    <3> QED
      BY <3>2 DEF Abstract!Next
  <2> QED
    BY <2>2, <2>3
<1>3. CASE UNCHANGED <<series, kind, answer>>
  BY <1>3, StutterMaps
<1>4. ASSUME NEW c \in Columns,
             \/ BeginColumn(c) \/ RestoreCarriedState(c) \/ StepRow(c)
             \/ ResumeRows(c)  \/ RecomputeWindow(c)     \/ RecomputeWhole(c)
      PROVE  UNCHANGED <<series, kind, answer>>
  BY <1>4 DEF BeginColumn, RestoreCarriedState, StepRow, ResumeRows, RecomputeWindow,
              RecomputeWhole, WriteComputed
<1>5. StepDeclines \/ ResumeDeclines => UNCHANGED <<series, kind, answer>>
  BY DEF StepDeclines, ResumeDeclines
<1> QED
  BY <1>1, <1>2, <1>3, <1>4, <1>5 DEF RefreshStep

(* The cache implements ExactColumns: seen from its callers, a read        *)
(* refuses, raises or answers exactly the directive over the data of the   *)
(* moment, and nothing of cursors, carried states, steps and fallbacks     *)
(* shows.                                                                  *)
THEOREM Implements == Spec => AbstractSpec
<1>1. Init => Abstract!Init
  <2> SUFFICES ASSUME Init PROVE Abstract!Init
    OBVIOUS
  <2>1. series \in Seq(Values)
    BY InitInv DEF IInv, Shape
  <2> QED
    BY <2>1 DEF Init, Abstract!Init, Abstract!Quiet, Silent
<1>2. RInv /\ IInv' /\ [Next]_vars => [Abstract!Next]_(Abstract!vars)
  <2> SUFFICES ASSUME RInv, IInv', [Next]_vars
               PROVE  [Abstract!Next]_(Abstract!vars)
    OBVIOUS
  <2>1. CASE Call
    BY <2>1, CallMaps DEF RInv
  <2>2. CASE RefreshStep
    BY <2>2, RefreshStepMaps DEF RInv
  <2>3. CASE UNCHANGED vars
    BY <2>3, StutterMaps DEF vars
  <2> QED
    BY <2>1, <2>2, <2>3 DEF Next
<1> QED
  BY <1>1, <1>2, RefreshInvariance, Invariance, PTL DEF Spec, AbstractSpec, Abstract!Spec

-----------------------------------------------------------------------------
(* Reads of several columns, staged on a copy of the frame (StagedReads):  *)
(* such a read is all or nothing, and the invariants and promises above    *)
(* hold with it among the calls.  While one runs, the variables hold the   *)
(* copy, so that the frame the caller gets back when it fails must itself  *)
(* satisfy the invariant (HeldOK): that is what HeldInv adds, with the     *)
(* columns the read may not touch.                                         *)


(* A frame that may be put back: typed, as high as the data and exact.     *)
HeldOK(f) ==
  /\ f \in [kind : [Columns -> Kinds], cells : [Columns -> Seq(Seq(Values))],
            meta : [Columns -> Meta]]
  /\ \A c \in Columns : f.kind[c] # "absent" => Len(f.cells[c]) = height
  /\ \A c \in Columns : f.kind[c] = "cached" =>
       ColumnOK(c, f.meta[c], f.cells[c], series) /\ FirstOK(f.meta[c], f.cells[c])

(* A column is as it was when the list read began.                         *)
Untouched(c) ==
  /\ kind[c]  = answer.frame.kind[c]
  /\ cells[c] = answer.frame.cells[c]
  /\ meta[c]  = answer.frame.meta[c]

(* A list read in progress holds a frame in order and has touched none of  *)
(* the columns it does not name.                                           *)
HeldInv ==
  Staging =>
    /\ job.phase # "idle" /\ job.want # {}
    /\ job.todo \cup job.cur \subseteq job.want
    /\ HeldOK(answer.frame)
    /\ \A c \in Columns \ job.want : Untouched(c)

SInv == RInv /\ HeldInv

-----------------------------------------------------------------------------
(* A step that answers ends the list read.                                 *)
LEMMA NotStaging ==
  ASSUME answer' = Silent \/ answer' = Refused \/ answer' = Raised
           \/ answer'.what = "read"
  PROVE  HeldInv'
BY DEF HeldInv, Staging, Silent, Refused, Raised

(* No call runs while a list read does.                                    *)
LEMMA CallNotStaged ==
  ASSUME HeldInv, Call \/ ListRead
  PROVE  ~Staging
<1>1. job = NoJob
  <2>1. CASE AppendRows \/ WriteSomeCells \/ SetData \/ SetSomeColumn
    BY <2>1 DEF AppendRows, AppendBatch, WriteSomeCells, WriteCells, SetData,
                SetSomeColumn, SetColumn
  <2>2. CASE \E c \in Columns : CacheNew(c) \/ GetItem(c)
    BY <2>2 DEF CacheNew, GetItem
  <2>3. CASE Fulfill \/ BulkRead \/ ListRead
    BY <2>3 DEF Fulfill, BulkRead, ListRead, BeginListRead, ListEntryRaises
  <2> QED
    BY <2>1, <2>2, <2>3 DEF Call
<1> QED
  BY <1>1 DEF HeldInv, NoJob

(* Every call of ComputedCache.                                            *)
LEMMA CallHeld ==
  ASSUME HeldInv, Call
  PROVE  HeldInv'
<1>1. AppendRows \/ WriteSomeCells \/ SetData \/ SetSomeColumn => HeldInv'
  <2>1. AppendRows => answer' = Silent
    BY DEF AppendRows, AppendBatch
  <2>2. WriteSomeCells \/ SetData => answer' = Silent
    BY DEF WriteSomeCells, WriteCells, SetData
  <2>3. SetSomeColumn => answer' = Silent
    BY DEF SetSomeColumn, SetColumn
  <2> QED
    BY <2>1, <2>2, <2>3, NotStaging
<1>2. ASSUME NEW c \in Columns, CacheNew(c) PROVE HeldInv'
  <2>1. answer'.what = "read"
    BY <1>2 DEF CacheNew
  <2> QED
    BY <2>1, NotStaging
<1>3. ASSUME answer' = answer PROVE HeldInv'
  BY <1>3, CallNotStaged DEF HeldInv, Staging
<1>4. ASSUME NEW c \in Columns, GetItem(c) PROVE HeldInv'
  BY <1>3, <1>4 DEF GetItem
<1>5. Fulfill => HeldInv'
  BY <1>3 DEF Fulfill
<1>6. BulkRead => HeldInv'
  BY NotStaging DEF BulkRead, Read
<1> QED
  BY <1>1, <1>2, <1>4, <1>5, <1>6 DEF Call

(* A step of a refresh works on its column alone.                          *)
LEMMA OwnColumnOnly ==
  ASSUME IInv, RefreshStep, ~RecomputeRaises, ~EndRefresh
  PROVE  /\ UNCHANGED <<series, kind, answer>>
         /\ job'.phase # "idle" /\ job'.want = job.want
         /\ job'.todo \cup job'.cur \subseteq job.todo \cup job.cur
         /\ \A d \in Columns \ job.cur : cells'[d] = cells[d] /\ meta'[d] = meta[d]
<1>1. /\ job \in Jobs /\ DOMAIN cells = Columns /\ DOMAIN meta = Columns
  BY DEF IInv, Shape
<1>2. ASSUME NEW c \in Columns, BeginColumn(c)
      PROVE  /\ UNCHANGED <<series, kind, cells, meta, answer>>
             /\ job'.phase # "idle" /\ job'.want = job.want
             /\ job'.todo \cup job'.cur \subseteq job.todo \cup job.cur
  BY <1>1, <1>2 DEF BeginColumn, Jobs
<1>3. ASSUME NEW c \in Columns, RestoreCarriedState(c)
      PROVE  /\ UNCHANGED <<series, kind, cells, answer>>
             /\ \A d \in Columns \ job.cur : meta'[d] = meta[d]
             /\ job'.phase # "idle" /\ job'.want = job.want
             /\ job'.todo = job.todo /\ job'.cur = job.cur
  <2>1. /\ UNCHANGED <<series, kind, cells, answer>> /\ c \in job.cur
        /\ job' = [job EXCEPT !.phase = "step"] \/ job' = [job EXCEPT !.phase = "recompute"]
    BY <1>3 DEF RestoreCarriedState, RestoreState, Goto
  <2>2. meta' = meta \/ \E m : meta' = [meta EXCEPT ![c] = m]
    BY <1>3 DEF RestoreCarriedState, RestoreState
  <2> QED
    BY <1>1, <2>1, <2>2 DEF Jobs
<1>4. ASSUME StepDeclines \/ ResumeDeclines
      PROVE  /\ UNCHANGED <<series, kind, cells, meta, answer>>
             /\ job'.phase # "idle" /\ job'.want = job.want
             /\ job'.todo = job.todo /\ job'.cur = job.cur
  BY <1>1, <1>4 DEF StepDeclines, ResumeDeclines, Goto, Jobs
<1>5. ASSUME NEW c \in Columns,
             StepRow(c) \/ ResumeRows(c) \/ RecomputeWindow(c) \/ RecomputeWhole(c)
      PROVE  /\ UNCHANGED <<series, kind, answer>>
             /\ \A d \in Columns \ job.cur : cells'[d] = cells[d] /\ meta'[d] = meta[d]
             /\ job'.phase # "idle" /\ job'.want = job.want
             /\ job'.todo = job.todo /\ job'.cur \subseteq job.cur
  <2>1. c \in job.cur /\ \E from, end, tail : WriteComputed(c, from, end, tail)
    BY <1>5 DEF StepRow, ResumeRows, RecomputeWindow, RecomputeWhole
  <2>2. \E m : meta' = [meta EXCEPT ![c] = m]
    <3>1. StepRow(c) => \E m : meta' = [meta EXCEPT ![c] = m]
      BY DEF StepRow
    <3>2. ResumeRows(c) => \E m : meta' = [meta EXCEPT ![c] = m]
      BY DEF ResumeRows
    <3>3. RecomputeWindow(c) => \E m : meta' = [meta EXCEPT ![c] = m]
      BY DEF RecomputeWindow
    <3>4. RecomputeWhole(c) => \E m : meta' = [meta EXCEPT ![c] = m]
      BY DEF RecomputeWhole
    <3> QED
      BY <1>5, <3>1, <3>2, <3>3, <3>4
  <2>3. UNCHANGED <<series, kind, answer>> /\ \E col : cells' = [cells EXCEPT ![c] = col]
    BY <2>1 DEF WriteComputed
  <2>4. /\ job'.phase # "idle" /\ job'.want = job.want
        /\ job'.todo = job.todo /\ job'.cur \subseteq job.cur
    <3>1. CASE StepRow(c)
      BY <1>1, <3>1 DEF StepRow, Jobs
    <3>2. CASE ResumeRows(c) \/ RecomputeWindow(c) \/ RecomputeWhole(c)
      BY <1>1, <3>2 DEF ResumeRows, RecomputeWindow, RecomputeWhole, ColumnDone, Jobs
    <3> QED
      BY <1>5, <3>1, <3>2
  <2> QED
    BY <1>1, <2>1, <2>2, <2>3, <2>4
<1> QED
  BY <1>2, <1>3, <1>4, <1>5 DEF RefreshStep

(* A step of the refresh inside a list read leaves the held frame alone.   *)
LEMMA RefreshStepHeld ==
  ASSUME IInv, HeldInv, RefreshStep, Staging => ~RecomputeRaises
  PROVE  HeldInv'
<1>1. CASE RecomputeRaises
  BY <1>1, NotStaging DEF RecomputeRaises
<1>2. CASE EndRefresh
  BY <1>2, NotStaging DEF EndRefresh, Read
<1>3. CASE ~RecomputeRaises /\ ~EndRefresh
  <2>1. /\ UNCHANGED <<series, kind, answer>>
        /\ job'.phase # "idle" /\ job'.want = job.want
        /\ job'.todo \cup job'.cur \subseteq job.todo \cup job.cur
        /\ \A d \in Columns \ job.cur : cells'[d] = cells[d] /\ meta'[d] = meta[d]
    BY <1>3, OwnColumnOnly
  <2> SUFFICES ASSUME Staging
               PROVE  /\ job'.phase # "idle" /\ job'.want # {}
                      /\ job'.todo \cup job'.cur \subseteq job'.want
                      /\ HeldOK(answer.frame)'
                      /\ \A c \in Columns \ job'.want : Untouched(c)'
    BY <2>1 DEF HeldInv, Staging
  <2>2. HeldOK(answer.frame)'
    BY <2>1 DEF HeldInv, HeldOK, height
  <2>3. \A c \in Columns \ job'.want : Untouched(c)'
    BY <2>1 DEF HeldInv, Untouched
  <2> QED
    BY <2>1, <2>2, <2>3 DEF HeldInv
<1> QED
  BY <1>1, <1>2, <1>3

(* Dropping the copy restores a frame in order.                            *)
LEMMA AbandonInv ==
  ASSUME SInv, Staging, Abandon
  PROVE  SInv'
<1>1. /\ HeldOK(answer.frame) /\ series \in Seq(Values) /\ height \in 1 .. MaxRows
      /\ series' = series /\ height' = height
      /\ kind' = answer.frame.kind /\ cells' = answer.frame.cells
      /\ meta' = answer.frame.meta /\ job' = NoJob /\ answer' = Raised
  BY DEF SInv, RInv, IInv, Shape, HeldInv, Abandon, height
<1>2. Shape'
  BY <1>1, NoJobType DEF HeldOK, Shape
<1>3. ColumnInv' /\ FirstInv'
  BY <1>1 DEF HeldOK, ColumnInv, FirstInv
<1>4. JobInv'
  BY <1>1, NoJobType DEF JobInv
<1> QED
  BY <1>1, <1>2, <1>3, <1>4, IdleOwed, NotStaging DEF SInv, RInv, IInv

(* A directive computed for the list is a column in order, valid through.  *)
LEMMA EvaluatedColumn ==
  ASSUME NEW c \in Columns, series \in Seq(Values), NEW k \in Evaluation(c)
  PROVE  /\ ColumnOK(c, k, RefColumn(c, series), series)
         /\ FirstOK(k, RefColumn(c, series)) /\ k.valid = height /\ k \in Meta
         /\ RefColumn(c, series) \in Seq(Seq(Values))
         /\ Len(RefColumn(c, series)) = height
<1> DEFINE full == [i \in 1 .. height |-> Computed(c, series, 0, i)]
           n == NewMeta(full, 0, height)
<1>1. full = RefColumn(c, series) /\ height = Len(series) /\ height \in Nat
  BY DEF RefColumn, height
<1>2. full \in Seq(Seq(Values)) /\ Len(full) = height
  <2>1. \A i \in 1 .. height : i \in 0 .. Len(series)
    BY <1>1
  <2>2. full \in [1 .. height -> Seq(Values)]
    BY <2>1, ComputedType
  <2> QED
    BY <1>1, <2>2, FunctionIsSeq
<1>3. PICK st \in Captured(c, series, 0, height), bank \in AnchorBanks(c) :
        k = KeepAnchors(WithStates(n, 0, st[1], st[2]), bank)
  BY DEF Evaluation
<1>4. ExactThrough(c, full, series, height)
  BY DEF ExactThrough
<1> HIDE DEF full
<1>5. Good(c, n, series) /\ n.valid = Len(series) /\ FirstOK(n, full)
  BY <1>1, NewGood, FirstNew
<1> HIDE DEF n
<1>6. Good(c, k, series) /\ k.valid = Len(series)
  <2>1. /\ st[1] = NoState \/ st[1] = Summary(c, series, 0, Len(series))
        /\ st[2] = NoState \/ st[2] = Summary(c, series, 0, Len(series) - 1)
    BY <1>1, CapturedStates
  <2>2. bank = NoAnchors \/ bank = AnchorsOf(c, series, Marks(Len(series)))
    BY BanksOf
  <2> QED
    BY <1>3, <1>5, <2>1, <2>2, CapturedGood
<1>7. SameCursor(n, k)
  <2>1. SameCursor(n, n)
    BY <1>5, MetaFields DEF Good
  <2> QED
    BY <1>3, <2>1, StatesKeepCursor
<1>8. FirstOK(k, full) /\ k \in Meta
  BY <1>5, <1>6, <1>7, FirstSame DEF Good
<1> QED
  BY <1>1, <1>2, <1>4, <1>6, <1>8 DEF ColumnOK

(* The copy begins in order, with its new directives computed.             *)
LEMMA BeginListReadInv ==
  ASSUME SInv, NEW C \in SUBSET Columns, C # {}, BeginListRead(C)
  PROVE  SInv'
<1> DEFINE new == {c \in C : kind[c] = "absent"}
<1>1. /\ series \in Seq(Values) /\ series' = series /\ height' = height
      /\ height \in 1 .. MaxRows /\ height = Len(series) /\ height \in Nat
      /\ kind \in [Columns -> Kinds] /\ meta \in [Columns -> Meta]
      /\ cells \in [Columns -> Seq(Seq(Values))]
      /\ \A c \in Columns : kind[c] # "absent" => Len(cells[c]) = height
      /\ \A c \in Columns : kind[c] = "cached" =>
            ColumnOK(c, meta[c], cells[c], series) /\ FirstOK(meta[c], cells[c])
  BY BoundsAssumption DEF SInv, RInv, IInv, Shape, ColumnInv, FirstInv, BeginListRead, height
<1>2. PICK record :
        /\ \A c \in new : record[c] \in Evaluation(c)
        /\ meta' = [c \in Columns |-> IF c \in new THEN record[c] ELSE meta[c]]
  BY DEF BeginListRead
<1>3. /\ kind'  = [c \in Columns |-> IF c \in new THEN "cached" ELSE kind[c]]
      /\ cells' = [c \in Columns |->
                     IF c \in new THEN RefColumn(c, series) ELSE cells[c]]
      /\ StartJob(C, StaleColumns \cap C) /\ answer' = Unanswered
  BY DEF BeginListRead
<1>4. ASSUME NEW c \in new
      PROVE  /\ c \in Columns /\ kind'[c] = "cached" /\ meta'[c] \in Meta
             /\ cells'[c] \in Seq(Seq(Values)) /\ Len(cells'[c]) = height
             /\ ColumnOK(c, meta'[c], cells'[c], series)
             /\ FirstOK(meta'[c], cells'[c]) /\ meta'[c].valid = height
  BY <1>1, <1>2, <1>3, EvaluatedColumn
<1>5. ASSUME NEW c \in Columns, c \notin new
      PROVE  kind'[c] = kind[c] /\ meta'[c] = meta[c] /\ cells'[c] = cells[c]
  BY <1>2, <1>3, <1>5
<1>6. /\ job' \in Jobs /\ job'.phase = "next" /\ job'.want = C /\ job'.cur = {}
      /\ job'.todo = StaleColumns \cap C
  BY <1>3 DEF StartJob, NoJob, Jobs, Phases, StaleColumns, Cached
<1>7. DOMAIN kind' = Columns /\ DOMAIN meta' = Columns /\ DOMAIN cells' = Columns
  BY <1>2, <1>3
<1>8. /\ kind' = [c \in Columns |-> kind'[c]] /\ meta' = [c \in Columns |-> meta'[c]]
      /\ cells' = [c \in Columns |-> cells'[c]]
  BY <1>2, <1>3
<1> HIDE DEF new
<1>9. Shape'
  <2>1. \A c \in Columns : /\ kind'[c] \in Kinds /\ meta'[c] \in Meta
                           /\ cells'[c] \in Seq(Seq(Values))
                           /\ kind'[c] # "absent" => Len(cells'[c]) = height
    BY <1>1, <1>4, <1>5 DEF Kinds
  <2>2. /\ kind' \in [Columns -> Kinds] /\ meta' \in [Columns -> Meta]
        /\ cells' \in [Columns -> Seq(Seq(Values))]
    BY <1>8, <2>1
  <2> QED
    BY <1>1, <1>6, <2>1, <2>2 DEF Shape
<1>10. ColumnInv' /\ FirstInv'
  BY <1>1, <1>4, <1>5 DEF ColumnInv, FirstInv
<1>11. \A c \in StaleColumns : c \notin new /\ kind[c] = "cached" /\ c \in Columns
                             /\ meta[c].valid < height
  BY DEF new, StaleColumns, Stale, Cached
<1>12. JobInv'
  BY <1>1, <1>5, <1>6, <1>11 DEF JobInv
<1>13. Owed'
  <2>1. ASSUME NEW c \in C PROVE kind'[c] # "absent"
    BY <1>4, <1>5 DEF new
  <2>2. ASSUME NEW c \in C, kind'[c] = "cached"
        PROVE  c \in StaleColumns \/ meta'[c].valid = height
    <3>1. CASE c \in new
      BY <1>4, <3>1
    <3>2. CASE c \notin new
      <4>1. kind[c] = "cached" /\ meta'[c] = meta[c]
        BY <1>5, <2>2, <3>2
      <4>2. meta[c].valid \in Nat /\ meta[c].valid <= height
        BY <1>1, <4>1 DEF ColumnOK, Good, Meta
      <4>3. meta[c].valid < height => c \in StaleColumns
        BY <4>1 DEF StaleColumns, Stale, Cached
      <4> QED
        BY <1>1, <4>1, <4>2, <4>3
    <3> QED
      BY <3>1, <3>2
  <2> QED
    BY <1>1, <1>6, <2>1, <2>2 DEF Owed
<1>14. HeldInv'
  <2>1. answer'.frame = Frame /\ answer'.what = "staged"
    BY <1>3 DEF Unanswered
  <2>2. HeldOK(Frame)
    BY <1>1 DEF HeldOK, Frame
  <2>3. HeldOK(answer.frame)'
    BY <1>1, <2>1, <2>2 DEF HeldOK
  <2>4. \A c \in Columns \ C : Untouched(c)'
    BY <1>5, <2>1 DEF Untouched, Frame, new
  <2> QED
    BY <1>6, <2>3, <2>4 DEF HeldInv
<1> QED
  BY <1>9, <1>10, <1>12, <1>13, <1>14 DEF SInv, RInv, IInv

(* A list read that raises at once.                                        *)
LEMMA ListEntryRaisesInv ==
  ASSUME SInv, NEW C \in SUBSET Columns, ListEntryRaises(C)
  PROVE  SInv'
<1>1. UNCHANGED <<series, kind, cells, meta>> /\ job = NoJob /\ job' = NoJob
      /\ answer' = Raised
  BY DEF ListEntryRaises
<1>2. IInv'
  BY <1>1, FrameUnchanged DEF SInv, RInv
<1> QED
  BY <1>1, <1>2, IdleOwed, NotStaging DEF SInv, RInv, FirstInv

(* No list read runs at first.                                             *)
LEMMA StagedInit == Init => SInv
BY InitInv, InitOwed, NotStaging DEF SInv, RInv, Init, HeldInv, Staging, Silent

(* One step, case by case.                                                 *)
LEMMA StagedStepInv == SInv /\ [StagedNext]_vars => SInv'
<1> SUFFICES ASSUME SInv, [StagedNext]_vars PROVE SInv'
  OBVIOUS
<1>1. CASE Call
  BY <1>1, OwedStep, CallHeld DEF SInv, Next
<1>2. CASE ListRead
  <2>1. PICK C \in (SUBSET Columns) \ {{}} : BeginListRead(C) \/ ListEntryRaises(C)
    BY <1>2 DEF ListRead
  <2>2. C \in SUBSET Columns /\ C # {}
    OBVIOUS
  <2> QED
    BY <2>1, <2>2, BeginListReadInv, ListEntryRaisesInv
<1>3. CASE StagedRaises \/ ProjectionFails
  BY <1>3, AbandonInv DEF StagedRaises, ProjectionFails
<1>4. CASE RefreshStep /\ (Staging => ~RecomputeRaises)
  <2>1. RInv' /\ IInv
    BY <1>4, OwedStep DEF SInv, Next, RInv
  <2> QED
    BY <1>4, <2>1, RefreshStepHeld DEF SInv
<1>5. CASE UNCHANGED vars
  <2>1. RInv'
    BY <1>5, OwedStep DEF SInv
  <2>2. HeldInv'
    BY <1>5 DEF SInv, vars, HeldInv, HeldOK, Untouched, Staging, height
  <2> QED
    BY <2>1, <2>2 DEF SInv
<1>6. StagedStep =>
        \/ StagedRaises \/ ProjectionFails
        \/ RefreshStep /\ (Staging => ~RecomputeRaises)
  <2>1. ASSUME \/ \E c \in Columns :
                    \/ BeginColumn(c) \/ RestoreCarriedState(c) \/ StepRow(c)
                    \/ ResumeRows(c)  \/ RecomputeWindow(c)     \/ RecomputeWhole(c)
               \/ StepDeclines \/ ResumeDeclines \/ EndRefresh
        PROVE  RefreshStep /\ (Staging => ~RecomputeRaises)
    <3>1. RefreshStep
      BY <2>1 DEF RefreshStep
    <3>2. ASSUME Staging PROVE ~RecomputeRaises
      <4>1. RecomputeRaises => answer'.what = "raised" /\ job' = NoJob /\ job.phase = "recompute"
        BY DEF RecomputeRaises, Raised
      <4>2. EndRefresh => job.phase = "next"
        BY DEF EndRefresh
      <4>3. StepDeclines \/ ResumeDeclines => job.phase # "recompute"
        BY DEF StepDeclines, ResumeDeclines
      <4>4. ASSUME NEW c \in Columns,
                   \/ BeginColumn(c) \/ RestoreCarriedState(c) \/ StepRow(c)
                   \/ ResumeRows(c)  \/ RecomputeWindow(c)     \/ RecomputeWhole(c)
            PROVE  answer' = answer
        BY <4>4 DEF BeginColumn, RestoreCarriedState, StepRow, ResumeRows,
                    RecomputeWindow, RecomputeWhole, WriteComputed
      <4> QED
        BY <2>1, <3>2, <4>1, <4>2, <4>3, <4>4 DEF Staging
    <3> QED
      BY <3>1, <3>2
  <2>2. ~Staging /\ RecomputeRaises => RefreshStep /\ (Staging => ~RecomputeRaises)
    BY DEF RefreshStep
  <2> QED
    BY <2>1, <2>2 DEF StagedStep
<1> QED
  BY <1>1, <1>2, <1>3, <1>4, <1>5, <1>6 DEF StagedNext

(* The invariant of the refresh survives list reads that begin, fail half- *)
(* way and are dropped: a frame put back is in order, whatever the copy    *)
(* had become (frame_access.rs, project).                                  *)
THEOREM StagedInvariance == StagedSpec => []SInv
BY StagedInit, StagedStepInv, PTL DEF StagedSpec

(* A row a cursor vouches for is exact with list reads among the calls, in *)
(* the copy while one runs and in the frame put back when it fails.        *)
THEOREM StagedValidRows == StagedSpec => []ValidRowsExact
<1>1. SInv => ValidRowsExact
  BY DEF SInv, RInv, IInv, ColumnInv, ColumnOK, ExactThrough, ValidRowsExact, Cached
<1> QED
  BY <1>1, StagedInvariance, PTL

(* A list read that raises leaves the caller's frame as it was before it;  *)
(* one that answers touches no column it does not name                     *)
(* (frame_access.rs:499).                                                  *)
THEOREM AllOrNothing == StagedSpec => ListReadAllOrNothing
<1>1. SInv /\ [StagedNext]_vars =>
        [Staging =>
           \/ answer' = answer
           \/ answer'.what = "raised" /\ Frame' = answer.frame
           \/ /\ answer'.what = "read"
              /\ \A c \in Columns \ job.want :
                   /\ kind'[c]  = answer.frame.kind[c]
                   /\ cells'[c] = answer.frame.cells[c]
                   /\ meta'[c]  = answer.frame.meta[c]]_vars
  <2> SUFFICES ASSUME SInv, StagedNext, Staging
               PROVE  \/ answer' = answer
                      \/ answer'.what = "raised" /\ Frame' = answer.frame
                      \/ /\ answer'.what = "read"
                         /\ \A c \in Columns \ job.want :
                              /\ kind'[c]  = answer.frame.kind[c]
                              /\ cells'[c] = answer.frame.cells[c]
                              /\ meta'[c]  = answer.frame.meta[c]
    OBVIOUS
  <2>1. ~Call /\ ~ListRead
    BY CallNotStaged DEF SInv
  <2>2. CASE EndRefresh
    <3>1. answer' = Read(job.want) /\ UNCHANGED <<kind, cells, meta>>
      BY <2>2 DEF EndRefresh, SInv, HeldInv
    <3> QED
      BY <3>1 DEF Read, SInv, HeldInv, Untouched
  <2>3. CASE Abandon
    <3>1. answer' = Raised /\ answer.frame = Frame'
      BY <2>3 DEF Abandon, Frame, SInv, HeldInv, HeldOK
    <3> QED
      BY <3>1 DEF Raised
  <2>4. CASE ~EndRefresh /\ ~Abandon
    <3>1. ASSUME NEW c \in Columns,
                 \/ BeginColumn(c) \/ RestoreCarriedState(c) \/ StepRow(c)
                 \/ ResumeRows(c)  \/ RecomputeWindow(c)     \/ RecomputeWhole(c)
          PROVE  answer' = answer
      BY <3>1 DEF BeginColumn, RestoreCarriedState, StepRow, ResumeRows,
                  RecomputeWindow, RecomputeWhole, WriteComputed
    <3>2. StepDeclines \/ ResumeDeclines => answer' = answer
      BY DEF StepDeclines, ResumeDeclines
    <3> QED
      BY <2>1, <2>4, <3>1, <3>2
         DEF StagedNext, StagedStep, StagedRaises, ProjectionFails
  <2> QED
    BY <2>2, <2>3, <2>4
<1> QED
  BY <1>1, StagedInvariance, PTL DEF StagedSpec, ListReadAllOrNothing

(* A refresh completes what it was asked for, inside a list read as        *)
(* outside one.                                                            *)
THEOREM StagedCompletes == StagedSpec => RefreshCompletes
<1>1. SInv /\ [StagedNext]_vars =>
        [(job.phase # "idle" /\ job'.phase = "idle" /\ answer'.what # "raised") =>
           \A c \in Cached : (job.want = {} \/ c \in job.want) => ~Stale(c)]_vars
  <2> SUFFICES ASSUME SInv, StagedNext, job.phase # "idle", job'.phase = "idle",
                      answer'.what # "raised"
               PROVE  \A c \in Cached : (job.want = {} \/ c \in job.want) => ~Stale(c)
    OBVIOUS
  <2>1. ~ListRead /\ ~Abandon
    <3>1. ASSUME NEW C, BeginListRead(C) \/ ListEntryRaises(C)
          PROVE  job = NoJob
      BY <3>1 DEF BeginListRead, ListEntryRaises
    <3>2. job # NoJob
      BY DEF NoJob
    <3> QED
      BY <3>1, <3>2 DEF ListRead, Abandon, Raised
  <2>2. Next
    BY <2>1 DEF StagedNext, StagedStep, StagedRaises, ProjectionFails, Next, RefreshStep
  <2> QED
    BY <2>2, CompletesStep DEF SInv
<1> QED
  BY <1>1, StagedInvariance, PTL DEF StagedSpec, RefreshCompletes
=============================================================================
