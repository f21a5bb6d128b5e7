-------------------------- MODULE CumulationProofs --------------------------
(***************************************************************************)
(* The incremental cumulator gives the coarse rows of cumulating, at once, *)
(* all bars taken, and each row means what its aggregators say, for any    *)
(* columns, aggregators, period, candles and bounds.                       *)
(*                                                                         *)
(* That is not inductive: a bar on the short path is folded into the       *)
(* running aggregate and never into the open bars' rows. CInv adds that    *)
(* the aggregate is the reduction of the open bars, with the checkpoint    *)
(* that of all but the last, whenever there is one, and that no closed row *)
(* overflowed. Either path is then the same merge: the open bars and the   *)
(* batch, deduplicated, take the place of the open bars (Merge).           *)
(***************************************************************************)
EXTENDS Cumulation, PeriodFoldProofs

Rows(bars)   == RowsOf(IntCols, bars)
Closing(bars) == ClosingOf(IntCols, bars)

(* What all bars taken amount to: the closed rows c and the open bars o.   *)
Folded(F, c, o) ==
  IF F = <<>> THEN c = <<>> /\ o = <<>>
  ELSE o = BarsIn(F, PeriodStart(LastOf(F).ts)) /\ c = Front(Rows(F))

CInv ==
  /\ fed \in Seq(Bars) /\ Rising(fed)
  /\ Folded(fed, closed, open)
  /\ \A i \in 1 .. Len(closed) : ~Overflows(closed[i].cells)
  /\ aggregate # NoAggregate => fed # <<>> /\ Aggregates(IntCols, aggregate, open)

(* The bars have timestamps, and cells as the assumption says.             *)
LEMMA BarTypes ==
  Stamped(Bars) /\ Celled(Bars) /\ \A b \in Bars, c \in IntCols : b.cells[c] \in Ints \cup {Missing}
<1>1. \A b \in Bars : b.ts \in Int /\ b.cells \in Candles
  BY CumulationAssumption DEF Bars, NaT
<1>2. \A b \in Bars : b.cells \in Given
  BY <1>1, CumulationAssumption DEF Given
<1> QED
  BY <1>1, <1>2, CumulationAssumption DEF Stamped, Celled

(* Their coarse rows.                                                      *)
LEMMA TheirRows ==
  ASSUME NEW D \in Seq(Bars), Rising(D), D # <<>>
  PROVE  /\ Rows(D) # <<>> /\ Len(Rows(D)) = Len(PeriodsOf(D)) /\ Len(PeriodsOf(D)) \in Nat
         /\ \A V : (\A i \in 1 .. Len(PeriodsOf(D)) : Rows(D)[i] \in V) => Rows(D) \in Seq(V)
  BY BarTypes, RowsTyped DEF Rows

LEMMA ClosingRows == \A D : Closing(D) = Front(Rows(D))
  BY DEF Closing, ClosingOf, Rows

(* Taking a batch: the rows and the open bars of all bars taken, from those*)
(* of the open period and the batch alone.                                 *)
LEMMA Merge ==
  ASSUME NEW F \in Seq(Bars), Rising(F), NEW B \in Seq(Bars), B # <<>>, NEW c, NEW o,
         Folded(F, c, o), o \in Seq(Bars), Ordered(o \o B),
         NEW D, D = DedupKeepLast(o \o B), NEW G, G = DedupKeepLast(F \o B)
  PROVE  /\ G \in Seq(Bars) /\ Rising(G) /\ G # <<>>
         /\ D \in Seq(Bars) /\ Rising(D) /\ D # <<>>
         /\ Folded(G, c \o Front(Rows(D)), BarsIn(D, LastOf(PeriodsOf(D))))
<1> DEFINE p == LastOf(PeriodsOf(D))
<1>1. o \o B \in Seq(Bars) /\ o \o B # <<>>
  <2>1. Len(o \o B) = Len(o) + Len(B) /\ Len(o) \in Nat /\ Len(B) \in Nat /\ Len(B) >= 1
    OBVIOUS
  <2>2. o \o B # <<>>
    BY <2>1
  <2> QED
    BY <2>2
<1>2. D \in Seq(Bars) /\ Rising(D) /\ Elems(D) = Latest(o \o B)
  BY <1>1, BarTypes, Deduped
<1>3. D # <<>>
  <2>1. PICK b \in Elems(o \o B) : TRUE
    BY <1>1, NoneOf
  <2>2. Latest(o \o B) # {}
    BY <1>1, <2>1, BarTypes, LatestOfStamp
  <2> QED
    BY <1>2, <2>2, NoneOf
<1>4. p = PeriodStart(LastOf(D).ts) /\ p \in PeriodSet(D)
  BY <1>2, <1>3, BarTypes, LastPeriod
<1>5. CASE F = <<>>
  <2>1. c = <<>> /\ o = <<>>
    BY <1>5 DEF Folded
  <2>2. G = D
    BY <1>5, <2>1
  <2> DEFINE r == Front(Rows(D))
  <2>3. c \o r = r
    <3> DEFINE V == {Rows(D)[i] : i \in 1 .. Len(PeriodsOf(D))}
    <3>0. \A i \in 1 .. Len(PeriodsOf(D)) : Rows(D)[i] \in V
      OBVIOUS
    <3> HIDE DEF V
    <3>1. Rows(D) \in Seq(V) /\ Rows(D) # <<>>
      BY <1>2, <1>3, <3>0, TheirRows
    <3>2. r \in Seq(V)
      BY <3>1, FrontOf
    <3> HIDE DEF r
    <3> QED
      BY <2>1, <3>2
  <2> QED
    BY <1>2, <1>3, <1>4, <2>2, <2>3 DEF Folded
<1>6. CASE F # <<>>
  <2> DEFINE L == PeriodStart(LastOf(F).ts)  q == PeriodsOf(F)  d == PeriodsOf(D)
             RF == Rows(F)  RD == Rows(D)
  <2>1. o = BarsIn(F, L) /\ c = Front(RF)
    BY <1>6 DEF Folded
  <2>2. L = PeriodStart(LastOf(F).ts) /\ q = PeriodsOf(F) /\ d = PeriodsOf(D)
    OBVIOUS
  <2> HIDE DEF L, q, d
  <2>3. G \in Seq(Bars) /\ Rising(G) /\ Merges(F, D, G, L)
    BY <1>6, <2>1, <2>2, BarTypes, Merging
  <2>12. RowsMerge(IntCols, F, D, G, q, d)
    BY <1>2, <1>3, <1>6, <2>2, <2>3, BarTypes, MergedRows
  <2>4. /\ CoarseRows(IntCols, G, PeriodsOf(G))
             = Front(CoarseRows(IntCols, F, q)) \o CoarseRows(IntCols, D, d)
        /\ LastOf(G) = LastOf(D) /\ G # <<>>
    BY <2>12 DEF RowsMerge
  <2>5. BarsIn(G, p) = BarsIn(D, p)
    BY <1>4, <2>12 DEF RowsMerge
  <2>6. Rows(G) = Front(RF) \o RD
    BY <2>2, <2>4 DEF Rows, RowsOf
  <2> DEFINE V == {RF[i] : i \in 1 .. Len(q)} \cup {RD[i] : i \in 1 .. Len(d)}
  <2>7. (\A i \in 1 .. Len(q) : RF[i] \in V) /\ (\A i \in 1 .. Len(d) : RD[i] \in V)
    OBVIOUS
  <2> HIDE DEF V
  <2>8. RF \in Seq(V) /\ RF # <<>>
    BY <1>6, <2>2, <2>7, TheirRows
  <2>9. RD \in Seq(V) /\ RD # <<>>
    BY <1>2, <1>3, <2>2, <2>7, TheirRows
  <2> HIDE DEF RF, RD
  <2>10. Front(RF) \in Seq(V)
    BY <2>8, FrontOf
  <2>13. Front(RF) \o Front(RD) = Front(Front(RF) \o RD)
    BY ONLY <2>9, <2>10, FrontJoin
  <2>11. c \o Front(RD) = Front(Rows(G))
    BY <2>1, <2>6, <2>13
  <2> QED
    BY <1>2, <1>3, <1>4, <2>3, <2>4, <2>5, <2>11 DEF Folded, RD
<1> QED
  BY <1>5, <1>6

(* What the batch path cumulates.                                          *)
LEMMA RawMerges ==
  ASSUME NEW o \in Seq(Bars), NEW B \in Seq(Bars), Ordered(o \o B), NEW D, D = DedupKeepLast(o \o B),
         NEW raw, raw = IF o = <<>> THEN B ELSE D
  PROVE  /\ Cumulate(IntCols, raw) = Rows(D) /\ PeriodsOf(raw) = PeriodsOf(D)
         /\ \A p : DedupKeepLast(BarsIn(raw, p)) = BarsIn(D, p)
<1>1. o \o B \in Seq(Bars)
  OBVIOUS
<1>2. D \in Seq(Bars) /\ Rising(D)
  BY <1>1, BarTypes, Deduped
<1>3. o = <<>> => o \o B = B
  OBVIOUS
<1>4. DedupKeepLast(D) = D /\ Ordered(D)
  BY <1>2, BarTypes, DedupedRising, RisingOrdered
<1>5. raw \in Seq(Bars) /\ Ordered(raw) /\ D = DedupKeepLast(raw)
  BY <1>2, <1>3, <1>4
<1>6. Cumulate(IntCols, raw) = CoarseRows(IntCols, D, PeriodsOf(D)) /\ PeriodsOf(raw) = PeriodsOf(D)
  BY <1>5, BarTypes, CumulateLatest
<1>7. ASSUME NEW p
      PROVE  DedupKeepLast(BarsIn(raw, p)) = BarsIn(D, p)
  BY <1>5, BarTypes, DedupOfPeriod
<1> QED
  BY <1>6, <1>7 DEF Rows, RowsOf

(* The closed rows and those a batch closes are sequences of rows.         *)
LEMMA ClosedRows ==
  ASSUME NEW F \in Seq(Bars), Rising(F), NEW c, NEW o, Folded(F, c, o),
         NEW D \in Seq(Bars), Rising(D), D # <<>>
  PROVE  \E V : c \in Seq(V) /\ Closing(D) \in Seq(V)
<1> DEFINE q == PeriodsOf(F)  d == PeriodsOf(D)
           V == {Rows(F)[i] : i \in 1 .. Len(q)} \cup {Rows(D)[i] : i \in 1 .. Len(d)}
<1>1. (\A i \in 1 .. Len(q) : Rows(F)[i] \in V) /\ (\A i \in 1 .. Len(d) : Rows(D)[i] \in V)
  OBVIOUS
<1> HIDE DEF V
<1>2. Rows(D) \in Seq(V) /\ Rows(D) # <<>>
  BY <1>1, TheirRows
<1>3. Closing(D) \in Seq(V)
  BY <1>2, FrontOf, ClosingRows
<1>4. c \in Seq(V)
  <2>1. CASE F = <<>>
    BY <2>1 DEF Folded
  <2>2. CASE F # <<>>
    <3>1. Rows(F) \in Seq(V) /\ Rows(F) # <<>>
      BY <1>1, <2>2, TheirRows
    <3>2. c = Front(Rows(F))
      BY <2>2 DEF Folded
    <3> QED
      BY <3>1, <3>2, FrontOf
  <2> QED
    BY <2>1, <2>2
<1> QED
  BY <1>3, <1>4

(* Taking a batch keeps the invariant.                                     *)
LEMMA ManyStep ==
  ASSUME CInv, NEW batch \in Batches, AppendMany(batch)
  PROVE  CInv'
<1> DEFINE raw == Raw(batch)  next == DedupKeepLast(BarsIn(raw, LastOf(PeriodsOf(raw))))
           D == DedupKeepLast(open \o batch)
<1>1. CASE Refused
  BY <1>1 DEF Refused, CInv
<1>2. CASE /\ batch # <<>> /\ Ordered(open \o batch)
           /\ \A i \in 1 .. Len(Front(Cumulate(IntCols, raw))) :
                 ~Overflows(Front(Cumulate(IntCols, raw))[i].cells)
           /\ closed' = closed \o Front(Cumulate(IntCols, raw))
           /\ open' = next /\ aggregate' = NewAggregate(IntCols, next)
           /\ Taken(batch)
  <2>1. fed \in Seq(Bars) /\ Rising(fed) /\ Folded(fed, closed, open)
    BY DEF CInv
  <2>2. batch \in Seq(Bars)
    BY DEF Batches
  <2>3. open \in Seq(Bars)
    <3>1. CASE fed = <<>>
      BY <2>1, <3>1 DEF Folded
    <3>2. CASE fed # <<>>
      BY <2>1, <3>2, BarTypes, OpenBars DEF Folded, AreOpen
    <3> QED
      BY <3>1, <3>2
  <2>4. raw = IF open = <<>> THEN batch ELSE D
    BY DEF Raw
  <2>5. D = DedupKeepLast(open \o batch)
    OBVIOUS
  <2> HIDE DEF D, raw
  <2>6. /\ Cumulate(IntCols, raw) = Rows(D) /\ PeriodsOf(raw) = PeriodsOf(D)
        /\ \A p : DedupKeepLast(BarsIn(raw, p)) = BarsIn(D, p)
    BY <1>2, <2>2, <2>3, <2>4, <2>5, RawMerges
  <2>7. next = BarsIn(D, LastOf(PeriodsOf(D)))
    BY <2>6
  <2> HIDE DEF next
  <2>8. fed' = DedupKeepLast(fed \o batch)
    BY <1>2 DEF Taken
  <2>9. /\ fed' \in Seq(Bars) /\ Rising(fed') /\ fed' # <<>>
        /\ D \in Seq(Bars) /\ Rising(D) /\ D # <<>>
        /\ Folded(fed', closed \o Front(Rows(D)), BarsIn(D, LastOf(PeriodsOf(D))))
    BY <1>2, <2>1, <2>2, <2>3, <2>5, <2>8, Merge
  <2>10. closed' = closed \o Closing(D) /\ open' = next
    BY <1>2, <2>6, ClosingRows
  <2>11. Folded(fed', closed', open')
    BY <2>7, <2>9, <2>10, ClosingRows
  <2>12. next \in Seq(Bars) /\ next # <<>>
    <3>1. open' = BarsIn(fed', PeriodStart(LastOf(fed').ts))
      BY <2>9, <2>11 DEF Folded
    <3> DEFINE F == fed'  o == open'
    <3>2. F \in Seq(Bars) /\ Rising(F) /\ F # <<>> /\ o = BarsIn(F, PeriodStart(LastOf(F).ts))
      BY <2>9, <3>1
    <3> HIDE DEF F, o
    <3>3. o \in Seq(Bars) /\ o # <<>>
      BY <3>2, BarTypes, OpenBars DEF AreOpen
    <3> QED
      BY <2>10, <3>3 DEF o
  <2>13. aggregate' # NoAggregate => Aggregates(IntCols, aggregate', open')
    BY <1>2, <2>10, <2>12, BarTypes, NewAggregates
  <2>14. \A i \in 1 .. Len(closed') : ~Overflows(closed'[i].cells)
    <3>1. \A i \in 1 .. Len(Closing(D)) : ~Overflows(Closing(D)[i].cells)
      BY <1>2, <2>6, ClosingRows
    <3> DEFINE n == Len(closed)  m == Len(Closing(D))  z == closed \o Closing(D)
    <3>2. \E V : closed \in Seq(V) /\ Closing(D) \in Seq(V)
      BY <2>1, <2>9, ClosedRows
    <3>3. PICK V : closed \in Seq(V) /\ Closing(D) \in Seq(V)
      BY <3>2
    <3>4. IsJoin(z, closed, Closing(D), n, m) /\ n \in Nat /\ m \in Nat
      BY <3>3, Joined
    <3>5. \A i \in 1 .. n : ~Overflows(closed[i].cells)
      BY DEF CInv
    <3> HIDE DEF z, n, m
    <3>6. ASSUME NEW i \in 1 .. n + m
          PROVE  ~Overflows(z[i].cells)
      <4>1. CASE i \in 1 .. n
        BY <3>4, <3>5, <4>1 DEF IsJoin
      <4>2. CASE i \notin 1 .. n
        <5> DEFINE k == i - n
        <5>1. k \in 1 .. m /\ i = n + k
          BY <3>4, <4>2
        <5> HIDE DEF k
        <5>2. z[i] = Closing(D)[k]
          BY <3>4, <5>1 DEF IsJoin
        <5>3. ~Overflows(Closing(D)[k].cells)
          BY <3>1, <5>1 DEF m
        <5> QED
          BY <5>2, <5>3
      <4> QED
        BY <4>1, <4>2
    <3>7. closed' = z /\ Len(z) = n + m
      BY <2>10, <3>4 DEF IsJoin, z
    <3> QED
      BY <3>6, <3>7
  <2> QED
    BY <2>9, <2>11, <2>13, <2>14 DEF CInv
<1> QED
  BY <1>1, <1>2 DEF AppendMany

-----------------------------------------------------------------------------
(* Taking a single bar keeps the invariant: it is a batch of one.          *)
LEMMA OneStep ==
  ASSUME CInv, NEW batch \in Batches, AppendOne(batch)
  PROVE  CInv'
<1> DEFINE F == fed  o == open  b == batch[1]  L == PeriodStart(LastOf(F).ts)
           D == DedupKeepLast(o \o batch)
<1>1. /\ o # <<>> /\ aggregate # NoAggregate /\ Len(batch) = 1 /\ b.ts >= LastOf(o).ts
      /\ Taken(batch)
  BY DEF AppendOne, IsLive
<1>2. /\ F \in Seq(Bars) /\ Rising(F) /\ Folded(F, closed, o) /\ Aggregates(IntCols, aggregate, o)
      /\ \A i \in 1 .. Len(closed) : ~Overflows(closed[i].cells)
  BY <1>1 DEF CInv
<1>3. F # <<>>
  BY <1>1, <1>2 DEF Folded
<1>4. o = BarsIn(F, L)
  BY <1>2, <1>3 DEF Folded
<1>5. batch \in Seq(Bars) /\ batch = <<b>> /\ b \in Bars /\ batch # <<>>
  <2>1. PICK n \in 0 .. MaxBatch : batch \in [1 .. n -> Bars]
    BY DEF Batches
  <2>2. n = 1 /\ batch \in Seq(Bars)
    BY <1>1, <2>1
  <2>3. b = batch[1]
    OBVIOUS
  <2> HIDE DEF b
  <2> QED
    BY <1>1, <2>2, <2>3, Single
<1>6. D = DedupKeepLast(o \o batch) /\ L = PeriodStart(LastOf(F).ts)
  OBVIOUS
<1>7. fed' = DedupKeepLast(F \o batch)
  BY <1>1 DEF Taken
<1> HIDE DEF F, L, D, b
<1>8. /\ o \in Seq(Bars) /\ Rising(o) /\ LastOf(o) = LastOf(F) /\ L \in Int
      /\ \A i \in 1 .. Len(o) : PeriodStart(o[i].ts) = L
  <2>1. Stamped(Bars) /\ F \in Seq(Bars) /\ Rising(F) /\ F # <<>>
    BY <1>2, <1>3, BarTypes
  <2> HIDE DEF o
  <2>2. AreOpen(o, Bars, F, L)
    BY ONLY <1>4, <1>6, <2>1, OpenBars
  <2> QED
    BY <2>2 DEF AreOpen
<1>9. \A x \in Elems(o) : PeriodStart(x.ts) = L
  BY <1>8 DEF Elems
<1>10. /\ Ordered(o \o batch) /\ D = Pushed(o, b) /\ D \in Seq(Bars) /\ Rising(D)
       /\ Elems(D) = {x \in Elems(o) : x.ts # b.ts} \cup {b}
  <2> HIDE DEF o
  <2> QED
    BY <1>1, <1>5, <1>6, <1>8, BarTypes, PushedMerges
<1>11. /\ fed' \in Seq(Bars) /\ Rising(fed') /\ fed' # <<>> /\ D # <<>>
       /\ Folded(fed', closed \o Front(Rows(D)), BarsIn(D, LastOf(PeriodsOf(D))))
  <2> HIDE DEF o
  <2> QED
    BY <1>2, <1>5, <1>6, <1>7, <1>8, <1>10, Merge
<1>12. PICK V : closed \in Seq(V) /\ Closing(D) \in Seq(V)
  <2> HIDE DEF o
  <2> QED
    BY <1>2, <1>10, <1>11, ClosedRows
<1>13. PeriodStart(o[1].ts) = L
  BY <1>1, <1>8
<1>14. CASE LiveBar(b)
  <2> DEFINE p == PushedAggregate(IntCols, aggregate[1], b, b.ts = LastOf(open).ts)
  <2>1. /\ PeriodStart(b.ts) = L /\ open' = D /\ closed' = closed
        /\ aggregate' = IF p.ok THEN <<p.agg>> ELSE NoAggregate
    BY <1>10, <1>13, <1>14 DEF LiveBar
  <2>2. PeriodsOf(D) = <<L>> /\ Closing(D) = <<>> /\ BarsIn(D, L) = D
    <3>1. \A x \in Elems(D) : PeriodStart(x.ts) = L
      BY <1>9, <1>10, <2>1
    <3> QED
      BY <1>8, <1>10, <1>11, <3>1, BarTypes, OnePeriod DEF Closing
  <2>3. LastOf(PeriodsOf(D)) = L
    BY <2>2 DEF LastOf
  <2>4. closed \o Front(Rows(D)) = closed
    BY <1>12, <2>2, ClosingRows
  <2>5. Folded(fed', closed', open')
    BY <1>11, <2>1, <2>2, <2>3, <2>4
  <2>6. ASSUME aggregate' # NoAggregate
        PROVE  Aggregates(IntCols, aggregate', open')
    <3> HIDE DEF p
    <3>1. p.ok /\ aggregate' = <<p.agg>>
      BY <2>1, <2>6
    <3>2. Aggregates(IntCols, <<p.agg>>, Pushed(o, b))
      BY <1>1, <1>2, <1>5, <1>8, <3>1, BarTypes, AggregatePushed DEF p
    <3> QED
      BY <1>10, <2>1, <3>1, <3>2
  <2> QED
    BY <1>2, <1>11, <2>1, <2>5, <2>6 DEF CInv
<1>15. CASE LiveRollOver(b)
  <2> DEFINE q == PeriodStart(b.ts)
  <2>1. /\ q # L /\ open' = <<b>> /\ aggregate' = NewAggregate(IntCols, <<b>>)
        /\ closed' = Append(closed, [ts |-> L, cells |-> aggregate[1].current])
    BY <1>13, <1>15 DEF LiveRollOver
  <2>2. LastOf(o) \in Elems(o) /\ LastOf(o) \in Bars /\ \A x \in Elems(o) : x.ts <= LastOf(o).ts
    <3> HIDE DEF o
    <3> QED
      BY <1>1, <1>8, BarTypes, LastIsLatest
  <2>3. q \in Int /\ q > L
    <3> DEFINE l == LastOf(o)
    <3>1. b.ts \in Int /\ l.ts \in Int /\ l.ts <= b.ts /\ PeriodStart(l.ts) = L
      BY <1>1, <1>5, <1>9, <2>2, BarTypes DEF Stamped
    <3> HIDE DEF l
    <3>2. PeriodStart(l.ts) <= PeriodStart(b.ts)
      BY <3>1, PeriodMonotone
    <3>3. q \in Int
      BY <3>1, PeriodOf
    <3> QED
      BY <1>8, <2>1, <3>1, <3>2, <3>3
  <2> HIDE DEF q
  <2>4. \A x \in Elems(o) : x.ts # b.ts
    BY <1>9, <2>1 DEF q
  <2>5. Elems(D) = Elems(o) \cup {b}
    BY <1>10, <2>4
  <2>6. /\ PeriodsOf(D) = <<L, q>> /\ BarsIn(D, q) = <<b>>
        /\ Closing(D) = <<CoarseRow(IntCols, o, L)>>
    <3>1. PeriodStart(b.ts) = q
      BY DEF q
    <3>2. o \in Seq(Bars) /\ Rising(o) /\ o # <<>> /\ L \in Int /\ q \in Int /\ L < q /\ b \in Bars
      BY <1>1, <1>5, <1>8, <2>3
    <3>3. D \in Seq(Bars) /\ Rising(D)
      BY <1>10
    <3> HIDE DEF o
    <3>4. Stamped(Bars)
      BY BarTypes
    <3>5. Closes(IntCols, D, o, L, b, q)
      BY ONLY <1>9, <2>5, <3>1, <3>2, <3>3, <3>4, TwoPeriods
    <3> QED
      BY <3>5 DEF Closes, Closing
  <2>7. LastOf(PeriodsOf(D)) = q
    BY <2>6 DEF LastOf
  <2>8. BarsIn(o, L) = o
    BY <1>8, <1>9, BarTypes, AllBarsIn
  <2>9. aggregate[1].current = Reduce(IntCols, o) /\ ~Overflows(aggregate[1].current)
    BY <1>2 DEF Aggregates
  <2> DEFINE row == [ts |-> L, cells |-> aggregate[1].current]
  <2>10. CoarseRow(IntCols, o, L) = row
    BY <2>8, <2>9 DEF CoarseRow
  <2>11. closed' = Append(closed, row) /\ row.cells = aggregate[1].current
    BY <2>1
  <2> HIDE DEF row
  <2>12. closed \o Front(Rows(D)) = closed'
    <3>1. closed \o <<row>> = Append(closed, row)
      BY <1>12, <2>6, <2>10
    <3> QED
      BY <2>6, <2>10, <2>11, <3>1, ClosingRows
  <2>13. Folded(fed', closed', open')
    BY <1>11, <2>1, <2>6, <2>7, <2>12
  <2>14. aggregate' # NoAggregate => Aggregates(IntCols, aggregate', open')
    BY <1>5, <2>1, BarTypes, NewAggregates
  <2>15. \A i \in 1 .. Len(closed') : ~Overflows(closed'[i].cells)
    <3> DEFINE n == Len(closed)  z == Append(closed, row)
    <3>1. n \in Nat /\ Len(z) = n + 1 /\ z[n + 1] = row /\ \A i \in 1 .. n : z[i] = closed[i]
      BY <1>12
    <3>2. \A i \in 1 .. n : ~Overflows(closed[i].cells)
      BY <1>2
    <3> HIDE DEF n, z
    <3>3. ASSUME NEW i \in 1 .. n + 1
          PROVE  ~Overflows(z[i].cells)
      <4>1. CASE i = n + 1
        BY <2>9, <2>11, <3>1, <4>1
      <4>2. CASE i # n + 1
        <5>1. i \in 1 .. n
          BY <3>1, <4>2
        <5> QED
          BY <3>1, <3>2, <5>1
      <4> QED
        BY <4>1, <4>2
    <3> QED
      BY <2>11, <3>1, <3>3 DEF z
  <2> QED
    BY <1>11, <2>13, <2>14, <2>15 DEF CInv
<1> QED
  BY <1>14, <1>15 DEF AppendOne, b

-----------------------------------------------------------------------------
(* The invariant.                                                          *)
LEMMA Initially ==
  ASSUME Init
  PROVE  CInv
<1>1. fed = <<>> /\ closed = <<>> /\ open = <<>> /\ aggregate = NoAggregate
  BY DEF Init
<1>2. fed \in Seq(Bars) /\ Rising(fed)
  BY <1>1 DEF Rising
<1>3. \A i \in 1 .. Len(closed) : ~Overflows(closed[i].cells)
  BY <1>1
<1> QED
  BY <1>1, <1>2, <1>3 DEF CInv, Folded

LEMMA Stepwise ==
  ASSUME CInv, [Next]_vars
  PROVE  CInv'
<1>1. CASE AppendBars
  BY <1>1, OneStep, ManyStep DEF AppendBars
<1>2. CASE Last
  BY <1>2 DEF Last, CInv
<1>3. CASE UNCHANGED vars
  BY <1>3 DEF vars, CInv
<1> QED
  BY <1>1, <1>2, <1>3 DEF Next

(* The invariant holds of every state the cumulator reaches.               *)
THEOREM CumulatorInvariance == Spec => []CInv
<1>1. Init => CInv
  BY Initially
<1>2. CInv /\ [Next]_vars => CInv'
  BY Stepwise
<1> QED
  BY <1>1, <1>2, PTL DEF Spec

(* However the bars came in, the closed rows and the open bars are those   *)
(* of cumulating all bars taken at once (cumulate.rs append_one,           *)
(* append_many, cumulate).                                                 *)
THEOREM BatchesAddUp == Spec => []IncrementalIsBatch
<1>1. CInv => IncrementalIsBatch
  <2> SUFFICES ASSUME CInv
               PROVE  IncrementalIsBatch
    OBVIOUS
  <2>1. fed \in Seq(Bars) /\ Rising(fed) /\ Folded(fed, closed, open)
    BY DEF CInv
  <2>2. Ordered(fed) /\ DedupKeepLast(fed) = fed
    BY <2>1, BarTypes, RisingOrdered, DedupedRising
  <2>3. Cumulate(IntCols, fed) = Rows(fed)
    BY <2>1, <2>2, BarTypes, CumulateLatest DEF Rows, RowsOf
  <2> QED
    BY <2>1, <2>3 DEF Folded, IncrementalIsBatch
<1> QED
  BY <1>1, CumulatorInvariance, PTL

-----------------------------------------------------------------------------
(* What a reduction means.                                                 *)
CellsOf(bars, c) == [i \in 1 .. Len(bars) |-> bars[i].cells[c]]

Totals(f, xs) == f = [i \in 0 .. Len(xs) |-> IF i = 0 THEN 0 ELSE f[i - 1] + xs[i]]

(* Totals are defined.                                                     *)
LEMMA TotalsExist ==
  ASSUME NEW xs \in Seq(Int)
  PROVE  \E f : Totals(f, xs)
<1> DEFINE n == Len(xs)  G == [i \in 1 .. n |-> [a \in Int |-> a + xs[i]]]
<1>1. n \in Nat /\ 0 \in Int
  OBVIOUS
<1>2. G \in [1 .. n -> [Int -> Int]] /\ \A i \in 1 .. n, a \in Int : G[i][a] = a + xs[i]
  OBVIOUS
<1> HIDE DEF G, n
<1>3. PICK L \in [0 .. n -> Int] : Follows(L, n, 0, G)
  BY <1>1, <1>2, Recursion
<1>4. L = [i \in 0 .. n |-> L[i]]
  OBVIOUS
<1>5. ASSUME NEW i \in 0 .. n
      PROVE  L[i] = IF i = 0 THEN 0 ELSE L[i - 1] + xs[i]
  <2>1. CASE i = 0
    BY <1>3, <2>1 DEF Follows
  <2>2. CASE i # 0
    <3>1. i \in 1 .. n /\ i - 1 \in 0 .. n
      BY <1>1, <2>2
    <3>2. L[i] = G[i][L[i - 1]] /\ L[i - 1] \in Int
      BY <1>3, <3>1 DEF Follows
    <3> QED
      BY <1>2, <2>2, <3>1, <3>2
  <2> QED
    BY <2>1, <2>2
<1>6. L = [i \in 0 .. n |-> IF i = 0 THEN 0 ELSE L[i - 1] + xs[i]]
  BY <1>4, <1>5
<1> QED
  BY <1>6 DEF Totals, n

(* k are the aggregates of ever more of the cells xs of column c.          *)
Combines(k, c, xs) ==
  /\ k[1] = xs[1]
  /\ \A i \in 2 .. Len(xs) : k[i] = CombineAt(IntCols, c, k[i - 1], xs[i])

(* Induction from 1.                                                       *)
LEMMA Prefixes ==
  ASSUME NEW n \in Nat, NEW T, 1 \in T, \A i \in 1 .. n - 1 : i \in T => i + 1 \in T
  PROVE  \A i \in 1 .. n : i \in T
<1> DEFINE U == {i \in 0 .. n : i = 0 \/ i \in T}
<1>1. 0 \in U
  OBVIOUS
<1>2. \A i \in 0 .. n - 1 : i \in U => i + 1 \in U
  <2> SUFFICES ASSUME NEW i \in 0 .. n - 1, i \in U
               PROVE  i + 1 \in U
    OBVIOUS
  <2>1. CASE i = 0
    BY <2>1
  <2>2. CASE i # 0
    <3>1. i \in 1 .. n - 1 /\ i \in T
      BY <2>2
    <3> QED
      BY <3>1
  <2> QED
    BY <2>1, <2>2
<1> HIDE DEF U
<1>3. \A i \in 0 .. n : i \in U
  BY <1>1, <1>2, Inductive
<1> QED
  BY <1>3 DEF U

(* A missing cell makes the aggregate missing.                             *)
LEMMA MissingStays ==
  ASSUME NEW c, NEW xs, NEW n \in Nat, n = Len(xs), NEW k, Combines(k, c, xs),
         NEW j \in 1 .. n, xs[j] = Missing
  PROVE  k[n] = Missing \/ k[n] = Overflow
<1> DEFINE T == {i \in 1 .. n : j <= i => k[i] = Missing \/ k[i] = Overflow}
<1>1. 1 \in T
  BY DEF Combines
<1>2. ASSUME NEW i \in 1 .. n - 1, i \in T
      PROVE  i + 1 \in T
  <2>1. i + 1 \in 2 .. n /\ i + 1 \in 1 .. n /\ (i + 1) - 1 = i
    OBVIOUS
  <2>2. k[i + 1] = CombineAt(IntCols, c, k[i], xs[i + 1])
    BY <2>1 DEF Combines
  <2>3. j <= i + 1 => j <= i \/ j = i + 1
    OBVIOUS
  <2>4. CASE j <= i
    <3>1. k[i] = Missing \/ k[i] = Overflow
      BY <1>2, <2>4
    <3>2. k[i + 1] = Missing \/ k[i + 1] = Overflow
      BY <2>2, <3>1 DEF CombineAt
    <3> QED
      BY <2>1, <3>2
  <2>5. CASE j = i + 1
    <3>1. k[i + 1] = Missing \/ k[i + 1] = Overflow
      BY <2>2, <2>5 DEF CombineAt
    <3> QED
      BY <2>1, <3>1
  <2>6. CASE ~(j <= i + 1)
    BY <2>1, <2>6
  <2> QED
    BY <2>3, <2>4, <2>5, <2>6
<1>3. \A i \in 1 .. n - 1 : i \in T => i + 1 \in T
  BY <1>2
<1> HIDE DEF T
<1>4. \A i \in 1 .. n : i \in T
  BY <1>1, <1>3, Prefixes
<1>5. n \in 1 .. n /\ j <= n
  OBVIOUS
<1>6. n \in T
  BY <1>4, <1>5
<1> QED
  BY <1>5, <1>6 DEF T

(* What the aggregate a of the first i cells is, if none is missing.       *)
Amounts(c, xs, i, a, total) ==
  /\ a \in Int
  /\ AggOf[c] = "first" => a = xs[1]
  /\ AggOf[c] = "last" => a = xs[i]
  /\ AggOf[c] = "max" => (\A j \in 1 .. i : xs[j] <= a) /\ (\E j \in 1 .. i : xs[j] = a)
  /\ AggOf[c] = "min" => (\A j \in 1 .. i : a <= xs[j]) /\ (\E j \in 1 .. i : xs[j] = a)
  /\ AggOf[c] = "sum" => a = total[i]
  /\ c \in IntCols => a \in Ints

(* One more cell, combined, keeps that.                                    *)
LEMMA CombineAmounts ==
  ASSUME NEW c \in Cols, NEW xs \in Seq(Int), NEW i \in 1 .. Len(xs) - 1, NEW a, NEW total,
         Amounts(c, xs, i, a, total), NEW l, l = i + 1, total[l] = total[i] + xs[l],
         NEW b, b = CombineAt(IntCols, c, a, xs[l]), b # Overflow
  PROVE  Amounts(c, xs, l, b, total)
<1> DEFINE x == xs[l]
<1>1. l \in 1 .. Len(xs) /\ x \in Int /\ a \in Int
  BY DEF Amounts
<1>2. \A j \in 1 .. l : j \in 1 .. i \/ j = l
  OBVIOUS
<1>3. \A j \in 1 .. i : j \in 1 .. l /\ xs[j] \in Int
  OBVIOUS
<1>4. a # Overflow /\ a # Missing /\ x # Missing
  BY <1>1, PeriodFoldAssumption
<1>5. x = xs[l] /\ l \in 1 .. l
  OBVIOUS
<1>6. total[l] = total[i] + x
  OBVIOUS
<1> HIDE DEF x
<1>7. b = Combine(IntCols, c, a, x)
  BY <1>4, <1>5 DEF CombineAt
<1>8. (c \in IntCols => b \in Ints)
  BY <1>7 DEF Combine
<1>9. AggOf[c] \in {"first", "last", "max", "min", "sum"}
  BY PeriodFoldAssumption
<1>10. /\ AggOf[c] = "first" => b = a
       /\ AggOf[c] = "last" => b = x
       /\ AggOf[c] = "max" => b = IF x > a THEN x ELSE a
       /\ AggOf[c] = "min" => b = IF x < a THEN x ELSE a
       /\ AggOf[c] = "sum" => b = a + x
  BY <1>7 DEF Combine
<1>11. b \in Int
  BY <1>1, <1>9, <1>10
<1>12. AggOf[c] = "first" => b = xs[1]
  BY <1>10 DEF Amounts
<1>13. ASSUME AggOf[c] = "max"
       PROVE  (\A j \in 1 .. l : xs[j] <= b) /\ (\E j \in 1 .. l : xs[j] = b)
  <2>1. (\A j \in 1 .. i : xs[j] <= a) /\ (\E j \in 1 .. i : xs[j] = a)
    BY <1>13 DEF Amounts
  <2>2. b = IF x > a THEN x ELSE a
    BY <1>10, <1>13
  <2>3. a <= b /\ x <= b /\ (b = a \/ b = x)
    BY <1>1, <2>2
  <2>4. \A j \in 1 .. i : xs[j] <= b
    BY <1>1, <1>3, <1>11, <2>1, <2>3
  <2>5. \E j \in 1 .. l : xs[j] = b
    BY <1>3, <1>5, <2>1, <2>3
  <2> QED
    BY <1>2, <1>5, <2>3, <2>4, <2>5
<1>14. ASSUME AggOf[c] = "min"
       PROVE  (\A j \in 1 .. l : b <= xs[j]) /\ (\E j \in 1 .. l : xs[j] = b)
  <2>1. (\A j \in 1 .. i : a <= xs[j]) /\ (\E j \in 1 .. i : xs[j] = a)
    BY <1>14 DEF Amounts
  <2>2. b = IF x < a THEN x ELSE a
    BY <1>10, <1>14
  <2>3. b <= a /\ b <= x /\ (b = a \/ b = x)
    BY <1>1, <2>2
  <2>4. \A j \in 1 .. i : b <= xs[j]
    BY <1>1, <1>3, <1>11, <2>1, <2>3
  <2>5. \E j \in 1 .. l : xs[j] = b
    BY <1>3, <1>5, <2>1, <2>3
  <2> QED
    BY <1>2, <1>5, <2>3, <2>4, <2>5
<1>15. AggOf[c] = "sum" => b = total[l]
  BY <1>6, <1>10 DEF Amounts
<1>16. AggOf[c] = "last" => b = xs[l]
  BY <1>5, <1>10
<1> QED
  BY <1>8, <1>11, <1>12, <1>13, <1>14, <1>15, <1>16 DEF Amounts

(* So it is of all cells.                                                  *)
LEMMA CellsAmount ==
  ASSUME NEW c \in Cols, NEW xs \in Seq(Int), xs # <<>>, c \in IntCols => xs[1] \in Ints,
         NEW n, n = Len(xs), NEW k, Combines(k, c, xs), k[n] # Overflow,
         NEW total, Totals(total, xs)
  PROVE  Amounts(c, xs, n, k[n], total)
<1> DEFINE T == {i \in 1 .. n : k[i] # Overflow => Amounts(c, xs, i, k[i], total)}
<1>1. n \in Nat /\ n >= 1 /\ n \in 1 .. n /\ 1 \in 1 .. n
  OBVIOUS
<1>2. total[0] = 0 /\ \A i \in 1 .. n : total[i] = total[i - 1] + xs[i]
  <2>1. \A i \in 1 .. n : i \in 0 .. n /\ i # 0
    BY <1>1
  <2>2. 0 \in 0 .. n
    BY <1>1
  <2>3. \A i \in 0 .. n : total[i] = IF i = 0 THEN 0 ELSE total[i - 1] + xs[i]
    BY DEF Totals
  <2> QED
    BY <2>1, <2>2, <2>3
<1>3. 1 \in T
  <2>1. k[1] = xs[1] /\ xs[1] \in Int
    BY <1>1 DEF Combines
  <2>2. total[1] = total[0] + xs[1]
    BY <1>1, <1>2
  <2>3. total[1] = xs[1]
    BY <1>2, <2>1, <2>2
  <2>4. 1 .. 1 = {1} /\ xs[1] <= xs[1]
    BY <2>1
  <2>5. Amounts(c, xs, 1, k[1], total)
    BY <2>1, <2>3, <2>4 DEF Amounts
  <2> QED
    BY <1>1, <2>5
<1>4. ASSUME NEW i \in 1 .. n - 1, i \in T
      PROVE  i + 1 \in T
  <2> DEFINE l == i + 1
  <2>1. l \in 2 .. n /\ l \in 1 .. n /\ l - 1 = i /\ i \in 1 .. Len(xs) - 1 /\ l = i + 1
    BY <1>1
  <2> HIDE DEF l
  <2>2. k[l] = CombineAt(IntCols, c, k[i], xs[l])
    BY <2>1 DEF Combines
  <2>3. total[l] = total[i] + xs[l]
    BY <1>2, <2>1
  <2>4. ASSUME k[l] # Overflow
        PROVE  Amounts(c, xs, l, k[l], total)
    <3>1. k[i] # Overflow
      BY <2>2, <2>4 DEF CombineAt
    <3>2. Amounts(c, xs, i, k[i], total)
      BY <1>4, <3>1
    <3> QED
      BY <2>1, <2>2, <2>3, <2>4, <3>2, CombineAmounts
  <2>5. l \in T
    BY <2>1, <2>4
  <2> QED
    BY <2>5 DEF l
<1>5. \A i \in 1 .. n - 1 : i \in T => i + 1 \in T
  BY <1>4
<1> HIDE DEF T
<1>6. \A i \in 1 .. n : i \in T
  BY <1>1, <1>3, <1>5, Prefixes
<1>7. n \in T
  BY <1>1, <1>6
<1> QED
  BY <1>7 DEF T

(* A cell of a reduction that does not overflow means what it should.      *)
LEMMA ReduceMeans ==
  ASSUME NEW bars \in Seq(Bars), bars # <<>>, NEW c \in Cols, NEW v, v = Reduce(IntCols, bars)[c],
         v # Overflow, NEW xs, xs = CellsOf(bars, c)
  PROVE  Means(c, xs, v)
<1> DEFINE n == Len(bars)
<1>1. n \in Nat /\ n >= 1 /\ n \in 1 .. n /\ Len(xs) = n /\ \A i \in 1 .. n : xs[i] = bars[i].cells[c]
  BY DEF CellsOf
<1>2. \A i \in 1 .. n : xs[i] \in Int \cup {Missing} /\ (c \in IntCols => xs[i] \in Ints \cup {Missing})
  <2> SUFFICES ASSUME NEW i \in 1 .. n
               PROVE  xs[i] \in Int \cup {Missing} /\ (c \in IntCols => xs[i] \in Ints \cup {Missing})
    OBVIOUS
  <2>1. bars[i] \in Bars
    OBVIOUS
  <2>2. bars[i].cells \in Given
    BY <2>1, BarTypes DEF Celled
  <2>3. bars[i].cells[c] \in Int \cup {Missing}
    BY <2>2 DEF Given
  <2>4. c \in IntCols => bars[i].cells[c] \in Ints \cup {Missing}
    BY <2>1, BarTypes
  <2> QED
    BY <1>1, <2>3, <2>4
<1>3. PICK K \in [1 .. Len(bars) -> Cells] : Steps(K, IntCols, bars) /\ Reduce(IntCols, bars) = K[Len(bars)]
  BY BarTypes, ReduceSteps
<1>4. K[1] = bars[1].cells /\ \A i \in 2 .. n : K[i] = Fold(IntCols, K[i - 1], bars[i])
  BY <1>3 DEF Steps
<1> DEFINE k == [i \in 1 .. n |-> K[i][c]]
<1>5. \A i \in 1 .. n : k[i] = K[i][c]
  OBVIOUS
<1> HIDE DEF n, k
<1>6. Combines(k, c, xs)
  <2>1. k[1] = xs[1]
    <3>1. 1 \in 1 .. n
      BY <1>1
    <3> QED
      BY <1>1, <1>4, <1>5, <3>1
  <2>2. ASSUME NEW i \in 2 .. n
        PROVE  k[i] = CombineAt(IntCols, c, k[i - 1], xs[i])
    <3>1. i \in 1 .. n /\ i - 1 \in 1 .. n
      BY <1>1
    <3>2. K[i][c] = CombineAt(IntCols, c, K[i - 1][c], bars[i].cells[c])
      BY <1>4 DEF Fold
    <3> QED
      BY <1>1, <1>5, <3>1, <3>2
  <2> QED
    BY <1>1, <2>1, <2>2 DEF Combines
<1>7. v = k[n] /\ k[n] # Overflow
  BY <1>1, <1>3, <1>5 DEF n
<1>8. CASE \E i \in 1 .. n : xs[i] = Missing
  <2>1. k[n] = Missing
    BY <1>1, <1>6, <1>7, <1>8, MissingStays
  <2> QED
    BY <1>1, <1>7, <1>8, <2>1 DEF Means
<1>9. CASE ~\E i \in 1 .. n : xs[i] = Missing
  <2> DEFINE total == CHOOSE f : f = [i \in 0 .. Len(xs) |-> IF i = 0 THEN 0 ELSE f[i - 1] + xs[i]]
  <2>1. xs \in Seq(Int) /\ xs # <<>>
    <3>1. \A i \in 1 .. n : xs[i] \in Int
      BY <1>2, <1>9
    <3>2. xs = [i \in 1 .. n |-> xs[i]]
      BY <1>1 DEF CellsOf, n
    <3>3. xs \in Seq(Int)
      BY <1>1, <3>1, <3>2
    <3> QED
      BY <1>1, <3>3
  <2>2. Totals(total, xs)
    BY <2>1, TotalsExist DEF Totals
  <2>3. c \in IntCols => xs[1] \in Ints
    <3>1. 1 \in 1 .. n
      BY <1>1
    <3> QED
      BY <1>2, <1>9, <3>1
  <2>4. AggOf[c] \in {"first", "last", "max", "min", "sum"}
    BY PeriodFoldAssumption
  <2>5. AggOf[c] = "sum" => (Means(c, xs, v) <=> v = total[Len(xs)] /\ (c \in IntCols => v \in Ints))
    BY <1>1, <1>9 DEF Means
  <2> HIDE DEF total
  <2>6. Amounts(c, xs, n, v, total)
    BY <1>1, <1>6, <1>7, <2>1, <2>2, <2>3, CellsAmount
  <2>7. CASE AggOf[c] = "sum"
    BY <1>1, <2>5, <2>6, <2>7 DEF Amounts
  <2>8. CASE AggOf[c] = "max"
    <3>1. (\A i \in 1 .. n : xs[i] <= v) /\ (\E i \in 1 .. n : xs[i] = v)
      BY <2>6, <2>8 DEF Amounts
    <3> QED
      BY <1>1, <1>9, <2>8, <3>1 DEF Means
  <2>9. CASE AggOf[c] = "min"
    <3>1. (\A i \in 1 .. n : v <= xs[i]) /\ (\E i \in 1 .. n : xs[i] = v)
      BY <2>6, <2>9 DEF Amounts
    <3> QED
      BY <1>1, <1>9, <2>9, <3>1 DEF Means
  <2>10. CASE AggOf[c] = "first"
    BY <1>1, <1>9, <2>6, <2>10 DEF Means, Amounts
  <2>11. CASE AggOf[c] = "last"
    BY <1>1, <1>9, <2>6, <2>11 DEF Means, Amounts, LastOf
  <2> QED
    BY <2>4, <2>7, <2>8, <2>9, <2>10, <2>11
<1> QED
  BY <1>8, <1>9

(* Every closed row, and the running aggregate, holds the first, last,     *)
(* greatest, least or total value of its period's bars, each timestamp     *)
(* once, and is missing if one of them is (fold.rs).                       *)
THEOREM RowsMean == Spec => []RowsMeanTheirBars
<1>1. CInv => RowsMeanTheirBars
  <2> SUFFICES ASSUME CInv, NEW c \in Cols
               PROVE  /\ \A i \in 1 .. Len(closed) :
                           Means(c, CellsOf(BarsIn(fed, closed[i].ts), c), closed[i].cells[c])
                      /\ aggregate # NoAggregate =>
                           Means(c, CellsOf(BarsIn(fed, PeriodStart(open[1].ts)), c),
                                 aggregate[1].current[c])
    BY DEF RowsMeanTheirBars, CellsOf
  <2>1. /\ fed \in Seq(Bars) /\ Rising(fed) /\ Folded(fed, closed, open)
        /\ \A i \in 1 .. Len(closed) : ~Overflows(closed[i].cells)
        /\ aggregate # NoAggregate => fed # <<>> /\ Aggregates(IntCols, aggregate, open)
    BY DEF CInv
  <2>2. ASSUME NEW i \in 1 .. Len(closed)
        PROVE  Means(c, CellsOf(BarsIn(fed, closed[i].ts), c), closed[i].cells[c])
    <3> DEFINE q == PeriodsOf(fed)  r == Rows(fed)
    <3>1. fed # <<>>
      BY <2>1 DEF Folded
    <3>2. closed = Front(r)
      BY <2>1, <3>1 DEF Folded
    <3>3. Ordered(fed)
      BY <2>1, BarTypes, RisingOrdered
    <3>4. q \in Seq(Int) /\ Elems(q) = PeriodSet(fed)
      BY <2>1, <3>3, BarTypes, PeriodsListed
    <3>5. r = [j \in 1 .. Len(q) |-> CoarseRow(IntCols, fed, q[j])]
      BY DEF Rows, RowsOf, CoarseRows
    <3> HIDE DEF q, r
    <3>6. closed[i] = r[i] /\ i \in 1 .. Len(q)
      <4> DEFINE V == {r[j] : j \in 1 .. Len(q)}
      <4>1. \A j \in 1 .. Len(q) : r[j] \in V
        OBVIOUS
      <4> HIDE DEF V
      <4>2. r \in Seq(V) /\ r # <<>> /\ Len(r) = Len(q) /\ Len(q) \in Nat
        BY <2>1, <3>1, <4>1, TheirRows DEF q, r
      <4>3. Len(closed) = Len(r) - 1 /\ \A j \in 1 .. Len(r) - 1 : closed[j] = r[j]
        BY <3>2, <4>2, FrontOf
      <4> QED
        BY <4>2, <4>3
    <3> DEFINE p == q[i]  t == BarsIn(fed, p)  v == Reduce(IntCols, t)
    <3>7. closed[i].ts = p /\ closed[i].cells = v
      BY <3>5, <3>6 DEF CoarseRow
    <3>8. p \in PeriodSet(fed)
      BY <3>4, <3>6 DEF Elems
    <3>9. t \in Seq(Bars)
      BY <2>1, BarTypes, BarsListed
    <3>10. t # <<>>
      <4> HIDE DEF p
      <4> QED
        BY <2>1, <3>8, BarTypes, BarsInSome
    <3>11. v[c] # Overflow
      BY <2>1, <3>7 DEF Overflows
    <3> HIDE DEF t, p
    <3>12. Means(c, CellsOf(t, c), v[c])
      BY <3>9, <3>10, <3>11, ReduceMeans
    <3> QED
      BY <3>7, <3>12 DEF t
  <2>3. ASSUME aggregate # NoAggregate
        PROVE  Means(c, CellsOf(BarsIn(fed, PeriodStart(open[1].ts)), c), aggregate[1].current[c])
    <3> DEFINE F == fed  o == open  L == PeriodStart(LastOf(F).ts)  v == Reduce(IntCols, o)
    <3>1. F # <<>> /\ o = BarsIn(F, L) /\ Aggregates(IntCols, aggregate, o)
      BY <2>1, <2>3 DEF Folded
    <3>2. F \in Seq(Bars) /\ Rising(F) /\ L = PeriodStart(LastOf(F).ts)
      BY <2>1
    <3> HIDE DEF F, L
    <3>3. o \in Seq(Bars) /\ o # <<>> /\ \A i \in 1 .. Len(o) : PeriodStart(o[i].ts) = L
      <4> HIDE DEF o
      <4> QED
        <5>1. Stamped(Bars)
          BY BarTypes
        <5>2. AreOpen(o, Bars, F, L)
          BY ONLY <3>1, <3>2, <5>1, OpenBars
        <5> QED
          BY <5>2 DEF AreOpen
    <3>4. PeriodStart(open[1].ts) = L
      BY <3>3
    <3>5. aggregate[1].current = v /\ ~Overflows(v)
      BY <3>1 DEF Aggregates
    <3>6. v[c] # Overflow
      BY <3>5 DEF Overflows
    <3> HIDE DEF o
    <3>7. Means(c, CellsOf(o, c), v[c])
      BY <3>3, <3>6, ReduceMeans
    <3> QED
      BY <3>1, <3>4, <3>5, <3>7 DEF F
  <2> QED
    BY <2>2, <2>3
<1> QED
  BY <1>1, CumulatorInvariance, PTL
=============================================================================
