------------------------- MODULE TimeFrameFoldProofs -------------------------
(***************************************************************************)
(* In-place folding gives what cumulating at once gives, refuses all or    *)
(* nothing and keeps the running aggregate exact, for any columns, period, *)
(* candles and bounds, as long as the lead refuses no integer              *)
(* (LeadTakesAll): past that the code differs, as a run of its own shows.  *)
(*                                                                         *)
(* A fold works on a record; Shape and Exact are the invariant on it, kept *)
(* by every bar (FoldBarCases, FoldBarExact) and so by a batch up to the   *)
(* bar that fails (Folding).                                               *)
(***************************************************************************)
EXTENDS TimeFrameFold, PeriodFoldProofs

(* No integer column is over a lead of floats, or every integer is exact.  *)
LeadTakesAll == lead \cap ints = {} \/ Ints \subseteq -MaxExact .. MaxExact

(* The same of a fold, whose lead is `held'.                               *)
TakesAll(held) == held \cap ints = {} \/ Ints \subseteq -MaxExact .. MaxExact

RowSet  == [ts : Int, cells : Cells]
BarSet  == [ts : Int, cells : Given]
AggSet  == [current : Cells, hasBefore : BOOLEAN, before : Cells]
Aggs    == {NoAggregate} \cup {<<a>> : a \in AggSet}
FoldSet == [rows : Seq(RowSet), open : Seq(BarSet), key : Int, agg : Aggs,
            refold : BOOLEAN, ok : BOOLEAN]

(* The open period is one bar per timestamp, of the last row's label.      *)
Shape(f) ==
  /\ f \in FoldSet
  /\ Rising(f.rows) /\ Rising(f.open)
  /\ f.open = <<>> <=> f.rows = <<>>
  /\ \A i \in 1 .. Len(f.open) : PeriodStart(f.open[i].ts) = LastOf(f.rows).ts
  /\ f.key # NoKey => f.rows # <<>> /\ f.key = LastOf(f.rows).ts

(* A bar the frame takes: typed, and missing in what is no data column.    *)
Takes(b) ==
  /\ b \in BarSet
  /\ \A c \in Cols : c \notin data => b.cells[c] = Missing
  /\ \A c \in ints : FitsType(c, b.cells[c])

(* The forming row is the reduction of the open bars.                      *)
Forms(f, c) ==
  \/ LastOf(f.rows).cells[c] = Reduce({}, f.open)[c]
  \/ f.refold /\ \A i \in 1 .. Len(f.open) : f.open[i].cells[c] = Missing

Taken(f) == \A i \in 1 .. Len(f.open) : Takes(f.open[i])

Cumulates(f) ==
  /\ f.open # <<>> => \A c \in Cols : Forms(f, c)
  /\ f.agg # NoAggregate => f.open # <<>> /\ Aggregates(ints, f.agg, f.open)

Exact(f) == Taken(f) /\ Cumulates(f)

-----------------------------------------------------------------------------
(* A record with the fields of a fold, whatever they hold.                 *)
Fields == {"rows", "open", "key", "agg", "refold", "ok"}
IsFold(g) == DOMAIN g = Fields /\ g = [x \in Fields |-> g[x]]

(* What folding a bar may do: start a period, form, or fail.               *)
Label(f) == LastOf(f.rows).ts

Rolled(f, g, b) ==
  /\ IsFold(g) /\ g.rows = Append(f.rows, [ts |-> PeriodStart(b.ts), cells |-> b.cells])
  /\ g.open = <<b>> /\ g.key = PeriodStart(b.ts) /\ g.ok = f.ok /\ g.refold = FALSE
  /\ g.agg = IF f.agg = NoAggregate THEN NoAggregate ELSE <<Restarted(f.agg[1], b)>>

Formed(f, g, b, cells, agg) ==
  /\ IsFold(g) /\ g.rows = Append(Front(f.rows), [ts |-> Label(f), cells |-> cells])
  /\ g.open = Pushed(f.open, b) /\ g.key = Label(f) /\ g.ok = f.ok /\ g.refold = FALSE
  /\ g.agg = agg

Stayed(f, g, agg) ==
  /\ IsFold(g) /\ g.rows = f.rows /\ g.open = f.open /\ g.key = Label(f) /\ g.refold = f.refold
  /\ g.ok = FALSE /\ g.agg = agg

(* The aggregate a fold works with, taken when there is none.              *)
Begun(f) == IF f.agg = NoAggregate THEN NewAggregate(ints, f.open) ELSE f.agg

(* Each way a bar of the open period is taken.                             *)
ByAggregate(held, f, g, b, resent) ==
  LET p == PushedAggregate(ints, Begun(f)[1], b, resent)
  IN  /\ Begun(f) # NoAggregate
      /\ \/ ~p.ok /\ Stayed(f, g, Begun(f))
         \/ p.ok /\ ~LeadTakes(held, p.agg.current) /\ Stayed(f, g, <<p.agg>>)
         \/ /\ p.ok /\ LeadTakes(held, p.agg.current)
            /\ Formed(f, g, b, p.agg.current, <<p.agg>>)

ByRefold(held, f, g, b) ==
  LET next == Pushed(f.open, b)  cells == Reduce(ints, next)
  IN  /\ Begun(f) = NoAggregate
      /\ \/ (Overflows(cells) \/ ~LeadTakes(held, cells)) /\ Stayed(f, g, NoAggregate)
         \/ /\ ~Overflows(cells) /\ LeadTakes(held, cells)
            /\ Formed(f, g, b, cells, NewAggregate(ints, next))

ByFold(held, f, g, b) ==
  LET cells == Fold(ints, LastOf(f.rows).cells, b)
      p     == PushedAggregate(ints, Begun(f)[1], b, FALSE)
      ok    == ~Overflows(cells) /\ LeadTakes(held, cells)
  IN  \/ ~ok /\ Stayed(f, g, NoAggregate)
      \/ ok /\ Formed(f, g, b, cells,
                      IF Begun(f) # NoAggregate /\ p.ok THEN <<p.agg>> ELSE NoAggregate)

FoldCases(held, f, g, b) ==
  LET resent == LastOf(f.open).ts = b.ts
  IN  IF f.open = <<>> \/ Label(f) # PeriodStart(b.ts) THEN Rolled(f, g, b)
      ELSE IF ~(resent \/ f.refold) THEN ByFold(held, f, g, b)
      ELSE ByAggregate(held, f, g, b, resent) \/ ByRefold(held, f, g, b)

(* The label of the open period.                                           *)
LEMMA OpenLabel ==
  ASSUME NEW f, Shape(f), f.open # <<>>
  PROVE  /\ f.rows # <<>> /\ LastOf(f.rows) \in RowSet /\ LastOf(f.open) \in BarSet
         /\ Label(f) \in Int /\ LastOf(f.open).ts \in Int
         /\ PeriodStart(LastOf(f.open).ts) = Label(f)
         /\ f.key = NoKey \/ f.key = Label(f)
<1> DEFINE o == f.open  r == f.rows  n == Len(o)
<1>1. o \in Seq(BarSet) /\ r \in Seq(RowSet) /\ o # <<>> /\ r # <<>>
  BY DEF Shape, FoldSet
<1>2. \A i \in 1 .. n : PeriodStart(o[i].ts) = LastOf(r).ts
  BY DEF Shape
<1>3. f.key # NoKey => f.key = LastOf(r).ts
  BY DEF Shape
<1> HIDE DEF o, r
<1>4. n \in 1 .. n /\ o[n] \in BarSet /\ r[Len(r)] \in RowSet
  BY <1>1
<1>5. LastOf(o) = o[n] /\ LastOf(r) = r[Len(r)]
  BY DEF LastOf
<1>6. LastOf(o).ts \in Int /\ LastOf(r).ts \in Int
  BY <1>4, <1>5 DEF BarSet, RowSet
<1> QED
  BY <1>1, <1>2, <1>3, <1>4, <1>5, <1>6 DEF Label, o, r

(* What a fold asks of the remembered key and aggregate.                   *)
LEMMA WithKeyIs ==
  ASSUME NEW f, Shape(f), f.open # <<>>
  PROVE  /\ WithKey(f).rows = f.rows /\ WithKey(f).open = f.open /\ WithKey(f).agg = f.agg
         /\ WithKey(f).refold = f.refold /\ WithKey(f).ok = f.ok
         /\ WithKey(f).key = Label(f) /\ WithKey(f) \in FoldSet
<1>1. f \in FoldSet
  BY DEF Shape
<1>2. f.key = NoKey \/ f.key = Label(f)
  BY OpenLabel
<1>3. PeriodStart(LastOf(f.open).ts) = Label(f) /\ Label(f) \in Int
  BY OpenLabel
<1>4. WithKey(f) = IF f.key # NoKey THEN f ELSE [f EXCEPT !.key = Label(f)]
  BY <1>3 DEF WithKey
<1> QED
  BY <1>1, <1>2, <1>3, <1>4 DEF FoldSet

(* The fields of what a roll-over gives.                                   *)
LEMMA RollOverIs ==
  ASSUME NEW f, f \in FoldSet, NEW b
  PROVE  Rolled(f, RollOver(f, b), b)
  BY DEF Rolled, RollOver, FoldSet, IsFold, Fields

(* g is a fold that works on f.                                            *)
Works(f, g) ==
  /\ IsFold(g) /\ g.rows = f.rows /\ g.open = f.open /\ g.refold = f.refold /\ g.ok
  /\ g.key = Label(f)

(* The last steps of a bar of the open period.                             *)
LEMMA FormedIs ==
  ASSUME NEW f, f.open # <<>>, LastOf(f.rows) \in RowSet, f.ok, NEW g, Works(f, g),
         NEW b, NEW cells, NEW next, next = Pushed(f.open, b),
         NEW h, h = [SetForming(g, cells) EXCEPT !.open = next, !.refold = FALSE]
  PROVE  Formed(f, h, b, cells, g.agg)
<1> DEFINE r == Append(Front(g.rows), [LastOf(g.rows) EXCEPT !.cells = cells])
<1>1. g.rows = f.rows /\ g.open = f.open /\ g.key = Label(f) /\ g.ok
  BY DEF Works
<1>2. DOMAIN g = Fields
  BY DEF Works, IsFold
<1>3. [LastOf(f.rows) EXCEPT !.cells = cells] = [ts |-> Label(f), cells |-> cells]
  BY DEF RowSet, Label
<1>4. SetForming(g, cells) = [g EXCEPT !.rows = r]
  BY DEF SetForming
<1> HIDE DEF r
<1>5. h.rows = r /\ h.open = next /\ h.key = g.key /\ h.agg = g.agg /\ h.refold = FALSE /\ h.ok = g.ok
  BY <1>2, <1>4 DEF Fields
<1>6. r = Append(Front(f.rows), [ts |-> Label(f), cells |-> cells])
  BY <1>1, <1>3 DEF r
<1>7. IsFold(h)
  BY <1>2, <1>4 DEF IsFold, Fields
<1> QED
  BY <1>1, <1>5, <1>6, <1>7 DEF Formed

LEMMA StayedIs ==
  ASSUME NEW f, NEW g, Works(f, g)
  PROVE  Stayed(f, Failing(g), g.agg)
  BY DEF Works, Stayed, Failing, IsFold, Fields

(* An aggregate put in its place.                                          *)
LEMMA WorksWith ==
  ASSUME NEW f, NEW g, Works(f, g), NEW agg, NEW h, h = [g EXCEPT !.agg = agg]
  PROVE  Works(f, h) /\ h.agg = agg
  BY DEF Works, IsFold, Fields

(* Its key and aggregate asked for, f is worked on.                        *)
LEMMA WorksOn ==
  ASSUME NEW f, Shape(f), f.open # <<>>, f.ok
  PROVE  Works(f, WithKey(f))
<1>1. WithKey(f) \in FoldSet
  BY WithKeyIs
<1>2. IsFold(WithKey(f))
  BY <1>1 DEF FoldSet, IsFold, Fields
<1> QED
  BY <1>2, WithKeyIs DEF Works

(* The ways a bar of the open period is taken.                             *)
LEMMA PublishIs ==
  ASSUME NEW f, f.open # <<>>, LastOf(f.rows) \in RowSet, f.ok, NEW b, NEW held, NEW resent,
         Begun(f) # NoAggregate, NEW g, Works(f, g), g.agg = Begun(f)
  PROVE  ByAggregate(held, f, PublishAggregate(held, g, b, resent), b, resent)
<1> DEFINE p == PushedAggregate(ints, Begun(f)[1], b, resent)  k == [g EXCEPT !.agg = <<p.agg>>]
           h == PublishAggregate(held, g, b, resent)
<1>1. k.open = f.open
  BY DEF Works, IsFold, Fields
<1>2. h = IF ~p.ok THEN Failing(g)
          ELSE IF ~LeadTakes(held, p.agg.current) THEN Failing(k)
          ELSE [SetForming(k, p.agg.current) EXCEPT !.open = Pushed(@, b), !.refold = FALSE]
  BY DEF PublishAggregate
<1>3. p = PushedAggregate(ints, Begun(f)[1], b, resent)
  OBVIOUS
<1> HIDE DEF p
<1>4. Works(f, k) /\ k.agg = <<p.agg>>
  BY WorksWith
<1> HIDE DEF k, h
<1>5. CASE ~p.ok
  <2>1. Stayed(f, h, Begun(f))
    BY <1>2, <1>5, StayedIs
  <2> QED
    BY <1>3, <1>5, <2>1 DEF ByAggregate, h
<1>6. CASE p.ok /\ ~LeadTakes(held, p.agg.current)
  <2>1. Stayed(f, h, <<p.agg>>)
    BY <1>2, <1>4, <1>6, StayedIs
  <2> QED
    BY <1>3, <1>6, <2>1 DEF ByAggregate, h
<1>7. CASE p.ok /\ LeadTakes(held, p.agg.current)
  <2> DEFINE cells == p.agg.current  next == Pushed(f.open, b)
  <2>1. SetForming(k, cells).open = f.open
    BY <1>1, <1>4 DEF SetForming, Works, IsFold, Fields
  <2>2. h = [SetForming(k, cells) EXCEPT !.open = next, !.refold = FALSE]
    BY <1>2, <1>7, <2>1
  <2>3. next = Pushed(f.open, b)
    OBVIOUS
  <2> HIDE DEF cells, next
  <2>4. Formed(f, h, b, cells, k.agg)
    BY <1>4, <2>2, <2>3, FormedIs
  <2> QED
    BY <1>3, <1>4, <1>7, <2>4 DEF ByAggregate, h, cells
<1> QED
  BY <1>5, <1>6, <1>7

LEMMA RefoldIs ==
  ASSUME NEW f, f.open # <<>>, LastOf(f.rows) \in RowSet, f.ok, NEW b, NEW held,
         Begun(f) = NoAggregate, NEW g, Works(f, g), g.agg = Begun(f)
  PROVE  ByRefold(held, f, RefoldPeriod(held, g, b), b)
<1> DEFINE next == Pushed(f.open, b)  cells == Reduce(ints, next)  agg == NewAggregate(ints, next)
           h == RefoldPeriod(held, g, b)  k == [g EXCEPT !.agg = agg]
           s == SetForming(g, cells)
<1>1. g.open = f.open
  BY DEF Works
<1>2. h = IF Overflows(cells) \/ ~LeadTakes(held, cells) THEN Failing(g)
          ELSE [s EXCEPT !.open = next, !.agg = agg, !.refold = FALSE]
  BY <1>1 DEF RefoldPeriod
<1>3. next = Pushed(f.open, b) /\ cells = Reduce(ints, next) /\ agg = NewAggregate(ints, next)
  OBVIOUS
<1> HIDE DEF next, cells, agg
<1>4. Works(f, k) /\ k.agg = agg
  BY WorksWith
<1>5. CASE Overflows(cells) \/ ~LeadTakes(held, cells)
  <2> HIDE DEF h
  <2>1. Stayed(f, h, NoAggregate)
    BY <1>2, <1>5, StayedIs
  <2> QED
    BY <1>3, <1>5, <2>1 DEF ByRefold, h
<1>6. CASE ~(Overflows(cells) \/ ~LeadTakes(held, cells))
  <2> DEFINE z == [SetForming(k, cells) EXCEPT !.open = next, !.refold = FALSE]
  <2>1. h = z
    <3>1. DOMAIN g = Fields /\ g = [x \in Fields |-> g[x]]
      BY DEF Works, IsFold
    <3>2. h = [s EXCEPT !.open = next, !.agg = agg, !.refold = FALSE]
      BY <1>2, <1>6
    <3> QED
      BY <3>1, <3>2 DEF SetForming, Fields
  <2> HIDE DEF z, k, h
  <2>2. Formed(f, z, b, cells, k.agg)
    BY <1>3, <1>4, FormedIs DEF z
  <2> QED
    BY <1>3, <1>4, <1>6, <2>1, <2>2 DEF ByRefold, h
<1> QED
  BY <1>5, <1>6

LEMMA FoldIs ==
  ASSUME NEW f, f.open # <<>>, LastOf(f.rows) \in RowSet, f.ok, NEW b, NEW held,
         NEW g, Works(f, g), g.agg = Begun(f)
  PROVE  ByFold(held, f, FoldIntoForming(held, g, b), b)
<1> DEFINE cells == Fold(ints, LastOf(f.rows).cells, b)
           p == PushedAggregate(ints, Begun(f)[1], b, FALSE)
           ok == ~Overflows(cells) /\ LeadTakes(held, cells)
           agg == IF Begun(f) # NoAggregate /\ ok /\ p.ok THEN <<p.agg>> ELSE NoAggregate
           next == Pushed(f.open, b)
           h == FoldIntoForming(held, g, b)  k == [g EXCEPT !.agg = agg]
<1>1. g.open = f.open /\ g.rows = f.rows
  BY DEF Works
<1>2. h = IF ~ok THEN Failing(k)
          ELSE [SetForming(k, cells) EXCEPT !.open = Pushed(@, b), !.refold = FALSE]
  BY <1>1 DEF FoldIntoForming
<1>3. /\ cells = Fold(ints, LastOf(f.rows).cells, b) /\ next = Pushed(f.open, b)
      /\ p = PushedAggregate(ints, Begun(f)[1], b, FALSE)
      /\ ok <=> ~Overflows(cells) /\ LeadTakes(held, cells)
      /\ agg = IF Begun(f) # NoAggregate /\ ok /\ p.ok THEN <<p.agg>> ELSE NoAggregate
  OBVIOUS
<1>4. Works(f, k) /\ k.agg = agg
  <2> HIDE DEF agg
  <2> QED
    BY WorksWith
<1>5. SetForming(k, cells).open = f.open
  <2> HIDE DEF cells, k
  <2> QED
    BY <1>4 DEF SetForming, Works, IsFold, Fields
<1> HIDE DEF cells, p, ok, agg, next, h, k
<1>6. CASE ~ok
  <2>1. Stayed(f, h, NoAggregate)
    BY <1>2, <1>3, <1>4, <1>6, StayedIs
  <2> QED
    BY <1>3, <1>6, <2>1 DEF ByFold, h
<1>7. CASE ok
  <2>1. h = [SetForming(k, cells) EXCEPT !.open = next, !.refold = FALSE]
    BY <1>2, <1>3, <1>5, <1>7
  <2>2. Formed(f, h, b, cells, k.agg)
    BY <1>3, <1>4, <2>1, FormedIs
  <2>3. k.agg = IF Begun(f) # NoAggregate /\ p.ok THEN <<p.agg>> ELSE NoAggregate
    BY <1>3, <1>4, <1>7
  <2> QED
    BY <1>3, <1>7, <2>2, <2>3 DEF ByFold, h
<1> QED
  BY <1>6, <1>7

(* A bar is taken in one of these ways.                                    *)
LEMMA FoldBarCases ==
  ASSUME NEW f, Shape(f), f.ok, NEW b, NEW held
  PROVE  FoldCases(held, f, FoldBar(held, f, b), b)
<1> DEFINE k == WithKey(f)  g == [k EXCEPT !.agg = Begun(f)]  resent == LastOf(f.open).ts = b.ts
           h == FoldBar(held, f, b)
<1>1. CASE f.open = <<>>
  <2>1. k = f
    BY <1>1 DEF WithKey
  <2>2. h = RollOver(f, b)
    BY <1>1, <2>1 DEF FoldBar
  <2>3. Rolled(f, h, b)
    BY <2>2, RollOverIs DEF Shape
  <2> QED
    BY <1>1, <2>3 DEF FoldCases
<1>2. CASE f.open # <<>>
  <2>1. /\ k.rows = f.rows /\ k.open = f.open /\ k.agg = f.agg /\ k.refold = f.refold
        /\ k.ok = f.ok /\ k.key = Label(f) /\ k \in FoldSet
    BY <1>2, WithKeyIs
  <2>2. Works(f, k)
    BY <1>2, WorksOn
  <2>3. h = IF Label(f) # PeriodStart(b.ts) THEN RollOver(k, b)
            ELSE IF ~(resent \/ f.refold) THEN FoldIntoForming(held, g, b)
            ELSE IF Begun(f) # NoAggregate THEN PublishAggregate(held, g, b, resent)
            ELSE RefoldPeriod(held, g, b)
    <3> DEFINE a == IF k.agg = NoAggregate THEN NewAggregate(ints, k.open) ELSE k.agg
    <3>1. a = Begun(f)
      BY <2>1 DEF Begun
    <3>2. [k EXCEPT !.agg = IF @ = NoAggregate THEN NewAggregate(ints, k.open) ELSE @] = g
      BY <3>1
    <3>3. g.agg = Begun(f)
      BY <2>2, WorksWith
    <3> HIDE DEF g
    <3>4. h = IF k.open = <<>> \/ k.key # PeriodStart(b.ts) THEN RollOver(k, b)
              ELSE IF ~(LastOf(k.open).ts = b.ts \/ k.refold) THEN FoldIntoForming(held, g, b)
              ELSE IF g.agg # NoAggregate THEN PublishAggregate(held, g, b, LastOf(k.open).ts = b.ts)
              ELSE RefoldPeriod(held, g, b)
      BY <3>2 DEF FoldBar
    <3> HIDE DEF k, h
    <3> QED
      BY <1>2, <2>1, <3>3, <3>4
  <2>4. LastOf(f.rows) \in RowSet
    BY <1>2, OpenLabel
  <2>5. Works(f, g) /\ g.agg = Begun(f)
    BY <2>2, WorksWith
  <2> HIDE DEF k, g, h, resent
  <2>6. CASE Label(f) # PeriodStart(b.ts)
    <3>1. Rolled(k, h, b)
      BY <2>1, <2>3, <2>6, RollOverIs
    <3>2. Rolled(f, h, b)
      BY <2>1, <3>1 DEF Rolled
    <3> QED
      BY <2>6, <3>2 DEF FoldCases, h
  <2>7. CASE Label(f) = PeriodStart(b.ts) /\ ~(resent \/ f.refold)
    <3>1. ByFold(held, f, FoldIntoForming(held, g, b), b)
      BY <1>2, <2>4, <2>5, FoldIs
    <3> QED
      BY <1>2, <2>3, <2>7, <3>1 DEF FoldCases, h, resent
  <2>8. CASE Label(f) = PeriodStart(b.ts) /\ (resent \/ f.refold) /\ Begun(f) # NoAggregate
    <3>1. ByAggregate(held, f, PublishAggregate(held, g, b, resent), b, resent)
      BY <1>2, <2>4, <2>5, <2>8, PublishIs
    <3>2. ByAggregate(held, f, h, b, resent)
      BY <2>3, <2>8, <3>1
    <3> QED
      BY <1>2, <2>8, <3>2 DEF FoldCases, h, resent
  <2>9. CASE Label(f) = PeriodStart(b.ts) /\ (resent \/ f.refold) /\ Begun(f) = NoAggregate
    <3>1. ByRefold(held, f, RefoldPeriod(held, g, b), b)
      BY <1>2, <2>4, <2>5, <2>9, RefoldIs
    <3>2. ByRefold(held, f, h, b)
      BY <2>3, <2>9, <3>1
    <3> QED
      BY <1>2, <2>9, <3>2 DEF FoldCases, h, resent
  <2> QED
    BY <2>6, <2>7, <2>8, <2>9
<1> QED
  BY <1>1, <1>2

-----------------------------------------------------------------------------
(* The types of what a fold makes.                                         *)
LEMMA BarSets == Stamped(BarSet) /\ Celled(BarSet) /\ Stamped(RowSet) /\ BarSet \subseteq RowSet /\ Given \subseteq Cells
  BY DEF Stamped, Celled, BarSet, RowSet, Given, Cells

LEMMA NewAggTyped ==
  ASSUME NEW o \in Seq(BarSet), o # <<>>
  PROVE  NewAggregate(ints, o) \in Aggs
<1>1. CASE NewAggregate(ints, o) = NoAggregate
  BY <1>1 DEF Aggs
<1>2. CASE NewAggregate(ints, o) # NoAggregate
  <2>1. Aggregates(ints, NewAggregate(ints, o), o)
    BY <1>2, BarSets, NewAggregates
  <2> QED
    BY <2>1 DEF Aggregates, Aggs, AggSet
<1> QED
  BY <1>1, <1>2

LEMMA BegunTyped ==
  ASSUME NEW f, Shape(f), f.open # <<>>
  PROVE  Begun(f) \in Aggs
<1>1. f.agg \in Aggs /\ f.open \in Seq(BarSet)
  BY DEF Shape, FoldSet
<1> QED
  BY <1>1, NewAggTyped DEF Begun

LEMMA HeldAgg ==
  ASSUME NEW agg \in Aggs, agg # NoAggregate
  PROVE  agg[1] \in AggSet /\ agg = <<agg[1]>>
  BY DEF Aggs

LEMMA PushedTyped ==
  ASSUME NEW agg \in AggSet, NEW b \in BarSet, NEW resent, NEW p, p = PushedAggregate(ints, agg, b, resent)
  PROVE  p.agg \in AggSet /\ p.agg.current \in Cells /\ <<p.agg>> \in Aggs
<1>1. b.cells \in Given /\ b.cells \in Cells
  BY BarSets DEF BarSet
<1>2. agg.current \in Cells /\ agg.before \in Cells
  BY DEF AggSet
<1> DEFINE from == IF resent THEN agg.before ELSE agg.current  next == Fold(ints, from, b)
<1>3. from \in Cells
  BY <1>2
<1>4. p = IF resent /\ ~agg.hasBefore
          THEN [ok |-> TRUE, agg |-> [agg EXCEPT !.current = b.cells]]
          ELSE IF Overflows(next) THEN [ok |-> FALSE, agg |-> agg]
          ELSE [ok |-> TRUE, agg |-> [current |-> next, before |-> from, hasBefore |-> TRUE]]
  BY DEF PushedAggregate
<1> HIDE DEF from
<1>5. next \in Cells
  BY <1>1, <1>3, FoldTyped
<1> HIDE DEF next
<1>6. p.agg \in AggSet
  BY <1>1, <1>3, <1>4, <1>5 DEF AggSet
<1> QED
  BY <1>6 DEF AggSet, Aggs

LEMMA ElemIn ==
  ASSUME NEW S, Stamped(S), NEW s \in Seq(S), NEW x \in Elems(s)
  PROVE  x \in S /\ x.ts \in Int
  BY DEF Elems, Stamped

(* A new row after the last one, or in its place.                          *)
LEMMA RowAfter ==
  ASSUME NEW s \in Seq(RowSet), Rising(s), NEW r \in RowSet, s # <<>> => LastOf(s).ts < r.ts,
         NEW t, t = Append(s, r)
  PROVE  t \in Seq(RowSet) /\ Rising(t) /\ t # <<>> /\ LastOf(t) = r
<1>1. AllBefore(s, r)
  <2> SUFFICES ASSUME NEW x \in Elems(s)
               PROVE  x.ts < r.ts
    BY DEF AllBefore
  <2>1. s # <<>>
    BY NoneOf
  <2> DEFINE l == LastOf(s)
  <2>2. l \in RowSet /\ x.ts <= l.ts
    BY <2>1, BarSets, LastIsLatest
  <2>3. x.ts \in Int /\ l.ts \in Int /\ r.ts \in Int
    BY <2>2, BarSets, ElemIn DEF Stamped
  <2>4. l.ts < r.ts
    BY <2>1
  <2> HIDE DEF l
  <2> QED
    BY <2>2, <2>3, <2>4
<1>2. t \in Seq(RowSet) /\ Rising(t)
  BY <1>1, BarSets, AppendRising
<1> QED
  BY <1>2 DEF LastOf

LEMMA RowReplaced ==
  ASSUME NEW s \in Seq(RowSet), Rising(s), s # <<>>, NEW r \in RowSet, LastOf(s).ts = r.ts,
         NEW t, t = Append(Front(s), r)
  PROVE  t \in Seq(RowSet) /\ Rising(t) /\ t # <<>> /\ LastOf(t) = r
<1> DEFINE f == Front(s)  l == LastOf(s)
<1>1. f \in Seq(RowSet) /\ Rising(f) /\ Elems(f) = {x \in Elems(s) : x.ts # l.ts}
  BY BarSets, FrontRising
<1>2. l \in RowSet /\ \A x \in Elems(s) : x.ts <= l.ts
  BY BarSets, LastIsLatest
<1>3. l.ts = r.ts /\ t = Append(f, r)
  OBVIOUS
<1> HIDE DEF f, l
<1>4. AllBefore(f, r)
  <2> SUFFICES ASSUME NEW x \in Elems(f)
               PROVE  x.ts < r.ts
    BY DEF AllBefore
  <2>1. x \in Elems(s) /\ x.ts # l.ts
    BY <1>1
  <2>2. x.ts \in Int /\ l.ts \in Int /\ x.ts <= l.ts
    BY <1>2, <2>1, BarSets, ElemIn DEF Stamped
  <2> QED
    BY <1>3, <2>1, <2>2
<1>5. t \in Seq(RowSet) /\ Rising(t)
  BY <1>1, <1>3, <1>4, BarSets, AppendRising
<1> QED
  BY <1>1, <1>3, <1>5 DEF LastOf

(* The open bars with one more.                                            *)
LEMMA PushedBars ==
  ASSUME NEW o \in Seq(BarSet), o # <<>>, Rising(o), NEW b \in BarSet, LastOf(o).ts <= b.ts,
         NEW u, u = Pushed(o, b)
  PROVE  /\ u \in Seq(BarSet) /\ Rising(u) /\ u # <<>> /\ LastOf(u) = b
         /\ \A i \in 1 .. Len(u) : u[i] = b \/ \E j \in 1 .. Len(o) : u[i] = o[j]
<1>1. LastOf(o) \in BarSet
  BY DEF LastOf
<1>2. b.ts >= LastOf(o).ts
  BY <1>1 DEF BarSet
<1>3. Stamped(BarSet)
  BY BarSets
<1> DEFINE B == <<b>>  D == DedupKeepLast(o \o B)
<1>7. B = <<b>> /\ D = DedupKeepLast(o \o B)
  OBVIOUS
<1> HIDE DEF B, D
<1>4. u \in Seq(BarSet) /\ Rising(u) /\ Elems(u) = {x \in Elems(o) : x.ts # b.ts} \cup {b}
  BY <1>2, <1>3, <1>7, PushedMerges
<1>5. u # <<>> /\ LastOf(u) = b
  <2>1. Front(o) \in Seq(BarSet)
    BY FrontOf
  <2>2. PICK s \in Seq(BarSet) : u = Append(s, b)
    BY <2>1 DEF Pushed
  <2> QED
    BY <2>2 DEF LastOf
<1>6. ASSUME NEW i \in 1 .. Len(u)
      PROVE  u[i] = b \/ \E j \in 1 .. Len(o) : u[i] = o[j]
  <2>1. u[i] \in Elems(u)
    BY DEF Elems
  <2>2. u[i] \in Elems(o) \/ u[i] = b
    BY <1>4, <2>1
  <2> QED
    BY <2>2 DEF Elems
<1> QED
  BY <1>4, <1>5, <1>6

(* A fold of a period's bar: in the types.                                 *)
LEMMA FormedShape ==
  ASSUME NEW f, NEW g, NEW b, NEW cells, NEW agg, Formed(f, g, b, cells, agg), Shape(f), f.open # <<>>,
         b \in BarSet, LastOf(f.open).ts <= b.ts, PeriodStart(b.ts) = Label(f), cells \in Cells, agg \in Aggs
  PROVE  Shape(g) /\ g.ok = f.ok /\ g.open # <<>> /\ LastOf(g.open) = b
         /\ LastOf(g.rows).ts = Label(f) /\ LastOf(g.rows).cells = cells
<1> DEFINE r == [ts |-> Label(f), cells |-> cells]
<1>1. /\ f.rows \in Seq(RowSet) /\ Rising(f.rows) /\ f.open \in Seq(BarSet) /\ Rising(f.open)
      /\ f.ok \in BOOLEAN
      /\ \A i \in 1 .. Len(f.open) : PeriodStart(f.open[i].ts) = Label(f)
  BY DEF Shape, FoldSet, Label
<1>2. f.rows # <<>> /\ Label(f) \in Int /\ Label(f) = LastOf(f.rows).ts
  BY OpenLabel DEF Label
<1>3. r \in RowSet /\ r.ts = Label(f)
  BY <1>2 DEF RowSet
<1>4. /\ IsFold(g) /\ g.rows = Append(Front(f.rows), r) /\ g.open = Pushed(f.open, b)
      /\ g.key = Label(f) /\ g.ok = f.ok /\ g.refold \in BOOLEAN /\ g.agg = agg
  BY DEF Formed
<1> HIDE DEF r
<1>5. g.rows \in Seq(RowSet) /\ Rising(g.rows) /\ g.rows # <<>> /\ LastOf(g.rows) = r
  BY <1>1, <1>2, <1>3, <1>4, RowReplaced
<1>6. /\ g.open \in Seq(BarSet) /\ Rising(g.open) /\ g.open # <<>> /\ LastOf(g.open) = b
      /\ \A i \in 1 .. Len(g.open) :
           g.open[i] = b \/ \E j \in 1 .. Len(f.open) : g.open[i] = f.open[j]
  BY <1>1, <1>4, PushedBars
<1>7. \A i \in 1 .. Len(g.open) : PeriodStart(g.open[i].ts) = LastOf(g.rows).ts
  BY <1>1, <1>3, <1>5, <1>6
<1>8. g \in FoldSet
  BY <1>1, <1>2, <1>4, <1>5, <1>6 DEF FoldSet, IsFold, Fields
<1> QED
  BY <1>3, <1>4, <1>5, <1>6, <1>7, <1>8 DEF Shape, r

LEMMA RolledShape ==
  ASSUME NEW f, NEW g, NEW b, Rolled(f, g, b), Shape(f), b \in BarSet,
         f.open # <<>> => LastOf(f.open).ts <= b.ts /\ PeriodStart(b.ts) # Label(f)
  PROVE  Shape(g) /\ g.ok = f.ok /\ g.open = <<b>>
         /\ LastOf(g.rows) = [ts |-> PeriodStart(b.ts), cells |-> b.cells]
         /\ (f.open # <<>> => Label(f) < PeriodStart(b.ts))
<1> DEFINE q == PeriodStart(b.ts)  r == [ts |-> q, cells |-> b.cells]
<1>1. /\ f.rows \in Seq(RowSet) /\ Rising(f.rows) /\ f.agg \in Aggs /\ f.ok \in BOOLEAN
      /\ f.open = <<>> <=> f.rows = <<>>
  BY DEF Shape, FoldSet
<1>2. b.ts \in Int /\ b.cells \in Given /\ b.cells \in Cells
  BY BarSets DEF BarSet
<1>3. q \in Int
  BY <1>2, PeriodOf
<1>4. r \in RowSet /\ r.ts = q
  BY <1>2, <1>3 DEF RowSet
<1>5. f.open # <<>> => Label(f) < q
  <2> SUFFICES ASSUME f.open # <<>>
               PROVE  Label(f) < q
    OBVIOUS
  <2>1. PeriodStart(LastOf(f.open).ts) = Label(f) /\ LastOf(f.open).ts \in Int /\ Label(f) \in Int
    BY OpenLabel
  <2>2. PeriodStart(LastOf(f.open).ts) <= q
    BY <1>2, <2>1, PeriodMonotone
  <2> HIDE DEF q
  <2> QED
    BY <1>3, <2>1, <2>2 DEF q
<1>6. /\ IsFold(g) /\ g.rows = Append(f.rows, r) /\ g.open = <<b>> /\ g.key = q /\ g.ok = f.ok
      /\ g.refold = FALSE
      /\ g.agg = IF f.agg = NoAggregate THEN NoAggregate ELSE <<Restarted(f.agg[1], b)>>
  BY DEF Rolled
<1> HIDE DEF r
<1>7. g.rows \in Seq(RowSet) /\ Rising(g.rows) /\ g.rows # <<>> /\ LastOf(g.rows) = r
  BY <1>1, <1>4, <1>5, <1>6, RowAfter DEF Label
<1>8. g.agg \in Aggs
  <2>1. CASE f.agg = NoAggregate
    BY <1>6, <2>1 DEF Aggs
  <2>2. CASE f.agg # NoAggregate
    <3>1. f.agg[1] \in AggSet
      BY <1>1, <2>2, HeldAgg
    <3>2. Restarted(f.agg[1], b) \in AggSet
      BY <1>2, <3>1 DEF Restarted, AggSet
    <3> QED
      BY <1>6, <2>2, <3>2 DEF Aggs
  <2> QED
    BY <2>1, <2>2
<1>9. g.open \in Seq(BarSet) /\ Len(g.open) = 1 /\ g.open[1] = b /\ Rising(g.open) /\ g.open # <<>>
  BY <1>6 DEF Rising
<1>10. g \in FoldSet
  BY <1>1, <1>3, <1>6, <1>7, <1>8, <1>9 DEF FoldSet, IsFold, Fields
<1>11. \A i \in 1 .. Len(g.open) : PeriodStart(g.open[i].ts) = LastOf(g.rows).ts
  BY <1>4, <1>7, <1>9
<1> QED
  BY <1>4, <1>5, <1>6, <1>7, <1>9, <1>10, <1>11 DEF Shape, r

LEMMA StayedShape ==
  ASSUME NEW f, NEW g, NEW agg, Stayed(f, g, agg), Shape(f), f.open # <<>>, agg \in Aggs
  PROVE  Shape(g) /\ ~g.ok /\ g.rows = f.rows /\ g.open = f.open
<1>1. f \in FoldSet /\ f.rows # <<>> /\ Label(f) \in Int
  BY OpenLabel DEF Shape
<1>2. g \in FoldSet
  BY <1>1 DEF Stayed, FoldSet, IsFold, Fields
<1> QED
  BY <1>1, <1>2 DEF Stayed, Shape, Label

(* After a bar, taken or not, the fold has its shape.                      *)
FoldsOn(f, g, b) ==
  /\ Shape(g)
  /\ g.ok => g.open # <<>> /\ LastOf(g.open) = b
  /\ ~g.ok => g.rows = f.rows /\ g.open = f.open

LEMMA FoldBarShape ==
  ASSUME NEW f, Shape(f), f.ok, NEW b \in BarSet, f.open # <<>> => LastOf(f.open).ts <= b.ts,
         NEW held, NEW g, FoldCases(held, f, g, b)
  PROVE  FoldsOn(f, g, b)
<1>1. CASE f.open = <<>> \/ Label(f) # PeriodStart(b.ts)
  <2>1. Rolled(f, g, b)
    BY <1>1 DEF FoldCases
  <2>2. f.open # <<>> => LastOf(f.open).ts <= b.ts /\ PeriodStart(b.ts) # Label(f)
    BY <1>1
  <2>3. Shape(g) /\ g.ok = f.ok /\ g.open = <<b>>
    BY <2>1, <2>2, RolledShape
  <2>4. <<b>> # <<>> /\ LastOf(<<b>>) = b
    BY DEF LastOf
  <2> QED
    BY <2>3, <2>4 DEF FoldsOn
<1>2. CASE f.open # <<>> /\ Label(f) = PeriodStart(b.ts)
  <2>1. /\ f.rows # <<>> /\ LastOf(f.rows).cells \in Cells /\ f.open \in Seq(BarSet) /\ Rising(f.open)
        /\ b.cells \in Given
    BY <1>2, OpenLabel DEF RowSet, Shape, FoldSet, BarSet
  <2>2. Begun(f) \in Aggs /\ NoAggregate \in Aggs
    BY <1>2, BegunTyped DEF Aggs
  <2>3. ASSUME NEW cells \in Cells, NEW agg \in Aggs, Formed(f, g, b, cells, agg)
        PROVE  FoldsOn(f, g, b)
    <3>1. Shape(g) /\ g.ok = f.ok /\ g.open # <<>> /\ LastOf(g.open) = b
      BY <1>2, <2>3, FormedShape
    <3> QED
      BY <3>1 DEF FoldsOn
  <2>4. ASSUME NEW agg \in Aggs, Stayed(f, g, agg)
        PROVE  FoldsOn(f, g, b)
    <3>1. Shape(g) /\ ~g.ok /\ g.rows = f.rows /\ g.open = f.open
      BY <1>2, <2>4, StayedShape
    <3> QED
      BY <3>1 DEF FoldsOn
  <2>5. \A resent : Begun(f) # NoAggregate =>
          LET p == PushedAggregate(ints, Begun(f)[1], b, resent)
          IN  p.agg.current \in Cells /\ <<p.agg>> \in Aggs
    BY <2>2, HeldAgg, PushedTyped
  <2>6. CASE ByFold(held, f, g, b)
    <3> DEFINE cells == Fold(ints, LastOf(f.rows).cells, b)
               p == PushedAggregate(ints, Begun(f)[1], b, FALSE)
               agg == IF Begun(f) # NoAggregate /\ p.ok THEN <<p.agg>> ELSE NoAggregate
    <3>1. cells \in Cells
      BY <2>1, FoldTyped
    <3>2. agg \in Aggs
      BY <2>2, <2>5
    <3>3. Stayed(f, g, NoAggregate) \/ Formed(f, g, b, cells, agg)
      BY <2>6 DEF ByFold
    <3> HIDE DEF cells, agg
    <3> QED
      BY <2>2, <2>3, <2>4, <3>1, <3>2, <3>3
  <2>7. CASE \E resent : ByAggregate(held, f, g, b, resent)
    <3>1. PICK resent : ByAggregate(held, f, g, b, resent)
      BY <2>7
    <3> DEFINE p == PushedAggregate(ints, Begun(f)[1], b, resent)
    <3>2. /\ Begun(f) # NoAggregate
          /\ \/ Stayed(f, g, Begun(f))
             \/ Stayed(f, g, <<p.agg>>)
             \/ Formed(f, g, b, p.agg.current, <<p.agg>>)
      BY <3>1 DEF ByAggregate
    <3>3. p.agg.current \in Cells /\ <<p.agg>> \in Aggs
      BY <2>5, <3>2
    <3> HIDE DEF p
    <3> QED
      BY <2>2, <2>3, <2>4, <3>2, <3>3
  <2>8. CASE ByRefold(held, f, g, b)
    <3> DEFINE next == Pushed(f.open, b)  cells == Reduce(ints, next)  agg == NewAggregate(ints, next)
    <3>1. next \in Seq(BarSet) /\ next # <<>>
      BY <1>2, <2>1, PushedBars
    <3> HIDE DEF next
    <3>2. cells \in Cells /\ agg \in Aggs
      BY <3>1, BarSets, ReduceTyped, NewAggTyped
    <3>3. Stayed(f, g, NoAggregate) \/ Formed(f, g, b, cells, agg)
      BY <2>8 DEF ByRefold, next
    <3> HIDE DEF cells, agg
    <3> QED
      BY <2>2, <2>3, <2>4, <3>2, <3>3
  <2> QED
    BY <1>2, <2>6, <2>7, <2>8 DEF FoldCases
<1> QED
  BY <1>1, <1>2

-----------------------------------------------------------------------------
(* A batch is folded bar by bar, up to the one that fails.                 *)
Taking(held, k, b) == IF ~k.ok THEN k ELSE FoldBar(held, k, b)

Folding(K, held, f, bars) ==
  K[0] = f /\ \A i \in 1 .. Len(bars) : K[i] = Taking(held, K[i - 1], bars[i])

LEMMA FoldingExists ==
  ASSUME NEW f, NEW held, NEW bars, Len(bars) \in Nat
  PROVE  \E K : Folding(K, held, f, bars) /\ FoldBars(held, f, bars) = K[Len(bars)]
<1> DEFINE n == Len(bars)
           Next1(k, i) == Taking(held, k, bars[i])
           Upto(K, m) == K = [i \in 0 .. m |-> IF i = 0 THEN f ELSE Next1(K[i - 1], i)]
           T == {m \in Nat : \E K : Upto(K, m)}
<1>1. 0 \in T
  <2> DEFINE K == [i \in 0 .. 0 |-> f]
  <2>1. K = [i \in 0 .. 0 |-> IF i = 0 THEN f ELSE Next1(K[i - 1], i)]
    OBVIOUS
  <2> QED
    BY <2>1
<1>2. ASSUME NEW m \in 0 .. n - 1, m \in T
      PROVE  m + 1 \in T
  <2> HIDE DEF Next1
  <2>1. PICK K : Upto(K, m)
    BY <1>2
  <2> DEFINE V == [i \in 0 .. m + 1 |-> IF i = m + 1 THEN Next1(K[m], m + 1) ELSE K[i]]
  <2>2. V = [i \in 0 .. m + 1 |-> V[i]]
    OBVIOUS
  <2>3. ASSUME NEW i \in 0 .. m + 1
        PROVE  V[i] = IF i = 0 THEN f ELSE Next1(V[i - 1], i)
    <3>1. CASE i = m + 1
      <4>1. V[i] = Next1(K[m], m + 1) /\ i # 0 /\ i - 1 = m
        BY <3>1
      <4>2. V[m] = K[m]
        OBVIOUS
      <4> QED
        BY <3>1, <4>1, <4>2
    <3>2. CASE i # m + 1
      <4>1. i \in 0 .. m /\ V[i] = K[i]
        BY <3>2
      <4>2. K[i] = IF i = 0 THEN f ELSE Next1(K[i - 1], i)
        BY <2>1, <4>1
      <4>3. i # 0 => V[i - 1] = K[i - 1]
        BY <4>1
      <4> QED
        BY <4>1, <4>2, <4>3
    <3> QED
      BY <3>1, <3>2
  <2> HIDE DEF V
  <2>4. V = [i \in 0 .. m + 1 |-> IF i = 0 THEN f ELSE Next1(V[i - 1], i)]
    BY <2>2, <2>3
  <2>5. m + 1 \in Nat
    OBVIOUS
  <2> QED
    BY <2>4, <2>5
<1>3. n \in Nat
  OBVIOUS
<1>4. \A m \in 0 .. n - 1 : m \in T => m + 1 \in T
  BY <1>2
<1> HIDE DEF T, n
<1>5. \A m \in 0 .. n : m \in T
  BY <1>1, <1>3, <1>4, Inductive
<1>6. n \in T
  BY <1>3, <1>5
<1> DEFINE Is(K) == K = [i \in 0 .. n |-> IF i = 0 THEN f ELSE IF ~K[i - 1].ok THEN K[i - 1]
                                                     ELSE FoldBar(held, K[i - 1], bars[i])]
           K == CHOOSE K : Is(K)
<1>7. \E L : Is(L)
  BY <1>6 DEF T, Taking
<1>8. Is(K)
  BY <1>7
<1>9. FoldBars(held, f, bars) = K[n]
  BY DEF FoldBars, n
<1> HIDE DEF K
<1>10. K[0] = f
  BY <1>3, <1>8
<1>11. \A i \in 1 .. n : K[i] = Taking(held, K[i - 1], bars[i])
  BY <1>3, <1>8 DEF Taking
<1> QED
  BY <1>9, <1>10, <1>11 DEF Folding, n

(* A fold that may take b next.                                            *)
Ready(f, b) ==
  Shape(f) /\ f.ok /\ b \in BarSet /\ (f.open # <<>> => LastOf(f.open).ts <= b.ts)

(* Bars that f may take one after another.                                 *)
Coming(f, bars) ==
  /\ bars \in Seq(BarSet) /\ Ordered(bars)
  /\ f.open # <<>> /\ bars # <<>> => LastOf(f.open).ts <= bars[1].ts

(* Where a batch has come to.                                              *)
Reached(K, bars, i) ==
  /\ Shape(K[i])
  /\ i # 0 /\ K[i].ok => K[i].open # <<>> /\ LastOf(K[i].open) = bars[i]

LEMMA NextReady ==
  ASSUME NEW K, NEW f, NEW bars, NEW i, K[0] = f, Coming(f, bars), i \in 1 .. Len(bars),
         Reached(K, bars, i - 1), K[i - 1].ok
  PROVE  Ready(K[i - 1], bars[i])
<1>1. bars \in Seq(BarSet) /\ Ordered(bars) /\ bars[i] \in BarSet /\ bars # <<>>
  BY DEF Coming
<1>2. CASE i = 1
  <2>1. K[i - 1] = f
    BY <1>2
  <2> QED
    BY <1>1, <1>2, <2>1 DEF Ready, Reached, Coming
<1>3. CASE i # 1
  <2>1. i - 1 # 0 /\ i - 1 \in 1 .. Len(bars) - 1 /\ (i - 1) + 1 = i
    BY <1>3
  <2>2. LastOf(K[i - 1].open) = bars[i - 1]
    BY <2>1 DEF Reached
  <2>3. bars[i - 1].ts <= bars[i].ts
    BY <1>1, <2>1 DEF Ordered
  <2> QED
    BY <1>1, <2>2, <2>3 DEF Ready, Reached
<1> QED
  BY <1>2, <1>3

(* One step of a batch.                                                    *)
LEMMA TakingCases ==
  ASSUME NEW K, NEW held, NEW f, NEW bars, NEW i, Folding(K, held, f, bars), Coming(f, bars),
         i \in 1 .. Len(bars), Reached(K, bars, i - 1)
  PROVE  \/ ~K[i - 1].ok /\ K[i] = K[i - 1]
         \/ Ready(K[i - 1], bars[i]) /\ FoldCases(held, K[i - 1], K[i], bars[i])
<1>1. K[i] = Taking(held, K[i - 1], bars[i]) /\ K[0] = f
  BY DEF Folding
<1>2. CASE ~K[i - 1].ok
  BY <1>1, <1>2 DEF Taking
<1>3. CASE K[i - 1].ok
  <2>1. K[i] = FoldBar(held, K[i - 1], bars[i])
    BY <1>1, <1>3 DEF Taking
  <2>2. Ready(K[i - 1], bars[i])
    BY <1>1, <1>3, NextReady
  <2>3. Shape(K[i - 1])
    BY DEF Reached
  <2>4. FoldCases(held, K[i - 1], FoldBar(held, K[i - 1], bars[i]), bars[i])
    BY <1>3, <2>3, FoldBarCases
  <2> QED
    BY <2>1, <2>2, <2>4
<1> QED
  BY <1>2, <1>3

(* A batch keeps the shape up to its end.                                  *)
LEMMA BatchReached ==
  ASSUME NEW K, NEW held, NEW f, NEW bars, Folding(K, held, f, bars), Coming(f, bars), Shape(f)
  PROVE  \A i \in 0 .. Len(bars) : Reached(K, bars, i)
<1> DEFINE n == Len(bars)  T == {i \in 0 .. n : Reached(K, bars, i)}
<1>1. n \in Nat
  BY DEF Coming
<1>2. 0 \in T
  BY <1>1 DEF Folding, Reached
<1>3. ASSUME NEW j \in 0 .. n - 1, j \in T
      PROVE  j + 1 \in T
  <2> DEFINE i == j + 1
  <2>1. i \in 1 .. n /\ i \in 0 .. n /\ i - 1 = j
    BY <1>1
  <2>2. Reached(K, bars, i - 1)
    BY <1>3, <2>1
  <2> HIDE DEF i
  <2>3. \/ ~K[i - 1].ok /\ K[i] = K[i - 1]
        \/ Ready(K[i - 1], bars[i]) /\ FoldCases(held, K[i - 1], K[i], bars[i])
    BY <2>1, <2>2, TakingCases
  <2>4. CASE ~K[i - 1].ok /\ K[i] = K[i - 1]
    <3>1. Reached(K, bars, i)
      BY <2>2, <2>4 DEF Reached
    <3> QED
      BY <2>1, <3>1 DEF i
  <2>5. CASE Ready(K[i - 1], bars[i]) /\ FoldCases(held, K[i - 1], K[i], bars[i])
    <3> DEFINE k == K[i - 1]  b == bars[i]  g == K[i]
    <3>1. Ready(k, b) /\ FoldCases(held, k, g, b)
      BY <2>5
    <3> HIDE DEF k, b, g
    <3>2. FoldsOn(k, g, b)
      BY <3>1, FoldBarShape DEF Ready
    <3>3. Reached(K, bars, i)
      BY <3>2 DEF FoldsOn, Reached, k, b, g
    <3> QED
      BY <2>1, <3>3 DEF i
  <2> QED
    BY <2>3, <2>4, <2>5
<1>4. \A j \in 0 .. n - 1 : j \in T => j + 1 \in T
  BY <1>3
<1> HIDE DEF T, n
<1>5. \A i \in 0 .. n : i \in T
  BY <1>1, <1>2, <1>4, Inductive
<1> QED
  BY <1>5 DEF T, n

-----------------------------------------------------------------------------
(* Reductions without an overflow.                                         *)

(* Folding one more: what did not overflow is the plain fold, its integers *)
(* in range, and nothing had overflowed before.                            *)
LEMMA FoldExact ==
  ASSUME NEW I, NEW a \in Cells, NEW bar, bar.cells \in Given, ~Overflows(Fold(I, a, bar))
  PROVE  /\ ~Overflows(a) /\ Fold(I, a, bar) = Fold({}, a, bar)
         /\ \A c \in Cols : c \in I => Fold(I, a, bar)[c] \in Ints \cup {Missing}
<1> SUFFICES ASSUME NEW c \in Cols
             PROVE  /\ a[c] # Overflow
                    /\ CombineAt(I, c, a[c], bar.cells[c]) = CombineAt({}, c, a[c], bar.cells[c])
                    /\ c \in I => CombineAt(I, c, a[c], bar.cells[c]) \in Ints \cup {Missing}
  BY DEF Overflows, Fold
<1> DEFINE x == bar.cells[c]  y == a[c]
<1>1. CombineAt(I, c, y, x) # Overflow
  BY DEF Overflows, Fold
<1>2. y # Overflow
  BY <1>1 DEF CombineAt
<1> HIDE DEF x, y
<1>3. CASE y = Missing \/ x = Missing
  <2>1. CombineAt(I, c, y, x) = Missing /\ CombineAt({}, c, y, x) = Missing
    BY <1>2, <1>3 DEF CombineAt
  <2> QED
    BY <1>2, <2>1 DEF x, y
<1>4. CASE ~(y = Missing \/ x = Missing)
  <2>1. CombineAt(I, c, y, x) = Combine(I, c, y, x) /\ CombineAt({}, c, y, x) = Combine({}, c, y, x)
    BY <1>2, <1>4 DEF CombineAt
  <2>2. Combine(I, c, y, x) # Overflow
    BY <1>1, <2>1
  <2> DEFINE v == CASE AggOf[c] = "first" -> y
                    [] AggOf[c] = "last"  -> x
                    [] AggOf[c] = "max"   -> IF x > y THEN x ELSE y
                    [] AggOf[c] = "min"   -> IF x < y THEN x ELSE y
                    [] AggOf[c] = "sum"   -> y + x
  <2>4. Combine(I, c, y, x) = IF c \in I /\ v \notin Ints THEN Overflow ELSE v
    BY DEF Combine
  <2>5. Combine({}, c, y, x) = IF c \in {} /\ v \notin Ints THEN Overflow ELSE v
    BY DEF Combine
  <2> HIDE DEF v
  <2>3. Combine(I, c, y, x) = Combine({}, c, y, x) /\ (c \in I => Combine(I, c, y, x) \in Ints)
    BY <2>2, <2>4, <2>5
  <2> QED
    BY <1>2, <2>1, <2>3 DEF x, y
<1> QED
  BY <1>2, <1>3, <1>4 DEF x, y

(* Floats never overflow.                                                  *)
LEMMA FoldPlain ==
  ASSUME NEW a \in Given, NEW bar, bar.cells \in Given
  PROVE  Fold({}, a, bar) \in Given
<1> SUFFICES ASSUME NEW c \in Cols
             PROVE  CombineAt({}, c, a[c], bar.cells[c]) \in Int \cup {Missing}
  BY DEF Fold, Given
<1> DEFINE x == bar.cells[c]  y == a[c]
<1>1. x \in Int \cup {Missing} /\ y \in Int \cup {Missing}
  BY DEF Given
<1>2. AggOf[c] \in {"first", "last", "max", "min", "sum"}
  BY PeriodFoldAssumption
<1> HIDE DEF x, y
<1>3. CombineAt({}, c, y, x) \in Int \cup {Missing}
  BY <1>1, <1>2, PeriodFoldAssumption DEF CombineAt, Combine
<1> QED
  BY <1>3 DEF x, y

LEMMA ReducePlain ==
  ASSUME NEW S, Celled(S), NEW bars \in Seq(S), bars # <<>>
  PROVE  Reduce({}, bars) \in Given
<1> DEFINE n == Len(bars)
<1>1. n \in Nat /\ n >= 1 /\ \A i \in 1 .. n : bars[i].cells \in Given
  BY DEF Celled
<1>2. PICK K \in [1 .. n -> Cells] : Steps(K, {}, bars) /\ Reduce({}, bars) = K[n]
  BY ReduceSteps
<1>3. K[1] = bars[1].cells /\ \A i \in 2 .. n : K[i] = Fold({}, K[i - 1], bars[i])
  BY <1>2 DEF Steps
<1> DEFINE T == {i \in 0 .. n : i = 0 \/ K[i] \in Given}
<1>4. 0 \in T
  BY <1>1
<1>5. ASSUME NEW i \in 0 .. n - 1, i \in T
      PROVE  i + 1 \in T
  <2>1. i + 1 \in 1 .. n /\ i + 1 \in 0 .. n
    BY <1>1
  <2>2. CASE i = 0
    BY <1>1, <1>3, <2>1, <2>2
  <2>3. CASE i # 0
    <3>1. i + 1 \in 2 .. n /\ (i + 1) - 1 = i
      BY <1>1, <2>3
    <3>2. K[i + 1] = Fold({}, K[i], bars[i + 1]) /\ K[i] \in Given
      BY <1>3, <1>5, <2>3, <3>1
    <3>3. K[i + 1] \in Given
      BY <1>1, <2>1, <3>2, FoldPlain
    <3> QED
      BY <2>1, <3>3
  <2> QED
    BY <2>2, <2>3
<1>6. \A i \in 0 .. n - 1 : i \in T => i + 1 \in T
  BY <1>5
<1> HIDE DEF T, n
<1>7. \A i \in 0 .. n : i \in T
  BY <1>1, <1>4, <1>6, Inductive
<1>8. n \in T /\ n # 0
  BY <1>1, <1>7
<1> QED
  BY <1>2, <1>8 DEF T

LEMMA ReduceExact ==
  ASSUME NEW S, Celled(S), NEW bars \in Seq(S), bars # <<>>, NEW I, ~Overflows(Reduce(I, bars))
  PROVE  /\ Reduce(I, bars) = Reduce({}, bars)
         /\ \A c \in Cols : c \in I /\ bars[1].cells[c] \in Ints \cup {Missing} =>
              Reduce(I, bars)[c] \in Ints \cup {Missing}
<1> DEFINE n == Len(bars)
<1>1. n \in Nat /\ n >= 1 /\ \A i \in 1 .. n : bars[i].cells \in Given
  BY DEF Celled
<1>2. PICK K \in [1 .. n -> Cells] : Steps(K, I, bars) /\ Reduce(I, bars) = K[n]
  BY ReduceSteps
<1>3. PICK L \in [1 .. n -> Cells] : Steps(L, {}, bars) /\ Reduce({}, bars) = L[n]
  BY ReduceSteps
<1>4. K[1] = bars[1].cells /\ \A i \in 2 .. n : K[i] = Fold(I, K[i - 1], bars[i])
  BY <1>2 DEF Steps
<1>5. L[1] = bars[1].cells /\ \A i \in 2 .. n : L[i] = Fold({}, L[i - 1], bars[i])
  BY <1>3 DEF Steps
<1> DEFINE T == {i \in 0 .. n : i = 0 \/ (~Overflows(K[i]) => K[i] = L[i])}
<1>6. 0 \in T
  BY <1>1
<1>7. ASSUME NEW i \in 0 .. n - 1, i \in T
      PROVE  i + 1 \in T
  <2>1. i + 1 \in 1 .. n /\ i + 1 \in 0 .. n
    BY <1>1
  <2>2. CASE i = 0
    BY <1>4, <1>5, <2>1, <2>2
  <2>3. CASE i # 0
    <3>1. i + 1 \in 2 .. n /\ (i + 1) - 1 = i /\ i \in 1 .. n
      BY <1>1, <2>3
    <3>2. /\ K[i + 1] = Fold(I, K[i], bars[i + 1]) /\ L[i + 1] = Fold({}, L[i], bars[i + 1])
          /\ K[i] \in Cells /\ bars[i + 1].cells \in Given
      BY <1>1, <1>4, <1>5, <2>1, <3>1
    <3>3. ASSUME ~Overflows(K[i + 1])
          PROVE  K[i + 1] = L[i + 1]
      <4>1. ~Overflows(K[i]) /\ K[i + 1] = Fold({}, K[i], bars[i + 1])
        BY <3>2, <3>3, FoldExact
      <4>2. K[i] = L[i]
        BY <1>7, <2>3, <4>1
      <4> QED
        BY <3>2, <4>1, <4>2
    <3> QED
      BY <2>1, <3>3
  <2> QED
    BY <2>2, <2>3
<1>8. \A i \in 0 .. n - 1 : i \in T => i + 1 \in T
  BY <1>7
<1> HIDE DEF T, n
<1>9. \A i \in 0 .. n : i \in T
  BY <1>1, <1>6, <1>8, Inductive
<1>10. n \in T /\ n # 0
  BY <1>1, <1>9
<1>11. K[n] = L[n]
  BY <1>2, <1>10 DEF T
<1>12. ASSUME NEW c \in Cols, c \in I, bars[1].cells[c] \in Ints \cup {Missing}
       PROVE  K[n][c] \in Ints \cup {Missing}
  <2>1. CASE n = 1
    BY <1>4, <1>12, <2>1
  <2>2. CASE n # 1
    <3>1. n \in 2 .. n /\ n - 1 \in 1 .. n /\ n \in 1 .. n
      BY <1>1, <2>2
    <3>2. K[n] = Fold(I, K[n - 1], bars[n]) /\ K[n - 1] \in Cells /\ bars[n].cells \in Given
      BY <1>1, <1>4, <3>1
    <3>3. ~Overflows(Fold(I, K[n - 1], bars[n]))
      BY <1>2, <3>2
    <3> QED
      BY <1>12, <3>2, <3>3, FoldExact
  <2> QED
    BY <2>1, <2>2
<1> QED
  BY <1>2, <1>3, <1>11, <1>12

(* A column the bars do not carry.                                         *)
LEMMA ReduceMissing ==
  ASSUME NEW S, Celled(S), NEW bars \in Seq(S), bars # <<>>, NEW c \in Cols,
         \A i \in 1 .. Len(bars) : bars[i].cells[c] = Missing
  PROVE  Reduce({}, bars)[c] = Missing
<1> DEFINE n == Len(bars)
<1>1. n \in Nat /\ n >= 1
  OBVIOUS
<1>2. PICK K \in [1 .. n -> Cells] : Steps(K, {}, bars) /\ Reduce({}, bars) = K[n]
  BY ReduceSteps
<1>3. CASE n = 1
  BY <1>1, <1>2, <1>3 DEF Steps
<1>4. CASE n # 1
  <2>1. n \in 2 .. n /\ n \in 1 .. n /\ n - 1 \in 1 .. n
    BY <1>1, <1>4
  <2>2. K[n] = Fold({}, K[n - 1], bars[n])
    BY <1>2, <2>1 DEF Steps
  <2>3. Reduce({}, bars) \in Given
    BY ReducePlain
  <2>4. K[n][c] = CombineAt({}, c, K[n - 1][c], Missing)
    BY <2>1, <2>2 DEF Fold
  <2>5. K[n][c] = Missing \/ K[n][c] = Overflow
    BY <2>4 DEF CombineAt
  <2>6. Reduce({}, bars)[c] # Overflow
    BY <2>3, PeriodFoldAssumption DEF Given
  <2> QED
    BY <1>2, <2>5, <2>6
<1> QED
  BY <1>3, <1>4

-----------------------------------------------------------------------------
(* What a fold of an exact period gives.                                   *)
FitsAll(cells) == \A c \in Cols : c \in ints => cells[c] \in Ints \cup {Missing}

(* An aggregate that is none, or of these bars.                            *)
Good(agg, o) == agg = NoAggregate \/ Aggregates(ints, agg, o)

LEMMA LeadAgrees ==
  ASSUME NEW held, TakesAll(held), NEW cells, FitsAll(cells)
  PROVE  LeadTakes(held, cells)
  BY DEF LeadTakes, FitsLead, IsExactFloat, TakesAll, FitsAll

LEMMA NoLead == \A cells : LeadTakes({}, cells)
  BY DEF LeadTakes, FitsLead

(* The reduction of the open bars, when it does not overflow.              *)
LEMMA ReducedFits ==
  ASSUME NEW o \in Seq(BarSet), o # <<>>, \A i \in 1 .. Len(o) : Takes(o[i]), ~Overflows(Reduce(ints, o))
  PROVE  Reduce(ints, o) = Reduce({}, o) /\ FitsAll(Reduce(ints, o))
<1>1. 1 \in 1 .. Len(o)
  OBVIOUS
<1>2. \A c \in ints : FitsType(c, o[1].cells[c])
  BY <1>1 DEF Takes
<1>3. /\ Reduce(ints, o) = Reduce({}, o)
      /\ \A c \in Cols : c \in ints /\ o[1].cells[c] \in Ints \cup {Missing} =>
           Reduce(ints, o)[c] \in Ints \cup {Missing}
  BY BarSets, ReduceExact
<1> QED
  BY <1>2, <1>3 DEF FitsAll, FitsType

LEMMA BegunGood ==
  ASSUME NEW f, Shape(f), Cumulates(f), f.open # <<>>
  PROVE  Good(Begun(f), f.open)
<1>1. f.open \in Seq(BarSet)
  BY DEF Shape, FoldSet
<1>2. CASE f.agg = NoAggregate
  BY <1>1, <1>2, BarSets, NewAggregates DEF Begun, Good
<1>3. CASE f.agg # NoAggregate
  BY <1>3 DEF Begun, Good, Cumulates
<1> QED
  BY <1>2, <1>3

(* The forming row, unless a column was added since the last fold.         *)
LEMMA FormingCells ==
  ASSUME NEW f, Shape(f), Cumulates(f), f.open # <<>>, ~f.refold
  PROVE  LastOf(f.rows).cells = Reduce({}, f.open)
<1>1. f.open \in Seq(BarSet) /\ LastOf(f.rows).cells \in Cells
  BY OpenLabel DEF Shape, FoldSet, RowSet
<1>2. Reduce({}, f.open) \in Given
  BY <1>1, BarSets, ReducePlain
<1>3. \A c \in Cols : LastOf(f.rows).cells[c] = Reduce({}, f.open)[c]
  BY DEF Cumulates, Forms
<1> QED
  BY <1>1, <1>2, <1>3 DEF Cells, Given

(* The open bars with b in, and what the ways of taking it make of them.   *)
Making(f, b, next) ==
  /\ next \in Seq(BarSet) /\ next # <<>>
  /\ ~Overflows(Reduce(ints, next)) => Reduce(ints, next) = Reduce({}, next)
  /\ Taken(f) /\ Takes(b) => \A i \in 1 .. Len(next) : Takes(next[i])
  /\ Taken(f) /\ Takes(b) /\ ~Overflows(Reduce(ints, next)) => FitsAll(Reduce(ints, next))
  /\ \A resent : Begun(f) # NoAggregate /\ (resent <=> LastOf(f.open).ts = b.ts) =>
       LET p == PushedAggregate(ints, Begun(f)[1], b, resent)
       IN  p.ok => Aggregates(ints, <<p.agg>>, next)
  /\ ~f.refold /\ LastOf(f.open).ts # b.ts =>
       LET cells == Fold(ints, LastOf(f.rows).cells, b)
       IN  ~Overflows(cells) => cells = Reduce({}, next) /\ FitsAll(cells)

LEMMA Makes ==
  ASSUME NEW f, NEW b, NEW next, Ready(f, b), Cumulates(f), f.open # <<>>, next = Pushed(f.open, b)
  PROVE  Making(f, b, next)
<1> DEFINE o == f.open
<1>1. /\ o \in Seq(BarSet) /\ Rising(o) /\ o # <<>> /\ b \in BarSet /\ LastOf(o).ts <= b.ts
      /\ Shape(f) /\ next = Pushed(o, b) /\ LastOf(f.rows).cells \in Cells
  BY OpenLabel DEF Ready, Shape, FoldSet, RowSet
<1> HIDE DEF o
<1>2. /\ next \in Seq(BarSet) /\ next # <<>>
      /\ \A i \in 1 .. Len(next) : next[i] = b \/ \E j \in 1 .. Len(o) : next[i] = o[j]
  BY <1>1, PushedBars
<1>3. ~Overflows(Reduce(ints, next)) => Reduce(ints, next) = Reduce({}, next)
  BY <1>2, BarSets, ReduceExact
<1>4. Taken(f) /\ Takes(b) => \A i \in 1 .. Len(next) : Takes(next[i])
  BY <1>2 DEF Taken, o
<1>5. Taken(f) /\ Takes(b) /\ ~Overflows(Reduce(ints, next)) => FitsAll(Reduce(ints, next))
  BY <1>2, <1>4, ReducedFits
<1>6. ASSUME NEW resent, Begun(f) # NoAggregate, resent <=> LastOf(o).ts = b.ts,
             NEW p, p = PushedAggregate(ints, Begun(f)[1], b, resent), p.ok
      PROVE  Aggregates(ints, <<p.agg>>, next)
  <2>1. Aggregates(ints, Begun(f), o)
    BY <1>1, <1>6, BegunGood DEF Good, o
  <2>2. p = PushedAggregate(ints, Begun(f)[1], b, b.ts = LastOf(o).ts)
    BY <1>6 DEF PushedAggregate
  <2> QED
    BY <1>1, <1>6, <2>1, <2>2, BarSets, AggregatePushed
<1>7. ASSUME ~f.refold, LastOf(o).ts # b.ts, NEW cells, cells = Fold(ints, LastOf(f.rows).cells, b),
             ~Overflows(cells)
      PROVE  cells = Reduce({}, next) /\ FitsAll(cells)
  <2>1. LastOf(f.rows).cells = Reduce({}, o)
    BY <1>1, <1>7, FormingCells DEF o
  <2>2. next = Append(o, b)
    BY <1>1, <1>7 DEF Pushed
  <2>3. Reduce({}, next) = Fold({}, Reduce({}, o), b)
    BY <1>1, <2>2, BarSets, ReduceAppend
  <2>4. b.cells \in Given
    BY <1>1 DEF BarSet
  <2>5. cells = Fold({}, LastOf(f.rows).cells, b) /\ FitsAll(cells)
    BY <1>1, <1>7, <2>4, FoldExact DEF FitsAll
  <2> QED
    BY <2>1, <2>3, <2>5
<1> QED
  BY <1>2, <1>3, <1>4, <1>5, <1>6, <1>7 DEF Making, o

(* A lead that takes all integers makes no difference.                     *)
LEMMA Unled ==
  ASSUME NEW f, NEW b, NEW held, NEW g, Ready(f, b), Exact(f), Takes(b), TakesAll(held),
         FoldCases(held, f, g, b)
  PROVE  FoldCases({}, f, g, b)
<1> DEFINE next == Pushed(f.open, b)  resent == LastOf(f.open).ts = b.ts
<1>1. CASE f.open = <<>> \/ Label(f) # PeriodStart(b.ts)
  BY <1>1 DEF FoldCases
<1>2. CASE ~(f.open = <<>> \/ Label(f) # PeriodStart(b.ts))
  <2>1. Making(f, b, next)
    BY <1>2, Makes DEF Exact
  <2>6. ~Overflows(Reduce(ints, next)) => FitsAll(Reduce(ints, next))
    BY <2>1 DEF Exact, Making
  <2>2. next = Pushed(f.open, b) /\ resent \in BOOLEAN /\ (resent <=> LastOf(f.open).ts = b.ts)
    OBVIOUS
  <2> HIDE DEF next, resent
  <2>3. ASSUME ~(resent \/ f.refold), ByFold(held, f, g, b)
        PROVE  ByFold({}, f, g, b)
    <3> DEFINE cells == Fold(ints, LastOf(f.rows).cells, b)
               p == PushedAggregate(ints, Begun(f)[1], b, FALSE)
               agg == IF Begun(f) # NoAggregate /\ p.ok THEN <<p.agg>> ELSE NoAggregate
    <3>1. ~Overflows(cells) => FitsAll(cells)
      BY <2>1, <2>2, <2>3 DEF Making
    <3>2. ~Overflows(cells) => LeadTakes(held, cells)
      BY <3>1, LeadAgrees
    <3>3. LeadTakes({}, cells)
      BY NoLead
    <3>4. \/ ~(~Overflows(cells) /\ LeadTakes(held, cells)) /\ Stayed(f, g, NoAggregate)
          \/ (~Overflows(cells) /\ LeadTakes(held, cells)) /\ Formed(f, g, b, cells, agg)
      BY <2>3 DEF ByFold
    <3>5. ByFold({}, f, g, b) <=>
            \/ ~(~Overflows(cells) /\ LeadTakes({}, cells)) /\ Stayed(f, g, NoAggregate)
            \/ (~Overflows(cells) /\ LeadTakes({}, cells)) /\ Formed(f, g, b, cells, agg)
      BY DEF ByFold
    <3> HIDE DEF cells, agg
    <3> QED
      BY <3>2, <3>3, <3>4, <3>5
  <2>4. ASSUME ByAggregate(held, f, g, b, resent)
        PROVE  ByAggregate({}, f, g, b, resent)
    <3> DEFINE p == PushedAggregate(ints, Begun(f)[1], b, resent)
    <3>1. Begun(f) # NoAggregate
      BY <2>4 DEF ByAggregate
    <3>2. p.ok => Aggregates(ints, <<p.agg>>, next)
      BY <2>1, <2>2, <3>1 DEF Making
    <3>3. p.ok => ~Overflows(p.agg.current) /\ p.agg.current = Reduce(ints, next)
      BY <3>2 DEF Aggregates
    <3>4. p.ok => LeadTakes(held, p.agg.current)
      BY <2>6, <3>3, LeadAgrees
    <3>5. LeadTakes({}, p.agg.current)
      BY NoLead
    <3> QED
      BY <2>4, <3>4, <3>5 DEF ByAggregate
  <2>5. ASSUME ByRefold(held, f, g, b)
        PROVE  ByRefold({}, f, g, b)
    <3> DEFINE cells == Reduce(ints, next)
    <3>1. ~Overflows(cells) => LeadTakes(held, cells)
      BY <2>6, LeadAgrees
    <3>2. LeadTakes({}, cells)
      BY NoLead
    <3> QED
      BY <2>2, <2>5, <3>1, <3>2 DEF ByRefold
  <2> QED
    BY <1>2, <2>2, <2>3, <2>4, <2>5 DEF FoldCases
<1> QED
  BY <1>1, <1>2

(* A bar taken, or refused, leaves the fold cumulating.                    *)
LEMMA FormedCumulates ==
  ASSUME NEW f, NEW g, NEW b, NEW cells, NEW agg, NEW next, Ready(f, b), f.open # <<>>,
         PeriodStart(b.ts) = Label(f), next = Pushed(f.open, b), Making(f, b, next),
         Formed(f, g, b, cells, agg), cells = Reduce({}, next), Good(agg, next), agg \in Aggs
  PROVE  Cumulates(g)
<1>1. next \in Seq(BarSet) /\ next # <<>>
  BY DEF Making
<1>2. cells \in Cells
  BY <1>1, BarSets, ReducePlain
<1>3. Shape(f) /\ b \in BarSet /\ LastOf(f.open).ts <= b.ts
  BY DEF Ready
<1>6. LastOf(g.rows).cells = cells
  BY <1>2, <1>3, FormedShape
<1>4. g.open = next /\ g.agg = agg
  BY DEF Formed
<1>5. LastOf(g.rows).cells = Reduce({}, g.open)
  BY <1>4, <1>6
<1> QED
  BY <1>1, <1>4, <1>5 DEF Cumulates, Forms, Good

LEMMA StayedCumulates ==
  ASSUME NEW f, NEW g, NEW agg, Shape(f), Cumulates(f), f.open # <<>>, Stayed(f, g, agg), Good(agg, f.open)
  PROVE  Cumulates(g)
  BY DEF Cumulates, Forms, Stayed, Good

LEMMA RolledCumulates ==
  ASSUME NEW f, NEW g, NEW b, Ready(f, b), Cumulates(f), Rolled(f, g, b),
         f.open # <<>> => PeriodStart(b.ts) # Label(f)
  PROVE  Cumulates(g)
<1>1. Shape(f) /\ b \in BarSet /\ (f.open # <<>> => LastOf(f.open).ts <= b.ts /\ PeriodStart(b.ts) # Label(f))
  BY DEF Ready
<1>2. g.open = <<b>> /\ LastOf(g.rows) = [ts |-> PeriodStart(b.ts), cells |-> b.cells]
  BY <1>1, RolledShape
<1>3. \A I : Reduce(I, <<b>>) = b.cells
  BY <1>1, BarSets, ReduceOne
<1>4. LastOf(g.rows).cells = Reduce({}, g.open)
  BY <1>2, <1>3
<1>5. \A i \in 1 .. Len(g.open) : g.open[i] = b
  BY <1>2
<1>6. g.open # <<>> /\ Len(g.open) = 1
  BY <1>2
<1>7. ASSUME g.agg # NoAggregate
      PROVE  Aggregates(ints, g.agg, g.open)
  <2> DEFINE a == Restarted(f.agg[1], b)
  <2>1. f.agg # NoAggregate /\ g.agg = <<a>>
    BY <1>7 DEF Rolled
  <2>2. f.agg[1] \in AggSet
    BY <1>1, <2>1, HeldAgg DEF Shape, FoldSet
  <2>3. b.cells \in Given /\ b.cells \in Cells
    BY <1>1, BarSets DEF BarSet
  <2>4. a \in AggSet /\ a.current = b.cells /\ a.hasBefore = FALSE
    BY <2>2, <2>3 DEF Restarted, AggSet
  <2>5. ~Overflows(b.cells)
    BY <2>3, PeriodFoldAssumption DEF Overflows, Given
  <2> HIDE DEF a
  <2>6. a.current = Reduce(ints, g.open) /\ ~Overflows(a.current) /\ (a.hasBefore <=> Len(g.open) > 1)
    BY <1>2, <1>3, <1>6, <2>4, <2>5
  <2> QED
    BY <2>1, <2>4, <2>6 DEF Aggregates, AggSet
<1> QED
  BY <1>4, <1>5, <1>6, <1>7 DEF Cumulates, Forms

LEMMA FoldBarCumulates ==
  ASSUME NEW f, NEW g, NEW b, Ready(f, b), Cumulates(f), FoldCases({}, f, g, b)
  PROVE  Cumulates(g)
<1> DEFINE next == Pushed(f.open, b)  resent == LastOf(f.open).ts = b.ts
<1>1. CASE f.open = <<>> \/ Label(f) # PeriodStart(b.ts)
  BY <1>1, RolledCumulates DEF FoldCases
<1>2. CASE f.open # <<>> /\ PeriodStart(b.ts) = Label(f)
  <2>1. Making(f, b, next)
    BY <1>2, Makes
  <2>2. next = Pushed(f.open, b) /\ (resent <=> LastOf(f.open).ts = b.ts) /\ Shape(f) /\ b \in BarSet
    BY DEF Ready
  <2> HIDE DEF next, resent
  <2>3. next \in Seq(BarSet) /\ next # <<>>
    BY <2>1 DEF Making
  <2>4. Begun(f) \in Aggs /\ Good(Begun(f), f.open)
    BY <1>2, <2>2, BegunTyped, BegunGood
  <2>5. Good(NoAggregate, f.open) /\ Good(NoAggregate, next) /\ NoAggregate \in Aggs
    BY DEF Good, Aggs
  <2>6. ASSUME NEW cells, NEW agg, Formed(f, g, b, cells, agg), cells = Reduce({}, next),
               Good(agg, next), agg \in Aggs
        PROVE  Cumulates(g)
    BY <1>2, <2>1, <2>2, <2>6, FormedCumulates
  <2>7. ASSUME NEW agg, Stayed(f, g, agg), Good(agg, f.open)
        PROVE  Cumulates(g)
    BY <1>2, <2>2, <2>7, StayedCumulates
  <2>8. ASSUME NEW r, Begun(f) # NoAggregate, r <=> LastOf(f.open).ts = b.ts,
               NEW p, p = PushedAggregate(ints, Begun(f)[1], b, r), p.ok
        PROVE  Aggregates(ints, <<p.agg>>, next) /\ <<p.agg>> \in Aggs
    <3>1. Aggregates(ints, <<p.agg>>, next)
      BY <2>1, <2>8 DEF Making
    <3>2. Begun(f)[1] \in AggSet
      BY <2>4, <2>8, HeldAgg
    <3> QED
      BY <2>2, <2>8, <3>1, <3>2, PushedTyped
  <2>9. CASE ~(resent \/ f.refold) /\ ByFold({}, f, g, b)
    <3> DEFINE cells == Fold(ints, LastOf(f.rows).cells, b)
               p == PushedAggregate(ints, Begun(f)[1], b, FALSE)
               agg == IF Begun(f) # NoAggregate /\ p.ok THEN <<p.agg>> ELSE NoAggregate
    <3>1. ~Overflows(cells) => cells = Reduce({}, next)
      BY <2>1, <2>2, <2>9 DEF Making
    <3>2. \/ Stayed(f, g, NoAggregate)
          \/ ~Overflows(cells) /\ Formed(f, g, b, cells, agg)
      BY <2>9 DEF ByFold
    <3>3. Good(agg, next) /\ agg \in Aggs
      <4>1. CASE Begun(f) # NoAggregate /\ p.ok
        BY <2>2, <2>8, <2>9, <4>1 DEF Good
      <4>2. CASE ~(Begun(f) # NoAggregate /\ p.ok)
        BY <2>5, <4>2
      <4> QED
        BY <4>1, <4>2
    <3> HIDE DEF cells, agg
    <3> QED
      BY <2>5, <2>6, <2>7, <3>1, <3>2, <3>3
  <2>10. CASE ByAggregate({}, f, g, b, resent)
    <3> DEFINE p == PushedAggregate(ints, Begun(f)[1], b, resent)
    <3>1. /\ Begun(f) # NoAggregate
          /\ \/ Stayed(f, g, Begun(f))
             \/ p.ok /\ Formed(f, g, b, p.agg.current, <<p.agg>>)
      BY <2>10, NoLead DEF ByAggregate
    <3>2. p.ok => Aggregates(ints, <<p.agg>>, next) /\ <<p.agg>> \in Aggs
      BY <2>2, <2>8, <3>1
    <3>3. p.ok => ~Overflows(p.agg.current) /\ p.agg.current = Reduce(ints, next)
      BY <3>2 DEF Aggregates
    <3>4. p.ok => p.agg.current = Reduce({}, next)
      BY <2>1, <3>3 DEF Making
    <3> HIDE DEF p
    <3> QED
      BY <2>4, <2>6, <2>7, <3>1, <3>2, <3>4 DEF Good
  <2>11. CASE ByRefold({}, f, g, b)
    <3> DEFINE cells == Reduce(ints, next)  agg == NewAggregate(ints, next)
    <3>1. \/ Stayed(f, g, NoAggregate)
          \/ ~Overflows(cells) /\ Formed(f, g, b, cells, agg)
      BY <2>2, <2>11 DEF ByRefold
    <3>2. ~Overflows(cells) => cells = Reduce({}, next)
      BY <2>1 DEF Making
    <3>3. Good(agg, next) /\ agg \in Aggs
      BY <2>3, BarSets, NewAggregates, NewAggTyped DEF Good
    <3> HIDE DEF cells, agg
    <3> QED
      BY <2>5, <2>6, <2>7, <3>1, <3>2, <3>3
  <2> QED
    BY <1>2, <2>9, <2>10, <2>11 DEF FoldCases, resent
<1> QED
  BY <1>1, <1>2

(* A fold's bars stay bars the frame takes.                                *)
LEMMA FoldBarTaken ==
  ASSUME NEW f, NEW held, NEW g, NEW b, Ready(f, b), Taken(f), Takes(b), FoldCases(held, f, g, b)
  PROVE  Taken(g)
<1> DEFINE o == f.open  u == Pushed(o, b)
<1>1. o \in Seq(BarSet) /\ Rising(o) /\ b \in BarSet /\ (o # <<>> => LastOf(o).ts <= b.ts)
  BY DEF Ready, Shape, FoldSet
<1>2. \A j \in 1 .. Len(o) : Takes(o[j])
  BY DEF Taken
<1>3. \/ g.open = <<b>>
      \/ o # <<>> /\ g.open = u
      \/ g.open = o
  BY DEF FoldCases, Rolled, ByFold, ByAggregate, ByRefold, Formed, Stayed
<1> HIDE DEF o
<1>4. o # <<>> => \A i \in 1 .. Len(u) : u[i] = b \/ \E j \in 1 .. Len(o) : u[i] = o[j]
  BY <1>1, PushedBars
<1> HIDE DEF u
<1>5. CASE g.open = <<b>>
  BY <1>5 DEF Taken
<1>6. CASE o # <<>> /\ g.open = u
  BY <1>2, <1>4, <1>6 DEF Taken
<1>7. CASE g.open = o
  BY <1>2, <1>7 DEF Taken
<1> QED
  BY <1>3, <1>5, <1>6, <1>7

LEMMA FoldBarExact ==
  ASSUME NEW f, NEW g, NEW b, Ready(f, b), Exact(f), Takes(b), FoldCases({}, f, g, b)
  PROVE  Exact(g)
<1>1. Cumulates(g)
  BY FoldBarCumulates DEF Exact
<1>2. Taken(g)
  BY FoldBarTaken DEF Exact
<1> QED
  BY <1>1, <1>2 DEF Exact

(* A batch of bars the frame takes leaves the fold exact, and folds the    *)
(* same without the lead.                                                  *)
LEMMA BatchExact ==
  ASSUME NEW K, NEW held, NEW f, NEW bars, Folding(K, held, f, bars), Coming(f, bars), Shape(f), Exact(f),
         TakesAll(held), \A i \in 1 .. Len(bars) : Takes(bars[i])
  PROVE  /\ \A i \in 0 .. Len(bars) : Exact(K[i])
         /\ \A i \in 1 .. Len(bars) :
              \/ ~K[i - 1].ok /\ K[i] = K[i - 1]
              \/ Ready(K[i - 1], bars[i]) /\ FoldCases({}, K[i - 1], K[i], bars[i])
<1> DEFINE n == Len(bars)  T == {i \in 0 .. n : Exact(K[i])}
<1>1. n \in Nat
  BY DEF Coming
<1>2. 0 \in T
  BY <1>1 DEF Folding
<1>3. ASSUME NEW i \in 1 .. n, Exact(K[i - 1])
      PROVE  /\ Exact(K[i])
             /\ \/ ~K[i - 1].ok /\ K[i] = K[i - 1]
                \/ Ready(K[i - 1], bars[i]) /\ FoldCases({}, K[i - 1], K[i], bars[i])
  <2>1. Reached(K, bars, i - 1)
    BY <1>1, BatchReached
  <2>2. \/ ~K[i - 1].ok /\ K[i] = K[i - 1]
        \/ Ready(K[i - 1], bars[i]) /\ FoldCases(held, K[i - 1], K[i], bars[i])
    BY <2>1, TakingCases
  <2>3. CASE Ready(K[i - 1], bars[i]) /\ FoldCases(held, K[i - 1], K[i], bars[i])
    <3>1. Takes(bars[i])
      OBVIOUS
    <3>2. FoldCases({}, K[i - 1], K[i], bars[i])
      BY <1>3, <2>3, <3>1, Unled
    <3>3. Exact(K[i])
      BY <1>3, <2>3, <3>1, <3>2, FoldBarExact
    <3> QED
      BY <2>3, <3>2, <3>3
  <2> QED
    BY <1>3, <2>2, <2>3
<1>4. ASSUME NEW j \in 0 .. n - 1, j \in T
      PROVE  j + 1 \in T
  <2> DEFINE i == j + 1
  <2>1. i \in 1 .. n /\ i \in 0 .. n /\ i - 1 = j
    BY <1>1
  <2>2. Exact(K[i - 1])
    BY <1>4, <2>1
  <2> HIDE DEF i
  <2>3. Exact(K[i])
    BY <1>3, <2>1, <2>2
  <2> QED
    BY <2>1, <2>3 DEF i
<1>5. \A j \in 0 .. n - 1 : j \in T => j + 1 \in T
  BY <1>4
<1> HIDE DEF T, n
<1>6. \A i \in 0 .. n : i \in T
  BY <1>1, <1>2, <1>5, Inductive
<1>7. \A i \in 0 .. n : Exact(K[i])
  BY <1>6 DEF T
<1>8. \A i \in 1 .. n : i - 1 \in 0 .. n
  BY <1>1
<1> QED
  BY <1>3, <1>7, <1>8 DEF n

-----------------------------------------------------------------------------
(* The invariant: of the types, and of the values.                         *)
TInv ==
  /\ data \subseteq Cols /\ ints \subseteq Cols /\ lead \subseteq FloatCols
  /\ Shape(FoldState)
  /\ answer \in {"silent", "folded", "refused", "written", "cut"}

XInv == TInv /\ Exact(FoldState)

LEMMA StateIs ==
  /\ FoldState.rows = rows /\ FoldState.open = open /\ FoldState.key = openKey
  /\ FoldState.agg = aggregate /\ FoldState.refold = refold /\ FoldState.ok = TRUE
  /\ FoldState \in FoldSet <=> /\ rows \in Seq(RowSet) /\ open \in Seq(BarSet) /\ openKey \in Int
                               /\ aggregate \in Aggs /\ refold \in BOOLEAN
  BY DEF FoldState, FoldSet

(* The shape, of the variables.                                            *)
LEMMA ShapeIs ==
  Shape(FoldState) <=>
    /\ rows \in Seq(RowSet) /\ open \in Seq(BarSet) /\ openKey \in Int
    /\ aggregate \in Aggs /\ refold \in BOOLEAN
    /\ Rising(rows) /\ Rising(open) /\ (open = <<>> <=> rows = <<>>)
    /\ \A i \in 1 .. Len(open) : PeriodStart(open[i].ts) = LastOf(rows).ts
    /\ openKey # NoKey => rows # <<>> /\ openKey = LastOf(rows).ts
  BY StateIs DEF Shape

(* The exactness, of the variables.                                        *)
Exactly ==
  /\ \A i \in 1 .. Len(open) : Takes(open[i])
  /\ open # <<>> => \A d \in Cols :
       \/ LastOf(rows).cells[d] = Reduce({}, open)[d]
       \/ refold /\ \A i \in 1 .. Len(open) : open[i].cells[d] = Missing
  /\ aggregate # NoAggregate => open # <<>> /\ Aggregates(ints, aggregate, open)

LEMMA ExactIs == Exact(FoldState) <=> Exactly
  BY StateIs DEF Exact, Taken, Cumulates, Forms, Exactly

LEMMA TypesHold == TInv => TypeOK
<1> SUFFICES ASSUME TInv
             PROVE  TypeOK
  OBVIOUS
<1>1. /\ rows \in Seq(RowSet) /\ open \in Seq(BarSet) /\ aggregate \in Aggs /\ refold \in BOOLEAN
      /\ Rising(rows) /\ Rising(open) /\ (open = <<>> <=> rows = <<>>)
      /\ \A i \in 1 .. Len(open) : PeriodStart(open[i].ts) = LastOf(rows).ts
      /\ openKey # NoKey => rows # <<>> /\ openKey = LastOf(rows).ts
  BY ShapeIs DEF TInv
<1>2. \A r \in 1 .. Len(rows) - 1 : rows[r].ts < rows[r + 1].ts
  <2>1. \A r \in 1 .. Len(rows) - 1 : r \in 1 .. Len(rows) /\ r + 1 \in 1 .. Len(rows) /\ r < r + 1
    BY <1>1
  <2> QED
    BY <1>1, <2>1 DEF Rising
<1>3. \A r \in 1 .. Len(open) - 1 : open[r].ts < open[r + 1].ts
  <2>1. \A r \in 1 .. Len(open) - 1 : r \in 1 .. Len(open) /\ r + 1 \in 1 .. Len(open) /\ r < r + 1
    BY <1>1
  <2> QED
    BY <1>1, <2>1 DEF Rising
<1>4. Len(aggregate) <= 1
  <2>1. aggregate = <<>> \/ \E a \in AggSet : aggregate = <<a>>
    BY <1>1 DEF Aggs, NoAggregate
  <2>2. CASE aggregate = <<>>
    BY <2>2
  <2>3. CASE aggregate # <<>>
    <3>1. PICK a \in AggSet : aggregate = <<a>>
      BY <2>1, <2>3
    <3>2. Len(<<a>>) = 1
      OBVIOUS
    <3> QED
      BY <3>1, <3>2
  <2> QED
    BY <2>2, <2>3
<1> QED
  BY <1>1, <1>2, <1>3, <1>4 DEF TypeOK, TInv

(* The forming row and the aggregate are what they should be.              *)
LEMMA ValuesHold == XInv => FormingIsCumulation /\ AggregateExact
<1> SUFFICES ASSUME XInv
             PROVE  FormingIsCumulation /\ AggregateExact
  OBVIOUS
<1>1. /\ open = <<>> <=> rows = <<>>
      /\ data \subseteq Cols
  BY ShapeIs DEF XInv, TInv
<1>2. /\ open # <<>> => \A c \in Cols :
           \/ LastOf(rows).cells[c] = Reduce({}, open)[c]
           \/ refold /\ \A i \in 1 .. Len(open) : open[i].cells[c] = Missing
      /\ aggregate # NoAggregate => Aggregates(ints, aggregate, open)
  BY ExactIs DEF XInv, Exactly
<1>3. FormingIsCumulation
  BY <1>1, <1>2 DEF FormingIsCumulation
<1>4. AggregateExact
  <2> SUFFICES ASSUME aggregate # NoAggregate
               PROVE  /\ aggregate[1].current = Reduce(ints, open)
                      /\ aggregate[1].hasBefore <=> Len(open) > 1
                      /\ aggregate[1].hasBefore => aggregate[1].before = Reduce(ints, Front(open))
    BY DEF AggregateExact
  <2> QED
    BY <1>2 DEF Aggregates
<1> QED
  BY <1>3, <1>4

-----------------------------------------------------------------------------
(* The bars of a batch.                                                    *)
LEMMA AdmittedIs ==
  ASSUME NEW bar \in Bars
  PROVE  /\ Admitted(bar) \in BarSet /\ Admitted(bar).ts = bar.ts
         /\ \A c \in Cols : c \notin data => Admitted(bar).cells[c] = Missing
<1>1. bar.cells \in Given /\ bar.ts \in Int /\ bar = [ts |-> bar.ts, cells |-> bar.cells]
  BY TimeFrameFoldAssumption DEF Bars, Given, NaT
<1> DEFINE cs == [c \in Cols |-> IF c \in data THEN bar.cells[c] ELSE Missing]
<1>2. cs \in Given /\ \A c \in Cols : c \notin data => cs[c] = Missing
  BY <1>1 DEF Given
<1>3. Admitted(bar) = [ts |-> bar.ts, cells |-> cs]
  BY <1>1 DEF Admitted
<1> HIDE DEF cs
<1> QED
  BY <1>1, <1>2, <1>3 DEF BarSet

LEMMA BatchIs ==
  ASSUME NEW batch \in Batches, NEW bars, bars = AdmittedBars(batch)
  PROVE  /\ bars \in Seq(BarSet) /\ Len(bars) \in Nat /\ Len(bars) >= 1 /\ bars # <<>>
         /\ \A i \in 1 .. Len(bars), c \in Cols : c \notin data => bars[i].cells[c] = Missing
<1>1. PICK n \in 1 .. MaxBatch : batch \in [1 .. n -> Bars]
  BY DEF Batches
<1>2. n \in Nat /\ n >= 1
  BY TimeFrameFoldAssumption
<1>3. Len(batch) = n
  BY <1>1, <1>2
<1>4. \A i \in 1 .. n : Admitted(batch[i]) \in BarSet
                     /\ \A c \in Cols : c \notin data => Admitted(batch[i]).cells[c] = Missing
  BY <1>1, AdmittedIs
<1>5. bars = [i \in 1 .. n |-> Admitted(batch[i])]
  BY <1>3 DEF AdmittedBars
<1>6. bars \in [1 .. n -> BarSet]
  BY <1>4, <1>5
<1>7. bars \in Seq(BarSet) /\ Len(bars) = n
  BY <1>2, <1>6
<1>8. bars # <<>>
  BY <1>2, <1>7
<1> QED
  BY <1>2, <1>4, <1>5, <1>7, <1>8

(* Bars in order may come.                                                 *)
LEMMA InOrderComes ==
  ASSUME TInv, NEW bars \in Seq(BarSet), bars # <<>>, InOrder(bars)
  PROVE  Coming(FoldState, bars)
<1>1. open \in Seq(BarSet)
  BY ShapeIs DEF TInv
<1>2. CASE open = <<>>
  BY <1>2, StateIs DEF Coming, InOrder
<1>3. CASE open # <<>>
  <2> DEFINE l == LastOf(open)  X == <<l>>
  <2>1. l \in BarSet
    BY <1>1, <1>3 DEF LastOf
  <2>2. Ordered(X \o bars)
    BY <1>3 DEF InOrder
  <2> HIDE DEF l
  <2>3. X \in Seq(BarSet) /\ X # <<>> /\ LastOf(X) = l
    BY <2>1 DEF LastOf
  <2> HIDE DEF X
  <2>4. Ordered(bars) /\ LastOf(X).ts <= bars[1].ts
    BY <2>2, <2>3, BarSets, OrderedJoin
  <2> QED
    BY <2>3, <2>4, StateIs DEF Coming, l
<1> QED
  BY <1>2, <1>3

(* What a fold that was begun leaves in the variables.                     *)
Left(f) ==
  /\ rows' = f.rows /\ open' = f.open /\ openKey' = f.key /\ aggregate' = f.agg /\ refold' = f.refold
  /\ UNCHANGED <<data, ints, lead>>

LEMMA LeftShape ==
  ASSUME NEW f, Shape(f), Left(f)
  PROVE  Shape(FoldState)'
<1>1. f \in FoldSet
  BY DEF Shape
<1>2. FoldState' = [rows |-> f.rows, open |-> f.open, key |-> f.key, agg |-> f.agg,
                    refold |-> f.refold, ok |-> TRUE]
  BY DEF FoldState, Left
<1> DEFINE s == FoldState'
<1>3. /\ s.rows = f.rows /\ s.open = f.open /\ s.key = f.key /\ s.agg = f.agg /\ s.refold = f.refold
      /\ s \in FoldSet
  BY <1>1, <1>2 DEF FoldSet
<1> HIDE DEF s
<1>4. Shape(s)
  BY <1>3 DEF Shape
<1> QED
  BY <1>4 DEF s, Shape, FoldSet

LEMMA LeftExact ==
  ASSUME NEW f, Exact(f), Left(f)
  PROVE  Exact(FoldState)'
<1>1. /\ \A i \in 1 .. Len(f.open) : Takes(f.open[i])
      /\ f.open # <<>> => \A c \in Cols :
           \/ LastOf(f.rows).cells[c] = Reduce({}, f.open)[c]
           \/ f.refold /\ \A i \in 1 .. Len(f.open) : f.open[i].cells[c] = Missing
      /\ f.agg # NoAggregate => f.open # <<>> /\ Aggregates(ints, f.agg, f.open)
  BY DEF Exact, Taken, Cumulates, Forms
<1>2. data' = data /\ ints' = ints
  BY DEF Left
<1>3. Exactly'
  BY <1>1, <1>2 DEF Left, Takes, FitsType, Exactly
<1> QED
  BY <1>3, ExactIs, PTL

(* A fold that was begun, in the types; exact when the lead takes all.     *)
LEMMA FoldAppendShape ==
  ASSUME TInv, NEW batch \in Batches, FoldAppend(batch)
  PROVE  TInv'
<1> DEFINE bars == AdmittedBars(batch)  f == FoldBars(lead, FoldState, bars)
<1>1. CASE Refused
  BY <1>1 DEF Refused, TInv, FoldState, Shape
<1>2. CASE InOrder(bars) /\ Left(f) /\ answer' \in {"folded", "refused"}
  <2>1. bars \in Seq(BarSet) /\ Len(bars) \in Nat /\ bars # <<>>
    BY BatchIs
  <2>2. f = FoldBars(lead, FoldState, bars)
    OBVIOUS
  <2> HIDE DEF bars, f
  <2>3. Coming(FoldState, bars)
    BY <1>2, <2>1, InOrderComes
  <2>4. PICK K : Folding(K, lead, FoldState, bars) /\ f = K[Len(bars)]
    BY <2>1, <2>2, FoldingExists
  <2>5. Reached(K, bars, Len(bars))
    <3>1. Len(bars) \in 0 .. Len(bars) /\ Shape(FoldState)
      BY <2>1 DEF TInv
    <3> QED
      BY <2>3, <2>4, <3>1, BatchReached
  <2>6. Shape(f)
    BY <2>4, <2>5 DEF Reached
  <2>7. Shape(FoldState)'
    BY <1>2, <2>6, LeftShape
  <2> QED
    BY <1>2, <2>7 DEF TInv, Left
<1> QED
  BY <1>1, <1>2 DEF FoldAppend, Left

(* The bars that pass the checks of `append' are bars the frame takes.     *)
LEMMA CheckedTake ==
  ASSUME TInv, NEW batch \in Batches, NEW bars, bars = AdmittedBars(batch),
         ~\E i \in 1 .. Len(bars), c \in Cols : ~Fits(c, bars[i].cells[c])
  PROVE  \A i \in 1 .. Len(bars) : Takes(bars[i])
<1> SUFFICES ASSUME NEW i \in 1 .. Len(bars)
             PROVE  Takes(bars[i])
  OBVIOUS
<1>1. bars[i] \in BarSet /\ \A c \in Cols : c \notin data => bars[i].cells[c] = Missing
  <2>1. bars \in Seq(BarSet) /\ \A k \in 1 .. Len(bars), c \in Cols : c \notin data => bars[k].cells[c] = Missing
    BY BatchIs
  <2> QED
    BY <2>1
<1>2. ints \subseteq Cols
  BY DEF TInv
<1>3. \A c \in ints : FitsType(c, bars[i].cells[c])
  BY <1>2 DEF Fits
<1> QED
  BY <1>1, <1>3 DEF Takes

LEMMA FoldAppendExact ==
  ASSUME XInv, LeadTakesAll, NEW batch \in Batches, FoldAppend(batch)
  PROVE  Exact(FoldState)'
<1> DEFINE bars == AdmittedBars(batch)  f == FoldBars(lead, FoldState, bars)
<1>1. CASE Refused
  <2>1. Exact(FoldState)
    BY DEF XInv
  <2>2. Left(FoldState)
    BY <1>1, StateIs DEF Refused, Left
  <2> QED
    BY <2>1, <2>2, LeftExact
<1>2. CASE /\ ~\E i \in 1 .. Len(bars), c \in Cols : ~Fits(c, bars[i].cells[c])
           /\ InOrder(bars) /\ Left(f)
  <2>1. bars \in Seq(BarSet) /\ Len(bars) \in Nat /\ bars # <<>>
    BY BatchIs
  <2>2. f = FoldBars(lead, FoldState, bars) /\ TInv /\ Shape(FoldState) /\ Exact(FoldState)
    BY DEF XInv, TInv
  <2>3. \A i \in 1 .. Len(bars) : Takes(bars[i])
    BY <1>2, <2>2, CheckedTake
  <2>4. TakesAll(lead)
    BY DEF LeadTakesAll, TakesAll
  <2> HIDE DEF bars, f
  <2>5. Coming(FoldState, bars)
    BY <1>2, <2>1, <2>2, InOrderComes
  <2>6. PICK K : Folding(K, lead, FoldState, bars) /\ f = K[Len(bars)]
    BY <2>1, <2>2, FoldingExists
  <2>7. \A i \in 0 .. Len(bars) : Exact(K[i])
    BY <2>2, <2>3, <2>4, <2>5, <2>6, BatchExact
  <2>8. Exact(f)
    <3>1. Len(bars) \in 0 .. Len(bars)
      BY <2>1
    <3> QED
      BY <2>6, <2>7, <3>1
  <2> QED
    BY <1>2, <2>8, LeftExact
<1> QED
  BY <1>1, <1>2 DEF FoldAppend, Left

-----------------------------------------------------------------------------
(* What a user does to the rows.                                           *)

(* A cell of one row or bar rewritten.                                     *)
With(x, c, v) == [x EXCEPT !.cells = [@ EXCEPT ![c] = v]]

IsRewritten(t, S, s, r, c, v) ==
  /\ t \in Seq(S) /\ Rising(t) /\ Len(t) = Len(s) /\ t # <<>> /\ s # <<>>
  /\ \A i \in 1 .. Len(s) : t[i].ts = s[i].ts /\ (i # r => t[i] = s[i])
  /\ \A d \in Cols : t[r].cells[d] = IF d = c THEN v ELSE s[r].cells[d]

LEMMA Rewritten ==
  ASSUME NEW S, NEW s, NEW r, NEW c, NEW v, NEW t, s \in Seq(S), Rising(s), r \in 1 .. Len(s),
         t = [s EXCEPT ![r] = With(s[r], c, v)], With(s[r], c, v) \in S, With(s[r], c, v).ts = s[r].ts,
         \A d \in Cols : With(s[r], c, v).cells[d] = IF d = c THEN v ELSE s[r].cells[d]
  PROVE  IsRewritten(t, S, s, r, c, v)
<1> DEFINE n == Len(s)  x == With(s[r], c, v)
<1>1. n \in Nat /\ \A i \in 1 .. n : s[i] \in S
  OBVIOUS
<1>7. t = [s EXCEPT ![r] = x] /\ x \in S /\ x.ts = s[r].ts
  OBVIOUS
<1>4. \A d \in Cols : x.cells[d] = IF d = c THEN v ELSE s[r].cells[d]
  OBVIOUS
<1> HIDE DEF x
<1>2. t \in Seq(S) /\ Len(t) = n /\ t[r] = x
  BY <1>7
<1>3. \A i \in 1 .. n : t[i].ts = s[i].ts /\ (i # r => t[i] = s[i])
  BY <1>7
<1>5. Rising(t)
  BY <1>2, <1>3 DEF Rising
<1>6. t # <<>> /\ s # <<>>
  BY <1>1, <1>2
<1> QED
  BY <1>2, <1>3, <1>4, <1>5, <1>6 DEF IsRewritten

LEMMA RowRewritten ==
  ASSUME NEW s, NEW r, NEW c, NEW v, NEW t, s \in Seq(RowSet), Rising(s), r \in 1 .. Len(s),
         v \in Int \cup {Missing}, t = [s EXCEPT ![r].cells[c] = v]
  PROVE  IsRewritten(t, RowSet, s, r, c, v)
<1> DEFINE x == With(s[r], c, v)
<1>1. s[r] \in RowSet
  OBVIOUS
<1>2. x \in RowSet /\ x.ts = s[r].ts /\ \A d \in Cols : x.cells[d] = IF d = c THEN v ELSE s[r].cells[d]
  BY <1>1 DEF With, RowSet, Cells
<1>3. t = [s EXCEPT ![r] = x]
  BY DEF With
<1> QED
  BY <1>2, <1>3, Rewritten

LEMMA BarRewritten ==
  ASSUME NEW s, NEW r, NEW c, NEW v, NEW t, s \in Seq(BarSet), Rising(s), r \in 1 .. Len(s),
         v \in Int \cup {Missing}, t = [s EXCEPT ![r].cells[c] = v]
  PROVE  IsRewritten(t, BarSet, s, r, c, v)
<1> DEFINE x == With(s[r], c, v)
<1>1. s[r] \in BarSet
  OBVIOUS
<1>2. x \in BarSet /\ x.ts = s[r].ts /\ \A d \in Cols : x.cells[d] = IF d = c THEN v ELSE s[r].cells[d]
  BY <1>1 DEF With, BarSet, Given
<1>3. t = [s EXCEPT ![r] = x]
  BY DEF With
<1> QED
  BY <1>2, <1>3, Rewritten

(* What keeps the shape: the same labels, and the same stamps of the bars. *)
LEMMA UserShape ==
  ASSUME TInv,
         rows' \in Seq(RowSet), Rising(rows'), open' \in Seq(BarSet), Rising(open'),
         Len(open') = Len(open), \A i \in 1 .. Len(open) : open'[i].ts = open[i].ts,
         rows' = <<>> <=> rows = <<>>, LastOf(rows').ts = LastOf(rows).ts,
         openKey' = openKey, aggregate' \in Aggs, refold' \in BOOLEAN
  PROVE  Shape(FoldState)'
<1>1. /\ open \in Seq(BarSet) /\ openKey \in Int /\ (open = <<>> <=> rows = <<>>)
      /\ \A i \in 1 .. Len(open) : PeriodStart(open[i].ts) = LastOf(rows).ts
      /\ openKey # NoKey => rows # <<>> /\ openKey = LastOf(rows).ts
  BY ShapeIs DEF TInv
<1>2. \A i \in 1 .. Len(open') : PeriodStart(open'[i].ts) = LastOf(rows').ts
  BY <1>1
<1>3. open' = <<>> <=> open = <<>>
  BY <1>1
<1>4. (/\ rows \in Seq(RowSet) /\ open \in Seq(BarSet) /\ openKey \in Int
       /\ aggregate \in Aggs /\ refold \in BOOLEAN
       /\ Rising(rows) /\ Rising(open) /\ (open = <<>> <=> rows = <<>>)
       /\ \A i \in 1 .. Len(open) : PeriodStart(open[i].ts) = LastOf(rows).ts
       /\ openKey # NoKey => rows # <<>> /\ openKey = LastOf(rows).ts)'
  BY <1>1, <1>2, <1>3
<1> QED
  BY <1>4, ShapeIs, PTL

(* The variables, typed.                                                   *)
LEMMA Held ==
  ASSUME TInv
  PROVE  /\ data \subseteq Cols /\ ints \subseteq Cols /\ lead \subseteq FloatCols
         /\ rows \in Seq(RowSet) /\ Rising(rows) /\ open \in Seq(BarSet) /\ Rising(open)
         /\ aggregate \in Aggs /\ refold \in BOOLEAN /\ (open = <<>> <=> rows = <<>>)
         /\ (rows # <<>> => Len(rows) \in 1 .. Len(rows) /\ LastOf(rows) = rows[Len(rows)])
         /\ NoAggregate \in Aggs
         /\ answer \in {"silent", "folded", "refused", "written", "cut"}
<1>1. rows \in Seq(RowSet) /\ (rows # <<>> => Len(rows) \in 1 .. Len(rows))
  BY ShapeIs DEF TInv
<1> QED
  BY <1>1, ShapeIs DEF TInv, LastOf, Aggs

LEMMA RefusedShape ==
  ASSUME TInv, Refused
  PROVE  TInv'
  BY DEF TInv, Refused, FoldState, Shape

LEMMA RefusedExact ==
  ASSUME XInv, Refused
  PROVE  Exact(FoldState)'
<1>1. Left(FoldState)
  BY StateIs DEF Refused, Left
<1> QED
  BY <1>1, LeftExact DEF XInv

LEMMA ClosedShape ==
  ASSUME TInv, NEW r \in 1 .. Len(rows), NEW c \in data, NEW v \in Values, WriteClosed(r, c, v)
  PROVE  TInv' /\ LastOf(rows') = LastOf(rows) /\ (rows' = <<>> <=> rows = <<>>)
<1>1. /\ rows \in Seq(RowSet) /\ Rising(rows) /\ open \in Seq(BarSet) /\ Rising(open)
      /\ aggregate \in Aggs /\ refold \in BOOLEAN
  BY Held
<1>2. rows' = [rows EXCEPT ![r].cells[c] = v] /\ r < Len(rows)
  BY DEF WriteClosed
<1>3. v \in Int \cup {Missing}
  BY TimeFrameFoldAssumption
<1> DEFINE t == rows'
<1>4. IsRewritten(t, RowSet, rows, r, c, v)
  BY <1>1, <1>2, <1>3, RowRewritten
<1>7. /\ t \in Seq(RowSet) /\ Rising(t) /\ Len(t) = Len(rows) /\ t # <<>> /\ rows # <<>>
      /\ \A i \in 1 .. Len(rows) : t[i].ts = rows[i].ts /\ (i # r => t[i] = rows[i])
  BY <1>4 DEF IsRewritten
<1>5. LastOf(t) = LastOf(rows)
  BY <1>1, <1>2, <1>7 DEF LastOf
<1>6. Shape(FoldState)'
  BY <1>1, <1>5, <1>7, UserShape DEF WriteClosed
<1> QED
  BY <1>5, <1>6, <1>7 DEF TInv, WriteClosed

(* Closed rows are read by nothing.                                        *)
LEMMA ClosedExact ==
  ASSUME XInv, NEW r \in 1 .. Len(rows), NEW c \in data, NEW v \in Values, WriteClosed(r, c, v)
  PROVE  Exact(FoldState)'
<1>1. LastOf(rows') = LastOf(rows)
  BY ClosedShape DEF XInv
<1>2. /\ \A i \in 1 .. Len(open) : Takes(open[i])
      /\ open # <<>> => \A d \in Cols :
           \/ LastOf(rows).cells[d] = Reduce({}, open)[d]
           \/ refold /\ \A i \in 1 .. Len(open) : open[i].cells[d] = Missing
      /\ aggregate # NoAggregate => open # <<>> /\ Aggregates(ints, aggregate, open)
  BY ExactIs DEF XInv, Exactly
<1>3. Exactly'
  BY <1>1, <1>2 DEF WriteClosed, Takes, FitsType, Exactly
<1> QED
  BY <1>3, ExactIs, PTL

(* How the open bars follow a column: as they are, or the only one         *)
(* rewritten.                                                              *)
LEMMA FollowIs ==
  ASSUME TInv, rows # <<>>, NEW c, NEW int, NEW v \in Int \cup {Missing}, Follow(c, int, v)
  PROVE  /\ open' \in Seq(BarSet) /\ Rising(open') /\ Len(open') = Len(open) /\ open' # <<>>
         /\ \A i \in 1 .. Len(open) : open'[i].ts = open[i].ts
         /\ aggregate' = NoAggregate /\ openKey' = openKey
         /\ \/ KeepsBars(c, int, v) /\ open' = open
            \/ /\ Len(open) = 1 /\ open = <<open[1]>> /\ open' = <<open'[1]>>
               /\ \A d \in Cols : open'[1].cells[d] = IF d = c THEN v ELSE open[1].cells[d]
<1>1. open \in Seq(BarSet) /\ Rising(open) /\ open # <<>>
  BY Held
<1>2. aggregate' = NoAggregate /\ openKey' = openKey
  BY DEF Follow
<1>3. CASE KeepsBars(c, int, v)
  <2>1. open' = open
    BY <1>3 DEF Follow
  <2> QED
    BY <1>1, <1>2, <1>3, <2>1
<1>4. CASE ~KeepsBars(c, int, v)
  <2>1. Len(open) = 1 /\ open' = [open EXCEPT ![1].cells[c] = v] /\ 1 \in 1 .. Len(open)
    BY <1>4 DEF Follow
  <2> DEFINE t == open'
  <2>2. IsRewritten(t, BarSet, open, 1, c, v)
    BY <1>1, <2>1, BarRewritten
  <2>3. /\ t \in Seq(BarSet) /\ Rising(t) /\ Len(t) = Len(open) /\ t # <<>>
        /\ \A i \in 1 .. Len(open) : t[i].ts = open[i].ts
        /\ \A d \in Cols : t[1].cells[d] = IF d = c THEN v ELSE open[1].cells[d]
    BY <2>1, <2>2 DEF IsRewritten
  <2>4. open = <<open[1]>>
    BY <1>1, <2>1, Single
  <2> HIDE DEF t
  <2>5. t = <<t[1]>>
    BY <2>1, <2>3, Single
  <2> QED
    BY <1>2, <2>1, <2>3, <2>4, <2>5 DEF t
<1> QED
  BY <1>3, <1>4

(* The period follows the column: bars that stay aggregate to what they    *)
(* did, a single one is the row.                                           *)
LEMMA FollowExact ==
  ASSUME XInv, rows # <<>>, NEW c \in data, NEW int, NEW v \in Int \cup {Missing}, Follow(c, int, v),
         int <=> c \in ints', int => FitsType(c, v), \A d \in ints' : d # c => d \in ints,
         data' = data, refold' = refold,
         \A d \in Cols : LastOf(rows').cells[d] = IF d = c THEN v ELSE LastOf(rows).cells[d]
  PROVE  Exact(FoldState)'
<1>1. TInv /\ data \subseteq Cols /\ c \in Cols
  BY Held DEF XInv
<1>2. /\ \A i \in 1 .. Len(open) : Takes(open[i])
      /\ \A d \in Cols :
           \/ LastOf(rows).cells[d] = Reduce({}, open)[d]
           \/ refold /\ \A i \in 1 .. Len(open) : open[i].cells[d] = Missing
  BY <1>1, ExactIs, Held DEF XInv, Exactly
<1>3. /\ open' \in Seq(BarSet) /\ Len(open') = Len(open) /\ open' # <<>> /\ aggregate' = NoAggregate
      /\ \/ KeepsBars(c, int, v) /\ open' = open
         \/ /\ Len(open) = 1 /\ open = <<open[1]>> /\ open' = <<open'[1]>>
            /\ \A d \in Cols : open'[1].cells[d] = IF d = c THEN v ELSE open[1].cells[d]
  BY <1>1, FollowIs
<1>4. open \in Seq(BarSet)
  BY <1>1, Held
<1>5. CASE KeepsBars(c, int, v) /\ open' = open
  <2>1. v = LastOf(rows).cells[c] /\ (int => \A i \in 1 .. Len(open) : FitsType(c, open[i].cells[c]))
    BY <1>5 DEF KeepsBars
  <2>2. ASSUME NEW i \in 1 .. Len(open)
        PROVE  Takes(open[i])'
    <3>1. Takes(open[i])
      BY <1>2
    <3>2. \A d \in ints' : FitsType(d, open[i].cells[d])
      BY <2>1, <3>1 DEF Takes
    <3> QED
      BY <1>5, <3>1, <3>2 DEF Takes, FitsType
  <2>3. \A d \in Cols : LastOf(rows').cells[d] = LastOf(rows).cells[d]
    BY <2>1
  <2>4. Exactly'
    BY <1>2, <1>3, <1>5, <2>2, <2>3 DEF Exactly
  <2> QED
    BY <2>4, ExactIs, PTL
<1>6. CASE /\ Len(open) = 1 /\ open = <<open[1]>> /\ open' = <<open'[1]>>
           /\ \A d \in Cols : open'[1].cells[d] = IF d = c THEN v ELSE open[1].cells[d]
  <2> DEFINE x == open[1]  y == open'[1]
  <2>1. x \in BarSet /\ y \in BarSet /\ open = <<x>> /\ open' = <<y>> /\ Takes(x)
    BY <1>2, <1>3, <1>4, <1>6
  <2>2. \A d \in Cols : y.cells[d] = IF d = c THEN v ELSE x.cells[d]
    BY <1>6
  <2>3. \A i \in 1 .. Len(open) : open[i] = x
    BY <1>6
  <2>4. \A i \in 1 .. Len(open') : open'[i] = y
    BY <1>3, <1>6
  <2> HIDE DEF x, y
  <2>5. Reduce({}, open) = x.cells /\ Reduce({}, open') = y.cells
    BY <2>1, BarSets, ReduceOne
  <2>6. ASSUME NEW d \in ints'
        PROVE  FitsType(d, y.cells[d])
    <3>1. d \in Cols => y.cells[d] = IF d = c THEN v ELSE x.cells[d]
      BY <2>2
    <3>2. d # c => d \in ints /\ d \in Cols
      BY <1>1, Held
    <3>3. d # c => FitsType(d, x.cells[d])
      BY <2>1, <3>2 DEF Takes
    <3> QED
      BY <1>1, <3>1, <3>2, <3>3
  <2>7. \A d \in Cols : d \notin data => y.cells[d] = Missing
    BY <2>1, <2>2 DEF Takes
  <2>8. (y \in BarSet /\ (\A d \in Cols : d \notin data' => y.cells[d] = Missing)
         /\ \A d \in ints' : y.cells[d] = Missing \/ y.cells[d] \in Ints)
    BY <2>1, <2>6, <2>7 DEF FitsType
  <2>9. ASSUME NEW d \in Cols
        PROVE  \/ LastOf(rows').cells[d] = y.cells[d]
               \/ refold' /\ y.cells[d] = Missing
    <3>1. \/ LastOf(rows).cells[d] = x.cells[d]
          \/ refold /\ x.cells[d] = Missing
      BY <1>2, <1>6, <2>3, <2>5
    <3> QED
      BY <2>2, <3>1
  <2>10. (\A i \in 1 .. Len(open) : Takes(open[i]))'
    BY <2>4, <2>8 DEF Takes, FitsType
  <2>11. Exactly'
    BY <1>3, <2>4, <2>5, <2>9, <2>10 DEF Exactly
  <2> QED
    BY <2>11, ExactIs, PTL
<1> QED
  BY <1>3, <1>5, <1>6

(* The types, when the period follows a write to a column.                 *)
LEMMA FollowShape ==
  ASSUME TInv, rows # <<>>, NEW c, NEW int, NEW v \in Int \cup {Missing}, Follow(c, int, v),
         rows' \in Seq(RowSet), Rising(rows'), rows' # <<>>, LastOf(rows').ts = LastOf(rows).ts,
         refold' \in BOOLEAN
  PROVE  Shape(FoldState)'
<1>1. /\ open' \in Seq(BarSet) /\ Rising(open') /\ Len(open') = Len(open)
      /\ \A i \in 1 .. Len(open) : open'[i].ts = open[i].ts
      /\ aggregate' = NoAggregate /\ openKey' = openKey
  BY FollowIs
<1>2. NoAggregate \in Aggs
  BY Held
<1> QED
  BY <1>1, <1>2, UserShape

(* The forming row, a cell of it rewritten.                                *)
LEMMA FormingRow ==
  ASSUME TInv, rows # <<>>, NEW c, NEW v \in Int \cup {Missing},
         rows' = [rows EXCEPT ![Len(rows)].cells[c] = v]
  PROVE  /\ rows' \in Seq(RowSet) /\ Rising(rows') /\ rows' # <<>> /\ LastOf(rows').ts = LastOf(rows).ts
         /\ \A d \in Cols : LastOf(rows').cells[d] = IF d = c THEN v ELSE LastOf(rows).cells[d]
<1> DEFINE t == rows'  n == Len(rows)
<1>1. rows \in Seq(RowSet) /\ Rising(rows) /\ n \in 1 .. Len(rows) /\ LastOf(rows) = rows[n]
  BY Held
<1>2. t = [rows EXCEPT ![n].cells[c] = v]
  OBVIOUS
<1>3. IsRewritten(t, RowSet, rows, n, c, v)
  BY <1>1, <1>2, RowRewritten
<1>4. /\ t \in Seq(RowSet) /\ Rising(t) /\ Len(t) = n /\ t # <<>>
      /\ t[n].ts = rows[n].ts
      /\ \A d \in Cols : t[n].cells[d] = IF d = c THEN v ELSE rows[n].cells[d]
  BY <1>1, <1>3 DEF IsRewritten
<1>5. LastOf(t) = t[n]
  BY <1>4 DEF LastOf
<1> QED
  BY <1>1, <1>4, <1>5

LEMMA FormingWrite ==
  ASSUME TInv, NEW r \in 1 .. Len(rows), NEW c \in data, NEW v \in Values, WriteForming(r, c, v), ~Refused
  PROVE  /\ rows # <<>> /\ Follow(c, c \in ints, v) /\ v \in Int \cup {Missing}
         /\ rows' = [rows EXCEPT ![Len(rows)].cells[c] = v]
         /\ answer' = "written" /\ UNCHANGED <<data, ints, lead, refold>>
<1>1. rows # <<>>
  BY Held
<1> QED
  BY <1>1, TimeFrameFoldAssumption DEF WriteForming

LEMMA FormingShape ==
  ASSUME TInv, NEW r \in 1 .. Len(rows), NEW c \in data, NEW v \in Values, WriteForming(r, c, v)
  PROVE  TInv'
<1>1. CASE Refused
  BY <1>1, RefusedShape
<1>2. CASE ~Refused
  <2>1. /\ rows # <<>> /\ Follow(c, c \in ints, v) /\ v \in Int \cup {Missing}
        /\ rows' = [rows EXCEPT ![Len(rows)].cells[c] = v]
        /\ answer' = "written" /\ UNCHANGED <<data, ints, lead, refold>>
    BY <1>2, FormingWrite
  <2>2. rows' \in Seq(RowSet) /\ Rising(rows') /\ rows' # <<>> /\ LastOf(rows').ts = LastOf(rows).ts
    BY <2>1, FormingRow
  <2>3. refold' \in BOOLEAN
    BY <2>1, Held
  <2> DEFINE int == c \in ints
  <2>4. Follow(c, int, v)
    BY <2>1
  <2> HIDE DEF int
  <2>5. Shape(FoldState)'
    BY <2>1, <2>2, <2>3, <2>4, FollowShape
  <2> QED
    BY <2>1, <2>5 DEF TInv
<1> QED
  BY <1>1, <1>2

LEMMA FormingExact ==
  ASSUME XInv, NEW r \in 1 .. Len(rows), NEW c \in data, NEW v \in Values, Fits(c, v), WriteForming(r, c, v)
  PROVE  Exact(FoldState)'
<1>1. CASE Refused
  BY <1>1, RefusedExact
<1>2. CASE ~Refused
  <2>1. /\ rows # <<>> /\ Follow(c, c \in ints, v) /\ v \in Int \cup {Missing}
        /\ rows' = [rows EXCEPT ![Len(rows)].cells[c] = v]
        /\ UNCHANGED <<data, ints, lead, refold>>
    BY <1>2, FormingWrite DEF XInv
  <2>2. \A d \in Cols : LastOf(rows').cells[d] = IF d = c THEN v ELSE LastOf(rows).cells[d]
    BY <2>1, FormingRow DEF XInv
  <2> DEFINE int == c \in ints
  <2>3. Follow(c, int, v) /\ (int <=> c \in ints') /\ (int => FitsType(c, v))
    BY <2>1 DEF Fits
  <2>4. \A d \in ints' : d # c => d \in ints
    BY <2>1
  <2> HIDE DEF int
  <2> QED
    BY <2>1, <2>2, <2>3, <2>4, FollowExact
<1> QED
  BY <1>1, <1>2

LEMMA WriteShape ==
  ASSUME TInv, WriteCell
  PROVE  TInv'
<1>1. PICK r \in 1 .. Len(rows), c \in data, v \in Values :
        IF Fits(c, v) THEN WriteClosed(r, c, v) \/ WriteForming(r, c, v) ELSE Refused
  BY DEF WriteCell
<1>2. CASE WriteClosed(r, c, v)
  BY <1>2, ClosedShape
<1>3. CASE WriteForming(r, c, v)
  BY <1>3, FormingShape
<1>4. CASE Refused
  BY <1>4, RefusedShape
<1> QED
  BY <1>1, <1>2, <1>3, <1>4

LEMMA WriteExact ==
  ASSUME XInv, WriteCell
  PROVE  Exact(FoldState)'
<1>1. PICK r \in 1 .. Len(rows), c \in data, v \in Values :
        IF Fits(c, v) THEN WriteClosed(r, c, v) \/ WriteForming(r, c, v) ELSE Refused
  BY DEF WriteCell
<1>2. CASE WriteClosed(r, c, v)
  BY <1>2, ClosedExact
<1>3. CASE Fits(c, v) /\ WriteForming(r, c, v)
  BY <1>3, FormingExact
<1>4. CASE Refused
  BY <1>4, RefusedExact
<1> QED
  BY <1>1, <1>2, <1>3, <1>4

(* A column becomes one of integers.                                       *)
LEMMA IntegersAre ==
  ASSUME TInv, ToIntegers
  PROVE  \E c \in data : /\ rows # <<>> /\ LastOf(rows).cells[c] \in Int \cup {Missing}
                         /\ FitsType(c, LastOf(rows).cells[c])
                         /\ Follow(c, TRUE, LastOf(rows).cells[c])
                         /\ c \in Cols /\ ints' = ints \cup {c} /\ answer' = "written"
                         /\ UNCHANGED <<data, lead, rows, refold>>
<1>1. PICK c \in (data \cap FloatCols) \ ints :
        /\ rows # <<>>
        /\ \A r \in 1 .. Len(rows) : FitsType(c, rows[r].cells[c])
        /\ Follow(c, TRUE, LastOf(rows).cells[c])
        /\ ints' = ints \cup {c} /\ answer' = "written"
        /\ UNCHANGED <<data, lead, rows, refold>>
  BY DEF ToIntegers
<1>2. c \in data /\ c \in Cols /\ LastOf(rows) = rows[Len(rows)] /\ Len(rows) \in 1 .. Len(rows)
  BY <1>1, Held
<1>3. FitsType(c, LastOf(rows).cells[c])
  BY <1>1, <1>2
<1>4. LastOf(rows).cells[c] \in Int \cup {Missing}
  BY <1>3, PeriodFoldAssumption DEF FitsType, Ints
<1> QED
  BY <1>1, <1>2, <1>3, <1>4

LEMMA IntegersShape ==
  ASSUME TInv, ToIntegers
  PROVE  TInv'
<1>1. PICK c \in data : /\ rows # <<>> /\ LastOf(rows).cells[c] \in Int \cup {Missing}
                        /\ Follow(c, TRUE, LastOf(rows).cells[c])
                        /\ c \in Cols /\ ints' = ints \cup {c} /\ answer' = "written"
                        /\ UNCHANGED <<data, lead, rows, refold>>
  BY IntegersAre
<1>2. /\ rows' \in Seq(RowSet) /\ Rising(rows') /\ rows' # <<>> /\ LastOf(rows').ts = LastOf(rows).ts
      /\ refold' \in BOOLEAN /\ ints \subseteq Cols
  BY <1>1, Held
<1> DEFINE v == LastOf(rows).cells[c]
<1>3. v \in Int \cup {Missing} /\ Follow(c, TRUE, v)
  BY <1>1
<1> HIDE DEF v
<1>4. Shape(FoldState)'
  BY <1>1, <1>2, <1>3, FollowShape
<1> QED
  BY <1>1, <1>2, <1>4 DEF TInv

LEMMA IntegersExact ==
  ASSUME XInv, ToIntegers
  PROVE  Exact(FoldState)'
<1>1. PICK c \in data : /\ rows # <<>> /\ LastOf(rows).cells[c] \in Int \cup {Missing}
                        /\ FitsType(c, LastOf(rows).cells[c])
                        /\ Follow(c, TRUE, LastOf(rows).cells[c])
                        /\ ints' = ints \cup {c}
                        /\ UNCHANGED <<data, lead, rows, refold>>
  BY IntegersAre DEF XInv
<1> DEFINE v == LastOf(rows).cells[c]
<1>2. v \in Int \cup {Missing} /\ Follow(c, TRUE, v) /\ FitsType(c, v)
  BY <1>1
<1>3. \A d \in Cols : LastOf(rows').cells[d] = IF d = c THEN v ELSE LastOf(rows).cells[d]
  BY <1>1
<1>4. c \in ints' /\ \A d \in ints' : d # c => d \in ints
  BY <1>1
<1> HIDE DEF v
<1> QED
  BY <1>1, <1>2, <1>3, <1>4, FollowExact

(* A column added: the rows keep their labels, the bars hold it as missing.*)
LEMMA AddedRows ==
  ASSUME TInv, NEW c \in Cols, NEW v \in Int \cup {Missing},
         rows' = [r \in 1 .. Len(rows) |-> [rows[r] EXCEPT !.cells[c] = v]]
  PROVE  /\ rows' \in Seq(RowSet) /\ Rising(rows') /\ (rows' = <<>> <=> rows = <<>>)
         /\ rows # <<>> => /\ LastOf(rows').ts = LastOf(rows).ts
                           /\ \A d \in Cols : d # c => LastOf(rows').cells[d] = LastOf(rows).cells[d]
<1> DEFINE t == rows'  n == Len(rows)  x(r) == With(rows[r], c, v)
<1>1. rows \in Seq(RowSet) /\ Rising(rows) /\ n \in Nat /\ (rows # <<>> => n \in 1 .. n /\ LastOf(rows) = rows[n])
  BY Held
<1>2. ASSUME NEW r \in 1 .. n
      PROVE  x(r) \in RowSet /\ x(r).ts = rows[r].ts /\ \A d \in Cols : d # c => x(r).cells[d] = rows[r].cells[d]
  <2>1. rows[r] \in RowSet
    BY <1>1
  <2> QED
    BY <2>1 DEF With, RowSet, Cells
<1>3. t = [r \in 1 .. n |-> x(r)]
  BY DEF With
<1> HIDE DEF x
<1>4. t \in [1 .. n -> RowSet]
  BY <1>2, <1>3
<1>5. t \in Seq(RowSet) /\ Len(t) = n
  BY <1>1, <1>4
<1>6. \A r \in 1 .. n : t[r].ts = rows[r].ts /\ \A d \in Cols : d # c => t[r].cells[d] = rows[r].cells[d]
  BY <1>2, <1>3
<1>7. Rising(t)
  <2>1. \A r \in 1 .. n : t[r].ts = rows[r].ts
    BY <1>6
  <2> HIDE DEF t
  <2> QED
    BY <1>1, <1>5, <2>1 DEF Rising
<1>8. t = <<>> <=> rows = <<>>
  BY <1>1, <1>5
<1> HIDE DEF t
<1>9. rows # <<>> => LastOf(t) = t[n]
  BY <1>5 DEF LastOf
<1>10. rows # <<>> => /\ LastOf(t).ts = LastOf(rows).ts
                      /\ \A d \in Cols : d # c => LastOf(t).cells[d] = LastOf(rows).cells[d]
  BY <1>1, <1>6, <1>9
<1> QED
  BY <1>5, <1>7, <1>8, <1>10 DEF t

LEMMA AddedIs ==
  ASSUME TInv, AddColumn
  PROVE  \E c \in Cols, v \in Int \cup {Missing} :
           /\ c \notin data /\ data' = data \cup {c}
           /\ rows' = [r \in 1 .. Len(rows) |-> [rows[r] EXCEPT !.cells[c] = v]]
           /\ aggregate' = NoAggregate /\ refold' = (refold \/ rows # <<>>) /\ answer' = "written"
           /\ UNCHANGED <<ints, lead, open, openKey>>
  BY TimeFrameFoldAssumption DEF AddColumn

LEMMA AddedShape ==
  ASSUME TInv, AddColumn
  PROVE  TInv'
<1>1. PICK c \in Cols, v \in Int \cup {Missing} :
           /\ data' = data \cup {c}
           /\ rows' = [r \in 1 .. Len(rows) |-> [rows[r] EXCEPT !.cells[c] = v]]
           /\ aggregate' = NoAggregate /\ refold' = (refold \/ rows # <<>>) /\ answer' = "written"
           /\ UNCHANGED <<ints, lead, open, openKey>>
  BY AddedIs
<1>2. /\ rows' \in Seq(RowSet) /\ Rising(rows') /\ (rows' = <<>> <=> rows = <<>>)
      /\ rows # <<>> => LastOf(rows').ts = LastOf(rows).ts
  BY <1>1, AddedRows
<1>3. /\ open \in Seq(BarSet) /\ Rising(open) /\ NoAggregate \in Aggs /\ refold \in BOOLEAN
      /\ data \subseteq Cols /\ (open = <<>> <=> rows = <<>>)
  BY Held
<1>4. /\ openKey \in Int
      /\ \A i \in 1 .. Len(open) : PeriodStart(open[i].ts) = LastOf(rows).ts
      /\ openKey # NoKey => rows # <<>> /\ openKey = LastOf(rows).ts
  BY ShapeIs DEF TInv
<1>5. (/\ rows \in Seq(RowSet) /\ open \in Seq(BarSet) /\ openKey \in Int
       /\ aggregate \in Aggs /\ refold \in BOOLEAN
       /\ Rising(rows) /\ Rising(open) /\ (open = <<>> <=> rows = <<>>)
       /\ \A i \in 1 .. Len(open) : PeriodStart(open[i].ts) = LastOf(rows).ts
       /\ openKey # NoKey => rows # <<>> /\ openKey = LastOf(rows).ts)'
  <2>1. CASE rows = <<>>
    BY <1>1, <1>2, <1>3, <1>4, <2>1
  <2>2. CASE rows # <<>>
    BY <1>1, <1>2, <1>3, <1>4, <2>2
  <2> QED
    BY <2>1, <2>2
<1>6. Shape(FoldState)'
  BY <1>5, ShapeIs, PTL
<1> QED
  BY <1>1, <1>3, <1>6 DEF TInv

LEMMA AddedExact ==
  ASSUME XInv, AddColumn
  PROVE  Exact(FoldState)'
<1>1. PICK c \in Cols, v \in Int \cup {Missing} :
           /\ c \notin data /\ data' = data \cup {c}
           /\ rows' = [r \in 1 .. Len(rows) |-> [rows[r] EXCEPT !.cells[c] = v]]
           /\ aggregate' = NoAggregate /\ refold' = (refold \/ rows # <<>>) /\ answer' = "written"
           /\ UNCHANGED <<ints, lead, open, openKey>>
  BY AddedIs DEF XInv
<1>2. rows # <<>> => \A d \in Cols : d # c => LastOf(rows').cells[d] = LastOf(rows).cells[d]
  BY <1>1, AddedRows DEF XInv
<1>3. /\ \A i \in 1 .. Len(open) : Takes(open[i])
      /\ open # <<>> => \A d \in Cols :
           \/ LastOf(rows).cells[d] = Reduce({}, open)[d]
           \/ refold /\ \A i \in 1 .. Len(open) : open[i].cells[d] = Missing
  BY ExactIs DEF XInv, Exactly
<1>4. open # <<>> => rows # <<>>
  BY Held DEF XInv
<1>5. \A i \in 1 .. Len(open) : open[i].cells[c] = Missing
  BY <1>1, <1>3 DEF Takes
<1>6. (\A i \in 1 .. Len(open) : Takes(open[i]))'
  BY <1>1, <1>3 DEF Takes, FitsType
<1>7. ASSUME open # <<>>, NEW d \in Cols
      PROVE  \/ LastOf(rows').cells[d] = Reduce({}, open)[d]
             \/ refold' /\ \A i \in 1 .. Len(open) : open[i].cells[d] = Missing
  <2>1. CASE d = c
    BY <1>1, <1>4, <1>5, <1>7, <2>1
  <2>2. CASE d # c
    <3>1. LastOf(rows').cells[d] = LastOf(rows).cells[d] /\ refold'
      BY <1>1, <1>2, <1>4, <1>7, <2>2
    <3> QED
      BY <1>3, <1>7, <3>1
  <2> QED
    BY <2>1, <2>2
<1>8. Exactly'
  BY <1>1, <1>6, <1>7 DEF Exactly
<1> QED
  BY <1>8, ExactIs, PTL

(* A tail of two rows or more ends in the same row.                        *)
LEMMA TailRising ==
  ASSUME NEW s \in Seq(RowSet), Rising(s), Len(s) > 1, NEW t, t = Tail(s)
  PROVE  t \in Seq(RowSet) /\ Rising(t) /\ t # <<>> /\ LastOf(t) = LastOf(s)
<1> DEFINE n == Len(s)
<1>1. n \in Nat /\ n > 1 /\ s # <<>>
  OBVIOUS
<1>2. t \in Seq(RowSet) /\ Len(t) = n - 1 /\ \A i \in 1 .. n - 1 : t[i] = s[i + 1]
  BY <1>1
<1>3. Rising(t)
  <2> SUFFICES ASSUME NEW i \in 1 .. Len(t), NEW j \in 1 .. Len(t), i < j
               PROVE  t[i].ts < t[j].ts
    BY DEF Rising
  <2>1. i + 1 \in 1 .. n /\ j + 1 \in 1 .. n /\ i + 1 < j + 1 /\ t[i] = s[i + 1] /\ t[j] = s[j + 1]
    BY <1>1, <1>2
  <2> QED
    BY <2>1 DEF Rising
<1>4. t # <<>> /\ t[n - 1] = s[n]
  <2>1. n - 1 \in 1 .. n - 1 /\ (n - 1) + 1 = n
    BY <1>1
  <2>2. t # <<>>
    <3>1. n - 1 # 0
      BY <1>1
    <3>2. Len(t) = n - 1 /\ Len(<<>>) = 0
      BY <1>2
    <3> QED
      BY <3>1, <3>2
  <2> HIDE DEF n
  <2> QED
    BY <1>2, <2>1, <2>2
<1>5. LastOf(t) = LastOf(s)
  BY <1>2, <1>4 DEF LastOf
<1> QED
  BY <1>2, <1>3, <1>4, <1>5

LEMMA CutShape ==
  ASSUME TInv, CutTail
  PROVE  TInv' /\ LastOf(rows') = LastOf(rows) /\ rows # <<>>
<1> DEFINE t == rows'  cut == (data \cap FloatCols) \ ints
<1>1. /\ Len(rows) > 1 /\ t = Tail(rows) /\ lead' \in {{}, cut, cut \cup lead} /\ answer' = "cut"
      /\ UNCHANGED <<data, ints, open, openKey, aggregate, refold>>
  BY DEF CutTail
<1>2. /\ rows \in Seq(RowSet) /\ Rising(rows) /\ open \in Seq(BarSet) /\ Rising(open)
      /\ aggregate \in Aggs /\ refold \in BOOLEAN /\ lead \subseteq FloatCols
  BY Held
<1>3. t \in Seq(RowSet) /\ Rising(t) /\ t # <<>> /\ LastOf(t) = LastOf(rows) /\ rows # <<>>
  <2>1. t \in Seq(RowSet) /\ Rising(t) /\ t # <<>> /\ LastOf(t) = LastOf(rows)
    <3> HIDE DEF t
    <3> QED
      BY <1>1, <1>2, TailRising
  <2>2. rows # <<>>
    BY <1>1, <1>2
  <2> QED
    BY <2>1, <2>2
<1>4. lead' \subseteq FloatCols
  <2>1. cut \subseteq FloatCols
    OBVIOUS
  <2> HIDE DEF cut
  <2> QED
    BY <1>1, <1>2, <2>1
<1> HIDE DEF cut
<1>5. Shape(FoldState)'
  BY <1>1, <1>2, <1>3, UserShape
<1> QED
  BY <1>1, <1>3, <1>4, <1>5 DEF TInv

LEMMA CutExact ==
  ASSUME XInv, CutTail
  PROVE  Exact(FoldState)'
<1>1. LastOf(rows') = LastOf(rows)
  BY CutShape DEF XInv
<1>2. Exactly
  BY ExactIs DEF XInv
<1>3. Exactly'
  BY <1>1, <1>2 DEF CutTail, Takes, FitsType, Exactly
<1> QED
  BY <1>3, ExactIs, PTL

LEMMA IdleExact ==
  ASSUME XInv, UNCHANGED vars
  PROVE  XInv'
<1>1. Left(FoldState)
  BY StateIs DEF vars, Left
<1>2. Exact(FoldState)'
  BY <1>1, LeftExact DEF XInv
<1>3. TInv'
  BY DEF XInv, TInv, vars, Shape, FoldState
<1> QED
  BY <1>2, <1>3 DEF XInv

LEMMA StepShape ==
  ASSUME TInv, [Next]_vars
  PROVE  TInv'
<1>1. CASE UNCHANGED vars
  BY <1>1 DEF TInv, vars, Shape, FoldState
<1>2. ASSUME NEW batch \in Batches, FoldAppend(batch)
      PROVE  TInv'
  BY <1>2, FoldAppendShape
<1>3. CASE CutTail
  BY <1>3, CutShape
<1> QED
  BY <1>1, <1>2, <1>3, WriteShape, IntegersShape, AddedShape DEF Next

LEMMA StepExact ==
  ASSUME XInv, LeadTakesAll, [Next]_vars
  PROVE  XInv'
<1>1. TInv'
  BY StepShape DEF XInv
<1>2. ASSUME NEW batch \in Batches, FoldAppend(batch)
      PROVE  Exact(FoldState)'
  BY <1>2, FoldAppendExact
<1>3. CASE Next
  BY <1>1, <1>2, <1>3, WriteExact, IntegersExact, AddedExact, CutExact DEF Next, XInv
<1> QED
  BY <1>3, IdleExact

-----------------------------------------------------------------------------
(* The first state.                                                        *)

(* The rows of bars in order, the last one that of the open period.        *)
RowsRise(I, D, r, L, o) ==
  /\ r \in Seq(RowSet) /\ Rising(r) /\ r # <<>>
  /\ LastOf(r).ts = L /\ LastOf(r).cells = Reduce(I, o)
  /\ AreOpen(o, BarSet, D, L)

LEMMA RowsRising ==
  ASSUME NEW I, NEW D \in Seq(BarSet), Rising(D), D # <<>>, NEW L, L = PeriodStart(LastOf(D).ts),
         NEW o, o = BarsIn(D, L), NEW r, r = RowsOf(I, D)
  PROVE  RowsRise(I, D, r, L, o)
<1> DEFINE d == PeriodsOf(D)
<1>1. Stamped(BarSet) /\ Celled(BarSet) /\ Ordered(D)
  BY BarSets, RisingOrdered
<1>2. d \in Seq(Int) /\ Climbing(d) /\ Elems(d) = PeriodSet(D)
  BY <1>1, PeriodsListed
<1>3. d # <<>> /\ LastOf(d) = L /\ L \in Int
  BY <1>1, LastPeriod
<1>4. r # <<>> /\ Len(r) = Len(d) /\ Len(d) \in Nat
      /\ ((\A i \in 1 .. Len(d) : r[i] \in RowSet) => r \in Seq(RowSet))
  BY <1>1, RowsTyped
<1>5. r = [i \in 1 .. Len(d) |-> CoarseRow(I, D, d[i])]
  BY DEF RowsOf, CoarseRows
<1> HIDE DEF d
<1>6. ASSUME NEW i \in 1 .. Len(d)
      PROVE  /\ r[i] = CoarseRow(I, D, d[i]) /\ r[i].ts = d[i] /\ r[i] \in RowSet
             /\ r[i].cells = Reduce(I, BarsIn(D, d[i]))
  <2> DEFINE p == d[i]  t == BarsIn(D, p)
  <2>1. p \in Int /\ p \in PeriodSet(D)
    BY <1>2 DEF Elems
  <2>2. r[i] = [ts |-> p, cells |-> Reduce(I, t)] /\ r[i] = CoarseRow(I, D, p)
    BY <1>5 DEF CoarseRow
  <2>3. t = BarsIn(D, p)
    OBVIOUS
  <2> HIDE DEF p, t
  <2>4. t # <<>> /\ t \in Seq(BarSet)
    BY <1>1, <2>1, <2>3, BarsInSome, BarsListed
  <2>5. Reduce(I, t) \in Cells
    BY <1>1, <2>4, ReduceTyped
  <2> QED
    BY <2>1, <2>2, <2>3, <2>5 DEF RowSet, p
<1>7. r \in Seq(RowSet)
  BY <1>4, <1>6
<1>8. Rising(r)
  <2>1. \A i, j \in 1 .. Len(d) : i < j => d[i] < d[j]
    BY <1>2 DEF Climbing
  <2> QED
    BY <1>4, <1>6, <2>1 DEF Rising
<1>9. LastOf(r).ts = L /\ LastOf(r).cells = Reduce(I, o)
  <2>1. Len(d) \in 1 .. Len(d) /\ d[Len(d)] = L /\ LastOf(r) = r[Len(d)]
    BY <1>2, <1>3, <1>4 DEF LastOf
  <2> QED
    BY <1>6, <2>1
<1>10. AreOpen(o, BarSet, D, L)
  BY <1>1, OpenBars
<1> QED
  BY <1>4, <1>7, <1>8, <1>9, <1>10 DEF RowsRise

(* The bars a frame is built from.                                         *)
LEMMA HistoryIs ==
  ASSUME NEW bars \in Histories
  PROVE  /\ bars \in Seq(BarSet) /\ Ordered(bars)
         /\ \A i \in 1 .. Len(bars) : Takes(bars[i])
<1>1. PICK b \in {<<>>} \cup Batches : bars = AdmittedBars(b)
  BY DEF Histories
<1>2. Ordered(bars) /\ \A i \in 1 .. Len(bars) : \A c \in ints : FitsType(c, bars[i].cells[c])
  BY DEF Histories
<1>3. CASE b = <<>>
  <2>1. bars = <<>>
    BY <1>1, <1>3 DEF AdmittedBars
  <2> QED
    BY <1>2, <2>1
<1>4. CASE b \in Batches
  <2>1. /\ bars \in Seq(BarSet)
        /\ \A i \in 1 .. Len(bars), c \in Cols : c \notin data => bars[i].cells[c] = Missing
    BY <1>1, <1>4, BatchIs
  <2>2. \A i \in 1 .. Len(bars) : bars[i] \in BarSet
    BY <2>1
  <2> QED
    BY <1>2, <2>1, <2>2 DEF Takes
<1> QED
  BY <1>1, <1>3, <1>4

(* The last bar, however often it came.                                    *)
LEMMA LastStamp ==
  ASSUME NEW X \in Seq(BarSet), Ordered(X), X # <<>>, NEW d, d = DedupKeepLast(X)
  PROVE  /\ d \in Seq(BarSet) /\ Rising(d) /\ d # <<>> /\ Elems(d) \subseteq Elems(X)
         /\ LastOf(d).ts = LastOf(X).ts
<1> DEFINE n == Len(X)
<1>1. n \in 1 .. n /\ X[n] = LastOf(X) /\ X[n] \in Elems(X) /\ n \in Nat
  BY DEF LastOf, Elems
<1>2. d \in Seq(BarSet) /\ Rising(d) /\ Elems(d) = Latest(X)
  BY BarSets, Deduped
<1>3. PICK x \in Elems(d) : x.ts = X[n].ts
  BY <1>1, <1>2, BarSets, LatestOfStamp
<1>4. d # <<>> /\ Elems(d) \subseteq Elems(X)
  <2>1. Elems(d) # {}
    BY <1>3
  <2> QED
    BY <1>2, <2>1, NoneOf, LatestIn
<1>5. PICK l : l = LastOf(d)
  OBVIOUS
<1>6. l \in Elems(d) /\ l \in BarSet /\ x.ts <= l.ts
  BY <1>2, <1>3, <1>4, <1>5, BarSets, LastIsLatest
<1>7. PICK i \in 1 .. n : X[i] = l
  BY <1>4, <1>6 DEF Elems
<1>8. X[i].ts <= X[n].ts
  BY <1>1, BarSets, OrderedPairs
<1>9. l.ts = X[n].ts
  <2>1. l.ts \in Int /\ X[n].ts \in Int
    <3>1. X[n] \in BarSet
      BY <1>1
    <3> HIDE DEF n
    <3> QED
      BY <1>6, <3>1 DEF BarSet
  <2> QED
    BY <1>3, <1>6, <1>7, <1>8, <2>1
<1> QED
  BY <1>1, <1>2, <1>4, <1>5, <1>9

LEMMA SeededHolds ==
  ASSUME NEW bars \in Seq(BarSet), Ordered(bars), \A i \in 1 .. Len(bars) : Takes(bars[i]), Seeded(bars),
         openKey = NoKey, refold = FALSE
  PROVE  Shape(FoldState) /\ Exact(FoldState)
<1>1. /\ rows = bars /\ open = (IF bars = <<>> THEN <<>> ELSE <<LastOf(bars)>>) /\ aggregate = NoAggregate
      /\ \A i \in 1 .. Len(bars) : bars[i].ts = PeriodStart(bars[i].ts)
  BY DEF Seeded
<1>2. Rising(bars)
  BY BarSets, Deduped DEF Seeded
<1>3. bars \in Seq(RowSet) /\ NoAggregate \in Aggs /\ openKey \in Int
  BY BarSets DEF Aggs, NoKey
<1>4. CASE bars = <<>>
  <2>1. open = <<>> /\ rows = <<>> /\ Len(open) = 0 /\ Rising(open)
    BY <1>1, <1>4 DEF Rising
  <2>2. Exactly
    BY <1>1, <2>1 DEF Exactly
  <2>3. Shape(FoldState)
    <3>1. open \in Seq(BarSet) /\ aggregate \in Aggs /\ refold \in BOOLEAN
      BY <1>1, <1>3, <2>1
    <3>2. rows \in Seq(RowSet) /\ Rising(rows)
      BY <1>1, <1>2, <1>3
    <3> QED
      BY <1>3, <2>1, <3>1, <3>2, ShapeIs
  <2> QED
    BY <2>2, <2>3, ExactIs
<1>5. CASE bars # <<>>
  <2> DEFINE l == LastOf(bars)
  <2>1. l = bars[Len(bars)] /\ Len(bars) \in 1 .. Len(bars)
    BY <1>5 DEF LastOf
  <2>2. l \in BarSet /\ Takes(l) /\ PeriodStart(l.ts) = l.ts
    BY <1>1, <2>1
  <2>3. open = <<l>> /\ LastOf(rows) = l /\ rows # <<>>
    BY <1>1, <1>5
  <2> HIDE DEF l
  <2>4. /\ open \in Seq(BarSet) /\ Len(open) = 1 /\ open # <<>>
        /\ \A i \in 1 .. Len(open) : open[i] = l
    BY <2>2, <2>3
  <2>5. Rising(open)
    BY <2>4 DEF Rising
  <2>6. Reduce({}, open) = l.cells
    BY <2>2, <2>3, BarSets, ReduceOne
  <2>7. Exactly
    BY <1>1, <2>2, <2>3, <2>4, <2>6 DEF Exactly
  <2>8. Shape(FoldState)
    BY <1>1, <1>2, <1>3, <2>2, <2>3, <2>4, <2>5, ShapeIs
  <2> QED
    BY <2>7, <2>8, ExactIs
<1> QED
  BY <1>4, <1>5

LEMMA CumulatedHolds ==
  ASSUME NEW bars \in Seq(BarSet), Ordered(bars), \A i \in 1 .. Len(bars) : Takes(bars[i]), Cumulated(bars),
         openKey = NoKey, refold = FALSE
  PROVE  Shape(FoldState) /\ Exact(FoldState)
<1> DEFINE d == DedupKeepLast(bars)  L == PeriodStart(LastOf(bars).ts)  o == BarsIn(d, L)  r == RowsOf(ints, d)
<1>0. Stamped(BarSet) /\ Celled(BarSet)
  BY BarSets
<1>1. bars # <<>> /\ rows = Cumulate(ints, bars) /\ open = DedupKeepLast(BarsIn(bars, L))
      /\ aggregate = NewAggregate(ints, open) /\ \A i \in 1 .. Len(rows) : ~Overflows(rows[i].cells)
  BY DEF Cumulated
<1>2. /\ d \in Seq(BarSet) /\ Rising(d) /\ d # <<>> /\ Elems(d) \subseteq Elems(bars)
      /\ LastOf(d).ts = LastOf(bars).ts
  BY <1>1, LastStamp
<1>3. rows = r
  BY <1>0, <1>1, CumulateLatest DEF RowsOf
<1>4. open = o
  BY <1>0, <1>1, DedupOfPeriod
<1>5. L = PeriodStart(LastOf(d).ts) /\ o = BarsIn(d, L) /\ r = RowsOf(ints, d)
  BY <1>2
<1> HIDE DEF d, L, o, r
<1>6. RowsRise(ints, d, r, L, o)
  BY <1>2, <1>5, RowsRising
<1>7. /\ rows \in Seq(RowSet) /\ Rising(rows) /\ rows # <<>>
      /\ LastOf(rows).ts = L /\ LastOf(rows).cells = Reduce(ints, open)
      /\ open \in Seq(BarSet) /\ Rising(open) /\ open # <<>>
      /\ \A i \in 1 .. Len(open) : PeriodStart(open[i].ts) = L
      /\ Elems(open) \subseteq Elems(d)
  BY <1>3, <1>4, <1>6 DEF RowsRise, AreOpen
<1>8. \A i \in 1 .. Len(open) : Takes(open[i])
  BY <1>2, <1>7 DEF Elems
<1>9. ~Overflows(Reduce(ints, open))
  BY <1>1, <1>7 DEF LastOf
<1>10. Reduce(ints, open) = Reduce({}, open)
  BY <1>7, <1>8, <1>9, ReducedFits
<1>11. aggregate \in Aggs
  BY <1>1, <1>7, NewAggTyped
<1>12. aggregate # NoAggregate => Aggregates(ints, aggregate, open)
  BY <1>0, <1>1, <1>7, NewAggregates
<1>13. Shape(FoldState)
  <2>1. openKey \in Int /\ refold \in BOOLEAN /\ (open = <<>> <=> rows = <<>>)
    <3>1. open # <<>> /\ rows # <<>>
      BY <1>7
    <3>2. openKey \in Int
      BY DEF NoKey
    <3>3. refold \in BOOLEAN
      OBVIOUS
    <3> QED
      BY <3>1, <3>2, <3>3
  <2>2. \A i \in 1 .. Len(open) : PeriodStart(open[i].ts) = LastOf(rows).ts
    BY <1>7
  <2>3. /\ rows \in Seq(RowSet) /\ Rising(rows) /\ open \in Seq(BarSet) /\ Rising(open)
    BY <1>7
  <2> HIDE DEF L
  <2> QED
    BY <1>11, <2>1, <2>2, <2>3, ShapeIs
<1>14. Exactly
  BY <1>7, <1>8, <1>10, <1>12 DEF Exactly
<1> QED
  BY <1>13, <1>14, ExactIs

LEMMA Initially ==
  ASSUME Init
  PROVE  XInv
<1>1. /\ data \subseteq Cols /\ ints \subseteq Cols /\ lead \subseteq FloatCols
      /\ answer \in {"silent", "folded", "refused", "written", "cut"}
  BY DEF Init
<1>2. openKey = NoKey /\ refold = FALSE
  BY DEF Init
<1>3. PICK bars \in Histories : Seeded(bars) \/ Cumulated(bars)
  BY DEF Init
<1>4. bars \in Seq(BarSet) /\ Ordered(bars) /\ \A i \in 1 .. Len(bars) : Takes(bars[i])
  BY HistoryIs
<1>5. Shape(FoldState) /\ Exact(FoldState)
  BY <1>2, <1>3, <1>4, SeededHolds, CumulatedHolds
<1> QED
  BY <1>1, <1>5 DEF XInv, TInv

-----------------------------------------------------------------------------
(* The theorems.                                                           *)

(* The period, the rows and the open bars agree in every state, whatever   *)
(* the lead is (frame_tf.rs TfState, fold_bars, follow).                   *)
THEOREM TimeFrameTypes == Spec => []TypeOK
<1>1. Init => TInv
  BY Initially DEF XInv
<1>2. TInv /\ [Next]_vars => TInv'
  BY StepShape
<1>3. TInv => TypeOK
  BY TypesHold
<1> QED
  BY <1>1, <1>2, <1>3, PTL DEF Spec

(* The forming row and the running aggregate are exact while the lead      *)
(* refuses no integer.                                                     *)
LEMMA ValuesInvariance == Spec /\ []LeadTakesAll => []XInv
<1>1. Init => XInv
  BY Initially
<1>2. XInv /\ LeadTakesAll /\ [Next]_vars => XInv'
  BY StepExact
<1> QED
  BY <1>1, <1>2, PTL DEF Spec

(* The forming row is the cumulation of the open period's bars, through    *)
(* appends, re-sent bars, writes, changes of type and cuts, while the lead *)
(* refuses no integer (frame_tf.rs fold_bar, follow; frame_tf.rs:28).      *)
THEOREM FormingRowExact == Spec /\ []LeadTakesAll => []FormingIsCumulation
<1>1. XInv => FormingIsCumulation
  BY ValuesHold
<1> QED
  BY <1>1, ValuesInvariance, PTL

(* The running aggregate and its checkpoint are what the open bars and     *)
(* those before the last one reduce to (column/fold.rs PeriodAggregate).   *)
THEOREM RunningAggregateExact == Spec /\ []LeadTakesAll => []AggregateExact
<1>1. XInv => AggregateExact
  BY ValuesHold
<1> QED
  BY <1>1, ValuesInvariance, PTL

-----------------------------------------------------------------------------
(* A batch is tried on the forming row alone: two folds that agree on what *)
(* a fold reads - the open period and the forming row - take a bar alike.  *)
Alike(f, p) ==
  /\ p.open = f.open /\ p.agg = f.agg /\ p.refold = f.refold /\ p.ok = f.ok
  /\ f.open # <<>> => Label(p) = Label(f) /\ LastOf(p.rows).cells = LastOf(f.rows).cells

LEMMA LastAppended ==
  ASSUME NEW S, NEW s \in Seq(S), NEW r
  PROVE  LastOf(Append(s, r)) = r
<1> DEFINE V == S \cup {r}  t == Append(s, r)
<1>1. s \in Seq(V) /\ r \in V
  OBVIOUS
<1> HIDE DEF V
<1>2. Len(t) = Len(s) + 1 /\ t[Len(s) + 1] = r
  BY <1>1
<1> QED
  BY <1>2 DEF LastOf

LEMMA FrontTyped ==
  ASSUME NEW S, NEW s \in Seq(S), s # <<>>
  PROVE  Front(s) \in Seq(S)
  BY FrontOf

LEMMA RolledAlike ==
  ASSUME NEW f, NEW p, NEW g, NEW q, NEW b, Shape(f), Shape(p), Alike(f, p),
         Rolled(f, g, b), Rolled(p, q, b)
  PROVE  Alike(g, q)
<1> DEFINE r == [ts |-> PeriodStart(b.ts), cells |-> b.cells]
<1>1. f.rows \in Seq(RowSet) /\ p.rows \in Seq(RowSet)
  BY DEF Shape, FoldSet
<1>2. g.rows = Append(f.rows, r) /\ q.rows = Append(p.rows, r)
  BY DEF Rolled
<1> HIDE DEF r
<1>3. LastOf(g.rows) = r /\ LastOf(q.rows) = r
  BY <1>1, <1>2, LastAppended
<1>4. /\ q.open = g.open /\ q.agg = g.agg /\ q.refold = g.refold /\ q.ok = g.ok
  BY DEF Rolled, Alike
<1> QED
  BY <1>3, <1>4 DEF Alike, Label

LEMMA FormedAlike ==
  ASSUME NEW f, NEW p, NEW g, NEW q, NEW b, NEW cells, NEW agg, Shape(f), Shape(p), f.open # <<>>,
         Alike(f, p), Formed(f, g, b, cells, agg), Formed(p, q, b, cells, agg)
  PROVE  Alike(g, q)
<1> DEFINE r == [ts |-> Label(f), cells |-> cells]
<1>1. /\ f.rows \in Seq(RowSet) /\ p.rows \in Seq(RowSet) /\ f.rows # <<>> /\ p.rows # <<>>
      /\ p.open = f.open /\ Label(p) = Label(f) /\ p.ok = f.ok
  BY DEF Shape, FoldSet, Alike
<1>2. g.rows = Append(Front(f.rows), r) /\ q.rows = Append(Front(p.rows), r)
  BY <1>1 DEF Formed
<1> HIDE DEF r
<1>3. Front(f.rows) \in Seq(RowSet) /\ Front(p.rows) \in Seq(RowSet)
  BY <1>1, FrontTyped
<1>4. LastOf(g.rows) = r /\ LastOf(q.rows) = r
  BY <1>2, <1>3, LastAppended
<1>5. q.open = g.open /\ q.agg = g.agg /\ q.refold = g.refold /\ q.ok = g.ok
  BY <1>1 DEF Formed
<1> QED
  BY <1>4, <1>5 DEF Alike, Label

LEMMA StayedAlike ==
  ASSUME NEW f, NEW p, NEW g, NEW q, NEW agg, Alike(f, p), Stayed(f, g, agg), Stayed(p, q, agg)
  PROVE  Alike(g, q)
  BY DEF Alike, Stayed, Label

LEMMA CasesAlike ==
  ASSUME NEW f, NEW p, NEW g, NEW q, NEW b, Shape(f), Shape(p), Alike(f, p),
         FoldCases({}, f, g, b), FoldCases({}, p, q, b)
  PROVE  Alike(g, q)
<1>1. p.open = f.open /\ p.agg = f.agg /\ p.refold = f.refold
  BY DEF Alike
<1>2. CASE f.open = <<>> \/ Label(f) # PeriodStart(b.ts)
  <2>1. p.open = <<>> \/ Label(p) # PeriodStart(b.ts)
    BY <1>1, <1>2 DEF Alike
  <2>2. Rolled(f, g, b) /\ Rolled(p, q, b)
    BY <1>2, <2>1 DEF FoldCases
  <2> QED
    BY <2>2, RolledAlike
<1>3. CASE ~(f.open = <<>> \/ Label(f) # PeriodStart(b.ts))
  <2> DEFINE resent == LastOf(f.open).ts = b.ts
             cells == Fold(ints, LastOf(f.rows).cells, b)  ok == ~Overflows(cells) /\ LeadTakes({}, cells)
             x == PushedAggregate(ints, Begun(f)[1], b, FALSE)
             agg == IF Begun(f) # NoAggregate /\ x.ok THEN <<x.agg>> ELSE NoAggregate
             y == PushedAggregate(ints, Begun(f)[1], b, resent)
             next == Pushed(f.open, b)  whole == Reduce(ints, next)
  <2>1. f.open # <<>> /\ LastOf(p.rows).cells = LastOf(f.rows).cells /\ Label(p) = Label(f)
    BY <1>3 DEF Alike
  <2>2. Begun(p) = Begun(f)
    BY <1>1 DEF Begun
  <2>3. ASSUME NEW c, NEW a, Formed(f, g, b, c, a), Formed(p, q, b, c, a)
        PROVE  Alike(g, q)
    BY <2>1, <2>3, FormedAlike
  <2>4. ASSUME NEW a, Stayed(f, g, a), Stayed(p, q, a)
        PROVE  Alike(g, q)
    BY <2>4, StayedAlike
  <2>5. ~(p.open = <<>> \/ Label(p) # PeriodStart(b.ts)) /\ (resent <=> LastOf(p.open).ts = b.ts)
    BY <1>1, <1>3, <2>1
  <2>6. CASE ~(resent \/ f.refold)
    <3>1. ByFold({}, f, g, b) /\ ByFold({}, p, q, b)
      BY <1>1, <1>3, <2>5, <2>6 DEF FoldCases
    <3>2. \/ ~ok /\ Stayed(f, g, NoAggregate)
          \/ ok /\ Formed(f, g, b, cells, agg)
      BY <3>1 DEF ByFold
    <3>3. \/ ~ok /\ Stayed(p, q, NoAggregate)
          \/ ok /\ Formed(p, q, b, cells, agg)
      BY <2>1, <2>2, <3>1 DEF ByFold
    <3> HIDE DEF ok, cells, agg
    <3> QED
      BY <2>3, <2>4, <3>2, <3>3
  <2>7. CASE resent \/ f.refold
    <3>1. /\ ByAggregate({}, f, g, b, resent) \/ ByRefold({}, f, g, b)
          /\ ByAggregate({}, p, q, b, resent) \/ ByRefold({}, p, q, b)
      BY <1>1, <1>3, <2>5, <2>7 DEF FoldCases
    <3>2. CASE Begun(f) # NoAggregate
      <4>1. ByAggregate({}, f, g, b, resent) /\ ByAggregate({}, p, q, b, resent)
        BY <2>2, <3>1, <3>2 DEF ByRefold
      <4>2. \/ ~y.ok /\ Stayed(f, g, Begun(f))
            \/ y.ok /\ ~LeadTakes({}, y.agg.current) /\ Stayed(f, g, <<y.agg>>)
            \/ y.ok /\ LeadTakes({}, y.agg.current) /\ Formed(f, g, b, y.agg.current, <<y.agg>>)
        BY <4>1 DEF ByAggregate
      <4>3. \/ ~y.ok /\ Stayed(p, q, Begun(f))
            \/ y.ok /\ ~LeadTakes({}, y.agg.current) /\ Stayed(p, q, <<y.agg>>)
            \/ y.ok /\ LeadTakes({}, y.agg.current) /\ Formed(p, q, b, y.agg.current, <<y.agg>>)
        BY <2>2, <4>1 DEF ByAggregate
      <4> HIDE DEF y
      <4> QED
        BY <2>3, <2>4, <4>2, <4>3
    <3>3. CASE Begun(f) = NoAggregate
      <4> DEFINE over == Overflows(whole) \/ ~LeadTakes({}, whole)  new == NewAggregate(ints, next)
      <4>1. ByRefold({}, f, g, b) /\ ByRefold({}, p, q, b)
        BY <2>2, <3>1, <3>3 DEF ByAggregate
      <4>2. \/ over /\ Stayed(f, g, NoAggregate)
            \/ ~over /\ Formed(f, g, b, whole, new)
        BY <4>1 DEF ByRefold
      <4>3. \/ over /\ Stayed(p, q, NoAggregate)
            \/ ~over /\ Formed(p, q, b, whole, new)
        BY <1>1, <4>1 DEF ByRefold
      <4> HIDE DEF over, new, whole
      <4> QED
        BY <2>3, <2>4, <4>2, <4>3
    <3> QED
      BY <3>2, <3>3
  <2> QED
    BY <2>6, <2>7
<1> QED
  BY <1>2, <1>3

(* Nor does a batch tell them apart.                                       *)
LEMMA BatchesAlike ==
  ASSUME NEW K, NEW P, NEW bars, Len(bars) \in Nat, Alike(K[0], P[0]),
         \A i \in 0 .. Len(bars) : Shape(K[i]) /\ Shape(P[i]),
         \A i \in 1 .. Len(bars) :
           /\ \/ ~K[i - 1].ok /\ K[i] = K[i - 1]
              \/ K[i - 1].ok /\ FoldCases({}, K[i - 1], K[i], bars[i])
           /\ \/ ~P[i - 1].ok /\ P[i] = P[i - 1]
              \/ P[i - 1].ok /\ FoldCases({}, P[i - 1], P[i], bars[i])
  PROVE  \A i \in 0 .. Len(bars) : Alike(K[i], P[i])
<1> DEFINE n == Len(bars)  T == {i \in 0 .. n : Alike(K[i], P[i])}
<1>1. 0 \in T
  OBVIOUS
<1>2. ASSUME NEW j \in 0 .. n - 1, j \in T
      PROVE  j + 1 \in T
  <2> DEFINE i == j + 1
  <2>1. i \in 1 .. n /\ i \in 0 .. n /\ i - 1 = j
    OBVIOUS
  <2>2. Alike(K[i - 1], P[i - 1])
    BY <1>2, <2>1
  <2>3. Shape(K[i - 1]) /\ Shape(P[i - 1])
    BY <2>1
  <2>4. /\ \/ ~K[i - 1].ok /\ K[i] = K[i - 1]
           \/ K[i - 1].ok /\ FoldCases({}, K[i - 1], K[i], bars[i])
        /\ \/ ~P[i - 1].ok /\ P[i] = P[i - 1]
           \/ P[i - 1].ok /\ FoldCases({}, P[i - 1], P[i], bars[i])
    BY <2>1
  <2>5. P[i - 1].ok = K[i - 1].ok
    BY <2>2 DEF Alike
  <2> HIDE DEF i
  <2>6. Alike(K[i], P[i])
    BY <2>2, <2>3, <2>4, <2>5, CasesAlike
  <2> QED
    BY <2>1, <2>6 DEF i
<1>3. \A j \in 0 .. n - 1 : j \in T => j + 1 \in T
  BY <1>2
<1> HIDE DEF T
<1>4. \A i \in 0 .. n : i \in T
  BY <1>1, <1>3, Inductive
<1> QED
  BY <1>4 DEF T

(* The probe: the forming row alone.                                       *)
ProbeState == [FoldState EXCEPT !.rows = IF @ = <<>> THEN @ ELSE <<LastOf(@)>>]

LEMMA ProbeShape ==
  ASSUME TInv
  PROVE  Shape(ProbeState) /\ Alike(FoldState, ProbeState) /\ ProbeState.open = open /\ ProbeState.ok
<1> DEFINE p == ProbeState
<1>1. p.open = open /\ p.agg = aggregate /\ p.refold = refold /\ p.ok = TRUE /\ p.key = openKey
      /\ p.rows = IF rows = <<>> THEN rows ELSE <<LastOf(rows)>>
  BY DEF ProbeState, FoldState
<1>2. /\ rows \in Seq(RowSet) /\ open \in Seq(BarSet) /\ openKey \in Int
      /\ aggregate \in Aggs /\ refold \in BOOLEAN
      /\ Rising(rows) /\ Rising(open) /\ (open = <<>> <=> rows = <<>>)
      /\ \A i \in 1 .. Len(open) : PeriodStart(open[i].ts) = LastOf(rows).ts
      /\ openKey # NoKey => rows # <<>> /\ openKey = LastOf(rows).ts
  BY ShapeIs DEF TInv
<1>3. p.rows \in Seq(RowSet) /\ Rising(p.rows) /\ (p.rows = <<>> <=> rows = <<>>)
      /\ (rows # <<>> => LastOf(p.rows) = LastOf(rows))
  <2>1. CASE rows = <<>>
    BY <1>1, <1>2, <2>1
  <2>2. CASE rows # <<>>
    <3> DEFINE l == LastOf(rows)
    <3>1. l \in RowSet /\ p.rows = <<l>>
      BY <1>1, <1>2, <2>2 DEF LastOf
    <3> HIDE DEF l, p
    <3>2. p.rows \in Seq(RowSet) /\ Len(p.rows) = 1 /\ p.rows # <<>> /\ LastOf(p.rows) = l
      BY <3>1 DEF LastOf
    <3>3. Rising(p.rows)
      BY <3>2 DEF Rising
    <3> QED
      BY <2>2, <3>2, <3>3 DEF l
  <2> HIDE DEF p
  <2> QED
    BY <2>1, <2>2
<1>4. p \in FoldSet
  <2> DEFINE r == IF rows = <<>> THEN rows ELSE <<LastOf(rows)>>
  <2>1. FoldState \in FoldSet
    BY <1>2, StateIs
  <2>2. p = [FoldState EXCEPT !.rows = r]
    BY StateIs DEF ProbeState
  <2>3. r \in Seq(RowSet)
    BY <1>1, <1>3
  <2>4. \A s \in Seq(RowSet) : [FoldState EXCEPT !.rows = s] \in FoldSet
    BY <2>1 DEF FoldSet
  <2> HIDE DEF r, p
  <2> QED
    BY <2>2, <2>3, <2>4
<1> HIDE DEF p
<1>5. Shape(p)
  BY <1>1, <1>2, <1>3, <1>4 DEF Shape
<1>6. Alike(FoldState, p)
  BY <1>1, <1>2, <1>3, StateIs DEF Alike, Label
<1> QED
  BY <1>1, <1>5, <1>6 DEF p

(* A batch that passed the probe folds whole.                              *)
LEMMA ProbedFolds ==
  ASSUME XInv, LeadTakesAll, NEW bars, bars \in Seq(BarSet), bars # <<>>, InOrder(bars),
         \A i \in 1 .. Len(bars) : Takes(bars[i]), FoldBars({}, ProbeState, bars).ok
  PROVE  FoldBars(lead, FoldState, bars).ok
<1> DEFINE n == Len(bars)  s == FoldState  p == ProbeState
<1>1. n \in Nat /\ n \in 0 .. n /\ TInv /\ Shape(s) /\ Exact(s) /\ TakesAll(lead) /\ s.ok
  BY StateIs DEF XInv, TInv, LeadTakesAll, TakesAll
<1>2. Shape(p) /\ Alike(s, p) /\ p.open = s.open
  BY <1>1, ProbeShape, StateIs
<1>3. Coming(s, bars)
  BY <1>1, InOrderComes
<1>4. Coming(p, bars)
  BY <1>2, <1>3 DEF Coming
<1>5. FoldBars({}, p, bars).ok
  OBVIOUS
<1> HIDE DEF s, p, n
<1>6. PICK K : Folding(K, lead, s, bars) /\ FoldBars(lead, s, bars) = K[n]
  BY <1>1, FoldingExists DEF n
<1>7. PICK P : Folding(P, {}, p, bars) /\ FoldBars({}, p, bars) = P[n]
  BY <1>1, FoldingExists DEF n
<1>8. \A i \in 0 .. n : Reached(K, bars, i) /\ Reached(P, bars, i)
  BY <1>1, <1>2, <1>3, <1>4, <1>6, <1>7, BatchReached DEF n
<1>9. \A i \in 0 .. n : Shape(K[i]) /\ Shape(P[i])
  BY <1>8 DEF Reached
<1>10. \A i \in 1 .. n : \/ ~K[i - 1].ok /\ K[i] = K[i - 1]
                         \/ Ready(K[i - 1], bars[i]) /\ FoldCases({}, K[i - 1], K[i], bars[i])
  BY <1>1, <1>3, <1>6, BatchExact DEF n
<1>11. \A i \in 1 .. n : \/ ~P[i - 1].ok /\ P[i] = P[i - 1]
                         \/ Ready(P[i - 1], bars[i]) /\ FoldCases({}, P[i - 1], P[i], bars[i])
  <2> SUFFICES ASSUME NEW i \in 1 .. n
               PROVE  \/ ~P[i - 1].ok /\ P[i] = P[i - 1]
                      \/ Ready(P[i - 1], bars[i]) /\ FoldCases({}, P[i - 1], P[i], bars[i])
    OBVIOUS
  <2>1. Reached(P, bars, i - 1)
    <3>1. i - 1 \in 0 .. n
      BY <1>1
    <3> QED
      BY <1>8, <3>1
  <2> QED
    BY <1>4, <1>7, <2>1, TakingCases DEF n
<1>12. Alike(K[0], P[0])
  BY <1>2, <1>6, <1>7 DEF Folding
<1>13. \A i \in 0 .. n : Alike(K[i], P[i])
  BY <1>1, <1>9, <1>10, <1>11, <1>12, BatchesAlike DEF n, Ready
<1>14. P[n].ok = K[n].ok
  BY <1>1, <1>13 DEF Alike
<1> QED
  BY <1>5, <1>6, <1>7, <1>14 DEF s, p

(* One bar that is refused is not taken.                                   *)
LEMMA OneRefused ==
  ASSUME TInv, NEW bars, bars \in Seq(BarSet), Len(bars) = 1, InOrder(bars),
         NEW held, NEW f, f = FoldBars(held, FoldState, bars), ~f.ok
  PROVE  f.rows = rows /\ f.open = open
<1> DEFINE s == FoldState  b == bars[1]
<1>1. Shape(s) /\ s.ok /\ s.rows = rows /\ s.open = open /\ bars # <<>> /\ b \in BarSet
  <2>1. Shape(s) /\ s.ok /\ s.rows = rows /\ s.open = open
    BY StateIs DEF TInv
  <2>2. bars # <<>> /\ b \in BarSet
    BY Single
  <2> QED
    BY <2>1, <2>2
<1>2. Coming(s, bars)
  BY <1>1, InOrderComes
<1>3. PICK K : Folding(K, held, s, bars) /\ f = K[Len(bars)]
  <2>1. Len(bars) \in Nat
    OBVIOUS
  <2> QED
    BY <2>1, FoldingExists
<1>4. K[0] = s /\ f = K[1] /\ Reached(K, bars, 0)
  BY <1>1, <1>3 DEF Folding, Reached
<1> HIDE DEF s
<1>5. \/ ~K[0].ok /\ K[1] = K[0]
      \/ Ready(K[0], bars[1]) /\ FoldCases(held, K[0], K[1], bars[1])
  <2>1. 1 \in 1 .. Len(bars) /\ 1 - 1 = 0
    OBVIOUS
  <2>2. Reached(K, bars, 1 - 1)
    BY <1>4, <2>1
  <2>3. \/ ~K[1 - 1].ok /\ K[1] = K[1 - 1]
        \/ Ready(K[1 - 1], bars[1]) /\ FoldCases(held, K[1 - 1], K[1], bars[1])
    BY <1>2, <1>3, <2>1, <2>2, TakingCases
  <2> QED
    BY <2>1, <2>3
<1>6. Ready(s, b) /\ FoldCases(held, s, f, b)
  BY <1>1, <1>4, <1>5
<1> HIDE DEF b
<1>7. FoldsOn(s, f, b)
  BY <1>6, FoldBarShape DEF Ready
<1> QED
  BY <1>1, <1>7 DEF FoldsOn

LEMMA NothingTaken ==
  ASSUME XInv, LeadTakesAll, NEW batch \in Batches, FoldAppend(batch), answer' = "refused"
  PROVE  rows' = rows /\ open' = open
<1> DEFINE bars == AdmittedBars(batch)  f == FoldBars(lead, FoldState, bars)
<1>1. CASE Refused
  BY <1>1 DEF Refused
<1>2. CASE ~Refused
  <2>1. /\ ~\E i \in 1 .. Len(bars), c \in Cols : ~Fits(c, bars[i].cells[c])
        /\ InOrder(bars) /\ Probe(bars) /\ rows' = f.rows /\ open' = f.open
        /\ answer' = IF f.ok THEN "folded" ELSE "refused"
    BY <1>2 DEF FoldAppend
  <2>2. ~f.ok
    BY <2>1
  <2>3. bars \in Seq(BarSet) /\ Len(bars) \in Nat /\ Len(bars) >= 1 /\ bars # <<>>
    BY BatchIs
  <2>4. \A i \in 1 .. Len(bars) : Takes(bars[i])
    BY <2>1, CheckedTake DEF XInv
  <2>5. Len(bars) > 1 => FoldBars({}, ProbeState, bars).ok
    BY <2>1 DEF Probe, ProbeState
  <2>6. f = FoldBars(lead, FoldState, bars)
    OBVIOUS
  <2> HIDE DEF bars, f
  <2>7. CASE Len(bars) > 1
    <3>1. f.ok
      BY <2>1, <2>3, <2>4, <2>5, <2>6, <2>7, ProbedFolds
    <3> QED
      BY <2>2, <3>1
  <2>8. CASE Len(bars) = 1
    <3>1. f.rows = rows /\ f.open = open
      BY <2>1, <2>2, <2>3, <2>6, <2>8, OneRefused DEF XInv
    <3> QED
      BY <2>1, <3>1
  <2>9. Len(bars) > 1 \/ Len(bars) = 1
    <3> DEFINE n == Len(bars)
    <3>1. n \in Nat /\ n >= 1
      BY <2>3
    <3> HIDE DEF n
    <3>2. n > 1 \/ n = 1
      BY <3>1
    <3> QED
      BY <3>2 DEF n
  <2> QED
    BY <2>7, <2>8, <2>9
<1> QED
  BY <1>1, <1>2

(* A refused append leaves the rows and the open period as they were,      *)
(* while the lead refuses no integer (frame_access.rs:376, fold_append).   *)
THEOREM AppendsAllOrNothing == Spec /\ []LeadTakesAll => AllOrNothing
<1> DEFINE A == answer' = "refused" => rows' = rows /\ open' = open
<1>1. ASSUME XInv, LeadTakesAll, [Next]_vars
      PROVE  [A]_vars
  <2> SUFFICES ASSUME answer' = "refused", Next
               PROVE  rows' = rows /\ open' = open
    BY <1>1
  <2>1. ASSUME NEW batch \in Batches, FoldAppend(batch)
        PROVE  rows' = rows /\ open' = open
    BY <1>1, <2>1, NothingTaken
  <2>2. CASE WriteCell
    BY <2>2 DEF WriteCell, WriteClosed, WriteForming, Refused
  <2>3. CASE ToIntegers
    BY <2>3 DEF ToIntegers
  <2>4. CASE AddColumn
    BY <2>4 DEF AddColumn
  <2>5. CASE CutTail
    BY <2>5 DEF CutTail
  <2> QED
    BY <2>1, <2>2, <2>3, <2>4, <2>5 DEF Next
<1>2. XInv /\ LeadTakesAll /\ [Next]_vars => [A]_vars
  BY <1>1
<1> QED
  BY <1>2, ValuesInvariance, PTL DEF Spec, AllOrNothing

(* The lead of a frame that is never cut is empty, and takes all.          *)
LEMMA UncutLead ==
  ASSUME ~Cuts
  PROVE  Spec => []LeadTakesAll
<1> DEFINE I == lead = {}
<1>1. Init => I
  BY DEF Init
<1>2. I /\ [Next]_vars => I'
  BY DEF Next, FoldAppend, Refused, WriteCell, WriteClosed, WriteForming, ToIntegers, AddColumn, CutTail, vars
<1>3. I => LeadTakesAll
  BY DEF LeadTakesAll
<1> HIDE DEF I
<1> QED
  BY <1>1, <1>2, <1>3, PTL DEF Spec

-----------------------------------------------------------------------------
(* Folding one by one and cumulating at once.                              *)

(* The latest bars, one more bar appended.                                 *)
LEMMA LatestAppend ==
  ASSUME NEW Y \in Seq(BarSet), NEW b \in BarSet, NEW Z, Z = Append(Y, b)
  PROVE  Z \in Seq(BarSet) /\ Latest(Z) = {y \in Latest(Y) : y.ts # b.ts} \cup {b}
<1> DEFINE m == Len(Y)
<1>1. /\ m \in Nat /\ Z \in Seq(BarSet) /\ Len(Z) = m + 1 /\ Z[m + 1] = b
      /\ \A i \in 1 .. m : Z[i] = Y[i]
  OBVIOUS
<1> HIDE DEF m
<1>2. ASSUME NEW i \in 1 .. m
      PROVE  (\A j \in i + 1 .. Len(Z) : Z[i].ts # Z[j].ts)
               <=> (\A j \in i + 1 .. m : Y[i].ts # Y[j].ts) /\ Y[i].ts # b.ts
  <2>1. \A j \in i + 1 .. Len(Z) : j \in i + 1 .. m \/ j = m + 1
    BY <1>1
  <2>2. \A j \in i + 1 .. m : j \in i + 1 .. Len(Z) /\ Z[j] = Y[j]
    BY <1>1
  <2>3. m + 1 \in i + 1 .. Len(Z) /\ Z[i] = Y[i]
    BY <1>1
  <2> QED
    BY <1>1, <2>1, <2>2, <2>3
<1>3. ASSUME NEW x \in Latest(Z)
      PROVE  x \in {y \in Latest(Y) : y.ts # b.ts} \cup {b}
  <2>1. PICK i \in 1 .. Len(Z) : x = Z[i] /\ \A j \in i + 1 .. Len(Z) : Z[i].ts # Z[j].ts
    BY DEF Latest
  <2>2. CASE i = m + 1
    BY <1>1, <2>1, <2>2
  <2>3. CASE i # m + 1
    <3>1. i \in 1 .. m
      BY <1>1, <2>3
    <3>2. x = Y[i] /\ (\A j \in i + 1 .. m : Y[i].ts # Y[j].ts) /\ x.ts # b.ts
      BY <1>1, <1>2, <2>1, <3>1
    <3>3. x \in Latest(Y)
      BY <3>1, <3>2 DEF Latest, m
    <3> QED
      BY <3>2, <3>3
  <2> QED
    BY <2>2, <2>3
<1>4. ASSUME NEW x \in Latest(Y), x.ts # b.ts
      PROVE  x \in Latest(Z)
  <2>1. PICK i \in 1 .. m : x = Y[i] /\ \A j \in i + 1 .. m : Y[i].ts # Y[j].ts
    BY DEF Latest, m
  <2>2. i \in 1 .. Len(Z) /\ x = Z[i] /\ \A j \in i + 1 .. Len(Z) : Z[i].ts # Z[j].ts
    BY <1>1, <1>2, <1>4, <2>1
  <2> QED
    BY <2>2 DEF Latest
<1>5. b \in Latest(Z)
  <2>1. m + 1 \in 1 .. Len(Z) /\ \A j \in (m + 1) + 1 .. Len(Z) : Z[m + 1].ts # Z[j].ts
    BY <1>1
  <2> QED
    BY <1>1, <2>1 DEF Latest
<1> QED
  BY <1>1, <1>3, <1>4, <1>5

(* Appending, seen through the rule that the last of a stamp counts.       *)
LEMMA DedupAppend ==
  ASSUME NEW Y \in Seq(BarSet), Ordered(Y), Y # <<>>, NEW b \in BarSet, LastOf(Y).ts <= b.ts,
         NEW Z, Z = Append(Y, b), NEW F, F = DedupKeepLast(Y)
  PROVE  /\ Z \in Seq(BarSet) /\ Ordered(Z) /\ Z # <<>> /\ LastOf(Z) = b
         /\ F \in Seq(BarSet) /\ Rising(F) /\ F # <<>> /\ LastOf(F).ts <= b.ts
         /\ DedupKeepLast(Z) = Pushed(F, b)
<1> DEFINE B == <<b>>  D == DedupKeepLast(F \o B)  G == DedupKeepLast(Z)
<1>1. F \in Seq(BarSet) /\ Rising(F) /\ F # <<>> /\ LastOf(F).ts = LastOf(Y).ts
  BY LastStamp
<1>2. Elems(F) = Latest(Y)
  BY BarSets, Deduped
<1>3. Z \in Seq(BarSet) /\ Z # <<>> /\ LastOf(Z) = b /\ Z = Y \o B
  BY LastAppended
<1>4. Ordered(Z)
  <2>1. B \in Seq(BarSet) /\ Ordered(B) /\ B[1] = b
    BY DEF Ordered
  <2> HIDE DEF B
  <2> QED
    BY <1>3, <2>1, BarSets, OrderedJoin
<1>5. Latest(Z) = {y \in Latest(Y) : y.ts # b.ts} \cup {b}
  BY LatestAppend
<1>6. G \in Seq(BarSet) /\ Rising(G) /\ Elems(G) = Latest(Z)
  BY <1>3, <1>4, BarSets, Deduped
<1>7. b.ts >= LastOf(F).ts /\ LastOf(F).ts <= b.ts
  BY <1>1, BarSets DEF LastOf, BarSet
<1>8. /\ D = Pushed(F, b) /\ D \in Seq(BarSet) /\ Rising(D)
      /\ Elems(D) = {x \in Elems(F) : x.ts # b.ts} \cup {b}
  BY <1>1, <1>7, BarSets, PushedMerges
<1> HIDE DEF D, G
<1>9. G = D
  BY <1>2, <1>5, <1>6, <1>8, BarSets, RisingUnique
<1> QED
  BY <1>1, <1>3, <1>4, <1>7, <1>8, <1>9 DEF G

(* A sequence grows by its next element.                                   *)
LEMMA PrefixGrows ==
  ASSUME NEW S, NEW Z \in Seq(S), NEW k \in 0 .. Len(Z) - 1, NEW u, u = SubSeq(Z, 1, k)
  PROVE  u \in Seq(S) /\ SubSeq(Z, 1, k + 1) = Append(u, Z[k + 1])
<1> DEFINE v == SubSeq(Z, 1, k + 1)  w == Append(u, Z[k + 1])
<1>1. k \in Nat /\ k + 1 \in 1 .. Len(Z) /\ Z[k + 1] \in S
  OBVIOUS
<1>2. u \in Seq(S) /\ Len(u) = k /\ \A i \in 1 .. k : u[i] = Z[i]
  BY <1>1
<1>3. v \in Seq(S) /\ Len(v) = k + 1 /\ \A i \in 1 .. k + 1 : v[i] = Z[i]
  BY <1>1
<1>4. w \in Seq(S) /\ Len(w) = k + 1 /\ w[k + 1] = Z[k + 1] /\ \A i \in 1 .. k : w[i] = u[i]
  BY <1>1, <1>2
<1>5. \A i \in 1 .. k + 1 : i \in 1 .. k \/ i = k + 1
  BY <1>1
<1> HIDE DEF v, w
<1>6. \A i \in 1 .. k + 1 : v[i] = w[i]
  BY <1>2, <1>3, <1>4, <1>5
<1>7. v = w
  BY <1>3, <1>4, <1>6
<1> QED
  BY <1>2, <1>7 DEF v, w

(* The coarse rows of bars F with one more, b, in: the last row changes,   *)
(* or a row is added.                                                      *)
More(F, b, G, L, o) ==
  /\ G \in Seq(BarSet) /\ Rising(G) /\ G # <<>> /\ LastOf(G) = b
  /\ PeriodStart(b.ts) = L =>
       /\ RowsOf({}, G) = Append(Front(RowsOf({}, F)), [ts |-> L, cells |-> Reduce({}, Pushed(o, b))])
       /\ BarsIn(G, L) = Pushed(o, b)
  /\ PeriodStart(b.ts) # L =>
       /\ RowsOf({}, G) = Append(RowsOf({}, F), [ts |-> PeriodStart(b.ts), cells |-> b.cells])
       /\ BarsIn(G, PeriodStart(b.ts)) = <<b>>

LEMMA RowOfPeriod ==
  ASSUME NEW I, NEW bars, NEW p, NEW t, t = BarsIn(bars, p)
  PROVE  CoarseRow(I, bars, p) = [ts |-> p, cells |-> Reduce(I, t)]
  BY DEF CoarseRow

LEMMA AppendOneTo ==
  ASSUME NEW S, NEW s \in Seq(S), NEW x, NEW u, u = <<x>>
  PROVE  s \o u = Append(s, x)
<1> DEFINE V == S \cup {x}
<1>1. s \in Seq(V) /\ x \in V
  OBVIOUS
<1> HIDE DEF V
<1> QED
  BY <1>1

LEMMA AppendTwoTo ==
  ASSUME NEW S, NEW s \in Seq(S), NEW x, NEW y, NEW u, u = <<x, y>>
  PROVE  s \o u = Append(Append(s, x), y)
<1> DEFINE V == S \cup {x, y}
<1>1. s \in Seq(V) /\ x \in V /\ y \in V
  OBVIOUS
<1> HIDE DEF V
<1>2. <<x, y>> \in Seq(V) /\ Len(<<x, y>>) = 2
  BY <1>1
<1> QED
  BY <1>1, <1>2

LEMMA PairFront ==
  ASSUME NEW x, NEW y, NEW u, u = <<x, y>>
  PROVE  Front(u) = <<x>>
<1>1. Front(Append(<<x>>, y)) = <<x>>
  <2> DEFINE V == {x, y}  s == <<x>>  t == Append(s, y)
  <2>1. s \in Seq(V) /\ y \in V /\ Len(s) = 1
    OBVIOUS
  <2> HIDE DEF V, s
  <2>2. t \in Seq(V) /\ Len(t) = Len(s) + 1 /\ \A i \in 1 .. Len(s) : t[i] = s[i]
    <3>1. s \in Seq(V) /\ y \in V
      BY <2>1
    <3>2. t \in Seq(V)
      BY <3>1
    <3>3. Len(t) = Len(s) + 1
      BY <3>1
    <3>4. \A i \in 1 .. Len(s) : t[i] = s[i]
      BY <3>1
    <3> QED
      BY <3>2, <3>3, <3>4
  <2>3. t # <<>>
    BY <2>1, <2>2
  <2> HIDE DEF t
  <2>4. Front(t) \in Seq(V) /\ Len(Front(t)) = Len(t) - 1 /\ \A i \in 1 .. Len(t) - 1 : Front(t)[i] = t[i]
    BY <2>2, <2>3, FrontOf
  <2>5. Len(Front(t)) = Len(s) /\ \A i \in 1 .. Len(s) : Front(t)[i] = s[i]
    BY <2>1, <2>2, <2>4
  <2> HIDE DEF t
  <2>6. Front(t) = s
    BY <2>1, <2>4, <2>5
  <2> QED
    BY <2>6 DEF t, s
<1>2. u = Append(<<x>>, y)
  OBVIOUS
<1> QED
  BY <1>1, <1>2

LEMMA FrontAndLast ==
  ASSUME NEW S, NEW s \in Seq(S), s # <<>>
  PROVE  Front(s) \in Seq(S) /\ s = Append(Front(s), LastOf(s))
<1> DEFINE f == Front(s)  n == Len(s)  t == Append(f, s[n])
<1>1. n \in Nat /\ n >= 1 /\ n \in 1 .. n /\ s[n] \in S
  OBVIOUS
<1>2. f \in Seq(S) /\ Len(f) = n - 1 /\ \A i \in 1 .. n - 1 : f[i] = s[i]
  BY FrontOf
<1> HIDE DEF f
<1>3. t \in Seq(S) /\ Len(t) = n /\ t[n] = s[n] /\ \A i \in 1 .. n - 1 : t[i] = f[i]
  BY <1>1, <1>2
<1>4. \A i \in 1 .. n : i \in 1 .. n - 1 \/ i = n
  BY <1>1
<1> HIDE DEF t
<1>5. \A i \in 1 .. n : t[i] = s[i]
  BY <1>2, <1>3, <1>4
<1>6. t = s
  BY <1>3, <1>5
<1> QED
  BY <1>2, <1>6 DEF t, f, LastOf

LEMMA MoreRows ==
  ASSUME NEW F \in Seq(BarSet), Rising(F), F # <<>>, NEW b \in BarSet, LastOf(F).ts <= b.ts,
         NEW L, L = PeriodStart(LastOf(F).ts), NEW o, o = BarsIn(F, L), NEW G, G = Pushed(F, b)
  PROVE  More(F, b, G, L, o)
<1> DEFINE B == <<b>>  D == DedupKeepLast(o \o B)  r == RowsOf({}, F)  x == LastOf(r)
           P == PeriodStart(b.ts)
<1>0. Stamped(BarSet) /\ Celled(BarSet) /\ b.ts >= LastOf(F).ts /\ b.ts \in Int /\ LastOf(F).ts \in Int
  <2>1. LastOf(F) \in BarSet
    BY DEF LastOf
  <2>2. LastOf(F).ts \in Int /\ b.ts \in Int
    BY <2>1, BarSets DEF Stamped
  <2> QED
    BY <2>2, BarSets
<1>1. AreOpen(o, BarSet, F, L)
  BY <1>0, OpenBars
<1>2. /\ o \in Seq(BarSet) /\ Rising(o) /\ o # <<>> /\ LastOf(o) = LastOf(F) /\ L \in Int
      /\ Elems(o) = {y \in Elems(F) : PeriodStart(y.ts) = L}
  BY <1>1 DEF AreOpen
<1>3. G = DedupKeepLast(F \o B)
  BY <1>0, PushedMerges
<1>4. /\ Ordered(o \o B) /\ D = Pushed(o, b) /\ D \in Seq(BarSet) /\ Rising(D)
      /\ Elems(D) = {y \in Elems(o) : y.ts # b.ts} \cup {b}
  BY <1>0, <1>2, PushedMerges
<1>5. B \in Seq(BarSet)
  OBVIOUS
<1>6. D = DedupKeepLast(o \o B)
  OBVIOUS
<1> HIDE DEF B, D
<1>7. /\ G \in Seq(BarSet) /\ Rising(G) /\ D # <<>> /\ Merges(F, D, G, L)
  BY <1>0, <1>2, <1>3, <1>4, <1>5, <1>6, Merging
<1>8. RowsMerge({}, F, D, G, PeriodsOf(F), PeriodsOf(D))
  BY <1>0, <1>4, <1>7, MergedRows
<1>9. /\ RowsOf({}, G) = Front(r) \o RowsOf({}, D) /\ LastOf(G) = LastOf(D) /\ G # <<>>
      /\ \A p \in PeriodSet(D) : BarsIn(G, p) = BarsIn(D, p)
  BY <1>8 DEF RowsMerge, RowsOf
<1>10. RowsRise({}, F, r, L, o)
  BY RowsRising
<1>11. r \in Seq(RowSet) /\ r # <<>> /\ x.ts = L /\ x.cells = Reduce({}, o) /\ x \in RowSet
  BY <1>10 DEF RowsRise, LastOf
<1> HIDE DEF r, x
<1>12. Front(r) \in Seq(RowSet) /\ r = Append(Front(r), x)
  BY <1>11, FrontAndLast DEF x
<1>13. x = [ts |-> L, cells |-> Reduce({}, o)]
  BY <1>11 DEF RowSet
<1>14. LastOf(D) = b
  <2>1. D = Append(o, b) \/ D = Append(Front(o), b)
    BY <1>4 DEF Pushed
  <2>2. Front(o) \in Seq(BarSet)
    BY <1>2, FrontTyped
  <2> QED
    BY <1>2, <2>1, <2>2, LastAppended
<1>15. b \in Elems(D) /\ P \in PeriodSet(D) /\ L \in Int /\ P \in Int /\ L <= P
  <2>1. b \in Elems(D)
    BY <1>4
  <2>2. L <= P /\ P \in Int
    BY <1>0, PeriodMonotone, PeriodOf
  <2> QED
    BY <1>2, <2>1, <2>2 DEF PeriodSet
<1>16. CASE P = L
  <2>1. \A y \in Elems(D) : PeriodStart(y.ts) = L
    BY <1>2, <1>4, <1>16
  <2>2. PeriodsOf(D) = <<L>> /\ BarsIn(D, L) = D
    BY <1>0, <1>4, <1>7, <1>15, <2>1, OnePeriod
  <2>3. RowsOf({}, D) = <<CoarseRow({}, D, L)>>
    BY <2>2 DEF RowsOf, CoarseRows
  <2>4. CoarseRow({}, D, L) = [ts |-> L, cells |-> Reduce({}, D)]
    BY <2>2, RowOfPeriod
  <2>5. RowsOf({}, G) = Append(Front(r), [ts |-> L, cells |-> Reduce({}, D)])
    <3> DEFINE f == Front(r)  z == CoarseRow({}, D, L)  s == RowsOf({}, D)
    <3>1. f \in Seq(RowSet) /\ s = <<z>> /\ RowsOf({}, G) = f \o s
      BY <1>9, <1>12, <2>3
    <3> HIDE DEF f, z, s
    <3>2. f \o s = Append(f, z)
      BY <3>1, AppendOneTo
    <3> QED
      BY <2>4, <3>1, <3>2 DEF f, z
  <2>6. BarsIn(G, L) = D
    BY <1>9, <1>15, <1>16, <2>2
  <2> QED
    BY <1>4, <1>7, <1>9, <1>14, <1>16, <2>5, <2>6 DEF More, r
<1>17. CASE P # L
  <2>1. L < P
    BY <1>15, <1>17
  <2>2. \A y \in Elems(o) : PeriodStart(y.ts) = L
    BY <1>2
  <2>3. Elems(D) = Elems(o) \cup {b}
    BY <1>4, <1>17, <2>2
  <2>4. Closes({}, D, o, L, b, P)
    BY <1>0, <1>2, <1>4, <1>15, <2>1, <2>2, <2>3, TwoPeriods
  <2>5. /\ PeriodsOf(D) = <<L, P>> /\ BarsIn(D, P) = <<b>>
        /\ Front(RowsOf({}, D)) = <<CoarseRow({}, o, L)>>
    BY <2>4 DEF Closes, ClosingOf
  <2> DEFINE u == CoarseRow({}, D, L)  v == CoarseRow({}, D, P)
  <2>6. RowsOf({}, D) = <<u, v>>
    BY <2>5 DEF RowsOf, CoarseRows
  <2>7. Reduce({}, <<b>>) = b.cells
    BY <1>0, ReduceOne
  <2>8. v = [ts |-> P, cells |-> b.cells]
    BY <2>5, <2>7, RowOfPeriod
  <2>9. BarsIn(o, L) = o
    BY <1>0, <1>2, <2>2, AllBarsIn
  <2>10. CoarseRow({}, o, L) = x
    BY <1>13, <2>9, RowOfPeriod
  <2> HIDE DEF u, v
  <2>11. u = x
    <3>1. Front(<<u, v>>) = <<u>>
      BY PairFront
    <3>2. <<u>> = <<x>>
      BY <2>5, <2>6, <2>10, <3>1
    <3> QED
      BY <3>2
  <2>12. RowsOf({}, G) = Append(r, v)
    <3> DEFINE f == Front(r)  s == RowsOf({}, D)
    <3>1. f \in Seq(RowSet) /\ s = <<x, v>> /\ RowsOf({}, G) = f \o s /\ r = Append(f, x)
      BY <1>9, <1>12, <2>6, <2>11
    <3> HIDE DEF f, s
    <3>2. f \o s = Append(Append(f, x), v)
      BY <3>1, AppendTwoTo
    <3> QED
      BY <3>1, <3>2
  <2>13. BarsIn(G, P) = <<b>>
    BY <1>9, <1>15, <2>5
  <2> QED
    BY <1>7, <1>9, <1>14, <1>17, <2>8, <2>12, <2>13 DEF More, r
<1> QED
  BY <1>16, <1>17

(* What taking a bar does, whichever way it was taken.                     *)
Took(f, g, b) ==
  \/ (f.open = <<>> \/ Label(f) # PeriodStart(b.ts)) /\ Rolled(f, g, b)
  \/ /\ f.open # <<>> /\ Label(f) = PeriodStart(b.ts)
     /\ \E agg : Formed(f, g, b, Reduce({}, Pushed(f.open, b)), agg)

LEMMA TookBar ==
  ASSUME NEW f, NEW g, NEW b, Ready(f, b), Cumulates(f), FoldCases({}, f, g, b), g.ok
  PROVE  Took(f, g, b)
<1> DEFINE next == Pushed(f.open, b)  resent == LastOf(f.open).ts = b.ts
<1>1. CASE f.open = <<>> \/ Label(f) # PeriodStart(b.ts)
  BY <1>1 DEF FoldCases, Took
<1>2. CASE f.open # <<>> /\ Label(f) = PeriodStart(b.ts)
  <2>1. Making(f, b, next)
    BY <1>2, Makes
  <2>2. next = Pushed(f.open, b) /\ (resent <=> LastOf(f.open).ts = b.ts)
    OBVIOUS
  <2>3. \A agg : ~Stayed(f, g, agg)
    BY DEF Stayed
  <2> HIDE DEF next, resent
  <2>4. ASSUME NEW agg, Formed(f, g, b, Reduce({}, next), agg)
        PROVE  Took(f, g, b)
    BY <1>2, <2>2, <2>4 DEF Took
  <2>5. CASE ~(resent \/ f.refold) /\ ByFold({}, f, g, b)
    <3> DEFINE cells == Fold(ints, LastOf(f.rows).cells, b)
               p == PushedAggregate(ints, Begun(f)[1], b, FALSE)
               agg == IF Begun(f) # NoAggregate /\ p.ok THEN <<p.agg>> ELSE NoAggregate
    <3>1. ~Overflows(cells) => cells = Reduce({}, next)
      BY <2>1, <2>2, <2>5 DEF Making
    <3>2. ~Overflows(cells) /\ Formed(f, g, b, cells, agg)
      BY <2>3, <2>5 DEF ByFold
    <3> HIDE DEF cells, agg
    <3> QED
      BY <2>4, <3>1, <3>2
  <2>6. CASE ByAggregate({}, f, g, b, resent)
    <3> DEFINE p == PushedAggregate(ints, Begun(f)[1], b, resent)
    <3>1. Begun(f) # NoAggregate /\ p.ok /\ Formed(f, g, b, p.agg.current, <<p.agg>>)
      BY <2>3, <2>6 DEF ByAggregate
    <3>2. Aggregates(ints, <<p.agg>>, next)
      BY <2>1, <2>2, <3>1 DEF Making
    <3>3. ~Overflows(p.agg.current) /\ p.agg.current = Reduce(ints, next)
      BY <3>2 DEF Aggregates
    <3>4. p.agg.current = Reduce({}, next)
      BY <2>1, <3>3 DEF Making
    <3> HIDE DEF p
    <3> QED
      BY <2>4, <3>1, <3>4
  <2>7. CASE ByRefold({}, f, g, b)
    <3> DEFINE cells == Reduce(ints, next)  agg == NewAggregate(ints, next)
    <3>1. ~Overflows(cells) /\ Formed(f, g, b, cells, agg)
      BY <2>2, <2>3, <2>7 DEF ByRefold
    <3>2. cells = Reduce({}, next)
      BY <2>1, <3>1 DEF Making
    <3> HIDE DEF cells, agg
    <3> QED
      BY <2>4, <3>1, <3>2
  <2> QED
    BY <1>2, <2>5, <2>6, <2>7 DEF FoldCases, resent
<1> QED
  BY <1>1, <1>2

(* A batch keeps the forming row, fitting its type or not.                 *)
LEMMA BatchCumulates ==
  ASSUME NEW K, NEW f, NEW bars, Folding(K, {}, f, bars), Coming(f, bars), Shape(f), Cumulates(f)
  PROVE  \A i \in 0 .. Len(bars) : Cumulates(K[i])
<1> DEFINE n == Len(bars)  T == {i \in 0 .. n : Cumulates(K[i])}
<1>1. n \in Nat
  BY DEF Coming
<1>2. 0 \in T
  BY <1>1 DEF Folding
<1>3. ASSUME NEW j \in 0 .. n - 1, j \in T
      PROVE  j + 1 \in T
  <2> DEFINE i == j + 1
  <2>1. i \in 1 .. n /\ i \in 0 .. n /\ i - 1 = j /\ i - 1 \in 0 .. n
    BY <1>1
  <2>2. Cumulates(K[i - 1])
    BY <1>3, <2>1
  <2> HIDE DEF i
  <2>3. Reached(K, bars, i - 1)
    BY <2>1, BatchReached
  <2>4. \/ ~K[i - 1].ok /\ K[i] = K[i - 1]
        \/ Ready(K[i - 1], bars[i]) /\ FoldCases({}, K[i - 1], K[i], bars[i])
    BY <2>1, <2>3, TakingCases
  <2>5. Cumulates(K[i])
    BY <2>2, <2>4, FoldBarCumulates
  <2> QED
    BY <2>1, <2>5 DEF i
<1>4. \A j \in 0 .. n - 1 : j \in T => j + 1 \in T
  BY <1>3
<1> HIDE DEF T, n
<1>5. \A i \in 0 .. n : i \in T
  BY <1>1, <1>2, <1>4, Inductive
<1> QED
  BY <1>5 DEF T, n

(* The fold g has the closed rows base and those of the bars Y.            *)
Standing(base, Y, g) ==
  LET F == DedupKeepLast(Y)
  IN  /\ Y \in Seq(BarSet) /\ Ordered(Y) /\ Y # <<>>
      /\ g.rows = base \o RowsOf({}, F)
      /\ g.open = BarsIn(F, PeriodStart(LastOf(F).ts))

LEMMA JoinAppend ==
  ASSUME NEW S, NEW s, NEW t, NEW x, s \in Seq(S), t \in Seq(S)
  PROVE  Append(s \o t, x) = s \o Append(t, x)
<1> DEFINE V == S \cup {x}
<1>1. s \in Seq(V) /\ t \in Seq(V) /\ x \in V
  OBVIOUS
<1> HIDE DEF V
<1> QED
  BY <1>1

LEMMA StandsOn ==
  ASSUME NEW base \in Seq(RowSet), NEW g, NEW h, NEW Y, NEW b, NEW Z, Z = Append(Y, b),
         Standing(base, Y, g), Ready(g, b), Cumulates(g), FoldCases({}, g, h, b), h.ok, LastOf(Y).ts <= b.ts
  PROVE  Standing(base, Z, h)
<1> DEFINE F == DedupKeepLast(Y)  L == PeriodStart(LastOf(F).ts)  o == BarsIn(F, L)  G == Pushed(F, b)
           r == RowsOf({}, F)  P == PeriodStart(b.ts)
<1>1. Y \in Seq(BarSet) /\ Ordered(Y) /\ Y # <<>> /\ g.rows = base \o r /\ g.open = o
  BY DEF Standing
<1>2. b \in BarSet /\ Shape(g)
  BY DEF Ready
<1>3. /\ Z \in Seq(BarSet) /\ Ordered(Z) /\ Z # <<>>
      /\ F \in Seq(BarSet) /\ Rising(F) /\ F # <<>> /\ LastOf(F).ts <= b.ts
      /\ DedupKeepLast(Z) = G
  BY <1>1, <1>2, DedupAppend
<1>4. L = PeriodStart(LastOf(F).ts) /\ o = BarsIn(F, L) /\ G = Pushed(F, b) /\ r = RowsOf({}, F)
  OBVIOUS
<1> HIDE DEF F, L, o, G, r
<1>5. More(F, b, G, L, o)
  BY <1>2, <1>3, <1>4, MoreRows
<1>6. RowsRise({}, F, r, L, o)
  BY <1>3, <1>4, RowsRising
<1>7. o # <<>> /\ LastOf(o) = LastOf(F) /\ r \in Seq(RowSet) /\ r # <<>>
  BY <1>6 DEF RowsRise, AreOpen
<1>8. Label(g) = L
  BY <1>1, <1>2, <1>4, <1>7, OpenLabel
<1>9. Took(g, h, b)
  BY TookBar
<1>10. CASE L # P
  <2> DEFINE v == [ts |-> P, cells |-> b.cells]
  <2>1. h.rows = Append(g.rows, v) /\ h.open = <<b>>
    BY <1>8, <1>9, <1>10 DEF Took, Rolled
  <2>2. RowsOf({}, G) = Append(r, v) /\ BarsIn(G, P) = <<b>> /\ LastOf(G) = b
    BY <1>4, <1>5, <1>10 DEF More
  <2> HIDE DEF v
  <2>3. h.rows = base \o Append(r, v)
    <3>1. base \in Seq(RowSet) /\ r \in Seq(RowSet)
      BY <1>7
    <3>2. Append(base \o r, v) = base \o Append(r, v)
      BY ONLY <3>1, JoinAppend
    <3> QED
      BY <1>1, <2>1, <3>2
  <2> QED
    BY <1>3, <2>1, <2>2, <2>3 DEF Standing
<1>11. CASE L = P
  <2> DEFINE next == Pushed(o, b)  v == [ts |-> L, cells |-> Reduce({}, next)]  w == Front(r)
  <2>1. h.rows = Append(Front(g.rows), v) /\ h.open = next
    BY <1>1, <1>7, <1>8, <1>9, <1>11 DEF Took, Formed
  <2>2. RowsOf({}, G) = Append(w, v) /\ BarsIn(G, P) = next /\ LastOf(G) = b
    BY <1>4, <1>5, <1>11 DEF More
  <2>3. Front(base \o r) = base \o w /\ w \in Seq(RowSet)
    BY <1>7, FrontJoin, FrontTyped
  <2> HIDE DEF v, next, w
  <2>4. h.rows = base \o Append(w, v)
    <3>1. base \in Seq(RowSet) /\ w \in Seq(RowSet)
      BY <2>3
    <3>2. Append(base \o w, v) = base \o Append(w, v)
      BY ONLY <3>1, JoinAppend
    <3> QED
      BY <1>1, <2>1, <2>3, <3>2
  <2> QED
    BY <1>3, <2>1, <2>2, <2>4 DEF Standing
<1> QED
  BY <1>10, <1>11

(* The first bar of a batch, of the open period or of a later one.         *)
LEMMA StartsSame ==
  ASSUME NEW f, NEW g, NEW b, NEW Z, NEW base, Ready(f, b), Cumulates(f), FoldCases({}, f, g, b), g.ok,
         f.open # <<>>, Label(f) = PeriodStart(b.ts), Z = Append(f.open, b), base = Front(f.rows)
  PROVE  base \in Seq(RowSet) /\ Standing(base, Z, g)
<1> DEFINE o == f.open  L == Label(f)  G == Pushed(o, b)  v == [ts |-> L, cells |-> Reduce({}, G)]
<1>1. /\ o \in Seq(BarSet) /\ Rising(o) /\ o # <<>> /\ f.rows \in Seq(RowSet) /\ f.rows # <<>>
      /\ b \in BarSet /\ LastOf(o).ts <= b.ts /\ L \in Int /\ L = PeriodStart(LastOf(o).ts)
      /\ \A x \in Elems(o) : PeriodStart(x.ts) = L
  BY OpenLabel DEF Ready, Shape, FoldSet, Elems, Label
<1>2. base \in Seq(RowSet)
  BY <1>1, FrontTyped
<1>3. Took(f, g, b)
  BY TookBar
<1>4. g.rows = Append(base, v) /\ g.open = G
  BY <1>3 DEF Took, Formed
<1>5. G = Pushed(o, b) /\ Z = Append(o, b) /\ L = PeriodStart(b.ts) /\ v = [ts |-> L, cells |-> Reduce({}, G)]
  OBVIOUS
<1> HIDE DEF o, L, G, v
<1>6. Stamped(BarSet)
  BY BarSets
<1>7. DedupKeepLast(o) = o /\ Ordered(o)
  BY <1>1, <1>6, DedupedRising, RisingOrdered
<1>8. Z \in Seq(BarSet) /\ Ordered(Z) /\ Z # <<>> /\ DedupKeepLast(Z) = G
  BY <1>1, <1>5, <1>7, DedupAppend
<1>9. BarsIn(o, L) = o /\ ClosingOf({}, o) = <<>>
  BY <1>1, <1>6, OnePeriod
<1>10. More(o, b, G, L, o)
  BY <1>1, <1>5, <1>9, MoreRows
<1>11. RowsOf({}, G) = Append(<<>>, v) /\ BarsIn(G, L) = G /\ LastOf(G) = b
  BY <1>5, <1>9, <1>10 DEF More, ClosingOf
<1>12. RowsOf({}, G) = <<v>>
  BY <1>11
<1>13. base \o RowsOf({}, G) = Append(base, v)
  BY ONLY <1>2, <1>12, AppendOneTo
<1> QED
  BY <1>2, <1>4, <1>5, <1>8, <1>11, <1>13 DEF Standing

LEMMA StartsNew ==
  ASSUME NEW f, NEW g, NEW b, NEW Z, Ready(f, b), Cumulates(f), FoldCases({}, f, g, b), g.ok,
         f.open = <<>> \/ Label(f) # PeriodStart(b.ts), Z = <<b>>
  PROVE  f.rows \in Seq(RowSet) /\ Standing(f.rows, Z, g)
<1> DEFINE P == PeriodStart(b.ts)  v == [ts |-> P, cells |-> b.cells]  r == f.rows
<1>1. r \in Seq(RowSet) /\ b \in BarSet /\ b.ts \in Int /\ P \in Int
  BY PeriodOf DEF Ready, Shape, FoldSet, BarSet
<1>2. Took(f, g, b)
  BY TookBar
<1>3. g.rows = Append(r, v) /\ g.open = Z
  BY <1>2 DEF Took, Rolled
<1>4. Stamped(BarSet) /\ Celled(BarSet)
  BY BarSets
<1>5. Z \in Seq(BarSet) /\ Z # <<>> /\ LastOf(Z) = b
  BY <1>1 DEF LastOf
<1>6. Rising(Z) /\ \A x \in Elems(Z) : x = b
  BY <1>1 DEF Rising, Elems
<1>7. Ordered(Z) /\ DedupKeepLast(Z) = Z
  BY <1>4, <1>5, <1>6, DedupedRising, RisingOrdered
<1>8. PeriodsOf(Z) = <<P>> /\ BarsIn(Z, P) = Z
  BY <1>1, <1>4, <1>5, <1>6, OnePeriod
<1>9. RowsOf({}, Z) = <<CoarseRow({}, Z, P)>>
  <2> HIDE DEF P
  <2> QED
    BY ONLY <1>8 DEF RowsOf, CoarseRows
<1>10. CoarseRow({}, Z, P) = v
  <2>1. Reduce({}, Z) = b.cells
    BY <1>1, <1>4, ReduceOne
  <2>2. CoarseRow({}, Z, P) = [ts |-> P, cells |-> Reduce({}, Z)]
    BY <1>8, RowOfPeriod
  <2> QED
    BY <2>1, <2>2
<1>11. RowsOf({}, Z) = <<v>>
  BY <1>9, <1>10
<1>12. PeriodStart(LastOf(Z).ts) = P
  BY <1>5
<1> HIDE DEF v, r
<1>13. r \o RowsOf({}, Z) = Append(r, v)
  BY ONLY <1>1, <1>11, AppendOneTo
<1>14. Standing(r, Z, g)
  BY <1>3, <1>5, <1>7, <1>8, <1>12, <1>13 DEF Standing
<1> QED
  BY <1>1, <1>14 DEF r

(* Bars after those of X, one by one.                                      *)
Grown(X, B, Z, m, n) ==
  /\ Z \in Seq(BarSet) /\ m \in Nat /\ n \in Nat /\ Len(Z) = m + n
  /\ \A i \in 1 .. n : Z[m + i] = B[i]
  /\ SubSeq(Z, 1, m + n) = Z
  /\ n >= 1 => SubSeq(Z, 1, m + 1) = Append(X, B[1])

LEMMA Growing ==
  ASSUME NEW X, NEW B, NEW Z, NEW m, NEW n, X \in Seq(BarSet), B \in Seq(BarSet), Z = X \o B,
         m = Len(X), n = Len(B)
  PROVE  Grown(X, B, Z, m, n)
<1>1. /\ Z \in Seq(BarSet) /\ m \in Nat /\ n \in Nat /\ Len(Z) = m + n
      /\ \A i \in 1 .. m : Z[i] = X[i]
      /\ \A i \in 1 .. n : Z[m + i] = B[i]
  OBVIOUS
<1>2. SubSeq(Z, 1, m + n) = Z
  <2> DEFINE k == m + n
  <2>1. Z \in Seq(BarSet) /\ k = Len(Z)
    BY <1>1
  <2> HIDE DEF k
  <2>2. SubSeq(Z, 1, k) \in Seq(BarSet) /\ Len(SubSeq(Z, 1, k)) = Len(Z)
        /\ \A i \in 1 .. Len(Z) : SubSeq(Z, 1, k)[i] = Z[i]
    BY ONLY <2>1
  <2>3. SubSeq(Z, 1, k) = Z
    BY ONLY <2>1, <2>2
  <2> QED
    BY <2>3 DEF k
<1>3. ASSUME n >= 1
      PROVE  SubSeq(Z, 1, m + 1) = Append(X, B[1])
  <2> DEFINE u == SubSeq(Z, 1, m)  b == B[1]
  <2>1. m \in 0 .. Len(Z) - 1 /\ Z[m + 1] = b
    BY <1>1, <1>3
  <2>2. u = X
    <3>1. u \in Seq(BarSet) /\ Len(u) = m /\ \A i \in 1 .. m : u[i] = Z[i]
      BY <1>1
    <3> HIDE DEF u
    <3> QED
      BY <1>1, <3>1
  <2>3. SubSeq(Z, 1, m + 1) = Append(u, Z[m + 1])
    BY <1>1, <2>1, PrefixGrows
  <2> QED
    BY <2>1, <2>2, <2>3
<1> QED
  BY <1>1, <1>2, <1>3 DEF Grown

LEMMA StandsGrown ==
  ASSUME NEW K, NEW f, NEW bars, Folding(K, {}, f, bars), Coming(f, bars), Shape(f), Cumulates(f),
         NEW base \in Seq(RowSet), NEW X, NEW Z, NEW m, NEW n, n = Len(bars), bars # <<>>, Grown(X, bars, Z, m, n),
         K[1].ok => Standing(base, SubSeq(Z, 1, m + 1), K[1])
  PROVE  K[n].ok => Standing(base, Z, K[n])
<1> DEFINE Y(i) == SubSeq(Z, 1, m + i)
           T == {i \in 0 .. n : i # 0 /\ K[i].ok => Standing(base, Y(i), K[i])}
<1>1. /\ Z \in Seq(BarSet) /\ m \in Nat /\ n \in Nat /\ Len(Z) = m + n
      /\ \A i \in 1 .. n : Z[m + i] = bars[i]
      /\ Y(n) = Z
  BY DEF Grown
<1>2. 0 \in T
  BY <1>1
<1>3. ASSUME NEW j \in 0 .. n - 1, j \in T
      PROVE  j + 1 \in T
  <2> DEFINE i == j + 1
  <2>1. i \in 1 .. n /\ i \in 0 .. n /\ i - 1 = j /\ i - 1 \in 0 .. n /\ j \in 0 .. n
    BY <1>1
  <2>2. CASE j = 0
    BY <1>1, <2>1, <2>2
  <2>3. CASE j # 0
    <3>1. K[j].ok => Standing(base, Y(j), K[j])
      BY <1>3, <2>3
    <3>2. /\ Y(j) \in Seq(BarSet) /\ Y(i) = Append(Y(j), Z[m + i]) /\ Z[m + i] = bars[i]
      <4> DEFINE k == m + j  u == SubSeq(Z, 1, k)
      <4>1. k \in 0 .. Len(Z) - 1 /\ k + 1 = m + i
        BY <1>1, <2>1
      <4>2. u \in Seq(BarSet) /\ SubSeq(Z, 1, k + 1) = Append(u, Z[k + 1])
        <5> HIDE DEF k
        <5> QED
          BY <1>1, <4>1, PrefixGrows
      <4> QED
        BY <1>1, <2>1, <4>1, <4>2
    <3>3. LastOf(Y(j)) = bars[j]
      <4> DEFINE k == m + j
      <4>1. k \in 1 .. Len(Z) /\ Z[k] = bars[j]
        BY <1>1, <2>1, <2>3
      <4> HIDE DEF k
      <4>2. Len(SubSeq(Z, 1, k)) = k /\ SubSeq(Z, 1, k)[k] = Z[k]
        BY <1>1, <4>1
      <4>3. LastOf(SubSeq(Z, 1, k)) = bars[j]
        BY <4>1, <4>2 DEF LastOf
      <4> QED
        BY <4>3 DEF k
    <3>4. bars[j].ts <= bars[i].ts
      <4>1. j \in 1 .. Len(bars) - 1
        BY <2>1, <2>3, <1>1
      <4> QED
        BY <4>1 DEF Coming, Ordered
    <3>5. Cumulates(K[j])
      BY <2>1, BatchCumulates
    <3>6. Reached(K, bars, i - 1)
      BY <2>1, BatchReached
    <3>7. \/ ~K[j].ok /\ K[i] = K[j]
          \/ Ready(K[j], bars[i]) /\ FoldCases({}, K[j], K[i], bars[i])
      BY <2>1, <3>6, TakingCases
    <3>8. ASSUME K[i].ok
          PROVE  Standing(base, Y(i), K[i])
      <4> DEFINE u == Y(j)  z == Y(i)
      <4>1. Ready(K[j], bars[i]) /\ FoldCases({}, K[j], K[i], bars[i])
        BY <3>7, <3>8
      <4>2. Standing(base, u, K[j])
        BY <3>1, <4>1 DEF Ready
      <4>3. z = Append(u, bars[i]) /\ LastOf(u).ts <= bars[i].ts
        BY <3>2, <3>3, <3>4
      <4> HIDE DEF u, z, i
      <4>4. Standing(base, z, K[i])
        BY <3>5, <3>8, <4>1, <4>2, <4>3, StandsOn
      <4> QED
        BY <4>4 DEF z
    <3> QED
      BY <2>1, <3>8
  <2> QED
    BY <2>2, <2>3
<1>4. \A j \in 0 .. n - 1 : j \in T => j + 1 \in T
  BY <1>3
<1>5. n \in 0 .. n /\ n # 0
  <2>1. bars \in Seq(BarSet)
    BY DEF Coming
  <2>2. Len(bars) # 0
    BY <2>1
  <2> QED
    BY <1>1, <2>2
<1> HIDE DEF T
<1>6. n \in T
  BY <1>1, <1>2, <1>4, <1>5, Inductive
<1> QED
  BY <1>1, <1>5, <1>6 DEF T

LEMMA StandingRows ==
  ASSUME NEW base, NEW Z, NEW g, Standing(base, Z, g)
  PROVE  g.rows = base \o Cumulate({}, Z)
<1> DEFINE d == DedupKeepLast(Z)
<1>1. Z \in Seq(BarSet) /\ Ordered(Z) /\ g.rows = base \o RowsOf({}, d)
  BY DEF Standing
<1>2. Cumulate({}, Z) = CoarseRows({}, d, PeriodsOf(d))
  BY <1>1, BarSets, CumulateLatest
<1> QED
  BY <1>1, <1>2 DEF RowsOf

LEMMA FoldsAsBatch ==
  ASSUME XInv
  PROVE  FoldIsBatch
<1> SUFFICES ASSUME NEW batch \in Batches, NEW bars, bars = AdmittedBars(batch),
                    NEW f, f = FoldBars({}, FoldState, bars), InOrder(bars), f.ok,
                    NEW same, same = (open # <<>> /\ PeriodStart(bars[1].ts) = LastOf(rows).ts)
             PROVE  f.rows = IF same THEN Front(rows) \o Cumulate({}, open \o bars)
                             ELSE rows \o Cumulate({}, bars)
  BY DEF FoldIsBatch
<1> DEFINE n == Len(bars)  s == FoldState  b == bars[1]
<1>1. bars \in Seq(BarSet) /\ n \in Nat /\ n >= 1 /\ bars # <<>>
  BY BatchIs
<1>2. TInv /\ Shape(s) /\ Cumulates(s) /\ s.ok /\ s.open = open /\ s.rows = rows
  BY StateIs DEF XInv, TInv, Exact
<1>3. Coming(s, bars)
  BY <1>1, <1>2, InOrderComes
<1>4. f = FoldBars({}, s, bars)
  OBVIOUS
<1> HIDE DEF s, n
<1>5. PICK K : Folding(K, {}, s, bars) /\ f = K[n]
  BY <1>1, <1>4, FoldingExists DEF n
<1>6. Ready(s, b) /\ FoldCases({}, s, K[1], b)
  <2>1. Reached(K, bars, 0) /\ K[0] = s /\ 1 \in 1 .. Len(bars) /\ 1 - 1 = 0
    <3>1. \A i \in 0 .. Len(bars) : Reached(K, bars, i)
      BY <1>2, <1>3, <1>5, BatchReached
    <3>2. K[0] = s
      BY <1>5 DEF Folding
    <3> QED
      BY <1>1, <3>1, <3>2 DEF n
  <2>2. \/ ~K[0].ok /\ K[1] = K[0]
        \/ Ready(K[0], b) /\ FoldCases({}, K[0], K[1], b)
    BY <1>3, <1>5, <2>1, TakingCases
  <2> QED
    BY <1>2, <2>1, <2>2
<1>7. n = Len(bars) /\ K[n].ok
  BY <1>5 DEF n
<1>8. CASE same
  <2> DEFINE Z == open \o bars  m == Len(open)  base == Front(rows)  u == Append(open, b)
  <2>1. open # <<>> /\ Label(s) = PeriodStart(b.ts) /\ open \in Seq(BarSet) /\ rows \in Seq(RowSet) /\ rows # <<>>
    BY <1>2, <1>8 DEF Shape, FoldSet, Label
  <2>2. base \in Seq(RowSet)
    BY <2>1, FrontTyped
  <2>3. Grown(open, bars, Z, m, n)
    BY <1>1, <1>7, <2>1, Growing
  <2>4. SubSeq(Z, 1, m + 1) = u
    BY <1>1, <2>3 DEF Grown
  <2>5. u = Append(s.open, b) /\ base = Front(s.rows) /\ s.open # <<>>
    BY <1>2, <2>1
  <2> HIDE DEF Z, m, base, u, b
  <2>6. K[1].ok => Standing(base, u, K[1])
    BY <1>2, <1>6, <2>1, <2>5, StartsSame
  <2>7. Standing(base, Z, K[n])
    <3>1. K[1].ok => Standing(base, SubSeq(Z, 1, m + 1), K[1])
      BY <2>4, <2>6
    <3>2. K[n].ok => Standing(base, Z, K[n])
      BY ONLY <1>1, <1>2, <1>3, <1>5, <1>7, <2>2, <2>3, <3>1, StandsGrown
    <3> QED
      BY <1>7, <3>2
  <2>8. f.rows = base \o Cumulate({}, Z)
    BY <1>5, <2>7, StandingRows
  <2> QED
    BY <1>8, <2>8 DEF base, Z
<1>9. CASE ~same
  <2> DEFINE u == <<b>>
  <2>1. s.open = <<>> \/ Label(s) # PeriodStart(b.ts)
    BY <1>2, <1>9 DEF Label
  <2>2. Grown(<<>>, bars, bars, 0, n)
    <3>1. <<>> \in Seq(BarSet) /\ bars = <<>> \o bars /\ 0 = Len(<<>>)
      BY <1>1
    <3> QED
      BY <1>1, <1>7, <3>1, Growing
  <2>3. SubSeq(bars, 1, 0 + 1) = u
    BY <1>1, <2>2 DEF Grown
  <2> HIDE DEF u, b
  <2>4. u = <<b>> /\ rows \in Seq(RowSet)
    BY <1>2 DEF u, Shape, FoldSet
  <2>5. K[1].ok => Standing(rows, u, K[1])
    BY <1>2, <1>6, <2>1, <2>4, StartsNew
  <2>6. Standing(rows, bars, K[n])
    <3>1. K[1].ok => Standing(rows, SubSeq(bars, 1, 0 + 1), K[1])
      BY <2>3, <2>5
    <3>2. K[n].ok => Standing(rows, bars, K[n])
      BY ONLY <1>1, <1>2, <1>3, <1>5, <1>7, <2>2, <2>4, <3>1, StandsGrown
    <3> QED
      BY <1>7, <3>2
  <2>7. f.rows = rows \o Cumulate({}, bars)
    BY <1>5, <2>6, StandingRows
  <2> QED
    BY <1>9, <2>7
<1> QED
  BY <1>8, <1>9

(* Folding bars one by one gives the rows of cumulating them at once after *)
(* the open period's bars, and the rows that had closed stand              *)
(* (frame_tf.rs fold_bars, cumulate.rs cumulate), while the lead refuses   *)
(* no integer.                                                             *)
THEOREM FoldingIsBatch == Spec /\ []LeadTakesAll => []FoldIsBatch
<1>1. XInv => FoldIsBatch
  BY FoldsAsBatch
<1> QED
  BY <1>1, ValuesInvariance, PTL
=============================================================================
