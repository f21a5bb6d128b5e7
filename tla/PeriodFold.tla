----------------------------- MODULE PeriodFold -----------------------------
(***************************************************************************)
(* What the bars of a period aggregate to (volas-core column/fold.rs,      *)
(* volas-time): the step that folds one cell into an aggregate, the batch  *)
(* reduction of a period, the running aggregate of an open period, and the *)
(* rule that a re-sent bar replaces the bar it repeats.                    *)
(*                                                                         *)
(* A bar is a timestamp and a cell per column; `ints' are the columns of   *)
(* integers, whose sums are checked.  A float column adds exactly: its     *)
(* rounding and the bits of its NaNs are left out.                         *)
(***************************************************************************)
EXTENDS Integers, Sequences

CONSTANTS
  Cols,      \* the columns that may hold data
  AggOf,     \* the aggregator of a column
  Period,    \* length of a period; periods start at its multiples
  MaxInt,    \* i64::MAX
  Missing,   \* NaN, NaT, a null
  Overflow   \* the aggregate of an integer sum that does not fit

ASSUME PeriodFoldAssumption ==
  /\ AggOf \in [Cols -> {"first", "last", "max", "min", "sum"}]
  /\ Period \in Nat \ {0} /\ MaxInt \in Nat
  /\ Missing \notin Int /\ Overflow \notin Int /\ Missing # Overflow

Ints == -(MaxInt + 1) .. MaxInt

PeriodStart(ts) == ts - (ts % Period)

LastOf(s) == s[Len(s)]
Front(s)  == SubSeq(s, 1, Len(s) - 1)

-----------------------------------------------------------------------------
(* The fold.                                                               *)

(* Of two present values; an integer sum that does not fit is no value.    *)
Combine(ints, c, a, x) ==
  LET v == CASE AggOf[c] = "first" -> a
             [] AggOf[c] = "last"  -> x
             [] AggOf[c] = "max"   -> IF x > a THEN x ELSE a
             [] AggOf[c] = "min"   -> IF x < a THEN x ELSE a
             [] AggOf[c] = "sum"   -> a + x
  IN  IF c \in ints /\ v \notin Ints THEN Overflow ELSE v

(* Faulty variant: a missing value is skipped.                             *)
CombineSkipping(ints, c, a, x) ==
  IF a = Overflow \/ x = Missing THEN a
  ELSE IF a = Missing THEN x ELSE Combine(ints, c, a, x)

(* Fold x into the aggregate a: missing stays missing and makes missing.   *)
CombineAt(ints, c, a, x) ==
  IF a = Overflow THEN Overflow
  ELSE IF a = Missing \/ x = Missing THEN Missing
  ELSE Combine(ints, c, a, x)

Fold(ints, cells, bar) ==
  [c \in Cols |-> CombineAt(ints, c, cells[c], bar.cells[c])]

Overflows(cells) == \E c \in Cols : cells[c] = Overflow

(* The batch reduction of bars, from the first one on.                     *)
Reduce(ints, bars) ==
  LET reduced[i \in 1 .. Len(bars)] ==
        IF i = 1 THEN bars[1].cells ELSE Fold(ints, reduced[i - 1], bars[i])
  IN  reduced[Len(bars)]

-----------------------------------------------------------------------------
(* Bars in time order.                                                     *)

Ordered(bars) == \A i \in 1 .. Len(bars) - 1 : bars[i].ts <= bars[i + 1].ts

(* The elements of s at the positions in rows, in order.                   *)
At(s, rows) ==
  LET kept[i \in 0 .. Len(s)] ==
        IF i = 0 THEN <<>>
        ELSE IF i \in rows THEN Append(kept[i - 1], s[i]) ELSE kept[i - 1]
  IN  kept[Len(s)]

(* The last element of every run of elements with equal keys.              *)
LastOfRuns(s, key) ==
  At(s, {i \in 1 .. Len(s) : i < Len(s) => key[i + 1] # key[i]})

DedupKeepLast(bars) == LastOfRuns(bars, [i \in 1 .. Len(bars) |-> bars[i].ts])

(* The start of each period the bars fall into, in order.                  *)
PeriodsOf(bars) ==
  LET starts == [i \in 1 .. Len(bars) |-> PeriodStart(bars[i].ts)]
  IN  LastOfRuns(starts, starts)

BarsIn(bars, p) ==
  At(bars, {i \in 1 .. Len(bars) : PeriodStart(bars[i].ts) = p})

(* The coarse row of one period's bars, labelled with the period's start.  *)
AggregatePeriod(ints, bars) ==
  [ts |-> PeriodStart(bars[1].ts), cells |-> Reduce(ints, DedupKeepLast(bars))]

(* One coarse row per period.                                              *)
Cumulate(ints, bars) ==
  LET periods == PeriodsOf(bars)
  IN  [i \in 1 .. Len(periods) |-> AggregatePeriod(ints, BarsIn(bars, periods[i]))]

-----------------------------------------------------------------------------
(* OpenPeriod::push: a bar stamped like the last one replaces it.          *)
Pushed(open, bar) ==
  IF open # <<>> /\ LastOf(open).ts = bar.ts
  THEN Append(Front(open), bar) ELSE Append(open, bar)

(* PeriodAggregate: the aggregate of an open period and that of all its    *)
(* bars but the last, when there are any; a sequence of none or one.       *)
NoAggregate == <<>>

NewAggregate(ints, open) ==
  LET current == Reduce(ints, open)
  IN  IF Overflows(current) THEN NoAggregate
      ELSE << [current |-> current, hasBefore |-> Len(open) > 1,
               before  |-> IF Len(open) > 1 THEN Reduce(ints, Front(open))
                           ELSE current] >>

(* A new period starts; what was before its first bar is left as it is.    *)
Restarted(agg, bar) ==
  [agg EXCEPT !.current = bar.cells, !.hasBefore = FALSE]

(* Faulty variant: the checkpoint is not taken before a new bar.           *)
PushedNoCheckpoint(ints, agg, bar, resent) ==
  IF resent /\ ~agg.hasBefore
  THEN [ok |-> TRUE, agg |-> [agg EXCEPT !.current = bar.cells]]
  ELSE LET from == IF resent THEN agg.before ELSE agg.current
           next == Fold(ints, from, bar)
       IN  IF Overflows(next) THEN [ok |-> FALSE, agg |-> agg]
           ELSE [ok  |-> TRUE,
                 agg |-> [agg EXCEPT !.current = next, !.hasBefore = TRUE]]

(* PeriodAggregate::push: a re-sent bar restarts from the checkpoint; an   *)
(* overflow changes nothing.                                               *)
PushedAggregate(ints, agg, bar, resent) ==
  IF resent /\ ~agg.hasBefore
  THEN [ok |-> TRUE, agg |-> [agg EXCEPT !.current = bar.cells]]
  ELSE LET from == IF resent THEN agg.before ELSE agg.current
           next == Fold(ints, from, bar)
       IN  IF Overflows(next) THEN [ok |-> FALSE, agg |-> agg]
           ELSE [ok  |-> TRUE,
                 agg |-> [current |-> next, before |-> from, hasBefore |-> TRUE]]
=============================================================================
