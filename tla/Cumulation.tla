----------------------------- MODULE Cumulation -----------------------------
(***************************************************************************)
(* The incremental cumulator (volas-time cumulate.rs): fine bars come in   *)
(* batches, closed periods become coarse rows, the last period stays open  *)
(* as its bars and a running aggregate.  A single bar takes a short path   *)
(* that looks at neither the closed rows nor the open bars.                *)
(*                                                                         *)
(* `fed' is not in the code: every bar taken so far, a re-sent one in      *)
(* place of the bar it repeats.                                            *)
(***************************************************************************)
EXTENDS PeriodFold

CONSTANTS
  IntCols,   \* the columns of integers
  Candles,   \* the cells a bar may have
  MaxTs,     \* bound: timestamps
  MaxBatch   \* bound: bars of a batch

ASSUME CumulationAssumption ==
  /\ IntCols \subseteq Cols
  /\ Candles \subseteq [Cols -> Int \cup {Missing}]
  /\ \A cells \in Candles, c \in IntCols : cells[c] \in Ints \cup {Missing}
  /\ MaxTs \in Nat /\ MaxBatch \in Nat

VARIABLES closed, open, aggregate, fed, answer

vars == <<closed, open, aggregate, fed, answer>>

NaT  == -1          \* i64::MIN
Bars == [ts : {NaT} \cup 0 .. MaxTs, cells : Candles]
Batches == UNION {[1 .. n -> Bars] : n \in 0 .. MaxBatch}

Init ==
  /\ closed = <<>> /\ open = <<>> /\ aggregate = NoAggregate
  /\ fed = <<>> /\ answer = "silent"

-----------------------------------------------------------------------------
Taken(batch) ==
  /\ fed' = DedupKeepLast(fed \o batch)
  /\ answer' = "taken"

Refused == answer' = "refused" /\ UNCHANGED <<closed, open, aggregate, fed>>

(* Faulty variant: the short path takes a bar of any time.                 *)
IsLiveUnordered(batch) ==
  open # <<>> /\ aggregate # NoAggregate /\ Len(batch) = 1

(* append_one's guards: an open period that aggregates, one bar in order.  *)
IsLive(batch) ==
  /\ open # <<>> /\ aggregate # NoAggregate
  /\ Len(batch) = 1 /\ batch[1].ts >= LastOf(open).ts

(* A bar of the open period; an aggregate that overflows is given up and   *)
(* its error left to whoever reads the period.                             *)
LiveBar(bar) ==
  LET resent == bar.ts = LastOf(open).ts
      pushed == PushedAggregate(IntCols, aggregate[1], bar, resent)
  IN  /\ PeriodStart(bar.ts) = PeriodStart(open[1].ts)
      /\ open' = Pushed(open, bar)
      /\ aggregate' = IF pushed.ok THEN <<pushed.agg>> ELSE NoAggregate
      /\ UNCHANGED closed

(* The first bar of a later period.                                        *)
LiveRollOver(bar) ==
  /\ PeriodStart(bar.ts) # PeriodStart(open[1].ts)
  /\ closed' = Append(closed, [ts    |-> PeriodStart(open[1].ts),
                               cells |-> aggregate[1].current])
  /\ open' = <<bar>>
  /\ aggregate' = NewAggregate(IntCols, <<bar>>)

AppendOne(batch) ==
  /\ IsLive(batch)
  /\ LiveBar(batch[1]) \/ LiveRollOver(batch[1])
  /\ Taken(batch)

(* The open period's bars and the batch, appended by label.                *)
Raw(batch) ==
  IF open = <<>> THEN batch ELSE DedupKeepLast(open \o batch)

AppendMany(batch) ==
  LET raw     == Raw(batch)
      periods == PeriodsOf(raw)
      coarse  == Cumulate(IntCols, raw)
      closing == Front(coarse)
      next    == DedupKeepLast(BarsIn(raw, LastOf(periods)))
  IN  /\ ~IsLive(batch)
      /\ IF \/ batch = <<>>
            \/ \E i \in 1 .. Len(batch) : batch[i].ts = NaT
            \/ ~Ordered(open \o batch)
            \/ \E i \in 1 .. Len(closing) : Overflows(closing[i].cells)
         THEN Refused
         ELSE /\ closed' = closed \o closing
              /\ open' = next
              /\ aggregate' = NewAggregate(IntCols, next)
              /\ Taken(batch)

AppendBars == \E batch \in Batches : AppendOne(batch) \/ AppendMany(batch)

(* frame(), last() or into_parts: the open period's row, or the error of   *)
(* reducing it.                                                            *)
Last ==
  LET row == Reduce(IntCols, open)
  IN  /\ open # <<>>
      /\ answer' = IF aggregate = NoAggregate /\ Overflows(row)
                   THEN "overflow" ELSE "read"
      /\ UNCHANGED <<closed, open, aggregate, fed>>

Next == AppendBars \/ Last

Spec == Init /\ [][Next]_vars
-----------------------------------------------------------------------------
(* However the bars came in - one by one, in batches, re-sent, through a   *)
(* stretch in which the open period overflowed - the coarse rows are those *)
(* of cumulating, at once, all bars taken (cumulate.rs cumulate).          *)
IncrementalIsBatch ==
  LET whole == Cumulate(IntCols, fed)
  IN  IF fed = <<>> THEN closed = <<>> /\ open = <<>>
      ELSE /\ closed = Front(whole)
           /\ open = BarsIn(fed, PeriodStart(LastOf(fed).ts))

(* What a coarse cell v of the values xs is, said without a fold.          *)
Means(c, xs, v) ==
  LET rows == 1 .. Len(xs)
      total[i \in 0 .. Len(xs)] == IF i = 0 THEN 0 ELSE total[i - 1] + xs[i]
  IN  IF \E i \in rows : xs[i] = Missing THEN v = Missing
      ELSE CASE AggOf[c] = "first" -> v = xs[1]
             [] AggOf[c] = "last"  -> v = LastOf(xs)
             [] AggOf[c] = "max" -> /\ \A i \in rows : xs[i] <= v
                                    /\ \E i \in rows : xs[i] = v
             [] AggOf[c] = "min" -> /\ \A i \in rows : v <= xs[i]
                                    /\ \E i \in rows : xs[i] = v
             [] AggOf[c] = "sum" -> /\ v = total[Len(xs)]
                                    /\ c \in IntCols => v \in Ints

(* Every closed row, and the running one while there is one, holds the     *)
(* first, last, greatest, least or total value of its period's bars, each  *)
(* timestamp once, and is missing if one of them is (fold.rs:10).          *)
RowsMeanTheirBars ==
  LET values(p, c) == LET bars == BarsIn(fed, p)
                      IN  [i \in 1 .. Len(bars) |-> bars[i].cells[c]]
  IN  \A c \in Cols :
        /\ \A i \in 1 .. Len(closed) :
             Means(c, values(closed[i].ts, c), closed[i].cells[c])
        /\ aggregate # NoAggregate =>
             Means(c, values(PeriodStart(open[1].ts), c), aggregate[1].current[c])
=============================================================================
