---------------------------- MODULE TimeFrameFold ----------------------------
(***************************************************************************)
(* A time-frame frame (volas-python frame_tf.rs): its last row is the      *)
(* forming bar of the open period.  `append' folds finer bars into it, or  *)
(* starts a new row; a user may write cells, add columns and change their  *)
(* type, and the open period follows or refuses.                           *)
(*                                                                         *)
(* A frame cut from the end of another keeps, when it has cached columns,  *)
(* rows before its first one (its lead).  An integer column over a lead of *)
(* floats takes only integers that are exact floats.                       *)
(***************************************************************************)
EXTENDS PeriodFold

CONSTANTS
  LateCols,   \* columns a frame may get later
  FloatCols,  \* columns that may be of floats; the others are of integers
  MaxExact,   \* 2^53
  Cuts,       \* whether a tail with a lead may be taken
  Candles,    \* the cells of a bar, over all columns
  Values,     \* what a user may write
  MaxTs,      \* bound: timestamps
  MaxBatch    \* bound: bars of a batch

ASSUME TimeFrameFoldAssumption ==
  /\ LateCols \subseteq Cols /\ FloatCols \subseteq Cols
  /\ MaxExact \in Nat /\ Cuts \in BOOLEAN
  /\ Candles \subseteq [Cols -> Int \cup {Missing}]
  /\ Values \subseteq Int \cup {Missing}
  /\ MaxTs \in Nat /\ MaxBatch \in Nat

VARIABLES
  data,       \* the data columns of the frame
  ints,       \* those of integers
  lead,       \* the columns that the rows of its lead hold as floats
  rows,       \* its rows: label and cells; a column not in `data' is missing
  open,       \* TfState::open, <<>> while there is no row
  openKey,    \* TfState::open_key, NoKey until known
  aggregate,  \* TfState::aggregate
  refold,     \* TfState::refold_next
  answer

vars == <<data, ints, lead, rows, open, openKey, aggregate, refold, answer>>

NaT   == -1
NoKey == -2

Bars == [ts : {NaT} \cup 0 .. MaxTs, cells : Candles]

(* A bar as the frame's data columns take it: others become missing.       *)
Admitted(bar) ==
  [bar EXCEPT !.cells = [c \in Cols |-> IF c \in data THEN @[c] ELSE Missing]]

AdmittedBars(batch) == [i \in 1 .. Len(batch) |-> Admitted(batch[i])]

FitsType(c, v) == v = Missing \/ v \in Ints

IsExactFloat(v) == v = Missing \/ v \in -MaxExact .. MaxExact

(* check_lead_values: `held' is what the lead holds as floats.             *)
FitsLead(held, c, v) == c \in ints \cap held => IsExactFloat(v)

Fits(c, v) == (c \in ints => FitsType(c, v)) /\ FitsLead(lead, c, v)

LeadTakes(held, cells) == \A c \in Cols : FitsLead(held, c, cells[c])

-----------------------------------------------------------------------------
(* The fold.  What it works on is a record of the variables it changes;    *)
(* `held' is empty on a probe, which has the forming row alone.            *)
FoldState == [rows |-> rows, open |-> open, key |-> openKey,
              agg |-> aggregate, refold |-> refold, ok |-> TRUE]

Failing(f) == [f EXCEPT !.ok = FALSE]

SetForming(f, cells) ==
  [f EXCEPT !.rows = Append(Front(@), [LastOf(@) EXCEPT !.cells = cells])]

(* The open period's key is asked for once and remembered.                 *)
WithKey(f) ==
  IF f.open = <<>> \/ f.key # NoKey THEN f
  ELSE [f EXCEPT !.key = PeriodStart(LastOf(f.open).ts)]

(* Faulty variant: the key stays that of the period before.                *)
RollOverKeepKey(f, bar) ==
  [f EXCEPT !.rows = Append(@, [ts |-> PeriodStart(bar.ts), cells |-> bar.cells]),
            !.agg  = IF @ = NoAggregate THEN @ ELSE <<Restarted(@[1], bar)>>,
            !.open = <<bar>>, !.refold = FALSE]

(* The first bar of a later period: a new row, a new open period.          *)
RollOver(f, bar) ==
  [f EXCEPT !.rows = Append(@, [ts |-> PeriodStart(bar.ts), cells |-> bar.cells]),
            !.agg  = IF @ = NoAggregate THEN @ ELSE <<Restarted(@[1], bar)>>,
            !.open = <<bar>>, !.key = PeriodStart(bar.ts), !.refold = FALSE]

(* A re-sent bar, or the first one after a column was added: the forming   *)
(* row becomes the running aggregate.  The aggregate has taken the bar     *)
(* when the lead refuses the row.                                          *)
PublishAggregate(held, f, bar, resent) ==
  LET pushed == PushedAggregate(ints, f.agg[1], bar, resent)
      g == [f EXCEPT !.agg = <<pushed.agg>>]
  IN  IF ~pushed.ok THEN Failing(f)
      ELSE IF ~LeadTakes(held, pushed.agg.current) THEN Failing(g)
      ELSE [SetForming(g, pushed.agg.current) EXCEPT
              !.open = Pushed(@, bar), !.refold = FALSE]

(* The same over an open period that does not aggregate as it is.          *)
RefoldPeriod(held, f, bar) ==
  LET next == Pushed(f.open, bar)
      cells == Reduce(ints, next)
  IN  IF Overflows(cells) \/ ~LeadTakes(held, cells) THEN Failing(f)
      ELSE [SetForming(f, cells) EXCEPT
              !.open = next, !.agg = NewAggregate(ints, next), !.refold = FALSE]

(* A new bar: folded into the forming row's cells.                         *)
FoldIntoForming(held, f, bar) ==
  LET cells  == Fold(ints, LastOf(f.rows).cells, bar)
      ok     == ~Overflows(cells) /\ LeadTakes(held, cells)
      pushed == PushedAggregate(ints, f.agg[1], bar, FALSE)
      agg    == IF f.agg # NoAggregate /\ ok /\ pushed.ok
                THEN <<pushed.agg>> ELSE NoAggregate
      g      == [f EXCEPT !.agg = agg]
  IN  IF ~ok THEN Failing(g)
      ELSE [SetForming(g, cells) EXCEPT !.open = Pushed(@, bar), !.refold = FALSE]

(* Faulty variant: a re-sent bar is folded in like a new one.              *)
FoldBarTwice(held, f0, bar) ==
  LET f == WithKey(f0)
      g == [f EXCEPT !.agg = IF @ = NoAggregate THEN NewAggregate(ints, f.open) ELSE @]
  IN  IF f.open = <<>> \/ f.key # PeriodStart(bar.ts) THEN RollOver(f, bar)
      ELSE FoldIntoForming(held, g, bar)

FoldBar(held, f0, bar) ==
  LET f == WithKey(f0)
      g == [f EXCEPT !.agg = IF @ = NoAggregate THEN NewAggregate(ints, f.open) ELSE @]
      resent == LastOf(f.open).ts = bar.ts
  IN  IF f.open = <<>> \/ f.key # PeriodStart(bar.ts) THEN RollOver(f, bar)
      ELSE IF ~(resent \/ f.refold) THEN FoldIntoForming(held, g, bar)
      ELSE IF g.agg # NoAggregate THEN PublishAggregate(held, g, bar, resent)
      ELSE RefoldPeriod(held, g, bar)

(* fold_bars: one by one, until one fails.                                 *)
FoldBars(held, f, bars) ==
  LET folded[i \in 0 .. Len(bars)] ==
        IF i = 0 THEN f
        ELSE IF ~folded[i - 1].ok THEN folded[i - 1]
        ELSE FoldBar(held, folded[i - 1], bars[i])
  IN  folded[Len(bars)]

(* Faulty variant: nothing is tried before the frame is touched.           *)
ProbeNothing(bars) == TRUE

(* Several bars are tried on the forming row alone.                        *)
Probe(bars) ==
  Len(bars) > 1 =>
    FoldBars({}, [FoldState EXCEPT !.rows = IF @ = <<>> THEN @ ELSE <<LastOf(@)>>],
             bars).ok

InOrder(bars) ==
  /\ \A i \in 1 .. Len(bars) : bars[i].ts # NaT
  /\ Ordered(IF open = <<>> THEN bars ELSE <<LastOf(open)>> \o bars)

Refused == answer' = "refused" /\
           UNCHANGED <<data, ints, lead, rows, open, openKey, aggregate, refold>>

FoldAppend(batch) ==
  LET bars == AdmittedBars(batch)
      f    == FoldBars(lead, FoldState, bars)
  IN  IF \/ \E i \in 1 .. Len(bars), c \in Cols : ~Fits(c, bars[i].cells[c])
         \/ ~InOrder(bars)
         \/ ~Probe(bars)
      THEN Refused
      ELSE /\ rows' = f.rows /\ open' = f.open /\ openKey' = f.key
           /\ aggregate' = f.agg /\ refold' = f.refold
           /\ answer' = IF f.ok THEN "folded" ELSE "refused"
           /\ UNCHANGED <<data, ints, lead>>

-----------------------------------------------------------------------------
(* TfState::follow, for one column that becomes `cells' of integers or     *)
(* not: its bars stay when they take the type and the forming cell stays,  *)
(* a single bar is rewritten, several are not.                             *)
KeepsBars(c, int, forming) ==
  /\ forming = LastOf(rows).cells[c]
  /\ int => \A i \in 1 .. Len(open) : FitsType(c, open[i].cells[c])

(* Faulty variant: the aggregate of before is kept.                        *)
FollowKeepAggregate(c, int, forming) ==
  /\ KeepsBars(c, int, forming) \/ Len(open) = 1
  /\ open' = IF KeepsBars(c, int, forming) THEN open
             ELSE [open EXCEPT ![1].cells[c] = forming]
  /\ UNCHANGED <<aggregate, openKey>>

Follow(c, int, forming) ==
  /\ KeepsBars(c, int, forming) \/ Len(open) = 1
  /\ open' = IF KeepsBars(c, int, forming) THEN open
             ELSE [open EXCEPT ![1].cells[c] = forming]
  /\ aggregate' = NoAggregate
  /\ UNCHANGED openKey

(* A cell of a closed row: nothing follows.                                *)
WriteClosed(r, c, v) ==
  /\ r < Len(rows)
  /\ rows' = [rows EXCEPT ![r].cells[c] = v]
  /\ answer' = "written"
  /\ UNCHANGED <<data, ints, lead, open, openKey, aggregate, refold>>

(* A cell of the forming row.                                              *)
WriteForming(r, c, v) ==
  /\ r = Len(rows)
  /\ \/ /\ Follow(c, c \in ints, v)
        /\ rows' = [rows EXCEPT ![r].cells[c] = v]
        /\ answer' = "written"
        /\ UNCHANGED <<data, ints, lead, refold>>
     \/ /\ ~(KeepsBars(c, c \in ints, v) \/ Len(open) = 1)
        /\ Refused

WriteCell ==
  \E r \in 1 .. Len(rows), c \in data, v \in Values :
    IF Fits(c, v) THEN WriteClosed(r, c, v) \/ WriteForming(r, c, v) ELSE Refused

(* df[c] = its own values as integers.                                     *)
ToIntegers ==
  \E c \in (data \cap FloatCols) \ ints :
    /\ rows # <<>>
    /\ \A r \in 1 .. Len(rows) : FitsType(c, rows[r].cells[c])
    /\ c \in lead => \A r \in 1 .. Len(rows) : IsExactFloat(rows[r].cells[c])
    /\ Follow(c, TRUE, LastOf(rows).cells[c])
    /\ ints' = ints \cup {c}
    /\ answer' = "written"
    /\ UNCHANGED <<data, lead, rows, refold>>

(* df[c] = v: a column the bars do not carry enters them as missing.       *)
AddColumn ==
  \E c \in LateCols \ data, v \in Values :
    /\ FitsType(c, v)
    /\ data' = data \cup {c}
    /\ rows' = [r \in 1 .. Len(rows) |-> [rows[r] EXCEPT !.cells[c] = v]]
    /\ aggregate' = NoAggregate
    /\ refold' = (refold \/ rows # <<>>)
    /\ answer' = "written"
    /\ UNCHANGED <<ints, lead, open, openKey>>

(* The last rows as a frame of their own, which goes on folding.  Its lead *)
(* is empty (nothing reads before its rows), the rows cut, or those after  *)
(* rows of the old lead, all of them as floats if some are.                *)
CutTail ==
  /\ Cuts /\ Len(rows) > 1
  /\ rows' = Tail(rows)
  /\ LET cut == (data \cap FloatCols) \ ints
     IN  lead' \in {{}, cut, cut \cup lead}
  /\ answer' = "cut"
  /\ UNCHANGED <<data, ints, open, openKey, aggregate, refold>>

-----------------------------------------------------------------------------
Batches == UNION {[1 .. n -> Bars] : n \in 1 .. MaxBatch}

(* The bars a frame may be built from.                                     *)
Histories ==
  {bars \in {AdmittedBars(b) : b \in {<<>>} \cup Batches} :
     /\ Ordered(bars)
     /\ \A i \in 1 .. Len(bars) :
          bars[i].ts # NaT /\ \A c \in ints : FitsType(c, bars[i].cells[c])}

(* A frame of rows taken as bars of the time frame, the last one forming.  *)
Seeded(bars) ==
  /\ bars = DedupKeepLast(bars)
  /\ \A i \in 1 .. Len(bars) : bars[i].ts = PeriodStart(bars[i].ts)
  /\ rows = bars
  /\ open = IF bars = <<>> THEN <<>> ELSE <<LastOf(bars)>>
  /\ aggregate = NoAggregate

(* The result of `cumulate': its open period has its bars and aggregate.   *)
Cumulated(bars) ==
  LET coarse == Cumulate(ints, bars)
      last   == DedupKeepLast(BarsIn(bars, PeriodStart(LastOf(bars).ts)))
  IN  /\ bars # <<>>
      /\ \A i \in 1 .. Len(coarse) : ~Overflows(coarse[i].cells)
      /\ rows = coarse
      /\ open = last
      /\ aggregate = NewAggregate(ints, last)

Init ==
  /\ data = Cols \ LateCols
  /\ ints = Cols \ FloatCols
  /\ lead = {}
  /\ \E bars \in Histories : Seeded(bars) \/ Cumulated(bars)
  /\ openKey = NoKey
  /\ refold = FALSE
  /\ answer = "silent"

Next ==
  \/ \E batch \in Batches : FoldAppend(batch)
  \/ WriteCell
  \/ ToIntegers
  \/ AddColumn
  \/ CutTail

Spec == Init /\ [][Next]_vars
-----------------------------------------------------------------------------
(* Types; the open period is one bar per timestamp, of the period the last *)
(* row is labelled with, and the remembered key is that label.             *)
TypeOK ==
  /\ data \subseteq Cols /\ ints \subseteq Cols
  /\ lead \subseteq FloatCols /\ refold \in BOOLEAN
  /\ \A r \in 1 .. Len(rows) - 1 : rows[r].ts < rows[r + 1].ts
  /\ (open = <<>>) <=> (rows = <<>>)
  /\ \A i \in 1 .. Len(open) : PeriodStart(open[i].ts) = LastOf(rows).ts
  /\ \A i \in 1 .. Len(open) - 1 : open[i].ts < open[i + 1].ts
  /\ openKey # NoKey => rows # <<>> /\ openKey = LastOf(rows).ts
  /\ Len(aggregate) <= 1
  /\ answer \in {"silent", "folded", "refused", "written", "cut"}

(* The forming row is the cumulation of the open period's bars - whichever *)
(* way each bar came in, and after writes and changes of type - but in a   *)
(* column added since the last fold, which the bars hold as missing        *)
(* (frame_tf.rs:28).                                                       *)
FormingIsCumulation ==
  rows # <<>> =>
    \A c \in data :
      \/ LastOf(rows).cells[c] = Reduce({}, open)[c]
      \/ refold /\ \A i \in 1 .. Len(open) : open[i].cells[c] = Missing

(* The running aggregate, when there is one, is what the open bars reduce  *)
(* to, and its checkpoint what all but the last do (frame_tf.rs:49).       *)
AggregateExact ==
  aggregate # NoAggregate =>
    /\ aggregate[1].current = Reduce(ints, open)
    /\ aggregate[1].hasBefore <=> Len(open) > 1
    /\ aggregate[1].hasBefore =>
         aggregate[1].before = Reduce(ints, Front(open))

(* Folding bars one by one gives the rows of cumulating them at once after *)
(* the open period's bars; the rows that had closed stand.                 *)
FoldIsBatch ==
  \A batch \in Batches :
    LET bars == AdmittedBars(batch)
        f    == FoldBars({}, FoldState, bars)
        same == open # <<>> /\ PeriodStart(bars[1].ts) = LastOf(rows).ts
    IN  InOrder(bars) /\ f.ok =>
          f.rows = IF same THEN Front(rows) \o Cumulate({}, open \o bars)
                   ELSE rows \o Cumulate({}, bars)

(* A refused append leaves the rows and the open period as they were       *)
(* (frame_access.rs:376).                                                  *)
AllOrNothing ==
  [][answer' = "refused" => rows' = rows /\ open' = open]_vars
=============================================================================
