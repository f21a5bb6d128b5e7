---------------------------- MODULE KernelFrames ----------------------------
(***************************************************************************)
(* What a cached column keeps of its command between two refreshes: a      *)
(* frame of the kernel's words and of the operand rows its next step may   *)
(* read (kernel, reach, count, tail) and the absolute row it started at.   *)
(* A recursive kernel sees complete rows only; one that has no words yet   *)
(* (warm) keeps all the rows it has seen instead.                          *)
(***************************************************************************)
EXTENDS KernelTable

(* The rows a recursive kernel sees: the ones where every column it reads  *)
(* is present.  They are all rows of a frame, all after a leading gap, or  *)
(* a list; Gather takes them out, Scatter puts a result back.  Rows are    *)
(* numbered from 1, `end` counts the rows before one.                      *)
complete(fields, r) == \A f \in fields : ~IsMissing(r[f])
height(b) == Len(b)

AllRows == [form |-> "All"]
After(start) == [form |-> "After", start |-> start]
KeptRows(rows) == [form |-> "Kept", rows |-> rows]

CompleteOf(fields, b) ==
  LET start == CHOOSE i \in 0 .. Len(b) :
                 (i = Len(b) \/ complete(fields, b[i + 1])) /\ \A j \in 1 .. i : ~complete(fields, b[j])
      present == \A i \in start + 1 .. Len(b) : complete(fields, b[i])
  IN CASE present /\ start = 0 -> AllRows
       [] present -> After(start)
       [] OTHER -> KeptRows(SelectSeq([i \in 1 .. Len(b) |-> i], LAMBDA i : complete(fields, b[i])))

Gather(rows, b) ==
  CASE rows.form = "All" -> b
    [] rows.form = "After" -> SubSeq(b, rows.start + 1, Len(b))
    [] OTHER -> [i \in DOMAIN rows.rows |-> b[rows.rows[i]]]
\* How many complete rows there are among the first `end`.
Before(rows, end) ==
  CASE rows.form = "All" -> end
    [] rows.form = "After" -> IF end < rows.start THEN 0 ELSE end - rows.start
    [] OTHER -> Len(SelectSeq(rows.rows, LAMBDA i : i <= end))
Position(rows, i) ==
  CASE rows.form = "All" -> i [] rows.form = "After" -> rows.start + i [] OTHER -> rows.rows[i]
\* A missing row shows blank.
Scatter(rows, n, out, blank) ==
  CASE rows.form = "All" -> out
    [] rows.form = "After" -> [i \in 1 .. rows.start |-> blank] \o out
    [] OTHER -> [i \in 1 .. n |-> IF \E k \in DOMAIN rows.rows : rows.rows[k] = i
                                  THEN out[Before(rows, i)] ELSE blank]

OnCompleteRows(fields, b, Pass(_)) ==
  LET rows == CompleteOf(fields, b) IN Scatter(rows, Len(b), ValuesOf(Pass(Gather(rows, b))), NaN)
\* The words after the complete rows among the first `end`.
StateOnCompleteRows(fields, b, end, State(_)) ==
  LET upto == SubSeq(b, 1, end) IN State(Gather(CompleteOf(fields, upto), upto))

-----------------------------------------------------------------------------

NoFrame == [none |-> TRUE]
Least(x, y) == IF x < y THEN x ELSE y
IsRecursive(c) == SpecOf(c).history = "Recursive"
Reads(c) == SpecOf(c).fields
Reach(c) == LET s == SpecOf(c)
            IN IF s.history = "Recursive" THEN ResumeReach(s) ELSE Greater(ResumeReach(s), s.lookback)
WarmLimit(c) == 2 * (SpecOf(c).lookback + 1)

\* A full computation: a recursive kernel over the complete rows, any other over all.
OnItsRows(c, b, Pass(_)) == IF IsRecursive(c) THEN OnCompleteRows(Reads(c), b, Pass) ELSE ValuesOf(Pass(b))
Batch(c, b, o) == OnItsRows(c, b, LAMBDA x : PassOf(c, x, o))

CaptureRead(c, b, o, end, kernel) ==
  LET rows      == CompleteOf(Reads(c), b)
      available == IF IsRecursive(c) THEN Before(rows, end) ELSE end
      words     == IF IsRecursive(c) /\ available < Reach(c) THEN Unseeded ELSE kernel
      warm      == IsRecursive(c) /\ words = Unseeded
      reach     == IF warm THEN Least(available + 1, WarmLimit(c)) ELSE Reach(c)
      count     == IF warm THEN Least(available, reach) ELSE reach
      source    == IF IsRecursive(c) THEN Gather(rows, b) ELSE b
  IN IF (warm /\ count = reach) \/ (~warm /\ available < reach) THEN NoFrame
     ELSE [kernel |-> words, reach |-> reach, count |-> count, origin |-> o,
           tail |-> SubSeq(source, available - count + 1, available)]

\* The frame as of the first `end` rows.
StateOnItsRows(c, b, end, State(_)) ==
  IF IsRecursive(c) THEN StateOnCompleteRows(Reads(c), b, end, State) ELSE State(SubSeq(b, 1, end))
InitialState(c, b, o, end) ==
  LET upto == SubSeq(b, 1, end)
      kernel == StateOnItsRows(c, b, end, LAMBDA x : StateOf(c, x, o))
  IN IF ~Carries(SpecOf(c)) \/ (~IsRecursive(c) /\ kernel = Unseeded) THEN NoFrame
     ELSE CaptureRead(c, upto, o, end, kernel)

\* The rows that come after the frame's own: complete ones for a recursive kernel.
NewRows(c, b, from) ==
  SelectSeq([i \in 1 .. Len(b) - from |-> from + i], LAMBDA i : ~IsRecursive(c) \/ complete(Reads(c), b[i]))
Advance(c, f, added, kernel) ==
  LET joined == f.tail \o added
      keep   == Least(Len(joined), f.reach)
  IN [f EXCEPT !.kernel = kernel, !.count = Least(@ + Len(added), f.reach),
               !.tail = SubSeq(joined, Len(joined) - keep + 1, Len(joined))]

-----------------------------------------------------------------------------
\* One row after the frame: none when it has to be resumed or computed again.
NoStep == [ok |-> FALSE]
PlannedStep(c, f, o, row, bar) ==
  LET gathered == Append(f.tail, bar)
      origin   == o + row - f.count
      r        == StepOf(c, gathered, f.count + 1, f.kernel, origin)
  IN CASE SpecOf(c).resume # "Step" -> NoStep
       [] origin < 0 -> NoStep
       [] IsRecursive(c) /\ ~complete(Reads(c), bar) -> [ok |-> TRUE, v |-> NaN, frame |-> f]
       [] IsRecursive(c) /\ f.kernel = Unseeded -> NoStep
       [] r.w = Unseeded /\ f.kernel # Unseeded -> NoStep
       [] OTHER -> [ok |-> TRUE, v |-> r.v, frame |-> Advance(c, f, <<bar>>, r.w)]

\* The kernel over rows from .. Len(b) of what it is given, from the words before them.
\* A line over averages has no kernel for several rows: it steps through them.
SteppedLines == CompositeNames \cup StochNames \cup {"mavp"}
RunFrom(c, b, o, from, w) ==
  IF (SpecOf(c).resume = "Step" /\ ~IsRecursive(c)) \/ c.name \in SteppedLines
  THEN Resumed(LAMBDA s, i : WindowStep(c, b, i, s, o), w, from, Len(b))
  ELSE ResumeOf(c, b, from, w)
InPlace(c, f, b, from) ==
  /\ from >= f.count
  /\ f.count = f.reach \/ from = f.count
  /\ IsRecursive(c) =>
       \A i \in (IF from > f.reach THEN from - f.reach ELSE 0) + 1 .. Len(b) : complete(Reads(c), b[i])

NoResume == [ok |-> FALSE]
\* Rows from + 1 .. Len(b) of a frame of origin o, read through the trailing window
\* the column keeps of its operands.
Resume(c, f, b, o, from) ==
  LET start    == IF from > WarmLimit(c) THEN from - WarmLimit(c) ELSE 0
      window   == SubSeq(b, start + 1, Len(b))
      local    == from - start
      new      == NewRows(c, b, from)
      added    == [i \in DOMAIN new |-> b[new[i]]]
      gathered == f.tail \o added
      warm     == IsRecursive(c) /\ f.kernel = Unseeded
      inPlace  == InPlace(c, f, window, local)
      rows     == IF inPlace THEN [b |-> window, o |-> o + start, from |-> local]
                  ELSE [b |-> gathered, o |-> o + from - f.count, from |-> f.count]
      run      == CASE warm -> SubSeq(PassOf(c, gathered, f.origin), f.count + 1, Len(gathered))
                    [] ~inPlace /\ added = << >> -> << >>
                    [] OTHER -> RunFrom(c, rows.b, rows.o, rows.from, f.kernel)
      values   == [i \in 1 .. Len(b) - from |->
                     IF \E k \in DOMAIN new : new[k] = from + i
                     THEN run[CHOOSE k \in DOMAIN new : new[k] = from + i].v ELSE NaN]
      kernel   == IF run = << >> THEN f.kernel ELSE run[Len(run)].w
  IN CASE warm /\ added = << >> -> [ok |-> TRUE, values |-> values, frame |-> f]
       [] warm -> [ok |-> TRUE, values |-> values,
                   frame |-> CaptureRead(c, gathered, f.origin, Len(gathered), kernel)]
       [] added # << >> /\ run = Refused -> NoResume
       [] f.kernel # Unseeded /\ kernel = Unseeded -> NoResume
       [] OTHER -> [ok |-> TRUE, values |-> values, frame |-> Advance(c, f, added, kernel)]

-----------------------------------------------------------------------------
(* A full computation of a cached line and the frames it is continued      *)
(* from: the one after the last row, the one before it, and those at the   *)
(* anchor rows, all from one pass over the rows where the command has a    *)
(* batch kernel that publishes its words, else from a short head that is   *)
(* computed and then resumed, else captured from the rows again.           *)
CONSTANT AnchorSpacing      \* rows between two anchors

\* The row counts at which an anchor is formed, the last row excluded.
Marks(o, n) == {end \in 1 .. n - 1 : (o + end) % AnchorSpacing = 0}
Ascending(ends) ==
  LET n == CHOOSE k \in 0 .. 64 : \A e \in ends : e <= k
  IN SelectSeq([i \in 1 .. n |-> i], LAMBDA i : i \in ends)

RecursivePasses == {"ema", "dema", "tema", "kama", "t3", "rsi", "crsi", "stochrsi.k", "stochrsi.d", "mama", "mama.fama"}
                     \cup SmiNames
WindowPasses == {"wma", "trima", "sum", "cci", "boll", "boll.upper", "boll.lower", "bbw", "accbands", "vwma",
                 "var", "stddev", "mfi", "hv", "hma", "bbi", "dpo", "kst", "coppock", "cog", "correl", "beta",
                 "vr", "imi", "emv", "cmf", "ultosc", "relative_vigor", "relative_vigor.signal", "dkx", "dkx.ma",
                 "wvad", "mavp"} \cup AccbandEdges \cup LinregNames \cup CompositeNames \cup StochNames
HasPass(c) ==
  LET name == Bound(c).name
  IN name \in RecursivePasses \cup WindowPasses \/ name = "ma"

NoPass == [ok |-> FALSE]
Failed == [ok |-> FALSE, failed |-> TRUE]
Passed(values, before, after, points) ==
  [ok |-> TRUE, shown |-> values, prior |-> before, after |-> after, points |-> points]
\* Mutant: filed one row late.
PointLate(end, frame) == [end |-> end + 1, frame |-> frame]
Point(end, frame) == [end |-> end, frame |-> frame]

\* The words a pass published: the missing last row of a recursion left them as they were.
PassOfRecursion(c, b, o, marks) ==
  LET n    == Len(b)
      rows == CompleteOf(Reads(c), b)
      run  == PassOf(c, Gather(rows, b), o)
      m    == Len(run)
      last == IF complete(Reads(c), b[n]) THEN m - 1 ELSE m
      Words(count) == IF count = 0 THEN Unseeded ELSE run[count].w
      Frame(end, words) == CaptureRead(c, b, o, end, words)
      points == [end \in marks |-> Frame(end, Words(Before(rows, end)))]
  IN IF m < 2 \/ run[m].w = Unseeded \/ run[m - 1].w = Unseeded THEN NoPass
     ELSE IF Frame(n, run[m].w) = NoFrame \/ Frame(n - 1, run[last].w) = NoFrame
               \/ \E end \in marks : Words(Before(rows, end)) = Unseeded /\ Before(rows, end) > SpecOf(c).lookback
          THEN NoPass
     ELSE Passed(Scatter(rows, n, ValuesOf(run), NaN), Frame(n - 1, run[last].w), Frame(n, run[m].w),
                 {Point(end, points[end]) : end \in {e \in marks : points[e] # NoFrame}})
PassOfWindow(c, b, o) ==
  LET n     == Len(b)
      run   == PassOf(c, b, o)
      Frame(end) == CaptureRead(c, b, o, end, run[end].w)
  IN IF run[n].w = Unseeded \/ run[n - 1].w = Unseeded THEN NoPass
     ELSE IF Frame(n) = NoFrame \/ Frame(n - 1) = NoFrame THEN Failed
     ELSE Passed(ValuesOf(run), Frame(n - 1), Frame(n), {})

\* A head past the warm-up, then resumed from mark to mark, to the last row, and over it.
ResumedPass(c, b, o, marks) ==
  LET n      == Len(b)
      long   == 2 * (SpecOf(c).lookback + 1)
      early  == {e \in marks : e < long /\ \A d \in marks : e <= d}
      head   == IF early = {} THEN long ELSE CHOOSE e \in early : TRUE
      stops  == Ascending({e \in marks : e > head /\ e < n - 1}) \o <<n - 1, n>>
      first  == InitialState(c, b, o, head)
      start  == [ok |-> first # NoFrame, frame |-> first, prior |-> first, from |-> head,
                 values |-> Batch(c, SubSeq(b, 1, head), o),
                 points |-> IF head \in marks THEN {Point(head, first)} ELSE {}]
      Go(s, k) ==
        LET end == stops[k]
            r   == Resume(c, s.frame, SubSeq(b, 1, end), o, s.from)
        IN IF ~s.ok \/ ~r.ok \/ r.frame = NoFrame THEN [s EXCEPT !.ok = FALSE]
           ELSE [ok |-> TRUE, frame |-> r.frame, prior |-> s.frame, from |-> end,
                 values |-> Evaluated(s.values \o r.values),
                 points |-> IF end \in marks THEN s.points \cup {Point(end, r.frame)} ELSE s.points]
      done   == Folded(Go, start, 1, Len(stops))
  IN IF done.ok THEN Passed(done.values, done.prior, done.frame, done.points) ELSE Failed

OnePass(c, b, o, marks) ==
  LET pass == IF ~HasPass(c) THEN NoPass
              ELSE IF IsRecursive(c) THEN PassOfRecursion(c, b, o, marks) ELSE PassOfWindow(c, b, o)
  IN IF ~Carries(SpecOf(c)) \/ Len(b) < 2 * (SpecOf(c).lookback + 1) + 2 THEN NoPass
     ELSE IF pass = NoPass THEN ResumedPass(c, b, o, marks) ELSE pass

\* The frame before the last row, captured, and the last row's continuation from it.
Captured(c, b, o) ==
  LET n      == Len(b)
      at     == [end \in {n - 1, n} |-> InitialState(c, b, o, end)]
      before == at[n - 1]
      last   == Resume(c, before, b, o, n - 1)
      after  == IF n = 0 THEN NoFrame
                ELSE IF before # NoFrame /\ last.ok /\ last.frame # NoFrame THEN last.frame ELSE at[n]
  IN Passed(Batch(c, b, o), IF after = NoFrame THEN NoFrame ELSE before, after, {})
ComputedAt(c, b, o, marks) ==
  LET pass == OnePass(c, b, o, marks) IN IF pass.ok THEN pass ELSE Captured(c, b, o)

=============================================================================
