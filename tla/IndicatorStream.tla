--------------------------- MODULE IndicatorStream ---------------------------
(***************************************************************************)
(* A cached indicator column over a frame that grows, and whose last row   *)
(* may be written again while its bar forms.  The column keeps the values  *)
(* shown, the frame carried after the last row and the one before it; a    *)
(* refresh steps, resumes, or computes every row again.                    *)
(***************************************************************************)
EXTENDS ChainedFrames, FiniteSets

CONSTANTS Commands,         \* the directives a stream may run
          Starts,           \* series, with the absolute position of their first row
          Execute,          \* the engine, as functions (see ChainedFrames): the values over
          ExecuteForCache,  \* rows, those with the frames a column is continued from, the
          FrameAt,          \* frame after some of the rows, the rows after a frame resumed,
          ExecuteResume,    \* and the one row after it stepped
          ExecuteResumeStep,
          BarOf(_, _),      \* the bar of a series at a row
          MissingBar(_),    \* a bar with the columns of a command missing
          ExtraRows,        \* rows beyond the warm-up
          PassRows,         \* rows a stream may have to reach its one-pass computation
          LongLookback,     \* a warm-up that is not streamed row by row
          MaxOdd            \* rows that differ from their series

VARIABLES cmd, plan, origin, series, rows, shown, prior, after
vars == <<cmd, plan, origin, series, rows, shown, prior, after>>

\* A stream of a long warm-up starts shortly before the command's first value.
IsLong == plan.lookback > LongLookback
FirstRows == IF IsLong THEN plan.lookback - 1 ELSE 0
MaxRows ==
  LET past == plan.lookback + (IF IsLong THEN ExtraRows - 2 ELSE ExtraRows)
      pass == plan.span + 2
  IN IF Chained(cmd) THEN pass ELSE IF pass <= PassRows THEN Greater(past, pass) ELSE past
Odd(b) == {i \in DOMAIN b : b[i] # BarOf(series, i)}
Bars(i) == {BarOf(series, i), BarOf(series, i + 1), MissingBar(cmd)}

Init ==
  /\ cmd \in Commands
  /\ plan = PlanOf(cmd)
  /\ \E start \in Starts : series = start[1] /\ origin = start[2]
  /\ rows = [i \in 1 .. FirstRows |-> BarOf(series, i)]
  /\ LET new == ExecuteForCache[cmd, rows, origin]
     IN shown = new.shown /\ prior = new.prior /\ after = new.after

\* The rows after the first `from`, of which `before` is the frame.
Refreshed(before, from, b) ==
  LET n     == Len(b)
      step  == ExecuteResumeStep[cmd, before, b, origin, n - 1]
      held  == [ok |-> before # NoFrame, from |-> from, shown |-> SubSeq(shown, 1, from),
                prior |-> NoFrame, after |-> before]
      UpTo(s, end) ==
        LET r == ExecuteResume[cmd, s.after, SubSeq(b, 1, end), origin, s.from]
        IN IF ~s.ok \/ s.from = end THEN s
           ELSE IF ~r.ok \/ r.frame = NoFrame THEN [s EXCEPT !.ok = FALSE]
           ELSE [ok |-> TRUE, from |-> end, shown |-> s.shown \o r.values, prior |-> s.after, after |-> r.frame]
      resumed == Folded(UpTo, held, n - 1, n)
  IN IF held.ok /\ from = n - 1 /\ step.ok
     THEN [shown |-> Append(held.shown, step.v), prior |-> before, after |-> step.frame]
     ELSE IF resumed.ok THEN resumed ELSE ExecuteForCache[cmd, b, origin]
\* Mutant: the frame before the last row is not replaced.
PublishKeepsPrior(new, b) ==
  /\ shown' = new.shown /\ prior' = prior /\ after' = new.after
  /\ rows' = b
  /\ UNCHANGED <<cmd, plan, origin, series>>
Publish(new, b) ==
  /\ shown' = new.shown /\ prior' = new.prior /\ after' = new.after
  /\ rows' = b
  /\ UNCHANGED <<cmd, plan, origin, series>>
Refresh(before, from, b) == \E new \in {Refreshed(before, from, b)} : Publish(new, b)

\* The frame gains a row, or several before the column is read again.
Grow ==
  \E bar \in Bars(Len(rows) + 1) :
     /\ Len(rows) < MaxRows
     /\ Cardinality(Odd(Append(rows, bar))) <= MaxOdd
     /\ Refresh(after, Len(rows), Append(rows, bar))
GrowMany ==
  \E k \in 2 .. 3 :
     /\ Len(rows) + k <= MaxRows
     /\ Refresh(after, Len(rows), rows \o [i \in 1 .. k |-> BarOf(series, Len(rows) + i)])
\* Mutant: the frame that already holds the last row is continued over it.
ReviseLastFromAfter ==
  \E bar \in Bars(Len(rows)) :
     LET n == Len(rows)
         b == [rows EXCEPT ![n] = bar]
     IN /\ n > 0 /\ b # rows
        /\ Cardinality(Odd(b)) <= MaxOdd
        /\ Refresh(after, n - 1, b)
\* The last row is written again: the column goes on from the frame before it.
ReviseLast ==
  \E bar \in Bars(Len(rows)) :
     LET n == Len(rows)
         b == [rows EXCEPT ![n] = bar]
     IN /\ n > 0 /\ b # rows
        /\ Cardinality(Odd(b)) <= MaxOdd
        /\ Refresh(prior, n - 1, b)
\* The column is computed and cached anew over the rows there are.
Recache == \E new \in {ExecuteForCache[cmd, rows, origin]} : rows # << >> /\ Publish(new, rows)

Next == Grow \/ GrowMany \/ ReviseLast \/ Recache
Spec == Init /\ [][Next]_vars

-----------------------------------------------------------------------------
\* However it was refreshed, the column shows what computing every row shows.
ShownExact == shown = Execute[cmd, rows, origin]
\* The frames it carries are the ones a fresh capture of its rows gives.
FramesExact ==
  LET n == Len(rows)
  IN /\ after = IF n = 0 THEN NoFrame ELSE FrameAt[cmd, rows, origin, n]
     /\ prior = IF n = 0 THEN NoFrame ELSE FrameAt[cmd, rows, origin, n - 1]
\* A replay from any anchor of the computing pass shows the rows after it again, and
\* ends with the frame the column carries.
AnchorsReplay ==
  plan.carried /\ Marks(origin, Len(rows)) # {} => \A p \in ExecuteForCache[cmd, rows, origin].points :
    LET replay == ExecuteResume[cmd, p.frame, rows, origin, p.end]
    IN replay.ok => /\ replay.values = SubSeq(shown, p.end + 1, Len(rows))
                    /\ replay.frame \in {after, NoFrame}
\* No row shows a value before the command has the rows it declares, nor at a
\* missing row of a recursive command; a run of true rows and a cross may be false
\* before, and kdj, which reads the rows there are, shows values while its window grows.
EarlyFalse(c) == c.name \in {"increase", "repeat"} \/ (Chained(c) /\ c.top.op \in Crosses)
Growing == {"kdj.k", "kdj.d", "kdj.j"}
WarmUp ==
  LET complete_rows == CompleteOf(plan.reads, rows)
  IN \A i \in DOMAIN rows :
       (shown[i] # NaN /\ ~(EarlyFalse(cmd) /\ shown[i] = 0)) =>
         /\ cmd.name \in Growing
              \/ (IF plan.carried THEN Before(complete_rows, i) ELSE i) > plan.lookback
         /\ (plan.carried /\ ~Chained(cmd)) => complete(plan.reads, rows[i])
\* A command that reads a finite window shows what that window alone gives.
WindowAlone ==
  LET n     == Len(rows)
      reach == plan.reach
  IN (~plan.carried /\ n > reach) =>
       shown[n] = Execute[cmd, SubSeq(rows, n - reach, n), origin + n - reach - 1][reach + 1]

=============================================================================
