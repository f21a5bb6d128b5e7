--------------------------- MODULE RetainedFrames ---------------------------
(***************************************************************************)
(* One frame with a cached column, that lets rows go: a bounded frame      *)
(* drops its head as rows come in (volas-python frame_bounded.rs), and a   *)
(* contiguous selection of a frame continues its series without the rows   *)
(* before it (frame_derive.rs).  Both keep what HeldHistory says, and the  *)
(* refresh of a stale column (frame_refresh.rs) resumes, recomputes or     *)
(* replays from what was kept.                                             *)
(*                                                                         *)
(* The frame starts unbounded, its column just cached over its rows.  It   *)
(* may then be bounded (a copy made with window=), or replaced by a        *)
(* selection of it, in any order and any number of times.                  *)
(***************************************************************************)
EXTENDS HeldHistory

CONSTANTS
  Window,       \* window=
  Margin,       \* max_lookback=
  Companies,    \* whether another cached column may keep an older lead
  MaxRows,      \* bound: rows of the series
  MaxBatch,     \* bound: new rows of one append
  MaxChanges,   \* bound: rows rewritten
  MaxStart      \* bound: rows before the history's start

ASSUME RetainedAssumption ==
  /\ Window \in Nat \ {0} /\ Margin \in Nat /\ Companies \subseteq BOOLEAN
  /\ MaxRows \in Nat /\ MaxBatch \in Nat \ {0}
  /\ MaxChanges \in Nat /\ MaxStart \in Nat

VARIABLES
  shared,    \* whether the lead is kept for another cached column too
  series,    \* every row of the series up to the frame's last, kept or not
  start,     \* the rows before the column's history
  frame,     \* the rows and the record the frame keeps
  bounded,   \* whether it drops its head
  changes,   \* how many rows have been rewritten
  answer     \* what the last refresh did: "done", or "lost" when it raised

vars == <<column, shared, series, start, frame, bounded, changes, answer>>

m == frame.meta
height == Height(frame, series)
Fresh == m.valid = height

(* Faulty variant: the retention is the window and its margin.             *)
capacityTight == Window + Margin

(* WindowState.                                                            *)
capacity == Later(Window, 2) + Margin
bound    == 2 * capacity

(* The rows of the frame before the ones it shows (logical_range).         *)
Hidden == IF bounded THEN Later(height - Window, 0) ELSE 0

CachedMeta(cells, s, origin) ==
  LET n  == Len(s) - origin
      at == WithStates(NewMeta(cells, origin, n), origin,
                       IF Carried THEN History(s, origin, Len(s)) ELSE NoState,
                       IF Carried THEN History(s, origin, Len(s) - 1) ELSE NoState)
  IN  [field \in DOMAIN at \cup {"cp", "pending"} |->
         IF field \in DOMAIN at THEN at[field] ELSE NoPoint]

(* The anchors a computation over rows after `base' passes, or none (a     *)
(* short column).                                                          *)
PassedAnchors(s, base) ==
  {NoAnchors} \cup
  IF Carried
  THEN {[a \in {i \in base + 1 .. Len(s) - 1 : i % AnchorSpacing = 0} |->
           History(s, base, a)]}
  ELSE {}

Init ==
  /\ column \in Columns /\ shared \in Companies
  /\ start \in 0 .. MaxStart
  /\ series \in {[i \in 1 .. start + n |-> 0] : n \in 1 .. 2}
  /\ \E older \in IF shared THEN 0 .. start ELSE {0} :
       \E bank \in PassedAnchors(series, start) :
         LET cells == [i \in 1 .. Len(series) - start |->
                         ValueOver(series, start, start + i)]
         IN  frame = [origin |-> start, lead |-> older, cells |-> cells,
                      meta |-> KeepAnchors(CachedMeta(cells, series, start), bank)]
  /\ bounded = FALSE
  /\ changes = 0
  /\ answer = "done"

-----------------------------------------------------------------------------
(* Rows come in; a bounded frame at its bound drops its head.              *)

(* The record after the last row, after `last' others of the frame, was    *)
(* replaced.                                                               *)
LastReplaced(f, last) ==
  [FormingRowReplaced(f.meta, last) EXCEPT
     !.pending = IF @.rows > f.origin + last THEN NoPoint ELSE @]

(* The point a drop keeps: the one captured on the way, one the column has *)
(* already, or the one replayed now.                                       *)
DropPoint(f, s, rows) ==
  IF f.meta.pending.rows = rows THEN f.meta.pending
  ELSE IF f.meta.cp # NoPoint /\ f.meta.cp.rows >= rows THEN f.meta.cp
  ELSE CheckpointAt(f, s, rows)

DropReplays(f, rows) ==
  /\ f.meta.pending.rows # rows
  /\ ~(f.meta.cp # NoPoint /\ f.meta.cp.rows >= rows)

(* compact: the head is dropped down to the capacity.                      *)
Compacted(f, s) ==
  LET head   == Len(s) - capacity
      rows   == head + Operands
      moved  == Carried /\ f.meta.since < head
      known  == IF moved /\ DropReplays(f, rows) THEN AnchorsAfter(f, s, rows)
                                                 ELSE f.meta
      marked == IF moved
                THEN [known EXCEPT !.cp = DropPoint(f, s, rows),
                                   !.pending = IF @.rows = rows THEN NoPoint ELSE @]
                ELSE known
  IN  Selected([f EXCEPT !.meta = marked], s, head - f.origin, Len(s) - f.origin, 0)

AppendBatch(replacing, n) ==
  LET kept  == IF replacing THEN [series EXCEPT ![Len(series)] = changes + 1]
                            ELSE series
      grown == [frame EXCEPT
                  !.meta  = IF replacing THEN LastReplaced(frame, height - 1) ELSE @,
                  !.cells = @ \o [i \in 1 .. n |-> Missing]]
  IN  /\ replacing \/ n > 0
      /\ replacing => height > 0 /\ changes < MaxChanges
      /\ Len(series) + n <= MaxRows
      /\ series'  = kept \o [i \in 1 .. n |-> 0]
      /\ changes' = IF replacing THEN changes + 1 ELSE changes
      /\ frame'   = IF bounded /\ height + n >= bound THEN Compacted(grown, series')
                                                      ELSE grown
      /\ UNCHANGED <<column, shared, start, bounded, answer>>

AppendRows == \E replacing \in BOOLEAN, n \in 0 .. MaxBatch : AppendBatch(replacing, n)

(* A user rewrites a row the frame shows.                                  *)
WriteRow(i) ==
  /\ changes < MaxChanges
  /\ series'  = [series EXCEPT ![frame.origin + i] = changes + 1]
  /\ changes' = changes + 1
  /\ frame'   = [frame EXCEPT !.meta = [StaledByWrite(m) EXCEPT !.pending = NoPoint]]
  /\ UNCHANGED <<column, shared, start, bounded, answer>>

WriteSomeRow == \E i \in Hidden + 1 .. height : WriteRow(i)

-----------------------------------------------------------------------------
(* Selections, read through the gate: every cached column is fresh.        *)

SelectRows(a, b) ==
  /\ Fresh
  /\ \E other \in IF shared THEN 0 .. a + frame.lead ELSE {0} :
       frame' = Selected(frame, series, a, b, other)
  /\ series'  = SubSeq(series, 1, frame.origin + b)
  /\ bounded' = FALSE
  /\ UNCHANGED <<column, shared, start, changes, answer>>

SelectSomeRows ==
  \E a, b \in Hidden .. height : a <= b /\ SelectRows(a, b)

(* A selection taken aside: the frame it is taken from keeps the anchors   *)
(* its boundary formed.                                                    *)
SelectAside(a, b) ==
  /\ Fresh
  /\ BoundaryReplayed(frame, frame.origin + a, frame.origin + b)
  /\ frame' = [frame EXCEPT !.meta = AnchorsAfter(frame, series, frame.origin + a)]
  /\ UNCHANGED <<column, shared, series, start, bounded, changes, answer>>

SelectSomeAside ==
  \E a, b \in Hidden .. height : a <= b /\ SelectAside(a, b)

(* checkpoint_carried_states: a recursion none of whose points the frame   *)
(* keeps is checkpointed by the state it carries.                          *)
Checkpointed(f) ==
  IF Carried /\ f.meta.since < Base(f) /\ f.meta.cp = NoPoint /\
     ResumeReady(f.meta, f.origin)
  THEN [f EXCEPT !.meta.cp = [rows |-> f.origin + f.meta.valid, state |-> f.meta.state]]
  ELSE f

(* DataFrame(df, window=, max_lookback=): a copy, with the anchors before  *)
(* its last valid row, whose column must read no more than the margin.     *)
MakeBounded ==
  /\ ~bounded /\ Fresh
  /\ Lookback <= Margin
  /\ LET upto == frame.origin + m.valid
         copy == Checkpointed([frame EXCEPT !.meta.anchors =
                   [r \in {i \in DOMAIN @ : i < upto} |-> @[r]]])
     IN  frame' = IF height >= bound THEN Compacted(copy, series) ELSE copy
  /\ bounded' = TRUE
  /\ UNCHANGED <<column, shared, series, start, changes, answer>>

-----------------------------------------------------------------------------
(* The refresh of the stale column, one call.                              *)

Done(f) == [frame |-> f, answer |-> "done"]
Lost(f) == [frame |-> f, answer |-> "lost"]

Overwrite(cells, from, tail) ==
  [i \in 1 .. Len(cells) |-> IF i > from THEN tail[i] ELSE cells[i]]

(* continue_computed: rows after `from' take `tail', and the states are    *)
(* those of the last row and the one before.                               *)
ContinueComputed(f, from, tail, state, before) ==
  LET cells == Overwrite(f.cells, from, tail)
      noted == NoteWritten(f.meta, cells, f.origin, from, height)
  IN  [f EXCEPT !.cells = cells,
                !.meta  = [noted EXCEPT
                             !.valid   = height,
                             !.stateAt = f.origin + height - 1,
                             !.state   = state,
                             !.before  = IF height > 1 /\ state # NoState
                                         THEN before ELSE NoState]]

(* The row whose checkpoint the next drop keeps, when rows after `from'    *)
(* pass it and it is not kept yet (pending_row); no row is 0.              *)
PendingRow(f, from) ==
  LET row == capacity - 1 + Operands
      at  == f.origin + row + 1
  IN  IF bounded /\ Carried /\ from <= row /\ row < height /\ f.meta.pending.rows # at
      THEN at ELSE 0

(* Rows resumed from the carried state, over rows after `base'.            *)
ResumedOver(f, base, at) ==
  LET vr      == f.meta.valid
      done    == f.origin + vr
      end     == f.origin + height
      to(r)   == Continue(series, base, f.meta.state, done, r)
      cells   == Overwrite(f.cells, vr,
                   [i \in vr + 1 .. height |->
                      Shown(to(f.origin + i), f.meta.since, f.origin + i)])
      written == Written(f.meta, cells, f.origin, vr, height)
  IN  [f EXCEPT
         !.cells = cells,
         !.meta  = [written EXCEPT
                      !.state   = to(end),
                      !.before  = to(end - 1),
                      !.stateAt = end - 1,
                      !.pending = IF at # 0 THEN [rows |-> at, state |-> to(at)] ELSE @]]

(* replay_column: the rows after the column's point, from it.              *)
ReplayStart(f) ==
  LET cp == f.meta.cp
  IN  IF /\ cp # NoPoint
         /\ cp.rows <= f.origin + Later(f.meta.valid, Hidden)
         /\ cp.rows >= f.origin
      THEN cp
      ELSE CheckpointAt(f, series, f.origin)

ReplayKnown(f) ==
  IF ReplayStart(f) = f.meta.cp THEN f.meta ELSE AnchorsAfter(f, series, f.origin)

ReplayColumn(f, at) ==
  LET cp    == ReplayStart(f)
      end   == f.origin + height
      to(r) == Continue(series, Base(f), cp.state, cp.rows, r)
      from  == cp.rows - f.origin
      known == [f EXCEPT !.meta = ReplayKnown(f)]
      g     == ContinueComputed(known, from,
                 [i \in from + 1 .. height |->
                    Shown(to(f.origin + i), f.meta.since, f.origin + i)],
                 to(end), to(end - 1))
  IN  IF cp = NoPoint \/ cp.rows = end THEN Lost(known)
      ELSE Done([g EXCEPT !.meta.pending =
                   IF at # 0 /\ (at > cp.rows \/ at = end - 1)
                   THEN [rows |-> at, state |-> to(at)] ELSE @])

(* A computation over the rows after `base' (the frame's own, or the lead  *)
(* too): its values, states and the anchors passed.                        *)
ComputedRows(f, base) ==
  [i \in 1 .. height |-> ValueOver(series, base, f.origin + i)]

StateOver(base, r) == IF Carried THEN History(series, base, r) ELSE NoState

WarmFrame(f) == Warm(column, f.meta, f.origin)

(* refresh_led: over `off' rows of the lead.                               *)
RefreshLed(f, off, declines) ==
  LET base == f.origin - off
      vr   == f.meta.valid
      end  == f.origin + height
      from == IF WarmFrame(f) THEN vr ELSE 0
  IN  IF WarmFrame(f) /\ vr + off >= Resume /\ ResumeReady(f.meta, f.origin) /\ ~declines
      THEN {Done(ResumedOver(f, base, 0))}
      ELSE IF Carried /\ f.meta.since < base
      THEN {ReplayColumn(f, 0)}
      ELSE {LET known == [f EXCEPT !.meta = IF f.meta.since = base
                                            THEN KeepAnchors(@, bank) ELSE @]
            IN  Done(ContinueComputed(known, from, ComputedRows(f, base),
                       StateOver(base, end), StateOver(base, end - 1))) :
              bank \in PassedAnchors(series, base)}

(* recompute_stale.                                                        *)
RecomputeStale(f) ==
  LET vr     == f.meta.valid
      end    == f.origin + height
      span   == 2 * (Lookback + 1)
      from   == IF WarmFrame(f) THEN vr ELSE 0
      wrote(row, base) ==
        LET cells == Overwrite(f.cells, row, ComputedRows(f, base))
        IN  [f EXCEPT !.cells = cells,
                      !.meta  = Written(@, cells, f.origin, row, height)]
  IN  IF ~Carried /\ vr > span
      THEN {Done(wrote(vr, f.origin + vr - span))}
      ELSE IF Carried /\ f.meta.since < f.origin
      THEN {ReplayColumn(f, PendingRow(f, 0))}
      ELSE {LET g == wrote(from, f.origin)
                h == WithStates(g.meta, f.origin, StateOver(f.origin, end),
                                StateOver(f.origin, end - 1))
            IN  Done([g EXCEPT !.meta =
                        IF f.meta.since = f.origin THEN KeepAnchors(h, bank) ELSE h]) :
              bank \in PassedAnchors(series, f.origin)}

(* How many rows of the lead the refresh reads; 0 for none of them.        *)
LedRows(f, resumes) ==
  LET since  == f.meta.since
      needed == IF resumes /\ Carried THEN Resume ELSE LeadReach
      rows   == IF Carried /\ ~ResumeReady(f.meta, f.origin) /\ since + f.lead >= f.origin
                THEN f.origin - since
                ELSE Later(needed - f.meta.valid, 0)
  IN  IF since < f.origin
      THEN Earlier(Earlier(rows, f.origin - since), f.lead) ELSE 0

(* refresh_column.  `declines': the resume declines.                       *)
RefreshOutcomes(f, declines) ==
  LET can     == WarmFrame(f) /\ f.meta.valid >= Resume
      restore == /\ can /\ ~ResumeReady(f.meta, f.origin)
                 /\ f.meta.valid > 0 /\ Carried
                 /\ Restorable(f, f.origin + f.meta.valid)
      g       == IF restore THEN [f EXCEPT !.meta = Restored(f, series)] ELSE f
      resumes == can /\ ResumeReady(g.meta, g.origin)
      off     == LedRows(g, resumes)
  IN  IF off > 0 THEN RefreshLed(g, off, declines)
      ELSE IF resumes /\ ~declines
      THEN {Done(ResumedOver(g, g.origin, PendingRow(g, g.meta.valid)))}
      ELSE RecomputeStale(g)

Refresh ==
  /\ ~Fresh
  /\ \E declines \in BOOLEAN :
       \E out \in RefreshOutcomes(frame, declines) :
         frame' = out.frame /\ answer' = out.answer
  /\ UNCHANGED <<column, shared, series, start, bounded, changes>>

Next ==
  \/ AppendRows \/ WriteSomeRow
  \/ SelectSomeRows \/ SelectSomeAside \/ MakeBounded
  \/ Refresh

Spec == Init /\ [][Next]_vars
-----------------------------------------------------------------------------
ExactPoint(p) == p = NoPoint \/ p.state = History(series, start, p.rows)

(* Every row the frame shows and vouches for holds the value a computation *)
(* over the whole series would give it, whatever part of the series the    *)
(* frame still holds (frame_bounded.rs:10, derive.rs:6).                   *)
ShownRowsExact ==
  \A i \in Hidden + 1 .. m.valid :
    frame.cells[i] = ValueOver(series, start, frame.origin + i)

(* Every point of the history that may still be continued from sums up the *)
(* history to its row: the carried states, the checkpoint, the pending one *)
(* and the anchors, none of which is as of a row the user may yet rewrite  *)
(* without dropping it.  The states stand at the last row vouched for.     *)
PointsExact ==
  Carried =>
    /\ m.state # NoState => m.stateAt = frame.origin + m.valid - 1
    /\ m.state # NoState => m.state = History(series, start, m.stateAt + 1)
    /\ m.before # NoState => m.before = History(series, start, m.stateAt)
    /\ ExactPoint(m.cp) /\ ExactPoint(m.pending)
    /\ \A r \in DOMAIN m.anchors : ExactPoint(AnchorPoint(m, r))

(* A refresh never finds the history gone: whatever was dropped or         *)
(* selected away, a point to replay from was kept, with the rows after it. *)
NeverLost == answer # "lost"

(* What is kept stays small: a bounded frame under twice its retention,    *)
(* the lead within a spacing and the reach of the column.                  *)
HeldRowsBounded ==
  /\ bounded => height < bound
  /\ ~shared => frame.lead <= Later(LeadReach, AnchorSpacing + Operands)

(* A bounded frame's live row never falls back to a replay: a fresh column *)
(* that carries both states resumes after one more row, the last one       *)
(* replaced with it, even when the head is dropped under it                *)
(* (frame_bounded.rs:6).                                                   *)
LiveRowResumes ==
  [][(/\ bounded /\ bounded' /\ Carried /\ Fresh
      /\ m.state # NoState /\ m.before # NoState
      /\ m.valid > Resume + 1
      /\ Len(series') <= Len(series) + 1
      /\ AppendRows)
     => ResumeReady(frame'.meta, frame'.origin) /\ frame'.meta.valid >= Resume]_vars
=============================================================================
