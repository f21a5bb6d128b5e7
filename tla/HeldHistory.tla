---------------------------- MODULE HeldHistory ----------------------------
(***************************************************************************)
(* What a frame that no longer holds every row of its series keeps of a    *)
(* cached column's history, and how it gets back to it (volas-core         *)
(* dataframe/derive.rs, lead.rs, history.rs; volas-directive replay.rs).   *)
(* A frame holds its own rows and, before them, a lead of data rows.  A    *)
(* recursion whose first rows are gone is continued from a point of its    *)
(* history: a checkpoint or an anchor, the state as of some row.           *)
(*                                                                         *)
(* A data row is the number of the change that last wrote it.  A recursion *)
(* here reads, at each row, that row and the `Operands' rows before it     *)
(* (ema:5@(roc:5) reads five): its state is the sequence of those reads,   *)
(* one for each row since its history's start.  Its state exists from its  *)
(* first row on (state.rs: before it can seed, it carries the rows).       *)
(*                                                                         *)
(* Points and frames are counted in rows of the whole series: a point of   *)
(* `rows' = r is the state as of the r-th row, position r - 1.             *)
(***************************************************************************)
EXTENDS ColumnMeta

CONSTANT Continuation   \* Reach::continuation of each column

ASSUME HeldAssumption == Continuation \in [Columns -> Nat]

VARIABLE column   \* the cached column

Carried  == Recursive(column)
Lookback == Reach[column].lookback
Resume   == Reach[column].resume

(* The rows a carried continuation reads before a new one: reach() has     *)
(* them equal.                                                             *)
Operands == Resume

(* Reach::lead.                                                            *)
LeadReach == Later(Later(Continuation[column], Resume), Lookback + 1)

(* What the recursion reads at row i of a computation over rows after      *)
(* `base', and the state `state' continued over rows from + 1 .. to.       *)
Input(s, base, i) == Run(s, Later(base, i - 1 - Operands), i)

Continue(s, base, state, from, to) ==
  state \o [k \in 1 .. (to - from) |-> Input(s, base, from + k)]

History(s, start, r) == Continue(s, start, NoState, start, r)

(* A value is the state read off at its row, missing while it warms up.    *)
Shown(state, start, r) == IF r - start > Lookback THEN state ELSE Missing

ValueOver(s, start, r) ==
  IF Carried THEN Shown(History(s, start, r), start, r)
             ELSE Computed(column, s, start, r)

NoPoint == [rows |-> 0, state |-> NoState]

-----------------------------------------------------------------------------
(* The frame f of the series s: its rows are those after f.origin.         *)
Height(f, s) == Len(s) - f.origin

(* The rows before the first one f holds, its lead's included.             *)
Base(f) == f.origin - f.lead

AnchorPoint(m, r) == [rows |-> r, state |-> m.anchors[r]]

(* The nearest point at or before row r that the rows held continue, or    *)
(* NoPoint for the history's start (Replayed::nearest).                    *)
NearestPoint(f, r) ==
  LET m    == f.meta
      kept == {a \in DOMAIN m.anchors : Base(f) <= a /\ a <= r} \cup
              (IF m.cp # NoPoint /\ Base(f) <= m.cp.rows /\ m.cp.rows <= r
               THEN {m.cp.rows} ELSE {})
  IN  IF kept = {} THEN NoPoint
      ELSE LET last == CHOOSE a \in kept : \A b \in kept : b <= a
           IN  IF last \in DOMAIN m.anchors THEN AnchorPoint(m, last) ELSE m.cp

PassedBefore(m, from) == IF from = NoPoint THEN m.since ELSE from.rows

(* The state as of row r, replayed from `from' by way of the anchor rows:  *)
(* from the history's start the first leg sees the history alone, every    *)
(* other leg all the rows held (Replayed::at, step).                       *)
ReplayedState(f, s, from, r) ==
  IF from # NoPoint
  THEN Continue(s, Base(f), from.state, from.rows, r)
  ELSE LET since == f.meta.since
           leg   == Earlier(r, (since \div AnchorSpacing + 1) * AnchorSpacing)
       IN  Continue(s, Base(f), History(s, since, leg), leg, r)

(* Faulty variant: an anchor is formed at the last row too.                *)
FormedThroughLast(f, s, from, r) ==
  [a \in {i \in (PassedBefore(f.meta, from) + 1 .. r) \cup {r} :
            i % AnchorSpacing = 0} |->
     ReplayedState(f, s, from, a)]

(* The anchors a replay from `from' to row r forms, never the last row's.  *)
Formed(f, s, from, r) ==
  [a \in {i \in (PassedBefore(f.meta, from) + 1 .. r) \cup {r} :
            i % AnchorSpacing = 0 /\ i < Len(s)} |->
     ReplayedState(f, s, from, a)]

(* Whether f holds a point of its history at or before row r.              *)
Replayable(f, r) == NearestPoint(f, r) # NoPoint \/ f.meta.since >= Base(f)

CheckpointAt(f, s, r) ==
  IF Replayable(f, r)
  THEN [rows |-> r, state |-> ReplayedState(f, s, NearestPoint(f, r), r)]
  ELSE NoPoint

AnchorsAfter(f, s, r) ==
  IF Replayable(f, r)
  THEN KeepAnchors(f.meta, Formed(f, s, NearestPoint(f, r), r))
  ELSE f.meta

(* states_at: the two states as of row r, unless the nearest point is more *)
(* than a spacing back.                                                    *)
Restorable(f, r) ==
  LET from == PassedBefore(f.meta, NearestPoint(f, r))
  IN  r - 1 - Earlier(from, r - 1) <= AnchorSpacing /\ Replayable(f, r)

Restored(f, s) ==
  LET m    == f.meta
      r    == f.origin + m.valid
      prev == CheckpointAt(f, s, r - 1)
  IN  IF m.valid > 1 /\ prev # NoPoint
      THEN WithStates(AnchorsAfter(f, s, r - 1), f.origin,
                      Continue(s, Base(f), prev.state, r - 1, r), prev.state)
      ELSE WithStates(AnchorsAfter(f, s, r), f.origin,
                      CheckpointAt(f, s, r).state, NoState)

-----------------------------------------------------------------------------
(* The rows f keeps from row a + 1 to row b, as a frame that continues the *)
(* series (DataFrame::rows, compact_tail).                                 *)

(* Faulty variant: a checkpoint is kept although its row is selected away. *)
CoversAny(first, end, p) == p.rows >= 1

Covers(first, end, p) == first <= p.rows /\ p.rows <= end

(* The point of the history before row `first' a selection takes as it is: *)
(* the nearest one, when it is within a spacing and held.                  *)
SourcePoint(f, first) ==
  LET m    == f.meta
      kept == {a \in DOMAIN m.anchors : a <= first} \cup
              (IF m.cp # NoPoint /\ m.cp.rows <= first THEN {m.cp.rows} ELSE {})
  IN  IF kept = {} THEN NoPoint
      ELSE LET last == CHOOSE a \in kept : \A b \in kept : b <= a
           IN  IF last = m.cp.rows THEN m.cp ELSE AnchorPoint(m, last)

Near(f, first, rows) == rows >= Base(f) /\ first - rows <= AnchorSpacing

(* Whether the selection must replay up to its boundary.                   *)
BoundaryReplayed(f, first, end) ==
  /\ Carried /\ f.meta.since < first
  /\ ~(f.meta.cp # NoPoint /\ Covers(first, end, f.meta.cp))
  /\ ~Near(f, first, PassedBefore(f.meta, SourcePoint(f, first)))

ContinuedPoint(f, s, first, end) ==
  IF f.meta.cp # NoPoint /\ Covers(first, end, f.meta.cp) THEN f.meta.cp
  ELSE IF BoundaryReplayed(f, first, end) THEN CheckpointAt(f, s, first)
  ELSE IF Carried /\ f.meta.since < first THEN SourcePoint(f, first)
  ELSE NoPoint

OwnStates(f, first, valid) ==
  /\ ResumeReady(f.meta, f.origin)
  /\ f.meta.stateAt + 1 = first + valid
  /\ valid > 0

ContinuedMeta(f, s, a, b) ==
  LET m     == IF BoundaryReplayed(f, f.origin + a, f.origin + b)
               THEN AnchorsAfter(f, s, f.origin + a) ELSE f.meta
      first == f.origin + a
      valid == Earlier(Later(m.valid - a, 0), b - a)
      own   == OwnStates(f, first, valid)
  IN  [m EXCEPT
         !.valid   = valid,
         !.state   = IF own THEN @ ELSE NoState,
         !.before  = IF own /\ valid > 1 THEN @ ELSE NoState,
         !.stateAt = Later(first + valid - 1, 0),
         !.cp      = ContinuedPoint(f, s, first, first + b - a),
         !.pending = IF Covers(first, first + b - a, @) THEN @ ELSE NoPoint,
         !.anchors = [r \in {i \in DOMAIN @ : first < i /\ i < first + valid} |->
                        @[r]]]

(* Faulty variants: the lead is what a resume reads; the rows a replay     *)
(* reads before its point are dropped.                                     *)
WantedByResume(m, first) ==
  IF m.since >= first THEN 0 ELSE Earlier(Resume, first - m.since)
WantedFromPoint(m, first) ==
  IF m.since >= first THEN 0
  ELSE IF Carried
       THEN Earlier(first - PassedBefore(m, m.cp), first - m.since)
       ELSE Earlier(LeadReach, first - m.since)

(* The data rows before row `first' its column reads: back to the point a  *)
(* recursion replays from and the operands before it, but never behind the *)
(* history's start.                                                        *)
Wanted(m, first) ==
  IF m.since >= first THEN 0
  ELSE IF Carried
       THEN Earlier(Later(first - Later(PassedBefore(m, m.cp) - Operands, 0), 0),
                    first - m.since)
       ELSE Earlier(LeadReach, first - m.since)

(* The selection, whose lead is at least `other' rows for another cached   *)
(* column's sake.                                                          *)
Selected(f, s, a, b, other) ==
  LET m == ContinuedMeta(f, s, a, b)
  IN  [origin |-> f.origin + a,
       lead   |-> Earlier(Later(Wanted(m, f.origin + a), other), a + f.lead),
       cells  |-> [i \in 1 .. (b - a) |-> f.cells[a + i]],
       meta   |-> m]
=============================================================================
