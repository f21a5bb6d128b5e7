----------------------------- MODULE ColumnMeta -----------------------------
(***************************************************************************)
(* The record a frame keeps of a cached column (ComputedMeta) and the      *)
(* operations that own it (dataframe/computed.rs), as functions of the     *)
(* record.  `origin' is the number of rows dropped before the frame's own. *)
(*                                                                         *)
(*   valid    rows 1 .. valid of the frame hold valid values               *)
(*   state    the carried state; stateAt is the position (from 0, over the *)
(*            whole series) of the row it describes                        *)
(*   before   the carried state as of the row before that                  *)
(*   since    rows of the series before the column's history starts        *)
(*   first    position of the first present value, NoRow before one        *)
(*   anchors  states kept at regular rows, as a function of the row        *)
(***************************************************************************)
EXTENDS Kernel

CONSTANT AnchorSpacing   \* ANCHOR_SPACING

ASSUME AnchorSpacingAssumption == AnchorSpacing \in Nat \ {0}

NoRow == -1

NoAnchors == [m \in {} |-> NoState]

(* A carried state is resumed only from the row it describes.              *)
ResumeReady(m, origin) ==
  /\ m.state # NoState
  /\ m.valid > 0
  /\ origin + m.valid - 1 = m.stateAt

Warm(c, m, origin) == origin + m.valid >= m.since + Reach[c].lookback

(* The first present cell among rows from + 1 .. end, as a position.       *)
FirstPresent(cells, origin, from, end) ==
  LET present == {i \in from + 1 .. end : cells[i] # Missing}
  IN  IF present = {} THEN NoRow
      ELSE origin + (CHOOSE i \in present : \A j \in present : i <= j) - 1

(* Faulty variant: a later write is taken for the first present value.     *)
NoteEveryWrite(m, cells, origin, from, end) ==
  LET found == FirstPresent(cells, origin, from, end)
  IN  IF found # NoRow THEN [m EXCEPT !.first = found] ELSE m

(* Rows from + 1 .. end were written: the first present value is looked    *)
(* for only while none is known before them.                               *)
NoteWritten(m, cells, origin, from, end) ==
  LET found == FirstPresent(cells, origin, from, end)
  IN  IF m.first # NoRow /\ m.first < origin + from
      THEN m
      ELSE IF found # NoRow \/ (m.first # NoRow /\ m.first < origin + end)
           THEN [m EXCEPT !.first = found]
           ELSE m

(* A write of computed rows must start at or before the valid rows and end *)
(* inside the frame.                                                       *)
MayWrite(m, height, from, end) == from <= m.valid /\ end <= height

(* The record after rows from + 1 .. end were written, `cells' being the   *)
(* column they left.                                                       *)
Written(m, cells, origin, from, end) ==
  [NoteWritten(m, cells, origin, from, end) EXCEPT
     !.valid = Later(m.valid, end),
     !.since = IF from = 0 THEN origin ELSE @]

(* set_computed: all rows valid, nothing carried yet.                      *)
NewMeta(cells, origin, height) ==
  NoteWritten([valid |-> height, state |-> NoState, before |-> NoState,
               since |-> origin, stateAt |-> 0, first |-> NoRow,
               anchors |-> NoAnchors],
              cells, origin, 0, height)

(* set_computed_states.                                                    *)
WithStates(m, origin, state, before) ==
  IF m.valid > 0
  THEN LET at == origin + m.valid - 1
       IN  [m EXCEPT !.stateAt = at,
                     !.state   = state,
                     !.before  = IF at > origin /\ state # NoState
                                 THEN before ELSE NoState]
  ELSE [m EXCEPT !.state = NoState, !.before = NoState]

(* step_cached_state: one row resumed; the old state is the one before.    *)
Stepped(m, next) ==
  [m EXCEPT !.before = m.state, !.state = next, !.stateAt = @ + 1]

(* advance_computed_state, after the row was written: the old state is the *)
(* one before only if it described the row before.                         *)
Advanced(m, origin, state) ==
  LET at == origin + m.valid - 1
  IN  [m EXCEPT !.before  = IF at = m.stateAt + 1 THEN m.state ELSE NoState,
                !.state   = state,
                !.stateAt = at]

(* Faulty variants: the replaced row keeps the state that consumed it; the *)
(* state drops back but not the row it is recorded at.                     *)
FormingRowKeepsState(m, last) ==
  IF m.valid > last
  THEN [m EXCEPT !.valid = last, !.before = NoState,
                 !.stateAt = IF m.state # NoState /\ @ > 0 THEN @ - 1 ELSE @]
  ELSE m
FormingRowKeepsPosition(m, last) ==
  IF m.valid > last
  THEN [m EXCEPT !.valid = last, !.state = m.before, !.before = NoState]
  ELSE m

(* The last row (after `last' others) changed in place: a column valid     *)
(* through it drops back by one row and by one state.                      *)
FormingRowReplaced(m, last) ==
  IF m.valid > last
  THEN [m EXCEPT !.valid   = last,
                 !.state   = m.before,
                 !.before  = NoState,
                 !.stateAt = IF m.state # NoState /\ @ > 0 THEN @ - 1 ELSE @]
  ELSE m

(* Faulty variant: only the cursor is reset.                               *)
StaledCursorOnly(m) == [m EXCEPT !.valid = 0]

(* A user's write: stale from the first row, carrying nothing.             *)
StaledByWrite(m) ==
  [m EXCEPT !.valid = 0, !.state = NoState, !.before = NoState,
            !.anchors = NoAnchors]

(* Anchors: an anchor already kept is never replaced.                      *)
KeepAnchors(m, new) ==
  [m EXCEPT !.anchors =
     [r \in DOMAIN m.anchors \cup DOMAIN new |->
        IF r \in DOMAIN m.anchors THEN m.anchors[r] ELSE new[r]]]

(* Faulty variant: the last row is an anchor too.                          *)
MarksThroughLast(rows) == {r \in 1 .. rows : r % AnchorSpacing = 0}

(* The anchors a full computation over rows 1 .. rows passes, never at   *)
(* the last row.                                                           *)
Marks(rows) == {r \in 1 .. rows - 1 : r % AnchorSpacing = 0}

AnchorsOf(c, s, rows) == [r \in rows |-> Summary(c, s, 0, r)]
=============================================================================
