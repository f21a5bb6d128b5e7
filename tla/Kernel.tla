------------------------------- MODULE Kernel -------------------------------
(***************************************************************************)
(* What a directive computes, as far as the cache of computed columns can  *)
(* tell: which rows of the data a value depends on, and which rows a       *)
(* carried state stands for.  The arithmetic is abstracted by a free       *)
(* algebra: a value IS the sequence of data rows it was computed from, so  *)
(* two computations agree exactly when they read the same rows, each once, *)
(* in the same order.  A row read twice, skipped, or read before it was    *)
(* replaced shows in the value.                                            *)
(*                                                                         *)
(* Rows are counted from 1; "as of row r" means after r rows.  `start' is  *)
(* the number of rows before the ones a computation sees: its warm-up is   *)
(* counted from there.                                                     *)
(***************************************************************************)
EXTENDS Integers, Sequences

CONSTANTS
  Values,    \* what a data cell holds
  Columns,   \* the directives a user asks for (= the columns that cache them)
  Reach      \* what each of them reads around a row: Reach in dataframe.rs

Histories == {"window", "accumulator", "carried"}

ASSUME ReachAssumption ==
  Reach \in [Columns -> [lookback : Nat, resume : Nat, history : Histories]]

(* A missing value (NaN) and an absent state (None).                       *)
Missing == <<>>
NoState == <<>>

(* The whole history before a value counts: History::recursive.            *)
Recursive(c) == Reach[c].history = "carried"

(* Evaluated over a trailing window it gives the values it has over the    *)
(* whole series.                                                           *)
EvaluatesOnAWindow(c) == ~Recursive(c)

(* It leaves a state to continue from (a pure window leaves none).         *)
Resumable(c) == Reach[c].history # "window"

Later(a, b)   == IF a >= b THEN a ELSE b
Earlier(a, b) == IF a <= b THEN a ELSE b

(* Rows a + 1 .. b of s.                                                   *)
Run(s, a, b) == [i \in 1 .. (b - a) |-> s[a + i]]

(* The number of rows before the first row that row r's value depends on.  *)
Foot(c, start, r) ==
  IF Recursive(c) THEN start ELSE Later(start, r - Reach[c].lookback - 1)

(* The state as of row r of a computation that started after `start' rows: *)
(* the rows it sums up.  A value is the state read off at its row.         *)
Summary(c, s, start, r) == Run(s, Foot(c, start, r), r)

(* Row r of a computation over the rows after `start'.                     *)
Computed(c, s, start, r) ==
  IF r - start > Reach[c].lookback THEN Summary(c, s, start, r) ELSE Missing

(* The state `prev' continued over rows from + 1 .. to: a recursion keeps  *)
(* everything, an accumulator lets the rows behind its window fall out.    *)
(* It knows nothing of warm-up: masking is the full computation's.         *)
Extend(c, prev, s, from, to) ==
  LET n    == Len(prev) + (to - from)
      drop == IF Recursive(c) THEN 0 ELSE Later(0, n - Reach[c].lookback - 1)
  IN  [i \in 1 .. (n - drop) |->
         IF i + drop <= Len(prev) THEN prev[i + drop]
                                  ELSE s[from + i + drop - Len(prev)]]

(* The pairs <<state, state before>> a full computation over the rows      *)
(* start + 1 .. r may leave: both, only the last, or none at all.          *)
Captured(c, s, start, r) ==
  {<<NoState, NoState>>} \cup
  (IF Resumable(c) /\ r > start
   THEN {<<Summary(c, s, start, r), NoState>>} \cup
        (IF r - 1 > start
         THEN {<<Summary(c, s, start, r), Summary(c, s, start, r - 1)>>}
         ELSE {})
   ELSE {})
=============================================================================
