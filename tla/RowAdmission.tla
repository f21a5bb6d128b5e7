---------------------------- MODULE RowAdmission ----------------------------
(***************************************************************************)
(* Rows entering a frame (volas-core dataframe/admit.rs, volas-python      *)
(* frame_access.rs and frame_bounded.rs): a batch is checked whole, every  *)
(* row is routed by its label - it replaces the last row or is a new one - *)
(* and then written row by row.  A bounded frame keeps its labels unique   *)
(* over the rows it retains and drops older rows now and then.             *)
(*                                                                         *)
(* The data of a row is abstracted to where it came from: a positive       *)
(* number is the row's position before the call, a negative one the row of *)
(* the batch.  `valid' is the cursor of a column the frame caches.         *)
(***************************************************************************)
EXTENDS LabelIndex

CONSTANTS
  Windows,   \* the window= of a frame; 0 for an unbounded one
  Margin,    \* rows a bounded frame keeps behind it: max_lookback
  MaxRows,   \* bound: rows of an unbounded frame
  MaxBatch   \* bound: rows of a batch

ASSUME WindowAssumption ==
  Windows \subseteq Nat /\ Margin \in Nat /\ MaxRows \in Nat /\ MaxBatch \in Nat

VARIABLES window, index, rows, valid, answer

vars == <<window, index, rows, valid, answer>>

height == Len(index.labels)

(* WindowState: the rows left by a drop, and the height that triggers it.  *)
Capacity == (IF window > 2 THEN window ELSE 2) + Margin
Bound    == 2 * Capacity

(* Faulty variant: labels are looked for among the margin's number of      *)
(* rows, the window is forgotten.                                          *)
MarginFrom(h) == IF window = 0 \/ h <= Margin THEN 0 ELSE h - Margin

(* The rows a frame of h rows retains are those after this one.            *)
RetainedFrom(h) ==
  IF window = 0 \/ h <= window + Margin THEN 0 ELSE h - (window + Margin)

-----------------------------------------------------------------------------
(* DataFrame::route.  A single row has a shorter path there with the same  *)
(* outcome.                                                                *)
Previous(ix, b, k) == IF k > 1 THEN <<b.labels[k - 1]>> ELSE LastOf(ix.labels)

Replaces(ix, b, k) == Previous(ix, b, k) = <<b.labels[k]>>

(* Faulty variant: a batch's own rows are not remembered.                  *)
SeenNever(b, k) == FALSE

(* An earlier row of the batch has the label; ordered labels can only      *)
(* repeat next to each other and are not looked at.                        *)
SeenBefore(b, k) ==
  /\ ~LabelsAreOrdered(b)
  /\ \E j \in 1 .. k - 1 : b.labels[j] = b.labels[k]

(* Faulty variant: a datetime row is compared with nothing.                *)
AnyOrder(ix, b, k) == FALSE

OutOfOrder(ix, b, k) ==
  /\ b.kind = "datetime"
  /\ ~Replaces(ix, b, k)
  /\ Previous(ix, b, k) # <<>> /\ b.labels[k] < Previous(ix, b, k)[1]

Repeats(ix, b, k, from) ==
  /\ b.kind # "datetime"
  /\ ~Replaces(ix, b, k)
  /\ PositionIn(ix, b.labels[k], from) # 0 \/ SeenBefore(b, k)

Routable(ix, b, from) ==
  IF IsUnlabelled(b) \/ b.labels = <<>>
  THEN ~ContinuationClash(ix, Len(b.labels), from)
  ELSE \A k \in 1 .. Len(b.labels) :
         ~OutOfOrder(ix, b, k) /\ ~Repeats(ix, b, k, from)

(* The rows that replace the last row.                                     *)
Replacing(ix, b) ==
  IF IsUnlabelled(b) THEN {}
  ELSE {k \in 1 .. Len(b.labels) : Replaces(ix, b, k)}

-----------------------------------------------------------------------------
(* The commit.  A frame is its index, its rows and its cursor; `ok' tells  *)
(* that no step of it failed.                                              *)

(* Batch rows from + 1 .. end are appended: the index first, which checks  *)
(* them again, then the columns.                                           *)
PushRows(f, b, from, end) ==
  LET part == IF from = 0 /\ end = Len(b.labels) THEN b ELSE Slice(b, from, end)
  IN  IF CheckAppend(f.index, part)
      THEN [f EXCEPT !.index = Extend(@, part),
                     !.rows  = @ \o [i \in 1 .. end - from |-> -(from + i)]]
      ELSE [f EXCEPT !.ok = FALSE]

(* Faulty variant: the cursor stays on the replaced row.                   *)
WriteLastRowOnly(f, k) == [f EXCEPT !.rows[Len(f.rows)] = -k]

(* The last row is replaced whole; its label stays, and the cached column  *)
(* is stale from it on.                                                    *)
WriteLastRow(f, k) ==
  LET last == Len(f.rows) - 1
  IN  [f EXCEPT !.rows[last + 1] = -k,
                !.valid = IF @ > last THEN last ELSE @]

CommitRow(f, b, replacing, k) ==
  IF ~f.ok THEN f
  ELSE IF k \in replacing THEN WriteLastRow(f, k)
  ELSE PushRows(f, b, k - 1, k)

CommitRows(f, b) ==
  LET replacing == Replacing(f.index, b)
      n == Len(b.labels)
      written[k \in 0 .. n] ==
        IF k = 0 THEN f ELSE CommitRow(written[k - 1], b, replacing, k)
  IN  IF replacing = {} THEN PushRows(f, b, 0, n) ELSE written[n]

(* admit_rows: what the batch's columns allow is left open there.          *)
AdmitRows(ix, b) == CheckAppend(ix, b)

(* The drop of the head: the labels, the rows and the cursor move down.    *)
Compact(f) ==
  LET drop == Len(f.rows) - Capacity
  IN  IF window = 0 \/ Len(f.rows) < Bound THEN f
      ELSE [f EXCEPT !.index = Slice(@, drop, Len(f.rows)),
                     !.rows  = SubSeq(@, drop + 1, Len(f.rows)),
                     !.valid = IF @ > drop THEN @ - drop ELSE 0]

Frame == [index |-> index, rows |-> [i \in 1 .. height |-> i],
          valid |-> valid, ok |-> TRUE]

Accepts(b) ==
  AdmitRows(index, b) /\ Routable(index, b, RetainedFrom(height))

-----------------------------------------------------------------------------
Sequences(S, n) == UNION {[1 .. k -> S] : k \in 0 .. n}

Ranges(starts, n) ==
  {r \in UNION {{RangeIndex(start, k) : k \in 0 .. n} : start \in starts} :
     r.start + Len(r.labels) - 1 <= MaxLabel}

Batches ==
  {Index("int", 0, s) : s \in Sequences(Labels, MaxBatch)} \cup
  {Index("datetime", 0, s) : s \in Sequences(Labels \cup {NaT}, MaxBatch)} \cup
  Ranges(Labels, MaxBatch)

Distinct(s) ==
  \A i, j \in 1 .. Len(s) : s[i] = s[j] /\ s[i] # NaT => i = j

(* The indexes a frame is built with: labels never repeat (NaT is none).   *)
Built(n) ==
  {Index("int", 0, s) : s \in {s \in Sequences(Labels, n) : Distinct(s)}} \cup
  {Index("datetime", 0, s) :
     s \in {s \in Sequences(Labels \cup {NaT}, n) : Distinct(s)}} \cup
  Ranges(0 .. 1, n)

Init ==
  /\ window \in Windows
  /\ index \in Built(IF window > 0 THEN Bound - 1 ELSE MaxRows)
  /\ rows   = [i \in 1 .. height |-> i]
  /\ valid  = height
  /\ answer = "silent"

(* A bounded frame never has more, but while it takes a batch.             *)
RowLimit == IF window > 0 THEN Bound + 1 ELSE MaxRows

(* Bounds: the rows, and the positions of a range, which never come near   *)
(* the largest label.                                                      *)
WithinBounds(b) ==
  /\ height + Len(b.labels) <= RowLimit
  /\ index.kind = "range" =>
       index.start + height + Len(b.labels) - 1 <= MaxLabel

(* df.append(batch): a batch whose columns do not fit is refused too.      *)
AppendBatch(b) ==
  /\ WithinBounds(b)
  /\ \/ /\ Accepts(b)
        /\ LET f == Compact(CommitRows(Frame, b))
           IN  /\ index'  = f.index
               /\ rows'   = f.rows
               /\ valid'  = f.valid
               /\ answer' = IF f.ok THEN "appended" ELSE "torn"
     \/ /\ answer' = "refused"
        /\ UNCHANGED <<index, rows, valid>>
  /\ UNCHANGED window

(* The cached column is brought up to date.                                *)
Refresh ==
  /\ valid'  = height
  /\ rows'   = [i \in 1 .. height |-> i]
  /\ answer' = "silent"
  /\ UNCHANGED <<window, index>>

Next == (\E b \in Batches : AppendBatch(b)) \/ Refresh

Spec == Init /\ [][Next]_vars
-----------------------------------------------------------------------------
(* The order remembered is that of the labels, and the first row a label   *)
(* is found at is the first that has it, whichever way that order made the *)
(* search go (index.rs:98).                                                *)
FindsFirst ==
  /\ index.order = OrderOf(index.kind, index.labels)
  /\ \A x \in Labels \cup {NaT}, from \in 0 .. height :
       LET p == PositionIn(index, x, from)
           here == {i \in from + 1 .. height : index.labels[i] = x}
       IN  IF p = 0 THEN here = {} ELSE p \in here /\ \A i \in here : p <= i

(* The documented retention: the last window + Margin rows.                *)
KeptFrom == IF window = 0 \/ height <= window + Margin
            THEN 0 ELSE height - window - Margin

(* The rule for one row, as the append's doc gives it: a row labelled like *)
(* the last replaces it; a datetime row may not come before the last, a    *)
(* row labelled like any other retained row is refused.                    *)
TakeRow(f, x) ==
  IF f.labels # <<>> /\ x # NaT /\ x = f.labels[Len(f.labels)]
  THEN [f EXCEPT !.taken = @ + 1, !.rows[Len(f.rows)] = -(f.taken + 1)]
  ELSE IF x = NaT \/ x > MaxLabel
          \/ (index.kind = "datetime" /\ f.labels # <<>> /\ x < f.labels[Len(f.labels)])
          \/ (index.kind # "datetime" /\
              \E i \in f.from + 1 .. Len(f.labels) : f.labels[i] = x)
       THEN [f EXCEPT !.ok = FALSE]
       ELSE [f EXCEPT !.taken = @ + 1, !.labels = @ \o <<x>>,
                      !.rows = @ \o <<-(f.taken + 1)>>]

(* The rows of a batch taken one at a time by that rule; unlabelled rows   *)
(* take the next label.                                                    *)
NextLabel(f) ==
  IF f.labels # <<>> THEN f.labels[Len(f.labels)] + 1
  ELSE IF index.kind = "range" THEN index.start ELSE 0

TakeNext(f, b, k) ==
  IF ~f.ok THEN f
  ELSE TakeRow(f, IF IsUnlabelled(b) THEN NextLabel(f) ELSE b.labels[k])

OneByOne(b) ==
  LET after[k \in 0 .. Len(b.labels)] ==
        IF k = 0 THEN [ok |-> TRUE, taken |-> 0, from |-> KeptFrom,
                       labels |-> index.labels, rows |-> Frame.rows]
        ELSE TakeNext(after[k - 1], b, k)
  IN  after[Len(b.labels)]

Comparable(b) == IF b.kind = "datetime" THEN index.kind = "datetime"
                                        ELSE index.kind # "datetime"

(* A batch is what its rows would be, appended one at a time, or it is     *)
(* refused and nothing of it is written: routing all rows ahead of the     *)
(* first write decides exactly the same, and no write fails (admit.rs:11). *)
BatchIsItsRows ==
  \A b \in Batches :
    (b.labels # <<>> /\ Comparable(b) /\ WithinBounds(b)) =>
      LET one == OneByOne(b)
          f   == CommitRows(Frame, b)
      IN  /\ Accepts(b) <=> one.ok
          /\ Accepts(b) => /\ f.ok
                           /\ f.index.labels = one.labels
                           /\ f.rows = one.rows

(* Integer labels stay unique over the rows a frame retains, whatever its  *)
(* buffer still holds, through appends and drops (frame_access.rs:382).    *)
RetainedUnique ==
  index.kind # "datetime" =>
    Distinct(SubSeq(index.labels, KeptFrom + 1, height))

Increasing(s) == \A i \in 1 .. Len(s) - 1 : s[i] < s[i + 1]

(* A time series stays one: increasing datetime labels only ever increase  *)
(* (admit.rs:176).                                                         *)
StaysIncreasing ==
  [][index.kind = "datetime" /\ Increasing(index.labels)
       => Increasing(index'.labels)]_vars

(* The rows the cache's cursor vouches for are rows of before the call, in *)
(* place: no replaced or new row ends up under it, also when the batch     *)
(* replaces a row of its own or the head is dropped.                       *)
CursorCoversHeldRows ==
  \A i \in 1 .. valid : rows[i] > 0 /\ rows[i] = rows[1] + i - 1
=============================================================================
