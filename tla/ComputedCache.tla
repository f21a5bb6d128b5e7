---------------------------- MODULE ComputedCache ----------------------------
(***************************************************************************)
(* A frame with one data column and the directive columns it caches        *)
(* (volas-core dataframe/computed.rs, volas-python frame_refresh.rs and    *)
(* frame_access.rs).  A directive is computed and cached on first use;     *)
(* appending rows or replacing the last row leaves the cache stale, a read *)
(* of a column brings it up to date row by row, and a bulk read refuses    *)
(* until fulfill() has.  This frame keeps every row (its origin is 0, no   *)
(* lead); RetainedFrames has the frames that drop theirs.                 *)
(*                                                                         *)
(* A refresh is one call of the program.  It is split here into the calls  *)
(* it makes on the cache, because each may decline or raise and leaves the *)
(* columns as the calls before it left them; nothing else runs in between  *)
(* (the frame is exclusively borrowed), so every other action waits.       *)
(***************************************************************************)
EXTENDS ColumnMeta

CONSTANTS
  MaxRows,    \* bound: rows of the frame
  MaxBatch    \* bound: new rows of one append

ASSUME BoundsAssumption == MaxRows \in Nat \ {0} /\ MaxBatch \in Nat

VARIABLES
  series,   \* the data column the directives read
  kind,     \* what each directive's name holds: nothing, its cached
            \* values, or data a user wrote over it
  cells,    \* the column of that name
  meta,     \* the cache's record of it, meaningful while kind is "cached"
  job,      \* the refresh being run
  answer    \* what the last call returned

vars == <<series, kind, cells, meta, job, answer>>

height == Len(series)
(* Faulty variant: a name stays cached after a user wrote data over it.    *)
CachedByName == {c \in Columns : kind[c] # "absent"}

Cached  == {c \in Columns : kind[c] = "cached"}
Present == {c \in Columns : kind[c] # "absent"}

Stale(c) == meta[c].valid < height
StaleColumns == {c \in Cached : Stale(c)}

NoMeta == NewMeta(<<>>, 0, 0)

NoJob == [phase |-> "idle", want |-> {}, todo |-> {}, cur |-> {},
          vr |-> 0, warm |-> FALSE, row |-> 0]

Silent  == [what |-> "silent",  cells |-> [c \in {} |-> <<>>]]
Refused == [what |-> "refused", cells |-> [c \in {} |-> <<>>]]
Raised  == [what |-> "raised",  cells |-> [c \in {} |-> <<>>]]
Read(C) == [what |-> "read",    cells |-> [c \in C |-> cells[c]]]

Init ==
  /\ series \in [1 .. 1 -> Values]
  /\ kind   = [c \in Columns |-> "absent"]
  /\ cells  = [c \in Columns |-> <<>>]
  /\ meta   = [c \in Columns |-> NoMeta]
  /\ job    = NoJob
  /\ answer = Silent

-----------------------------------------------------------------------------
(* The column `col' with rows from + 1 .. end taken from `tail'.           *)
Overwritten(col, from, end, tail) ==
  [i \in 1 .. Len(col) |-> IF from < i /\ i <= end THEN tail[i] ELSE col[i]]

(* A batch of rows keyed by label: the first may repeat the last row's     *)
(* label and replaces that row whole, the others are new.  (A batch that   *)
(* repeats a label further on has the effect of the batches it splits into *)
(* there: nothing reads the frame in between.)  Cached columns are padded  *)
(* with a placeholder; a column the rows do not carry is padded with a     *)
(* missing value (and missing in the replaced row).                        *)
AppendBatch(replacing, rows) ==
  LET last   == height - 1
      kept   == IF replacing = <<>> THEN series
                ELSE [series EXCEPT ![height] = replacing[1]]
      lastOf(c) == IF replacing # <<>> /\ kind[c] = "plain"
                   THEN [cells[c] EXCEPT ![height] = Missing] ELSE cells[c]
  IN  /\ job = NoJob
      /\ replacing # <<>> \/ rows # <<>>
      /\ height + Len(rows) <= MaxRows
      /\ series' = kept \o rows
      /\ cells'  = [c \in Columns |->
                      IF c \in Present
                      THEN lastOf(c) \o [i \in 1 .. Len(rows) |-> Missing]
                      ELSE cells[c]]
      /\ meta'   = [c \in Columns |->
                      IF c \in Cached /\ replacing # <<>>
                      THEN FormingRowReplaced(meta[c], last) ELSE meta[c]]
      /\ answer' = Silent
      /\ UNCHANGED <<kind, job>>

AppendRows ==
  \E replacing \in {<<>>} \cup {<<v>> : v \in Values} :
    \E n \in 0 .. MaxBatch : \E rows \in [1 .. n -> Values] :
      AppendBatch(replacing, rows)

(* The columns `C' become plain data, every other cached column is stale   *)
(* from row 0 carrying nothing.                                            *)
Invalidate(C) ==
  /\ kind' = [c \in Columns |-> IF c \in C THEN "plain" ELSE kind[c]]
  /\ meta' = [c \in Columns |->
                IF c \in C THEN NoMeta
                ELSE IF c \in Cached THEN StaledByWrite(meta[c]) ELSE meta[c]]

(* Cells written by position or mask: every bulk write requires a fresh    *)
(* frame.  Writing a cached column's cell makes that column data.          *)
WriteCells(r, v, data, C) ==
  /\ job = NoJob
  /\ StaleColumns = {}
  /\ data \/ C # {}
  /\ series' = IF data THEN [series EXCEPT ![r] = v] ELSE series
  /\ cells'  = [c \in Columns |->
                  IF c \in C
                  THEN Overwritten(cells[c], r - 1, r, [i \in {r} |-> <<v>>])
                  ELSE cells[c]]
  /\ Invalidate(C)
  /\ answer' = Silent
  /\ UNCHANGED job

WriteSomeCells ==
  \E r \in 1 .. height, v \in Values, data \in BOOLEAN, C \in SUBSET Present :
    WriteCells(r, v, data, C)

(* df[name] = values over the data column, fresh or not.                   *)
SetData ==
  /\ job = NoJob
  /\ series' \in [1 .. height -> Values]
  /\ Invalidate({})
  /\ answer' = Silent
  /\ UNCHANGED <<cells, job>>

(* df[directive] = values: a name already there is replaced and may feed   *)
(* any cached directive; a new data column invalidates nothing.            *)
SetColumn(c, v) ==
  /\ job = NoJob
  /\ cells' = [cells EXCEPT ![c] = [i \in 1 .. height |-> <<v>>]]
  /\ IF c \in Present
     THEN Invalidate({c})
     ELSE kind' = [kind EXCEPT ![c] = "plain"] /\ UNCHANGED meta
  /\ answer' = Silent
  /\ UNCHANGED <<series, job>>

SetSomeColumn == \E c \in Columns, v \in Values : SetColumn(c, v)

-----------------------------------------------------------------------------
(* The anchors a computation over the whole frame leaves: those of a       *)
(* recursion it passes, or none (a short column, or another history).      *)
AnchorBanks(c) ==
  {NoAnchors} \cup
  IF Recursive(c) THEN {AnchorsOf(c, series, Marks(height))} ELSE {}

(* df[d], the first time: compute over the whole frame and cache.          *)
CacheNew(c) ==
  LET full == [i \in 1 .. height |-> Computed(c, series, 0, i)]
  IN  /\ job = NoJob
      /\ kind[c] = "absent"
      /\ \E st \in Captured(c, series, 0, height), bank \in AnchorBanks(c) :
           meta' = [meta EXCEPT ![c] =
             KeepAnchors(WithStates(NewMeta(full, 0, height), 0, st[1], st[2]),
                         bank)]
      /\ kind'   = [kind EXCEPT ![c] = "cached"]
      /\ cells'  = [cells EXCEPT ![c] = full]
      /\ answer' = [what |-> "read", cells |-> [d \in {c} |-> full]]
      /\ UNCHANGED <<series, job>>

StartJob(want, todo) ==
  job' = [NoJob EXCEPT !.phase = "next", !.want = want, !.todo = todo]

(* df[d] of a name that is there: refreshed first when it is stale.        *)
GetItem(c) ==
  /\ job = NoJob
  /\ kind[c] # "absent"
  /\ StartJob({c}, StaleColumns \cap {c})
  /\ UNCHANGED <<series, kind, cells, meta, answer>>

Fulfill ==
  /\ job = NoJob
  /\ StartJob({}, StaleColumns)
  /\ UNCHANGED <<series, kind, cells, meta, answer>>

(* Faulty variant: a read that forgets the gate.                           *)
BulkReadUngated ==
  /\ job = NoJob
  /\ answer' = Read(Present)
  /\ UNCHANGED <<series, kind, cells, meta, job>>

(* Every other read goes through the gate.                                 *)
BulkRead ==
  /\ job = NoJob
  /\ answer' = IF StaleColumns = {} THEN Read(Present) ELSE Refused
  /\ UNCHANGED <<series, kind, cells, meta, job>>

-----------------------------------------------------------------------------
(* One column of a refresh: c = the column in job.cur.                     *)

(* The one write of computed rows: `tail' over rows from + 1 .. end, under *)
(* the cursor's rule; and the record it leaves.                            *)
WriteComputed(c, from, end, tail) ==
  /\ MayWrite(meta[c], height, from, end)
  /\ cells' = [cells EXCEPT ![c] = Overwritten(cells[c], from, end, tail)]
  /\ UNCHANGED <<series, kind, answer>>

AfterWrite(c, from, end) == Written(meta[c], cells'[c], 0, from, end)

Goto(phase) == job' = [job EXCEPT !.phase = phase]
ColumnDone  == job' = [job EXCEPT !.phase = "next", !.cur = {}]

(* Faulty variant: a state is resumed inside the warm-up.                  *)
CanResumeCold(c, m) == m.valid >= Reach[c].resume

(* The gate of refresh_column, on the snapshot of the column's record.     *)
CanResume(c, m) == Warm(c, m, 0) /\ m.valid >= Reach[c].resume

(* Faulty variant: the column stays on the list.                           *)
BeginColumnAgain(c) ==
  LET m == meta[c]
  IN  /\ job.phase = "next"
      /\ c \in job.todo
      /\ job' = [job EXCEPT
           !.cur = {c}, !.vr = m.valid, !.row = m.valid,
           !.warm = Warm(c, m, 0), !.phase = "recompute"]
      /\ UNCHANGED <<series, kind, cells, meta, answer>>

BeginColumn(c) ==
  LET m == meta[c]
  IN  /\ job.phase = "next"
      /\ c \in job.todo
      /\ job' = [job EXCEPT
           !.todo = @ \ {c}, !.cur = {c}, !.vr = m.valid, !.row = m.valid,
           !.warm = Warm(c, m, 0),
           !.phase = IF ~CanResume(c, m) THEN "recompute"
                     ELSE IF ResumeReady(m, 0) THEN "step"
                     ELSE IF m.valid > 0 /\ Recursive(c) THEN "restore"
                     ELSE "recompute"]
      /\ UNCHANGED <<series, kind, cells, meta, answer>>

(* The states of a recursion are replayed from the nearest anchor, at most *)
(* one spacing back, forming the anchors passed; or that is not possible.  *)
Nearest(m, r) ==
  LET kept == {a \in DOMAIN m.anchors : a <= r}
  IN  IF kept = {} THEN 0 ELSE CHOOSE a \in kept : \A b \in kept : b <= a

AnchorState(m, a) == IF a = 0 THEN NoState ELSE m.anchors[a]

RestoreState(c) ==
  LET m    == meta[c]
      vr   == job.vr
      to   == IF vr > 1 THEN vr - 1 ELSE vr
      a    == Nearest(m, to)
      stop(r) == Extend(c, AnchorState(m, a), series, a, r)
      passed  == {r \in a + 1 .. to : r % AnchorSpacing = 0 /\ r < height}
      state   == IF vr > 1 THEN Extend(c, stop(to), series, to, vr) ELSE stop(vr)
  IN  /\ vr - 1 - Earlier(Nearest(m, vr), vr - 1) <= AnchorSpacing
      /\ meta' = [meta EXCEPT ![c] =
           WithStates(KeepAnchors(m, [r \in passed |-> stop(r)]), 0, state,
                      IF vr > 1 THEN stop(to) ELSE NoState)]
      /\ Goto("step")

RestoreCarriedState(c) ==
  /\ job.phase = "restore"
  /\ c \in job.cur
  /\ RestoreState(c) \/ (Goto("recompute") /\ UNCHANGED meta)
  /\ UNCHANGED <<series, kind, cells, answer>>

(* One row through the allocation-free step.                               *)
StepRow(c) ==
  LET m    == meta[c]
      next == Extend(c, m.state, series, job.row, job.row + 1)
  IN  /\ job.phase = "step"
      /\ c \in job.cur
      /\ ResumeReady(m, 0)
      /\ WriteComputed(c, m.valid, m.valid + 1, [i \in {m.valid + 1} |-> next])
      /\ meta' = [meta EXCEPT ![c] =
                    Stepped(AfterWrite(c, m.valid, m.valid + 1), next)]
      /\ job' = IF job.row + 1 = height
                THEN [job EXCEPT !.phase = "next", !.cur = {}]
                ELSE [job EXCEPT !.row = @ + 1]

(* A line without a single-row step, or a step that declines.              *)
StepDeclines ==
  /\ job.phase = "step"
  /\ Goto("rows")
  /\ UNCHANGED <<series, kind, cells, meta, answer>>

(* The rows left at once: up to the row before the last, then the last, so *)
(* that both states are left.                                              *)
ResumeRows(c) ==
  LET m      == meta[c]
      from   == job.row
      before == Extend(c, m.state, series, from, height - 1)
      last   == Extend(c, IF from + 1 < height THEN before ELSE m.state, series,
                       height - 1, height)
      tail   == [i \in from + 1 .. height |->
                   IF i = height THEN last ELSE Extend(c, m.state, series, from, i)]
      after  == AfterWrite(c, from, height)
  IN  /\ job.phase = "rows"
      /\ c \in job.cur
      /\ ResumeReady(m, 0)
      /\ WriteComputed(c, from, height, tail)
      /\ meta' = [meta EXCEPT ![c] =
                    IF from + 1 < height THEN WithStates(after, 0, last, before)
                                         ELSE Advanced(after, 0, last)]
      /\ ColumnDone

ResumeDeclines ==
  /\ job.phase = "rows"
  /\ Goto("recompute")
  /\ UNCHANGED <<series, kind, cells, meta, answer>>

(* Faulty variant: the window starts at the first stale row.               *)
NoWindow(c) == 0

(* The rows a windowed recompute runs over: twice its reach.               *)
Window(c) == 2 * (Reach[c].lookback + 1)

OnAWindow(c) == EvaluatesOnAWindow(c) /\ job.vr > Window(c)

RecomputeWindow(c) ==
  /\ job.phase = "recompute"
  /\ c \in job.cur
  /\ OnAWindow(c)
  /\ WriteComputed(c, job.vr, height,
       [i \in job.vr + 1 .. height |-> Computed(c, series, job.vr - Window(c), i)])
  /\ meta' = [meta EXCEPT ![c] = AfterWrite(c, job.vr, height)]
  /\ ColumnDone

(* The whole column, its states and the anchors passed; inside warm-up all *)
(* of it is written, past it only the stale tail.                          *)
RecomputeWhole(c) ==
  LET from == IF job.warm THEN job.vr ELSE 0
  IN  /\ job.phase = "recompute"
      /\ c \in job.cur
      /\ ~OnAWindow(c)
      /\ WriteComputed(c, from, height,
           [i \in from + 1 .. height |-> Computed(c, series, 0, i)])
      /\ \E st \in Captured(c, series, 0, height), bank \in AnchorBanks(c) :
           meta' = [meta EXCEPT ![c] =
             KeepAnchors(WithStates(AfterWrite(c, from, height), 0, st[1], st[2]),
                         bank)]
      /\ ColumnDone

(* The computation raises (an input outside its domain): the refresh ends  *)
(* there, with what it had already written.                                *)
RecomputeRaises ==
  /\ job.phase = "recompute"
  /\ job'    = NoJob
  /\ answer' = Raised
  /\ UNCHANGED <<series, kind, cells, meta>>

(* Faulty variant: a refresh ends after its first column.                  *)
EndAfterFirst ==
  /\ job.phase = "next"
  /\ job'    = NoJob
  /\ answer' = IF job.want = {} THEN Silent ELSE Read(job.want)
  /\ UNCHANGED <<series, kind, cells, meta>>

EndRefresh ==
  /\ job.phase = "next"
  /\ job.todo = {}
  /\ job'    = NoJob
  /\ answer' = IF job.want = {} THEN Silent ELSE Read(job.want)
  /\ UNCHANGED <<series, kind, cells, meta>>

-----------------------------------------------------------------------------
RefreshStep ==
  \/ \E c \in Columns :
       \/ BeginColumn(c) \/ RestoreCarriedState(c) \/ StepRow(c)
       \/ ResumeRows(c)  \/ RecomputeWindow(c)     \/ RecomputeWhole(c)
  \/ StepDeclines \/ ResumeDeclines \/ RecomputeRaises \/ EndRefresh

Call ==
  \/ AppendRows \/ WriteSomeCells \/ SetData \/ SetSomeColumn
  \/ \E c \in Columns : CacheNew(c) \/ GetItem(c)
  \/ Fulfill \/ BulkRead

Next == Call \/ RefreshStep

Spec == Init /\ [][Next]_vars

(* A refresh that has begun runs to its end: it is a loop of one thread.   *)
FairSpec == Spec /\ WF_vars(RefreshStep)
-----------------------------------------------------------------------------
(* Types.  The record's part is debug_check's: the cursor stays within the *)
(* frame and a carried state describes one of its valid rows.              *)
States == Seq(Values)

MetaOK(m, rows) ==
  /\ m.valid \in 0 .. rows
  /\ m.since = 0
  /\ m.stateAt \in Nat
  /\ m.first \in Int
  /\ m.state \in States
  /\ m.before \in States
  /\ DOMAIN m.anchors \subseteq 1 .. rows - 1
  /\ \A a \in DOMAIN m.anchors : m.anchors[a] \in States
  /\ m.state # NoState => m.stateAt < m.valid
  /\ m.before # NoState => m.stateAt > 0

TypeOK ==
  /\ series \in Seq(Values) /\ height \in 1 .. MaxRows
  /\ kind \in [Columns -> {"absent", "cached", "plain"}]
  /\ \A c \in Present : cells[c] \in Seq(States) /\ Len(cells[c]) = height
  /\ \A c \in Cached : MetaOK(meta[c], height)
  /\ job.phase \in {"idle", "next", "restore", "step", "rows", "recompute"}
  /\ job.todo \subseteq Cached /\ job.cur \subseteq Cached
  /\ job.want \subseteq Columns
  /\ answer.what \in {"silent", "refused", "raised", "read"}

(* A row the cursor vouches for holds the value a full recomputation over  *)
(* the data as it is now would give it - whatever appends, replacements of *)
(* the last row, writes, declined resumes and failed refreshes came        *)
(* before (computed.rs:5, "rows [0, valid_rows) hold valid values").       *)
ValidRowsExact ==
  \A c \in Cached : \A r \in 1 .. meta[c].valid :
    cells[c][r] = Computed(c, series, 0, r)

(* A carried state sums up exactly the rows through the one it is recorded *)
(* at, and the state before it the rows through the one before: the        *)
(* condition under which continuing either is a full recomputation         *)
(* (computed.rs:8).                                                        *)
StatesDescribeTheirRows ==
  \A c \in Cached :
    LET m == meta[c]
    IN  /\ m.state # NoState => m.state = Summary(c, series, 0, m.stateAt + 1)
        /\ m.before # NoState => m.before = Summary(c, series, 0, m.stateAt)

(* Every anchor is the state as of its row, and none is kept of the last   *)
(* row, which a re-sent row replaces (replay.rs:160).                      *)
AnchorsExact ==
  \A c \in Cached : \A a \in DOMAIN meta[c].anchors :
    /\ a < height
    /\ meta[c].anchors[a] = Summary(c, series, 0, a)

(* The recorded first present value is the first one among the valid rows, *)
(* although a replaced last row and a whole rewrite may move it back and   *)
(* forth (ComputedMeta::note_written).                                     *)
FirstPresentExact ==
  \A c \in Cached :
    LET m == meta[c]
        present == {r \in 1 .. m.valid : cells[c][r] # Missing}
    IN  IF present = {}
        THEN m.first = NoRow \/ m.first >= m.valid
        ELSE m.first + 1 \in present /\ \A r \in present : m.first + 1 <= r

(* Replacing the last row never costs more than that row: a column with    *)
(* both states, ready to resume, is ready again at once (the live path     *)
(* never forces a recompute, computed.rs:413).                             *)
LiveRowCheap ==
  [][\A c \in Cached :
       (/\ Len(series') = height
        /\ AppendRows
        /\ ResumeReady(meta[c], 0)
        /\ meta[c].before # NoState
        /\ ~Stale(c))
       => ResumeReady(meta'[c], 0) /\ meta'[c].valid = height - 1]_vars

(* A refresh only ever extends the rows a column vouches for, and never    *)
(* touches a column that holds a user's data: an override is not clobbered *)
(* by a later fulfill (cells.rs:82).                                       *)
RefreshOnlyExtends ==
  [][job.phase # "idle" =>
       \A c \in Columns :
         /\ kind'[c] = kind[c]
         /\ c \in Cached => meta'[c].valid >= meta[c].valid
         /\ kind[c] = "plain" => cells'[c] = cells[c]]_vars

(* After a fulfill() that did not raise a bulk read is never refused, and  *)
(* a column read answers with a fresh column (frame_access.rs:297).        *)
RefreshCompletes ==
  [][(job.phase # "idle" /\ job'.phase = "idle" /\ answer'.what # "raised") =>
       \A c \in Cached : (job.want = {} \/ c \in job.want) => ~Stale(c)]_vars

(* Every refresh ends.                                                     *)
RefreshEnds == job.phase # "idle" ~> job.phase = "idle"

(* What a user may rely on, without cursors and states.                    *)
RefColumn(c, s) == [r \in 1 .. Len(s) |-> Computed(c, s, 0, r)]

Abstract ==
  INSTANCE ExactColumns WITH
    owner <- [c \in Columns |-> IF kind[c] = "plain" THEN "user" ELSE "directive"],
    Reference <- RefColumn
AbstractSpec == Abstract!Spec
=============================================================================
