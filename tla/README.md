# Formal models of volas

volas is a data-frame library for financial series. Its frames hold data columns and *directive columns*
(`ma:5`, `ema:12 > close`, ...): a directive is computed on first use, cached as a column, and then kept
current as rows arrive. The hard part of volas is not any formula; it is that this cache must stay
**exactly** what a full recomputation would give, while almost every refresh does one row of work.
This directory models that machinery in TLA+, checks it with TLC on small instances, and proves with TLAPS, for every
value of the constants, what its runs check of the cache, of list reads, of row admission, of the cumulator and of the buffers.

## 1. The system and its parts

| Part (crate, file) | State | Operations | Interacts with |
| --- | --- | --- | --- |
| Computed-column cache (`volas-core`, `dataframe/computed.rs`) | per cached column: `valid_rows`, `state`, `state_before_last`, `state_at`, `since`, `first_present`, `anchors` | `set_computed`, `write_computed`, `set_computed_states`, `advance_computed_state`, `step_cached_state`, `invalidate_computed_forming_row`, `invalidate_computed_on_write` | called by admission, cell writes and the refresh |
| Frame and row admission (`dataframe.rs`, `dataframe/admit.rs`, `dataframe/cells.rs`) | columns, index, height, origin | `append`, `append_retaining`, `set_column`, cell writes | pads and invalidates cached columns |
| Refresh (`volas-python`, `frame_refresh.rs`, `frame_access.rs`) | none of its own: a loop over the cache | `df[d]`, `fulfill`, the bulk-read gate | calls the directive engine and writes the cache |
| Directive engine (`volas-directive`) | none | execute, resume, step, replay; `lookback`, `reach` | reads the frame |
| Histories and anchors (`dataframe/history.rs`, `replay.rs`) | checkpoints, anchor banks shared by copies of a frame | keep, bound, nearest, replay | used when a carried state was lost |
| Derived frames (`dataframe/derive.rs`, `lead.rs`) | the lead: rows kept before row 0 | slice, tail, compact | re-bases the cache record |
| Bounded frames (`frame_bounded.rs`) | window, margin, checkpoints | append with retention, compaction | drops rows the cache came from |
| Time-frame frames (`frame_tf.rs`, `volas-time`) | open period, its aggregate, the forming row | fold finer bars, roll over, follow a user's edit | replaces or appends the last row |
| Buffers (`volas-core`, `buffer.rs`) | shared storage, the facts remembered of its values | write, append, scatter, slice, lend | under every column |
| Indicator kernels (`volas-compute`, `raw`; `volas-directive`, `exec*`) | the words and framed rows a column carries | pass over all rows, resume, step, chain | the refresh |
| Windows (`volas-compute`, `window.rs`; `volas-python`, `window.rs`) | sums, deque and sorted values of one pass | rolling, centered, expanding, ewm | a series |
| Index (`index.rs`) | labels, their remembered order | search, continue, extend | admission |
| Columns, dates, parser, I/O | none | stateless operations | everywhere |

Calls are synchronous and one thread owns a frame (`&mut self`, the interpreter's lock): there is no
parallelism to interleave on a frame. What interleaves is the *order of legal calls*: appends that replace
the last row, writes, reads of one column and not of another, steps that decline, computations that raise
half-way. Copies of a frame share storage and anchor banks, the one place with real sharing.

### Behaviours that are hard here, and what makes each part correct

* **Cache:** a value under the cursor equals a full recomputation over the data as it is *now*; a carried
  state sums up exactly the rows through the row it is recorded at; an anchor is the state of its row and
  never the state of the last row, which may be replaced.
* **List reads:** reading several directives at once is all or nothing, although each entry may refresh, cache or raise.
* **Kernels:** stepping, resuming in bulk, replaying from an anchor and computing every row give one value, over missing
  rows, a last row that changes while it forms and directives fed by directives.
* **Windows:** what a sliding sum, a deque or a sorted window shows is what the rows of the window alone define.
* **Refresh:** it may step, resume in bulk, replay a lost state, recompute over a window or over everything,
  and may fail between columns; whichever way, it only extends what a column vouches for, finishes what the
  caller was promised and ends.
* **Admission:** a batch is taken whole or not at all; the label of the last row replaces that row; hidden
  rows are not addressable.
* **Bounded frames:** rows go only once a state that can continue without them is kept.
* **Time frames:** appending bars one by one, re-sent ones included, gives what one batch gives.
* **Derived frames:** a slice answers what the whole frame answers for its rows.
* **Buffers:** a write never shows in a clone, and the remembered NaN fact follows every write.
* **Anchor banks:** copies of a frame publish to shared banks; none sees or loses what another published.

`PROJECT.json` lists every component with its status and every hazard at its line.

## 2. Modules

| Module | What it is |
| --- | --- |
| `Kernel` | What a directive computes: which rows a value and a carried state depend on. No variables. |
| `ColumnMeta` | The record of a cached column (`ComputedMeta`) and its operations, as functions of the record. |
| `ComputedCache` | The state machine: frame, cached columns, the refresh and the calls of a user. |
| `ExactColumns` | The abstract specification: data, and reads that refuse, raise or answer exactly. |
| `StagedReads` | `ComputedCache` with reads of several columns, staged on a copy of the frame. |
| `MCStagedReads` | Instances of both for TLC. |
| `LabelIndex` | Row labels: kinds, remembered order, search, and which labels may follow which. No variables. |
| `RowAdmission` | The state machine of a frame's rows: a batch checked, routed, written, and old rows dropped. |
| `PeriodFold` | What the bars of a period aggregate to: the fold of a cell, the batch reduction, the running aggregate. No variables. |
| `Cumulation` | The state machine of the incremental cumulator. |
| `TimeFrameFold` | The state machine of a time-frame frame: bars folded into its forming row, and its user's edits. |
| `MCCumulation`, `MCTimeFrameFold` | Instances for TLC. |
| `HeldHistory` | What a frame that let rows go keeps of a cached column's history, and the replay from it. No variables. |
| `RetainedFrames` | The state machine of a bounded or selected frame: appends, writes, drops, selections and the refresh over what is held. |
| `MCRetainedFrames` | Instances for TLC. |
| `SharedBuffer` | The state machine of the typed buffers: allocations, who holds which range, the facts remembered. |
| `PrivateBuffers` | The abstract specification of the buffers: values of one's own. |
| `MCSharedBuffer` | Instance for TLC. |
| `AnchorBanks` | The state machine of the anchors that copies of a cached column share. |
| `Floats`, `SlidingWindows` | The numbers the kernels compute with; the passes and steps over window sums, extrema and deviations. No variables. |
| `MovingAverages`, `FiniteAverages` | Recursive and finite averages, and the average an indicator smooths its own series with. |
| `DirectionalMoves`, `WindowSums`, `Oscillators`, `Accumulations`, `Statistics` | The kernels of the indicators, each with its pass, step and resume. |
| `CommandSpecs` | What every command declares: columns read, lookback, history, resume depth. |
| `KernelTable` | From a command to its pass, step and resume. |
| `KernelFrames` | The frame a column carries: words, framed rows, rows with missing inputs, anchors. |
| `ChainedFrames` | Directives over directives: a frame and a ring per node. |
| `IndicatorStream` | The state machine of one cached indicator column over rows that arrive and change. |
| `MCIndicatorStream` | Instance for TLC: some 160 directives over two series of bars. |
| `WindowKernels` | The statistics of a sliding window and of decaying weights, one row at a time. No variables. |
| `WindowSnapshots` | The state machine of a pass over a series, and the statistics said of the rows of the window alone. |
| `MCWindowSnapshots` | Instance for TLC. |
| `KernelProofs` | Lemmas on the operators of `Kernel` and `ColumnMeta`. |
| `ComputedCacheProofs` | The invariants of the cache and of its refresh, the refinement of `ExactColumns`; list reads: the same invariants with them, and that they are all or nothing. |
| `RowAdmissionProofs` | Search, labels, rows and batches. |
| `PeriodFoldProofs` | Lemmas on the operators of `PeriodFold`. |
| `CumulationProofs` | The cumulator is batch cumulation. |
| `TimeFrameFoldProofs` | Bars folded in place are batch cumulation, and a refused batch leaves nothing behind. |
| `SharedBufferProofs` | Facts, ranges, and the refinement of `PrivateBuffers`. |
| `RetainedFramesProofs` | A frame that lets rows go keeps the history of its column, and enough of it to go on. |

In `PROJECT.json` every definition has the lines it stands for; a helper without lines of its own in the code is mapped
to those of the function it is part of. `AppendBatch` of `RowAdmission` is split into operators (`AdmitRows`, `CommitRows`, ...)
along the functions of the code, which is also how its proof is split.

### The value algebra (`Kernel`)

Floating-point arithmetic is replaced by a free algebra: the value of a directive at a row *is* the sequence
of data rows it depends on, and the state as of a row *is* the sequence of rows it sums up. Two computations
agree in this algebra exactly when they read the same rows, each once and in order, so any double count,
omission, stale row or off-by-one in the cache shows as a different value. Whether a kernel gives one value along every
path is the subject of `IndicatorStream`, below. Each directive has a `lookback`, a `resume` depth and a history: a *window* leaves no state (it is
recomputed over a trailing window), an *accumulator* leaves the state of a bounded window, and a *carried*
history (a recursion) depends on every row since it began. `Missing` is NaN, `NoState` is `None`.

### The machine (`ComputedCache`)

| Variable | Code |
| --- | --- |
| `series` | the data column the directives read; its length is `height` |
| `kind[c]` | whether name `c` holds nothing, a cached directive or data written by a user |
| `cells[c]` | the column of that name |
| `meta[c]` | the frame's `ComputedMeta` of the name |
| `job` | the local variables of a running `refresh_column`: stale columns left, the column, its snapshot |
| `answer` | what the last call returned |

Calls: `AppendRows` (`append`: the first row of the batch may carry the last row's label and replace it),
`WriteSomeCells` (`land` behind `require_fresh`), `SetData` and `SetSomeColumn` (`__setitem__`), `CacheNew`
(first use of a directive), `GetItem`, `Fulfill`, `BulkRead`. One refresh is split at the calls it makes on
the cache: `BeginColumn` (the snapshot and the gate), `RestoreCarriedState`, `StepRow`, `StepDeclines`,
`ResumeRows`, `ResumeDeclines`, `RecomputeWindow`, `RecomputeWhole`, `RecomputeRaises`, `EndRefresh`. The
points where the engine may decline (`None`) or raise are nondeterministic: a decline is modelled as possible
wherever the code has a fallback, which covers missing inputs and lines without a single-row step.

Abstracted from the core: missing input rows and the framed tail a state carries over them; the
`continuation` reach; directives that answer with row positions; counted histories (treated as windows); the
lead and an origin other than 0 (`RetainedFrames` has them); rejected writes (type errors), which change nothing.

`StagedReads` adds `df[[d1, d2]]`. While a list read runs, `kind`, `cells` and `meta` are those of the *copy* the code works
on, and `answer` holds the frame the caller still has: `BeginListRead` computes all new entries and caches them in the copy
(`ListEntryRaises` when one cannot be computed), the steps of the refresh are those of `ComputedCache`, its end answers the caller and so makes
the copy the frame, and `StagedRaises` and `ProjectionFails` drop it. That copies share buffers until one is written is `SharedBuffer`'s subject.

### Labels and the admission of rows (`LabelIndex`, `RowAdmission`)

`ComputedCache` takes a batch as "the first row may replace the last one, the others are new". `RowAdmission` is the
part that decides this, from labels. An index has a kind (a range, integers, datetimes with `NaT`), its labels and the
order *remembered* of them (`LabelOrder`), which `Find`, the continuation check and the routing rely on.
`MaxLabel` is `i64::MAX`, so the overflow of a continued label happens. The data of a row is abstracted to its
provenance (its position before the call, or its row of the batch).

`AppendBatch` is one call of `append_rows`: the retained rows are worked out (`RetainedFrom`), the whole batch is
checked (`AdmitRows`, `Routable`) and only then committed row by row (`CommitRows`: `WriteLastRow` or `PushRows`, which
checks again), and a bounded frame drops its oldest rows once it holds twice its capacity (`Compact`). Whether the batch's columns fit the
frame's is a nondeterministic refusal. `Refresh` brings the one cached column's cursor up to the height.
Folded away: the faster path of a single row (same outcome), the string index (an integer index that is never
unlabelled) and duplicate columns. `OneByOne` is the reference: the documented rule for one row, applied to each.

### Cumulating finer bars (`PeriodFold`, `Cumulation`, `TimeFrameFold`)

A bar is a timestamp and a cell per column; every column has an aggregator. Periods start at the multiples of `Period`
(the real grids, with zones and calendars, are not modelled). A column is of floats or of integers; an
integer sum beyond `MaxInt` is `Overflow`, and a missing cell makes its period's cell missing. Left out: the rounding and the NaN
bits of floats, strings and decimals, and the schema checks of a batch.

`Cumulation` is `Cumulator`: `closed` rows, the `open` period's bars, its running `aggregate` (absent while it
overflows; the error comes when the period is read or closes). `AppendOne` is the short path of a single bar (`append_one`), `AppendMany`
the path of any other batch (`append_inner`), which reduces everything aside and commits at the end. The history variable `fed`
is every bar taken, so that `IncrementalIsBatch` can compare with cumulating all of them at once, and
`RowsMeanTheirBars` says what a row means without any fold.

`TimeFrameFold` is a frame with a `TfState`. `FoldAppend` is the whole of `fold_append`: admission, order, the probe of several bars
and `fold_bars`, one operator per branch: `RollOver`, `PublishAggregate` (a re-sent bar), `RefoldPeriod`, `FoldIntoForming`. A record of
the variables it works on is folded over the bars, so that a failure half-way leaves what the code leaves. The user writes cells
(`WriteCell`), turns a float column into integers (`ToIntegers`), adds a column (`AddColumn`) and takes
tails (`CutTail`); `Follow` is `TfState::follow`. A tail of a frame with cached columns keeps rows before its first one, its lead; `lead` is the set of
columns those rows hold as floats, which limits integers written later to exact floats (`MaxExact`, 2^53 in the code). A frame starts
empty, from rows that are bars of the time frame (the documented contract of `time_frame=`), or from `cumulate`.
Not modelled: projections, renaming, re-labelling and zones of a time-frame frame, and a change of type other than float to integer.
`RefoldPeriod`, the fallback for an open period that does not aggregate, folds it over its bars with the new one; without float rounding it matters
only for integer sums, where it can succeed when a re-sent bar no longer overflows the sum.

### Frames that let rows go (`HeldHistory`, `RetainedFrames`)

A bounded frame drops its head; a contiguous selection continues its source's series without the rows before it. Both keep
the rows before row 0 a cached column reads (the lead, `Wanted` and `Selected`) and, for a recursion, a point of its history to replay
from: a checkpoint, an anchor, or its start (`NearestPoint`, `ContinuedPoint`). `HeldHistory` has what is kept (`ContinuedMeta` is
`continued`) and the replay from it (`ReplayedState`, `CheckpointAt`, `Restored`); `RetainedFrames` has the calls: `AppendRows`
(the whole of `append_rows`: the replaced last row, the new rows, the drop of the head), `WriteSomeRow`, `SelectSomeRows` (the selection takes the frame's
place), `SelectSomeAside` (the source stays, with the anchors its selection formed), `MakeBounded` (the copy made by `window=`)
and `Refresh`, which is `refresh_column` as a whole: `LedRows` the rows of the lead it reads, `RefreshLed`, `ResumedOver`, `RecomputeStale`
and `ReplayColumn` its branches, any of which may find that the resume declines.

The series is a history variable: all rows that ever came, kept or not. A data row is the number of the change that last wrote it, and a recursion's state is the
sequence of what it read at each row, that row and the `Operands` rows before it (`ema:5@(roc:5)` reads five). So
a state that read a row too few, a row too many or an outdated row differs from `History`, the state a computation over the
whole series has; `ShownRowsExact` and `PointsExact` compare with it.

Left out: more than one cached column (that another column keeps an older lead is the variable `shared`), accumulators on such frames,
the raw rows a chain of recursions keeps before it can seed, directives a window cannot keep (they raise), and the dtypes of a
lead (`TimeFrameFold` has what they refuse).

### Buffers (`SharedBuffer`, `PrivateBuffers`)

A buffer holds owned storage (an `Arc` of a vector, copied by a write when anybody else holds it), a range of foreign memory, or a range
of a slab several columns were copied into; and two remembered facts, whether its values hold a NaN and a non-finite
value. `heap` is the values of every allocation, `buffer` what every name holds. `Write` and `Derive` are the operations of `buffer.rs`: `MakeMut`,
`AppendValues`, `AppendRepeated`, `Scatter`, `CompactRange`, `Clone`, `SliceWithSpare`, `CopySlab`, `IntoVec`, `Lend` (a consumer keeps
a range alive), `Drop`, and the questions `HasNan` and `HasNonfinite`, which may remember their answer. A value is a number, an infinity or a NaN. `PrivateBuffers` is the abstract
specification: every name has values of its own; `PrivateSpec` is the refinement. Left out: capacity (in-place compaction is a choice), the validity bitmap of integer columns.

### Anchors shared by copies (`AnchorBanks`)

The anchors of a cached column are checkpoints in banks of bounded points and words, indexed by chunks (`AnchorIndex`): a store, to
which handles publish and which their clones share, and a frozen snapshot a derived frame was given. A bank grows in place only while a
single chunk refers to it (`SoleOwner`). The calls are `Keep` and `KeepAll` (publish one row, or several), `Clone`, `Derive` (the anchors of selected rows) and `Forget`; `published` and `given` are
history variables that say which rows a store and a snapshot must list. `Spacing`, `ChunkPoints` and `ChunkWords` are the code's 512 rows,
and its limits of points and words per chunk; a row in `WideRows` has a state of two words.

### Indicator kernels (`Floats` ... `IndicatorStream`)

`Floats` is a fixed-point number (`One` stands for 1.0) or NaN, the one value of everything not finite; the operators
propagate NaN and a comparison with NaN is false. Equality of two computations in it means that they do the same operations in an order that gives the same result;
rounding is that of the fixed point, never that of IEEE. A compensated sum is exact up to `ExactLimit`, as the code's is until it has lost bits. Each kernel module has, of every
kernel, the pass over a series with the words it leaves after each row, the single step (`..._resume_one`) and the resume over
several rows; `KernelTable` chooses them as `execute`, `execute_resume` and `execute_resume_step` do. A command is its name and arguments.

`KernelFrames` is `exec_resume/state.rs` and `states.rs` over `missing.rs`: a recursive kernel sees complete rows only (`CompleteOf`, `Gather`,
`Scatter`), a window is blank while it holds a missing row, and what a column carries is the kernel's words *and* the operand rows its next step reads. `ChainedFrames`
is `chain.rs`: the stateful commands of a directive as nodes, each with its frame and the ring of its last values.

`IndicatorStream` is one cached column. The engine that computes, resumes and steps its directive is a parameter, five functions that
`MCIndicatorStream` binds to `ChainedFrames`; `plan` is what the directive declares of itself. `Grow` and `GrowMany` append rows and refresh, `ReviseLast` writes the forming row
again and continues from the frame before it, `Recache` computes anew. `Refreshed` is the fallback order of the code: step, resume (up to the row before the last, then the
last), everything. Its properties compare the column with a computation over all rows; the lookback and history each command *declares* with
what its values do (`WarmUp`, `WindowAlone`); and the anchors a pass leaves with a replay from them.

### Windows (`WindowKernels`, `WindowSnapshots`)

A call computes one statistic of every row in a pass; `WindowSnapshots` runs the passes of all of them together, a row per step (`Slides`,
`Weighs`). A float is its place in IEEE's total order, so that the two zeros are two values and one number, and quarters of a number are
whole. Sums beyond `ExactLimit` have lost bits and beyond `MaxFinite` are infinite. `Meant` says the same statistics of the rows of the window, clipped at both ends, with
quantifiers and counts; `WeightsExact` gives each row of an exponential window its weight at once. A variance is an exact quotient; a correlation, a skewness and a kurtosis
are compared as the moments they are a quotient of, before the last floating step.

### The abstract specification (`ExactColumns`)

It has the data, who owns a name and the last answer. A read refuses, raises, or answers with the reference
values over the data as it is; a name a user took over is never handed back to a directive. The run
`cache_recursion` checks that `ComputedCache` implements it, with `owner` and `Reference` as the refinement mapping.

## 3. What the runs check

| Run | Instance | Shows |
| --- | --- | --- |
| `cache_recursion` | one recursion (lookback 2), two data values, up to 4 rows, appends of up to 2 rows beside a replacement, an anchor every 2nd row, weak fairness of the refresh | types, states, anchors and first present value in every order of calls; replacing the last row stays cheap; a refresh only extends, leaves user data alone and ends; every answer is one `ExactColumns` allows |
| `cache_together` | a window (lookback 0) and an accumulator (lookback 1, resume 2) in one frame, up to 6 rows, list reads of any subset | valid rows are exact while resume, windowed recompute (which needs more than 4 valid rows) and whole recompute mix; a refresh completes what it promises; a list read is all or nothing |
| `admission` | a frame of any index kind, unbounded, of up to 4 rows, or of two visible rows and one row of margin (three rows kept, a drop at six); every batch of up to 3 (labels 0..3, `NaT`) | the remembered order is true, search finds the first row of a label, a batch does what its rows would one at a time or nothing, a time series stays increasing, integer labels stay unique over the retained rows whatever the buffer holds, the cursor never vouches for a replaced row |
| `cumulation` | a column of every aggregator, periods of three timestamps, timestamps 0..4 and `NaT`, batches of up to two bars, four candles of which two overflow the sum and two have missing cells | the incremental rows are the batch's, whatever path a bar took; the aggregate and its checkpoint are exact; rows mean their bars |
| `timeframe` | a sum that starts as floats and a last value added later, periods of three, timestamps 0..3, appends of up to two bars | the forming row is the cumulation of the open period after any mix of bars, re-sent bars and edits; folding is batch cumulation; a refused call changes nothing |
| `timeframe_lead_batch` | the same, timestamps 0..5, with a lead of floats and integers above 1 no exact floats | a finding: an append of two bars is refused after the first was folded, since the probe has no lead; `fold_append` promises all or nothing |
| `retained` | a recursion that reads one row back, or a window of two rows, with its own lead or beside a column whose lead may be older; window 1 and margin 1 (three rows kept, a drop at six), up to 8 rows, one rewritten row, an anchor every 2nd row, up to one row before the history's start | shown rows and every point of the history are those of the whole series after any chain of drops, selections and writes, and rows before the history's start never enter it; the history is never lost, what is held stays small, and the live row never falls back to a replay |
| `retained_operands` | the same recursion with its own lead only | a finding: after a drop of the head a stale column is restored from an anchor whose next row reads dropped rows |
| `buffers` | two names and three allocations, buffers of up to two values | remembered facts are true and nothing is remembered of foreign bytes; sharing is invisible: `SharedBuffer` implements `PrivateBuffers` |
| `anchors` | two handles, three banks, rows 0..4 with an anchor each, two points and two words per chunk, row 1 two words wide | stores and snapshots list exactly the rows given to them; the nearest anchor is the latest one at or before a row |
| `indicators` | some 160 directives (every kernel modelled, chains included) over two series of bars, a run of three rows each repeating its close ("plateaus") and a falling one that starts at row 3; up to 5 rows past the warm-up, one row that differs or misses its inputs | step, resume, replay and full computation agree, in values and in carried frames; declared warm-ups and finite histories are true |
| `windows` | every series of two or four rows over five values (both zeros, sums that overflow) and missing rows; windows of 2, 3, 8 rows, centered or not, expanding; two decays with every option | every statistic of every row is what its window defines |

**Bounds.** `MaxRows` and `MaxBatch` bound the frame, and `AnchorSpacing` is 2 instead of the code's 512 so that
a replay crosses anchors. With lookback 2, four rows hold two warm-up rows, the first value and one row
past it, so that a state, the state before it and an anchor all exist and may be replaced; the accumulator
needs six rows to reach the windowed recompute. Two values tell a replaced row from the row it replaced;
`cache_together` has one value:
there the rows a value covers are told apart by their number, and the exactness under replacement is the
subject of `cache_recursion` and of the theorems, which have no bound at all on the instances.
A period of three timestamps holds a first bar, a new one and a re-sent one with a checkpoint before it; timestamps past it reach
the next period, so that a restart of the aggregate and a stale key show. In `timeframe` every integer that does not overflow is an exact float
(`MaxExact = 3`): what the lead refuses is the subject of the run after it.
In the retained frames eight rows and a drop at six let a frame drop its head and be selected from, be bounded again and drop once more,
with two anchors between; the finding takes up to nine. One rewritten row is enough to tell an outdated state; the recursion of `retained` reads one row back, where the code is
exact, and the finding is the same machine with a recursion that reads two rows back.
Three allocations for two names leave a copy room beside both; two points and two words per chunk make a wide state close a chunk early, so that uniform and uneven
chunks, regular and irregular grids all occur within five rows.
In `indicators` periods are 2 to 5, so that a window fills, drops its first row and slides several times in five rows past the warm-up; anchors are every 4 rows (512 in the code) and a command whose span is too long to reach
row by row (`LongLookback` 8) starts just before its first value. `PassRows` 8 lets short kernels reach the one-pass computation that leaves anchors. One odd row
is enough to tell a replaced row from its replacement, and the same row missing tests the recursive and the windowed rule; several missing rows at once are not covered.
In `windows` a window of 8 exceeds every series, 3 is odd (a centered one is symmetric) and 2 is even; four rows let a window of two lose two rows, and a sum of two of the greatest value passes
both `ExactLimit` and `MaxFinite`.

**Deadlock** is checked in every run but `indicators` and `windows`: a user can always append, replace or read. A stream of rows and a
pass over a series end.

**Findings.** Two runs expect a violation. `timeframe_lead_batch`: `fold_append` tries several bars without the lead, and a later bar may be refused after the first was written.
`retained_operands`: a point of the history is taken although the next row reads operand rows that were dropped. Three more disagreements were met while modelling and have no run of their own:
labels may repeat in a datetime index that is not increasing (only the last label is compared, `admit.rs:256`); a refused re-sent bar stays in the running aggregate when the lead refuses it (`frame_tf.rs:514`);
and a replay that starts right after the history's start reads an older lead kept for another column (`replay.rs:195`). The passing runs stay on the side where the code is exact:
`RetainedUnique` speaks of integer labels, `timeframe` has no integer a float cannot hold, `retained` reads one row back.

**Fairness.** `FairSpec` has weak fairness of `RefreshStep` alone: a refresh is a loop of the thread that
called it, with nothing to wait for. No fairness is assumed of a user's calls.

## 4. What is proved

For every value of the constants that satisfies the assumptions below, `tlapm` proves:

| Module | Theorem | Says of every behaviour of the specification |
| --- | --- | --- |
| `ComputedCacheProofs` | `TypeCorrect`, `ValidRows`, `CarriedStates`, `Anchors` | `[]TypeOK`, `[]ValidRowsExact`, `[]StatesDescribeTheirRows`, `[]AnchorsExact` |
| | `FirstPresentValues` | `[]FirstPresentExact`: the remembered first present value is the least valid row that holds one |
| | `Extends`, `Completes`, `LiveRows` | `RefreshOnlyExtends`, `RefreshCompletes`, `LiveRowCheap`: what a step of a refresh, its end, and a replaced last row may do |
| | `Implements` | `ComputedCache` refines `ExactColumns` (`AbstractSpec`) |
| | `StagedValidRows`, `StagedCompletes` | the same with list reads among the calls |
| | `AllOrNothing` | `ListReadAllOrNothing` |
| `RowAdmissionProofs` | `SearchIsExact`, `LabelsStayUnique`, `CursorCovers` | `[]FindsFirst`, `[]RetainedUnique`, `[]CursorCoversHeldRows` |
| | `SeriesStaysIncreasing`, `AppendIsRowByRow` | `StaysIncreasing`; `[]BatchIsItsRows`: a batch is taken exactly when its rows would be, one at a time |
| `CumulationProofs` | `BatchesAddUp`, `RowsMean` | `[]IncrementalIsBatch`, `[]RowsMeanTheirBars` |
| `TimeFrameFoldProofs` | `TimeFrameTypes` | `[]TypeOK` |
| | `FormingRowExact`, `RunningAggregateExact` | `[]FormingIsCumulation`, `[]AggregateExact`, while `LeadTakesAll` |
| | `FoldingIsBatch`, `AppendsAllOrNothing` | `[]FoldIsBatch`, `AllOrNothing`, while `LeadTakesAll` |
| `RetainedFramesProofs` | `ShownRows`, `PointsKept` | `[]ShownRowsExact`, `[]PointsExact`, under `ShortOperands` |
| | `HistoryNeverLost`, `RowsBounded` | `[]NeverLost`, `[]HeldRowsBounded`, under `ShortOperands` |
| | `LiveRowGoesOn` | `LiveRowResumes`, under `ShortOperands` and where more than two rows are retained |
| `SharedBufferProofs` | `BufferTypes`, `FactsHold` | `[]TypeOK`, `[]FactsTrue` |
| | `Implements` | `SharedBuffer` refines `PrivateBuffers` (`PrivateSpec`) |

The inductive invariant of each machine but the time-frame frame (whose values need the hypothesis below) is a theorem too: `Invariance`, `RefreshInvariance`, `StagedInvariance`, `RowInvariance`,
`CumulatorInvariance`, `BufferInvariance`, `HistoryKept`. `KernelProofs` and `PeriodFoldProofs` hold lemmas only.

**Assumptions**, all of them named in the modules and evaluated by TLC on every run. Cache: lookbacks and resume depths are natural and
every directive has one of three histories (`ReachAssumption`), anchors have a positive spacing, the bounds are naturals. Admission: windows and
the margin are naturals (`WindowAssumption`), and so is the greatest label. Cumulator: a period is positive, an aggregator is one of the five, the markers are no
numbers, and the cell of a bar in a column of integers is missing or one that fits the type (`PeriodFoldAssumption`, `CumulationAssumption`). Time-frame frames: the same of the period, candles and written values are numbers or missing (`TimeFrameFoldAssumption`). Frames that let rows go: a window is positive, the margin and the bounds are naturals (`RetainedAssumption`, `HeldAssumption`), and a recursion reads at most one row before a new one, never more than its lookback (`ShortOperands`, see below). Buffers: lengths are bounded, names are finitely many, and there is one
allocation more than names (`EnoughMemory`), since the code's allocator always finds one. The bounds on rows, batches, timestamps and lengths are constants, so a theorem
holds at each bound.

### The arguments

**Valid rows** (`IInv`). None of the four first invariants is inductive alone. `IInv` is the conjunction of

* `Shape`: lengths and types of everything;
* `ColumnInv`: of each cached column, the exactness of valid rows, both states and the anchors *together* with where
  they are recorded: a state is recorded under the cursor, the state before it only if there is a row
  before, and anchors stop before the last row. Without the bound on anchors a replaced last row would
  leave a wrong anchor; without the position of the states dropping back by one row would be wrong;
* `JobInv`: what a running refresh relies on: the columns still to do are stale and cached; in the phases that
  resume, the next row is the first stale one and at least `lookback` rows are valid. The last is what makes
  the resume's silence about warm-up (`Extend` never masks) agree with the full computation.

Each action has a lemma `...Inv` that it preserves `IInv`; they rest on the lemmas of `KernelProofs`:
continuing the summary of `a` rows to row `b` is the summary of `b` rows (for a recursion and for an
accumulator), a row computed over a window twice the reach is the row computed over the whole, and neither
looks at rows after its own, so that replacing the last row leaves all earlier values and states exact.

**The refresh** (`RInv = IInv /\ Owed /\ FirstInv`). `IInv` says nothing of the columns a refresh has not reached. `Owed` does: a column its caller
wants is still to do, in work, or current. `FirstInv` says of the remembered first present value that no valid row before it holds one, and that the row it names, *once valid*, does:
a write may clear that row before the cursor passes it again, so the plain `FirstPresentExact` is not inductive. The refinement maps
the owner of a name and the reference values; an answer is exact since a read ends only when nothing is owed to it.

**List reads** (`SInv = RInv /\ HeldInv`). The variables hold the copy while a list read runs, and the frame the caller gets back on a failure must satisfy the invariant itself, over the data as it is:
that is `HeldOK`; and `Untouched` keeps the columns the read does not name as they were, which makes it all or nothing.

**Buffers** (`BInv`). Every handle ranges over an allocation that is there, and what it remembers is true of that range. A write that must copy goes to an
allocation no name holds (`UnusedIsFree`, by counting), and one that writes in place is the only holder, so no step makes what another name remembers false; under the mapping of a name to the values of its range each step is
one of `PrivateBuffers`, where nothing is shared.

**Admission** (`RowInv`). Unique labels and the cursor's cover are inductive only with facts no property states: a range index counts from its start, the order an index remembers
is that of its labels (`IndexOK`), there is a row per label, and the labels retained are apart, which is needed of the labels *now* retained and not of all held, for a dropped window lets an old label return. Four things carry the proof: the bisection finds the first row
of a label; an extended index is the index of the extended labels; rows written one at a time keep labels apart; the head a drop removes lies before the retained rows. `AppendIsRowByRow` then compares the code's checks of a whole batch (one search per batch, one
continuation test) with the documented rule taken row by row, by induction over the rows of the batch.

**Cumulator** (`CInv`). On the short path a bar goes into the running aggregate and no closed row is computed from the open bars, so the comparison with a batch is not inductive.
`CInv` adds that the aggregate is the reduction of the open bars and its checkpoint that of all but the last of them whenever there is one, and that no closed row overflowed. `PeriodFoldProofs` then shows that appending to *all* bars amounts to appending to the bars of the last period
(`Merging`, `MergedRows`): sequences in strict order are told by their elements, so listing in a different order of operations gives the same list. `RowsMean` unfolds the reduction by induction over the bars of a period.

The proof of `RowsMeanTheirBars` found the property wrong as it was stated before: it claimed that the total of *every* sum column fits the integers, which is true of integer columns alone and which the instance, whose one sum column is of integers, could not tell. Listings of bars are written as recursive *functions* (`At` for `dedup_keep_last` and the bars of a period), for which
`tlapm` can follow an induction over positions.

**Time-frame frames** (`TInv`, `XInv`). A fold works on a record, so the invariant is one on records (`Shape`, `Exact`), kept by every bar and therefore by a batch up to the bar that fails. `Exact` says of the open period that its bars are such as the
frame takes, that every forming cell is their reduction (but under a column added since, which the bars hold as missing), and that the aggregate, if any, sums them up with its checkpoint. `FoldBar` has four ways to take a bar; each is shown equal to the one reduction of the bars with the new one
(`TookBar`), which turns `FoldIsBatch` into an induction over the bars of the batch on what `PeriodFoldProofs` says of one more bar: in the last period it changes the last row, in a later one it adds a row (`MoreRows`).
`AllOrNothing` rests on the try: the fold on the forming row alone (`Probe`) and the fold on the frame read the same open period and the same row, so they succeed and fail together (`Alike`).

The theorems on values carry the hypothesis `[]LeadTakesAll`: no column of integers lies over a lead of floats, or every integer is an exact float. Where it fails the code does differ: the try has no lead, so a later bar may be refused after the first was written (run `timeframe_lead_batch`), and a refused re-sent bar stays in the
running aggregate (`frame_tf.rs:514`). The hypothesis is no empty one: `UncutLead` proves it of every behaviour in which no tail is cut, which is the instance of the run `timeframe`. `TypeOK` needs no hypothesis.

**Frames that let rows go** (`Invariant`). `ShownRowsExact` compares with rows that are gone, so the invariant says what the frame needs of them. Let the frame hold the rows after `Base` (its lead included) of a history that starts at `start`, and show the rows after `Low`. `Held` says that

* the rows shown and vouched for are those of the whole history (`RowsHeld`);
* the states, the checkpoint, the pending one and the anchors are the history to their row (`StatesHeld`, `PointOf`), and an anchor lies before the last row, since that one may be replaced;
* a checkpoint or an anchor has its *operands* held too: `Usable` is `Base + operands <= rows`. A point that is right but whose next row reads a row that is gone is of no use, and no property says so;
* when the start of the history is no longer held, a checkpoint is, and it is of a row the user can no longer rewrite (`rows <= Low`): this is why `NeverLost` survives a write, which drops the anchors;
* a window's lead reaches as far back as the column reads (`WindowHeld`), for no point helps it.

Each call has a lemma that it preserves `Invariant`. Rows that come in, a replaced last row and a write change nothing before `Low`; a drop and a selection keep a point or the rows back to one (`SelectedHeld`, `CompactedHeld`, the latter with the checkpoint taken before the head goes); the refresh is cut
along its branches: resumed, led, recomputed over a window, recomputed as a whole, replayed, each shown to leave `Held` and to answer (`RefreshOutcomesHeld`). `ContinueIs` carries them all: a state continued from a usable point over the rows held is the state of the whole history.

`ShortOperands` is the code's boundary and not the proof's: for a recursion that reads two rows before a new one (`ema:3@(roc:2)`) `ShownRowsExact` is false, as the run `retained_operands` shows, because a drop keeps every anchor after the first row held and `Replayed::nearest` asks no more of a point than that it is not before the rows held (`replay.rs:195`).
With at most one operand the row between is all a step needs, which is what `Usable` makes of it. A recursion reads its operand's rows within its lookback, since it warms up after its operand does (`lookback.rs:67`).

`LiveRowResumes` needs a retention of more than two rows, that is a window of more than two rows or a margin. At two, a frame of three rows that takes a replaced last row and a new one in one append drops to its last two rows, neither of which it vouches for: a column of lookback 0 is then replayed
instead of resumed. Its values are right all the same (`ShownRows`); the run `retained` keeps three rows.

### Only model-checked

* `RefreshEnds`: liveness under fairness is beyond the prover.
* `AnchorBanks`: not attempted; that chunks of banks list exactly the rows given to them is an induction over nested sequences (section 5).
* `IndicatorStream` and `WindowSnapshots`: what the sums, folds and recursions of the kernels compute for *every* series would need an induction for each kernel over operators that take operators as parameters, which the prover's library cannot instantiate.

`ValidRows` is checked on the accumulator by `cache_together`; for recursions TLC sees it through `AbstractSpec`, and the theorem covers both. What `RetainedFrames` does for recursions that read two rows back
or more is outside the theorems: there the code is wrong in the case the run `retained_operands` shows.

## 5. What is not modelled, and what could come next

1. `RetainedFrames` with two cached columns, accumulators and the retrimmed lead; as an abstract specification the frame that
   holds every row, with a refinement mapping instead of the comparison with `series`.
2. Derivations that start a new series (projection, removal, relabelling, casts) beside the contiguous ones.
3. Theorems: `AnchorBanks` (a snapshot and a bank list the rows given to them).
4. Directives that read other cached directives within one frame: their order in a refresh.

Not modelled, with the reason:

* **Kernels:** candle patterns (some sixty predicates over the last bars, no state), the Hilbert cycle commands and MAMA (floating trigonometry that a fixed point does not follow), commands without state inside the operands of a chain,
  and the rounding of floats: bit-equality along every path is what the repository's own tests check.
* **Windows:** the frame wrappers that apply a window to every column, the sign of a zero that a midpoint or an interpolated quantile shows, square roots and the final factors of skewness and kurtosis.
* **Period grid:** flooring of instants and which grid coarsens to which (`time_frame.rs`): calendar arithmetic over units; it has no state.
* **Columns, reductions, dates, zones, decimals, the directive parser:** stateless, over unbounded data or text; unit tests cover them.
* **Input and output, Python argument conversions:** pure I/O.
