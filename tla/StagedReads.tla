------------------------------ MODULE StagedReads ------------------------------
(***************************************************************************)
(* Reads of several columns at once, df[[d1, d2]] (volas-python            *)
(* frame_access.rs, project), beside the calls of ComputedCache.  A list   *)
(* read works on a copy of the frame: it caches the directives that are    *)
(* not there yet and refreshes the stale ones in the copy, and publishes   *)
(* the copy only when every one of them succeeded.  While it runs, kind,   *)
(* cells and meta are the copy's, and in place of an answer the caller has *)
(* the frame as it was, which no step of the refresh touches.              *)
(***************************************************************************)
EXTENDS ComputedCache

Frame      == [kind |-> kind, cells |-> cells, meta |-> meta]
Unanswered == [what |-> "staged", frame |-> Frame]
Staging    == answer.what = "staged"

(* What one evaluation of a directive over the whole frame may leave.      *)
Evaluation(c) ==
  LET full == [i \in 1 .. height |-> Computed(c, series, 0, i)]
  IN  {KeepAnchors(WithStates(NewMeta(full, 0, height), 0, st[1], st[2]), bank) :
         st \in Captured(c, series, 0, height), bank \in AnchorBanks(c)}

(* The directives of C not yet there are all computed before any is        *)
(* cached; then the named columns are refreshed one after the other.       *)
BeginListRead(C) ==
  LET new == {c \in C : kind[c] = "absent"}
  IN  /\ job = NoJob
      /\ \E record \in [new -> UNION {Evaluation(c) : c \in new}] :
           /\ \A c \in new : record[c] \in Evaluation(c)
           /\ meta' = [c \in Columns |-> IF c \in new THEN record[c] ELSE meta[c]]
      /\ kind'  = [c \in Columns |-> IF c \in new THEN "cached" ELSE kind[c]]
      /\ cells' = [c \in Columns |->
                     IF c \in new THEN RefColumn(c, series) ELSE cells[c]]
      /\ StartJob(C, StaleColumns \cap C)
      /\ answer' = Unanswered
      /\ UNCHANGED series

(* A new directive of the list cannot be computed.                         *)
ListEntryRaises(C) ==
  /\ job = NoJob
  /\ \E c \in C : kind[c] = "absent"
  /\ answer' = Raised
  /\ UNCHANGED <<series, kind, cells, meta, job>>

ListRead == \E C \in (SUBSET Columns) \ {{}} : BeginListRead(C) \/ ListEntryRaises(C)

(* The copy is dropped.                                                    *)
Abandon ==
  /\ job'    = NoJob
  /\ answer' = Raised
  /\ kind'   = answer.frame.kind
  /\ cells'  = answer.frame.cells
  /\ meta'   = answer.frame.meta
  /\ UNCHANGED series

(* Faulty variant: the list read works on the caller's own frame.          *)
StagedRaisesInPlace == Staging /\ RecomputeRaises

(* A computation of the refresh raises ...                                 *)
StagedRaises == Staging /\ job.phase = "recompute" /\ Abandon

(* ... or the frame of the columns read cannot be built.                   *)
ProjectionFails ==
  /\ Staging
  /\ job.phase = "next"
  /\ job.todo = {}
  /\ Abandon

(* A refresh that ends publishes the copy, since it is answered.           *)
StagedStep ==
  \/ \E c \in Columns :
       \/ BeginColumn(c) \/ RestoreCarriedState(c) \/ StepRow(c)
       \/ ResumeRows(c)  \/ RecomputeWindow(c)     \/ RecomputeWhole(c)
  \/ StepDeclines \/ ResumeDeclines \/ EndRefresh
  \/ ~Staging /\ RecomputeRaises
  \/ StagedRaises \/ ProjectionFails

StagedNext == Call \/ ListRead \/ StagedStep

StagedSpec == Init /\ [][StagedNext]_vars
-----------------------------------------------------------------------------
(* A list read is all or nothing: one that raises, however many columns it *)
(* had cached and refreshed by then, leaves the caller's frame as it was   *)
(* before it - values, cursors, states and anchors - and one that answers  *)
(* touches no column it does not name (frame_access.rs:499, "a bad entry   *)
(* caches nothing").                                                       *)
ListReadAllOrNothing ==
  [][Staging =>
       \/ answer' = answer
       \/ answer'.what = "raised" /\ Frame' = answer.frame
       \/ /\ answer'.what = "read"
          /\ \A c \in Columns \ job.want :
               /\ kind'[c]  = answer.frame.kind[c]
               /\ cells'[c] = answer.frame.cells[c]
               /\ meta'[c]  = answer.frame.meta[c]]_vars
=============================================================================
