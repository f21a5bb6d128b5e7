----------------------------- MODULE LabelIndex -----------------------------
(***************************************************************************)
(* The row labels of a frame (volas-core index.rs): three kinds of labels, *)
(* the order the index remembers of them, the search that relies on it,    *)
(* and the rules by which labels follow the ones already there.  A string  *)
(* index behaves as an integer one whose rows are always labelled.         *)
(* Positions count from 1, 0 is "none".                                    *)
(***************************************************************************)
EXTENDS Integers, Sequences, FiniteSets

CONSTANT MaxLabel   \* i64::MAX

ASSUME MaxLabelAssumption == MaxLabel \in Nat

Labels == 0 .. MaxLabel
NaT    == -1          \* i64::MIN, below every label
Kinds  == {"range", "int", "datetime"}

-----------------------------------------------------------------------------
(* LabelOrder.                                                             *)
EmptyOrder == [increasing |-> TRUE, decreasing |-> TRUE]
NoOrder    == [increasing |-> FALSE, decreasing |-> FALSE]

LastOf(s) == IF s = <<>> THEN <<>> ELSE <<s[Len(s)]>>

(* The order after `added' follow labels whose last one is `last'.         *)
Extended(order, last, added) ==
  LET s == last \o added
  IN  [increasing |-> order.increasing /\
                      \A i \in 1 .. Len(s) - 1 : s[i] <= s[i + 1],
       decreasing |-> order.decreasing /\
                      \A i \in 1 .. Len(s) - 1 : s[i] >= s[i + 1]]

ExtendedDatetime(order, last, added) ==
  IF \E i \in 1 .. Len(added) : added[i] = NaT
  THEN NoOrder ELSE Extended(order, last, added)

OrderOf(kind, labels) ==
  CASE kind = "range"    -> [increasing |-> TRUE, decreasing |-> Len(labels) <= 1]
    [] kind = "int"      -> Extended(EmptyOrder, <<>>, labels)
    [] kind = "datetime" -> ExtendedDatetime(EmptyOrder, <<>>, labels)

(* An index; `start' is the first label of a range, kept when it is empty. *)
Index(kind, start, labels) ==
  [kind |-> kind, start |-> start, labels |-> labels,
   order |-> OrderOf(kind, labels)]

RangeIndex(start, n) == Index("range", start, [i \in 1 .. n |-> start + i - 1])

IsUnlabelled(ix) == ix.kind = "range" /\ ix.start = 0

LabelsAreOrdered(ix) == ix.order.increasing \/ ix.order.decreasing

Slice(ix, from, end) ==
  Index(ix.kind, IF ix.kind = "range" THEN ix.start + from ELSE 0,
        SubSeq(ix.labels, from + 1, end))

-----------------------------------------------------------------------------
(* LabelOrder::find: by bisection over ordered labels, else a scan.        *)
Find(order, labels, x) ==
  LET rows == 1 .. Len(labels)
      at == IF order.increasing
            THEN Cardinality({i \in rows : labels[i] < x}) + 1
            ELSE IF order.decreasing
            THEN Cardinality({i \in rows : labels[i] > x}) + 1
            ELSE IF \E i \in rows : labels[i] = x
            THEN CHOOSE i \in rows :
                   labels[i] = x /\ \A j \in 1 .. i - 1 : labels[j] # x
            ELSE 0
  IN  IF at \in rows /\ labels[at] = x THEN at ELSE 0

(* Faulty variant: the position counts from the first row searched.        *)
PositionInPart(ix, x, from) ==
  Find(ix.order, SubSeq(ix.labels, from + 1, Len(ix.labels)), x)

(* The position of label x among the rows after `from'.                    *)
PositionIn(ix, x, from) ==
  IF ix.kind = "range"
  THEN LET at == x - ix.start + 1
       IN  IF at \in from + 1 .. Len(ix.labels) THEN at ELSE 0
  ELSE LET p == Find(ix.order, SubSeq(ix.labels, from + 1, Len(ix.labels)), x)
       IN  IF p = 0 THEN 0 ELSE p + from

-----------------------------------------------------------------------------
(* The first label k unlabelled rows take after integer labels, and        *)
(* whether the last they take fits.                                        *)
Continuation(labels) == IF labels = <<>> THEN 0 ELSE labels[Len(labels)] + 1
Continues(labels, k) == k = 0 \/ Continuation(labels) + k - 1 <= MaxLabel

(* A label they take is held by a row after `from'; with increasing labels *)
(* none can be.                                                            *)
ContinuationClash(ix, k, from) ==
  /\ ix.kind = "int" /\ ~ix.order.increasing
  /\ k > 0 /\ Continues(ix.labels, k)
  /\ \E i \in from + 1 .. Len(ix.labels) :
       ix.labels[i] \in Continuation(ix.labels) .. Continuation(ix.labels) + k - 1

(* Rows labelled by `other' may follow the rows of `ix'.                   *)
CheckAppend(ix, other) ==
  LET rowsKind == IF other.kind = "range" /\ ~IsUnlabelled(other)
                  THEN "int" ELSE other.kind
  IN  /\ other.kind = "datetime" =>
           \A i \in 1 .. Len(other.labels) : other.labels[i] # NaT
      /\ \/ ix.kind = "range"    /\ rowsKind \in {"range", "int"}
         \/ ix.kind = "int"      /\ rowsKind = "int"
         \/ ix.kind = "datetime" /\ rowsKind = "datetime"
         \/ /\ ix.kind = "int" /\ rowsKind = "range"
            /\ Continues(ix.labels, Len(other.labels))

(* The index after them.                                                   *)
Extend(ix, other) ==
  LET n     == Len(other.labels)
      next  == Continuation(ix.labels)
      added == IF IsUnlabelled(other) /\ ix.kind = "int"
               THEN [i \in 1 .. n |-> next + i - 1] ELSE other.labels
  IN  CASE ix.kind = "range" /\ IsUnlabelled(other) ->
             RangeIndex(ix.start, Len(ix.labels) + n)
        [] ix.kind = "range" /\ ~IsUnlabelled(other) ->
             Index("int", 0, ix.labels \o other.labels)
        [] ix.kind = "int" ->
             [ix EXCEPT !.labels = @ \o added,
                        !.order = Extended(@, LastOf(ix.labels), added)]
        [] ix.kind = "datetime" ->
             [ix EXCEPT !.labels = @ \o added,
                        !.order = ExtendedDatetime(@, LastOf(ix.labels), added)]
=============================================================================
