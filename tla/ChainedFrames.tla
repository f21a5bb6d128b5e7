--------------------------- MODULE ChainedFrames ----------------------------
(***************************************************************************)
(* Directives in which commands feed one another: rsi of an ema, a cross   *)
(* of two averages.  The commands that keep a state are the nodes of a     *)
(* chain, children first, each read by the others from a hidden column;    *)
(* what is left, the top, keeps none.  A chain carries, of every node, its *)
(* frame and the ring of its last values, as many as the top can read.     *)
(*                                                                         *)
(* A chain is [name |-> "chain", nodes, top].  A node is a command and the *)
(* node its close operand is (from; 0: the column close).  The top is an   *)
(* operator on two nodes, one node as it is ("name"), or a command without *)
(* a state ("command"), over the node left.                                *)
(***************************************************************************)
EXTENDS KernelFrames

(* The operators over one row: arithmetic, comparisons with a missing      *)
(* truth, logic over three truths, and crosses, which also read the row    *)
(* before.  A column of truths shows One, 0 or NaN (missing).              *)
Arithmetic == {"add", "sub", "mul", "div"}
Crosses == {"cross", "cross_up", "cross_down"}

\* A truth is One, 0 or, where it is unknown, NaN; truth reads one off a number.
TruthOf(x) == IF x = NaN THEN NaN ELSE Truth(x # 0)
NotT(t) == IF t = NaN THEN NaN ELSE One - t
AndT(s, t) == IF 0 \in {s, t} THEN 0 ELSE IF NaN \in {s, t} THEN NaN ELSE One
OrT(s, t) == NotT(AndT(NotT(s), NotT(t)))
XorT(s, t) == IF NaN \in {s, t} THEN NaN ELSE Truth(s # t)

\* How two numbers compare; a missing one compares with nothing.
Compared(x, y, Holds(_, _)) == IF NaN \in {x, y} THEN NaN ELSE Truth(Holds(x, y))

Order(op, x, y) ==
  Compared(x, y, LAMBDA u, v : CASE op = "lt" -> u < v [] op = "le" -> u <= v [] op = "eq" -> u = v
                                 [] op = "ne" -> u # v [] op = "ge" -> u >= v [] op = "gt" -> u > v)
\* prior is the two numbers of the row before, or NaN twice where there is none.
CrossT(op, x, y, prior) ==
  LET up   == AndT(Order("le", prior[1], prior[2]), Order("gt", x, y))
      down == AndT(Order("ge", prior[1], prior[2]), Order("lt", x, y))
  IN CASE op = "cross_up" -> up [] op = "cross_down" -> down [] OTHER -> OrT(up, down)

Unary(op, x) == IF op = "not" THEN NotT(TruthOf(x)) ELSE Neg(x)
Binary(op, x, y, prior) ==
  CASE op = "add" -> x ++ y
    [] op = "sub" -> x -- y
    [] op = "mul" -> x ** y
    [] op = "div" -> x // y
    [] op = "and" -> AndT(TruthOf(x), TruthOf(y))
    [] op = "or"  -> OrT(TruthOf(x), TruthOf(y))
    [] op = "xor" -> XorT(TruthOf(x), TruthOf(y))
    [] op \in Crosses -> CrossT(op, x, y, prior)
    [] OTHER -> Order(op, x, y)

\* A column of rows: the first has none before it.
BinaryColumn(op, l, r) ==
  Evaluated([i \in DOMAIN l |-> Binary(op, l[i], r[i], IF i = 1 THEN <<NaN, NaN>> ELSE <<l[i - 1], r[i - 1]>>)])

-----------------------------------------------------------------------------

Chained(c) == c.name = "chain"

NodeLookback(nodes, k) ==
  LET lookback[j \in 0 .. Len(nodes)] ==
        IF j = 0 THEN 0 ELSE SpecOf(nodes[j].cmd).lookback + lookback[nodes[j].from]
  IN lookback[k]
LookbackOf(c) ==
  IF ~Chained(c) THEN SpecOf(c).lookback
  ELSE LET left == NodeLookback(c.nodes, c.top.left)
       IN CASE c.top.op = "name" -> left
            [] c.top.op = "command" -> SpecOf(c.top.cmd).lookback + left
            [] OTHER -> (IF c.top.op \in Crosses THEN 1 ELSE 0) + Greater(left, NodeLookback(c.nodes, c.top.right))
Span(c) == 2 * (LookbackOf(c) + 1)
ReadsOf(c) ==
  IF ~Chained(c) THEN Reads(c)
  ELSE C1 \cup UNION {Reads(c.nodes[k].cmd) : k \in DOMAIN c.nodes}

\* The rows of a node, its operand read from the hidden column of the node it is over.
RowsOf(node, hidden, b) ==
  IF node.from = 0 THEN b
  ELSE Evaluated([i \in DOMAIN b |-> [b[i] EXCEPT !.close = hidden[node.from][i]]])
LastOf(values, end, l) ==
  [i \in 1 .. l |-> IF end - l + i < 1 THEN NaN ELSE values[end - l + i]]
HiddenOr(hidden, k, b) == IF k = 0 THEN Close(b) ELSE hidden[k]
TopValues(c, hidden, b, o) ==
  CASE c.top.op = "name" -> hidden[c.top.left]
    [] c.top.op = "command" -> Batch(c.top.cmd, RowsOf([from |-> c.top.left], hidden, b), o)
    [] OTHER -> BinaryColumn(c.top.op, HiddenOr(hidden, c.top.left, b), HiddenOr(hidden, c.top.right, b))

\* A chain's own frame: how many values its rings hold, and its nodes'.
Part(frame, ring) == [frame |-> frame, ring |-> ring]
ChainOf(l, parts) == IF \E k \in DOMAIN parts : parts[k].frame = NoFrame THEN NoFrame ELSE [l |-> l, parts |-> parts]

\* Every node computed over the columns of the nodes before it; a command by itself is
\* its own frame.
WithMarked(c, b, o, marks) ==
  LET nodes   == IF Chained(c) THEN c.nodes ELSE <<[cmd |-> c, from |-> 0]>>
      n       == Len(b)
      l       == Least(n, Span(c))
      prior   == Least(IF n = 0 THEN 0 ELSE n - 1, Span(c))
      Node(s, k) ==
        LET node == nodes[k]
            r    == ComputedAt(node.cmd, RowsOf(node, s.hidden, b), o, marks)
        IN [hidden |-> Append(s.hidden, r.shown), passes |-> Append(s.passes, r)]
      run     == Folded(Node, [hidden |-> << >>, passes |-> << >>], 1, Len(nodes))
      Latest   == [k \in 1 .. Len(c.nodes) |-> Part(run.passes[k].after, LastOf(run.hidden[k], n, l))]
      Earlier  == [k \in 1 .. Len(c.nodes) |-> Part(run.passes[k].prior, LastOf(run.hidden[k], n - 1, prior))]
      FrameOf(k, end) ==
        IF end = n - 1 THEN run.passes[k].prior
        ELSE LET at == {p \in run.passes[k].points : p.end = end}
             IN IF at = {} THEN NoFrame ELSE (CHOOSE p \in at : TRUE).frame
      PartsAt(end) ==
        [k \in 1 .. Len(c.nodes) |-> Part(FrameOf(k, end), LastOf(run.hidden[k], end, Least(end, Span(c))))]
  IN IF ~Chained(c) THEN run.passes[1] ELSE
     Passed(TopValues(c, run.hidden, b, o),
            IF n = 0 THEN NoFrame ELSE ChainOf(prior, Earlier), IF n = 0 THEN NoFrame ELSE ChainOf(l, Latest),
            {p \in {Point(end, ChainOf(Least(end, Span(c)), PartsAt(end))) : end \in marks} : p.frame # NoFrame})

\* The nodes resumed in turn, each over its operand's remembered and new values.
ChainResume(c, f, b, o, from) ==
  LET n     == Len(b)
      start == IF from > f.l THEN from - f.l ELSE 0
      held  == from - start
      win   == SubSeq(b, start + 1, n)
      l     == Least(f.l + (n - from), Span(c))
      Node(s, k) ==
        LET part   == f.parts[k]
            r      == Resume(c.nodes[k].cmd, part.frame, RowsOf(c.nodes[k], s.hidden, win), o + start, held)
            values == SubSeq(part.ring, f.l - held + 1, f.l) \o r.values
        IN IF ~s.ok \/ ~r.ok \/ r.frame = NoFrame THEN [s EXCEPT !.ok = FALSE]
           ELSE [ok |-> TRUE, hidden |-> Append(s.hidden, values),
                 parts |-> Append(s.parts, Part(r.frame, LastOf(part.ring \o r.values, f.l + n - from, l)))]
      run   == Folded(Node, [ok |-> TRUE, hidden |-> << >>, parts |-> << >>], 1, Len(c.nodes))
  IN IF ~run.ok THEN NoResume
     ELSE [ok |-> TRUE, frame |-> [l |-> l, parts |-> run.parts],
           values |-> SubSeq(TopValues(c, run.hidden, win, o + start), held + 1, held + n - from)]

\* One row: every node steps over the ring of its operand, then the top reads the rings.
ChainStep(c, f, b, o, row) ==
  LET bar == b[row + 1]
      Node(s, k) ==
        LET node == c.nodes[k]
            read == IF node.from = 0 THEN bar ELSE [bar EXCEPT !.close = s.parts[node.from].ring[Span(c)]]
            r    == PlannedStep(node.cmd, f.parts[k].frame, o, row, read)
        IN IF ~s.ok \/ ~r.ok THEN [s EXCEPT !.ok = FALSE]
           ELSE [s EXCEPT !.parts = Append(@, Part(r.frame, PushRing(f.parts[k].ring, r.v)))]
      run == Folded(Node, [ok |-> TRUE, parts |-> << >>], 1, Len(c.nodes))
      \* An operand of the top at this row (0) or the one before it (1).
      Value(k, back) == IF k > 0 THEN run.parts[k].ring[Span(c) - back]
                        ELSE IF row < back THEN NaN ELSE b[row + 1 - back].close
      Evaluate == IF c.top.op = "name" THEN Value(c.top.left, 0)
                  ELSE Binary(c.top.op, Value(c.top.left, 0), Value(c.top.right, 0),
                              IF row = 0 \/ c.top.op \notin Crosses THEN <<NaN, NaN>>
                              ELSE <<Value(c.top.left, 1), Value(c.top.right, 1)>>)
  IN IF f.l # Span(c) \/ ~run.ok \/ c.top.op = "command" THEN NoStep
     ELSE [ok |-> TRUE, v |-> Evaluate, frame |-> [l |-> f.l, parts |-> run.parts]]

-----------------------------------------------------------------------------
\* A directive, chained or not: its full computation, its frame, its continuation.
Carried(c) == IF Chained(c) THEN \E k \in DOMAIN c.nodes : IsRecursive(c.nodes[k].cmd) ELSE IsRecursive(c)
\* What a directive declares: its warm-up, the rows a chain or a pass needs, the columns
\* and the rows it reads, and whether its past beyond those rows matters.
PlanOf(c) ==
  [lookback |-> LookbackOf(c), span |-> Span(c), reads |-> ReadsOf(c), carried |-> Carried(c),
   reach |-> IF Chained(c) THEN LookbackOf(c) ELSE Reach(c)]
DirectiveForCache(c, b, o) == WithMarked(c, b, o, IF Carried(c) THEN Marks(o, Len(b)) ELSE {})
DirectiveValues(c, b, o) == IF Chained(c) THEN WithMarked(c, b, o, {}).shown ELSE Batch(c, b, o)
\* A chain is never captured of no rows: before its first it has one of empty rings.
DirectiveFrame(c, b, o, end) ==
  LET empty == [k \in DOMAIN c.nodes |-> Part(InitialState(c.nodes[k].cmd, b, o, 0), << >>)]
  IN IF ~Chained(c) THEN InitialState(c, b, o, end)
     ELSE IF end < 1 THEN ChainOf(0, empty) ELSE WithMarked(c, SubSeq(b, 1, end), o, {}).after
DirectiveResume(c, f, b, o, from) == IF Chained(c) THEN ChainResume(c, f, b, o, from) ELSE Resume(c, f, b, o, from)
DirectiveStep(c, f, b, o, row) ==
  IF Chained(c) THEN ChainStep(c, f, b, o, row) ELSE PlannedStep(c, f, o, row, b[row + 1])

=============================================================================
