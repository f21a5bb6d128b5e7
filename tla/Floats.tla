------------------------------- MODULE Floats -------------------------------
(***************************************************************************)
(* The numbers the kernels compute with.  A float is a fixed-point integer *)
(* (One stands for 1.0) or NaN, the single value every non-finite float is *)
(* mapped to: the kernels ask only whether a value is finite.  Arithmetic  *)
(* propagates NaN, a comparison with NaN is false, a quotient by zero is   *)
(* not finite.  Rounding is that of the fixed point, so a property about   *)
(* two computations says that they do the same operations in an order that *)
(* gives the same result, never how close a float is to a real number.     *)
(*                                                                         *)
(* A compensated sum (Csum) is exact up to ExactLimit; beyond it the code  *)
(* may have lost bits and resums the rows of its window (IsExact).         *)
(***************************************************************************)
EXTENDS Integers, Sequences

CONSTANTS NaN,          \* every non-finite value
          One,          \* the fixed-point representation of 1.0
          ExactLimit    \* sums up to this magnitude have lost no bits

IsMissing(x) == x = NaN
AnyOf(xs) == \E i \in DOMAIN xs : xs[i] = NaN

Magnitude(x) == IF x < 0 THEN -x ELSE x
Truncated(a, b) ==      \* a / b, rounded toward zero as both signs are alike
  IF (a < 0) = (b < 0) THEN Magnitude(a) \div Magnitude(b)
                       ELSE -(Magnitude(a) \div Magnitude(b))

x ++ y == IF x = NaN \/ y = NaN THEN NaN ELSE x + y
x -- y == IF x = NaN \/ y = NaN THEN NaN ELSE x - y
x ** y == IF x = NaN \/ y = NaN THEN NaN ELSE Truncated(x * y, One)
x // y == IF x = NaN \/ y = NaN \/ y = 0 THEN NaN ELSE Truncated(x * One, y)
x %% n == IF x = NaN THEN NaN ELSE Truncated(x, n)      \* a division by a count

x \prec y == x # NaN /\ y # NaN /\ x < y
x \preceq y == x # NaN /\ y # NaN /\ x <= y
x \succ y == y \prec x
x \succeq y == y \preceq x

Neg(x) == IF x = NaN THEN NaN ELSE -x
AbsF(x) == IF x = NaN THEN NaN ELSE Magnitude(x)
MaxOf(x, y) == IF x = NaN THEN y ELSE IF y = NaN \/ y < x THEN x ELSE y
MinOf(x, y) == IF x = NaN THEN y ELSE IF y = NaN \/ x < y THEN x ELSE y
Real(n) == n * One                               \* an integer as a float
IntSqrt(n) ==           \* bit by bit, from the highest
  LET root[k \in 0 .. 15] ==
        IF k = 15 THEN 0
        ELSE LET r == root[k + 1]
                 c == r + 2 ^ k
             IN IF c * c <= n THEN c ELSE r
  IN root[0]
SqrtF(x) == IF x = NaN \/ x < 0 THEN NaN ELSE IntSqrt(x * One)
LogF(x) ==              \* a logarithm, by what the kernels use of it: it grows, and is 0 at One
  IF x = NaN \/ x <= 0 THEN NaN ELSE SqrtF(SqrtF(x)) -- One
AtanF(x) ==             \* an angle: it grows with its tangent, and is bounded
  IF x = NaN THEN NaN ELSE x // (One ++ AbsF(x))
Truth(b) == IF b THEN One ELSE 0        \* a boolean column; its missing row is NaN
Term(reads, value) == IF AnyOf(reads) THEN NaN ELSE value

(***************************************************************************)
(* Loops over rows.  A run is the sequence of what a pass leaves at each   *)
(* row: the value v it shows there and the words w it carries on.          *)
(***************************************************************************)
Unseeded == << >>       \* no state to carry yet
Evaluated(s) == SubSeq(s, 1, Len(s))    \* s itself, its elements computed once
At(v, w) == [v |-> v, w |-> w]

\* The rows first .. last folded from the left.
Folded(Op(_, _), s0, first, last) ==
  LET f[i \in (first - 1) .. last] == IF i < first THEN s0 ELSE Op(f[i - 1], i)
  IN IF last < first THEN s0 ELSE f[last]

\* What the rows first .. n hold, row first being given: a function of the row.
Scan(base, first, n, Next(_, _)) ==
  LET Add(t, i) == Append(t, Next(t[Len(t)], i))
      t == Folded(Add, <<base>>, first + 1, n)
  IN [i \in first .. n |-> t[i - first + 1]]

SumOf(x(_), first, last) ==
  LET Add(s, i) == s ++ x(i) IN Folded(Add, 0, first, last)

\* What a resume leaves at the rows after `from`: each reads the words of the row before.
Resumed(Step(_, _), w0, from, n) ==
  LET Next(r, i) == Append(r, Step(IF i = from + 1 THEN w0 ELSE r[i - from - 1].w, i))
  IN Folded(Next, << >>, from + 1, n)
Run(Step(_, _), w0, n) == Resumed(Step, w0, 0, n)
Refused == << >>        \* a resume that cannot go on: the caller computes all rows again

ValuesOf(run) == Evaluated([i \in DOMAIN run |-> run[i].v])
WordsOf(run) == Evaluated([i \in DOMAIN run |-> run[i].w])
Blank(n) == [i \in 1 .. n |-> NaN]
Unshown(n) == [i \in 1 .. n |-> At(NaN, Unseeded)]
\* A value of every row from a few reads: a pass that trusts them and, once a sum of
\* some row's reads is not finite, blanks the rows that read a missing value.
MapTerms(n, warmup, complete, reads, values) ==
  LET Witness(i) == LET x == reads[i] IN SumOf(LAMBDA j : x[j], 1, Len(x))
      repair == ~complete /\ \E i \in warmup + 1 .. n : Witness(i) = NaN
  IN Evaluated([i \in 1 .. n |-> IF i <= warmup \/ (repair /\ AnyOf(reads[i])) THEN NaN ELSE values[i]])

FirstPresent(x) ==      \* the first row that is not NaN, or none: one past the end
  CHOOSE i \in 1 .. Len(x) + 1 : (i = Len(x) + 1 \/ x[i] # NaN) /\ \A j \in 1 .. i - 1 : x[j] = NaN
Shown(x, f(_)) == Evaluated([i \in DOMAIN x |-> f(x[i])])
\* What a kernel makes of the sums of a window, once the window is full.
Read(r, Value(_)) == At(IF r.v = NaN THEN NaN ELSE Value(r.v), r.w)
ReadAll(run, Value(_)) == Evaluated([i \in DOMAIN run |-> Read(run[i], Value)])
Column(b, field) == Evaluated([i \in DOMAIN b |-> b[i][field]])
PushRing(ring, x) == Append(Tail(ring), x)

=============================================================================
