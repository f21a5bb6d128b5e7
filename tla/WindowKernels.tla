---------------------------- MODULE WindowKernels ----------------------------
(***************************************************************************)
(* The statistics of a trailing window, one row at a time.  A missing row  *)
(* is skipped; a row shows a value once its window holds minPeriods        *)
(* present ones.  The sums, the deque of extrema, the sorted values and    *)
(* the counts of the distinct ones slide: a row enters, the row behind the *)
(* window leaves, and nothing else of the window is looked at again.       *)
(*                                                                         *)
(* A present float is the place it has in IEEE's total order, so that -0.0 *)
(* and 0.0 are two values and one number: Num is the number, in quarters   *)
(* of the values used, so that halves and quarters of them are whole.      *)
(***************************************************************************)
EXTENDS Integers, Sequences, FiniteSets

CONSTANTS NaN,          \* every non-finite value
          Expanding,    \* the window that never drops a row
          ExactLimit,   \* compensated sums up to this magnitude have lost no bits
          MaxFinite     \* the greatest finite number

(* Exact quotients, <<n, d>> in lowest terms with d > 0: two of them are   *)
(* one number when they are equal.                                         *)
Abs(n) == IF n < 0 THEN -n ELSE n
Gcd[a \in Nat, b \in Nat] == IF b = 0 THEN a ELSE Gcd[b, a % b]
Ratio(n, d) ==
  IF d = 0 THEN NaN
  ELSE LET g == Gcd[Abs(n), Abs(d)]
           s == IF d < 0 THEN -1 ELSE 1
       IN <<s * (IF n < 0 THEN -(Abs(n) \div g) ELSE n \div g), Abs(d) \div g>>

Whole(n) == <<n, 1>>
a \oplus b  == Ratio(a[1] * b[2] + b[1] * a[2], a[2] * b[2])
a \ominus b == Ratio(a[1] * b[2] - b[1] * a[2], a[2] * b[2])
a \otimes b == Ratio(a[1] * b[1], a[2] * b[2])
a \oslash b == Ratio(a[1] * b[2], a[2] * b[1])

Num(x) == IF x >= 0 THEN x ELSE x + 1
Lower(a, b) == IF a < b THEN a ELSE b
Upper(a, b) == IF a < b THEN b ELSE a
Float(n) == IF Abs(n) <= MaxFinite THEN n ELSE NaN

WinStart(i, window) == Upper(1, i - window + 1)
Present(data, from, to) == SelectSeq(SubSeq(data, from, to), LAMBDA x : x # NaN)
\* The row that leaves the window at row i, if there is one.
Leaves(data, window, i) == i > window /\ data[i - window] # NaN

Total(s, F(_)) ==
  LET sum[k \in 0 .. Len(s)] == IF k = 0 THEN 0 ELSE sum[k - 1] + F(s[k]) IN sum[Len(s)]

-----------------------------------------------------------------------------
\* A compensated sum; once it lost bits it stays inexact, whatever it drops.
Clear(k) == [j \in 1 .. k |-> [v |-> 0, exact |-> TRUE]]
Csum(s, t) ==
  LET exact == s.exact /\ Abs(s.v + t) <= ExactLimit
  IN [v |-> IF exact THEN s.v + t ELSE t, exact |-> exact]
Each(sums, terms, sign) == [j \in DOMAIN sums |-> Csum(sums[j], sign * terms[j])]
IsExact(sums) == \A j \in DOMAIN sums : sums[j].exact
\* What an exact total is as a compensated sum.
ToCsum(totals) == [j \in DOMAIN totals |-> [v |-> totals[j], exact |-> Abs(totals[j]) <= ExactLimit]]
\* A row enters k sums: of the values, of their squares.
Terms(x, k) == [j \in 1 .. k |-> Num(x) ^ j]
OfRows(rows, k) == [j \in 1 .. k |-> Total(rows, LAMBDA x : Num(x) ^ j)]

\* A slide of sums: the expansion takes over, for good, where an expanding
\* window's sums cannot be kept in two words.
NoExpansion == << >>
Slide(k) == [sums |-> Clear(k), expansion |-> NoExpansion, count |-> 0]
PresentSums(s, data, window, i) ==
  LET k == Len(s.sums)
      terms == Terms(data[i], k)
      left == IF ~Leaves(data, window, i) THEN s
              ELSE [s EXCEPT !.count = @ - 1, !.sums = Each(@, Terms(data[i - window], k), -1)]
      held == CASE data[i] = NaN -> left
                [] left.expansion = NoExpansion ->
                     [left EXCEPT !.count = @ + 1, !.sums = Each(@, terms, 1)]
                [] OTHER ->
                     [left EXCEPT !.count = @ + 1,
                                  !.expansion = [j \in DOMAIN @ |-> @[j] + terms[j]]]
      totals == OfRows(Present(data, WinStart(i, window), i), k)
      kept == IF held.expansion # NoExpansion \/ IsExact(held.sums) THEN held
              ELSE [held EXCEPT !.sums = ToCsum(totals),
                     !.expansion = IF window = Expanding /\ ~IsExact(ToCsum(totals))
                                   THEN totals ELSE NoExpansion]
  IN IF kept.expansion = NoExpansion THEN kept ELSE [kept EXCEPT !.sums = ToCsum(kept.expansion)]

Mean(sum, n) == Ratio(sum, n)
Comoment(n, a, b, ab) == n * ab - a * b
VarOf(sums, n, ddof) ==
  IF n <= ddof THEN NaN
  ELSE Ratio(Upper(0, Comoment(n, sums[1].v, sums[1].v, sums[2].v)), n * (n - ddof))
SemOf(v, n) == IF v = NaN THEN NaN ELSE v \oslash Whole(n)    \* the square of it

-----------------------------------------------------------------------------
\* The deque holds rows of the window, each better than those after it.
Replaces(a, b, isMin) == IF isMin THEN Num(a) <= Num(b) ELSE Num(a) >= Num(b)
Extremum(deque, data, window, i, isMin) ==
  LET kept == IF deque # << >> /\ i > window /\ Head(deque) <= i - window THEN Tail(deque) ELSE deque
      stays == {j \in DOMAIN kept : ~Replaces(data[i], data[kept[j]], isMin)}
      last == IF stays = {} THEN 0 ELSE CHOOSE j \in stays : \A k \in stays : k <= j
  IN IF data[i] = NaN THEN kept ELSE Append(SubSeq(kept, 1, last), i)

-----------------------------------------------------------------------------
\* The window's values in total order: the very value that entered leaves.
Before(sorted, x) == Cardinality({k \in DOMAIN sorted : sorted[k] < x})
Removed(sorted, at) == SubSeq(sorted, 1, at) \o SubSeq(sorted, at + 2, Len(sorted))
Inserted(sorted, at, x) == SubSeq(sorted, 1, at) \o <<x>> \o SubSeq(sorted, at + 1, Len(sorted))
\* Mutant: the first number equal to the one leaving is taken out.
SortedWindowByNumber(sorted, data, window, i) ==
  LET gone == Cardinality({k \in DOMAIN sorted : Num(sorted[k]) < Num(data[i - window])})
      left == IF Leaves(data, window, i) THEN Removed(sorted, gone) ELSE sorted
  IN IF data[i] = NaN THEN left ELSE Inserted(left, Before(left, data[i]), data[i])
SortedWindow(sorted, data, window, i) ==
  LET left == IF Leaves(data, window, i)
              THEN Removed(sorted, Before(sorted, data[i - window])) ELSE sorted
  IN IF data[i] = NaN THEN left ELSE Inserted(left, Before(left, data[i]), data[i])

\* How often each number occurs.
ValueKey(x) == Num(x)
Counted(counts, key) ==
  IF key \in DOMAIN counts THEN [counts EXCEPT ![key] = @ + 1]
  ELSE [k \in DOMAIN counts \cup {key} |-> IF k = key THEN 1 ELSE counts[k]]
Uncounted(counts, key) ==
  IF counts[key] > 1 THEN [counts EXCEPT ![key] = @ - 1]
  ELSE [k \in DOMAIN counts \ {key} |-> counts[k]]
Nunique(counts, data, window, i) ==
  LET left == IF Leaves(data, window, i) THEN Uncounted(counts, ValueKey(data[i - window])) ELSE counts
  IN IF data[i] = NaN THEN left ELSE Counted(left, ValueKey(data[i]))

-----------------------------------------------------------------------------
\* Read off the sorted values: the q-th quarter between two of them, the longest
\* run, the rank of a value.
Midpoint(a, b) ==
  LET sum == Float(a + b) IN IF sum # NaN THEN sum \div 2 ELSE a \div 2 + b \div 2
Lerp(a, b, quarters) ==
  LET span == Float(b - a)
  IN IF span # NaN THEN a + (quarters * span) \div 4
                   ELSE ((4 - quarters) * a) \div 4 + (quarters * b) \div 4
SortedQuantile(sorted, quarters, interpolation) ==
  LET pos  == quarters * (Len(sorted) - 1)
      lo   == pos \div 4
      frac == pos % 4
      hi   == IF frac = 0 THEN lo ELSE lo + 1
      value(k) == sorted[k + 1]
  IN CASE interpolation = "lower"    -> value(lo)
       [] interpolation = "higher"   -> value(hi)
       [] interpolation = "nearest"  -> value(IF frac > 2 \/ (frac = 2 /\ lo % 2 = 1) THEN hi ELSE lo)
       [] interpolation = "midpoint" -> Midpoint(Num(value(lo)), Num(value(hi)))
       [] OTHER                      -> Lerp(Num(value(lo)), Num(value(hi)), frac)

Mode(sorted) ==
  LET scan[k \in 1 .. Len(sorted)] ==
        IF k = 1 THEN [best |-> 1, bestLen |-> 1, curLen |-> 1]
        ELSE LET s == scan[k - 1]
                 run == IF Num(sorted[k]) = Num(sorted[k - 1]) THEN s.curLen + 1 ELSE 1
             IN IF run > s.bestLen THEN [best |-> k, bestLen |-> run, curLen |-> run]
                                   ELSE [s EXCEPT !.curLen = run]
  IN Num(sorted[scan[Len(sorted)].best])

Rank(sorted, x, method, ascending, pct) ==
  LET below   == Cardinality({k \in DOMAIN sorted : Num(sorted[k]) < Num(x)})
      through == Cardinality({k \in DOMAIN sorted : Num(sorted[k]) <= Num(x)})
      lo == IF ascending THEN below + 1 ELSE Len(sorted) - through + 1
      hi == IF ascending THEN through ELSE Len(sorted) - below
      r  == CASE method = "min" -> Whole(lo) [] method = "max" -> Whole(hi) [] OTHER -> Ratio(lo + hi, 2)
  IN IF pct THEN r \oslash Whole(Len(sorted)) ELSE r

-----------------------------------------------------------------------------
\* Read off the values of the window, gathered in row order.
Sum(b) == Total(b, Num)
Deviation(x, mean) == Num(x) * mean[2] - mean[1]     \* mean[2] times the distance
Moment(b, mean, p) == Total(b, LAMBDA x : Deviation(x, mean) ^ p)
IsConstant(b) == \A k \in DOMAIN b : Num(b[k]) = Num(b[1])
Dev(b) == LET m == Mean(Sum(b), Len(b))
          IN Ratio(Total(b, LAMBDA x : Abs(Deviation(x, m))), m[2] * Len(b))
\* The moments a skew or a kurtosis is a formula of, and of the count.
Shape(b, mean, least, p, constant) ==
  CASE Len(b) < least -> NaN
    [] IsConstant(b) -> constant
    [] OTHER -> <<Len(b), Ratio(Moment(b, mean, 2), mean[2] ^ 2), Ratio(Moment(b, mean, p), mean[2] ^ p)>>
Skew(b, mean) == Shape(b, mean, 3, 3, 0)
Kurt(b, mean) == Shape(b, mean, 4, 4, -3)
\* A window of a series with no missing row has the mean of the sliding sum.
PerMoment(data, window, i, slide) ==
  LET rows == Present(data, WinStart(i, window), i)
  IN IF \E k \in DOMAIN data : data[k] = NaN
     THEN [rows |-> rows, mean |-> Mean(Sum(rows), Len(rows))]
     ELSE [rows |-> SubSeq(data, WinStart(i, window), i), mean |-> Mean(slide.sums[1].v, slide.count)]

\* The rows of a window at which both series have a value.
Pairwise(x, y, window, i) ==
  SelectSeq([k \in 1 .. i - WinStart(i, window) + 1 |->
               <<x[WinStart(i, window) + k - 1], y[WinStart(i, window) + k - 1]>>],
            LAMBDA p : p[1] # NaN /\ p[2] # NaN)
\* Len(b) squared times the sum of the products of the distances to both means.
Codeviation(b, s, t) ==
  LET mean(r) == Total(b, LAMBDA p : Num(p[r]))
  IN Total(b, LAMBDA p : (Len(b) * Num(p[s]) - mean(s)) * (Len(b) * Num(p[t]) - mean(t)))
Cov(b, ddof) ==
  IF Len(b) <= ddof THEN NaN ELSE Ratio(Codeviation(b, 1, 2), Len(b) ^ 2 * (Len(b) - ddof))
\* The three moments a correlation is a formula of.
Corr(b) ==
  IF Len(b) <= 1 \/ Codeviation(b, 1, 1) = 0 \/ Codeviation(b, 2, 2) = 0 THEN NaN
  ELSE <<Codeviation(b, 1, 2), Codeviation(b, 1, 1), Codeviation(b, 2, 2)>>

-----------------------------------------------------------------------------
\* The rows a window covers, missing ones included; it centers itself.
Count(data, window, minPeriods, center, i) ==
  LET fwd   == IF center THEN window - window \div 2 - 1 ELSE 0
      end   == Lower(i + fwd, Len(data))
      start == Upper(1, i - (window - fwd - 1))
  IN IF end - start + 1 < Upper(minPeriods, 1) THEN NaN ELSE Len(Present(data, start, end))

EdgePosition(valid, window, minPeriods, last, i) ==
  LET rows == {k \in WinStart(i, window) .. i : valid[k]}
  IN IF Cardinality(rows) < minPeriods \/ rows = {} THEN NaN
     ELSE CHOOSE k \in rows : \A r \in rows : IF last THEN r <= k ELSE k <= r

-----------------------------------------------------------------------------
(* The exponentially weighted statistics, one row at a time: a state       *)
(* instead of a window.  A missing row makes the weights of the past decay *)
(* or, when it is to be ignored, does nothing at all.  With adjust, every  *)
(* observation counts 1 when it comes; without, alpha, and the past 1.     *)
(* A call is [alpha, adjust, ignoreNa, bias, minPeriods].                  *)
One == Whole(1)
Zero == Whole(0)
Half == Ratio(1, 2)
Decay(c) == One \ominus c.alpha
NewWt(c) == IF c.adjust THEN One ELSE c.alpha

\* pandas's four spellings of the decay, of those that are whole numbers.
ResolveAlpha(spelling, of) ==
  CASE spelling = "com"      -> Ratio(1, 1 + of)
    [] spelling = "span"     -> Ratio(2, of + 1)
    [] spelling = "halflife" -> IF of = 1 THEN Half ELSE NaN
    [] OTHER                 -> of
ValidAlpha(alpha) == 0 < alpha[1] /\ alpha[1] <= alpha[2]

Shown(c, e, v) == IF e.nobs >= Upper(c.minPeriods, 1) THEN v ELSE NaN
Seen(x) == IF x = NaN THEN 0 ELSE 1

-----------------------------------------------------------------------------
NoMean == [avg |-> NaN, oldWt |-> One, nobs |-> 0]
\* At a decay of one half the complement of the past's weight is the new one's.
Blended(c, e, x) ==
  LET wt == IF ~c.adjust /\ c.alpha = Half THEN One \ominus e.oldWt ELSE NewWt(c)
  IN IF e.avg = x THEN e.avg
     ELSE ((e.oldWt \otimes e.avg) \oplus (wt \otimes x)) \oslash (e.oldWt \oplus wt)
EwmMean(c, held, x) ==
  LET e == [held EXCEPT !.nobs = @ + Seen(x)]
      decayed == [e EXCEPT !.oldWt = @ \otimes Decay(c)]
  IN CASE e.avg = NaN -> [e EXCEPT !.avg = x]
       [] x # NaN -> [decayed EXCEPT !.avg = Blended(c, decayed, x),
                                     !.oldWt = IF c.adjust THEN @ \oplus NewWt(c) ELSE One]
       [] ~c.ignoreNa -> decayed
       [] OTHER -> e

NoSum == [s |-> NaN, nobs |-> 0]
EwmSum(c, held, x) ==
  LET e == [held EXCEPT !.nobs = @ + Seen(x)]
      decayed == e.s \otimes Decay(c)
  IN CASE e.s = NaN -> [e EXCEPT !.s = x]
       [] x # NaN -> [e EXCEPT !.s = decayed \oplus x]
       [] ~c.ignoreNa -> [e EXCEPT !.s = decayed]
       [] OTHER -> e

-----------------------------------------------------------------------------
\* Both means, the biased covariance, the weights' sum and that of their squares.
NoCov == [x |-> NaN, y |-> NaN, cov |-> Zero, sumWt |-> One, sumWt2 |-> One, oldWt |-> One, nobs |-> 0]
Decayed(c, e) == [e EXCEPT !.sumWt = @ \otimes Decay(c), !.oldWt = @ \otimes Decay(c),
                           !.sumWt2 = @ \otimes (Decay(c) \otimes Decay(c))]
Moved(c, e, mean, v) ==
  IF mean = v THEN mean
  ELSE ((e.oldWt \otimes mean) \oplus (NewWt(c) \otimes v)) \oslash (e.oldWt \oplus NewWt(c))
Observed(c, e, x, y) ==
  LET mx == Moved(c, e, e.x, x)
      my == Moved(c, e, e.y, y)
      new == NewWt(c)
      old == e.oldWt \oplus new
      past == e.oldWt \otimes (e.cov \oplus ((e.x \ominus mx) \otimes (e.y \ominus my)))
      seen == [e EXCEPT !.x = mx, !.y = my, !.oldWt = old,
                 !.cov = (past \oplus (new \otimes ((x \ominus mx) \otimes (y \ominus my)))) \oslash old,
                 !.sumWt = @ \oplus new, !.sumWt2 = @ \oplus (new \otimes new)]
  IN IF c.adjust THEN seen
     ELSE [seen EXCEPT !.sumWt = @ \oslash old, !.sumWt2 = @ \oslash (old \otimes old), !.oldWt = One]
EwmCov(c, held, x, y) ==
  LET both == x # NaN /\ y # NaN
      e == [held EXCEPT !.nobs = @ + (IF both THEN 1 ELSE 0)]
  IN CASE e.x = NaN -> IF both THEN [e EXCEPT !.x = x, !.y = y] ELSE e
       [] both -> Observed(c, Decayed(c, e), x, y)
       [] ~c.ignoreNa -> Decayed(c, e)
       [] OTHER -> e
Debiased(e) ==
  LET numerator == e.sumWt \otimes e.sumWt
      denominator == numerator \ominus e.sumWt2
  IN IF denominator[1] > 0 THEN (numerator \oslash denominator) \otimes e.cov ELSE NaN
CovShown(c, e) == Shown(c, e, IF c.bias THEN e.cov ELSE Debiased(e))
\* The three biased moments a correlation is a formula of.
EwmCorr(c, xy, xx, yy) ==
  IF Shown(c, xy, TRUE) = NaN \/ xx.cov[1] <= 0 \/ yy.cov[1] <= 0 THEN NaN
  ELSE <<xy.cov, xx.cov, yy.cov>>

=============================================================================
