--------------------------- MODULE WindowSnapshots ---------------------------
(***************************************************************************)
(* The rolling, expanding and exponentially weighted windows of a series   *)
(* (window.rs of volas-python over the kernels of volas-compute): a call   *)
(* computes every statistic of every row in one pass.  A centered window   *)
(* is the trailing one over the rows with missing ones put behind them,    *)
(* relabelled; one that reaches past all rows is padded by no more.        *)
(*                                                                         *)
(* call is what was asked, data the rows padded, row the rows the pass has *)
(* been through, held what it keeps, shown what the last of them shows.    *)
(***************************************************************************)
EXTENDS WindowKernels

CONSTANTS Values,       \* the places of the values of a rolling window's rows
          Numbers,      \* the numbers of an exponential window's rows
          Lengths,      \* the lengths of a series
          Windows,      \* the rolling windows
          MinPeriods,   \* how many values a window may be asked to have
          Decays        \* the spellings of a decay, as pairs

VARIABLES call, data, row, held, shown
vars == <<call, data, row, held, shown>>

Series(values) == UNION {[1 .. n -> values \cup {NaN}] : n \in Lengths}
Fwd(window, center, n) == IF center THEN Lower(window - window \div 2 - 1, n) ELSE 0
Padded(d, fwd) == d \o [k \in 1 .. fwd |-> NaN]
ValidWindow(window, minPeriods) == window >= 1 /\ minPeriods <= window

\* The other series of a pairwise statistic: the row after, the first after the last.
Other(d) == [k \in DOMAIN d |-> d[(k % Len(d)) + 1]]

-----------------------------------------------------------------------------
NoRolling == [sum |-> Slide(1), squares |-> Slide(2), lows |-> << >>, highs |-> << >>,
              sorted |-> << >>, counts |-> [k \in {} |-> 0]]
Slid(d, w, i) ==
  [sum     |-> PresentSums(held.sum, d, w, i),
   squares |-> PresentSums(held.squares, d, w, i),
   lows    |-> Extremum(held.lows, d, w, i, TRUE),
   highs   |-> Extremum(held.highs, d, w, i, FALSE),
   sorted  |-> SortedWindow(held.sorted, d, w, i),
   counts  |-> Nunique(held.counts, d, w, i)]

Gated(open, v) == IF open THEN v ELSE NaN
\* What the last row shows, of a series of n rows padded by fwd missing ones.
Snapshot(c, s, d, i) ==
  LET n      == c.rows
      fwd    == Len(d) - n
      w      == c.window
      open   == s.sum.count >= c.minPeriods
      some   == s.sum.count >= Upper(c.minPeriods, 1)
      rows   == Present(d, WinStart(i, w), i)
      pairs  == Pairwise(d, Padded(Other(SubSeq(d, 1, n)), fwd), w, i)
      paired == Len(pairs) >= Upper(c.minPeriods, 1)
      ranked == d[Lower(i, n)]
      var    == VarOf(s.squares.sums, s.squares.count, 1)
      valid  == [k \in DOMAIN d |-> d[k] # NaN]
      moment == PerMoment(d, w, i, s.sum)
      quart(q, how) == Gated(some, SortedQuantile(s.sorted, q, how))
      rank(method, ascending, pct) ==
        Gated(some /\ ranked # NaN, Rank(s.sorted, ranked, method, ascending, pct))
  IN [sum |-> Gated(open, s.sum.sums[1].v), mean |-> Gated(open, Mean(s.sum.sums[1].v, s.sum.count)),
      var |-> Gated(open, var), sem |-> Gated(open, SemOf(var, s.squares.count)),
      min |-> Gated(some, d[Head(s.lows)]), max |-> Gated(some, d[Head(s.highs)]),
      nunique |-> Gated(open, Cardinality(DOMAIN s.counts)), mode |-> Gated(some, Mode(s.sorted)),
      median |-> quart(2, "linear"), lower |-> quart(1, "lower"), higher |-> quart(1, "higher"),
      nearest |-> quart(3, "nearest"), midpoint |-> quart(1, "midpoint"),
      rank |-> rank("average", TRUE, TRUE), rankMin |-> rank("min", TRUE, FALSE),
      rankMax |-> rank("max", FALSE, FALSE),
      dev |-> Gated(some, Dev(rows)),
      skew |-> Gated(some, Skew(moment.rows, moment.mean)),
      kurt |-> Gated(some, Kurt(moment.rows, moment.mean)),
      cov |-> Gated(paired, Cov(pairs, 1)), corr |-> Gated(paired, Corr(pairs)),
      first |-> EdgePosition(valid, w, c.minPeriods, FALSE, i),
      last |-> EdgePosition(valid, w, c.minPeriods, TRUE, i),
      count |-> IF i <= fwd THEN NaN
                ELSE Count(SubSeq(d, 1, n), w, c.minPeriods, c.center, i - fwd)]

NoWeighted == [mean |-> NoMean, sum |-> NoSum, xy |-> NoCov, xx |-> NoCov, yy |-> NoCov]
Weighted(c, x, y) ==
  LET masked(v) == IF x = NaN \/ y = NaN THEN NaN ELSE v
      biased == [c EXCEPT !.bias = TRUE]
  IN [mean |-> EwmMean(c, held.mean, x), sum |-> EwmSum(c, held.sum, x),
      xy |-> EwmCov(c, held.xy, x, y), xx |-> EwmCov(biased, held.xx, masked(x), masked(x)),
      yy |-> EwmCov(biased, held.yy, masked(y), masked(y))]
Averages(c, s) ==
  [mean |-> Shown(c, s.mean, s.mean.avg), sum |-> IF c.adjust THEN Shown(c, s.sum, s.sum.s) ELSE NaN,
   cov |-> CovShown(c, s.xy), corr |-> EwmCorr(c, s.xy, s.xx, s.yy)]

-----------------------------------------------------------------------------
Rolling ==
  \E w \in Windows \cup {Expanding}, center \in BOOLEAN, d \in Series(Values) :
  \E m \in MinPeriods \cup {w} :
    /\ ValidWindow(w, m) /\ (w = Expanding => ~center /\ m # w)
    /\ call = [window |-> w, minPeriods |-> m, center |-> center, rows |-> Len(d)]
    /\ data = Padded(d, Fwd(w, center, Len(d))) /\ held = NoRolling
Ewm ==
  \E decay \in Decays, m \in MinPeriods, adjust, ignoreNa, bias \in BOOLEAN, d \in Series(Numbers) :
    /\ call = [window |-> 0, alpha |-> ResolveAlpha(decay[1], decay[2]), adjust |-> adjust,
               ignoreNa |-> ignoreNa, bias |-> bias, minPeriods |-> m]
    /\ ValidAlpha(call.alpha)
    /\ data = [k \in DOMAIN d |-> IF d[k] = NaN THEN NaN ELSE Whole(d[k])] /\ held = NoWeighted
Init == (Rolling \/ Ewm) /\ row = 0 /\ shown = NaN

Slides ==
  /\ call.window > 0 /\ row < Len(data)
  /\ row' = row + 1
  /\ held' = Slid(data, call.window, row')
  /\ shown' = Snapshot(call, held', data, row')
  /\ UNCHANGED <<call, data>>
Weighs ==
  /\ call.window = 0 /\ row < Len(data)
  /\ row' = row + 1
  /\ held' = Weighted(call, data[row'], Other(data)[row'])
  /\ shown' = Averages(call, held')
  /\ UNCHANGED <<call, data>>
Next == Slides \/ Weighs
Spec == Init /\ [][Next]_vars

-----------------------------------------------------------------------------
(* The same statistics, said of the rows of the window alone.              *)
Over(rows, F(_)) == Total([k \in DOMAIN data |-> k], LAMBDA k : IF k \in rows THEN F(k) ELSE 0)
Pairs(rows, F(_, _)) == Over(rows, LAMBDA j : Over({k \in rows : j < k}, LAMBDA k : F(j, k)))
X(k) == Num(data[k])
Y(k) == Num(data[(k % call.rows) + 1])
Having(rows, P(_)) == Cardinality({k \in rows : P(k)})
\* The value with k others of the rows before it in total order.
Order(rows, k) ==
  data[CHOOSE r \in rows : /\ Having(rows, LAMBDA j : data[j] < data[r]) <= k
                           /\ k < Having(rows, LAMBDA j : data[j] <= data[r])]
Deviations(rows, p) == LET n == Cardinality(rows) IN Over(rows, LAMBDA k : (n * X(k) - Over(rows, X)) ^ p)
ShapeOf(rows, least, p, constant) ==
  LET n == Cardinality(rows)
  IN CASE n < least -> NaN
       [] \A j, k \in rows : X(j) = X(k) -> constant
       [] OTHER -> <<n, Ratio(Deviations(rows, 2), n ^ 2), Ratio(Deviations(rows, p), n ^ p)>>

Meant(from, to) ==
  LET rows  == {k \in from .. to : data[k] # NaN}
      pairs == {k \in rows : data[(k % call.rows) + 1] # NaN}
      n     == Cardinality(rows)
      m     == Cardinality(pairs)
      open  == n >= call.minPeriods
      some  == open /\ n > 0
      paired == m >= call.minPeriods /\ m > 0
      sum   == Over(rows, X)
      squares == Pairs(rows, LAMBDA j, k : (X(j) - X(k)) ^ 2)
      products == Pairs(pairs, LAMBDA j, k : (X(j) - X(k)) * (Y(j) - Y(k)))
      xx == Pairs(pairs, LAMBDA j, k : (X(j) - X(k)) ^ 2)
      yy == Pairs(pairs, LAMBDA j, k : (Y(j) - Y(k)) ^ 2)
      extreme(Better(_, _)) ==
        data[CHOOSE r \in rows : \A k \in rows : Better(X(r), X(k)) /\ (X(k) = X(r) => k <= r)]
      often(v) == Having(rows, LAMBDA k : X(k) = v)
      mode == CHOOSE v \in {X(k) : k \in rows} :
                \A k \in rows : often(X(k)) < often(v) \/ (often(X(k)) = often(v) /\ v <= X(k))
      at(quarters) == Order(rows, (quarters * (n - 1)) \div 4)
      above(quarters) == Order(rows, (quarters * (n - 1) + 3) \div 4)
      third == (3 * (n - 1)) % 4
      ranked == some /\ data[to] # NaN
      less == Having(rows, LAMBDA k : X(k) < X(to))
  IN [sum |-> Gated(open, sum), mean |-> Gated(some, Ratio(sum, n)),
      var |-> Gated(open /\ n > 1, Ratio(squares, n * (n - 1))),
      sem |-> Gated(open /\ n > 1, Ratio(squares, n * n * (n - 1))),
      min |-> Gated(some, extreme(LAMBDA u, v : u <= v)), max |-> Gated(some, extreme(LAMBDA u, v : u >= v)),
      nunique |-> Gated(open, Cardinality({X(k) : k \in rows})), mode |-> Gated(some, mode),
      median |-> Gated(some, (Num(at(2)) + Num(above(2))) \div 2),
      lower |-> Gated(some, at(1)), higher |-> Gated(some, above(1)),
      nearest |-> Gated(some, IF third > 2 \/ (third = 2 /\ ((3 * (n - 1)) \div 4) % 2 = 1)
                              THEN above(3) ELSE at(3)),
      midpoint |-> Gated(some, (Num(at(1)) + Num(above(1))) \div 2),
      rank |-> Gated(ranked, Ratio(2 * less + often(X(to)) + 1, 2 * n)),
      rankMin |-> Gated(ranked, Whole(less + 1)),
      rankMax |-> Gated(ranked, Whole(n - less)),
      dev |-> Gated(some, Ratio(Over(rows, LAMBDA k : Abs(n * X(k) - sum)), n * n)),
      skew |-> Gated(some, ShapeOf(rows, 3, 3, 0)), kurt |-> Gated(some, ShapeOf(rows, 4, 4, -3)),
      cov |-> Gated(paired /\ m > 1, Ratio(products, m * (m - 1))),
      corr |-> Gated(paired /\ xx > 0 /\ yy > 0, <<m * products, m * xx, m * yy>>),
      first |-> Gated(some, CHOOSE k \in rows : \A r \in rows : k <= r),
      last |-> Gated(some, CHOOSE k \in rows : \A r \in rows : r <= k),
      count |-> Gated(to - from + 1 >= Upper(call.minPeriods, 1), n)]

\* The row a pass is at is that of the window its center reaches it from.
SlidesExact ==
  LET w     == call.window
      label == row - (Len(data) - call.rows)
  IN label > 0 =>
       shown = IF call.center
               THEN Meant(Upper(1, label - w \div 2), Lower(call.rows, label + w - w \div 2 - 1))
               ELSE Meant(WinStart(label, w), label)

-----------------------------------------------------------------------------
(* The weights of the rows observed so far, said at once.                  *)
TotalOf(rows, F(_)) ==
  LET sum[k \in 0 .. row] == IF k = 0 THEN Zero ELSE IF k \in rows THEN sum[k - 1] \oplus F(k) ELSE sum[k - 1]
  IN sum[row]
ProductOf(rows, F(_)) ==
  LET product[k \in 0 .. row] ==
        IF k = 0 THEN One ELSE IF k \in rows THEN product[k - 1] \otimes F(k) ELSE product[k - 1]
  IN product[row]
\* How far the weight of a row has decayed at a later one.
Faded(rows, j, k) ==
  LET steps == {r \in j + 1 .. k : r \in rows \/ ~call.ignoreNa} IN ProductOf(steps, LAMBDA r : Decay(call))
\* What the past keeps at a row of a recursive average, and the weight of each row.
Keep(rows, k, complement) ==
  LET past == {j \in rows : j < k}
      old == Faded(rows, CHOOSE j \in past : \A r \in past : r <= j, k)
  IN IF past = {} THEN Zero
     ELSE IF complement THEN old ELSE old \oslash (old \oplus call.alpha)
Weight(rows, k, complement) ==
  IF call.adjust THEN Faded(rows, k, row)
  ELSE (One \ominus Keep(rows, k, complement))
         \otimes ProductOf({j \in rows : k < j}, LAMBDA j : Keep(rows, j, complement))

WeightsExact ==
  LET rows  == {k \in 1 .. row : data[k] # NaN}
      pairs == {k \in rows : Other(data)[k] # NaN}
      some(of) == Cardinality(of) >= Upper(call.minPeriods, 1)
      weight == [k \in pairs |-> Weight(pairs, k, FALSE)]
      whole == TotalOf(pairs, LAMBDA k : weight[k])
      xs(k) == data[k]
      ys(k) == Other(data)[k]
      mean(F(_)) == TotalOf(pairs, LAMBDA k : weight[k] \otimes F(k)) \oslash whole
      moment(F(_), G(_)) ==
        TotalOf(pairs, LAMBDA k : weight[k] \otimes ((F(k) \ominus mean(F)) \otimes (G(k) \ominus mean(G))))
          \oslash whole
      rest == (whole \otimes whole) \ominus TotalOf(pairs, LAMBDA k : weight[k] \otimes weight[k])
      own(k) == Weight(rows, k, call.alpha = Half)
  IN shown =
       [mean |-> Gated(some(rows), TotalOf(rows, LAMBDA k : own(k) \otimes data[k]) \oslash TotalOf(rows, own)),
        sum |-> Gated(some(rows) /\ call.adjust, TotalOf(rows, LAMBDA k : Faded(rows, k, row) \otimes data[k])),
        cov |-> Gated(some(pairs) /\ (call.bias \/ rest[1] > 0),
                      IF call.bias THEN moment(xs, ys)
                      ELSE ((whole \otimes whole) \oslash rest) \otimes moment(xs, ys)),
        corr |-> Gated(some(pairs) /\ moment(xs, xs)[1] > 0 /\ moment(ys, ys)[1] > 0,
                       <<moment(xs, ys), moment(xs, xs), moment(ys, ys)>>)]

(* What a row of a rolling, expanding or weighted window shows is what the *)
(* rows of its window, clipped at both ends, define: sums that lost bits,  *)
(* the deque, the sorted values and the padding leave no trace of the rows *)
(* that left it or of how the pass came there (window.rs:96).              *)
SnapshotExact == row > 0 => IF call.window > 0 THEN SlidesExact ELSE WeightsExact
=============================================================================
