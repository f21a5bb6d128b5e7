----------------------------- MODULE WindowSums -----------------------------
(***************************************************************************)
(* Prices of a bar, runs of true rows, volume that accumulates with the    *)
(* direction of the price, bands a deviation away from an average, and the *)
(* indicators that are a formula of a few sliding sums or averages of      *)
(* terms of the bars.  Each leg of one of these keeps its own window; the  *)
(* words of the indicator are those of its legs.                           *)
(***************************************************************************)
EXTENDS Oscillators, DirectionalMoves

\* TRUE if each of the last k truths is, FALSE as soon as one is not.
AllOfLast(truths, k) ==
  LET Of(i) == LET first == IF i > k THEN i - k + 1 ELSE 1
                   window == {truths[j] : j \in first .. i}
               IN CASE k = 0 -> NaN
                    [] 0 \in window -> 0
                    [] i >= k /\ window = {One} -> One
                    [] OTHER -> NaN
  IN Evaluated([i \in DOMAIN truths |-> Of(i)])
Repeat(truths, k) == AllOfLast(truths, k)
Increase(x, k, direction) ==
  LET Moved(i) == CASE direction > 0 -> x[i - 1] \prec x[i]
                    [] direction < 0 -> x[i] \prec x[i - 1]
                    [] OTHER -> FALSE
  IN AllOfLast([i \in DOMAIN x |-> IF i = 1 THEN NaN ELSE Term(<<x[i], x[i - 1]>>, Truth(Moved(i)))], k)
Style(bullish, b) ==
  Evaluated([i \in DOMAIN b |-> Term(<<b[i].open, b[i].close>>,
     Truth(IF bullish THEN b[i].open \prec b[i].close ELSE b[i].close \prec b[i].open))])
Change(x, period) ==
  Evaluated([i \in DOMAIN x |->
     IF period = 0 \/ i < period \/ x[i + 1 - period] = 0 THEN NaN
     ELSE Term(<<x[i], x[i + 1 - period]>>, (x[i] // x[i + 1 - period]) -- One)])

PriceOf(name, r) ==
  CASE name = "avgprice" -> (((r.open ++ r.high) ++ r.low) ++ r.close) %% 4
    [] name = "medprice" -> (r.high ++ r.low) %% 2
    [] name = "typprice" -> ((r.high ++ r.low) ++ r.close) %% 3
    [] name = "wclprice" -> ((r.high ++ r.low) ++ (Real(2) ** r.close)) %% 4
PriceReads(name, r) ==
  CASE name = "avgprice" -> <<r.open, r.high, r.low, r.close>>
    [] name = "medprice" -> <<r.high, r.low>>
    [] OTHER -> <<r.high, r.low, r.close>>
Prices(name, b) ==
  MapTerms(Len(b), 0, FALSE, [i \in DOMAIN b |-> PriceReads(name, b[i])], [i \in DOMAIN b |-> PriceOf(name, b[i])])
PriceAt(name, r) == LET v == PriceOf(name, r) IN IF v # NaN THEN v ELSE Term(PriceReads(name, r), v)

-----------------------------------------------------------------------------
\* Volume added on a rise, taken away on a fall.
ObvMove(prev, r) ==
  CASE prev \prec r.close -> r.volume [] r.close \prec prev -> Neg(r.volume) [] OTHER -> 0
ObvRow(w, b, i) == LET v == w[1] ++ ObvMove(w[2], b[i]) IN At(v, <<v, b[i].close>>)
ObvPass(b) ==
  LET Row(w, i) == IF i = 1 THEN At(b[1].volume, <<b[1].volume, b[1].close>>) ELSE ObvRow(w, b, i)
  IN Run(Row, Unseeded, Len(b))
ObvResume(b, from, w) == Resumed(LAMBDA s, i : ObvRow(s, b, i), w, from, Len(b))
ObvStep(b, i, w) == IF i = 1 THEN At(NaN, Unseeded) ELSE ObvRow(w, b, i)

\* The share of a row's volume that its close says went up or down.
RangeFlow(location, high, low, volume) ==
  IF 0 \prec (high -- low) THEN (location // (high -- low)) ** volume ELSE Term(<<high, low, volume>>, 0)
MoneyFlowLocation(r) == (r.close -- r.low) -- (r.high -- r.close)
MoneyFlowVolume(r) ==
  IF 0 \prec (r.high -- r.low) THEN RangeFlow(MoneyFlowLocation(r), r.high, r.low, r.volume)
  ELSE Term(<<r.high, r.low, r.close, r.volume>>, 0)
Iii(b) ==
  MapTerms(Len(b), 0, FALSE, [i \in DOMAIN b |-> <<b[i].high, b[i].low, b[i].close, b[i].volume>>],
           [i \in DOMAIN b |-> MoneyFlowVolume(b[i])])

AdStep(b, i, w) == LET v == w[1] ++ MoneyFlowVolume(b[i]) IN At(v, <<v>>)
AdPass(b) == Run(LAMBDA w, i : AdStep(b, i, w), <<0>>, Len(b))
AdResume(b, from, w) == Resumed(LAMBDA s, i : AdStep(b, i, s), w, from, Len(b))

\* Two averages of the accumulated flow, weighted.
AdoscValue(i, fast, slow, w) ==
  IF i >= fast /\ i >= slow THEN w.fast -- w.slow ELSE NaN
AdoscRow(w, fast, slow, b, i) ==
  LET line == w.line ++ MoneyFlowVolume(b[i])
      new  == [line |-> line, fast |-> Weighted(EmaK(fast), w.fast, line),
               slow |-> Weighted(EmaK(slow), w.slow, line)]
  IN At(AdoscValue(i, fast, slow, new), new)
AdoscPass(b, fast, slow) ==
  LET first == MoneyFlowVolume(b[1])
      seed  == [line |-> first, fast |-> first, slow |-> first]
      Row(w, i) == IF i = 1 THEN At(AdoscValue(1, fast, slow, seed), seed) ELSE AdoscRow(w, fast, slow, b, i)
  IN Run(Row, Unseeded, Len(b))
AdoscResume(b, fast, slow, from, w) ==
  Resumed(LAMBDA s, i : AdoscRow(s, fast, slow, b, i), w, from, Len(b))

-----------------------------------------------------------------------------
BollLine(line, times, meanStd) ==
  LET mean == meanStd[1]
      std  == meanStd[2]
  IN CASE line = "boll.upper" -> mean ++ (Real(times) ** std)
       [] line = "boll.lower" -> mean -- (Real(times) ** std)
       [] line = "bbw" -> (Real(4) ** std) // mean
Valued(run, f(_)) == Evaluated([i \in DOMAIN run |-> [run[i] EXCEPT !.v = f(@)]])
BollPass(line, x, period, times, origin) ==
  Valued(MeanStdPass(x, period, 0, origin), LAMBDA v : BollLine(line, times, v))
BollStep(line, period, times, x, i, w) ==
  LET r == MeanStdRow(period, 0, i, x, w) IN At(BollLine(line, times, r.v), r.w)

LogReturn(x, i) ==
  IF i > 1 /\ 0 \prec x[i - 1] /\ 0 \prec x[i] THEN LogF(x[i] // x[i - 1]) ELSE NaN
HvPass(x, period, annualization, origin) ==
  LET returns == Evaluated([i \in DOMAIN x |-> LogReturn(x, i)])
  IN Valued(MeanStdPass(returns, period, 1, origin), LAMBDA v : v[2] ** annualization)
HvStep(period, annualization, x, i, w) ==
  LET r == MeanStdRow(period, 1, i, [j \in DOMAIN x |-> LogReturn(x, j)], w)
  IN IF period <= 1 THEN At(NaN, Unseeded) ELSE At(r.v[2] ** annualization, r.w)

AccbandEdge(r, upper) ==
  LET total  == r.high ++ r.low
      factor == (Real(4) ** (r.high -- r.low)) // total
  IN CASE total = 0 -> IF upper THEN r.high ELSE r.low
       [] upper -> r.high ** (One ++ factor)
       [] OTHER -> r.low ** (One -- factor)
AccbandsPass(b, period, upper, origin) ==
  SmaPassWith(TRUE, Evaluated([i \in DOMAIN b |-> AccbandEdge(b[i], upper)]), period, origin)
AccbandsStep(period, upper, b, i, w) == SmaRow(TRUE, period, i, [j \in DOMAIN b |-> AccbandEdge(b[j], upper)], w)

-----------------------------------------------------------------------------
\* The values of several passes; no words until all of them have some.
Composed(runs) ==
  LET Values(i) == Evaluated([k \in DOMAIN runs |-> runs[k][i].v])
      Words(i) == IF \E k \in DOMAIN runs : runs[k][i].w = Unseeded THEN Unseeded
                  ELSE Evaluated([k \in DOMAIN runs |-> runs[k][i].w])
  IN [i \in DOMAIN runs[1] |-> At(Values(i), Words(i))]
\* Internal averages of n[k] rows of each leg k.
LegsPass(series, n, origin) ==
  Composed(Evaluated([k \in DOMAIN series |-> Evaluated(SmaPassWith(TRUE, series[k], n[k], origin))]))
LegsStep(n, i, series, w) ==
  LET r == Evaluated([k \in DOMAIN w |-> SmaRow(TRUE, n[k], i, series[k], w[k])])
  IN At(ValuesOf(r), WordsOf(r))
SeriesOf(n, term(_)) == Evaluated([i \in 1 .. n |-> term(i)])
Times(v, n) == Scale(v, n)

-----------------------------------------------------------------------------
\* The sum of a window; one that holds a missing row shows nothing, unless the
\* series is the command's own.
SumRow(internal, period, i, x, w) ==
  LET term == [j \in DOMAIN x |-> [of |-> <<x[j]>>, finite |-> ~IsMissing(x[j])]]
      own == [j \in DOMAIN x |-> <<x[j]>>]
      r == Slide(w, "AddReadDrop", period, i, FALSE, term)
  IN At(CASE r.window = "Partial" -> NaN
          [] r.window = "Sums" -> r.sums[1]
          [] internal -> OwnSums(own, 1, i + 1 - period, i)[1]
          [] OTHER -> NaN, r.slide)
SumNonfinite(internal, x, period, origin) ==
  LET Row(w, i) ==
        LET r == SumRow(internal, period, i, x, w)
        IN IF i < period THEN At(NaN, r.w) ELSE r
  IN Run(Row, SlideAt(1, origin), Len(x))
SumPassWith(internal, x, period, origin) ==
  LET t == TrustedSums(Len(x), period, 1, "AddReadDrop", [i \in DOMAIN x |-> <<x[i]>>])
      Trusted(i) == IF i < period THEN At(NaN, Unseeded)
                    ELSE At(t.rows[i].read[1], [sums |-> t.rows[i].sums, bad |-> 0, pos |-> origin + i])
  IN IF period = 0 \/ period > Len(x) THEN Unshown(Len(x))
     ELSE IF t.clean THEN [i \in DOMAIN x |-> Trusted(i)] ELSE SumNonfinite(internal, x, period, origin)
SumPass(x, period, origin) == SumPassWith(FALSE, x, period, origin)
SumStep(period, x, i, w) == SumRow(FALSE, period, i, x, w)

\* The absolute position of the extremum of a window; the later of two equal ones.
IndexShown(x, first, i, at) == IF \E j \in first .. i : IsMissing(x[j]) THEN NaN ELSE Real(at)
IndexOf(x, period, i, o, held, max) ==
  LET first == i + 1 - period
      Better(v, best) == Matches(max, v, best)
      Scanned(best, j) == IF Better(x[j], x[best]) THEN j ELSE best
      at == Folded(Scanned, first, first + 1, i)
  IN IF held.at < o + first - 1 THEN [at |-> o + at - 1, value |-> x[at]]
     ELSE IF Better(x[i], held.value) THEN [at |-> o + i - 1, value |-> x[i]]
     ELSE held
IndexSeries(x, period, o, max) ==
  LET held == Scan([at |-> -1, value |-> NaN], period - 1, Len(x),
                   LAMBDA h, i : IndexOf(x, period, i, o, h, max))
      out == SeriesOf(Len(x), LAMBDA i : IF i < period THEN NaN ELSE Real(held[i].at))
      shown == BlankWindows(out, x, period)
  IN IF period = 0 \/ period > Len(x) THEN Unshown(Len(x))
     ELSE [i \in 1 .. Len(x) |-> At(shown[i], IF i < period THEN Unseeded ELSE held[i])]
MaxIndexPass(x, period, o) == IndexSeries(x, period, o, TRUE)
MinIndexPass(x, period, o) == IndexSeries(x, period, o, FALSE)
IndexStep(max, period, x, i, o, w) ==
  LET held == IndexOf(x, period, i, o, w, max)
  IN IF i < period \/ w = Unseeded THEN At(NaN, Unseeded)
     ELSE At(IndexShown(x, i + 1 - period, i, held.at), held)

-----------------------------------------------------------------------------
\* Sums of the rises, the true range, the distances between rows: recomputed.
PsyValue(current, prior) == Truth(prior \prec current)
Psy(x, n, o) ==
  LET up == MapTerms(Len(x), 1, FALSE, [i \in DOMAIN x |-> <<x[i], x[i - 1]>>], [i \in DOMAIN x |-> PsyValue(x[i], x[i - 1])])
      mean == SmaPass(up, n, o)
  IN SeriesOf(Len(x), LAMBDA i : mean[i].v ** Hundred)
RollingSum(x, n, o) ==
  LET mean == Evaluated(SmaPassWith(TRUE, x, n, o)) IN SeriesOf(Len(x), LAMBDA i : Times(mean[i].v, n))
Chop(b, n, o) ==
  LET sum == RollingSum(Evaluated(Tr(b)), n, o)
      hh  == RollingMax(Column(b, "high"), n)
      ll  == RollingMin(Column(b, "low"), n)
  IN SeriesOf(Len(b), LAMBDA i : (Hundred ** LogF(sum[i] // (hh[i] -- ll[i]))) // LogF(Real(n)))
VortexTerm(b, plus, i) ==
  CASE i = 1 -> NaN
    [] plus -> Term(<<b[i].high, b[i - 1].low>>, AbsF(b[i].high -- b[i - 1].low))
    [] OTHER -> Term(<<b[i].low, b[i - 1].high>>, AbsF(b[i].low -- b[i - 1].high))
Vortex(b, n, plus, o) ==
  LET vm == RollingSum(SeriesOf(Len(b), LAMBDA i : VortexTerm(b, plus, i)), n, o)
      tr == RollingSum(Evaluated(Tr(b)), n, o)
  IN SeriesOf(Len(b), LAMBDA i : vm[i] // tr[i])
BrarAr(b, n, o) ==
  LET up == RollingSum(SeriesOf(Len(b), LAMBDA i : Term(<<b[i].high, b[i].open>>, b[i].high -- b[i].open)), n, o)
      dn == RollingSum(SeriesOf(Len(b), LAMBDA i : Term(<<b[i].open, b[i].low>>, b[i].open -- b[i].low)), n, o)
  IN SeriesOf(Len(b), LAMBDA i : (up[i] // dn[i]) ** Hundred)
BrTerms(b, i) ==
  LET cy == b[i - 1].close
  IN IF i = 1 THEN <<NaN, NaN>>
     ELSE <<Term(<<b[i].high, cy>>, MaxOf(b[i].high -- cy, 0)), Term(<<cy, b[i].low>>, MaxOf(cy -- b[i].low, 0))>>
BrarBr(b, n, o) ==
  LET up == RollingSum(SeriesOf(Len(b), LAMBDA i : BrTerms(b, i)[1]), n, o)
      dn == RollingSum(SeriesOf(Len(b), LAMBDA i : BrTerms(b, i)[2]), n, o)
  IN SeriesOf(Len(b), LAMBDA i : (up[i] // dn[i]) ** Hundred)

-----------------------------------------------------------------------------
\* The price of n / 2 + 1 rows ago, off its average.
DpoAt(x, n, i, mean) == IF i > n \div 2 + 1 THEN x[i - (n \div 2 + 1)] -- mean ELSE NaN
DpoPass(x, n, o) ==
  LET mean == Evaluated(SmaPass(x, n, o)) IN [i \in DOMAIN x |-> [mean[i] EXCEPT !.v = DpoAt(x, n, i, @)]]
DpoStep(n, x, i, w) == LET r == SmaStep(n, x, i, w) IN At(DpoAt(x, n, i, r.v), r.w)

\* The money flow of a window over its volume.
Mfv(b, i) == Term(<<b[i].high, b[i].low, b[i].close, b[i].volume>>, MoneyFlowVolume(b[i]))
CmfPass(b, n, o) ==
  ReadAll(Composed(<<Evaluated(SumPassWith(TRUE, Iii(b), n, o)), Evaluated(SumPass(Column(b, "volume"), n, o))>>),
          LAMBDA s : s[1] // s[2])
CmfStep(n, b, i, w) ==
  LET flow == SumRow(TRUE, n, i, [j \in DOMAIN b |-> Mfv(b, j)], w[1])
      vol  == SumRow(FALSE, n, i, Column(b, "volume"), w[2])
  IN At(flow.v // vol.v, <<flow.w, vol.w>>)

KstLegs == <<<<10, 10>>, <<15, 10>>, <<20, 10>>, <<30, 15>>>>
KstOf(r) == ((r[1] ++ Times(r[2], 2)) ++ Times(r[3], 3)) ++ Times(r[4], 4)
KstSpans == [k \in 1 .. 4 |-> KstLegs[k][2]]
KstTerms(x, k) == [i \in DOMAIN x |-> UnguardedRoc(x, KstLegs[k][1], i)]
KstPass(x, o) ==
  LET Roc(k) == LET p == KstLegs[k][1]
                IN MapTerms(Len(x), p, FALSE, [i \in DOMAIN x |-> <<x[i], x[i - p]>>], KstTerms(x, k))
  IN ReadAll(LegsPass(Evaluated([k \in 1 .. 4 |-> Roc(k)]), KstSpans, o), KstOf)
KstStep(x, i, w) == Read(LegsStep(KstSpans, i, [k \in 1 .. 4 |-> KstTerms(x, k)], w), KstOf)

\* The midpoint's move against the volume it took.
EmvMidpoint(r) == (r.high ++ r.low) %% 2
EmvValue(b, i) ==
  (EmvMidpoint(b[i]) -- EmvMidpoint(b[i - 1])) // (b[i].volume // (b[i].high -- b[i].low))
EmvReads(b, i) == <<b[i].high, b[i].low, b[i - 1].high, b[i - 1].low, b[i].volume>>
EmvTerms(b) == MapTerms(Len(b), 1, FALSE, [i \in DOMAIN b |-> EmvReads(b, i)], [i \in DOMAIN b |-> EmvValue(b, i)])
EmvTerm(b, i) == IF i = 1 THEN NaN ELSE Term(EmvReads(b, i), EmvValue(b, i))
EmvPass(b, n, o) == ReadAll(LegsPass(<<EmvTerms(b)>>, <<n>>, o), LAMBDA s : s[1])
EmvStep(n, b, i, w) ==
  Read(LegsStep(<<n>>, i, <<[j \in DOMAIN b |-> EmvTerm(b, j)]>>, w), LAMBDA s : s[1])

\* A row's volume, on the side its close went to.
VrVolumes(b, i) ==
  LET c == b[i].close
      prev == b[i - 1].close
      v == b[i].volume
  IN IF i = 1 \/ AnyOf(<<c, prev, v>>) THEN <<NaN, NaN, NaN>>
     ELSE IF prev < c THEN <<v, 0, 0>> ELSE IF c < prev THEN <<0, v, 0>> ELSE <<0, 0, v>>
VrOf(n, s) ==
  LET half == Times(s[3], n) %% 2
  IN ((Times(s[1], n) ++ half) // (Times(s[2], n) ++ half)) ** Hundred
VrPass(b, n, o) ==
  LET volumes == SeriesOf(Len(b), LAMBDA i : VrVolumes(b, i))
      side(k) == SeriesOf(Len(b), LAMBDA i : volumes[i][k])
  IN ReadAll(LegsPass(Evaluated([k \in 1 .. 3 |-> side(k)]), <<n, n, n>>, o), LAMBDA s : VrOf(n, s))
VrStep(n, b, i, w) ==
  Read(LegsStep(<<n, n, n>>, i, [k \in 1 .. 3 |-> [j \in DOMAIN b |-> VrVolumes(b, j)[k]]], w), LAMBDA s : VrOf(n, s))

CoppockTerms(x, long, short) ==
  [i \in DOMAIN x |-> UnguardedRoc(x, long, i) ++ UnguardedRoc(x, short, i)]
CoppockPass(x, n, long, short, o) ==
  LET terms == MapTerms(Len(x), IF long < short THEN short ELSE long, FALSE,
                        [i \in DOMAIN x |-> <<x[i], x[i - long], x[i - short]>>], CoppockTerms(x, long, short))
  IN WmaPass(terms, n, o)
CoppockStep(n, long, short, x, i, w) == WmaRow(n, i, CoppockTerms(x, long, short), w)

-----------------------------------------------------------------------------
\* The body of a bar against its range, both weighted over four rows; the signal
\* line weights four rows of that again.
Swma4(x, i) ==
  IF i > 3 THEN (((x[i] ++ Times(x[i - 1], 2)) ++ Times(x[i - 2], 2)) ++ x[i - 3]) %% 6 ELSE NaN
RvTerm(b, side, j) ==
  IF side = 1 THEN Term(<<b[j].close, b[j].open>>, b[j].close -- b[j].open)
              ELSE Term(<<b[j].high, b[j].low>>, b[j].high -- b[j].low)
RvSide(b, side) == [i \in DOMAIN b |-> Swma4([j \in DOMAIN b |-> RvTerm(b, side, j)], i)]
RelativeVigorPass(b, n, o) ==
  ReadAll(LegsPass(Evaluated([side \in 1 .. 2 |-> Evaluated(RvSide(b, side))]), <<n, n>>, o), LAMBDA s : s[1] // s[2])
RelativeVigorStep(n, b, i, w) ==
  Read(LegsStep(<<n, n>>, i, [side \in 1 .. 2 |-> RvSide(b, side)], w), LAMBDA s : s[1] // s[2])
RelativeVigorSignalPass(b, n, o) ==
  LET line == Evaluated(RelativeVigorPass(b, n, o))
      rvi  == ValuesOf(line)
      Ring(i) == SubSeq(rvi, IF i < 3 THEN 1 ELSE i - 2, i)
  IN [i \in DOMAIN b |-> At(Swma4(rvi, i),
        IF line[i].w = Unseeded THEN Unseeded ELSE [line |-> line[i].w, ring |-> Ring(i)])]
RelativeVigorSignalStep(n, b, i, w) ==
  LET line == RelativeVigorStep(n, b, i, w.line)
      rvi == [j \in i - 3 .. i |-> IF j = i THEN line.v ELSE w.ring[3 - (i - j) + 1]]
  IN At(Swma4(rvi, i), [line |-> line.w, ring |-> PushRing(w.ring, line.v)])

\* A weighted price, weighted over 20 rows, and its average, chained behind it.
DkxMid(r) == (((Real(3) ** r.close) ++ r.low) ++ r.open ++ r.high) %% 6
DkxPass(b, o) == WmaPass(SeriesOf(Len(b), LAMBDA i : DkxMid(b[i])), 20, o)
DkxStep(b, i, w) == WmaRow(20, i, [j \in DOMAIN b |-> DkxMid(b[j])], w)
DkxMaPass(b, m, o) ==
  LET line == Evaluated(DkxPass(b, o))
      values == ValuesOf(line)
      mean == Evaluated(SmaPass(values, m, o))
  IN [i \in DOMAIN b |-> At(mean[i].v,
        IF Unseeded \in {line[i].w, mean[i].w} THEN Unseeded
        ELSE [line |-> line[i].w, mean |-> [own |-> mean[i].w, ring |-> SubSeq(values, IF i < m THEN 1 ELSE i - m + 1, i)]])]
DkxMaStep(m, b, i, w) ==
  LET line == DkxStep(b, i, w.line)
      mean == StepChained(m, 0, i, line.v, w.mean)
  IN IF line.w = Unseeded THEN At(NaN, Unseeded) ELSE At(mean.v, [line |-> line.w, mean |-> mean.w])

\* The volume a bar's body claims of its range, summed.
WvadReads(r) == <<r.open, r.high, r.low, r.close, r.volume>>
WvadValue(r) == RangeFlow(r.close -- r.open, r.high, r.low, r.volume)
WvadTerm(r) == Term(WvadReads(r), WvadValue(r))
WvadPass(b, n, o) ==
  LET terms == MapTerms(Len(b), 0, FALSE, [i \in DOMAIN b |-> WvadReads(b[i])], [i \in DOMAIN b |-> WvadValue(b[i])])
  IN ReadAll(LegsPass(<<terms>>, <<n>>, o), LAMBDA s : Times(s[1], n))
WvadStep(n, b, i, w) ==
  Read(LegsStep(<<n>>, i, <<[j \in DOMAIN b |-> WvadTerm(b[j])]>>, w), LAMBDA s : Times(s[1], n))
=============================================================================
