---------------------------- MODULE Oscillators -----------------------------
(***************************************************************************)
(* Rates of change, the extremum trackers (Williams, Aroon), the           *)
(* oscillators over the sums of a window (IMI, CCI, MFI, ultimate), gains  *)
(* against losses (RSI, CMO), the extrema of a window and formulas of      *)
(* them, the centre of gravity, rank correlation with time, and pivots;    *)
(* then the stochastics.                                                   *)
(***************************************************************************)
EXTENDS FiniteAverages

Hundred == Real(100)
Families == {"mom", "roc", "rocp", "rocr", "rocr100"}
MomentumValue(family, current, prior) ==
  CASE family = "mom" -> current -- prior
    [] prior = 0 -> 0
    [] family = "roc" -> ((current // prior) -- One) ** Hundred
    [] family = "rocp" -> (current // prior) -- One
    [] family = "rocr" -> current // prior
    [] family = "rocr100" -> (current // prior) ** Hundred
MomentumAt(family, x, period, i) ==
  IF i <= period THEN NaN ELSE Term(<<x[i], x[i - period]>>, MomentumValue(family, x[i], x[i - period]))
MomentumSeries(family, x, period) ==
  IF period >= Len(x) THEN Blank(Len(x))
  ELSE MapTerms(Len(x), period, FALSE, [i \in DOMAIN x |-> <<x[i], x[i - period]>>],
                [i \in DOMAIN x |-> MomentumValue(family, x[i], x[i - period])])
RocInternal(current, prior) == IF current = NaN \/ prior = NaN THEN NaN ELSE MomentumValue("roc", current, prior)
UnguardedRoc(x, period, i) ==
  IF i <= period THEN NaN ELSE Term(<<x[i], x[i - period]>>, ((x[i] // x[i - period]) -- One) ** Hundred)

TrixPass(x, period) ==
  LET e == ReadAll(CascadePass(x, period, 3, "ema"), LAMBDA s : s[3])
  IN [i \in DOMAIN e |-> [e[i] EXCEPT !.v = IF i = 1 THEN NaN ELSE RocInternal(@, e[i - 1].v)]]
TrixStep(period, x, i, w) ==
  LET e == CascadeStep(w, x[i], "ema", period) IN At(RocInternal(e[3], w[3]), e)
TrixResume(period, x, from, w) == Resumed(LAMBDA e, i : TrixStep(period, x, i, e), w, from, Len(x))

-----------------------------------------------------------------------------
\* The row of the extremum of the window [first, i]: scanned afresh once the one
\* held has left the window, otherwise only the new row can replace it.
Beats(greatest, v, best) == IF greatest THEN v \succ best ELSE v \prec best
Matches(greatest, v, best) == IF greatest THEN v \succeq best ELSE v \preceq best
Tracked(x, span, i, held, greatest, latest) ==
  LET first == i + 1 - span
      Better(v, best) == IF latest THEN Matches(greatest, v, best) ELSE Beats(greatest, v, best)
      Scanned(best, j) == IF Better(x[j], x[best]) THEN j ELSE best
  IN IF held < first THEN Folded(Scanned, first, first + 1, i)
     ELSE IF Matches(greatest, x[i], x[held]) THEN i ELSE held
Tracker(x, span, greatest, latest) ==
  Scan(0, span - 1, Len(x), LAMBDA held, i : Tracked(x, span, i, held, greatest, latest))

WillrValue(highest, lowest, close) ==
  LET range == highest -- lowest
  IN IF range = 0 THEN 0 ELSE (highest -- close) ** (Neg(Hundred) // range)
Willr(b, period) ==
  LET high == Column(b, "high")
      low  == Column(b, "low")
      hi == Tracker(high, period, TRUE, FALSE)
      lo == Tracker(low, period, FALSE, FALSE)
      out == [i \in 1 .. Len(b) |->
                IF i < period THEN NaN ELSE WillrValue(high[hi[i]], low[lo[i]], b[i].close)]
  IN IF period = 0 \/ period > Len(b) THEN Blank(Len(b))
     ELSE BlankWindows(BlankWindows(BlankWindows(out, high, period), low, period), Column(b, "close"), 1)

AroonValue(period, i, at) == (Hundred %% period) ** Real(period - (i - at))
AroonUp(b, period) ==
  LET high == Column(b, "high")
      hi == Tracker(high, period + 1, TRUE, TRUE)
  IN IF period = 0 \/ period >= Len(b) THEN Blank(Len(b))
     ELSE BlankWindows([i \in 1 .. Len(b) |-> IF i <= period THEN NaN ELSE AroonValue(period, i, hi[i])],
                       high, period + 1)
AroonDown(b, period) ==
  LET low == Column(b, "low")
      lo == Tracker(low, period + 1, FALSE, TRUE)
  IN IF period = 0 \/ period >= Len(b) THEN Blank(Len(b))
     ELSE BlankWindows([i \in 1 .. Len(b) |-> IF i <= period THEN NaN ELSE AroonValue(period, i, lo[i])],
                       low, period + 1)
\* The first window is one scan of both columns, from row one.
Aroonosc(b, period) ==
  LET high == Column(b, "high")
      low  == Column(b, "low")
      hi == Tracker(high, period + 1, TRUE, TRUE)
      lo == Tracker(low, period + 1, FALSE, TRUE)
      out == [i \in 1 .. Len(b) |-> IF i <= period THEN NaN ELSE (Hundred %% period) ** Real(hi[i] - lo[i])]
  IN IF period = 0 \/ period >= Len(b) THEN Blank(Len(b))
     ELSE BlankWindows(BlankWindows(out, high, period + 1), low, period + 1)

Bop(b) ==
  LET Value(r) == LET range == r.high -- r.low
                  IN IF range \preceq 0 THEN 0 ELSE (r.close -- r.open) // range
  IN [i \in DOMAIN b |-> Term(<<b[i].open, b[i].high, b[i].low, b[i].close>>, Value(b[i]))]

-----------------------------------------------------------------------------
\* The share of the upward moves within a bar among both.
ImiUpdown(r) == IF r.close \succ r.open THEN <<r.close -- r.open, 0>> ELSE <<0, r.open -- r.close>>
ImiTerm(r) == IF AnyOf(<<r.open, r.close>>) THEN <<NaN, NaN>> ELSE ImiUpdown(r)
ImiValue(s) == Hundred ** (s[1] // (s[1] ++ s[2]))
ImiRaw(b) == [i \in DOMAIN b |-> ImiUpdown(b[i])]
ImiOwn(b) == [i \in DOMAIN b |-> ImiTerm(b[i])]
ImiPass(b, period, origin) ==
  ReadAll(TrustedPass(Len(b), period, 2, "AddReadDrop", origin, ImiRaw(b), TRUE,
                      WindowSumsPass(Len(b), period, 2, "AddReadDrop", origin, ImiOwn(b))), ImiValue)
ImiStep(period, b, i, w) ==
  Read(SumsRow(w, "AddReadDrop", period, i, 2, Guarded(ImiRaw(b)), ImiOwn(b)), ImiValue)

Typical(r) == ((r.high ++ r.low) ++ r.close) %% 3
CciValue(b, period, i, avg) ==
  LET dev == SumOf(LAMBDA j : AbsF(Typical(b[j]) -- avg), i + 1 - period, i)
      num == Typical(b[i]) -- avg
  IN IF num # 0 /\ dev # 0 THEN num // ((Real(15) %% 1000) ** (dev %% period)) ELSE 0
CciTerms(b) == [i \in DOMAIN b |-> <<Typical(b[i])>>]
CciRow(period, b, i, w) == SumsRow(w, "AddReadDrop", period, i, 1, Guarded(CciTerms(b)), CciTerms(b))
CciRead(period, b, i, r) == Read(r, LAMBDA s : CciValue(b, period, i, s[1] %% period))
CciPass(b, period, origin) ==
  LET sums == TrustedPass(Len(b), period, 1, "AddReadDrop", origin, CciTerms(b), TRUE,
                          Run(LAMBDA w, i : CciRow(period, b, i, w), SlideAt(1, origin), Len(b)))
  IN [i \in DOMAIN b |-> CciRead(period, b, i, sums[i])]
CciStep(period, b, i, w) == CciRead(period, b, i, CciRow(period, b, i, w))

\* The money flow of row j + 1 against row j, on the side the typical price moved to.
SignedFlow(b, j) ==
  LET tp == Typical(b[j + 1])
      flow == tp ** b[j + 1].volume
  IN IF tp \succ Typical(b[j]) THEN <<flow, 0>> ELSE IF tp \prec Typical(b[j]) THEN <<0, flow>> ELSE <<0, 0>>
MfiFlow(b, j) ==
  IF AnyOf(<<Typical(b[j]), Typical(b[j + 1]), b[j + 1].volume>>) THEN <<NaN, NaN>> ELSE SignedFlow(b, j)
MfiValue(s) == IF s[1] ++ s[2] = 0 THEN 0 ELSE (Hundred ** s[1]) // (s[1] ++ s[2])
MfiRaw(b) == [j \in 1 .. Len(b) - 1 |-> SignedFlow(b, j)]
MfiOwn(b) == [j \in 1 .. Len(b) - 1 |-> MfiFlow(b, j)]
MfiPass(b, period, origin) ==
  LET flows == Len(b) - 1
      Flat(j) == Typical(b[j + 1]) = Typical(b[j]) \/ AnyOf(<<Typical(b[j]), Typical(b[j + 1])>>)
      clean == b[1].high ++ (b[1].low ++ b[1].close) # NaN
               /\ \A j \in 1 .. flows : Flat(j) => Typical(b[j + 1]) ** b[j + 1].volume # NaN
      run == ReadAll(TrustedPass(flows, period, 2, "DropAdd", origin, MfiRaw(b), clean,
                                 WindowSumsPass(flows, period, 2, "DropAdd", origin, MfiOwn(b))), MfiValue)
  IN IF period = 0 \/ period + 1 > Len(b) THEN Unshown(Len(b)) ELSE <<At(NaN, Unseeded)>> \o run
MfiStep(period, b, i, w) ==
  IF i = 1 THEN At(NaN, w)
  ELSE Read(SumsRow(w, "DropAdd", period, i - 1, 2, Guarded(MfiOwn(b)), MfiOwn(b)), MfiValue)

-----------------------------------------------------------------------------
\* Three windows of buying pressure and true range, from the second row on.
UltoscTerm(b, j) ==
  LET h == b[j + 1].high
      l == b[j + 1].low
      c == b[j + 1].close
      previous == b[j].close
      range == h -- l
      gap == AbsF(previous -- h)
      top == IF gap \succ range THEN gap ELSE range
      low == AbsF(previous -- l)
      tr == Term(<<h, l, previous>>, IF low \succ top THEN low ELSE top)
  IN IF AnyOf(<<c, l, previous>>) THEN <<NaN, NaN>> ELSE <<c -- MinOf(l, previous), tr>>
UltoscValue(sums) ==
  LET Scaled(k, v) == IF v = NaN THEN NaN ELSE v * (IF k = 1 THEN 4 ELSE IF k = 2 THEN 2 ELSE 1)
      Part(k) == IF sums[k][2] = 0 THEN 0 ELSE Scaled(k, sums[k][1] // sums[k][2])
  IN Hundred ** (((Part(1) ++ Part(2)) ++ Part(3)) %% 7)
UltoscRow(periods, b, i, w) ==
  LET longest == CHOOSE p \in {periods[k] : k \in 1 .. 3} : \A k \in 1 .. 3 : periods[k] <= p
      own == [j \in 1 .. Len(b) - 1 |-> UltoscTerm(b, j)]
      r == Evaluated([k \in 1 .. 3 |-> Slide(w[k], "AddReadDrop", periods[k], i - 1, FALSE, Guarded(own))])
      sums == [k \in 1 .. 3 |-> CASE r[k].window = "Partial" -> <<NaN, NaN>>
                                  [] r[k].window = "Sums" -> r[k].sums
                                  [] OTHER -> OwnSums(own, 2, i - periods[k], i - 1)]
  IN IF i = 1 THEN At(NaN, w)
     ELSE At(IF i > longest THEN UltoscValue(sums) ELSE NaN, Evaluated([k \in 1 .. 3 |-> r[k].slide]))
UltoscPass(b, periods, origin) ==
  IF \E k \in 1 .. 3 : periods[k] = 0 \/ periods[k] >= Len(b) THEN Unshown(Len(b))
  ELSE Run(LAMBDA w, i : UltoscRow(periods, b, i, w), [k \in 1 .. 3 |-> SlideAt(2, origin)], Len(b))
UltoscStep(periods, b, i, w) == UltoscRow(periods, b, i, w)

-----------------------------------------------------------------------------
\* The average gain and loss of a change: the mean of the first period, then Wilder's.
GainLossSeed(x, period) ==
  LET change(i) == x[i + 1] -- x[i]
      Gain(i) == IF change(i) \prec 0 THEN 0 ELSE change(i)
      Loss(i) == IF change(i) \prec 0 THEN Neg(change(i)) ELSE 0
  IN <<SumOf(Gain, 1, period) %% period, SumOf(Loss, 1, period) %% period>>
GainLossNext(period, w, d) ==
  LET up == IF d \prec 0 THEN 0 ELSE d
      down == IF d \prec 0 THEN Neg(d) ELSE 0
  IN <<Wilder(period, w[1], up), Wilder(period, w[2], down)>>
GainLossValue(signed, w) ==
  LET denom == w[1] ++ w[2]
  IN IF denom = 0 THEN 0 ELSE Hundred ** ((IF signed THEN w[1] -- w[2] ELSE w[1]) // denom)

GainLossStep(signed, period, x, i, w) ==
  LET new == GainLossNext(period, w, x[i] -- x[i - 1])
  IN IF i = 1 \/ Len(w) # 2 THEN At(NaN, Unseeded) ELSE At(GainLossValue(signed, new), new)
GainLossPass(signed, x, period) ==
  LET seed == GainLossSeed(x, period)
  IN IF period = 0 \/ Len(x) <= period THEN Unshown(Len(x))
     ELSE Unshown(period) \o <<At(GainLossValue(signed, seed), seed)>>
          \o Resumed(LAMBDA w, i : GainLossStep(signed, period, x, i, w), seed, period + 1, Len(x))
GainLossResume(signed, period, x, from, w) ==
  IF from = 0 THEN Refused ELSE Resumed(LAMBDA s, i : GainLossStep(signed, period, x, i, s), w, from, Len(x))
RsiPass(x, period) == GainLossPass(FALSE, x, period)
RsiStep(period, x, i, w) == GainLossStep(FALSE, period, x, i, w)
RsiResume(period, x, from, w) == GainLossResume(FALSE, period, x, from, w)
CmoPass(x, period) == GainLossPass(TRUE, x, period)
CmoStep(period, x, i, w) == GainLossStep(TRUE, period, x, i, w)
CmoResume(period, x, from, w) == GainLossResume(TRUE, period, x, from, w)

\* Two RSIs of a series in one loop, from the later of their seeds.
RsiPair(prices, rp, streaks, sp) ==
  LET first == (IF rp < sp THEN sp ELSE rp) + 1
      Of(x, p) == Scan(GainLossSeed(x, p), p + 1, Len(x), LAMBDA w, i : GainLossNext(p, w, x[i] -- x[i - 1]))
      a == Of(prices, rp)
      b == Of(streaks, sp)
  IN [i \in DOMAIN prices |-> IF i < first THEN Unseeded ELSE <<a[i], b[i]>>]

-----------------------------------------------------------------------------
Llv(x, period) == RollingMin(x, period)
\* A window of ten, none missing, is tracked; any other goes by blocks.
HhvTracked(x) ==
  LET at == Tracker(x, 10, TRUE, FALSE)
  IN Evaluated([i \in DOMAIN x |-> IF i < 10 THEN NaN ELSE x[at[i]]])
Hhv(x, period) ==
  IF period = 10 /\ Len(x) >= 10 /\ ~AnyOf(x) THEN HhvTracked(x) ELSE RollingMax(x, period)
Midway(high, low, period) ==
  LET hh == RollingMax(high, period)
      ll == RollingMin(low, period)
  IN Evaluated([i \in DOMAIN high |-> (hh[i] ++ ll[i]) %% 2])
Donchian(b, period) == Midway(Column(b, "high"), Column(b, "low"), period)
Midprice(b, period) == Midway(Column(b, "high"), Column(b, "low"), period)
Midpoint(x, period) == Midway(x, x, period)

RsvValue(close, hh, ll) ==
  LET denom == hh -- ll
  IN Term(<<close, hh, ll>>, IF denom # 0 THEN ((close -- ll) // denom) ** Hundred ELSE 0)
Rsv(b, period) ==
  LET ll == RollingMin(Column(b, "low"), period)
      hh == RollingMax(Column(b, "high"), period)
  IN Evaluated([i \in DOMAIN b |-> RsvValue(b[i].close, hh[i], ll[i])])

-----------------------------------------------------------------------------
\* The centre of gravity: a sum weighted by age over the plain sum, slid as long
\* as the last window was whole and the sums are exact.
CogInitial == [sums |-> Zeros(2), bad |-> 0, seen |-> 0, valid |-> FALSE]
CogSums(x, i, period) ==
  LET Add(s, age) == <<s[1] ++ Scale(x[i - age], 1 + age), s[2] ++ x[i - age]>>
  IN Folded(Add, Zeros(2), 0, period - 1)
CogValue(s) == IF s[2] = 0 THEN NaN ELSE Neg(s[1]) // s[2]
CogSlide(s, period, leaving, entering) ==
  <<((s[1] ++ s[2]) -- Scale(leaving, period + 1)) ++ entering, (s[2] -- leaving) ++ entering>>
CogRow(x, period, i, w) ==
  LET full == w.seen + 1 >= period
      left == full /\ w.seen + 1 > period /\ IsMissing(x[i - period])
      bad  == w.bad + (IF IsMissing(x[i]) THEN 1 ELSE 0) - (IF left THEN 1 ELSE 0)
      slid == CogSlide(w.sums, period, x[i - period], x[i])
      sums == IF w.valid /\ IsExact(slid) THEN slid ELSE CogSums(x, i, period)
      new  == [w EXCEPT !.bad = bad, !.seen = IF w.seen > period THEN period + 1 ELSE w.seen + 1]
  IN CASE ~full -> At(NaN, new)
       [] bad > 0 -> At(CogValue(CogSums(x, i, period)), [new EXCEPT !.valid = FALSE])
       [] OTHER -> At(CogValue(sums), [new EXCEPT !.valid = TRUE, !.sums = sums])
CogPass(x, period) ==
  IF period = 0 \/ period > Len(x) THEN Unshown(Len(x))
  ELSE Run(LAMBDA w, i : CogRow(x, period, i, w), CogInitial, Len(x))
CogStep(period, x, i, w) ==
  IF period = 0 \/ ~HoldsWindow(i, w.seen, period) THEN At(NaN, Unseeded) ELSE CogRow(x, period, i, w)

\* Spearman's correlation of a window's values with their order in time; equal
\* values share the mean of their ranks.
RciRank(window, t) ==
  LET below == Len(SelectSeq(window, LAMBDA v : v < window[t]))
      equal == Len(SelectSeq(window, LAMBDA v : v = window[t]))
  IN Real(2 * below + equal + 1) %% 2
RciValue(window) ==
  LET p == Len(window)
      mean == Real(p + 1) %% 2
      dp(t) == RciRank(window, t) -- mean
      dt(t) == Real(t) -- mean
      cov == SumOf(LAMBDA t : dp(t) ** dt(t), 1, p)
      denom == SqrtF(SumOf(LAMBDA t : dp(t) ** dp(t), 1, p) ** SumOf(LAMBDA t : dt(t) ** dt(t), 1, p))
  IN IF 0 \prec denom THEN (cov // denom) ** Hundred ELSE NaN
Rci(x, period) ==
  LET Window(i) == SubSeq(x, i + 1 - period, i)
  IN IF period < 2 \/ period > Len(x) THEN Blank(Len(x))
     ELSE Evaluated([i \in DOMAIN x |-> IF i < period \/ AnyOf(Window(i)) THEN NaN ELSE RciValue(Window(i))])

\* A row strictly beyond the `left` rows before it and the `right` rows after it,
\* known once the last of those is there.
Pivot(x, left, right, high) ==
  LET win == left + right
      Beyond(v, cand) == IF high THEN v \prec cand ELSE cand \prec v
      IsPivot(i) == \A j \in (i - win .. i) \ {i - right} : Beyond(x[j], x[i - right])
      out == Evaluated([i \in DOMAIN x |->
               IF i > win /\ ~IsMissing(x[i - right]) /\ IsPivot(i) THEN x[i - right] ELSE NaN])
  IN BlankWindows(out, x, win + 1)

-----------------------------------------------------------------------------
(* Stochastics: where the close stands in the range of a window, smoothed  *)
(* by average stages (stoch, stochf), by the same over an RSI (stochrsi),  *)
(* or by two exponential averages that start from a given value (kdj).     *)

Fastk(close, hh, ll) ==
  LET range == hh -- ll IN IF range # 0 THEN ((close -- ll) ** Hundred) // range ELSE 0
FastkValue(close, hh, ll) == Term(<<close, hh, ll>>, Fastk(close, hh, ll))

\* Short windows of a short series are tracked, as long as nothing read is missing.
SmallWindow(n, period) == n <= 4096 /\ period > 0 /\ period <= 16 /\ period <= n
TrackedFastk(high, low, close, period) ==
  LET hi == Tracker(high, period, TRUE, FALSE)
      lo == Tracker(low, period, FALSE, FALSE)
  IN Evaluated([i \in DOMAIN close |-> IF i < period THEN NaN ELSE Fastk(close[i], high[hi[i]], low[lo[i]])])
NothingMissing(high, low, close, period) ==
  ~AnyOf(high) /\ ~AnyOf(low) /\ \A i \in period .. Len(close) : ~IsMissing(close[i])
StochFastk(high, low, close, period) ==
  LET hh == RollingMax(high, period)
      ll == RollingMin(low, period)
  IN IF SmallWindow(Len(close), period) /\ NothingMissing(high, low, close, period)
     THEN TrackedFastk(high, low, close, period)
     ELSE Evaluated([i \in DOMAIN close |-> FastkValue(close[i], hh[i], ll[i])])
FastkOf(b, period) == StochFastk(Column(b, "high"), Column(b, "low"), Column(b, "close"), period)
\* The same at one row.
StochFastkAt(b, period, i) ==
  LET Extremum(field, Pick(_, _)) ==
        Folded(LAMBDA best, j : Pick(best, b[j][field]), b[i + 1 - period][field], i + 2 - period, i)
      window == SubSeq(b, i + 1 - period, i)
  IN IF period = 0 \/ i < period \/ AnyOf(Column(window, "high")) \/ AnyOf(Column(window, "low")) THEN NaN
     ELSE FastkValue(b[i].close, Extremum("high", MaxOf), Extremum("low", MinOf))

\* A mean over a short ring: resummed once its sum may have lost bits.
StreamMean(x, width) ==
  LET Own(j) == x[j]
      Push(s, i) ==
        LET added == s.sum ++ x[i]
            sum == IF i > width THEN added -- x[i - width] ELSE added
        IN IF IsExact(<<sum>>) THEN [s EXCEPT !.sum = sum]
           ELSE [clean |-> s.clean /\ sum # NaN, sum |-> SumOf(Own, IF i > width THEN i + 1 - width ELSE 1, i)]
      s == Scan([sum |-> 0, clean |-> TRUE], 0, Len(x), Push)
  IN [values |-> Evaluated([i \in DOMAIN x |-> IF i < width THEN NaN ELSE s[i].sum %% width]),
      finite |-> s[Len(x)].clean /\ s[Len(x)].sum # NaN]

\* The default line over five rows and means of three, fused; given up at a missing row.
FusedD(b, stages) ==
  LET n == Len(b)
      tracked == TrackedFastk(Column(b, "high"), Column(b, "low"), Column(b, "close"), 5)
      k == StreamMean(SubSeq(tracked, 5, n), 3)
      d == StreamMean(SubSeq(k.values, 3, n - 4), 3)
      Behind(values, rows) == [i \in 1 .. n |-> IF i <= rows THEN NaN ELSE values[i - rows]]
  IN CASE n < 5 \/ ~NothingMissing(Column(b, "high"), Column(b, "low"), Column(b, "close"), 5) -> Refused
       [] ~(k.finite /\ (n > 6 => d.finite)) -> Refused
       [] stages = 1 -> Behind(k.values, 4)
       [] OTHER -> Behind(d.values, 6)
Defaults == [stoch |-> <<5, 3, 0, 3, 0>>, stochf |-> <<5, 3, 0>>]

StochStages(name, a) == IF name = "stoch.d" THEN <<<<a[2], a[3]>>, <<a[4], a[5]>>>> ELSE <<<<a[2], a[3]>>>>
ChainedWords(run, values, reach, i) ==
  IF i < reach \/ run[i].w = Unseeded THEN Unseeded
  ELSE [own |-> run[i].w, ring |-> SubSeq(values, i - reach + 1, i)]
StochPass(name, b, a, o) ==
  LET stages == StochStages(name, a)
      first  == Evaluated(StagePass(FastkOf(b, a[1]), stages[1][1], stages[1][2], o))
      k      == ValuesOf(first)
      second == Evaluated(StagePass(k, stages[2][1], stages[2][2], o))
      fused  == CASE name = "stoch.d" /\ a = Defaults.stoch -> FusedD(b, 2)
                  [] name = "stochf.d" /\ a = Defaults.stochf -> FusedD(b, 1)
                  [] OTHER -> Refused
      values == CASE fused # Refused -> fused
                  [] Len(stages) = 1 -> k
                  [] OTHER -> ValuesOf(second)
      Words(i) == IF Len(stages) = 1 THEN <<first[i].w>>
                  ELSE <<first[i].w, ChainedWords(second, k, StageReach(stages[2][1], stages[2][2]), i)>>
  IN [i \in DOMAIN b |-> At(values[i], IF \E k1 \in DOMAIN Words(i) : Words(i)[k1] = Unseeded THEN Unseeded ELSE Words(i))]
StochStep(name, a, b, i, w) ==
  LET stages == StochStages(name, a)
      first  == StageStep(stages[1][1], stages[1][2], i, [j \in DOMAIN b |-> StochFastkAt(b, a[1], j)], w[1])
      second == StepChained(stages[2][1], stages[2][2], i, first.v, w[2])
  IN CASE first.w = Unseeded -> At(NaN, Unseeded)
       [] Len(stages) = 1 -> At(first.v, <<first.w>>)
       [] second.w = Unseeded -> At(NaN, Unseeded)
       [] OTHER -> At(second.v, <<first.w, second.w>>)

-----------------------------------------------------------------------------
\* Both extremes of one series, rescanned together once either has left the window.
SameSeriesTracked(x, period) ==
  LET Low(best, j)  == IF x[j] \preceq x[best] THEN j ELSE best
      High(best, j) == IF x[j] \succeq x[best] THEN j ELSE best
      Row(held, i) ==
        LET first == i + 1 - period
        IN IF held[1] < first \/ held[2] < first
           THEN <<Folded(Low, first, first + 1, i), Folded(High, first, first + 1, i)>>
           ELSE <<Low(held[1], i), High(held[2], i)>>
      at == Scan(<<0, 0>>, period - 1, Len(x), Row)
  IN Evaluated([i \in DOMAIN x |-> IF i < period THEN NaN ELSE Fastk(x[i], x[at[i][2]], x[at[i][1]])])
StochrsiFromRsi(rsi, period) ==
  LET start == FirstPresent(rsi)
      tail == SubSeq(rsi, start, Len(rsi))
      k == IF period > 0 /\ period <= 8 /\ ~AnyOf(tail) THEN SameSeriesTracked(tail, period)
           ELSE StochFastk(tail, tail, tail, period)
  IN IF Len(tail) < period THEN Blank(Len(rsi)) ELSE SubSeq(Blank(Len(rsi)), 1, start - 1) \o k
StochrsiFastk(x, rsiPeriod, period) == StochrsiFromRsi(ValuesOf(RsiPass(x, rsiPeriod)), period)
StochrsiDDefault(rsi) ==
  LET start == FirstPresent(rsi)
      tail == SubSeq(rsi, start, Len(rsi))
      d == StreamMean(SubSeq(SameSeriesTracked(tail, 5), 5, Len(tail)), 3).values
  IN CASE Len(tail) < 7 -> Blank(Len(rsi))
       [] AnyOf(tail) -> Refused
       [] OTHER -> SubSeq(Blank(Len(rsi)), 1, start + 3) \o d

\* Words: the RSI's, its last values the window still reads, the stage behind it.
StochrsiPass(isD, x, a, o) ==
  LET rsi  == Evaluated(RsiPass(x, a[1]))
      line == ValuesOf(rsi)
      c    == a[2] - 1
      raw  == StochrsiFromRsi(line, a[2])
      run  == Evaluated(StagePass(raw, a[3], a[4], o))
      fused == IF a = <<14, 5, 3, 0>> THEN StochrsiDDefault(line) ELSE Refused
      Stage(i) == IF isD THEN ChainedWords(run, raw, StageReach(a[3], a[4]), i) ELSE Unseeded
      Value(i) == CASE ~isD -> raw[i] [] fused # Refused -> fused[i] [] OTHER -> run[i].v
  IN [i \in DOMAIN x |->
        At(Value(i), IF i < a[1] + c \/ i <= a[1] \/ (isD /\ Stage(i) = Unseeded) THEN Unseeded
                     ELSE [rsi |-> rsi[i].w, ring |-> SubSeq(line, i - c + 1, i), stage |-> Stage(i)])]
StochrsiResume(isD, a, x, from, w) ==
  LET c   == a[2] - 1
      new == RsiResume(a[1], x, from, w.rsi)
      buf == w.ring \o ValuesOf(new)
      k   == StochFastk(buf, buf, buf, a[2])
      Own(s, i) == LET used == c + i - from
                       d == StepChained(a[3], a[4], i, k[used], s.stage)
                   IN At(IF isD THEN d.v ELSE k[used],
                         [rsi |-> new[i - from].w, ring |-> SubSeq(buf, used - c + 1, used),
                          stage |-> IF isD THEN d.w ELSE Unseeded])
  IN IF from = 0 THEN Refused ELSE Resumed(Own, w, from, Len(x))

-----------------------------------------------------------------------------
\* The raw value over the rows there are, while they are fewer than a window.
KdjRsv(b, period) ==
  LET ll == RollingMin(Column(b, "low"), period)
      hh == RollingMax(Column(b, "high"), period)
      Grown(s, i) == <<IF AnyOf(<<s[1], b[i].high>>) THEN NaN ELSE MaxOf(s[1], b[i].high),
                       IF AnyOf(<<s[2], b[i].low>>) THEN NaN ELSE MinOf(s[2], b[i].low)>>
      grown == Scan(<<b[1].high, b[1].low>>, 1, Len(b), Grown)
  IN Evaluated([i \in DOMAIN b |->
       IF i < period THEN RsvValue(b[i].close, grown[i][1], grown[i][2]) ELSE RsvValue(b[i].close, hh[i], ll[i])])
EwmaNext(period, prev, x) ==
  LET alpha == One %% period IN ((One -- alpha) ** prev) ++ (alpha ** x)
\* a holds the periods and, last, the value both averages start from.
KdjRow(line, a, r, w) ==
  LET k == EwmaNext(a[2], w[1], r)
      d == EwmaNext(a[3], w[2], k)
  IN CASE line = "kdj.k" -> At(k, <<k>>)
       [] line = "kdj.d" -> At(d, <<k, d>>)
       [] line = "kdj.j" -> At((Real(3) ** k) -- (Real(2) ** d), <<k, d>>)
KdjInitial(a) == <<Real(a[Len(a)]), Real(a[Len(a)])>>
KdjPass(line, b, a) ==
  LET rsv == KdjRsv(b, a[1]) IN Run(LAMBDA w, i : KdjRow(line, a, rsv[i], w), KdjInitial(a), Len(b))
KdjResume(line, a, b, from, w) ==
  LET rsv == KdjRsv(SubSeq(b, from + 2 - a[1], Len(b)), a[1])
      Row(s, i) == KdjRow(line, a, rsv[i - from + a[1] - 1], s)
  IN IF a[1] = 0 \/ from = 0 \/ from + 1 < a[1] THEN Refused ELSE Resumed(Row, w, from, Len(b))
=============================================================================
