---------------------------- MODULE KernelTable -----------------------------
(***************************************************************************)
(* The commands and their kernels: the pass over a whole series, one step  *)
(* from carried words, and the resume over several rows.  A command c is   *)
(* its name, with its line, and its arguments; b the rows it reads, o the  *)
(* absolute position of the first of them.                                 *)
(***************************************************************************)
EXTENDS CommandSpecs, WindowSums, Accumulations, Statistics

(* The commands built from average stages: the difference or the ratio of  *)
(* a fast and a slow one, smoothed by a third chained behind them, and the *)
(* average whose period a second column chooses row by row (mavp).         *)
percent_oscillator(f, s) == IF s = 0 THEN (IF f = NaN THEN NaN ELSE 0) ELSE ((f -- s) // s) ** Real(100)
\* The shorter period is the fast one, and takes its own type along.
oscillator_order(one, other) == IF other[1] < one[1] THEN <<other, one>> ELSE <<one, other>>

NoStage == << >>
averages(name, a) ==
  LET ordered == CASE name \in {"macdext", "macdext.signal", "macdext.histogram"} ->
                        oscillator_order(<<a[1], a[2]>>, <<a[3], a[4]>>)
                   [] OTHER -> oscillator_order(<<a[1], a[3]>>, <<a[2], a[3]>>)
  IN CASE name = "bias"    -> [fast |-> <<1, 0>>, slow |-> <<a[1], 0>>, smooth |-> NoStage]
       [] name = "dma"     -> [fast |-> <<a[1], 0>>, slow |-> <<a[2], 0>>, smooth |-> NoStage]
       [] name = "dma.ama" -> [fast |-> <<a[1], 0>>, slow |-> <<a[2], 0>>, smooth |-> <<a[3], 0>>]
       [] name \in {"macdext.signal", "macdext.histogram"} ->
            [fast |-> ordered[1], slow |-> ordered[2], smooth |-> <<a[5], a[6]>>]
       [] OTHER -> [fast |-> ordered[1], slow |-> ordered[2], smooth |-> NoStage]

CompositeLine(name, f, s) == IF name \in {"ppo", "bias"} THEN percent_oscillator(f, s) ELSE f -- s
CompositeShown(name, line, signal) == IF name = "macdext.histogram" THEN line -- signal ELSE signal

CompositeInitial(name, a, origin) ==
  LET s == averages(name, a)
  IN [fast |-> StageInitial(s.fast[1], s.fast[2], origin), slow |-> StageInitial(s.slow[1], s.slow[2], origin),
      smooth |-> IF s.smooth = NoStage THEN Unseeded ELSE ChainedInitial(s.smooth[1], s.smooth[2], origin)]
CompositeStep(name, a, x, i, w) ==
  LET s    == averages(name, a)
      fast == StageStep(s.fast[1], s.fast[2], i, x, w.fast)
      slow == StageStep(s.slow[1], s.slow[2], i, x, w.slow)
      line == CompositeLine(name, fast.v, slow.v)
      own  == [fast |-> fast.w, slow |-> slow.w, smooth |-> Unseeded]
      signal == StepChained(s.smooth[1], s.smooth[2], i, line, w.smooth)
  IN IF s.smooth = NoStage THEN At(line, own)
     ELSE At(CompositeShown(name, line, signal.v), [own EXCEPT !.smooth = signal.w])
CompositePass(name, a, x, origin) ==
  LET s    == averages(name, a)
      fast == Evaluated(StagePass(x, s.fast[1], s.fast[2], origin))
      slow == Evaluated(StagePass(x, s.slow[1], s.slow[2], origin))
      line == Evaluated([i \in DOMAIN x |-> CompositeLine(name, fast[i].v, slow[i].v)])
      reach == StageReach(s.smooth[1], s.smooth[2])
      signal == Evaluated(StagePass(line, s.smooth[1], s.smooth[2], origin))
      Chained(i) == IF i < reach THEN Unseeded
                    ELSE [own |-> signal[i].w, ring |-> SubSeq(line, i - reach + 1, i)]
      Own(i) == [fast |-> fast[i].w, slow |-> slow[i].w, smooth |-> Unseeded]
  IN [i \in DOMAIN x |->
        IF s.smooth = NoStage THEN At(line[i], Own(i))
        ELSE At(CompositeShown(name, line[i], signal[i].v), [Own(i) EXCEPT !.smooth = Chained(i)])]

\* The period a row asks for, rounded and kept within its bounds: none if missing.
mavp_period(p, lo, hi) ==
  IF p = NaN THEN NaN ELSE LET n == p \div One IN IF n < lo THEN lo ELSE IF n > hi THEN hi ELSE n
MavpPass(x, periods, lo, hi, matype, origin) ==
  LET lb == GenericMaLookback(hi, matype)
      Start(q) == lb - GenericMaLookback(q, matype)
      pass == [q \in lo .. hi |-> StagePass(SubSeq(x, Start(q) + 1, Len(x)), q, matype, origin + Start(q))]
      Want(i) == mavp_period(periods[i], lo, hi)
  IN [i \in DOMAIN x |->
        At(IF i <= lb \/ Want(i) = NaN THEN NaN ELSE pass[Want(i)][i - Start(Want(i))].v,
           IF i <= lb THEN Unseeded
           ELSE [seen |-> i, stages |-> [q \in lo .. hi |-> pass[q][i - Start(q)].w]])]
MavpStep(x, periods, lo, hi, matype, i, w) ==
  LET lb == GenericMaLookback(hi, matype)
      Start(q) == lb - GenericMaLookback(q, matype)
      Row(q) == w.seen + 1 - Start(q)
      Data(q) == [j \in 0 .. Row(q) |-> x[i + j - Row(q)]]
      step == [q \in lo .. hi |-> StageStep(q, matype, Row(q), Data(q), w.stages[q])]
      want == mavp_period(periods[i], lo, hi)
  IN At(IF w.seen < lb \/ want = NaN THEN NaN ELSE step[want].v,
        [seen |-> w.seen + 1, stages |-> [q \in lo .. hi |-> step[q].w]])

-----------------------------------------------------------------------------
\* An average of a recursive type runs as that average's own command.
Bound(c) ==
  LET kind == KindOf(c.a[1], c.a[2])
  IN IF c.name # "ma" \/ kind \in FiniteKinds THEN c
     ELSE [name |-> kind, a |-> IF kind = "t3" THEN <<c.a[1], Real(7) %% 10>> ELSE <<c.a[1]>>]

Close(b) == Column(b, "close")
\* A value of every row, with nothing to carry.
Plain(values) == [i \in DOMAIN values |-> At(values[i], Unseeded)]
\* A value that reads the window only: its words are empty and never lost.
NoWords == <<"none">>
Stateless(values) == [i \in DOMAIN values |-> At(values[i], NoWords)]

CompositeNames == {"apo", "ppo", "bias", "dma", "dma.ama", "macdext", "macdext.signal", "macdext.histogram"}
SignalNames == {"macd.signal", "macd.histogram"}
PriceNames == {"avgprice", "medprice", "typprice", "wclprice"}
StochNames == {"stoch.k", "stoch.d", "stochf.d"}
StochrsiNames == {"stochrsi.k", "stochrsi.d"}
KdjNames == {"kdj.k", "kdj.d", "kdj.j"}
KeltnerEdges == {"keltner.upper", "keltner.lower", "kcw"}
SmiNames == {"stoch_momentum", "stoch_momentum.signal"}
SupertrendNames == {"supertrend", "supertrend.direction"}
LinregNames == {"linearreg", "linearreg_slope", "linearreg_intercept", "linearreg_angle", "tsf"}
PivotPointNames == {"pivot_points", "pivot_points.r1", "pivot_points.r2", "pivot_points.r3",
                    "pivot_points.s1", "pivot_points.s2", "pivot_points.s3"}
CdpNames == {"cdp", "cdp.ah", "cdp.nh", "cdp.nl", "cdp.al"}
MikeNames == {"mike.weakr", "mike.midr", "mike.strongr", "mike.weaks", "mike.mids", "mike.strongs"}
IchimokuNames == {"ichimoku.tenkan", "ichimoku.kijun", "ichimoku.senkou_a", "ichimoku.senkou_b", "ichimoku.chikou"}
SmiSignal(a) == IF Len(a) = 3 THEN a[3] ELSE 0
AccbandEdges == {"accbands.upper", "accbands.lower"}
\* The root of the bars of a year: a bar spans k of a unit, numbered from seconds to
\* years; trading days count up to days, session minutes below one.
hv_annualization(a) ==
  LET k == a[3]
  IN SqrtF(CASE a[2] = 1 -> Real(a[4] * a[5] * 60) %% k
             [] a[2] = 2 -> Real(a[4]) %% k
             [] a[2] = 3 -> Real(52) %% k
             [] a[2] = 4 -> Real(12) %% k
             [] a[2] = 5 -> Real(1) %% k)
SarextArgs(a) == SarextParams(a[2], [long |-> a[3], short |-> a[6]], [long |-> a[4], short |-> a[7]],
                              [long |-> a[5], short |-> a[8]])

-----------------------------------------------------------------------------
\* exec/cycle.rs: sums, indices and formulas of a row.
PassOfSums(c, b, o) ==
  LET a == c.a
      x == Close(b)
  IN CASE c.name = "trix" -> TrixPass(x, a[1])
       [] c.name = "aroon.up"   -> Plain(AroonUp(b, a[1]))
       [] c.name = "aroon.down" -> Plain(AroonDown(b, a[1]))
       [] c.name = "aroonosc"   -> Plain(Aroonosc(b, a[1]))
       [] c.name = "sum"      -> SumPass(x, a[1], o)
       [] c.name = "maxindex" -> MaxIndexPass(x, a[1], o)
       [] c.name = "minindex" -> MinIndexPass(x, a[1], o)
       [] c.name = "minmax.min" -> Plain(Llv(x, a[1]))
       [] c.name = "minmax.max" -> Plain(Hhv(x, a[1]))
       [] c.name = "natr" -> NatrPass(b, a[1])
       [] c.name = "cog"  -> CogPass(x, a[1])
       [] c.name = "rci"  -> Plain(Rci(x, a[1]))
       [] c.name = "pivothigh" -> Plain(Pivot(Column(b, "high"), a[1], a[2], TRUE))
       [] c.name = "pivotlow"  -> Plain(Pivot(Column(b, "low"), a[1], a[2], FALSE))
       [] c.name = "bop"  -> Stateless(Bop(b))
       [] c.name = "iii"  -> Plain(Iii(b))
       [] c.name = "obv"  -> ObvPass(b)
       [] c.name = "ad"   -> AdPass(b)
       [] c.name = "adosc" -> AdoscPass(b, a[1], a[2])
       [] c.name \in PriceNames -> Stateless(Prices(c.name, b))
       [] c.name = "kcw" -> KeltnerPass(c.name, b, a[1], a[2], Real(a[3]))

\* exec/cycle.rs: fits, moments and order statistics of a window.
PassOfStatistics(c, b, o) ==
  LET a == c.a
      x == Close(b)
      y == Column(b, "open")
  IN CASE c.name \in LinregNames -> LinregPass(c.name, x, a[1], o)
       [] c.name = "correl" -> CorrelPass(x, y, a[1], o)
       [] c.name = "beta"   -> BetaPass(x, y, a[1], o)
       [] c.name = "var"    -> VarPass("var", x, a[1], 1, o)
       [] c.name = "stddev" -> VarPass("stddev", x, a[1], a[2], o)
       [] OTHER -> PassOfSums(c, b, o)

PassOfCycles(c, b, o) ==
  LET a == c.a
      x == Close(b)
  IN CASE c.name = "plus_dm"  -> PlusDmPass(b, a[1])
       [] c.name = "minus_dm" -> MinusDmPass(b, a[1])
       [] c.name = "plus_di"  -> PlusDiPass(b, a[1])
       [] c.name = "minus_di" -> MinusDiPass(b, a[1])
       [] c.name = "dx"   -> DxPass(b, a[1])
       [] c.name = "adx"  -> AdxPass(b, a[1])
       [] c.name = "adxr" -> AdxrPass(b, a[1])
       [] c.name = "cci"  -> CciPass(b, a[1], o)
       [] c.name = "imi"  -> ImiPass(b, a[1], o)
       [] c.name = "psy"  -> Plain(Psy(x, a[1], o))
       [] c.name = "dpo"  -> DpoPass(x, a[1], o)
       [] c.name = "cmf"  -> CmfPass(b, a[1], o)
       [] c.name = "chop" -> Plain(Chop(b, a[1], o))
       [] c.name = "kst"  -> KstPass(x, o)
       [] c.name = "emv"  -> EmvPass(b, a[1], o)
       [] c.name = "pvt"  -> PvtPass(b)
       [] c.name \in {"nvi", "pvi"} -> VolumeIndexPass(b, c.name = "nvi")
       [] c.name = "efi"  -> EfiPass(b, a[1])
       [] c.name = "tsi"  -> TsiPass(x, a[1], a[2])
       [] c.name = "mass_index" -> MassIndexPass(b, a[1], o)
       [] c.name = "crsi" -> CrsiPass(x, a[1], a[2], a[3])
       [] OTHER -> PassOfStatistics(c, b, o)

PassOfRanges(c, b, o) ==
  LET a == c.a
      x == Close(b)
  IN CASE c.name \in Families -> Stateless(MomentumSeries(c.name, x, a[1]))
       [] c.name = "willr" -> Plain(Willr(b, a[1]))
       [] c.name = "cmo"  -> CmoPass(x, a[1])
       [] c.name \in StochNames -> StochPass(c.name, b, a, o)
       [] c.name = "stochf.k" -> Plain(FastkOf(b, a[1]))
       [] c.name \in StochrsiNames -> StochrsiPass(c.name = "stochrsi.d", x, a, o)
       [] c.name = "mfi"  -> MfiPass(b, a[1], o)
       [] c.name = "ultosc" -> UltoscPass(b, a, o)
       [] OTHER -> PassOfCycles(c, b, o)

PassOfMomenta(c, b, o) ==
  LET a == c.a
      x == Close(b)
  IN CASE c.name = "macd" -> MacdPass(x, a[1], a[2])
       [] c.name \in SignalNames -> MacdSignalPass(x, a[1], a[2], a[3], c.name = "macd.histogram")
       [] c.name \in {"boll", "accbands"} -> SmaPass(x, a[1], o)
       [] c.name \in {"boll.upper", "boll.lower"} -> BollPass(c.name, x, a[1], a[2], o)
       [] c.name = "bbw"  -> BollPass(c.name, x, a[1], 0, o)
       [] c.name \in AccbandEdges -> AccbandsPass(b, a[1], c.name = "accbands.upper", o)
       [] c.name = "rsv"  -> Plain(Rsv(b, a[1]))
       [] c.name \in KdjNames -> KdjPass(c.name, b, a)
       [] c.name = "rsi"  -> RsiPass(x, a[1])
       [] c.name = "bbi"  -> BbiPass(x, a, o)
       [] c.name = "tr"   -> Stateless(Tr(b))
       [] c.name = "atr"  -> AtrPass(b, a[1])
       [] c.name \in {"llv", "donchian.lower"} -> Plain(Llv(Column(b, "low"), a[1]))
       [] c.name \in {"hhv", "donchian.upper"} -> Plain(Hhv(Column(b, "high"), a[1]))
       [] c.name = "donchian" -> Plain(Donchian(b, a[1]))
       [] c.name = "midpoint" -> Plain(Midpoint(x, a[1]))
       [] c.name = "midprice" -> Plain(Midprice(b, a[1]))
       [] c.name = "hv"   -> HvPass(x, a[1], hv_annualization(a), o)
       [] c.name = "increase" -> Plain(Increase(x, a[1], a[2]))
       [] c.name \in {"style.bullish", "style.bearish"} -> Plain(Style(c.name = "style.bullish", b))
       [] c.name = "repeat" -> Plain(Repeat(Style(TRUE, b), a[1]))
       [] c.name = "change" -> Plain(Change(x, a[1]))
       [] OTHER -> PassOfRanges(c, b, o)

PassOfLevels(c, b, o) ==
  LET a == c.a
      x == Close(b)
  IN CASE c.name \in {"vortex.plus", "vortex.minus"} -> Plain(Vortex(b, a[1], c.name = "vortex.plus", o))
       [] c.name = "brar.br" -> Plain(BrarBr(b, a[1], o))
       [] c.name = "brar.ar" -> Plain(BrarAr(b, a[1], o))
       [] c.name = "vr"      -> VrPass(b, a[1], o)
       [] c.name = "coppock" -> CoppockPass(x, a[1], a[2], a[3], o)
       [] c.name = "relative_vigor" -> RelativeVigorPass(b, a[1], o)
       [] c.name = "relative_vigor.signal" -> RelativeVigorSignalPass(b, a[1], o)
       [] c.name = "dkx"     -> DkxPass(b, o)
       [] c.name = "dkx.ma"  -> DkxMaPass(b, a[1], o)
       [] c.name = "wvad"    -> WvadPass(b, a[1], o)
       [] c.name \in CdpNames -> Plain(Cdp(b, c.name))
       [] c.name \in PivotPointNames -> Plain(PivotPoints(b, c.name))
       [] c.name \in MikeNames -> Plain(Mike(b, a[1], c.name))
       [] c.name \in IchimokuNames -> Plain(Ichimoku(b, a[1], a[2], a[3], c.name))
       [] c.name = "ttm_squeeze" -> Plain(TtmMomentum(b, a[1], o))
       [] c.name = "ttm_squeeze.on" -> Plain(TtmOn(b, a[1], a[2], a[3], o))
       [] c.name \in SmiNames -> SmiPass(b, a[1], a[2], SmiSignal(a))
       [] c.name = "wad"  -> WadPass(b)
       [] c.name = "asi"  -> AsiPass(b, Real(a[1]))
       [] c.name = "keltner" -> EmaPass(x, a[1])
       [] c.name \in KeltnerEdges \ {"kcw"} -> KeltnerPass(c.name, b, a[1], a[2], Real(a[3]))
       [] c.name \in SupertrendNames ->
            SupertrendPass(b, a[1], Real(a[2]), c.name = "supertrend.direction")
       [] OTHER -> PassOfMomenta(c, b, o)

PassOfAverages(c, b, o) ==
  LET a == c.a
      x == Close(b)
  IN CASE c.name = "ma"    -> StagePass(x, a[1], a[2], o)
       [] c.name = "ema"   -> EmaPass(x, a[1])
       [] c.name = "smma"  -> SmmaPass(x, a[1])
       [] c.name = "wma"   -> WmaPass(x, a[1], o)
       [] c.name = "vwma"  -> VwmaPass(b, a[1], o)
       [] c.name = "alma"  -> Plain(Alma(x, a[1], [k \in 1 .. a[1] |-> Real(1 + k * k)]))
       [] c.name = "hma"   -> HmaPass(x, a[1], o)
       [] c.name = "swma"  -> Plain(Swma(x))
       [] c.name = "dema"  -> DemaPass(x, a[1])
       [] c.name = "tema"  -> TemaPass(x, a[1])
       [] c.name = "trima" -> TrimaPass(x, a[1], o)
       [] c.name = "t3"    -> T3Pass(x, a[1], a[2])
       [] c.name = "kama"  -> KamaPass(x, a[1])
       [] c.name = "mavp"  -> MavpPass(x, Column(b, "open"), a[1], a[2], a[3], o)
       [] c.name = "sar"   -> SarPass(b, a[1], a[2])
       [] c.name = "sarext" -> SarextPass(b, a[1], SarextArgs(a))
       [] c.name \in CompositeNames -> CompositePass(c.name, a, x, o)
       [] OTHER -> PassOfLevels(c, b, o)
PassOf(c, b, o) == PassOfAverages(Bound(c), b, o)

-----------------------------------------------------------------------------
\* The words after all the rows.
StateOf(c, b, o) == LET run == PassOf(c, b, o) IN IF run = << >> THEN Unseeded ELSE run[Len(run)].w

\* One row of a recursive command.
AccumulationStep(c, b, i, w) ==
  LET a == c.a
      x == Close(b)
  IN CASE c.name = "pvt" -> PvtStep(b, i, w)
       [] c.name \in {"nvi", "pvi"} -> VolumeIndexStep(b, c.name = "nvi", i, w)
       [] c.name = "wad" -> WadStep(b, i, w)
       [] c.name = "efi" -> EfiStep(a[1], b, i, w)
       [] c.name = "tsi" -> TsiStep(a[1], a[2], x, i, w)
       [] c.name = "mass_index" -> MassIndexStep(a[1], b, i, w)
       [] c.name = "crsi" -> CrsiStep(a[1], a[2], a[3], x, i, w)
       [] c.name \in KeltnerEdges -> KeltnerStep(c.name, a[1], a[2], Real(a[3]), b, i, w)
       [] c.name \in SupertrendNames ->
            SupertrendStep(a[1], Real(a[2]), c.name = "supertrend.direction", b, i, w)
ScalarStep(c, b, i, w, o) ==
  LET a == c.a
      x == Close(b)
      atr == AtrStep(a[1], b, i, w)
  IN CASE c.name = "ema"  -> EmaStep(a[1], x, i, w)
       [] c.name = "smma" -> SmmaStep(a[1], x, i, w)
       [] c.name = "atr"  -> atr
       [] c.name = "natr" -> [atr EXCEPT !.v = NatrValue(@, b[i].close)]
       [] c.name = "dema" -> DemaStep(a[1], x, i, w)
       [] c.name = "tema" -> TemaStep(a[1], x, i, w)
       [] c.name = "t3"   -> T3Step(a[1], a[2], x, i, w)
       [] c.name = "kama" -> KamaStep(a[1], x, i, w)
       [] c.name = "macd" -> MacdStep(a[1], a[2], x, i, w)
       [] c.name \in SignalNames -> MacdSignalStep(a[1], a[2], a[3], c.name = "macd.histogram", x, i, w)
       [] c.name = "sar"     -> SarStep(a[1], a[2], b, i, w)
       [] c.name = "sarext"  -> SarextStep(SarextArgs(a), b, i, w)
       [] c.name = "plus_di" -> PlusDiStep(a[1], b, i, w)
       [] c.name = "minus_di" -> MinusDiStep(a[1], b, i, w)
       [] c.name = "dx"   -> DxStep(a[1], b, i, w)
       [] c.name = "adx"  -> AdxStep(a[1], b, i, w)
       [] c.name = "adxr" -> AdxrStep(a[1], b, i, w)
       [] c.name = "trix" -> TrixStep(a[1], x, i, w)
       [] c.name = "plus_dm"  -> PlusDmStep(a[1], b, i, w)
       [] c.name = "minus_dm" -> MinusDmStep(a[1], b, i, w)
       [] c.name = "obv"  -> ObvStep(b, i, w)
       [] c.name = "ad"   -> AdStep(b, i, w)
       [] c.name = "rsi"  -> RsiStep(a[1], x, i, w)
       [] c.name = "cmo"  -> CmoStep(a[1], x, i, w)
       [] c.name = "keltner" -> EmaStep(a[1], x, i, w)
       [] OTHER -> AccumulationStep(c, b, i, w)

\* One row of a command that reads a finite window.
WindowSumsStep(c, b, i, w, o) ==
  LET a == c.a
      x == Close(b)
  IN CASE c.name \in {"maxindex", "minindex"} -> IndexStep(c.name = "maxindex", a[1], x, i, o, w)
       [] c.name \in PriceNames -> At(PriceAt(c.name, b[i]), w)
       [] c.name \in {"boll", "accbands"} -> SmaStep(a[1], x, i, w)
       [] c.name \in {"boll.upper", "boll.lower"} -> BollStep(c.name, a[1], a[2], x, i, w)
       [] c.name = "bbw"  -> BollStep(c.name, a[1], 0, x, i, w)
       [] c.name \in AccbandEdges -> AccbandsStep(a[1], c.name = "accbands.upper", b, i, w)
       [] c.name = "hv"   -> HvStep(a[1], hv_annualization(a), x, i, w)
       [] c.name = "cog"  -> CogStep(a[1], x, i, w)
       [] c.name \in StochNames -> StochStep(c.name, a, b, i, w)
       [] c.name = "sum"  -> SumStep(a[1], x, i, w)
       [] c.name = "cmf"  -> CmfStep(a[1], b, i, w)
       [] c.name = "dpo"  -> DpoStep(a[1], x, i, w)
       [] c.name = "emv"  -> EmvStep(a[1], b, i, w)
       [] c.name = "kst"  -> KstStep(x, i, w)
       [] c.name = "coppock" -> CoppockStep(a[1], a[2], a[3], x, i, w)
       [] c.name = "relative_vigor" -> RelativeVigorStep(a[1], b, i, w)
       [] c.name = "relative_vigor.signal" -> RelativeVigorSignalStep(a[1], b, i, w)
       [] c.name = "dkx"  -> DkxStep(b, i, w)
       [] c.name = "dkx.ma" -> DkxMaStep(a[1], b, i, w)
       [] c.name = "wvad" -> WvadStep(a[1], b, i, w)
       [] c.name = "vr"   -> VrStep(a[1], b, i, w)
       [] c.name \in LinregNames -> LinregStep(c.name, a[1], x, i, w)
       [] c.name = "correl" -> CorrelStep(a[1], x, Column(b, "open"), i, w)
       [] c.name = "beta" -> BetaStep(a[1], x, Column(b, "open"), i, w)
       [] c.name = "var"  -> VarStep("var", a[1], 1, x, i, w)
       [] c.name = "stddev" -> VarStep("stddev", a[1], a[2], x, i, w)
WindowStep(c, b, i, w, o) ==
  LET a == c.a
      x == Close(b)
  IN CASE c.name = "ma"    -> StageStep(a[1], a[2], i, x, w)
       [] c.name = "wma"   -> WmaStep(a[1], x, i, w)
       [] c.name = "trima" -> TrimaStep(a[1], x, i, w)
       [] c.name = "vwma"  -> VwmaStep(a[1], b, i, w)
       [] c.name = "hma"   -> HmaStep(a[1], x, i, w)
       [] c.name = "bbi"   -> BbiStep(a, x, i, w)
       [] c.name = "tr"    -> At(IF i = 1 THEN NaN ELSE TrAt(b, i), w)
       [] c.name = "bop"   -> At(Bop(b)[i], w)
       [] c.name \in Families -> At(MomentumAt(c.name, x, a[1], i), w)
       [] c.name = "cci"   -> CciStep(a[1], b, i, w)
       [] c.name = "imi"   -> ImiStep(a[1], b, i, w)
       [] c.name = "mfi"   -> MfiStep(a[1], b, i, w)
       [] c.name = "ultosc" -> UltoscStep(a, b, i, w)
       [] c.name = "mavp"  -> MavpStep(x, Column(b, "open"), a[1], a[2], a[3], i, w)
       [] c.name \in CompositeNames -> CompositeStep(c.name, a, x, i, w)
       [] OTHER -> WindowSumsStep(c, b, i, w, o)

\* Several rows of a command, from the words of the row before them: totals and channels,
ResumeOfTotals(c, b, from, w) ==
  LET a == c.a
      x == Close(b)
  IN CASE c.name = "crsi" -> CrsiResume(a[1], a[2], a[3], x, from, w)
       [] c.name \in SmiNames -> SmiResume(a[1], a[2], SmiSignal(a), b, from, w)
       [] c.name = "obv"  -> ObvResume(b, from, w)
       [] c.name = "ad"   -> AdResume(b, from, w)
       [] c.name = "adosc" -> AdoscResume(b, a[1], a[2], from, w)
       [] c.name = "pvt" -> PvtResume(b, from, w)
       [] c.name \in {"nvi", "pvi"} -> VolumeIndexResume(b, c.name = "nvi", from, w)
       [] c.name = "efi" -> EfiResume(a[1], b, from, w)
       [] c.name = "tsi" -> TsiResume(a[1], a[2], x, from, w)
       [] c.name = "mass_index" -> MassIndexResume(a[1], b, from, w)
ResumeOfChannels(c, b, from, w) ==
  LET a == c.a
  IN CASE c.name \in KeltnerEdges -> KeltnerResume(c.name, a[1], a[2], Real(a[3]), b, from, w)
       [] c.name = "keltner" -> EmaResume(a[1], Close(b), from, w)
       [] c.name = "wad" -> WadResume(b, from, w)
       [] c.name = "asi" -> AsiResume(b, Real(a[1]), from, w)
       [] c.name \in SupertrendNames ->
            SupertrendResume(a[1], Real(a[2]), c.name = "supertrend.direction", b, from, w)
       [] OTHER -> ResumeOfTotals(c, b, from, w)
\* recursive averages,
ResumeOfAverages(c, b, from, w) ==
  LET a == c.a
      x == Close(b)
  IN CASE c.name = "sar"  -> SarResume(a[1], a[2], b, from, w)
       [] c.name = "sarext" -> SarextResume(SarextArgs(a), b, from, w)
       [] c.name = "ema"  -> EmaResume(a[1], x, from, w)
       [] c.name = "smma" -> SmmaResume(a[1], x, from, w)
       [] c.name = "dema" -> DemaResume(a[1], x, from, w)
       [] c.name = "tema" -> TemaResume(a[1], x, from, w)
       [] c.name = "t3"   -> T3Resume(a[1], a[2], x, from, w)
       [] c.name = "trix" -> TrixResume(a[1], x, from, w)
       [] c.name = "kama" -> KamaResume(a[1], x, from, w)
       [] c.name = "macd" -> MacdResume(a[1], a[2], x, from, w)
       [] c.name \in SignalNames -> MacdSignalResume(a[1], a[2], a[3], c.name = "macd.histogram", x, from, w)
       [] OTHER -> ResumeOfChannels(c, b, from, w)
\* directional moves and oscillators,
ResumeOfMomenta(c, b, from, w) ==
  LET a == c.a
      x == Close(b)
  IN CASE c.name = "rsi"  -> RsiResume(a[1], x, from, w)
       [] c.name = "cmo"  -> CmoResume(a[1], x, from, w)
       [] c.name = "atr"  -> AtrResume(a[1], b, from, w)
       [] c.name = "natr" -> NatrResume(a[1], b, from, w)
       [] c.name = "plus_dm"  -> PlusDmResume(a[1], b, from, w)
       [] c.name = "minus_dm" -> MinusDmResume(a[1], b, from, w)
       [] c.name = "plus_di"  -> PlusDiResume(a[1], b, from, w)
       [] c.name = "minus_di" -> MinusDiResume(a[1], b, from, w)
       [] c.name = "dx"   -> DxResume(a[1], b, from, w)
       [] c.name = "adx"  -> AdxResume(a[1], b, from, w)
       [] c.name = "adxr" -> AdxrResume(a[1], b, from, w)
       [] OTHER -> ResumeOfAverages(c, b, from, w)
\* and stochastics.  A finite window steps row by row instead.
ResumeOf(c, b, from, w) ==
  CASE c.name \in StochrsiNames -> StochrsiResume(c.name = "stochrsi.d", c.a, Close(b), from, w)
    [] c.name \in KdjNames -> KdjResume(c.name, c.a, b, from, w)
    [] OTHER -> ResumeOfMomenta(c, b, from, w)

StepOf(c, b, i, w, o) ==
  IF SpecOf(c).history = "Recursive" THEN ScalarStep(c, b, i, w, o) ELSE WindowStep(c, b, i, w, o)

=============================================================================
