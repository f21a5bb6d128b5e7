---------------------------- MODULE CommandSpecs ----------------------------
(***************************************************************************)
(* What every command declares: the columns it reads, the rows it needs    *)
(* before its first value (lookback), how its values depend on the past    *)
(* (history) and how it goes on from a carried state (resume, reach).      *)
(* A command is its name and line, "macd.signal", and its arguments a.     *)
(***************************************************************************)
EXTENDS FiniteAverages, DirectionalMoves

Line(fields, lookback) ==
  [fields |-> fields, lookback |-> lookback, history |-> "Window", resume |-> "Recompute",
   readsPast |-> FALSE, before |-> 0, inputs |-> -1]
Accumulating(s) == [s EXCEPT !.history = "Accumulating", !.readsPast = TRUE]
Recursive(s) == [s EXCEPT !.history = "Recursive", !.before = 1]
ResumeRows(s, rows) == [s EXCEPT !.before = rows]
ResumeInputs(s, rows) == [s EXCEPT !.inputs = rows]
ReadsPastLookback(s) == [s EXCEPT !.readsPast = TRUE]
Stepping(s) == [s EXCEPT !.resume = "Step"]
ByRows(s) == [s EXCEPT !.resume = "Rows"]
\* A command over averages recurses as soon as one of them does.
Averages(s, stages) ==
  LET kinds == {KindOf(stages[i][1], stages[i][2]) : i \in DOMAIN stages}
  IN [s EXCEPT !.history = IF kinds \subseteq FiniteKinds THEN "Accumulating" ELSE "Recursive",
               !.readsPast = TRUE]
\* The rows before a resume its kernel reads.
ResumeReach(s) ==
  CASE s.inputs >= 0 -> s.inputs [] s.readsPast -> s.lookback + 1 [] OTHER -> s.before
Carries(s) == s.resume # "Recompute"

\* Mutants: a row too many, a row too few.
M1Late(n) == n
M1Short(n) == IF n > 1 THEN n - 2 ELSE 0
M1(n) == IF n > 0 THEN n - 1 ELSE 0
Greater(x, y) == IF x < y THEN y ELSE x
C1 == {"close"}
CV == {"close", "volume"}
HL == {"high", "low"}
HLC == {"high", "low", "close"}
HLCV == HLC \cup {"volume"}
OHLC == HLC \cup {"open"}
CO == {"close", "open"}    \* a second operand with no default: the open column here

-----------------------------------------------------------------------------
\* Candles, momentum, stochastics, directional movement, statistics, prices.
SpecOfMomenta(name, a) ==
  CASE name \in {"style.bullish", "style.bearish"} -> Line({"open", "close"}, 0)
    [] name \in {"change", "midpoint", "minmax.min", "minmax.max"} -> Line(C1, M1(a[1]))
    [] name = "repeat" -> Line({"open", "close"}, M1(a[1]))  \* of a bullish style
    [] name \in {"mom", "roc", "rocp", "rocr", "rocr100"} -> Stepping(Line(C1, a[1]))
    [] name = "midprice" -> Line(HL, M1(a[1]))
    [] name = "willr" -> Line(HLC, M1(a[1]))
    [] name = "cmo" -> Stepping(Recursive(Line(C1, a[1])))
    [] name = "cci" -> Stepping(Accumulating(Line(HLC, M1(a[1]))))
    [] name = "imi" -> Stepping(Accumulating(Line({"open", "close"}, M1(a[1]))))
    [] name = "trix" -> Stepping(ResumeRows(Recursive(Line(C1, 3 * M1(a[1]) + 1)), 0))
    [] name = "mfi" -> Stepping(Accumulating(Line(HLCV, a[1])))
    [] name = "ultosc" -> Stepping(Accumulating(Line(HLC, Greater(Greater(a[1], a[2]), a[3]))))
    [] name = "stoch.k" ->
         ByRows(Averages(Line(HLC, M1(a[1]) + GenericMaLookback(a[2], a[3])), <<<<a[2], a[3]>>>>))
    [] name = "stoch.d" ->
         ByRows(Averages(Line(HLC, M1(a[1]) + GenericMaLookback(a[2], a[3]) + GenericMaLookback(a[4], a[5])),
                       <<<<a[2], a[3]>>, <<a[4], a[5]>>>>))
    [] name = "stochf.k" -> Line(HLC, M1(a[1]))
    [] name = "stochf.d" ->
         ByRows(Averages(Line(HLC, M1(a[1]) + GenericMaLookback(a[2], a[3])), <<<<a[2], a[3]>>>>))
    [] name = "stochrsi.k" ->
         ByRows(ResumeInputs(Recursive(Line(C1, a[1] + M1(a[2]))), Greater(M1(a[2]), 1)))
    [] name = "stochrsi.d" ->
         ByRows(ResumeInputs(Recursive(Line(C1, a[1] + M1(a[2]) + GenericMaLookback(a[3], a[4]))),
                           M1(a[2]) + a[3]))
    [] name \in {"plus_dm", "minus_dm"} -> Stepping(Recursive(Line(HL, WilderSeedBar(a[1]))))
    [] name \in {"plus_di", "minus_di", "dx", "natr"} -> Stepping(Recursive(Line(HLC, a[1])))
    [] name = "adx" -> Stepping(Recursive(Line(HLC, 2 * a[1] - 1)))
    [] name = "adxr" -> Stepping(Recursive(Line(HLC, 3 * a[1] - 2)))
    [] name \in {"aroon.up", "aroon.down", "aroonosc"} -> Line(HL, a[1])
    [] name = "sum" -> Stepping(Accumulating(Line(C1, M1(a[1]))))
    [] name \in {"maxindex", "minindex"} -> Stepping(ReadsPastLookback(Line(C1, M1(a[1]))))
    [] name = "bop" -> Stepping(Line(OHLC, 0))
    [] name \in {"linearreg", "linearreg_slope", "linearreg_intercept", "linearreg_angle", "tsf"} ->
         Stepping(Accumulating(Line(C1, M1(a[1]))))
    [] name = "correl" -> Stepping(Accumulating(Line(CO, M1(a[1]))))
    [] name = "beta" -> Stepping(Accumulating(Line(CO, a[1])))
    [] name \in {"var", "stddev", "cog"} -> Stepping(Accumulating(Line(C1, M1(a[1]))))
    [] name \in {"median", "rank", "sem", "quantile", "skew", "kurt", "rci", "dev", "mode"} ->
         Line(C1, M1(a[1]))
    [] name = "iii" -> Line(HLCV, 0)
    [] name = "pivothigh" -> Line({"high"}, a[1] + a[2])
    [] name = "pivotlow" -> Line({"low"}, a[1] + a[2])
    [] name = "ad" -> Stepping(ResumeRows(Recursive(Line(HLCV, 0)), 0))
    [] name = "adosc" ->
         ByRows(ResumeInputs(Recursive(Line(HLCV, M1(Greater(a[1], a[2])))), M1(Greater(a[1], a[2]))))
    [] name = "avgprice" -> Stepping(Line(OHLC, 0))
    [] name = "medprice" -> Stepping(Line(HL, 0))
    [] name \in {"typprice", "wclprice"} -> Stepping(Line(HLC, 0))

\* Window functions, the oscillators of group A and group B.
SpecOfOscillators(name, a) ==
  CASE name = "rsv" -> Line(HLC, M1(a[1]))
    [] name \in {"kdj.k", "kdj.d", "kdj.j"} ->
         ByRows(ResumeInputs(Recursive(Line(HLC, a[1] * 3)), Greater(M1(a[1]), 1)))
    [] name = "rsi" -> Stepping(Recursive(Line(C1, a[1])))
    [] name = "bbi" ->
         Stepping(Accumulating(Line(C1, M1(Greater(Greater(a[1], a[2]), Greater(a[3], a[4]))))))
    [] name = "tr" -> Stepping(Line(HLC, 1))
    [] name = "atr" -> Stepping(Recursive(Line(HLC, a[1])))
    [] name \in {"llv", "donchian.lower"} -> Line({"low"}, M1(a[1]))
    [] name \in {"hhv", "donchian.upper"} -> Line({"high"}, M1(a[1]))
    [] name = "donchian" -> Line(HL, M1(a[1]))
    [] name = "hv" -> Stepping(Accumulating(Line(C1, a[1])))
    [] name \in {"increase", "psy"} -> Line(C1, a[1])
    [] name \in {"pvt", "nvi", "pvi", "obv"} -> Stepping(Recursive(Line(CV, 0)))
    [] name = "dpo" -> Stepping(Accumulating(Line(C1, Greater(M1(a[1]), a[1] \div 2 + 1))))
    [] name = "cmf" -> Stepping(Accumulating(Line(HLCV, M1(a[1]))))
    [] name \in {"chop", "vortex.plus", "vortex.minus"} -> Line(HLC, a[1])
    [] name = "kst" -> Stepping(Accumulating(Line(C1, 44)))
    [] name = "emv" -> Stepping(Accumulating(Line(HL \cup {"volume"}, a[1])))
    [] name = "mass_index" -> Stepping(ResumeInputs(Recursive(Line(HL, 15 + a[1])), a[1]))
    [] name = "efi" -> Stepping(Recursive(Line(CV, a[1])))
    [] name = "tsi" -> Stepping(Recursive(Line(C1, a[1] + a[2] - 1)))
    [] name = "crsi" ->
         Stepping(ReadsPastLookback(Recursive(Line(C1, Greater(Greater(a[1], a[2]), a[3] + 1)))))
    [] name = "bias" -> Stepping(Accumulating(Line(C1, M1(a[1]))))
    [] name = "dma" -> Stepping(Accumulating(Line(C1, M1(Greater(a[1], a[2])))))
    [] name = "dma.ama" -> Stepping(Accumulating(Line(C1, M1(Greater(a[1], a[2])) + M1(a[3]))))
    [] name = "brar.ar" -> Line({"open", "high", "low"}, M1(a[1]))
    [] name = "brar.br" -> Line(HLC, a[1])
    [] name = "vr" -> Stepping(Accumulating(Line(CV, a[1])))
    [] name = "coppock" -> Stepping(Accumulating(Line(C1, Greater(a[2], a[3]) + M1(a[1]))))
    [] name = "relative_vigor" -> Stepping(Accumulating(Line(OHLC, a[1] + 2)))
    [] name = "relative_vigor.signal" -> Stepping(Accumulating(Line(OHLC, a[1] + 5)))
    [] name = "dkx" -> Stepping(Accumulating(Line(OHLC, 19)))
    [] name = "dkx.ma" -> Stepping(Accumulating(Line(OHLC, 18 + a[1])))
    [] name = "wvad" -> Stepping(Accumulating(Line(OHLC \cup {"volume"}, M1(a[1]))))
    [] name \in {"cdp", "cdp.ah", "cdp.nh", "cdp.nl", "cdp.al"} -> Line(HLC, 1)
    [] name \in {"mike.weakr", "mike.midr", "mike.strongr", "mike.weaks", "mike.mids", "mike.strongs"} ->
         Line(HLC, M1(a[1]))
    [] name = "stoch_momentum" ->
         ByRows(ReadsPastLookback(Recursive(Line(HLC, M1(a[1]) + 2 * M1(a[2])))))
    [] name = "stoch_momentum.signal" ->
         ByRows(ReadsPastLookback(Recursive(Line(HLC, M1(a[1]) + 2 * M1(a[2]) + M1(a[3])))))
    [] name \in {"pivot_points", "pivot_points.r1", "pivot_points.r2", "pivot_points.r3",
                 "pivot_points.s1", "pivot_points.s2", "pivot_points.s3"} -> Line(HLC, 1)
    [] name = "ichimoku.tenkan" -> Line(HLC, M1(a[1]))
    [] name = "ichimoku.kijun" -> Line(HLC, M1(a[2]))
    [] name = "ichimoku.senkou_a" -> Line(HLC, M1(Greater(a[1], a[2])) + a[2])
    [] name = "ichimoku.senkou_b" -> Line(HLC, M1(a[3]) + a[2])
    [] name = "ichimoku.chikou" -> Line(HLC, 0)
    [] name = "wad" -> Stepping(Recursive(Line(HLC, 0)))
    [] name = "asi" -> ByRows(Recursive(Line(OHLC, 0)))
    [] OTHER -> SpecOfMomenta(name, a)

\* Averages, stops, MACD and its relatives, bands.
SpecOfAverages(name, a) ==
  CASE name = "ma" -> Stepping(Averages(Line(C1, GenericMaLookback(a[1], a[2])), <<a>>))
    [] name \in {"ema", "smma"} -> Stepping(ResumeRows(Recursive(Line(C1, M1(a[1]))), 0))
    [] name \in {"apo", "ppo"} ->
         ByRows(Averages(Line(C1, Greater(GenericMaLookback(a[1], a[3]), GenericMaLookback(a[2], a[3]))),
                       <<<<a[1], a[3]>>, <<a[2], a[3]>>>>))
    [] name = "macdext" ->
         ByRows(Averages(Line(C1, Greater(GenericMaLookback(a[1], a[2]), GenericMaLookback(a[3], a[4]))),
                       <<<<a[1], a[2]>>, <<a[3], a[4]>>>>))
    [] name \in {"macdext.signal", "macdext.histogram"} ->
         ByRows(Averages(Line(C1, Greater(GenericMaLookback(a[1], a[2]), GenericMaLookback(a[3], a[4]))
                                + GenericMaLookback(a[5], a[6])),
                       <<<<a[1], a[2]>>, <<a[3], a[4]>>, <<a[5], a[6]>>>>))
    [] name \in {"wma", "trima"} -> Stepping(Accumulating(Line(C1, M1(a[1]))))
    [] name = "dema" -> Stepping(ResumeRows(Recursive(Line(C1, 2 * M1(a[1]))), 0))
    [] name = "tema" -> Stepping(ResumeRows(Recursive(Line(C1, 3 * M1(a[1]))), 0))
    [] name = "vwma" -> Stepping(Accumulating(Line(CV, M1(a[1]))))
    [] name = "alma" -> Line(C1, M1(a[1]))
    [] name = "hma" -> Stepping(Accumulating(Line(C1, M1(a[1]) + M1(HmaParts(a[1])[2]))))
    [] name = "swma" -> Line(C1, 3)
    [] name = "t3" -> Stepping(ResumeRows(Recursive(Line(C1, 6 * M1(a[1]))), 0))
    [] name = "kama" -> Stepping(ReadsPastLookback(Recursive(Line(C1, a[1]))))
    [] name = "mavp" ->
         ByRows(Averages(Line(CO, GenericMaLookback(a[2], a[3])), <<<<a[2], a[3]>>>>))
    [] name \in {"sar", "sarext"} -> Stepping(ReadsPastLookback(Recursive(Line(HL, 1))))
    [] name = "macd" -> Stepping(ResumeRows(Recursive(Line(C1, M1(Greater(a[1], a[2])))), 0))
    [] name \in {"macd.signal", "macd.histogram"} ->
         Stepping(ResumeRows(Recursive(Line(C1, Greater(a[1], a[2]) + a[3] - 2)), 0))
    [] name \in {"boll", "bbw", "accbands"} -> Stepping(Accumulating(Line(C1, M1(a[1]))))
    [] name \in {"boll.upper", "boll.lower"} -> Stepping(Accumulating(Line(C1, M1(a[1]))))
    [] name \in {"accbands.upper", "accbands.lower"} -> Stepping(Accumulating(Line(HL, M1(a[1]))))
    [] name \in {"keltner"} -> Stepping(Recursive(Line(C1, M1(a[1]))))
    [] name \in {"keltner.upper", "keltner.lower", "kcw"} ->
         Stepping(Recursive(Line(HLC, Greater(M1(a[1]), a[2]))))
    [] name \in {"supertrend", "supertrend.direction"} -> Stepping(Recursive(Line(HLC, a[1])))
    [] name = "ttm_squeeze" -> Accumulating(Line(HLC, 2 * M1(a[1])))
    [] name = "ttm_squeeze.on" -> Accumulating(Line(HLC, a[1]))
    [] OTHER -> SpecOfOscillators(name, a)
SpecOf(c) == SpecOfAverages(c.name, c.a)

=============================================================================
