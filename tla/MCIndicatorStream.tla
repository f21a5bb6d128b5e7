-------------------------- MODULE MCIndicatorStream --------------------------
(* Bars in a small range, different in every column: one series goes up and down *)
(* over plateaus of three rows, so that windows of two and three closes are flat.  *)
EXTENDS IndicatorStream, TLC

\* The engine's operators as functions; a frame holds whatever words its kernel keeps.
MCExecute == LET f[c, b, o \in Any] == DirectiveValues(c, b, o) IN f
MCExecuteForCache == LET f[c, b, o \in Any] == DirectiveForCache(c, b, o) IN f
MCFrameAt == LET f[c, b, o, end \in Any] == DirectiveFrame(c, b, o, end) IN f
MCExecuteResume == LET f[c, frame, b, o, from \in Any] == DirectiveResume(c, frame, b, o, from) IN f
MCExecuteResumeStep == LET f[c, frame, b, o, row \in Any] == DirectiveStep(c, frame, b, o, row) IN f

Wave(s, i) ==
  CASE s = "plateaus" -> ((3 * (i \div 3)) % 7) + (i \div 3) [] s = "fall" -> (20 - ((5 * i) % 9)) - (i \div 2)
MCBarOf(s, i) ==
  LET mid == 10 + Wave(s, i)
      up  == (i * i) % 3
      down == ((i + 1) % 2) + ((i % 4) \div 3)
  IN [open |-> Real((mid - down) + (i % 2)), high |-> Real(mid + up), low |-> Real(mid - down),
      close |-> Real(mid), volume |-> Real(1 + ((i * 2) % 5))]
MCStarts == {<<"plateaus", 0>>, <<"fall", 3>>}
MCMissingBar(c) == [f \in {"open", "high", "low", "close", "volume"} |-> NaN]
Cmd(name, a) == [name |-> name, a |-> a]
MCSums == {
  Cmd("boll", <<2>>), Cmd("boll.upper", <<2, 2>>), Cmd("boll.lower", <<3, 2>>), Cmd("bbw", <<3>>), Cmd("accbands", <<2>>),
  Cmd("accbands.upper", <<2>>), Cmd("accbands.lower", <<3>>), Cmd("hv", <<2, 3, 2, 1, 1>>), Cmd("increase", <<2, 1>>),
  Cmd("style.bullish", << >>), Cmd("repeat", <<2>>), Cmd("change", <<3>>), Cmd("vortex.plus", <<2>>),
  Cmd("vortex.minus", <<2>>), Cmd("brar.br", <<2>>), Cmd("brar.ar", <<2>>), Cmd("vr", <<2>>), Cmd("coppock", <<2, 3, 1>>),
  Cmd("relative_vigor", <<2>>), Cmd("relative_vigor.signal", <<2>>), Cmd("dkx", << >>), Cmd("dkx.ma", <<2>>),
  Cmd("wvad", <<2>>), Cmd("psy", <<2>>), Cmd("dpo", <<3>>), Cmd("cmf", <<2>>), Cmd("chop", <<2>>), Cmd("kst", << >>),
  Cmd("emv", <<2>>), Cmd("sum", <<2>>), Cmd("maxindex", <<3>>), Cmd("minindex", <<2>>), Cmd("iii", << >>),
  Cmd("obv", << >>), Cmd("ad", << >>), Cmd("adosc", <<2, 3>>), Cmd("avgprice", << >>), Cmd("wclprice", << >>)}
MCStochastics == {
  Cmd("rsi", <<2>>), Cmd("cmo", <<3>>), Cmd("llv", <<2>>), Cmd("hhv", <<10>>), Cmd("donchian", <<3>>),
  Cmd("donchian.upper", <<2>>), Cmd("donchian.lower", <<3>>), Cmd("minmax.min", <<2>>), Cmd("minmax.max", <<3>>),
  Cmd("midpoint", <<2>>), Cmd("midprice", <<3>>), Cmd("rsv", <<2>>), Cmd("cog", <<3>>), Cmd("rci", <<3>>),
  Cmd("pivothigh", <<1, 1>>), Cmd("pivotlow", <<2, 1>>), Cmd("stoch.k", <<3, 2, 0>>), Cmd("stoch.k", <<2, 2, 1>>),
  Cmd("stoch.d", <<5, 3, 0, 3, 0>>), Cmd("stochf.k", <<2>>),
  Cmd("stochf.d", <<5, 3, 0>>), Cmd("stochf.d", <<17, 2, 1>>), Cmd("stochrsi.k", <<2, 3, 2, 0>>),
  Cmd("stochrsi.d", <<2, 2, 2, 0>>), Cmd("stochrsi.d", <<2, 2, 2, 1>>), Cmd("stochrsi.d", <<14, 5, 3, 0>>),
  Cmd("kdj.k", <<3, 2, 50>>), Cmd("kdj.d", <<2, 2, 3, 50>>), Cmd("kdj.j", <<3, 2, 2, 50>>)}
MCTotals == {
  Cmd("pvt", << >>), Cmd("nvi", << >>), Cmd("pvi", << >>), Cmd("wad", << >>), Cmd("asi", <<3>>), Cmd("efi", <<2>>),
  Cmd("tsi", <<2, 2>>), Cmd("mass_index", <<2>>), Cmd("stoch_momentum", <<2, 2>>),
  Cmd("stoch_momentum.signal", <<2, 2, 2>>), Cmd("crsi", <<2, 2, 3>>), Cmd("keltner", <<2>>),
  Cmd("keltner.upper", <<2, 3, 2>>), Cmd("keltner.lower", <<3, 2, 1>>), Cmd("kcw", <<2, 2, 2>>),
  Cmd("supertrend", <<2, 1>>), Cmd("supertrend.direction", <<3, 1>>)}
MCLevels == {
  Cmd("cdp", << >>), Cmd("cdp.ah", << >>), Cmd("cdp.nl", << >>), Cmd("pivot_points", << >>),
  Cmd("pivot_points.r3", << >>), Cmd("pivot_points.s1", << >>), Cmd("mike.weakr", <<2>>), Cmd("mike.strongs", <<3>>),
  Cmd("ichimoku.tenkan", <<2, 3, 4>>), Cmd("ichimoku.kijun", <<2, 3, 4>>), Cmd("ichimoku.senkou_a", <<2, 3, 4>>),
  Cmd("ichimoku.senkou_b", <<1, 2, 4>>), Cmd("ichimoku.chikou", <<2, 3, 4>>), Cmd("ttm_squeeze", <<2>>),
  Cmd("ttm_squeeze.on", <<2, 2, 1>>)}
MCStatistics == {
  Cmd("linearreg", <<3>>), Cmd("linearreg_slope", <<2>>), Cmd("linearreg_intercept", <<3>>),
  Cmd("linearreg_angle", <<2>>), Cmd("tsf", <<3>>), Cmd("correl", <<3>>), Cmd("beta", <<2>>), Cmd("var", <<2>>),
  Cmd("stddev", <<3, 2>>)}
\* Commands over one another: nodes children first, each with the node it reads, then
\* what is left over them.
Over(name, a, from) == [cmd |-> Cmd(name, a), from |-> from]
Chain(nodes, op, left, right) == [name |-> "chain", nodes |-> nodes, top |-> [op |-> op, left |-> left, right |-> right]]
TopCommand(nodes, c) == [name |-> "chain", nodes |-> nodes, top |-> [op |-> "command", cmd |-> c, left |-> Len(nodes)]]
MCChains == {
  Chain(<<Over("ema", <<2>>, 0), Over("rsi", <<2>>, 1)>>, "name", 2, 0),
  Chain(<<Over("ma", <<2, 0>>, 0), Over("ma", <<3, 0>>, 0)>>, "cross_up", 1, 2),
  Chain(<<Over("ema", <<2>>, 0), Over("wma", <<2>>, 0)>>, "cross", 1, 2),
  Chain(<<Over("ema", <<2>>, 0), Over("smma", <<2>>, 0)>>, "sub", 1, 2),
  Chain(<<Over("obv", << >>, 0), Over("sum", <<2>>, 1)>>, "gt", 0, 2),
  Chain(<<Over("adosc", <<1, 2>>, 0), Over("ma", <<2, 0>>, 1)>>, "name", 2, 0),
  TopCommand(<<Over("smma", <<2>>, 0)>>, Cmd("change", <<2>>))}
MCCommands == {
  Cmd("ma", <<2, 0>>), Cmd("ma", <<3, 2>>), Cmd("ma", <<3, 5>>), Cmd("ema", <<3>>), Cmd("smma", <<2>>), Cmd("wma", <<3>>),
  Cmd("vwma", <<2>>), Cmd("alma", <<2>>), Cmd("hma", <<4>>), Cmd("swma", << >>), Cmd("dema", <<2>>),
  Cmd("tema", <<2>>), Cmd("trima", <<3>>), Cmd("trima", <<4>>), Cmd("t3", <<2, 70>>), Cmd("kama", <<2>>),
  Cmd("mavp", <<2, 3, 0>>), Cmd("mavp", <<2, 3, 1>>), Cmd("sar", <<20, 60>>),
  Cmd("sarext", <<0, 10, 20, 20, 60, 20, 20, 60>>), Cmd("apo", <<3, 2, 0>>), Cmd("ppo", <<2, 3, 1>>),
  Cmd("bias", <<2>>), Cmd("dma", <<2, 3>>), Cmd("dma.ama", <<2, 3, 2>>), Cmd("macdext", <<2, 1, 3, 0>>),
  Cmd("macdext.signal", <<2, 0, 3, 2, 2, 0>>), Cmd("macdext.histogram", <<2, 1, 3, 1, 2, 1>>),
  Cmd("macd", <<3, 2>>), Cmd("macd.signal", <<2, 3, 2>>), Cmd("macd.histogram", <<2, 3, 2>>),
  Cmd("bbi", <<1, 2, 3, 2>>), Cmd("tr", << >>), Cmd("atr", <<2>>), Cmd("natr", <<2>>), Cmd("mom", <<2>>), Cmd("roc", <<2>>), Cmd("willr", <<2>>),
  Cmd("mfi", <<2>>), Cmd("ultosc", <<1, 2, 3>>), Cmd("plus_dm", <<2>>), Cmd("minus_dm", <<3>>),
  Cmd("plus_di", <<2>>), Cmd("minus_di", <<2>>), Cmd("dx", <<2>>), Cmd("adx", <<2>>), Cmd("adxr", <<2>>),
  Cmd("cci", <<3>>), Cmd("imi", <<2>>), Cmd("trix", <<2>>), Cmd("aroon.up", <<2>>), Cmd("aroon.down", <<2>>),
  Cmd("aroonosc", <<2>>), Cmd("bop", << >>)}
  \cup MCSums \cup MCStochastics \cup MCTotals \cup MCLevels \cup MCStatistics \cup MCChains

=============================================================================
