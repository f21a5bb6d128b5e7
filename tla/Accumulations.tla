---------------------------- MODULE Accumulations ----------------------------
(***************************************************************************)
(* Recursive lines that are not one moving average: running totals (PVT,   *)
(* NVI, PVI, WAD, ASI), averages of averages (EFI, TSI, the mass index,    *)
(* the stochastic momentum), the Connors RSI and the stops and bands that  *)
(* follow a price by its true range.                                       *)
(***************************************************************************)
EXTENDS Oscillators, DirectionalMoves

\* A running total carried as its first word; the first row shows the base, and a
\* step needs a row before it.
TotalPass(b, base, Keep(_, _), Row(_, _)) ==
  LET First == At(base, Keep(base, 1))
  IN Run(LAMBDA w, i : IF i = 1 THEN First ELSE Row(w, i), Unseeded, Len(b))
TotalStep(i, w, Row(_, _)) == IF i = 1 THEN At(NaN, Unseeded) ELSE Row(w, i)
Change1(now, before) == (now -- before) // before

PvtRow(b, w, i) ==
  LET acc == w[1] ++ (Change1(b[i].close, w[2]) ** b[i].volume) IN At(acc, <<acc, b[i].close>>)
PvtPass(b) == TotalPass(b, 0, LAMBDA v, i : <<v, b[i].close>>, LAMBDA w, i : PvtRow(b, w, i))
PvtStep(b, i, w) == TotalStep(i, w, LAMBDA s, j : PvtRow(b, s, j))
PvtResume(b, from, w) == Resumed(LAMBDA s, i : PvtRow(b, s, i), w, from, Len(b))

\* An index that follows the close on the days the volume fell (or rose).
VolumeIndexRow(b, onDown, w, i) ==
  LET triggered == IF onDown THEN b[i].volume \prec w[3] ELSE b[i].volume \succ w[3]
      val == IF triggered THEN w[1] ** (One ++ Change1(b[i].close, w[2])) ELSE w[1]
  IN At(val, <<val, b[i].close, b[i].volume>>)
VolumeIndexPass(b, onDown) ==
  TotalPass(b, Real(1000), LAMBDA v, i : <<v, b[i].close, b[i].volume>>,
            LAMBDA w, i : VolumeIndexRow(b, onDown, w, i))
VolumeIndexStep(b, onDown, i, w) == TotalStep(i, w, LAMBDA s, j : VolumeIndexRow(b, onDown, s, j))
VolumeIndexResume(b, onDown, from, w) ==
  Resumed(LAMBDA s, i : VolumeIndexRow(b, onDown, s, i), w, from, Len(b))

WadMove(r, prev) ==
  CASE r.close \succ prev -> r.close -- MinOf(prev, r.low)
    [] r.close \prec prev -> r.close -- MaxOf(prev, r.high)
    [] OTHER -> 0
WadRow(b, w, i) == LET acc == w[1] ++ WadMove(b[i], w[2]) IN At(acc, <<acc, b[i].close>>)
WadPass(b) == TotalPass(b, 0, LAMBDA v, i : <<v, b[i].close>>, LAMBDA w, i : WadRow(b, w, i))
WadStep(b, i, w) == TotalStep(i, w, LAMBDA s, j : WadRow(b, s, j))
WadResume(b, from, w) == Resumed(LAMBDA s, i : WadRow(b, s, i), w, from, Len(b))

AsiSwing(r, op, cp, t) ==
  LET n == ((r.close -- cp) ++ ((r.close -- r.open) %% 2)) ++ ((cp -- op) %% 4)
      tr1 == AbsF(r.high -- cp)
      tr2 == AbsF(r.low -- cp)
      tr3 == AbsF(r.high -- r.low)
      move == AbsF(cp -- op) %% 4
      range == CASE tr1 \succeq tr2 /\ tr1 \succeq tr3 -> (tr1 -- (tr2 %% 2)) ++ move
                 [] tr2 \succeq tr1 /\ tr2 \succeq tr3 -> (tr2 -- (tr1 %% 2)) ++ move
                 [] OTHER -> tr3 ++ move
  IN (Real(50) ** (n // range)) ** (MaxOf(tr1, tr2) // t)
AsiRow(b, t, w, i) ==
  LET acc == w[1] ++ AsiSwing(b[i], w[3], w[2], t) IN At(acc, <<acc, b[i].close, b[i].open>>)
AsiPass(b, t) == TotalPass(b, 0, LAMBDA v, i : <<v, b[i].close, b[i].open>>, LAMBDA w, i : AsiRow(b, t, w, i))
AsiResume(b, t, from, w) == Resumed(LAMBDA s, i : AsiRow(b, t, s, i), w, from, Len(b))

-----------------------------------------------------------------------------
\* The move of every row, none for the first.
EfiRaw(b) ==
  Evaluated([i \in DOMAIN b |-> IF i = 1 THEN NaN ELSE (b[i].close -- b[i - 1].close) ** b[i].volume])
EfiPass(b, n) ==
  LET e == EmaPass(EfiRaw(b), n)
  IN [i \in DOMAIN b |-> [e[i] EXCEPT !.w = IF @ = Unseeded THEN Unseeded ELSE @ \o <<b[i].close>>]]
EfiRow(b, n, w, i) ==
  LET e == Ema(n, w[1], (b[i].close -- w[2]) ** b[i].volume) IN At(e, <<e, b[i].close>>)
EfiStep(n, b, i, w) == TotalStep(i, w, LAMBDA s, j : EfiRow(b, n, s, j))
EfiResume(n, b, from, w) == Resumed(LAMBDA s, i : EfiRow(b, n, s, i), w, from, Len(b))

\* The twice smoothed move over the twice smoothed distance.
TsiMomentum(x) == Evaluated([i \in DOMAIN x |-> IF i = 1 THEN NaN ELSE x[i] -- x[i - 1]])
TsiValue(om, oa) == (Hundred ** om) // oa
TsiPass(x, long, short) ==
  LET m  == TsiMomentum(x)
      im == ValuesOf(EmaPass(m, long))
      ia == ValuesOf(EmaPass(Shown(m, AbsF), long))
      om == Evaluated(EmaPass(im, short))
      oa == Evaluated(EmaPass(ia, short))
  IN [i \in DOMAIN x |->
        At(TsiValue(om[i].v, oa[i].v),
           IF om[i].w = Unseeded \/ oa[i].w = Unseeded THEN Unseeded
           ELSE <<im[i], om[i].v, ia[i], oa[i].v, x[i]>>)]
TsiRow(long, short, x, w, i) ==
  LET move == x[i] -- w[5]
      im == Ema(long, w[1], move)
      om == Ema(short, w[2], im)
      ia == Ema(long, w[3], AbsF(move))
      oa == Ema(short, w[4], ia)
  IN At(TsiValue(om, oa), <<im, om, ia, oa, x[i]>>)
TsiStep(long, short, x, i, w) == TotalStep(i, w, LAMBDA s, j : TsiRow(long, short, x, s, j))
TsiResume(long, short, x, from, w) ==
  Resumed(LAMBDA s, i : TsiRow(long, short, x, s, i), w, from, Len(x))

\* The sum over n rows of the ratio of an average range to its own average; the
\* words keep the ratios the sum still has to drop.
MassRange(r) == r.high -- r.low
MassIndexPass(b, n, origin) ==
  LET single == EmaPass(Evaluated([i \in DOMAIN b |-> MassRange(b[i])]), 9)
      double == EmaPass(ValuesOf(single), 9)
      ratio  == Evaluated([i \in DOMAIN b |-> single[i].v // double[i].v])
      mean   == Evaluated(SmaPassWith(TRUE, ratio, n, origin))
      slide  == Evaluated(SmaCareful(TRUE, ratio, n, origin))
      start  == FirstPresent(ratio)
  IN [i \in DOMAIN b |->
        At(Scale(mean[i].v, n),
           IF i < start \/ start + n - 1 > i THEN Unseeded
           ELSE [single |-> single[i].v, double |-> double[i].v, slide |-> slide[i].w,
                 ring |-> SubSeq(ratio, i - n + 1, i)])]
MassIndexStep(n, b, i, w) ==
  LET single  == Ema(9, w.single, MassRange(b[i]))
      double  == Ema(9, w.double, single)
      ratio   == single // double
      ratios == [j \in 0 .. i |-> IF j = i THEN ratio ELSE w.ring[j + n - i + 1]]
      r == SmaRow(TRUE, n, i, ratios, w.slide)
  IN IF n = 0 \/ i <= n \/ Len(w.ring) # n THEN At(NaN, Unseeded)
     ELSE At(Scale(r.v, n), [single |-> single, double |-> double, slide |-> r.w, ring |-> PushRing(w.ring, ratio)])
MassIndexResume(n, b, from, w) ==
  IF n = 0 \/ from < n \/ Len(w.ring) # n THEN Refused
  ELSE Resumed(LAMBDA s, i : MassIndexStep(n, b, i, s), w, from, Len(b))

\* The row's distance from the middle of a window, and half its range, each
\* smoothed twice by stages that seed themselves.
SmiInputs(b, k, i) ==
  LET Extremum(field, Pick(_, _)) ==
        Folded(LAMBDA best, j : Pick(best, b[j][field]), b[i + 1 - k][field], i + 2 - k, i)
      hh == Extremum("high", MaxOf)
      ll == Extremum("low", MinOf)
  IN IF i < k THEN <<NaN, NaN>> ELSE <<b[i].close -- ((hh ++ ll) %% 2), hh -- ll>>
SmiValue(num, den) == (num // (den %% 2)) ** Hundred
SmiPass(b, k, d, signal) ==
  LET hh == Hhv(Column(b, "high"), k)
      ll == Llv(Column(b, "low"), k)
      Stage(x, p) == Evaluated(RecursiveStagePass("ema", x, p))
      n1 == Stage([i \in DOMAIN b |-> b[i].close -- ((hh[i] ++ ll[i]) %% 2)], d)
      n2 == Stage(ValuesOf(n1), d)
      d1 == Stage([i \in DOMAIN b |-> hh[i] -- ll[i]], d)
      d2 == Stage(ValuesOf(d1), d)
      line == Evaluated([i \in DOMAIN b |-> SmiValue(n2[i].v, d2[i].v)])
      s  == Stage(line, signal)
      Own(i) == <<n1[i].w, n2[i].w, d1[i].w, d2[i].w>>
  IN [i \in DOMAIN b |-> IF signal = 0 THEN At(line[i], Own(i)) ELSE At(s[i].v, Own(i) \o <<s[i].w>>)]
SmiRow(b, k, d, signal, i, w) ==
  LET in == SmiInputs(b, k, i)
      n1 == RecursiveStep("ema", d, in[1], w[1])
      n2 == RecursiveStep("ema", d, n1.v, w[2])
      d1 == RecursiveStep("ema", d, in[2], w[3])
      d2 == RecursiveStep("ema", d, d1.v, w[4])
      line == SmiValue(n2.v, d2.v)
      s  == RecursiveStep("ema", signal, line, w[5])
      own == <<n1.w, n2.w, d1.w, d2.w>>
  IN IF signal = 0 THEN At(line, own) ELSE At(s.v, own \o <<s.w>>)
SmiResume(k, d, signal, b, from, w) ==
  Resumed(LAMBDA s, i : SmiRow(b, k, d, signal, i, s), w, from, Len(b))

-----------------------------------------------------------------------------
\* The mean of an RSI of the close, an RSI of the run of rises and falls, and the
\* share of the last returns below this one.
StreakNext(prior, current, streak) ==
  CASE prior \prec current -> IF 0 \prec streak THEN streak ++ One ELSE One
    [] current \prec prior -> IF streak \prec 0 THEN streak -- One ELSE Neg(One)
    [] OTHER -> 0
StreakOf(x) == Scan(0, 1, Len(x), LAMBDA s, i : StreakNext(x[i - 1], x[i], s))
PercentRank(x, rank, i) ==
  LET Roc(j) == ((x[j] // x[j - 1]) -- One) ** Hundred
      below == SumOf(LAMBDA j : IF Roc(j) \prec Roc(i) THEN One ELSE 0, i - rank, i - 1)
  IN (below %% rank) ** Hundred
CrsiPass(x, rp, sp, rank) ==
  LET n == Len(x)
      streak == Evaluated(StreakOf(x))
      price == ValuesOf(RsiPass(x, rp))
      run   == ValuesOf(RsiPass(streak, sp))
      pairs == RsiPair(x, rp, streak, sp)
      Seeded(i) == i > rp /\ i > sp /\ i > rank + 1
  IN [i \in 1 .. n |->
        At(IF i <= rank + 1 THEN NaN ELSE ((price[i] ++ run[i]) ++ PercentRank(x, rank, i)) %% 3,
           IF Seeded(i) THEN <<pairs[i][1], pairs[i][2], streak[i]>> ELSE Unseeded)]
CrsiStep(rp, sp, rank, x, i, w) ==
  LET streak == StreakNext(x[i - 1], x[i], w[3])
      price  == RsiStep(rp, x, i, w[1])
      run    == RsiStep(sp, <<w[3], streak>>, 2, w[2])
  IN IF i <= rank + 1 THEN At(NaN, Unseeded)
     ELSE At(((price.v ++ run.v) ++ PercentRank(x, rank, i)) %% 3, <<price.w, run.w, streak>>)
CrsiResume(rp, sp, rank, x, from, w) ==
  IF from <= rank THEN Refused
  ELSE Resumed(LAMBDA s, i : CrsiStep(rp, sp, rank, x, i, s), w, from, Len(x))

-----------------------------------------------------------------------------
\* A band around an average, or its width, by multiples of the true range.
KeltnerValue(name, mult, ema, atr) ==
  CASE name = "keltner.upper" -> ema ++ (mult ** atr)
    [] name = "keltner.lower" -> ema -- (mult ** atr)
    [] name = "kcw" -> IF ema # 0 THEN ((Real(2) ** mult) ** atr) // ema ELSE NaN
KeltnerPass(name, b, emaPeriod, atrPeriod, mult) ==
  LET ema == Evaluated(EmaPass(Column(b, "close"), emaPeriod))
      atr == Evaluated(AtrPass(b, atrPeriod))
  IN [i \in DOMAIN b |->
        At(KeltnerValue(name, mult, ema[i].v, atr[i].v),
           IF ema[i].w = Unseeded \/ atr[i].w = Unseeded THEN Unseeded ELSE <<ema[i].w, atr[i].w>>)]
KeltnerStep(name, emaPeriod, atrPeriod, mult, b, i, w) ==
  LET atr == AtrStep(atrPeriod, b, i, w[2])
      ema == EmaStep(emaPeriod, Column(b, "close"), i, w[1])
  IN IF atr.w = Unseeded THEN At(NaN, Unseeded)
     ELSE At(KeltnerValue(name, mult, ema.v, atr.v), <<ema.w, atr.w>>)
KeltnerResume(name, emaPeriod, atrPeriod, mult, b, from, w) ==
  IF from = 0 THEN Refused
  ELSE Resumed(LAMBDA s, i : KeltnerStep(name, emaPeriod, atrPeriod, mult, b, i, s), w, from, Len(b))

\* A stop that only tightens until the close crosses it: the trend, both stops,
\* the close before and the true range.
SupertrendNext(r, atr, mult, w) ==
  LET middle == (r.high ++ r.low) %% 2
      bu == middle ++ (mult ** atr)
      bl == middle -- (mult ** atr)
      fu == IF bu \prec w.fu \/ w.close \succ w.fu THEN bu ELSE w.fu
      fl == IF bl \succ w.fl \/ w.close \prec w.fl THEN bl ELSE w.fl
      trend == CASE w.trend < 0 -> IF r.close \succ fu THEN 1 ELSE -1
                 [] OTHER -> IF r.close \prec fl THEN -1 ELSE 1
  IN [trend |-> trend, fu |-> fu, fl |-> fl, close |-> r.close]
SupertrendOut(direction, s) ==
  IF direction THEN Real(s.trend) ELSE IF s.trend > 0 THEN s.fl ELSE s.fu
SupertrendPass(b, period, mult, direction) ==
  LET atr  == Evaluated(AtrPass(b, period))
      seed == period + 1
      middle == (b[seed].high ++ b[seed].low) %% 2
      first == [trend |-> -1, fu |-> middle ++ (mult ** atr[seed].v),
                fl |-> middle -- (mult ** atr[seed].v), close |-> b[seed].close]
      s == Scan(first, seed, Len(b), LAMBDA w, i : SupertrendNext(b[i], atr[i].v, mult, w))
  IN IF period >= Len(b) \/ period = 0 THEN Unshown(Len(b))
     ELSE [i \in DOMAIN b |-> IF i < seed THEN At(NaN, Unseeded)
                              ELSE At(SupertrendOut(direction, s[i]), <<s[i], atr[i].w>>)]
SupertrendStep(period, mult, direction, b, i, w) ==
  LET atr == AtrStep(period, b, i, w[2])
      s == SupertrendNext(b[i], atr.v, mult, w[1])
  IN IF atr.w = Unseeded THEN At(NaN, Unseeded) ELSE At(SupertrendOut(direction, s), <<s, atr.w>>)
SupertrendResume(period, mult, direction, b, from, w) ==
  IF from = 0 THEN Refused
  ELSE Resumed(LAMBDA s, i : SupertrendStep(period, mult, direction, b, i, s), w, from, Len(b))

=============================================================================
