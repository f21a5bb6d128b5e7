-------------------------- MODULE DirectionalMoves --------------------------
(***************************************************************************)
(* True range and its average, Wilder's directional movement family and    *)
(* the parabolic stop.  Rows of a bar series b are records; a pass starts  *)
(* its sums at the second row, so a step refuses the first.                *)
(***************************************************************************)
EXTENDS MovingAverages

\* The larger of the range and the two distances from the previous close; each
\* replaces the one before only when it is greater.
TrValue(h, l, previous) ==
  LET range == h -- l
      highGap == AbsF(previous -- h)
      first == IF highGap \succ range THEN highGap ELSE range
      lowGap == AbsF(previous -- l)
  IN IF lowGap \succ first THEN lowGap ELSE first
TrAt(b, i) ==
  Term(<<b[i].high, b[i].low, b[i - 1].close>>, TrValue(b[i].high, b[i].low, b[i - 1].close))
Tr(b) == [i \in 1 .. Len(b) |-> IF i = 1 THEN NaN ELSE TrAt(b, i)]

AtrPass(b, period) ==
  LET seed == period + 1
      Range(i) == TrAt(b, i)
      atr == Scan(SumOf(Range, 2, seed) %% period, seed, Len(b), LAMBDA prev, i : Wilder(period, prev, TrAt(b, i)))
  IN IF period = 0 \/ period >= Len(b) THEN Unshown(Len(b))
     ELSE [i \in 1 .. Len(b) |-> IF i < seed THEN At(NaN, Unseeded)
                                 ELSE IF period = 1 THEN At(TrAt(b, i), <<TrAt(b, i)>>) ELSE At(atr[i], <<atr[i]>>)]
AtrStep(period, b, i, w) ==
  IF i = 1 THEN At(NaN, Unseeded) ELSE LET a == Wilder(period, w[1], TrAt(b, i)) IN At(a, <<a>>)
AtrResume(period, b, from, w) ==
  IF from = 0 THEN Refused ELSE Resumed(LAMBDA a, i : AtrStep(period, b, i, a), w, from, Len(b))
NatrValue(atr, close) == IF close = 0 /\ atr # NaN THEN 0 ELSE (atr // close) ** Real(100)
NatrPass(b, period) ==
  LET atr == AtrPass(b, period) IN [i \in DOMAIN atr |-> [atr[i] EXCEPT !.v = NatrValue(@, b[i].close)]]
NatrResume(period, b, from, w) ==
  LET atr == AtrResume(period, b, from, w)
  IN [j \in DOMAIN atr |-> [atr[j] EXCEPT !.v = NatrValue(@, b[from + j].close)]]

-----------------------------------------------------------------------------
\* Directional movement of row i: how far it went beyond the row before.
Dm1(b, i) ==
  LET up   == b[i].high -- b[i - 1].high
      down == b[i - 1].low -- b[i].low
  IN [plus  |-> IF up \succ 0 /\ up \succ down THEN up ELSE 0,
      minus |-> IF down \succ 0 /\ up \prec down THEN down ELSE 0]

\* A Wilder sum is seeded with the plain sum of its first terms.
WilderSeedBar(period) == IF period > 1 THEN period - 1 ELSE 1
WilderSumPass(n, period, terms) ==
  LET seed == WilderSeedBar(period) + 1
      s == Scan(SumOf(LAMBDA i : terms[i], 2, seed), seed, n, LAMBDA prev, i : WilderSum(prev, period, terms[i]))
  IN IF period = 0 \/ seed > n THEN Unshown(n)
     ELSE [i \in 1 .. n |-> IF i < seed THEN At(NaN, Unseeded) ELSE At(s[i], <<s[i]>>)]
WilderSumResume(n, period, from, w, terms) ==
  Resumed(LAMBDA s, i : LET v == WilderSum(s[1], period, terms[i]) IN At(v, <<v>>), w, from, n)
PlusDms(b) == [i \in DOMAIN b |-> Dm1(b, i).plus]
MinusDms(b) == [i \in DOMAIN b |-> Dm1(b, i).minus]
PlusDmPass(b, period) == WilderSumPass(Len(b), period, PlusDms(b))
MinusDmPass(b, period) == WilderSumPass(Len(b), period, MinusDms(b))
PlusDmResume(period, b, from, w) ==
  IF from = 0 THEN Refused ELSE WilderSumResume(Len(b), period, from, w, PlusDms(b))
MinusDmResume(period, b, from, w) ==
  IF from = 0 THEN Refused ELSE WilderSumResume(Len(b), period, from, w, MinusDms(b))
PlusDmStep(period, b, i, w) ==
  IF i = 1 THEN At(NaN, Unseeded) ELSE LET s == WilderSum(w[1], period, Dm1(b, i).plus) IN At(s, <<s>>)
MinusDmStep(period, b, i, w) ==
  IF i = 1 THEN At(NaN, Unseeded) ELSE LET s == WilderSum(w[1], period, Dm1(b, i).minus) IN At(s, <<s>>)

\* The smoothed plus and minus movement and true range, from row period + 1 on.
DmTrStep(b, period, i, s) ==
  <<WilderSum(s[1], period, Dm1(b, i).plus), WilderSum(s[2], period, Dm1(b, i).minus),
    WilderSum(s[3], period, TrAt(b, i))>>
DmTrSums(b, period) ==
  LET Seed == <<SumOf(LAMBDA i : Dm1(b, i).plus, 2, period), SumOf(LAMBDA i : Dm1(b, i).minus, 2, period),
                SumOf(LAMBDA i : TrAt(b, i), 2, period)>>
      s == Scan(Seed, period, Len(b), LAMBDA prev, i : DmTrStep(b, period, i, prev))
  IN IF period = 0 \/ period >= Len(b) THEN [i \in 1 .. Len(b) |-> Unseeded]
     ELSE Evaluated([i \in 1 .. Len(b) |-> IF i <= period THEN Unseeded ELSE s[i]])
DiVal(dm, tr, period) ==
  IF (period = 1 /\ dm = 0) \/ tr = 0 THEN 0 ELSE Real(100) ** (dm // tr)
Absent == << >>          \* no index: the sums it divides by are zero
DxVal(s) ==
  LET minus == Real(100) ** (s[2] // s[3])
      plus  == Real(100) ** (s[1] // s[3])
  IN IF s[3] = 0 \/ minus ++ plus = 0 THEN Absent ELSE <<Real(100) ** (AbsF(minus -- plus) // (minus ++ plus))>>
DxOut(prev, s) == LET d == DxVal(s) IN IF d = Absent THEN prev ELSE d[1]
AdxNext(adx, period, dx) == IF dx = Absent THEN adx ELSE Wilder(period, adx, dx[1])

DiPass(b, period, side) ==
  LET s == DmTrSums(b, period)
  IN [i \in DOMAIN s |-> IF s[i] = Unseeded THEN At(NaN, Unseeded)
                         ELSE At(DiVal(s[i][side], s[i][3], period), <<s[i][side], s[i][3]>>)]
PlusDiPass(b, period) == DiPass(b, period, 1)
MinusDiPass(b, period) == DiPass(b, period, 2)
PlusDiStep(period, b, i, w) ==
  LET s == DmTrStep(b, period, i, <<w[1], 0, w[2]>>)
  IN IF i = 1 \/ Len(w) # 2 THEN At(NaN, Unseeded) ELSE At(DiVal(s[1], s[3], period), <<s[1], s[3]>>)
MinusDiStep(period, b, i, w) ==
  LET s == DmTrStep(b, period, i, <<0, w[1], w[2]>>)
  IN IF i = 1 \/ Len(w) # 2 THEN At(NaN, Unseeded) ELSE At(DiVal(s[2], s[3], period), <<s[2], s[3]>>)
PlusDiResume(period, b, from, w) ==
  IF from = 0 THEN Refused ELSE Resumed(LAMBDA s, i : PlusDiStep(period, b, i, s), w, from, Len(b))
MinusDiResume(period, b, from, w) ==
  IF from = 0 THEN Refused ELSE Resumed(LAMBDA s, i : MinusDiStep(period, b, i, s), w, from, Len(b))

DxPass(b, period) ==
  LET s == DmTrSums(b, period)
      d == Scan(0, period, Len(b), LAMBDA prev, i : DxOut(prev, s[i]))
  IN [i \in DOMAIN s |-> IF s[i] = Unseeded THEN At(NaN, Unseeded) ELSE At(d[i], s[i] \o <<d[i]>>)]
DxStep(period, b, i, w) ==
  LET s == DmTrStep(b, period, i, w)
      d == DxOut(w[4], s)
  IN IF i = 1 \/ Len(w) # 4 THEN At(NaN, Unseeded) ELSE At(d, s \o <<d>>)
DxResume(period, b, from, w) ==
  IF from = 0 THEN Refused ELSE Resumed(LAMBDA s, i : DxStep(period, b, i, s), w, from, Len(b))

\* The average of DX: the mean of its first period values, then Wilder's.
AdxPass(b, period) ==
  LET s == DmTrSums(b, period)
      first == 2 * period
      Present(i) == LET d == DxVal(s[i]) IN IF d = Absent THEN 0 ELSE d[1]
      adx == Scan(SumOf(Present, period + 1, first) %% period, first, Len(b),
                  LAMBDA prev, i : AdxNext(prev, period, DxVal(s[i])))
  IN [i \in DOMAIN s |-> IF s[i] = Unseeded \/ i < first THEN At(NaN, Unseeded) ELSE At(adx[i], s[i] \o <<adx[i]>>)]
AdxStep(period, b, i, w) ==
  LET s == DmTrStep(b, period, i, w)
      adx == AdxNext(w[4], period, DxVal(s))
  IN IF i = 1 \/ Len(w) # 4 THEN At(NaN, Unseeded) ELSE At(adx, s \o <<adx>>)
AdxResume(period, b, from, w) ==
  IF from = 0 THEN Refused ELSE Resumed(LAMBDA s, i : AdxStep(period, b, i, s), w, from, Len(b))

\* ADXR reads the ADX of period - 1 rows ago: it carries the last period of them.
AdxrPass(b, period) ==
  LET a == Evaluated(AdxPass(b, period))
      Window(i) == [k \in 1 .. period |-> a[i - period + k].v]
      s == DmTrSums(b, period)
  IN [i \in DOMAIN a |-> IF period = 0 \/ i < 3 * period - 1 THEN At(NaN, Unseeded)
        ELSE At((a[i].v ++ a[i - period + 1].v) %% 2, s[i] \o Window(i))]
AdxrStep(period, b, i, w) ==
  LET s == DmTrStep(b, period, i, w)
      adx == AdxNext(w[3 + period], period, DxVal(s))
      ring == PushRing(SubSeq(w, 4, 3 + period), adx)
  IN IF i = 1 \/ Len(w) # 3 + period THEN At(NaN, Unseeded) ELSE At((adx ++ ring[1]) %% 2, s \o ring)
AdxrResume(period, b, from, w) ==
  IF from = 0 THEN Refused ELSE Resumed(LAMBDA s, i : AdxrStep(period, b, i, s), w, from, Len(b))

-----------------------------------------------------------------------------
\* The parabolic stop: one side, an acceleration, the extreme point, the stop and
\* the last row's range, which the stop may not enter.
SarStartsLong(b) ==
  LET up == b[2].high -- b[1].high
      down == b[1].low -- b[2].low
  IN ~(down \succ 0 /\ up \prec down)
SarLimit(stop, previous, current, long) ==
  LET Beyond(s, limit) == IF long THEN s \succ limit ELSE s \prec limit
      first == IF Beyond(stop, previous) THEN previous ELSE stop
  IN IF Beyond(first, current) THEN current ELSE first

\* p holds, per side, the first acceleration, its increment and its cap, and what
\* a reversal is offset by; `signed` shows the short side below zero (SAREXT).
OnSide(af, side, v) == [long |-> IF side = "long" THEN v ELSE af.long, short |-> IF side = "long" THEN af.short ELSE v]
SarMove(s, high, low, p, signed) ==
  LET side == IF s.long THEN "long" ELSE "short"
      other == IF s.long THEN "short" ELSE "long"
      turned == IF s.long THEN low \preceq s.sar ELSE high \succeq s.sar
      Inside(stop, long) ==
        SarLimit(stop, IF long THEN s.low ELSE s.high, IF long THEN low ELSE high, long)
      Toward(sar, af, ep) == sar ++ (af ** (ep -- sar))
      reached == Inside(s.ep, ~s.long)
      offset == reached ** p.offset
      stop == IF p.offset = 0 THEN reached ELSE IF s.long THEN reached ++ offset ELSE reached -- offset
      newEp == IF s.long THEN low ELSE high
      further == IF s.long THEN high \succ s.ep ELSE low \prec s.ep
      ep == IF further THEN (IF s.long THEN high ELSE low) ELSE s.ep
      af == IF further THEN MinOf(s.af[side] ++ p.step[side], p.cap[side]) ELSE s.af[side]
      Signed(v, long) == IF signed /\ ~long THEN Neg(v) ELSE v
  IN IF turned
     THEN At(Signed(stop, ~s.long),
             [long |-> ~s.long, af |-> OnSide(s.af, other, p.first[other]), ep |-> newEp,
              sar |-> Inside(Toward(stop, p.first[other], newEp), ~s.long), high |-> high, low |-> low])
     ELSE At(Signed(s.sar, s.long),
             [long |-> s.long, af |-> OnSide(s.af, side, af), ep |-> ep,
              sar |-> Inside(Toward(s.sar, af, ep), s.long), high |-> high, low |-> low])

BothSides(v) == [long |-> v, short |-> v]
SarParams(acceleration, maximum) ==
  LET af == BothSides(MinOf(acceleration, maximum))
  IN [first |-> af, step |-> af, cap |-> BothSides(maximum), offset |-> 0]
SarextParams(offset, first, step, cap) ==
  LET Capped(f) == [long |-> MinOf(f.long, cap.long), short |-> MinOf(f.short, cap.short)]
  IN [first |-> Capped(first), step |-> Capped(step), cap |-> cap, offset |-> offset]
SarSeed(b, p) ==
  LET long == SarStartsLong(b)
  IN [long |-> long, af |-> p.first, ep |-> IF long THEN b[2].high ELSE b[2].low,
      sar |-> IF long THEN b[1].low ELSE b[1].high, high |-> b[2].high, low |-> b[2].low]
SarextSeed(b, start, p) ==
  IF start = 0 THEN SarSeed(b, p)
  ELSE [SarSeed(b, p) EXCEPT !.long = start > 0, !.sar = AbsF(start),
                             !.ep = IF start > 0 THEN b[2].high ELSE b[2].low]
SarRows(b, p, seed, signed) ==
  LET Row(s, i) == SarMove(s, b[i].high, b[i].low, p, signed)
  IN <<At(NaN, Unseeded)>> \o Resumed(Row, seed, 1, Len(b))
SarPass(b, acceleration, maximum) ==
  LET p == SarParams(acceleration, maximum)
  IN IF Len(b) < 2 THEN Unshown(Len(b)) ELSE SarRows(b, p, SarSeed(b, p), FALSE)
SarextPass(b, start, p) ==
  IF Len(b) < 2 THEN Unshown(Len(b)) ELSE SarRows(b, p, SarextSeed(b, start, p), TRUE)
SarStep(acceleration, maximum, b, i, w) ==
  IF i <= 2 THEN At(NaN, Unseeded)
  ELSE SarMove(w, b[i].high, b[i].low, SarParams(acceleration, maximum), FALSE)
SarextStep(p, b, i, w) == IF i <= 2 THEN At(NaN, Unseeded) ELSE SarMove(w, b[i].high, b[i].low, p, TRUE)
SarResume(acceleration, maximum, b, from, w) ==
  IF from < 2 THEN Refused ELSE Resumed(LAMBDA s, i : SarStep(acceleration, maximum, b, i, s), w, from, Len(b))
SarextResume(p, b, from, w) ==
  IF from < 2 THEN Refused ELSE Resumed(LAMBDA s, i : SarextStep(p, b, i, s), w, from, Len(b))

=============================================================================
