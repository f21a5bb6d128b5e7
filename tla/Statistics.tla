----------------------------- MODULE Statistics -----------------------------
(***************************************************************************)
(* Moments and fits of a sliding window: variance, correlation, beta and   *)
(* the regression line.  Second moments are sums of terms taken around the *)
(* value of the window's anchor row, so that they cancel little; a sum     *)
(* that may have lost bits is taken over the window's rows again.  Then    *)
(* support and resistance levels, which carry nothing: of the bar before   *)
(* (CDP, pivot points), of the window's extremes (MIKE, Ichimoku), and the *)
(* squeeze of one band inside another.                                     *)
(***************************************************************************)
EXTENDS Oscillators, DirectionalMoves

\* The terms of row j around row k are raw[<<j, k>>].
ShiftedBy(raw, n, k) == [j \in 1 .. n |-> raw[j, k]]
\* The loop that trusts its sums, around the anchor row k of the window.
ShiftedSums(n, period, terms, order, raw, origin) ==
  LET Moved(sums, new, enter) ==
        Evaluated([t \in DOMAIN sums |-> IF enter THEN sums[t] ++ new[t] ELSE sums[t] -- new[t]])
      Row(s, i) ==
        LET anchor == AnchorsAt(origin + i - 1, period)
            k      == IF anchor THEN i ELSE s.k
            left   == IF order # "AddReadDrop" /\ i > period THEN Moved(s.sums, raw[i - period, k], FALSE) ELSE s.sums
            held   == Moved(left, raw[i, k], TRUE)
            resum  == anchor \/ (i >= period /\ ~IsExact(held))
            clean  == s.clean /\ (resum => Finite(held))
            read   == IF resum /\ clean THEN OfRows(ShiftedBy(raw, n, k), terms, IF i < period THEN 1 ELSE i + 1 - period, i) ELSE held
        IN [k |-> k, clean |-> clean, read |-> read,
            sums |-> IF order = "AddReadDrop" /\ i >= period THEN Moved(read, raw[i + 1 - period, k], FALSE) ELSE read]
      start == [k |-> 1, clean |-> TRUE, read |-> Zeros(terms), sums |-> Zeros(terms)]
      s == Scan(start, 0, n, Row)
  IN [rows |-> s, clean |-> s[n].clean /\ Finite(s[n].sums)]
\* A row of a shifted slide; a window with a missing row is summed on its own.
ShiftedRow(w, order, period, i, n, terms, raw) ==
  LET k == ShiftRow(i, w.pos, period)
      own == ShiftedBy(raw, n, k)
      term == [j \in 1 .. n |-> [of |-> own[j], finite |-> ~AnyOf(raw[j, j])]]
      r == Slide(w, order, period, i, TRUE, term)
  IN At(CASE r.window = "Partial" -> NaN
          [] r.window = "Sums" -> [k |-> k, sums |-> r.sums]
          [] OTHER -> [k |-> k, sums |-> OwnSums(own, terms, i + 1 - period, i)], r.slide)
\* The words are kept from the row `recorded` on.
ShiftedPass(n, period, terms, order, origin, recorded, raw) ==
  LET fast == ShiftedSums(n, period, terms, order, raw, origin)
      Row(w, i) == ShiftedRow(w, order, period, i, n, terms, raw)
      careful == Evaluated(Run(Row, SlideAt(terms, origin), n))
      Trusted(i) == At(IF i < period THEN NaN ELSE [k |-> fast.rows[i].k, sums |-> fast.rows[i].read],
                       [sums |-> fast.rows[i].sums, bad |-> 0, pos |-> origin + i])
      Recorded(i, r) == IF i < recorded THEN At(r.v, Unseeded) ELSE r
  IN IF period = 0 \/ period > n THEN Unshown(n)
     ELSE IF fast.clean THEN Evaluated([i \in 1 .. n |-> Recorded(i, Trusted(i))])
     ELSE Evaluated([i \in 1 .. n |-> Recorded(i, careful[i])])

\* The centred moment of p rows from sums around ka and kb.
Deviation(sum, p, k) == sum -- Scale(k, p)
Centred(p, sa, ka, sb, kb, dd) == dd -- ((Deviation(sa, p, ka) ** Deviation(sb, p, kb)) %% p)

-----------------------------------------------------------------------------
VarTerms(x) == [j, k \in DOMAIN x |-> LET d == x[j] -- x[k] IN <<x[j], d ** d>>]
VarOfSums(s, x, p) == LET k == x[s.k] IN Centred(p, s.sums[1], k, s.sums[1], k, s.sums[2]) %% p
VarShown(name, v, nbdev) ==
  CASE name = "var" \/ v = NaN -> v [] 0 \prec v -> Scale(SqrtF(v), nbdev) [] OTHER -> 0
VarPass(name, x, period, nbdev, origin) ==
  ReadAll(ShiftedPass(Len(x), period, 2, "AddReadDrop", origin, period, VarTerms(x)),
          LAMBDA s : VarShown(name, VarOfSums(s, x, period), nbdev))
VarStep(name, period, nbdev, x, i, w) ==
  Read(ShiftedRow(w, "AddReadDrop", period, i, Len(x), 2, VarTerms(x)),
       LAMBDA s : VarShown(name, VarOfSums(s, x, period), nbdev))

CorrelTerms(x, y) ==
  [j, k \in DOMAIN x |-> LET dx == x[j] -- x[k]
                             dy == y[j] -- y[k]
                         IN <<x[j], y[j], dx ** dx, dy ** dy, dx ** dy>>]
Clamped(v) == CASE One \prec v -> One [] v \prec Neg(One) -> Neg(One) [] OTHER -> v
CorrelOfSums(r, x, y, p) ==
  LET s   == r.sums
      kx  == x[r.k]
      ky  == y[r.k]
      cxx == Centred(p, s[1], kx, s[1], kx, s[3])
      cyy == Centred(p, s[2], ky, s[2], ky, s[4])
      cxy == Centred(p, s[1], kx, s[2], ky, s[5])
  IN IF cxx \preceq 0 \/ cyy \preceq 0 THEN 0 ELSE Clamped(cxy // (SqrtF(cxx) ** SqrtF(cyy)))
CorrelPass(x, y, period, origin) ==
  ReadAll(ShiftedPass(Len(x), period, 5, "DropAdd", origin, 1, CorrelTerms(x, y)),
          LAMBDA s : CorrelOfSums(s, x, y, period))
CorrelStep(period, x, y, i, w) ==
  Read(ShiftedRow(w, "DropAdd", period, i, Len(x), 5, CorrelTerms(x, y)),
       LAMBDA s : CorrelOfSums(s, x, y, period))

\* Beta slides over the returns: return j is that of row j + 1.
BetaReturn(x, j) == IF x[j] = 0 THEN 0 ELSE (x[j + 1] -- x[j]) // x[j]
BetaTerms(x, y) ==
  [j, k \in DOMAIN x |-> LET dx == BetaReturn(x, j) -- BetaReturn(x, k)
                             dy == BetaReturn(y, j) -- BetaReturn(y, k)
                         IN <<BetaReturn(x, j), BetaReturn(y, j), dx ** dx, dx ** dy>>]
BetaOfSums(r, x, y, p) ==
  LET s   == r.sums
      kx  == BetaReturn(x, r.k)
      ky  == BetaReturn(y, r.k)
      cxx == Centred(p, s[1], kx, s[1], kx, s[3])
  IN IF cxx \preceq 0 THEN 0 ELSE Centred(p, s[1], kx, s[2], ky, s[4]) // cxx
BetaPass(x, y, period, origin) ==
  LET run == ReadAll(ShiftedPass(Len(x) - 1, period, 4, "AddReadDrop", origin, period, BetaTerms(x, y)),
                     LAMBDA s : BetaOfSums(s, x, y, period))
  IN IF period + 1 > Len(x) \/ period = 0 THEN Unshown(Len(x)) ELSE Unshown(1) \o run
BetaStep(period, x, y, i, w) ==
  IF i = 1 THEN At(NaN, w)
  ELSE Read(ShiftedRow(w, "AddReadDrop", period, i - 1, Len(x) - 1, 4, BetaTerms(x, y)),
            LAMBDA s : BetaOfSums(s, x, y, period))

-----------------------------------------------------------------------------
\* The line fitted to a window: its slope m and its intercept b at the oldest row.
\* The newest row has age 0; sums are those of the values and of age * value.
SumOfAges(p) == (p * (p - 1)) \div 2
Divisor(p) == (SumOfAges(p) * SumOfAges(p)) - (p * (((p * (p - 1)) * ((2 * p) - 1)) \div 6))
LinregFit(p, k, sums) ==
  LET dy == Deviation(sums[1], p, k)
      m  == (Scale(Deviation(sums[2], SumOfAges(p), k), p) -- Scale(dy, SumOfAges(p))) %% Divisor(p)
  IN IF p = 1 THEN <<NaN, NaN>> ELSE <<m, k ++ ((dy -- Scale(m, SumOfAges(p))) %% p)>>
LinregProject(line, p, fit) ==
  CASE line = "linearreg" -> fit[2] ++ Scale(fit[1], p - 1)
    [] line = "linearreg_slope" -> fit[1]
    [] line = "linearreg_intercept" -> fit[2]
    [] line = "linearreg_angle" -> AtanF(fit[1]) ** Real(57)
    [] line = "tsf" -> fit[2] ++ Scale(fit[1], p)

\* Every row ages by one as the window moves on; entering and leaving hold the value
\* of the row, or nothing.
LinregSlide(sums, p, entering, leaving) ==
  LET Total(values) == IF values = << >> THEN 0 ELSE values[1]
  IN <<(sums[1] ++ Total(entering)) -- Total(leaving), (sums[2] ++ sums[1]) -- Scale(Total(leaving), p)>>
\* A guarded sum leaves the missing rows out.
LinregSums(x, first, last, guarded) ==
  LET Add(s, j) == IF guarded => ~IsMissing(x[j]) THEN <<s[1] ++ x[j], s[2] ++ Scale(x[j], last - j)>> ELSE s
  IN Folded(Add, <<0, 0>>, first, last)

LinregRow(line, period, x, i, w) ==
  LET present(v) == ~IsMissing(v)
      bad  == (w.bad + (IF present(x[i]) THEN 0 ELSE 1)) - (IF w.seen >= period /\ ~present(x[i - period]) THEN 1 ELSE 0)
      slid == LinregSlide(w.sums, period, IF present(x[i]) THEN <<x[i]>> ELSE << >>,
                          IF w.seen >= period /\ present(x[i - period]) THEN <<x[i - period]>> ELSE << >>)
      full == w.seen + 1 >= period
      sums == IF full /\ ~IsExact(slid) THEN LinregSums(x, i + 1 - period, i, TRUE) ELSE slid
      k    == x[ShiftRow(i, w.pos, period)]
      fit  == IF bad = 0 THEN LinregFit(period, k, sums) ELSE <<NaN, NaN>>
  IN At(IF full THEN LinregProject(line, period, fit) ELSE NaN,
        [sums |-> sums, bad |-> bad, seen |-> IF w.seen < period THEN w.seen + 1 ELSE period, pos |-> w.pos + 1])
LinregStep(line, period, x, i, w) ==
  IF ~HoldsWindow(i, w.seen, period) THEN At(NaN, Unseeded) ELSE LinregRow(line, period, x, i, w)

LinregFast(line, x, period, origin) ==
  LET n == Len(x)
      Row(s, i) ==
        LET slid  == LinregSlide(s.sums, period, <<x[i]>>, IF i > period THEN <<x[i - period]>> ELSE << >>)
            resum == i >= period /\ ~IsExact(slid)
            clean == s.clean /\ (resum => Finite(slid))
        IN [k |-> IF AnchorsAt(origin + i - 1, period) THEN x[i] ELSE s.k, clean |-> clean,
            sums |-> IF resum /\ clean THEN LinregSums(x, i + 1 - period, i, FALSE) ELSE slid]
      s == Scan([k |-> x[1], clean |-> TRUE, sums |-> <<0, 0>>], 0, n, Row)
  IN [run |-> [i \in 1 .. n |->
                 At(IF i < period THEN NaN ELSE LinregProject(line, period, LinregFit(period, s[i].k, s[i].sums)),
                    [sums |-> s[i].sums, bad |-> 0, seen |-> IF i < period THEN i ELSE period, pos |-> origin + i])],
      clean |-> s[n].clean /\ Finite(s[n].sums)]
LinregPass(line, x, period, origin) ==
  LET fast == LinregFast(line, x, period, origin)
      start == [sums |-> <<0, 0>>, bad |-> 0, seen |-> 0, pos |-> origin]
  IN IF period = 0 \/ period > Len(x) THEN Unshown(Len(x))
     ELSE IF fast.clean THEN Evaluated(fast.run)
     ELSE Run(LAMBDA w, i : LinregRow(line, period, x, i, w), start, Len(x))

-----------------------------------------------------------------------------
\* A level of every bar, of[i], shown at the bar after it.
PriorLevels(b, of) ==
  MapTerms(Len(b), 1, FALSE, [i \in DOMAIN b |-> <<b[i - 1].high, b[i - 1].low, b[i - 1].close>>],
           [i \in DOMAIN b |-> of[i - 1]])
Cdp(b, line) ==
  LET Base(r) == ((r.high ++ r.low) ++ Scale(r.close, 2)) %% 4
      Of(r) == CASE line = "cdp"    -> Base(r)
                 [] line = "cdp.ah" -> Base(r) ++ (r.high -- r.low)
                 [] line = "cdp.nh" -> Scale(Base(r), 2) -- r.low
                 [] line = "cdp.nl" -> Scale(Base(r), 2) -- r.high
                 [] line = "cdp.al" -> Base(r) -- (r.high -- r.low)
  IN PriorLevels(b, [i \in DOMAIN b |-> Of(b[i])])
PivotPoints(b, line) ==
  LET Base(r) == ((r.high ++ r.low) ++ r.close) %% 3
      Of(r) == CASE line = "pivot_points"    -> Base(r)
                 [] line = "pivot_points.r1" -> Scale(Base(r), 2) -- r.low
                 [] line = "pivot_points.s1" -> Scale(Base(r), 2) -- r.high
                 [] line = "pivot_points.r2" -> Base(r) ++ (r.high -- r.low)
                 [] line = "pivot_points.s2" -> Base(r) -- (r.high -- r.low)
                 [] line = "pivot_points.r3" -> r.high ++ Scale(Base(r) -- r.low, 2)
                 [] line = "pivot_points.s3" -> r.low -- Scale(r.high -- Base(r), 2)
  IN PriorLevels(b, [i \in DOMAIN b |-> Of(b[i])])

-----------------------------------------------------------------------------
\* The strong lines read the extremes alone, the others the bar's price as well.
MikeValue(typ, hi, lo, line) ==
  CASE line = "mike.weakr"   -> typ ++ (typ -- lo)
    [] line = "mike.midr"    -> typ ++ (hi -- lo)
    [] line = "mike.strongr" -> Scale(hi, 2) -- lo
    [] line = "mike.weaks"   -> typ -- (hi -- typ)
    [] line = "mike.mids"    -> typ -- (hi -- lo)
    [] line = "mike.strongs" -> Scale(lo, 2) -- hi
Mike(b, n, line) ==
  LET hh == Hhv(Column(b, "high"), n)
      ll == Llv(Column(b, "low"), n)
      MikePrice(r) == ((r.high ++ r.low) ++ r.close) %% 3
  IN IF line \in {"mike.strongr", "mike.strongs"}
     THEN Evaluated([i \in DOMAIN b |-> MikeValue(0, hh[i], ll[i], line)])
     ELSE MapTerms(Len(b), 0, FALSE, [i \in DOMAIN b |-> <<b[i].high, b[i].low, b[i].close>>],
                   [i \in DOMAIN b |-> MikeValue(MikePrice(b[i]), hh[i], ll[i], line)])

ShiftForward(x, k) == Evaluated([i \in DOMAIN x |-> IF i > k THEN x[i - k] ELSE NaN])
Ichimoku(b, tenkan, kijun, senkouB, line) ==
  LET Middle(period) ==
        LET hh == Hhv(Column(b, "high"), period)
            ll == Llv(Column(b, "low"), period)
        IN Evaluated([i \in DOMAIN b |-> (hh[i] ++ ll[i]) %% 2])
      t == Middle(tenkan)
      k == Middle(kijun)
  IN CASE line = "ichimoku.tenkan" -> t
       [] line = "ichimoku.kijun" -> k
       [] line = "ichimoku.senkou_a" -> ShiftForward([i \in DOMAIN b |-> (t[i] ++ k[i]) %% 2], kijun)
       [] line = "ichimoku.senkou_b" -> ShiftForward(Middle(senkouB), kijun)
       [] line = "ichimoku.chikou" -> MapTerms(Len(b), 0, FALSE, [i \in DOMAIN b |-> <<b[i].close>>], Column(b, "close"))

-----------------------------------------------------------------------------
\* The fit of the close's distance from the middle of its window, from the first row
\* that has one.
TtmMomentum(b, n, origin) ==
  LET hh == Hhv(Column(b, "high"), n)
      ll == Llv(Column(b, "low"), n)
      sma == ValuesOf(SmaPass(Column(b, "close"), n, origin))
      delta == Evaluated([i \in DOMAIN b |-> b[i].close -- ((((hh[i] ++ ll[i]) %% 2) ++ sma[i]) %% 2)])
      start == FirstPresent(delta)
      fit == ValuesOf(LinregPass("linearreg", SubSeq(delta, start, Len(b)), n, origin + start - 1))
  IN Evaluated([i \in DOMAIN b |-> IF i < start THEN NaN ELSE fit[i - start + 1]])
\* Whether the deviation band lies inside the range band.
TtmOn(b, n, bbMult, kcMult, origin) ==
  LET sma == ValuesOf(SmaPass(Column(b, "close"), n, origin))
      sd  == ValuesOf(VarPass("stddev", Column(b, "close"), n, 1, origin))
      atr == ValuesOf(SmaPassWith(TRUE, Evaluated(Tr(b)), n, origin))
      Row(i) == LET bbUpper == sma[i] ++ Scale(sd[i], bbMult)
                    bbLower == sma[i] -- Scale(sd[i], bbMult)
                    kcUpper == sma[i] ++ Scale(atr[i], kcMult)
                    kcLower == sma[i] -- Scale(atr[i], kcMult)
                IN Term(<<bbUpper, kcUpper>>, Truth(bbLower \succ kcLower /\ bbUpper \prec kcUpper))
  IN Evaluated([i \in DOMAIN b |-> Row(i)])
=============================================================================
