--------------------------- MODULE MovingAverages ---------------------------
(***************************************************************************)
(* The moving averages.  A recursive one seeds itself with the mean of its *)
(* first rows and then smooths; what it carries is its smoothed values.  A *)
(* finite one carries its window sums.  Of each kernel there is the pass   *)
(* over all rows, with the words it leaves after every row, and the step   *)
(* that goes on from the words of the row before.                          *)
(***************************************************************************)
EXTENDS SlidingWindows

EmaK(period) == Real(2) %% (period + 1)
EmaOf(prev, x, k) == ((x -- prev) ** k) ++ prev
Ema(period, prev, x) == EmaOf(prev, x, EmaK(period))
Weighted(k, prev, x) == (k ** x) ++ ((One -- k) ** prev)
Wilder(period, prev, x) ==
  IF period = 1 THEN x ELSE ((IF prev = NaN THEN NaN ELSE prev * (period - 1)) ++ x) %% period
\* One step of the smoothing a kernel runs its rows through.
Smoothed(kind, period, prev, x) ==
  CASE kind = "ema" -> Ema(period, prev, x)
    [] kind = "weighted" -> Weighted(EmaK(period), prev, x)
    [] OTHER -> Wilder(period, prev, x)
WilderSum(s, period, term) == IF period = 1 THEN term ELSE (s -- (s %% period)) ++ term

\* The row at which `period` present values have been seen, and their mean.
SmaSeed(x, period) ==
  LET Present(i) == {j \in 1 .. i : x[j] # NaN}
      seeds == {i \in 1 .. Len(x) : period > 0 /\ x[i] # NaN /\ Len(SelectSeq(SubSeq(x, 1, i), LAMBDA v : v # NaN)) = period}
      Value(j) == IF x[j] = NaN THEN 0 ELSE x[j]
  IN IF seeds = {} THEN [row |-> Len(x) + 1, value |-> NaN]
     ELSE LET i == CHOOSE i \in seeds : TRUE IN [row |-> i, value |-> SumOf(Value, 1, i) %% period]

SmaSeededPass(x, period, kind) ==
  LET seed == SmaSeed(x, period)
      e == Scan(seed.value, seed.row, Len(x), LAMBDA prev, i : Smoothed(kind, period, prev, x[i]))
  IN [i \in 1 .. Len(x) |-> IF i < seed.row THEN At(NaN, Unseeded) ELSE At(e[i], <<e[i]>>)]

EmaPass(x, period) == SmaSeededPass(x, period, "ema")
EmaStep(period, x, i, w) == LET e == Ema(period, w[1], x[i]) IN At(e, <<e>>)
EmaResume(period, x, from, w) == Resumed(LAMBDA e, i : EmaStep(period, x, i, e), w, from, Len(x))
SmmaPass(x, period) ==
  IF period = 1 THEN [i \in 1 .. Len(x) |-> At(x[i], <<x[i]>>)]
  ELSE SmaSeededPass(x, period, "wilder")
SmmaStep(period, x, i, w) == LET e == Wilder(period, w[1], x[i]) IN At(e, <<e>>)
SmmaResume(period, x, from, w) == Resumed(LAMBDA e, i : SmmaStep(period, x, i, e), w, from, Len(x))

-----------------------------------------------------------------------------
\* Stages of smoothing, each seeded by the mean of the first `period` values of
\* the stage before it: all are warm at stages * (period - 1) rows in.
CascadeStep(e, x, kind, period) ==
  LET Through(stages, s) == Append(stages, Smoothed(kind, period, e[s], IF s = 1 THEN x ELSE stages[s - 1]))
  IN Folded(Through, << >>, 1, Len(e))

CascadeWarmup(x, period, stages, kind) ==
  LET Stage(c, v, s) ==         \* one stage takes a value: what it holds, and what it passes on
        LET grown == c.count[s] + 1
            mean  == (c.acc[s] ++ v) %% period
        IN IF c.seeded[s]
           THEN LET e == Smoothed(kind, period, c.e[s], v) IN [c EXCEPT !.e[s] = e, !.out = e]
           ELSE IF v = NaN THEN [c EXCEPT !.out = NaN]
           ELSE IF grown = period
                THEN [c EXCEPT !.count[s] = grown, !.seeded[s] = TRUE, !.e[s] = mean, !.out = mean]
                ELSE [c EXCEPT !.count[s] = grown, !.acc[s] = @ ++ v, !.out = NaN]
      Row(c, i) ==
        LET Through(d, s) == Stage(d, d.out, s)
        IN Folded(Through, [c EXCEPT !.out = x[i]], 1, stages)
      lookback == FirstPresent(x) + stages * (period - 1)
      cold == [e |-> Zeros(stages), acc |-> Zeros(stages), count |-> Zeros(stages),
               seeded |-> [s \in 1 .. stages |-> FALSE], out |-> NaN]
  IN IF period = 0 \/ lookback > Len(x) THEN [row |-> Len(x) + 1, e |-> Unseeded]
     ELSE [row |-> lookback, e |-> Folded(Row, cold, 1, lookback).e]

CascadePass(x, period, stages, kind) ==
  LET warm == CascadeWarmup(x, period, stages, kind)
      e == Scan(warm.e, warm.row, Len(x), LAMBDA prev, i : CascadeStep(prev, x[i], kind, period))
  IN [i \in 1 .. Len(x) |-> IF i < warm.row THEN At(NaN, Unseeded) ELSE At(e[i], e[i])]

DemaOf(e) == (e[1] ++ e[1]) -- e[2]
DemaPass(x, period) == ReadAll(CascadePass(x, period, 2, "ema"), DemaOf)
DemaStep(period, x, i, w) ==
  LET e == CascadeStep(w, x[i], "ema", period) IN At(DemaOf(e), e)
DemaResume(period, x, from, w) == Resumed(LAMBDA e, i : DemaStep(period, x, i, e), w, from, Len(x))
TemaOf(e) == ((Real(3) ** e[1]) -- (Real(3) ** e[2])) ++ e[3]
TemaPass(x, period) == ReadAll(CascadePass(x, period, 3, "ema"), TemaOf)
TemaStep(period, x, i, w) ==
  LET e == CascadeStep(w, x[i], "ema", period) IN At(TemaOf(e), e)
TemaResume(period, x, from, w) == Resumed(LAMBDA e, i : TemaStep(period, x, i, e), w, from, Len(x))

T3Of(e, vfactor) ==
  LET v2 == vfactor ** vfactor
      c1 == Neg(v2 ** vfactor)
      c2 == Real(3) ** (v2 -- c1)
      c3 == Neg(Real(6) ** v2) -- (Real(3) ** (vfactor -- c1))
      c4 == ((One ++ (Real(3) ** vfactor)) -- c1) ++ (Real(3) ** v2)
  IN (c1 ** e[6]) ++ (c2 ** e[5]) ++ (c3 ** e[4]) ++ (c4 ** e[3])
T3Pass(x, period, vfactor) ==
  ReadAll(CascadePass(x, period, 6, "weighted"), LAMBDA e : T3Of(e, vfactor))
T3Step(period, vfactor, x, i, w) ==
  LET e == CascadeStep(w, x[i], "weighted", period) IN At(T3Of(e, vfactor), e)
T3Resume(period, vfactor, x, from, w) ==
  Resumed(LAMBDA e, i : T3Step(period, vfactor, x, i, e), w, from, Len(x))

-----------------------------------------------------------------------------
\* MACD: the difference of two EMAs, both on from the slow one's seed; the
\* signal line is an EMA of it.
OscillatorPeriods(fast, slow) == IF slow < fast THEN <<slow, fast>> ELSE <<fast, slow>>

\* Both averages in one loop, which shows nothing before the slow one's seed.
EmaDiffSeeded(x, fast, slow) ==
  LET sf == SmaSeed(x, fast)
      ss == SmaSeed(x, slow)
      pf == Scan(sf.value, sf.row, Len(x), LAMBDA prev, i : Ema(fast, prev, x[i]))
      ps == Scan(ss.value, ss.row, Len(x), LAMBDA prev, i : Ema(slow, prev, x[i]))
  IN [i \in 1 .. Len(x) |-> IF i < ss.row THEN NaN ELSE pf[i] -- ps[i]]

\* The words are both averages, each carried on from its own seed.
MacdPass(x, one, other) ==
  LET p    == OscillatorPeriods(one, other)
      line == EmaDiffSeeded(x, p[1], p[2])
      fast == WordsOf(EmaPass(x, p[1]))
      slow == WordsOf(EmaPass(x, p[2]))
  IN [i \in 1 .. Len(x) |-> At(line[i], IF slow[i] = Unseeded \/ fast[i] = Unseeded THEN Unseeded ELSE fast[i] \o slow[i])]
MacdStep(one, other, x, i, w) ==
  LET p == OscillatorPeriods(one, other)
      e == <<Ema(p[1], w[1], x[i]), Ema(p[2], w[2], x[i])>>
  IN At(e[1] -- e[2], e)
MacdResume(one, other, x, from, w) ==
  Resumed(LAMBDA e, i : MacdStep(one, other, x, i, e), w, from, Len(x))

MacdSignalPass(x, one, other, signal, histogram) ==
  LET line == MacdPass(x, one, other)
      sig  == EmaPass(ValuesOf(line), signal)
  IN [i \in 1 .. Len(x) |-> At(IF histogram THEN line[i].v -- sig[i].v ELSE sig[i].v,
                               IF sig[i].w = Unseeded THEN Unseeded ELSE line[i].w \o sig[i].w)]
MacdSignalStep(one, other, signal, histogram, x, i, w) ==
  LET line == MacdStep(one, other, x, i, w)
      sig  == Ema(signal, w[3], line.v)
  IN At(IF histogram THEN line.v -- sig ELSE sig, line.w \o <<sig>>)
MacdSignalResume(one, other, signal, histogram, x, from, w) ==
  Resumed(LAMBDA e, i : MacdSignalStep(one, other, signal, histogram, x, i, e), w, from, Len(x))

=============================================================================
