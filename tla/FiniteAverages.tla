--------------------------- MODULE FiniteAverages ---------------------------
(***************************************************************************)
(* The averages over a window (weighted, by volume, Hull, triangular,      *)
(* BBI), Kaufman's adaptive one, and the moving average an indicator is    *)
(* given by number, as the last stage of its own kernel.  The series a     *)
(* stage smooths exists only row by row, so it carries what its average    *)
(* carries and the last values it may have to read again: those it must    *)
(* drop, or all it needs to seed itself.                                   *)
(***************************************************************************)
EXTENDS MovingAverages

Kept(v) == IF IsMissing(v) THEN 0 ELSE v
Scale(v, n) == IF v = NaN THEN NaN ELSE v * n

-----------------------------------------------------------------------------
\* Words of a weighted window: the plain and the weighted sum, its missing rows
\* and the rows seen, up to the period.
WmaInitial == [sums |-> Zeros(2), bad |-> 0, seen |-> 0]
WmaWeightSum(period) == (period * (period + 1)) \div 2
WmaSeed(sums, j, v) == <<sums[1] ++ v, sums[2] ++ Scale(v, j)>>
WmaSlide(sums, period, entering, leaving) ==
  <<(sums[1] ++ entering) -- leaving, (sums[2] ++ Scale(entering, period)) -- sums[1]>>
WmaSums(x, first, last) ==
  LET Add(s, j) == WmaSeed(s, j + 1 - first, x[j]) IN Folded(Add, Zeros(2), first, last)

WmaRow(period, row, x, w) ==
  LET v       == x[row]
      filled  == w.seen >= period
      held    == [j \in DOMAIN x |-> Kept(x[j])]
      bad     == w.bad + (IF IsMissing(v) THEN 1 ELSE 0)
                       - (IF filled /\ IsMissing(x[row - period]) THEN 1 ELSE 0)
      moved   == IF filled THEN WmaSlide(w.sums, period, held[row], held[row - period])
                 ELSE WmaSeed(w.sums, w.seen + 1, held[row])
      full    == w.seen + 1 >= period
      sums    == IF full /\ ~IsExact(moved) THEN WmaSums(held, row + 1 - period, row) ELSE moved
  IN CASE ~HoldsWindow(row, w.seen, period) -> At(NaN, Unseeded)
       [] period = 0 \/ (w.seen = 0 /\ v = NaN) -> At(NaN, w)
       [] OTHER -> At(IF full /\ bad = 0 THEN sums[2] %% WmaWeightSum(period) ELSE NaN,
                      [sums |-> sums, bad |-> bad, seen |-> IF filled THEN period ELSE w.seen + 1])

\* The pass from the first present row, trusting every row or guarding each.
WmaWith(guarded, x, start, period) ==
  LET held    == [j \in DOMAIN x |-> IF guarded THEN Kept(x[j]) ELSE x[j]]
      Bad(j)  == IF guarded /\ IsMissing(x[j]) THEN 1 ELSE 0
      first   == start + period - 1
      Settle(s, i) ==
        LET resum == i >= first /\ ~IsExact(s.sums)
            fin   == s.finite /\ (resum => Finite(s.sums))
        IN [s EXCEPT !.finite = fin,
                     !.sums = IF resum /\ (fin \/ guarded) THEN WmaSums(held, i + 1 - period, i) ELSE @]
      Row(b, i) ==
        IF i <= first
        THEN Settle([b EXCEPT !.sums = WmaSeed(@, i + 1 - start, held[i]), !.bad = @ + Bad(i)], i)
        ELSE Settle([b EXCEPT !.sums = WmaSlide(@, period, held[i], held[i - period]),
                              !.bad = @ + Bad(i) - Bad(i - period)], i)
      s == Scan([sums |-> Zeros(2), bad |-> 0, finite |-> TRUE], start - 1, Len(x), Row)
  IN [run |-> [i \in 1 .. Len(x) |->
                 IF i < start THEN At(NaN, WmaInitial)
                 ELSE IF i < first THEN At(NaN, Unseeded)
                 ELSE At(IF s[i].bad = 0 THEN s[i].sums[2] %% WmaWeightSum(period) ELSE NaN,
                         [sums |-> s[i].sums, bad |-> s[i].bad, seen |-> period])],
      finite |-> s[Len(x)].finite /\ Finite(s[Len(x)].sums)]

WmaPass(x, period, origin) ==
  LET n     == Len(x)
      start == IF period = 0 \/ period > n THEN 1 ELSE FirstPresent(x)
      Row(w, i) == IF i < start THEN At(NaN, WmaInitial) ELSE WmaRow(period, i, x, w)
      plain == WmaWith(FALSE, x, start, period)
  IN IF period = 0 \/ period > n + 1 - start
     THEN LET run == Run(Row, WmaInitial, n) IN [i \in 1 .. n |-> [run[i] EXCEPT !.v = NaN]]
     ELSE IF plain.finite THEN plain.run ELSE WmaWith(TRUE, x, start, period).run
WmaStep(period, x, i, w) == WmaRow(period, i, x, w)

-----------------------------------------------------------------------------
VwmaValue(s) == IF s[2] = 0 THEN NaN ELSE s[1] // s[2]
VwmaTerms(b, i) ==
  IF AnyOf(<<b[i].close, b[i].volume>>) THEN <<NaN, NaN>> ELSE <<b[i].close ** b[i].volume, b[i].volume>>
VwmaRaw(b) == [i \in DOMAIN b |-> <<b[i].close ** b[i].volume, b[i].volume>>]
VwmaOwn(b) == [i \in DOMAIN b |-> VwmaTerms(b, i)]
VwmaPass(b, period, origin) ==
  ReadAll(TrustedPass(Len(b), period, 2, "AddDrop", origin, VwmaRaw(b), TRUE,
                      WindowSumsPass(Len(b), period, 2, "AddDrop", origin, VwmaOwn(b))), VwmaValue)
VwmaStep(period, b, i, w) ==
  Read(SumsRow(w, "AddDrop", period, i, 2, Guarded(VwmaRaw(b)), VwmaOwn(b)), VwmaValue)

\* Weights that depend on the period, the offset and the width alone, normalised.
Alma(x, period, bell) ==
  LET norm == SumOf(LAMBDA k : bell[k], 1, period)
      Value(i) == LET At1(k) == x[i - period + k] ** (bell[k] // norm) IN SumOf(At1, 1, period)
  IN IF period = 0 \/ period > Len(x) THEN Blank(Len(x))
     ELSE BlankWindows([i \in 1 .. Len(x) |-> IF i < period THEN NaN ELSE Value(i)], x, period)

\* Hull: a weighted average of twice the fast less the slow one.
RoundSqrt(n) == CHOOSE r \in 0 .. n : (2 * r - 1) * (2 * r - 1) <= 4 * n /\ 4 * n < (2 * r + 1) * (2 * r + 1)
HmaParts(period) == <<period \div 2, RoundSqrt(period)>>
HmaPass(x, period, origin) ==
  LET n == Len(x)
      sq == HmaParts(period)[2]
      half == Evaluated(WmaPass(x, HmaParts(period)[1], origin))
      full == Evaluated(WmaPass(x, period, origin))
      raw == Evaluated([i \in 1 .. n |-> Scale(half[i].v, 2) -- full[i].v])
      out == Evaluated(WmaPass(raw, sq, origin))
      Words(i) == IF Unseeded \in {half[i].w, full[i].w, out[i].w} THEN Unseeded
                  ELSE [half |-> half[i].w, full |-> full[i].w, out |-> out[i].w,
                        ring |-> SubSeq(raw, IF i < sq THEN 1 ELSE i - sq + 1, i)]
  IN CASE period = 0 \/ period > n -> Unshown(n)
       [] period = 1 -> [i \in 1 .. n |-> At(x[i], Unseeded)]
       [] OTHER -> [i \in 1 .. n |-> At(out[i].v, Words(i))]
HmaInitial(period) == [half |-> WmaInitial, full |-> WmaInitial, out |-> WmaInitial, ring |-> Zeros(HmaParts(period)[2])]
HmaStep(period, x, i, w) ==
  LET p == HmaParts(period)
      half == WmaStep(p[1], x, i, w.half)
      full == WmaStep(period, x, i, w.full)
      raw == Scale(half.v, 2) -- full.v
      blend == [j \in 0 .. i |-> IF j = i THEN raw ELSE w.ring[p[2] - (i - j) + 1]]
      out == WmaRow(p[2], i, blend, w.out)
  IN IF Len(w.ring) # p[2] THEN At(NaN, Unseeded)
     ELSE At(out.v, [half |-> half.w, full |-> full.w, out |-> out.w, ring |-> PushRing(w.ring, raw)])

Swma(x) ==
  LET Value(i) == (((x[i - 3] %% 6) ++ (Scale(x[i - 2], 2) %% 6)) ++ (Scale(x[i - 1], 2) %% 6)) ++ (x[i] %% 6)
  IN BlankWindows([i \in 1 .. Len(x) |-> IF i < 4 THEN NaN ELSE Value(i)], x, 4)

BbiPass(x, periods, origin) ==
  LET runs == Evaluated([k \in 1 .. 4 |-> SmaPass(x, periods[k], origin)])
      Mean(i) == (((runs[1][i].v ++ runs[2][i].v) ++ runs[3][i].v) ++ runs[4][i].v) %% 4
  IN [i \in 1 .. Len(x) |->
        At(Mean(i), IF \E k \in 1 .. 4 : runs[k][i].w = Unseeded THEN Unseeded ELSE [k \in 1 .. 4 |-> runs[k][i].w])]
BbiInitial(origin) == [k \in 1 .. 4 |-> SmaInitial(origin)]
BbiStep(periods, x, i, w) ==
  LET r == Evaluated([k \in 1 .. 4 |-> SmaStep(periods[k], x, i, w[k])])
  IN At((((r[1].v ++ r[2].v) ++ r[3].v) ++ r[4].v) %% 4, WordsOf(r))

-----------------------------------------------------------------------------
\* The triangular average: a mean of means, both windows slid in one loop while
\* every row is finite, composed of two passes otherwise.
TrimaWindows(period) ==
  IF period % 2 = 1 THEN <<(period + 1) \div 2, (period + 1) \div 2>> ELSE <<period \div 2, period \div 2 + 1>>
TrimaReach(period) == TrimaWindows(period)[1]
TrimaInitial(period, origin) ==
  [in |-> SmaInitial(origin), out |-> SmaInitial(origin), ring |-> Zeros(TrimaWindows(period)[2])]

TrimaComposed(x, period, origin) ==
  LET ab == TrimaWindows(period)
      inner == SmaPass(x, ab[1], origin)
      outer == SmaPassWith(TRUE, ValuesOf(inner), ab[2], origin)
      Ring(i) == SubSeq(ValuesOf(inner), IF i < ab[2] THEN 1 ELSE i + 1 - ab[2], i)
  IN [i \in 1 .. Len(x) |->
        At(outer[i].v, IF Unseeded \in {inner[i].w, outer[i].w} THEN Unseeded
                       ELSE [in |-> inner[i].w, out |-> outer[i].w, ring |-> Ring(i)])]

TrimaFused(x, period, origin) ==
  LET n == Len(x)
      a == TrimaWindows(period)[1]
      b == TrimaWindows(period)[2]
      own == [j \in DOMAIN x |-> <<x[j]>>]
      Row(s, i) ==
        LET in1   == s.in ++ (x[i] -- (IF i > a THEN x[i - a] ELSE 0))
            sound == s.clean /\ (i < a \/ IsExact(<<in1>>) \/ Finite(<<in1>>))
            in2   == IF i >= a /\ ~IsExact(<<in1>>) /\ sound THEN OfRows(own, 1, i + 1 - a, i)[1] ELSE in1
            inner == in2 %% a
            out1  == (s.out ++ inner) -- (IF s.count >= b THEN s.ring[1] ELSE 0)
            ring  == PushRing(s.ring, inner)
            held  == IF s.count + 1 < b THEN s.count + 1 ELSE b
            means == [j \in 1 .. held |-> <<ring[b - held + j]>>]
            again == i >= b /\ ~IsExact(<<out1>>)
            clean == sound /\ (~again \/ Finite(<<out1>>))
        IN IF i < a THEN [s EXCEPT !.in = in2]
           ELSE [in |-> in2, ring |-> ring, count |-> s.count + 1, clean |-> clean,
                 out |-> IF again /\ clean THEN OfRows(means, 1, 1, held)[1] ELSE out1]
      s == Scan([in |-> 0, out |-> 0, ring |-> Zeros(b), count |-> 0, clean |-> TRUE], 0, n, Row)
      Bad(i) == LET held == IF b < i THEN b ELSE i IN IF held > s[i].count THEN held - s[i].count ELSE 0
  IN [run |-> [i \in 1 .. n |-> At(IF s[i].count >= b THEN s[i].out %% b ELSE NaN,
                 [in |-> [sums |-> <<s[i].in>>, bad |-> 0, pos |-> origin + i],
                  out |-> [sums |-> <<s[i].out>>, bad |-> Bad(i), pos |-> origin + i], ring |-> s[i].ring])],
      clean |-> s[n].clean /\ Finite(<<s[n].in, s[n].out>>)]

TrimaPass(x, period, origin) ==
  IF period = 0 \/ period > Len(x) THEN Unshown(Len(x))
  ELSE IF FirstPresent(x) > 1 THEN TrimaComposed(x, period, origin)
  ELSE LET fused == TrimaFused(x, period, origin)
       IN IF fused.clean THEN fused.run ELSE TrimaComposed(x, period, origin)

TrimaRow(period, row, x, w) ==
  LET ab == TrimaWindows(period)
      inner == SmaRow(FALSE, ab[1], row, x, w.in)
      means == [j \in 0 .. row |-> IF j = row THEN inner.v ELSE w.ring[ab[2] - (row - j) + 1]]
      outer == SmaRow(TRUE, ab[2], row, means, w.out)
  IN IF period = 0 \/ Len(w.ring) # ab[2] THEN At(NaN, Unseeded)
     ELSE At(outer.v, [in |-> inner.w, out |-> outer.w, ring |-> PushRing(w.ring, inner.v)])
TrimaStep(period, x, i, w) == TrimaRow(period, i, x, w)

-----------------------------------------------------------------------------
\* Kaufman: an EMA whose constant follows the ratio of the change over the
\* period to the sum of the changes in it.
KamaSc(periodRoc, sumRoc) ==
  LET slow == Real(2) %% 31
      er   == IF sumRoc \preceq periodRoc \/ sumRoc = 0 THEN One ELSE AbsF(periodRoc // sumRoc)
      sc   == (er ** ((Real(2) %% 3) -- slow)) ++ slow
  IN sc ** sc
KamaBar(x, period, today, k) ==
  LET Change(j) == AbsF(x[j] -- x[j - 1])
      slid  == IF today = period + 1 THEN k.sum
               ELSE (k.sum -- Change(today - period)) ++ Change(today)
      sum   == IF today = period + 1 \/ ~IsExact(<<slid>>) THEN SumOf(Change, today + 1 - period, today) ELSE slid
  IN [kama |-> EmaOf(k.kama, x[today], KamaSc(x[today] -- x[today - period], sum)), sum |-> sum]
KamaPass(x, period) ==
  LET k == Scan([kama |-> x[period], sum |-> 0], period, Len(x), LAMBDA prev, i : KamaBar(x, period, i, prev))
  IN IF period = 0 \/ period + 1 > Len(x) THEN Unshown(Len(x))
     ELSE [i \in 1 .. Len(x) |-> IF i <= period THEN At(NaN, Unseeded) ELSE At(k[i].kama, k[i])]
KamaStep(period, x, i, w) ==
  IF period = 0 \/ i <= period + 1 THEN At(NaN, Unseeded)
  ELSE LET k == KamaBar(x, period, i, w) IN At(k.kama, k)
KamaResume(period, x, from, w) ==
  IF period = 0 \/ from <= period THEN Refused
  ELSE Resumed(LAMBDA k, i : KamaStep(period, x, i, k), w, from, Len(x))

-----------------------------------------------------------------------------
\* The averages by number; MAMA (7) is not modelled.
MaKinds == [sma |-> 0, ema |-> 1, wma |-> 2, dema |-> 3, tema |-> 4, trima |-> 5, kama |-> 6, t3 |-> 8]
GenericMaType(period, matype) == IF period = 1 THEN 0 ELSE matype
KindOf(period, matype) ==
  LET known == {k \in DOMAIN MaKinds : MaKinds[k] = GenericMaType(period, matype)}
  IN IF known = {} THEN "none" ELSE CHOOSE k \in known : TRUE
FiniteKinds == {"sma", "wma", "trima"}
RecursiveLookback(kind, period) ==
  CASE kind = "kama" -> period
    [] kind = "ema"  -> period - 1
    [] kind = "dema" -> 2 * (period - 1)
    [] kind = "tema" -> 3 * (period - 1)
    [] kind = "t3"   -> 6 * (period - 1)
GenericMaLookback(period, matype) ==
  LET kind == KindOf(period, matype)
  IN IF kind \in FiniteKinds \cup {"none"} THEN period - 1 ELSE RecursiveLookback(kind, period)

\* The pass of an average over complete rows.
RecursivePass(kind, x, period) ==
  CASE kind = "ema"  -> EmaPass(x, period)
    [] kind = "dema" -> DemaPass(x, period)
    [] kind = "tema" -> TemaPass(x, period)
    [] kind = "kama" -> KamaPass(x, period)
    [] kind = "t3"   -> T3Pass(x, period, Real(7) %% 10)
RecursiveOne(kind, period, x, i, w) ==
  CASE kind = "ema"  -> EmaStep(period, x, i, w)
    [] kind = "dema" -> DemaStep(period, x, i, w)
    [] kind = "tema" -> TemaStep(period, x, i, w)
    [] kind = "kama" -> KamaStep(period, x, i, w)
    [] kind = "t3"   -> T3Step(period, Real(7) %% 10, x, i, w)

SeedLen(kind, period) == RecursiveLookback(kind, period) + 1
RecursiveInitial(kind, period) == [seen |-> 0, kernel |-> Unseeded, tail |-> Zeros(SeedLen(kind, period) + 1)]

\* One value into the stage: a missing one leaves it as it was.
RecursiveStep(kind, period, v, w) ==
  LET seed == SeedLen(kind, period)
      tail == PushRing(w.tail, v)
      last == RecursivePass(kind, Tail(tail), period)[seed]
      r    == IF w.seen + 1 = seed THEN last ELSE RecursiveOne(kind, period, tail, seed + 1, w.kernel)
      seen == IF w.seen < seed THEN w.seen + 1 ELSE seed
  IN CASE IsMissing(v) -> At(NaN, w)
       [] w.seen + 1 < seed -> At(NaN, [w EXCEPT !.seen = seen, !.tail = tail])
       [] OTHER -> At(r.v, [seen |-> seen, kernel |-> r.w, tail |-> tail])

\* The pass runs the kernel over the complete values; its words are the ones the
\* steps would have come to.
RecursiveStagePass(kind, x, period) ==
  LET kept == SelectSeq([i \in 1 .. Len(x) |-> i], LAMBDA i : ~IsMissing(x[i]))
      input == Evaluated([c \in DOMAIN kept |-> x[kept[c]]])
      run == Evaluated(RecursivePass(kind, input, period))
      seed == SeedLen(kind, period)
      Before(i) == Len(SelectSeq(kept, LAMBDA r : r <= i))
      Feed(w, c) == RecursiveStep(kind, period, input[c], w).w
      Words(count) ==
        IF count < seed THEN Folded(Feed, RecursiveInitial(kind, period), 1, count)
        ELSE [seen |-> seed, kernel |-> run[count].w,
              tail |-> IF count = seed THEN <<0>> \o SubSeq(input, 1, count)
                       ELSE SubSeq(input, count - seed, count)]
  IN [i \in 1 .. Len(x) |-> At(IF IsMissing(x[i]) THEN NaN ELSE run[Before(i)].v, Words(Before(i)))]

-----------------------------------------------------------------------------
StagePass(x, period, matype, origin) ==
  LET kind == KindOf(period, matype)
  IN CASE kind = "sma"   -> SmaPass(x, period, origin)
       [] kind = "wma"   -> WmaPass(x, period, origin)
       [] kind = "trima" -> TrimaPass(x, period, origin)
       [] OTHER -> RecursiveStagePass(kind, x, period)
StageReach(period, matype) ==
  LET kind == KindOf(period, matype)
  IN CASE kind = "trima" -> TrimaReach(period) [] kind \in FiniteKinds -> period [] OTHER -> 0
StageInitial(period, matype, origin) ==
  LET kind == KindOf(period, matype)
  IN CASE kind = "sma"   -> SmaInitial(origin)
       [] kind = "wma"   -> WmaInitial
       [] kind = "trima" -> TrimaInitial(period, origin)
       [] OTHER -> RecursiveInitial(kind, period)
StageStep(period, matype, row, x, w) ==
  LET kind == KindOf(period, matype)
  IN CASE kind = "sma"   -> SmaRow(FALSE, period, row, x, w)
       [] kind = "wma"   -> WmaRow(period, row, x, w)
       [] kind = "trima" -> TrimaRow(period, row, x, w)
       [] OTHER -> RecursiveStep(kind, period, x[row], w)

\* The stage behind another kernel keeps the values it may still drop.
ChainedInitial(period, matype, origin) ==
  [own |-> StageInitial(period, matype, origin), ring |-> Zeros(StageReach(period, matype))]
StepChained(period, matype, row, newest, w) ==
  LET reach == StageReach(period, matype)
      values == [j \in 0 .. row |-> IF j = row THEN newest ELSE w.ring[reach - (row - j) + 1]]
      r == StageStep(period, matype, row, values, w.own)
  IN IF Len(w.ring) # reach \/ r.w = Unseeded THEN At(NaN, Unseeded)
     ELSE At(r.v, [own |-> r.w, ring |-> IF reach = 0 THEN << >> ELSE PushRing(w.ring, newest)])
=============================================================================
