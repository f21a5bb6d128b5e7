--------------------------- MODULE SlidingWindows ---------------------------
(***************************************************************************)
(* The kernels that keep sums over a sliding window.  Each has a batch     *)
(* pass that trusts its running sums as long as every row is finite, a     *)
(* careful pass for the rows that are not, and a step that goes on from    *)
(* the words the passes leave.  A slide is [sums, bad, pos]: a sum per     *)
(* term, the missing rows of the window and the absolute row it is at.     *)
(***************************************************************************)
EXTENDS Floats

LOCAL Plus(a, b) == Evaluated([k \in DOMAIN a |-> a[k] ++ b[k]])
LOCAL Minus(a, b) == Evaluated([k \in DOMAIN a |-> a[k] -- b[k]])
Zeros(k) == Evaluated([i \in 1 .. k |-> 0])

IsExact(sums) == \A k \in DOMAIN sums : sums[k] # NaN /\ Magnitude(sums[k]) <= ExactLimit
Finite(sums) == ~AnyOf(sums)
OfRows(terms, k, first, last) ==
  LET Add(s, i) == Plus(s, terms[i]) IN Folded(Add, Zeros(k), first, last)

-----------------------------------------------------------------------------
SlideAt(k, origin) == [sums |-> Zeros(k), bad |-> 0, pos |-> origin]
Enter(s, t) == IF t.finite THEN [s EXCEPT !.sums = Plus(@, t.of)] ELSE [s EXCEPT !.bad = @ + 1]
Leave(s, t) == IF t.finite THEN [s EXCEPT !.sums = Minus(@, t.of)] ELSE [s EXCEPT !.bad = @ - 1]
AllFinite(t) == [of |-> t, finite |-> ~AnyOf(t)]

Reanchor(s, first, last, term) ==
  LET kept == [i \in first .. last |-> IF term[i].finite THEN term[i].of ELSE Zeros(Len(s.sums))]
  IN [s EXCEPT !.sums = OfRows(kept, Len(s.sums), first, last)]

AnchorsAt(pos, period) == period # 0 /\ pos % period = 0
\* The row whose value the shifted terms of row i are taken around.
ShiftRow(i, pos, period) ==
  LET back == pos % period IN IF back < i THEN i - back ELSE 1

\* One row through the window; orders: "AddDrop", "DropAdd", "AddReadDrop".
Slide(s, order, period, i, shifted, term) ==
  LET full   == i >= period
      first  == IF full THEN i + 1 - period ELSE 1
      anchor == shifted /\ AnchorsAt(s.pos, period)
      moved  == [s EXCEPT !.pos = @ + 1]
      held   == CASE order = "AddReadDrop" -> Enter(moved, term[i])
                  [] i <= period -> Enter(moved, term[i])
                  [] order = "AddDrop" -> Leave(Enter(moved, term[i]), term[i - period])
                  [] OTHER -> Enter(Leave(moved, term[i - period]), term[i])
      kept   == IF anchor \/ (full /\ ~IsExact(held.sums))
                THEN Reanchor(held, first, i, term) ELSE held
      read   == CASE ~full -> "Partial" [] kept.bad = 0 -> "Sums" [] OTHER -> "Bad"
  IN [window |-> read, sums |-> kept.sums,
      slide |-> IF full /\ order = "AddReadDrop" THEN Leave(kept, term[first]) ELSE kept]

\* The sums of a window that holds a missing row, taken on its own.
OwnSums(terms, k, first, last) == OfRows(terms, k, first, last)
HoldsWindow(row, seen, period) == row > (IF seen < period THEN seen ELSE period)

\* The sums of the window at a row, or, of a window that holds a missing row, those
\* of its own terms.
SumsRow(w, order, period, i, k, term, own) ==
  LET r == Slide(w, order, period, i, FALSE, term)
  IN At(CASE r.window = "Partial" -> NaN
          [] r.window = "Sums" -> r.sums
          [] OTHER -> OwnSums(own, k, i + 1 - period, i), r.slide)
Guarded(terms) == [i \in DOMAIN terms |-> AllFinite(terms[i])]
WindowSumsPass(n, period, k, order, origin, terms) ==
  LET Row(w, i) == SumsRow(w, order, period, i, k, Guarded(terms), terms)
  IN IF period = 0 \/ period > n THEN Unshown(n) ELSE Run(Row, SlideAt(k, origin), n)

\* The loop that trusts its sums: it resums a window whose sums may have lost bits,
\* and is given up for the careful pass once a sum is not finite.
TrustedSums(n, period, k, order, raw) ==
  LET Row(s, i) ==
        LET added == Plus(s.sums, raw[i])
            held  == IF order # "AddReadDrop" /\ i > period THEN Minus(added, raw[i - period]) ELSE added
            resum == i >= period /\ ~IsExact(held)
            clean == s.clean /\ (resum => Finite(held))
            read  == IF resum /\ clean THEN OfRows(raw, k, i + 1 - period, i) ELSE held
        IN [read |-> read, clean |-> clean,
            sums |-> IF order = "AddReadDrop" /\ i >= period THEN Minus(read, raw[i + 1 - period]) ELSE read]
      s == Scan([read |-> Zeros(k), clean |-> TRUE, sums |-> Zeros(k)], 0, n, Row)
  IN [rows |-> s, clean |-> s[n].clean /\ Finite(s[n].sums)]
TrustedPass(n, period, k, order, origin, raw, clean, careful) ==
  LET t == TrustedSums(n, period, k, order, raw)
  IN IF period = 0 \/ period > n THEN Unshown(n)
     ELSE IF ~(clean /\ t.clean) THEN careful
     ELSE [i \in 1 .. n |-> IF i < period THEN At(NaN, Unseeded)
             ELSE At(t.rows[i].read, [sums |-> t.rows[i].sums, bad |-> 0, pos |-> origin + i])]

-----------------------------------------------------------------------------
\* The simple moving average: the running sum, or the guarded window when a
\* row after the first present one is not finite.
SmaRow(internal, period, i, x, w) ==
  LET term == [j \in DOMAIN x |-> [of |-> <<x[j]>>, finite |-> ~IsMissing(x[j])]]
      own == [j \in DOMAIN x |-> <<x[j]>>]
      r == Slide(w, "AddDrop", period, i, FALSE, term)
  IN At(CASE r.window = "Partial" -> NaN
          [] r.window = "Sums" -> r.sums[1] %% period
          [] internal -> OwnSums(own, 1, i + 1 - period, i)[1] %% period
          [] OTHER -> NaN, r.slide)

SmaCareful(internal, x, period, origin) ==
  LET Row(w, i) == SmaRow(internal, period, i, x, w)
  IN Run(Row, SlideAt(1, origin), Len(x))

SmaFast(x, period, origin) ==
  LET n     == Len(x)
      start == FirstPresent(x)
      own   == [j \in DOMAIN x |-> <<x[j]>>]
      Row(s, i) ==
        LET added  == s.sums[1] ++ x[i]
            sum    == IF i >= start + period THEN added -- x[i - period] ELSE added
            resum  == ~IsExact(<<sum>>) /\ i >= period
            clean  == s.clean /\ (resum => sum # NaN)
            first  == IF i + 1 - period < start THEN start ELSE i + 1 - period
            kept   == IF resum /\ clean THEN OfRows(own, 1, first, i) ELSE <<sum>>
        IN [sums |-> kept, clean |-> clean]
      states == Scan([sums |-> <<0>>, clean |-> TRUE], start - 1, n, Row)
      Bad(i) == LET held == IF period < i THEN period ELSE i
                    seen == i + 1 - start
                IN IF held > seen THEN held - seen ELSE 0
      run == [i \in 1 .. n |->
                IF i < start THEN At(NaN, Unseeded)
                ELSE At(IF i >= start + period - 1 THEN states[i].sums[1] %% period ELSE NaN,
                        [sums |-> states[i].sums, bad |-> Bad(i), pos |-> origin + i])]
  IN [run |-> run, clean |-> states[n].clean /\ Finite(states[n].sums)]

SmaPassWith(internal, x, period, origin) ==
  IF period = 0 \/ period > Len(x) THEN Unshown(Len(x))
  ELSE LET fast == SmaFast(x, period, origin)
       IN IF fast.clean /\ FirstPresent(x) < Len(x) THEN fast.run
          ELSE SmaCareful(internal, x, period, origin)
SmaPass(x, period, origin) == SmaPassWith(FALSE, x, period, origin)
SmaStep(period, x, i, w) == SmaRow(FALSE, period, i, x, w)
SmaInitial(origin) == SlideAt(1, origin)

-----------------------------------------------------------------------------
\* The mean and the deviation of a window, from sums shifted by its anchor row.
ShiftedTerms(x, k) == LET d == x -- k IN <<x, d ** d>>
MeanStdOfSums(sums, k, period, ddof) ==
  LET d        == sums[1] -- (IF k = NaN THEN NaN ELSE period * k)
      variance == (sums[2] -- ((d ** d) %% period)) %% (period - ddof)
  IN <<sums[1] %% period, IF variance = NaN THEN NaN ELSE SqrtF(MaxOf(variance, 0))>>

MeanStdRow(period, ddof, i, x, w) ==
  LET k    == x[ShiftRow(i, w.pos, period)]
      own  == [j \in DOMAIN x |-> ShiftedTerms(x[j], k)]
      term == [j \in DOMAIN x |-> [of |-> own[j], finite |-> ~IsMissing(x[j])]]
      r    == Slide(w, "AddDrop", period, i, TRUE, term)
  IN At(CASE r.window = "Partial" -> <<NaN, NaN>>
          [] r.window = "Sums" -> MeanStdOfSums(r.sums, k, period, ddof)
          [] OTHER -> MeanStdOfSums(OwnSums(own, 2, i + 1 - period, i), k, period, ddof), r.slide)

MeanStdFast(x, period, ddof, origin) ==
  LET Row(s, i) ==
        LET anchor == AnchorsAt(origin + i - 1, period)
            k      == IF anchor THEN x[i] ELSE s.k
            added  == Plus(s.sums, ShiftedTerms(x[i], k))
            sums   == IF i > period THEN Minus(added, ShiftedTerms(x[i - period], k)) ELSE added
            resum  == anchor \/ (i >= period /\ ~IsExact(sums))
            clean  == s.clean /\ (resum => Finite(sums))
            own    == [j \in DOMAIN x |-> ShiftedTerms(x[j], k)]
        IN [k |-> k, clean |-> clean,
            sums |-> IF resum /\ clean THEN OfRows(own, 2, IF i < period THEN 1 ELSE i + 1 - period, i) ELSE sums]
      states == Scan([k |-> x[1], clean |-> TRUE, sums |-> Zeros(2)], 0, Len(x), Row)
  IN [run |-> [i \in 1 .. Len(x) |->
                 At(IF i >= period THEN MeanStdOfSums(states[i].sums, states[i].k, period, ddof) ELSE <<NaN, NaN>>,
                    [sums |-> states[i].sums, bad |-> 0, pos |-> origin + i])],
      clean |-> states[Len(x)].clean /\ Finite(states[Len(x)].sums)]

MeanStdPass(x, period, ddof, origin) ==
  IF period = 0 \/ period > Len(x) \/ period <= ddof THEN [i \in 1 .. Len(x) |-> At(<<NaN, NaN>>, Unseeded)]
  ELSE LET fast == MeanStdFast(x, period, ddof, origin)
           Row(w, i) == MeanStdRow(period, ddof, i, x, w)
       IN IF fast.clean THEN fast.run ELSE Run(Row, SlideAt(2, origin), Len(x))
StdPass(x, period, ddof, origin) ==
  LET run == MeanStdPass(x, period, ddof, origin) IN Evaluated([i \in DOMAIN run |-> [run[i] EXCEPT !.v = @[2]]])
StdStep(period, ddof, x, i, w) ==
  LET r == MeanStdRow(period, ddof, i, x, w) IN At(r.v[2], r.w)

-----------------------------------------------------------------------------
\* Every window that holds a missing row shows nothing.
BlankWindows(out, x, span) ==
  LET last == Scan(-span, 0, Len(x), LAMBDA l, i : IF IsMissing(x[i]) THEN i ELSE l)
  IN Evaluated([i \in DOMAIN out |-> IF i - last[i] < span THEN NaN ELSE out[i]])

\* The extremum of every window: blocks of one period, a running extremum from
\* each end of a block, and a window is a suffix of one and a prefix of the next.
VanHerk(x, period, greatest) ==
  LET n      == Len(x)
      Reduce(u, v)  == IF greatest THEN MaxOf(u, v) ELSE MinOf(u, v)
      BlockStart(i) == ((i - 1) \div period) * period + 1
      BlockEnd(i)   == LET e == BlockStart(i) + period - 1 IN IF e < n THEN e ELSE n
      prefix == Scan(x[1], 1, n, LAMBDA p, i : IF i = BlockStart(i) THEN x[i] ELSE Reduce(p, x[i]))
      reversed == Scan(x[n], 1, n, LAMBDA s, j : LET i == n + 1 - j IN IF i = BlockEnd(i) THEN x[i] ELSE Reduce(s, x[i]))
      suffix == [i \in 1 .. n |-> reversed[n + 1 - i]]
  IN [i \in 1 .. n |-> IF i < period THEN NaN ELSE Reduce(suffix[i + 1 - period], prefix[i])]
RollingExtremum(x, period, greatest) ==
  IF period = 0 \/ period > Len(x) THEN Blank(Len(x))
  ELSE BlankWindows(VanHerk(x, period, greatest), x, period)
RollingMax(x, period) == RollingExtremum(x, period, TRUE)
RollingMin(x, period) == RollingExtremum(x, period, FALSE)
RollingMaxMin(high, low, period) == <<RollingMax(high, period), RollingMin(low, period)>>

=============================================================================
