---------------------------- MODULE MCCumulation ----------------------------
(***************************************************************************)
(* Instances of Cumulation for TLC: a column of each aggregator, cells     *)
(* chosen so that two bars overflow the sum, a third makes it fit again if *)
(* it replaces one of them, and a cell of each column may be missing.      *)
(***************************************************************************)
EXTENDS Cumulation

MCAggOf == [open |-> "first", high |-> "max", low |-> "min",
            close |-> "last", volume |-> "sum"]
MCCols  == DOMAIN MCAggOf

Candle(o, h, l, c, v) ==
  [open |-> o, high |-> h, low |-> l, close |-> c, volume |-> v]

MCCandles ==
  {Candle(1, 2, 0, 1, 2), Candle(0, 1, 1, 2, 1),
   Candle(Missing, 2, Missing, 1, -1), Candle(1, Missing, 1, Missing, Missing)}
=============================================================================
