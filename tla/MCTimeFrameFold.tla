-------------------------- MODULE MCTimeFrameFold --------------------------
(***************************************************************************)
(* Instances of TimeFrameFold for TLC: a sum that starts as floats, and a  *)
(* last value that is added later.                                         *)
(***************************************************************************)
EXTENDS TimeFrameFold

MCAggOf == [volume |-> "sum", note |-> "last"]
MCCols  == DOMAIN MCAggOf

Candles2 == {[volume |-> v, note |-> 1] : v \in {2, -2, Missing}}
Candles1 == {[volume |-> v, note |-> 1] : v \in {0, 1, -1}}
=============================================================================
