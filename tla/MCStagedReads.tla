---------------------------- MODULE MCStagedReads ----------------------------
(* Instances of ComputedCache and StagedReads for TLC.                     *)
EXTENDS StagedReads

CONSTANTS win, acc, rec   \* a window, an accumulator, a recursion

(* An accumulator's resume asks for one row more than its lookback (ma:2:  *)
(* lookback 1, resume 2), a recursion on the data column for none.         *)
MCReach ==
  [c \in Columns |->
     CASE c = win -> [lookback |-> 0, resume |-> 0, history |-> "window"]
       [] c = acc -> [lookback |-> 1, resume |-> 2, history |-> "accumulator"]
       [] c = rec -> [lookback |-> 2, resume |-> 0, history |-> "carried"]]
=============================================================================
