-------------------------- MODULE MCRetainedFrames --------------------------
(* Instances of RetainedFrames for TLC.                                    *)
EXTENDS RetainedFrames

CONSTANTS rec, deep, win   \* recursions that read one row back, and two; a window

MCReach ==
  [c \in Columns |->
     CASE c = rec  -> [lookback |-> 1, resume |-> 1, history |-> "carried"]
       [] c = deep -> [lookback |-> 2, resume |-> 2, history |-> "carried"]
       [] c = win  -> [lookback |-> 1, resume |-> 1, history |-> "window"]]

MCContinuation == [c \in Columns |-> IF c = win THEN 0 ELSE MCReach[c].resume]
=============================================================================
