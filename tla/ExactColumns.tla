---------------------------- MODULE ExactColumns ----------------------------
(***************************************************************************)
(* What the cache of directive columns promises a user, who sees the data, *)
(* which names hold data of their own, and what calls answer: a read of    *)
(* directives either refuses, raises, or answers with the values a full    *)
(* computation over the data as it is now gives.  There is no cursor, no   *)
(* state and no staleness here.                                            *)
(***************************************************************************)
EXTENDS Integers, Sequences

CONSTANTS
  Columns,           \* the names read
  Values,            \* what a data cell holds
  Reference(_, _)    \* a directive's values over a given series

VARIABLES series, owner, answer

vars == <<series, owner, answer>>

Owners == {"directive", "user"}

Quiet(a) == a.what \in {"silent", "refused", "raised"} /\ DOMAIN a.cells = {}

Init ==
  /\ series \in Seq(Values)
  /\ owner = [c \in Columns |-> "directive"]
  /\ Quiet(answer)

(* Data changes: rows come, are replaced or rewritten, and a user may take *)
(* a name over for good.                                                   *)
Change ==
  /\ series' \in Seq(Values)
  /\ owner' \in [Columns -> Owners]
  /\ \A c \in Columns : owner[c] = "user" => owner'[c] = "user"
  /\ Quiet(answer')

Answers ==
  /\ answer'.what = "read"
  /\ \A c \in DOMAIN answer'.cells :
       owner[c] = "directive" => answer'.cells[c] = Reference(c, series)
  /\ UNCHANGED <<series, owner>>

Declines ==
  /\ Quiet(answer')
  /\ UNCHANGED <<series, owner>>

Next == Change \/ Answers \/ Declines

Spec == Init /\ [][Next]_vars
=============================================================================
