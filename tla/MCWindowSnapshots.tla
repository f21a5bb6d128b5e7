-------------------------- MODULE MCWindowSnapshots --------------------------
EXTENDS WindowSnapshots

\* -3, both zeros, 1 and 3, in quarters: the sum of two 3s is not finite.
MCValues == {-13, -1, 0, 4, 12}
MCDecays == {<<"com", 1>>, <<"com", 2>>}
=============================================================================
