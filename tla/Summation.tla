------------------------------ MODULE Summation -----------------------------
(* Sums of the values a function has on a finite set.                       *)
EXTENDS FiniteSetsExt

SumOver(f, S) == MapThenSumSet(LAMBDA k : f[k], S)
=============================================================================
