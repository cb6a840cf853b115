------------------------------ MODULE Amounts ------------------------------
(***************************************************************************)
(* Amounts: minima, maxima and sums of functions over finite domains.      *)
(* Weights are in basis points, Full being all of the equity.              *)
(***************************************************************************)
EXTENDS Integers, FiniteSets, FiniteSetsExt

Full == 10000

Least(a, b) == IF a <= b THEN a ELSE b

Most(a, b) == IF a >= b THEN a ELSE b

SumOf(f) == MapThenSumSet(LAMBDA s : f[s], DOMAIN f)

=============================================================================
