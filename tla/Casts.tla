------------------------------- MODULE Casts -------------------------------
(***************************************************************************)
(* The casts of a small machine to double, for TLC: to nearest, a tie to   *)
(* the even one.                                                           *)
(***************************************************************************)
EXTENDS Naturals

\* The distance of the doubles around n.
Grain(n, mantissa) ==
    CHOOSE g \in {2 ^ i : i \in 0 .. 16} :
        n <= mantissa * g /\ (g = 1 \/ n > mantissa * (g \div 2))

Nearest(n, mantissa) ==
    LET g == Grain(n, mantissa)
        below == n \div g
        up == 2 * (n % g) + (below % 2) > g
    IN  g * (IF up THEN below + 1 ELSE below)

CastsUpTo(max, mantissa) == [n \in 0 .. max |-> Nearest(n, mantissa)]
=============================================================================
