------------------------------- MODULE Rounding -------------------------------
(***************************************************************************)
(* Python's round() of a ratio of naturals, to an integer and to four      *)
(* decimals (in ten-thousandths): to nearest, ties to even.                *)
(***************************************************************************)
EXTENDS Naturals

RoundHalfEven(n, d) ==
  LET q == n \div d
      twice == 2 * (n % d)
  IN  IF twice < d \/ (twice = d /\ q % 2 = 0) THEN q ELSE q + 1

Whole == 10000
FourDecimals(n, d) == RoundHalfEven(Whole * n, d)

===============================================================================
