---------------------------------- MODULE Sums -----------------------------------
(* Sums and powers of natural numbers, for the amounts. *)
EXTENDS Integers, FiniteSetsExt

\* The sum of the values of f.
Sum(f) == MapThenSumSet(LAMBDA x : f[x], DOMAIN f)

\* base to the power of a natural number.
Power(base, exponent) ==
  LET power[k \in 0..exponent] == IF k = 0 THEN 1 ELSE base * power[k - 1]
  IN  power[exponent]
=================================================================================
