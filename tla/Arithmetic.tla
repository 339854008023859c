------------------------------- MODULE Arithmetic -------------------------------
(***************************************************************************)
(* The sums that a loop accumulates over rows, columns or iterations, and  *)
(* the powers that bound what keeps growing or being divided.              *)
(***************************************************************************)
EXTENDS Integers, FiniteSetsExt

\* The sum of a function over a set.
SumOver(f, S) == FoldFunctionOnSet(+, 0, f, S)

\* What multiplying n times by a base makes of one.
Power(base, n) ==
  LET power[k \in Nat] == IF k = 0 THEN 1 ELSE base * power[k - 1]
  IN  power[n]
================================================================================
