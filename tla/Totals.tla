------------------------------- MODULE Totals -------------------------------
(***************************************************************************)
(* The total of a sequence of numbers, as the totals the program carries   *)
(* forward are made: one entry after the other, from the first; and of the *)
(* numbers that a function has for its arguments, in no order.             *)
(***************************************************************************)
EXTENDS Naturals, Sequences, FiniteSetsExt

RunningTotals(w) ==
    LET sum[n \in 0 .. Len(w)] == IF n = 0 THEN 0 ELSE sum[n - 1] + w[n]
    IN sum

Total(w) == RunningTotals(w)[Len(w)]

SumOf(f) == MapThenSumSet(LAMBDA x : f[x], DOMAIN f)
=============================================================================
