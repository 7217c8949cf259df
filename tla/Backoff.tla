------------------------------- MODULE Backoff -------------------------------
(* The delay before a retry (Queue.calculateBackoff), a loop over the       *)
(* intervals of the cenkalti/backoff library with multiplier 2 and no       *)
(* randomization.                                                           *)
EXTENDS Naturals

\* Mutants of NextInterval: the cap is forgotten; the interval is doubled
\* before it is compared with the cap, and then not cut.
Uncapped(c, max) == 2 * c
CapLate(c, max) == IF c >= max THEN max ELSE 2 * c

\* The library compares before it doubles, and never exceeds the cap.
NextInterval(c, max) == IF 2 * c >= max THEN max ELSE 2 * c

\* The interval that the n-th call of NextBackOff returns, from 0.
Intervals(base, max, cap) ==
  LET interval[n \in 0..cap] == IF n = 0 THEN base ELSE NextInterval(interval[n - 1], max)
  IN interval

\* The first delay is the base itself, the others those of attempts + 1 calls.
CalculateBackoff(base, max, n) == IF n = 0 THEN base ELSE Intervals(base, max, n)[n]
=============================================================================
