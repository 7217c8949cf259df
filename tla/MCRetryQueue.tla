---------------------------- MODULE MCRetryQueue ----------------------------
(* Small instances of RetryQueue for TLC, with the delays of Backoff. *)
EXTENDS RetryQueue, Backoff

CONSTANTS BaseDelay, MaxDelay

MCDelay == [n \in 0..AttemptCap |-> CalculateBackoff(BaseDelay, MaxDelay, n)]

\* max_retries = -1
Infinite == -1

\* What the delays should be: doubling from the base, and cut at the cap.
Exponential(base, max, n) == IF base * 2^n > max THEN max ELSE base * 2^n

\* The loop computes this for any base and cap, base above cap included (none is
\* zero: NewQueue and SetDefaults replace that), and for every attempt that can
\* fail: the count is at least 1 then.
LoopIsExponential ==
  \A base \in 1..4, max \in 1..9, n \in 1..6 :
    CalculateBackoff(base, max, n) = Exponential(base, max, n)

\* A failed attempt is put back with the delay that belongs to its number, also
\* when a restart brought back an older count.  The number is counted before the
\* attempt, so that the first retry waits for twice base_delay, and not for the
\* "initial retry delay" that base_delay is said to be.
RetriesBackOff ==
  [][/\ LoopIsExponential
     /\ \A i \in Held \cap Queued' :
          status'[i] = "failed" =>
            /\ attempts'[i] >= 1
            /\ wait'[i] = Exponential(BaseDelay, MaxDelay, attempts'[i])]_vars
=============================================================================
