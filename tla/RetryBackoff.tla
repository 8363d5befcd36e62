--------------------------- MODULE RetryBackoff ---------------------------
(***************************************************************************)
(* retryDelay of internal/session/manager.go: how long a command in flight *)
(* waits, beyond the ack timeout, before its next transmission.  A         *)
(* time.Duration is a signed integer from -MaxDur to MaxDur - 1, MaxDur    *)
(* being 2^63 in the code.  The jitter that xorshift64 derives from the    *)
(* command is any value of its range.                                      *)
(***************************************************************************)
EXTENDS Integers

CONSTANTS
  MaxDur,       \* durations are below this
  Bases,        \* values of RetryBackoff that the configuration may hold
  MaxAttempts   \* bound: transmissions of one command

VARIABLES
  base,      \* the policy's RetryBackoff
  attempts,  \* transmissions so far
  delay      \* what retryDelay returned for them

retryVars == <<base, attempts, delay>>

\* config.Load refuses a negative RetryBackoff.
ASSUME BackoffAssumption ==
  /\ MaxDur \in Nat \ {0}
  /\ Bases \subseteq 0..(MaxDur - 1)
  /\ MaxAttempts \in Nat

maxRetryBackoffShift == 6
jitterPercent == 20

\* 1 << shift.
Pow2 == [s \in 0..maxRetryBackoffShift |->
          CASE s = 0 -> 1 [] s = 1 -> 2 [] s = 2 -> 4 [] s = 3 -> 8
            [] s = 4 -> 16 [] s = 5 -> 32 [] s = 6 -> 64]

\* The result of an operation on durations, and the quotient of two, which Go
\* rounds towards zero.
Wrap(x) == IF x \in (-MaxDur)..(MaxDur - 1) THEN x
           ELSE ((x + MaxDur) % (2 * MaxDur)) - MaxDur
Quot(x, d) == IF x >= 0 THEN x \div d ELSE -((-x) \div d)

\* Mutant of Shift: the exponent is capped at one.
ShiftCapped(n) == IF n - 2 > 1 THEN 1 ELSE n - 2

\* The exponent, from the second transmission on.
Shift(n) == IF n - 2 > maxRetryBackoffShift THEN maxRetryBackoffShift ELSE n - 2

\* Mutant of JitterRange: the percentage is applied twice over.
JitterRangeDouble(d) == Quot(Wrap(d * 2 * jitterPercent), 100)

JitterRange(d) == Quot(Wrap(d * jitterPercent), 100)

\* d with a jitter of up to j either way.
Jittered(d, j) ==
  {LET out == Wrap(d + v) IN IF out < 0 THEN 0 ELSE out : v \in (-j)..j}

\* What retryDelay may return for the n-th transmission.
RetryDelay(n, b) ==
  IF n <= 1 \/ b <= 0 THEN {0}
  ELSE LET d == Wrap(b * Pow2[Shift(n)])
           j == JitterRange(d)
       IN  IF d < 0 THEN {b}
           ELSE IF j <= 0 \/ Wrap(Wrap(j * 2) + 1) <= 0 THEN {d}
           ELSE Jittered(d, j)

RetryInit == base \in Bases /\ attempts = 1 /\ delay = 0

\* The command is sent once more.
Retry ==
  /\ attempts < MaxAttempts
  /\ attempts' = attempts + 1
  /\ delay' \in RetryDelay(attempts + 1, base)
  /\ UNCHANGED base

RetryNext == Retry

RetrySpec == RetryInit /\ [][RetryNext]_retryVars

-----------------------------------------------------------------------------
\* Properties

\* Bases for which nothing overflows: up to MaxDur / 1280, 83 days in the code.
Moderate == base * 64 * jitterPercent < MaxDur

\* A moderate backoff waits, from the second transmission on, between 80% and
\* 120% of the doubled base; and whatever the base, overflow included, the
\* delay that is added to the ack timeout is never negative.
DelayInRange ==
  /\ delay >= 0
  /\ Moderate /\ attempts > 1 =>
       /\ 80 * base * Pow2[Shift(attempts)] <= 100 * delay
       /\ 100 * delay <= 120 * base * Pow2[Shift(attempts)]

\* Whatever the jitter, each transmission waits longer than the one before, until
\* the factor reaches its cap: retries of one command never draw closer.
BackoffGrows ==
  [][Moderate /\ base > 0 /\ attempts < maxRetryBackoffShift + 2 =>
       delay' > delay]_retryVars
=============================================================================
