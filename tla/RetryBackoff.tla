---------------------------- MODULE RetryBackoff ----------------------------
(***************************************************************************)
(* RetryConfig::delay_for_attempt, in the machine arithmetic it is written *)
(* in, and the sequence of sleeps the loop of with_retry makes of it.      *)
(*                                                                         *)
(* Durations are whole milliseconds; those given in the configuration may  *)
(* exceed the integers the function computes with (as_millis() is a u128   *)
(* that "as u64" truncates).                                               *)
(***************************************************************************)
EXTENDS Naturals

CONSTANTS Limit,      \* the integers are 0..Limit-1; 2^64 in the code
          Durations,  \* values of base_delay and max_delay
          MaxRetries  \* values of max_retries are 0..MaxRetries

ASSUME LimitAssumption    == Limit \in Nat /\ Limit > 1024
ASSUME DurationAssumption == Durations \subseteq Nat /\ MaxRetries \in Nat

Least(x, y) == IF x < y THEN x ELSE y

-----------------------------------------------------------------------------
AsMillis(duration) == duration % Limit

\* MUTANT: wrapping_mul instead of saturating_mul.
BugSaturatingMul(x, y) == (x * y) % Limit

SaturatingMul(x, y) == Least(x * y, Limit - 1)

\* MUTANT: a shift by the attempt itself, which the hardware masks.
BugFactor(n) == 2^(n % 16)

\* 1u64 << attempt.min(10)
Factor(n) == <<1, 2, 4, 8, 16, 32, 64, 128, 256, 512, 1024>>[Least(n, 10) + 1]

\* MUTANT: the cap is applied to the base and not to the product.
BugCapped(base, max, n) == SaturatingMul(Least(AsMillis(base), AsMillis(max)), Factor(n))

Capped(base, max, n) == Least(SaturatingMul(AsMillis(base), Factor(n)), AsMillis(max))

Jittered(capped, n) ==
  LET half == capped \div 2
  IN  half + (((half * (n + 1)) % Limit) % (half + 1))

delay_for_attempt(base, max, n) == Jittered(Capped(base, max, n), n)

-----------------------------------------------------------------------------
(* The loop of one call whose every attempt fails with a retryable error.  *)

VARIABLES base_delay, max_delay, max_retries,  \* RetryConfig
          attempt,                             \* the loop counter
          slept                                \* the last sleep

vars == <<base_delay, max_delay, max_retries, attempt, slept>>

config == <<base_delay, max_delay, max_retries>>

TypeOK == /\ base_delay \in Durations /\ max_delay \in Durations
          /\ max_retries \in 0..MaxRetries
          /\ attempt \in 0..max_retries
          /\ slept \in 0..Limit - 1

Init == /\ base_delay \in Durations /\ max_delay \in Durations
        /\ max_retries \in 0..MaxRetries
        /\ attempt = 0
        /\ slept = 0

\* MUTANT: one sleep too many, after the last attempt.
BugSleep == /\ attempt <= max_retries
            /\ slept' = delay_for_attempt(base_delay, max_delay, attempt)
            /\ attempt' = attempt + 1
            /\ UNCHANGED config

Sleep == /\ attempt < max_retries
         /\ slept' = delay_for_attempt(base_delay, max_delay, attempt)
         /\ attempt' = attempt + 1
         /\ UNCHANGED config

Next == Sleep

Spec == Init /\ [][Next]_vars

-----------------------------------------------------------------------------
(* Properties.                                                             *)

\* No sleep is longer than max_delay, whatever overflows on the way.
NeverLongerThanMax == slept <= max_delay

\* Every sleep is at least half of the exponential delay, computed without any
\* width, that max_delay and the tenfold doubling allow.  (A configuration
\* beyond the machine's integers is truncated and promises nothing.)
NeverTooEager ==
  attempt > 0 /\ base_delay < Limit /\ max_delay < Limit =>
    LET exact == Least(base_delay * 2^Least(attempt - 1, 10), max_delay)
    IN  2 * slept + 1 >= exact

\* Backing off does not collapse: no sleep is shorter than half the one before.
NeverCollapses == [][attempt > 0 => slept <= 2 * slept' + 1]_vars
=============================================================================
