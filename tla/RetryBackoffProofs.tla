------------------------- MODULE RetryBackoffProofs -------------------------
(* Bounds on every sleep, for integers of any width and any configuration. *)
EXTENDS RetryBackoff, TLAPS

\* A remainder is below its divisor.
LEMMA ModBound ==
  ASSUME NEW x \in Nat, NEW n \in Nat, n > 0
  PROVE  x % n \in 0..n-1 /\ x % n <= x
OBVIOUS

\* Twice the rounded half of a number is that number or one less.
LEMMA HalfBound ==
  ASSUME NEW x \in Nat
  PROVE  x \div 2 \in Nat /\ 2 * (x \div 2) <= x /\ x <= 2 * (x \div 2) + 1
OBVIOUS

\* The factor is a natural number of at least one and never shrinks.
LEMMA FactorFacts ==
  ASSUME NEW n \in Nat
  PROVE  Factor(n) \in Nat /\ Factor(n) > 0 /\ Factor(n + 1) >= Factor(n)
<1> DEFINE k == Least(n, 10)
<1>1. k \in 0..10 /\ Least(n + 1, 10) = IF k = 10 THEN 10 ELSE k + 1
  BY DEF Least
<1> QED
  BY <1>1 DEF Factor

\* The shift is the power of two it stands for, at most the tenth.
LEMMA FactorIsPower ==
  ASSUME NEW n \in Nat
  PROVE  Factor(n) = 2^Least(n, 10)
<1> DEFINE k == Least(n, 10)
           powers == <<1, 2, 4, 8, 16, 32, 64, 128, 256, 512, 1024>>
<1>1. k \in 0..10
  BY DEF Least
<1>2. Factor(n) = powers[k + 1]
  BY DEF Factor
<1> HIDE DEF k
<1>3. \/ k = 0 \/ k = 1 \/ k = 2 \/ k = 3 \/ k = 4 \/ k = 5
      \/ k = 6 \/ k = 7 \/ k = 8 \/ k = 9 \/ k = 10
  BY <1>1
<1>4. powers[k + 1] = 2^k
  <2>1. CASE k = 0
    BY <2>1
  <2>2. CASE k = 1
    BY <2>2
  <2>3. CASE k = 2
    BY <2>3
  <2>4. CASE k = 3
    BY <2>4
  <2>5. CASE k = 4
    BY <2>5
  <2>6. CASE k = 5
    BY <2>6
  <2>7. CASE k = 6
    BY <2>7
  <2>8. CASE k = 7
    BY <2>8
  <2>9. CASE k = 8
    BY <2>9
  <2>10. CASE k = 9
    BY <2>10
  <2>11. CASE k = 10
    BY <2>11
  <2> QED
    BY <1>3, <2>1, <2>2, <2>3, <2>4, <2>5, <2>6, <2>7, <2>8, <2>9, <2>10, <2>11
<1> QED
  BY <1>2, <1>4 DEF k

\* The capped delay is a machine integer that does not exceed max_delay.
LEMMA CappedFacts ==
  ASSUME NEW base \in Nat, NEW max \in Nat, NEW n \in Nat
  PROVE  /\ Capped(base, max, n) \in 0..Limit - 1
         /\ Capped(base, max, n) <= max
<1>1. AsMillis(base) \in Nat /\ AsMillis(max) \in 0..Limit - 1 /\ AsMillis(max) <= max
  BY LimitAssumption, ModBound DEF AsMillis
<1>2. Factor(n) \in Nat
  BY FactorFacts
<1>3. AsMillis(base) * Factor(n) \in Nat
  BY <1>1, <1>2
<1>4. SaturatingMul(AsMillis(base), Factor(n)) \in Nat
  BY <1>3, LimitAssumption DEF SaturatingMul, Least
<1> QED
  BY <1>1, <1>4, LimitAssumption DEF Capped, Least

\* Jitter moves a delay within its upper half, even where the product wraps.
LEMMA JitterFacts ==
  ASSUME NEW capped \in Nat, NEW n \in Nat
  PROVE  /\ Jittered(capped, n) \in Nat
         /\ Jittered(capped, n) <= capped
         /\ capped <= 2 * Jittered(capped, n) + 1
<1> DEFINE half == capped \div 2
           wrapped == (half * (n + 1)) % Limit
           spread == wrapped % (half + 1)
<1>1. half \in Nat /\ 2 * half <= capped /\ capped <= 2 * half + 1
  BY HalfBound
<1>2. half * (n + 1) \in Nat
  BY <1>1
<1>3. wrapped \in Nat
  BY <1>2, LimitAssumption, ModBound
<1>4. spread \in 0..half
  BY <1>1, <1>3, ModBound
<1>5. Jittered(capped, n) = half + spread
  BY DEF Jittered
<1> HIDE DEF half, wrapped, spread
<1> QED
  BY <1>1, <1>4, <1>5

\* delay_for_attempt for all its inputs: a machine integer, in the upper half of
\* the capped delay and so at most max_delay.
THEOREM DelayWithinBounds ==
  ASSUME NEW base \in Nat, NEW max \in Nat, NEW n \in Nat
  PROVE  /\ delay_for_attempt(base, max, n) \in 0..Limit - 1
         /\ delay_for_attempt(base, max, n) <= Capped(base, max, n)
         /\ Capped(base, max, n) <= max
         /\ Capped(base, max, n) <= 2 * delay_for_attempt(base, max, n) + 1
<1> DEFINE capped == Capped(base, max, n)
<1>1. capped \in 0..Limit - 1 /\ capped <= max
  BY CappedFacts
<1>2. capped \in Nat
  BY <1>1, LimitAssumption
<1>3. Jittered(capped, n) \in Nat /\ Jittered(capped, n) <= capped
      /\ capped <= 2 * Jittered(capped, n) + 1
  BY <1>2, JitterFacts
<1> HIDE DEF capped
<1>4. Jittered(capped, n) \in 0..Limit - 1
  BY <1>1, <1>2, <1>3, LimitAssumption
<1> QED
  BY <1>1, <1>3, <1>4 DEF delay_for_attempt, capped

\* For a configuration within the machine's integers, the product saturates
\* only where max_delay caps it anyway: the capped delay is the exact one.
LEMMA CappedIsExact ==
  ASSUME NEW base \in Nat, NEW max \in Nat, NEW n \in Nat,
         base < Limit, max < Limit
  PROVE  Capped(base, max, n) = Least(base * 2^Least(n, 10), max)
<1>1. AsMillis(base) = base /\ AsMillis(max) = max
  BY LimitAssumption DEF AsMillis
<1>2. PICK f \in Nat : f = Factor(n) /\ f = 2^Least(n, 10)
  BY FactorFacts, FactorIsPower
<1>3. PICK product \in Nat : product = base * f
  OBVIOUS
<1>4. Least(Least(product, Limit - 1), max) = Least(product, max)
  BY LimitAssumption DEF Least
<1> QED
  BY <1>1, <1>2, <1>3, <1>4 DEF Capped, SaturatingMul

\* The capped delay never shrinks from one attempt to the next.
LEMMA CappedGrows ==
  ASSUME NEW base \in Nat, NEW max \in Nat, NEW n \in Nat
  PROVE  Capped(base, max, n) <= Capped(base, max, n + 1)
<1> DEFINE b == AsMillis(base)
           m == AsMillis(max)
           f == Factor(n)
           g == Factor(n + 1)
<1>1. b \in Nat /\ m \in Nat
  BY LimitAssumption, ModBound DEF AsMillis
<1>2. f \in Nat /\ g \in Nat /\ f <= g
  BY FactorFacts
<1> HIDE DEF b, m, f, g
<1>3. b * f \in Nat /\ b * g \in Nat /\ b * f <= b * g
  BY <1>1, <1>2
<1>4. SaturatingMul(b, f) <= SaturatingMul(b, g)
      /\ SaturatingMul(b, f) \in Nat /\ SaturatingMul(b, g) \in Nat
  BY <1>3, LimitAssumption DEF SaturatingMul, Least
<1>5. Least(SaturatingMul(b, f), m) <= Least(SaturatingMul(b, g), m)
  BY <1>1, <1>4 DEF Least
<1> QED
  BY <1>5 DEF Capped, b, m, f, g

-----------------------------------------------------------------------------
\* The last sleep is the delay of the attempt before.
SleptInv == /\ base_delay \in Nat /\ max_delay \in Nat /\ attempt \in Nat
            /\ attempt = 0 => slept = 0
            /\ attempt > 0 => slept = delay_for_attempt(base_delay, max_delay, attempt - 1)

\* The type invariant, and what the last sleep was computed from.
THEOREM Invariance == Spec => [](TypeOK /\ SleptInv)
<1>1. Init => TypeOK /\ SleptInv
  BY DurationAssumption, LimitAssumption DEF Init, TypeOK, SleptInv
<1>2. TypeOK /\ SleptInv /\ [Next]_vars => (TypeOK /\ SleptInv)'
  <2> SUFFICES ASSUME TypeOK, SleptInv, [Next]_vars
               PROVE  (TypeOK /\ SleptInv)'
    OBVIOUS
  <2>1. CASE Sleep
    <3>1. delay_for_attempt(base_delay, max_delay, attempt) \in 0..Limit - 1
      BY DelayWithinBounds DEF SleptInv
    <3>2. TypeOK'
      BY <2>1, <3>1, DurationAssumption DEF Sleep, TypeOK, config
    <3>3. SleptInv'
      <4>1. attempt' = attempt + 1 /\ attempt' - 1 = attempt /\ attempt' > 0
        BY <2>1 DEF Sleep, SleptInv
      <4> QED
        BY <2>1, <4>1 DEF Sleep, SleptInv, config
    <3> QED
      BY <3>2, <3>3
  <2>2. CASE UNCHANGED vars
    BY <2>2 DEF vars, TypeOK, SleptInv
  <2> QED
    BY <2>1, <2>2 DEF Next
<1> QED
  BY <1>1, <1>2, PTL DEF Spec

\* The loop counter stays within the budget and every sleep is an integer of
\* the machine.
THEOREM TypeCorrect == Spec => []TypeOK
BY Invariance, PTL

\* No sleep is shorter than half of the exponential delay that max_delay and
\* the tenfold doubling allow.
THEOREM PatientEnough == Spec => []NeverTooEager
<1>1. TypeOK /\ SleptInv => NeverTooEager
  <2> SUFFICES ASSUME TypeOK, SleptInv,
                      attempt > 0, base_delay < Limit, max_delay < Limit
               PROVE  2 * slept + 1
                        >= Least(base_delay * 2^Least(attempt - 1, 10), max_delay)
    BY DEF NeverTooEager
  <2>1. PICK n \in Nat : n = attempt - 1
    BY DEF SleptInv
  <2>2. base_delay \in Nat /\ max_delay \in Nat
        /\ slept = delay_for_attempt(base_delay, max_delay, n)
    BY <2>1 DEF SleptInv
  <2>3. PICK capped \in Nat : capped = Capped(base_delay, max_delay, n)
    BY <2>2, CappedFacts, LimitAssumption
  <2>4. slept \in Nat /\ capped <= 2 * slept + 1
    BY <2>2, <2>3, DelayWithinBounds, LimitAssumption
  <2>5. capped = Least(base_delay * 2^Least(n, 10), max_delay)
    BY <2>2, <2>3, CappedIsExact
  <2>6. 2 * slept + 1 >= capped
    BY <2>3, <2>4
  <2> QED
    BY <2>1, <2>5, <2>6
<1> QED
  BY <1>1, Invariance, PTL

\* No sleep is longer than max_delay, also where the multiplication saturates
\* or the jitter wraps.
THEOREM MaxRespected == Spec => []NeverLongerThanMax
<1>1. TypeOK /\ SleptInv => NeverLongerThanMax
  <2> SUFFICES ASSUME TypeOK, SleptInv
               PROVE  slept <= max_delay
    BY DEF NeverLongerThanMax
  <2>1. CASE attempt = 0
    BY <2>1 DEF SleptInv
  <2>2. CASE attempt > 0
    <3> DEFINE n == attempt - 1
               capped == Capped(base_delay, max_delay, n)
    <3>1. n \in Nat /\ base_delay \in Nat /\ max_delay \in Nat
      BY <2>2 DEF SleptInv
    <3>2. slept = delay_for_attempt(base_delay, max_delay, n)
      BY <2>2 DEF SleptInv
    <3> HIDE DEF n
    <3>3. capped \in Nat
      BY <3>1, CappedFacts, LimitAssumption
    <3>4. slept \in Nat /\ slept <= capped /\ capped <= max_delay
      BY <3>1, <3>2, DelayWithinBounds, LimitAssumption
    <3> QED
      BY <3>1, <3>3, <3>4
  <2> QED
    BY <2>1, <2>2 DEF SleptInv
<1> QED
  BY <1>1, Invariance, PTL

\* A sleep is never shorter than half the one before it.
THEOREM BackoffGrows == Spec => NeverCollapses
<1>1. TypeOK /\ SleptInv /\ [Next]_vars
        => [attempt > 0 => slept <= 2 * slept' + 1]_vars
  <2> SUFFICES ASSUME SleptInv, Sleep, attempt > 0
               PROVE  slept <= 2 * slept' + 1
    BY DEF Next
  <2>1. PICK n \in Nat : n + 1 = attempt
    <3>1. attempt - 1 \in Nat /\ (attempt - 1) + 1 = attempt
      BY DEF SleptInv
    <3> QED
      BY <3>1
  <2>2. base_delay \in Nat /\ max_delay \in Nat /\ attempt - 1 = n /\ n + 1 \in Nat
    BY <2>1 DEF SleptInv
  <2>3. PICK before \in Nat : before = Capped(base_delay, max_delay, n)
    BY <2>2, CappedFacts, LimitAssumption
  <2>4. PICK now \in Nat : now = Capped(base_delay, max_delay, n + 1)
    BY <2>2, CappedFacts, LimitAssumption
  <2>5. before <= now
    BY <2>2, <2>3, <2>4, CappedGrows
  <2>6. slept = Jittered(before, n)
    BY <2>1, <2>2, <2>3 DEF SleptInv, delay_for_attempt
  <2>7. slept' = Jittered(now, n + 1)
    BY <2>1, <2>4 DEF Sleep, delay_for_attempt
  <2>8. slept \in Nat /\ slept <= before
    BY <2>6, JitterFacts
  <2>9. slept' \in Nat /\ now <= 2 * slept' + 1
    BY <2>2, <2>7, JitterFacts
  <2>10. slept <= now
    BY <2>5, <2>8
  <2>11. slept <= 2 * slept' + 1
    <3>1. \A x, y, z \in Nat : x <= y /\ y <= 2 * z + 1 => x <= 2 * z + 1
      OBVIOUS
    <3> QED
      BY <2>8, <2>9, <2>10, <3>1
  <2> QED
    BY <2>11
<1> QED
  BY <1>1, Invariance, PTL DEF Spec, NeverCollapses
=============================================================================
