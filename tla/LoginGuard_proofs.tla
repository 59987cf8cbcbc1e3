------------------------- MODULE LoginGuard_proofs --------------------------
(***************************************************************************)
(* The safety of AuthAbuseProtector, for every number of logins, addresses *)
(* and threads, every limit, window and lockout time.                      *)
(***************************************************************************)
EXTENDS LoginGuard, FiniteSetTheorems, NaturalsInduction, TLAPS

-----------------------------------------------------------------------------
(* Time.                                                                   *)

LEMMA TimeFacts ==
    /\ TicksPerMilli \in Nat \ {0} /\ MillisPerSecond \in Nat \ {0}
    /\ TicksPerSecond \in Nat \ {0} /\ WindowTicks \in Nat
    /\ \A s \in Nat : LockTicks(s) \in Nat
    /\ LockTicks(0) = 0
    /\ \A r, s \in Nat : r <= s => LockTicks(r) <= LockTicks(s)
<1>0. \A m, n \in Nat \ {0} : m * n \in Nat \ {0}
    OBVIOUS
<1>1. /\ TicksPerMilli \in Nat \ {0} /\ MillisPerSecond \in Nat \ {0}
      /\ TicksPerSecond \in Nat \ {0}
    BY <1>0, BoundAssumption DEF TicksPerSecond
<1>2. \A s \in Nat : s * TicksPerSecond \in Nat
    BY <1>1
<1>3. \A r, s, t \in Nat : r <= s => r * t <= s * t
    OBVIOUS
<1>4. 0 * TicksPerSecond = 0
    BY <1>1
<1> QED BY <1>1, <1>2, <1>3, <1>4, ConfigAssumption DEF WindowTicks, LockTicks

(* A wait that is rounded to seconds is cut short by less than a           *)
(* millisecond, unless it is longer than can be said.                      *)
LEMMA RoundedIsEnough ==
    ASSUME NEW ticks \in Nat \ {0}, NEW at \in Nat
    PROVE  /\ ceil_seconds(ticks) \in Nat \ {0} /\ ceil_seconds(ticks) <= MaxRetry
           /\ Outlasts(ceil_seconds(ticks), at, at + ticks)
<1>1. PICK p \in Nat \ {0}, m \in Nat \ {0} : p = TicksPerMilli /\ m = MillisPerSecond
    BY TimeFacts
<1>2. PICK k : k = ticks \div p
    OBVIOUS
<1>3. k \in Nat /\ ticks < p * k + p
    BY <1>2
<1>4. PICK q : q = (k + m - 1) \div m
    OBVIOUS
<1>5. q \in Int /\ m * q >= k
    <2>1. q \in Int /\ k + m - 1 < m * q + m
        BY <1>3, <1>4
    <2>2. m * q \in Int
        BY <2>1
    <2> QED BY <1>3, <2>1, <2>2
<1>6. PICK w : w = IF q > 1 THEN q ELSE 1
    OBVIOUS
<1>7. w \in Nat \ {0} /\ w >= q
    BY <1>5, <1>6
<1>8. w = Rounded(ticks, p, m)
    BY <1>2, <1>4, <1>6 DEF Rounded
<1>9. ceil_seconds(ticks) = IF w > MaxRetry THEN MaxRetry ELSE w
    BY <1>1, <1>8 DEF ceil_seconds, Saturated
<1>10. MaxRetry \in Nat \ {0}
    BY ConfigAssumption
<1>11. CASE w > MaxRetry
    BY <1>9, <1>10, <1>11 DEF Outlasts
<1>12. CASE ~(w > MaxRetry)
    <2>1. ceil_seconds(ticks) = w /\ w <= MaxRetry
        BY <1>7, <1>9, <1>10, <1>12
    <2>2. m * w >= m * q
        BY <1>5, <1>7
    <2>3. m * w \in Nat /\ m * q \in Int
        BY <1>5, <1>7
    <2>4. m * w >= k
        BY <1>3, <1>5, <2>2, <2>3
    <2>5. p * (m * w) >= p * k
        BY <1>3, <2>3, <2>4
    <2>6. LockTicks(w) = p * (m * w)
        <3>1. LockTicks(w) = w * (m * p)
            BY <1>1 DEF LockTicks, TicksPerSecond
        <3>2. w * (m * p) = p * (m * w)
            BY <1>7
        <3> QED BY <3>1, <3>2
    <2>7. PICK t, u \in Nat : t = p * (m * w) /\ u = p * k
        BY <1>3, <2>3
    <2>8. at + ticks < at + t + p
        <3>1. ticks < u + p /\ t >= u
            BY <1>3, <2>5, <2>7
        <3> QED BY <2>7, <3>1
    <2>9. Outlasts(w, at, at + ticks)
        BY <1>1, <2>6, <2>7, <2>8 DEF Outlasts
    <2> QED BY <1>7, <2>1, <2>9
<1> QED BY <1>11, <1>12

(* What a decision to wait for so long says about the end of a lock: that  *)
(* it is past, or that the wait outlasts it.                               *)
Covered(retry, at, until) ==
    IF retry = 0 THEN until <= at ELSE Outlasts(retry, at, until)

LEMMA CoveredFacts ==
    ASSUME NEW at \in Nat, NEW until \in Nat, NEW retry \in Nat, NEW longer \in Nat,
           retry <= longer, longer <= MaxRetry, Covered(retry, at, until)
    PROVE  Covered(longer, at, until)
<1>1. CASE longer = 0
    BY <1>1
<1>2. CASE longer # 0 /\ retry = MaxRetry
    BY <1>2, ConfigAssumption DEF Covered, Outlasts
<1>3. CASE longer # 0 /\ retry # MaxRetry
    <2>1. PICK u, v, p \in Nat : u = LockTicks(retry) /\ v = LockTicks(longer) /\ p = TicksPerMilli
        BY TimeFacts
    <2>2. u <= v /\ p > 0
        BY <2>1, TimeFacts
    <2>3. until < at + u + p
        <3>1. CASE retry = 0
            BY <2>1, <2>2, <3>1 DEF Covered
        <3>2. CASE retry # 0
            BY <1>3, <2>1, <3>2 DEF Covered, Outlasts
        <3> QED BY <3>1, <3>2
    <2>4. until < at + v + p
        BY <2>1, <2>2, <2>3
    <2> QED BY <1>3, <2>1, <2>4 DEF Covered, Outlasts
<1> QED BY <1>1, <1>2, <1>3

(* An earlier end is covered as well.                                      *)
LEMMA CoveredEarlier ==
    ASSUME NEW at \in Nat, NEW until \in Nat, NEW sooner \in Nat, NEW retry \in Nat,
           sooner <= until, Outlasts(retry, at, until)
    PROVE  Outlasts(retry, at, sooner)
<1>1. PICK u, p \in Nat : u = LockTicks(retry) /\ p = TicksPerMilli
    BY TimeFacts
<1> QED BY <1>1 DEF Outlasts

-----------------------------------------------------------------------------
(* The length of a lock.                                                   *)

(* Induction over the natural numbers, about a set instead of a predicate. *)
LEMMA SetInduction ==
    ASSUME NEW S, 0 \in S, \A n \in Nat : n \in S => n + 1 \in S
    PROVE  Nat \subseteq S
<1> SUFFICES ASSUME Nat \ S # {} PROVE FALSE
    OBVIOUS
<1> DEFINE R == OpToRel(<, Nat)
<1>1. IsWellFoundedOn(R, Nat)
    BY NatLessThanWellFounded
<1>2. PICK x \in Nat \ S : \A y \in Nat \ S : ~(<<y, x>> \in R)
    <2> HIDE DEF R
    <2> QED BY <1>1, WFMin
<1>3. x # 0 /\ x - 1 \in Nat /\ x - 1 < x
    OBVIOUS
<1>4. <<x - 1, x>> \in R
    BY <1>3 DEF OpToRel
<1>5. x - 1 \in S
    BY <1>2, <1>3, <1>4
<1>6. (x - 1) + 1 \in S
    BY <1>3, <1>5
<1> QED BY <1>6

(* The first n rounds of a loop that starts at 1.                          *)
Positive == Nat \ {0}

Rounds(step, n) ==
    {g \in [0 .. n -> Positive] : g[0] = 1 /\ \A i \in 1 .. n : g[i] = step[g[i - 1]]}

LEMMA RoundsExist ==
    ASSUME NEW step \in [Positive -> Positive]
    PROVE  \A n \in Nat : Rounds(step, n) # {}
<1> DEFINE T == {n \in Nat : Rounds(step, n) # {}}
<1>1. 0 \in T
    <2> DEFINE g == [i \in 0 .. 0 |-> 1]
    <2>1. g \in [0 .. 0 -> Positive] /\ g[0] = 1
        BY DEF Positive
    <2>2. g \in Rounds(step, 0)
        BY <2>1 DEF Rounds
    <2> QED BY <2>2
<1>2. \A n \in Nat : n \in T => n + 1 \in T
    <2> SUFFICES ASSUME NEW n \in Nat, Rounds(step, n) # {} PROVE Rounds(step, n + 1) # {}
        OBVIOUS
    <2>1. PICK g : g \in Rounds(step, n)
        OBVIOUS
    <2>2. g \in [0 .. n -> Positive] /\ g[0] = 1 /\ \A i \in 1 .. n : g[i] = step[g[i - 1]]
        BY <2>1 DEF Rounds
    <2> DEFINE h == [i \in 0 .. n + 1 |-> IF i = n + 1 THEN step[g[n]] ELSE g[i]]
    <2>3. step[g[n]] \in Positive
        BY <2>2
    <2>4. \A i \in 0 .. n : h[i] = g[i]
        OBVIOUS
    <2>5. h[n + 1] = step[g[n]]
        OBVIOUS
    <2>6. h \in [0 .. n + 1 -> Positive]
        BY <2>2, <2>3
    <2> HIDE DEF h
    <2>7. \A i \in 1 .. n + 1 : h[i] = step[h[i - 1]]
        <3>1. ASSUME NEW i \in 1 .. n PROVE h[i] = step[h[i - 1]]
            <4>1. i \in 0 .. n /\ i - 1 \in 0 .. n
                OBVIOUS
            <4> QED BY <2>2, <2>4, <4>1
        <3>2. h[n + 1] = step[h[(n + 1) - 1]]
            BY <2>4, <2>5
        <3> QED BY <3>1, <3>2
    <2>8. h \in Rounds(step, n + 1)
        BY <2>2, <2>4, <2>6, <2>7 DEF Rounds
    <2> QED BY <2>8
<1>3. Nat \subseteq T
    <2> HIDE DEF T
    <2> QED BY <1>1, <1>2, SetInduction
<1> QED BY <1>3

LEMMA RoundsAgree ==
    ASSUME NEW step, NEW n \in Nat, NEW m \in Nat, n <= m,
           NEW g \in Rounds(step, n), NEW h \in Rounds(step, m)
    PROVE  \A i \in 0 .. n : g[i] = h[i]
<1> DEFINE T == {i \in Nat : i <= n => g[i] = h[i]}
<1>1. 0 \in T
    BY DEF Rounds
<1>2. \A i \in Nat : i \in T => i + 1 \in T
    <2> SUFFICES ASSUME NEW i \in Nat, i \in T, i + 1 <= n PROVE g[i + 1] = h[i + 1]
        OBVIOUS
    <2>1. i <= n /\ i + 1 \in 1 .. n /\ i + 1 \in 1 .. m /\ (i + 1) - 1 = i
        OBVIOUS
    <2>2. g[i] = h[i]
        BY <2>1
    <2>3. g[i + 1] = step[g[(i + 1) - 1]] /\ h[i + 1] = step[h[(i + 1) - 1]]
        BY <2>1 DEF Rounds
    <2> QED BY <2>1, <2>2, <2>3
<1>3. Nat \subseteq T
    <2> HIDE DEF T
    <2> QED BY <1>1, <1>2, SetInduction
<1> QED BY <1>3

(* The function of all rounds.                                             *)
LEMMA LoopFunction ==
    ASSUME NEW step \in [Positive -> Positive]
    PROVE  \E f : /\ f = [n \in Nat |-> f[n]] /\ f[0] = 1
                  /\ \A n \in Nat : n # 0 => f[n] = step[f[n - 1]]
<1> DEFINE f == [n \in Nat |-> (CHOOSE g : g \in Rounds(step, n))[n]]
<1>1. \A n \in Nat : \E g \in Rounds(step, n) : f[n] = g[n]
    BY RoundsExist
<1>2. f[0] = 1
    BY <1>1 DEF Rounds
<1>3. ASSUME NEW n \in Nat, n # 0 PROVE f[n] = step[f[n - 1]]
    <2>1. n - 1 \in Nat /\ n - 1 <= n /\ n \in 1 .. n /\ n - 1 \in 0 .. n - 1
        BY <1>3
    <2>2. PICK g \in Rounds(step, n) : f[n] = g[n]
        BY <1>1
    <2>3. PICK h \in Rounds(step, n - 1) : f[n - 1] = h[n - 1]
        BY <1>1, <2>1
    <2>4. h[n - 1] = g[n - 1]
        BY <2>1, RoundsAgree
    <2>5. g[n] = step[g[n - 1]]
        BY <2>1 DEF Rounds
    <2> HIDE DEF f
    <2> QED BY <2>2, <2>3, <2>4, <2>5
<1>4. f = [n \in Nat |-> f[n]]
    OBVIOUS
<1> HIDE DEF f
<1> QED BY <1>2, <1>3, <1>4

(* One round of the loop of lockout_duration.                              *)
Round(m) == IF m >= MaxLockout THEN m ELSE 2 * m

LEMMA MultiplierFacts ==
    /\ multiplier[0] = 1
    /\ \A n \in Nat : multiplier[n + 1] = Round(multiplier[n])
    /\ \A n \in Nat : multiplier[n] \in Nat \ {0}
<1> DEFINE Body(f, n) == IF n = 0 THEN 1
                         ELSE IF f[n - 1] >= MaxLockout THEN f[n - 1] ELSE 2 * f[n - 1]
           step == [m \in Positive |-> Round(m)]
<1>1. step \in [Positive -> Positive] /\ \A m \in Positive : step[m] = Round(m)
    BY DEF Round, Positive
<1> HIDE DEF step
<1>2. PICK f : /\ f = [n \in Nat |-> f[n]] /\ f[0] = 1
               /\ \A n \in Nat : n # 0 => f[n] = step[f[n - 1]]
    BY <1>1, LoopFunction
<1>3. \A n \in Nat : f[n] \in Positive
    <2> DEFINE T == {n \in Nat : f[n] \in Positive}
    <2>1. 0 \in T
        BY <1>2 DEF Positive
    <2>2. \A n \in Nat : n \in T => n + 1 \in T
        <3> SUFFICES ASSUME NEW n \in Nat, f[n] \in Positive PROVE f[n + 1] \in Positive
            OBVIOUS
        <3>1. n + 1 \in Nat /\ n + 1 # 0 /\ (n + 1) - 1 = n
            OBVIOUS
        <3>2. f[n + 1] = step[f[n]]
            BY <1>2, <3>1
        <3> QED BY <1>1, <3>2
    <2>3. Nat \subseteq T
        <3> HIDE DEF T
        <3> QED BY <2>1, <2>2, SetInduction
    <2> QED BY <2>3
<1>4. ASSUME NEW n \in Nat PROVE f[n] = Body(f, n)
    <2>1. CASE n = 0
        BY <1>2, <2>1
    <2>2. CASE n # 0
        <3>1. n - 1 \in Nat
            BY <2>2
        <3>2. f[n] = Round(f[n - 1])
            BY <1>1, <1>2, <1>3, <2>2, <3>1
        <3> QED BY <2>2, <3>2 DEF Round
    <2> QED BY <2>1, <2>2
<1>5. f = [n \in Nat |-> Body(f, n)]
    BY <1>2, <1>4
<1>6. multiplier = CHOOSE h : h = [n \in Nat |-> Body(h, n)]
    BY DEF multiplier
<1>7. multiplier = [n \in Nat |-> Body(multiplier, n)]
    BY <1>5, <1>6
<1>8. \A n \in Nat : multiplier[n] = Body(multiplier, n)
    BY <1>7
<1>9. multiplier[0] = 1
    BY <1>8
<1>10. \A n \in Nat : multiplier[n + 1] = Round(multiplier[n])
    <2>1. ASSUME NEW n \in Nat PROVE multiplier[n + 1] = Round(multiplier[n])
        <3>1. n + 1 \in Nat /\ n + 1 # 0 /\ (n + 1) - 1 = n
            OBVIOUS
        <3>2. multiplier[n + 1] = Body(multiplier, n + 1)
            BY <1>8, <3>1
        <3> QED BY <3>1, <3>2 DEF Round
    <2> QED BY <2>1
<1> DEFINE T == {n \in Nat : multiplier[n] \in Nat \ {0}}
<1>11. 0 \in T
    BY <1>9
<1>12. \A n \in Nat : n \in T => n + 1 \in T
    BY <1>10 DEF Round
<1>13. Nat \subseteq T
    <2> HIDE DEF T
    <2> QED BY <1>11, <1>12, SetInduction
<1> QED BY <1>9, <1>10, <1>13

LEMMA PowerFacts ==
    /\ PowerOfTwo[0] = 1
    /\ \A n \in Nat : PowerOfTwo[n + 1] = 2 * PowerOfTwo[n]
    /\ \A n \in Nat : PowerOfTwo[n] \in Nat \ {0}
<1> DEFINE Body(f, n) == IF n = 0 THEN 1 ELSE 2 * f[n - 1]
           step == [m \in Positive |-> 2 * m]
<1>1. step \in [Positive -> Positive] /\ \A m \in Positive : step[m] = 2 * m
    BY DEF Positive
<1> HIDE DEF step
<1>2. PICK f : /\ f = [n \in Nat |-> f[n]] /\ f[0] = 1
               /\ \A n \in Nat : n # 0 => f[n] = step[f[n - 1]]
    BY <1>1, LoopFunction
<1>3. \A n \in Nat : f[n] \in Positive
    <2> DEFINE T == {n \in Nat : f[n] \in Positive}
    <2>1. 0 \in T
        BY <1>2 DEF Positive
    <2>2. \A n \in Nat : n \in T => n + 1 \in T
        <3> SUFFICES ASSUME NEW n \in Nat, f[n] \in Positive PROVE f[n + 1] \in Positive
            OBVIOUS
        <3>1. n + 1 \in Nat /\ n + 1 # 0 /\ (n + 1) - 1 = n
            OBVIOUS
        <3>2. f[n + 1] = step[f[n]]
            BY <1>2, <3>1
        <3> QED BY <1>1, <3>2
    <2>3. Nat \subseteq T
        <3> HIDE DEF T
        <3> QED BY <2>1, <2>2, SetInduction
    <2> QED BY <2>3
<1>4. ASSUME NEW n \in Nat PROVE f[n] = Body(f, n)
    <2>1. CASE n = 0
        BY <1>2, <2>1
    <2>2. CASE n # 0
        <3>1. n - 1 \in Nat
            BY <2>2
        <3>2. f[n] = 2 * f[n - 1]
            BY <1>1, <1>2, <1>3, <2>2, <3>1
        <3> QED BY <2>2, <3>2
    <2> QED BY <2>1, <2>2
<1>5. f = [n \in Nat |-> Body(f, n)]
    BY <1>2, <1>4
<1>6. PowerOfTwo = CHOOSE h : h = [n \in Nat |-> Body(h, n)]
    BY DEF PowerOfTwo
<1>7. PowerOfTwo = [n \in Nat |-> Body(PowerOfTwo, n)]
    BY <1>5, <1>6
<1>8. \A n \in Nat : PowerOfTwo[n] = Body(PowerOfTwo, n)
    BY <1>7
<1>9. PowerOfTwo[0] = 1
    BY <1>8
<1>10. \A n \in Nat : PowerOfTwo[n + 1] = 2 * PowerOfTwo[n]
    <2>1. ASSUME NEW n \in Nat PROVE PowerOfTwo[n + 1] = 2 * PowerOfTwo[n]
        <3>1. n + 1 \in Nat /\ n + 1 # 0 /\ (n + 1) - 1 = n
            OBVIOUS
        <3>2. PowerOfTwo[n + 1] = Body(PowerOfTwo, n + 1)
            BY <1>8, <3>1
        <3> QED BY <3>1, <3>2
    <2> QED BY <2>1
<1> DEFINE T == {n \in Nat : PowerOfTwo[n] \in Nat \ {0}}
<1>11. 0 \in T
    BY <1>9
<1>12. \A n \in Nat : n \in T => n + 1 \in T
    BY <1>10
<1>13. Nat \subseteq T
    <2> HIDE DEF T
    <2> QED BY <1>11, <1>12, SetInduction
<1> QED BY <1>9, <1>10, <1>13

(* The loop doubles until it has reached the maximum.                      *)
LEMMA MultiplierDoubles ==
    \A n \in Nat :
        \/ multiplier[n] = PowerOfTwo[n]
        \/ multiplier[n] >= MaxLockout /\ multiplier[n] <= PowerOfTwo[n]
<1> DEFINE T == {n \in Nat : \/ multiplier[n] = PowerOfTwo[n]
                             \/ multiplier[n] >= MaxLockout /\ multiplier[n] <= PowerOfTwo[n]}
<1>1. 0 \in T
    BY MultiplierFacts, PowerFacts
<1>2. \A n \in Nat : n \in T => n + 1 \in T
    <2> SUFFICES ASSUME NEW n \in Nat, n \in T PROVE n + 1 \in T
        OBVIOUS
    <2>1. PICK m, p, m2, p2 : /\ m = multiplier[n] /\ p = PowerOfTwo[n]
                              /\ m2 = multiplier[n + 1] /\ p2 = PowerOfTwo[n + 1]
        OBVIOUS
    <2>2. m \in Nat /\ p \in Nat /\ m2 = Round(m) /\ p2 = 2 * p /\ MaxLockout \in Nat
        BY <2>1, MultiplierFacts, PowerFacts, ConfigAssumption
    <2>3. m = p \/ (m >= MaxLockout /\ m <= p)
        BY <2>1
    <2>4. m2 = p2 \/ (m2 >= MaxLockout /\ m2 <= p2)
        BY <2>2, <2>3 DEF Round
    <2> QED BY <2>1, <2>4
<1>3. Nat \subseteq T
    <2> HIDE DEF T
    <2> QED BY <1>1, <1>2, SetInduction
<1> QED BY <1>3

(* What lockout_duration computes: the full length, or the maximum.        *)
LEMMA LockoutLength ==
    ASSUME NEW level \in Nat \ {0}
    PROVE  lockout_duration(level) = LockoutSeconds(level)
<1>1. PICK f, p, x, y : /\ f = multiplier[level - 1] /\ p = PowerOfTwo[level - 1]
                        /\ x = BaseLockout /\ y = MaxLockout
    OBVIOUS
<1>2. level - 1 \in Nat
    OBVIOUS
<1>3. /\ f \in Nat \ {0} /\ p \in Nat \ {0} /\ x \in Nat \ {0} /\ y \in Nat \ {0}
      /\ f = p \/ (f >= y /\ f <= p)
    BY <1>1, <1>2, MultiplierFacts, PowerFacts, MultiplierDoubles, ConfigAssumption
<1>4. PICK q : q = y \div f
    OBVIOUS
<1>5. q \in Int /\ f * q <= y /\ y < f * q + f
    BY <1>3, <1>4
<1>6. x > q <=> x * f > y
    <2>1. CASE x > q
        <3>1. x >= q + 1
            BY <1>3, <1>5, <2>1
        <3>2. x * f >= (q + 1) * f /\ (q + 1) * f = f * q + f
            BY <1>3, <1>5, <3>1
        <3> QED BY <1>3, <1>5, <2>1, <3>2
    <2>2. CASE ~(x > q)
        <3>1. x <= q
            BY <1>3, <1>5, <2>2
        <3>2. x * f <= q * f /\ q * f = f * q
            BY <1>3, <1>5, <3>1
        <3> QED BY <1>3, <1>5, <2>2, <3>2
    <2> QED BY <2>1, <2>2
<1>7. lockout_duration(level) = IF x * f > y THEN y ELSE x * f
    BY <1>1, <1>4, <1>6 DEF lockout_duration
<1>8. LockoutSeconds(level) = IF x * p < y THEN x * p ELSE y
    BY <1>1 DEF LockoutSeconds
<1>9. CASE f = p
    <2>1. x * f \in Nat
        BY <1>3
    <2> QED BY <1>3, <1>7, <1>8, <1>9, <2>1
<1>10. CASE f >= y /\ f <= p
    <2>1. x * f >= f /\ x * p >= x * f /\ x * f \in Nat /\ x * p \in Nat
        BY <1>3, <1>10
    <2> QED BY <1>3, <1>7, <1>8, <1>10, <2>1
<1> QED BY <1>3, <1>9, <1>10

LEMMA LockoutType ==
    ASSUME NEW level \in Nat \ {0}
    PROVE  lockout_duration(level) \in Nat \ {0} /\ lockout_duration(level) <= MaxLockout
<1>1. level - 1 \in Nat
    OBVIOUS
<1>2. PICK factor \in Nat \ {0} : factor = multiplier[level - 1]
    BY <1>1, MultiplierFacts
<1>3. lockout_duration(level) = MaxLockout \/ lockout_duration(level) = BaseLockout * factor
    BY <1>2 DEF lockout_duration
<1>4. BaseLockout \in Nat \ {0} /\ MaxLockout \in Nat \ {0}
    BY ConfigAssumption
<1>5. BaseLockout * factor \in Nat \ {0}
    BY <1>4
<1>6. lockout_duration(level) \in Nat \ {0}
    BY <1>3, <1>4, <1>5
<1>7. PICK full : full = BaseLockout * PowerOfTwo[level - 1]
    OBVIOUS
<1>8. full \in Nat
    BY <1>1, <1>4, <1>7, PowerFacts
<1>9. lockout_duration(level) = IF full < MaxLockout THEN full ELSE MaxLockout
    BY <1>7, LockoutLength DEF LockoutSeconds
<1> QED BY <1>4, <1>6, <1>8, <1>9

LEMMA LengthType ==
    ASSUME NEW level \in Nat \ {0}
    PROVE  LockTicks(LockoutSeconds(level)) \in Nat
    BY LockoutLength, LockoutType, TimeFacts

-----------------------------------------------------------------------------
(* The decisions.                                                          *)

(* A decision is typed, and its wait is long enough for the lock it leaves.*)
Honest(d, at) ==
    /\ d.state \in FailureState /\ d.allowed \in BOOLEAN /\ d.locks \in BOOLEAN
    /\ d.retry \in Nat /\ d.retry <= MaxRetry /\ (d.allowed <=> d.retry = 0)
    /\ Covered(d.retry, at, d.state.locked_until)

(* It makes no lock longer, and leaves one that is in force alone.         *)
Softer(d, state, at) ==
    /\ ~d.locks => d.state.locked_until <= state.locked_until
    /\ state.locked_until > at =>
          ~d.locks /\ ~d.allowed /\ d.state.locked_until = state.locked_until

(* The level after that state: the next, or the first after a quiet time.  *)
Climbs(level, state, at) ==
    \/ level = state.lockout_level + 1
    \/ level = 1 /\ StartsOver(state, at)

(* The lock it begins has its full length and the level that is due.       *)
Timed(d, state, at) ==
    d.locks =>
        /\ d.state.lockout_level # 0
        /\ Climbs(d.state.lockout_level, state, at)
        /\ d.state.locked_until = at + LockTicks(LockoutSeconds(d.state.lockout_level))

LEMMA StateFields ==
    ASSUME NEW s \in FailureState
    PROVE  /\ s.failures \in Nat /\ s.lockout_level \in Nat /\ s.window_started \in Nat
           /\ s.locked_until \in Nat /\ s.last_seen \in Nat
    BY DEF FailureState

LEMMA CheckState ==
    ASSUME NEW state \in FailureState, NEW at \in Nat
    PROVE  LET d == check_state(state, at)
           IN  Honest(d, at) /\ Softer(d, state, at) /\ d.locks = FALSE
<1> DEFINE seen == [state EXCEPT !.last_seen = at]
           fresh == [seen EXCEPT !.failures = 0, !.lockout_level = 0,
                                 !.window_started = at, !.locked_until = 0]
           opened == [seen EXCEPT !.failures = 0, !.window_started = at]
           wait == ceil_seconds(state.locked_until - at)
           d == check_state(state, at)
<1>1. /\ seen \in FailureState /\ seen.locked_until = state.locked_until
      /\ fresh \in FailureState /\ fresh.locked_until = 0
      /\ opened \in FailureState /\ opened.locked_until = state.locked_until
    BY DEF FailureState
<1>2. state.locked_until \in Nat
    BY StateFields
<1>3. CASE state.locked_until > at
    <2>1. state.locked_until - at \in Nat \ {0}
        BY <1>2, <1>3
    <2>2. /\ wait \in Nat \ {0} /\ wait <= MaxRetry
          /\ Outlasts(wait, at, at + (state.locked_until - at))
        BY <2>1, RoundedIsEnough
    <2>3. at + (state.locked_until - at) = state.locked_until
        BY <1>2
    <2>4. Covered(wait, at, state.locked_until)
        BY <2>2, <2>3 DEF Covered
    <2> HIDE DEF seen, wait
    <2>5. d = Refused(seen, wait)
        BY <1>3 DEF check_state, seen, wait
    <2>6. /\ d.state = seen /\ d.allowed = FALSE /\ d.retry = wait /\ d.locks = FALSE
        BY <2>5 DEF Refused
    <2> HIDE DEF d
    <2>7. Honest(d, at)
        BY <1>1, <2>2, <2>4, <2>6 DEF Honest
    <2>8. Softer(d, state, at)
        BY <1>1, <1>2, <2>6 DEF Softer
    <2> QED BY <2>6, <2>7, <2>8 DEF d
<1>4. ASSUME NEW s \in FailureState, s.locked_until \in {0, state.locked_until},
             ~(state.locked_until > at)
      PROVE  LET a == Allowed(s) IN Honest(a, at) /\ Softer(a, state, at) /\ a.locks = FALSE
    <2> DEFINE a == Allowed(s)
    <2>1. a.state = s /\ a.allowed = TRUE /\ a.retry = 0 /\ a.locks = FALSE
        BY DEF Allowed
    <2> HIDE DEF a
    <2>2. s.locked_until <= at /\ s.locked_until <= state.locked_until
        BY <1>2, <1>4
    <2>4. Honest(a, at)
        <3>2. Covered(a.retry, at, a.state.locked_until)
            BY <2>1, <2>2 DEF Covered
        <3>3. a.retry \in Nat /\ a.retry <= MaxRetry /\ (a.allowed <=> a.retry = 0)
            BY <2>1, ConfigAssumption
        <3>4. a.allowed \in BOOLEAN /\ a.locks \in BOOLEAN /\ a.state \in FailureState
            BY <1>4, <2>1
        <3> QED BY <3>2, <3>3, <3>4 DEF Honest
    <2>5. Softer(a, state, at)
        BY <1>4, <2>1, <2>2 DEF Softer
    <2> QED BY <2>1, <2>4, <2>5 DEF a
<1>5. CASE ~(state.locked_until > at)
    <2>1. d = Allowed(fresh) \/ d = Allowed(opened) \/ d = Allowed(seen)
        BY <1>5, Zenon DEF check_state
    <2> HIDE DEF seen, fresh, opened, d
    <2> QED BY <1>1, <1>4, <1>5, <2>1 DEF d
<1> QED BY <1>3, <1>5

LEMMA LevelClimbs ==
    ASSUME NEW state \in FailureState, NEW at \in Nat, check_state(state, at).allowed
    PROVE  LET opened == OpenWindow(check_state(state, at).state, at)
           IN  Climbs(opened.lockout_level + 1, state, at)
<1> DEFINE seen == [state EXCEPT !.last_seen = at]
           fresh == [seen EXCEPT !.failures = 0, !.lockout_level = 0,
                                 !.window_started = at, !.locked_until = 0]
           renewed == [seen EXCEPT !.failures = 0, !.window_started = at]
           s == check_state(state, at).state
           Reset(t) == [t EXCEPT !.failures = 0, !.lockout_level = 0, !.window_started = at]
<1>1. /\ state.lockout_level \in Nat /\ state.window_started \in Nat /\ WindowTicks \in Nat
    BY StateFields, TimeFacts
<1>2. /\ fresh.lockout_level = 0 /\ Reset(fresh).lockout_level = 0
      /\ renewed.lockout_level = state.lockout_level /\ renewed.window_started = at
      /\ seen.lockout_level = state.lockout_level /\ seen.window_started = state.window_started
      /\ Reset(seen).lockout_level = 0
    BY DEF FailureState
<1>3. ~(state.locked_until > at)
    BY DEF check_state, Refused
<1>4. \A t : OpenWindow(t, at) =
                 IF t.window_started = 0 \/ at - t.window_started > WindowTicks
                 THEN Reset(t) ELSE t
    BY DEF OpenWindow
<1>5. CASE QuietAfterLock(state, at) \/ QuietWithoutLock(state, at)
    <2>1. s = fresh
        BY <1>3, <1>5, Zenon DEF check_state, Allowed
    <2>2. OpenWindow(s, at).lockout_level = 0
        <3> HIDE DEF fresh, Reset, s
        <3>1. OpenWindow(s, at) = Reset(fresh) \/ OpenWindow(s, at) = fresh
            BY <1>4, <2>1
        <3> QED BY <1>2, <3>1
    <2> QED BY <1>5, <2>2 DEF Climbs, StartsOver
<1>6. CASE /\ ~(QuietAfterLock(state, at) \/ QuietWithoutLock(state, at))
           /\ state.window_started # 0 /\ at - state.window_started > WindowTicks
    <2>1. s = renewed
        BY <1>3, <1>6, Zenon DEF check_state, Allowed
    <2>2. ~(at = 0 \/ at - at > WindowTicks)
        BY <1>1, <1>6
    <2>3. OpenWindow(s, at) = renewed
        BY <1>2, <1>4, <2>1, <2>2
    <2> QED BY <1>2, <2>3 DEF Climbs
<1>7. CASE /\ ~(QuietAfterLock(state, at) \/ QuietWithoutLock(state, at))
           /\ ~(state.window_started # 0 /\ at - state.window_started > WindowTicks)
    <2>1. s = seen
        BY <1>3, <1>7, Zenon DEF check_state, Allowed
    <2>2. CASE state.window_started = 0
        <3>1. OpenWindow(s, at).lockout_level = 0
            BY <1>2, <1>4, <2>1, <2>2
        <3> QED BY <2>2, <3>1 DEF Climbs, StartsOver
    <2>3. CASE state.window_started # 0
        <3>1. OpenWindow(s, at) = seen
            BY <1>2, <1>4, <1>7, <2>1, <2>3
        <3> QED BY <1>2, <3>1 DEF Climbs
    <2> QED BY <2>2, <2>3
<1> QED BY <1>5, <1>6, <1>7

LEMMA RecordState ==
    ASSUME NEW state \in FailureState, NEW limit, NEW at \in Nat
    PROVE  LET d == record_failure_state(state, limit, at)
           IN  Honest(d, at) /\ Softer(d, state, at) /\ Timed(d, state, at)
<1> DEFINE current == check_state(state, at)
           opened == OpenWindow(current.state, at)
           level == opened.lockout_level + 1
           length == lockout_duration(level)
           counted == [opened EXCEPT !.failures = @ + 1]
           locked == [opened EXCEPT !.failures = 0, !.lockout_level = level,
                                    !.locked_until = at + LockTicks(length)]
           d == record_failure_state(state, limit, at)
<1>1. Honest(current, at) /\ Softer(current, state, at) /\ current.locks = FALSE
    BY CheckState
<1>2. state.locked_until \in Nat
    BY StateFields
<1>3. CASE ~current.allowed
    <2>1. d = current
        BY <1>3 DEF record_failure_state
    <2> HIDE DEF d, current
    <2> QED BY <1>1, <2>1 DEF d, Timed
<1>4. CASE current.allowed
    <2>1. ~(state.locked_until > at)
        <3> HIDE DEF current
        <3> QED BY <1>1, <1>4 DEF Softer
    <2>2. current.state \in FailureState /\ current.state.locked_until <= state.locked_until
        <3> HIDE DEF current
        <3> QED BY <1>1 DEF Honest, Softer
    <2>3. PICK s : s = current.state
        OBVIOUS
    <2>4. opened \in FailureState /\ opened.locked_until = s.locked_until
        <3>1. opened = s \/ opened = [s EXCEPT !.failures = 0, !.lockout_level = 0, !.window_started = at]
            BY <2>3 DEF OpenWindow
        <3> HIDE DEF opened, current
        <3>2. CASE opened = s
            BY <2>2, <2>3, <3>2
        <3>3. CASE opened = [s EXCEPT !.failures = 0, !.lockout_level = 0, !.window_started = at]
            <4>1. s \in FailureState
                BY <2>2, <2>3
            <4> QED BY <3>3, <4>1 DEF FailureState
        <3> QED BY <3>1, <3>2, <3>3
    <2> HIDE DEF opened
    <2>5. level \in Nat \ {0} /\ opened.locked_until \in Nat /\ opened.failures \in Nat
        BY <2>4, StateFields
    <2>6. length \in Nat \ {0} /\ length <= MaxRetry
        <3> HIDE DEF level
        <3> QED BY <2>5, LockoutType, ConfigAssumption
    <2>10. Climbs(level, state, at)
        BY <1>4, LevelClimbs DEF opened
    <2>7. LockTicks(length) \in Nat
        BY <2>6, TimeFacts
    <2>8. CASE opened.failures + 1 < limit
        <3>1. d = Allowed(counted)
            BY <1>4, <2>8 DEF record_failure_state, opened
        <3>2. counted \in FailureState /\ counted.locked_until = opened.locked_until
            BY <2>4, <2>5 DEF FailureState
        <3> HIDE DEF counted, current
        <3>3. d.state = counted /\ d.allowed = TRUE /\ d.retry = 0 /\ d.locks = FALSE
            BY <3>1 DEF Allowed
        <3>4. counted.locked_until <= at /\ counted.locked_until <= state.locked_until
            BY <1>2, <2>1, <2>2, <2>3, <2>4, <2>5, <3>2
        <3> HIDE DEF d
        <3>6. Honest(d, at)
            <4>2. Covered(d.retry, at, d.state.locked_until)
                BY <3>3, <3>4 DEF Covered
            <4>3. d.retry \in Nat /\ d.retry <= MaxRetry /\ (d.allowed <=> d.retry = 0)
                BY <3>3, ConfigAssumption
            <4>4. d.allowed \in BOOLEAN /\ d.locks \in BOOLEAN /\ d.state \in FailureState
                BY <3>2, <3>3
            <4> QED BY <4>2, <4>3, <4>4 DEF Honest
        <3>7. Softer(d, state, at)
            BY <2>1, <3>3, <3>4 DEF Softer
        <3>8. Timed(d, state, at)
            BY <3>3 DEF Timed
        <3> QED BY <3>6, <3>7, <3>8 DEF d
    <2>9. CASE ~(opened.failures + 1 < limit)
        <3>1. d = [state |-> locked, allowed |-> FALSE, retry |-> length, locks |-> TRUE]
            BY <1>4, <2>9 DEF record_failure_state, opened
        <3>2. /\ locked \in FailureState /\ locked.locked_until = at + LockTicks(length)
              /\ locked.lockout_level = level
            <4>1. PICK u \in Nat : u = at + LockTicks(length)
                BY <2>7
            <4>2. PICK v \in Nat : v = level
                BY <2>5
            <4>3. locked = [opened EXCEPT !.failures = 0, !.lockout_level = v, !.locked_until = u]
                BY <4>1, <4>2
            <4> HIDE DEF length, level, locked
            <4> QED BY <2>4, <4>1, <4>2, <4>3 DEF FailureState
        <3>7. length = LockoutSeconds(level)
            <4> HIDE DEF level
            <4> QED BY <2>5, LockoutLength
        <3>9. level # 0
            BY <2>5
        <3> HIDE DEF locked, length, level, current
        <3>3. d.state = locked /\ d.allowed = FALSE /\ d.retry = length /\ d.locks = TRUE
            BY <3>1
        <3> HIDE DEF d
        <3>4. Covered(length, at, locked.locked_until)
            <4>1. PICK u, p \in Nat : u = LockTicks(length) /\ p = TicksPerMilli /\ p > 0
                BY <2>7, TimeFacts
            <4>2. at + u < at + u + p
                BY <4>1
            <4> QED BY <2>6, <3>2, <4>1, <4>2 DEF Covered, Outlasts
        <3>5. Honest(d, at)
            BY <2>6, <3>2, <3>3, <3>4 DEF Honest
        <3>6. Softer(d, state, at)
            BY <2>1, <3>3 DEF Softer
        <3>8. Timed(d, state, at)
            BY <2>10, <3>2, <3>3, <3>7, <3>9 DEF Timed
        <3> QED BY <3>5, <3>6, <3>8 DEF d
    <2> QED BY <2>8, <2>9
<1>5. current.allowed \in BOOLEAN
    <2> HIDE DEF current
    <2> QED BY <1>1 DEF Honest
<1> QED BY <1>3, <1>4, <1>5

-----------------------------------------------------------------------------
(* The tables.                                                             *)

TableOk(T, keys, maximum) ==
    /\ T \in Tables(keys)
    /\ IsFiniteSet(DOMAIN T) /\ Cardinality(DOMAIN T) <= maximum

LEMMA TableFacts ==
    ASSUME NEW keys, NEW T
    PROVE  T \in Tables(keys) <=>
              /\ T = [k \in DOMAIN T |-> T[k]] /\ DOMAIN T \subseteq keys
              /\ \A k \in DOMAIN T : T[k] \in FailureState
<1>1. ASSUME T \in Tables(keys)
      PROVE  /\ T = [k \in DOMAIN T |-> T[k]] /\ DOMAIN T \subseteq keys
             /\ \A k \in DOMAIN T : T[k] \in FailureState
    <2>1. PICK S \in SUBSET keys : T \in [S -> FailureState]
        BY <1>1 DEF Tables
    <2> QED BY <2>1
<1>2. ASSUME T = [k \in DOMAIN T |-> T[k]], DOMAIN T \subseteq keys,
             \A k \in DOMAIN T : T[k] \in FailureState
      PROVE  T \in Tables(keys)
    <2>1. PICK S : S = DOMAIN T
        OBVIOUS
    <2>2. T \in [S -> FailureState] /\ S \in SUBSET keys
        BY <1>2, <2>1
    <2> QED BY <2>2 DEF Tables
<1> QED BY <1>1, <1>2

LEMMA EntryFacts ==
    ASSUME NEW keys, NEW T \in Tables(keys), NEW k
    PROVE  Entry(T, k) \in FailureState /\ Entry(T, k).locked_until \in Nat
<1>1. NoFailures \in FailureState
    BY DEF NoFailures, FailureState
<1>2. Entry(T, k) \in FailureState
    BY <1>1, TableFacts DEF Entry
<1> QED BY <1>2, StateFields

(* Some entries of T are left, as they were.                               *)
PartOf(P, T) ==
    /\ P = [k \in DOMAIN P |-> P[k]] /\ DOMAIN P \subseteq DOMAIN T
    /\ \A k \in DOMAIN P : P[k] = T[k]

LEMMA PartTyped ==
    ASSUME NEW keys, NEW maximum \in Nat, NEW T, TableOk(T, keys, maximum), NEW P, PartOf(P, T)
    PROVE  TableOk(P, keys, maximum)
<1>1. P \in Tables(keys)
    BY TableFacts DEF TableOk, PartOf
<1>2. PICK D, E : D = DOMAIN P /\ E = DOMAIN T
    OBVIOUS
<1>3. D \subseteq E /\ IsFiniteSet(E) /\ Cardinality(E) <= maximum
    BY <1>2 DEF TableOk, PartOf
<1>4. IsFiniteSet(D) /\ Cardinality(D) <= Cardinality(E)
    BY <1>3, FS_Subset
<1>5. Cardinality(D) \in Nat /\ Cardinality(E) \in Nat
    BY <1>3, <1>4, FS_CardinalityType
<1> QED BY <1>1, <1>2, <1>3, <1>4, <1>5 DEF TableOk

LEMMA WithoutPart ==
    ASSUME NEW T, T = [k \in DOMAIN T |-> T[k]], NEW keys
    PROVE  PartOf(Without(T, keys), T) /\ DOMAIN Without(T, keys) = DOMAIN T \ keys
    BY DEF Without, Restrict, PartOf

LEMMA PrunedPart ==
    ASSUME NEW T, T = [k \in DOMAIN T |-> T[k]], NEW at
    PROVE  LET P == Pruned(T, at)
           IN  /\ PartOf(P, T)
               /\ \A k \in DOMAIN T \ DOMAIN P :
                     PruneIsDue /\ at - T[k].last_seen > StaleTicks
<1> DEFINE P == Pruned(T, at)
<1>1. CASE PruneIsDue
    <2>1. P = Without(T, Stale(T, at))
        BY <1>1 DEF Pruned
    <2>2. PartOf(P, T) /\ DOMAIN P = DOMAIN T \ Stale(T, at)
        BY <2>1, WithoutPart
    <2> HIDE DEF P
    <2>3. \A k \in DOMAIN T \ DOMAIN P : k \in Stale(T, at)
        BY <2>2
    <2> QED BY <1>1, <2>2, <2>3 DEF Stale, P
<1>2. CASE ~PruneIsDue
    <2>1. P = T
        BY <1>2 DEF Pruned
    <2> HIDE DEF P
    <2> QED BY <2>1 DEF PartOf, P
<1> QED BY <1>1, <1>2

LEMMA RoomPart ==
    ASSUME NEW keys, NEW key \in keys, NEW maximum \in Nat \ {0},
           NEW P, TableOk(P, keys, maximum), NEW A \in ensure_capacity(P, key, maximum)
    PROVE  /\ PartOf(A, P)
           /\ \A k \in DOMAIN P \ DOMAIN A : key \notin DOMAIN P /\ Cardinality(DOMAIN P) >= maximum
           /\ IsFiniteSet(DOMAIN A \cup {key}) /\ Cardinality(DOMAIN A \cup {key}) <= maximum
<1>0. P = [k \in DOMAIN P |-> P[k]]
    BY TableFacts DEF TableOk
<1>1. PICK D : D = DOMAIN P
    OBVIOUS
<1>2. IsFiniteSet(D) /\ Cardinality(D) <= maximum /\ Cardinality(D) \in Nat
    BY <1>1, FS_CardinalityType DEF TableOk
<1>3. CASE key \in D \/ Cardinality(D) < maximum
    <2>1. A = P
        BY <1>1, <1>3 DEF ensure_capacity
    <2>2. IsFiniteSet(D \cup {key}) /\ Cardinality(D \cup {key}) <= maximum
        <3>1. IsFiniteSet(D \cup {key})
            BY <1>2, FS_AddElement
        <3>2. CASE key \in D
            <4>1. D \cup {key} = D
                BY <3>2
            <4> QED BY <1>2, <3>1, <4>1
        <3>3. CASE key \notin D
            <4>1. Cardinality(D \cup {key}) = Cardinality(D) + 1
                BY <1>2, <3>3, FS_AddElement
            <4> QED BY <1>2, <1>3, <3>1, <3>3, <4>1
        <3> QED BY <3>2, <3>3
    <2> QED BY <1>0, <1>1, <2>1, <2>2 DEF PartOf
<1>4. CASE ~(key \in D \/ Cardinality(D) < maximum)
    <2>1. PICK victim \in D : A = Without(P, {victim})
        BY <1>1, <1>4 DEF ensure_capacity
    <2>2. PartOf(A, P) /\ DOMAIN A = D \ {victim}
        BY <1>0, <1>1, <2>1, WithoutPart
    <2>3. IsFiniteSet(D \ {victim}) /\ Cardinality(D \ {victim}) = Cardinality(D) - 1
        BY <1>2, FS_RemoveElement
    <2>4. PICK E : E = D \ {victim}
        OBVIOUS
    <2>5. /\ IsFiniteSet(E \cup {key})
          /\ Cardinality(E \cup {key}) = Cardinality(E) \/ Cardinality(E \cup {key}) = Cardinality(E) + 1
        BY <2>3, <2>4, FS_AddElement
    <2>6. Cardinality(E) \in Nat
        BY <2>3, <2>4, FS_CardinalityType
    <2>7. Cardinality(E \cup {key}) <= maximum
        BY <1>2, <2>3, <2>4, <2>5, <2>6
    <2>8. Cardinality(D) >= maximum /\ key \notin D
        BY <1>2, <1>4
    <2> QED BY <1>1, <2>2, <2>4, <2>5, <2>7, <2>8
<1> QED BY <1>3, <1>4

(* How a step of the protector may change a table.                         *)
NoLonger(T, B, key, locks) ==
    \A k : k # key \/ ~locks => Entry(B, k).locked_until <= Entry(T, k).locked_until

Holds(T, B, maximum) ==
    \A k \in DOMAIN T : LockedOut(T, k) =>
        \/ k \in DOMAIN B /\ B[k].locked_until = T[k].locked_until
        \/ EvictedFor(T, B, maximum)
        \/ PrunedNow(T, k)

LEMMA CheckTable ==
    ASSUME NEW keys, NEW key \in keys, NEW maximum \in Nat \ {0}, NEW T, TableOk(T, keys, maximum),
           NEW at \in Nat, now \in Nat, at <= now,
           NEW P, P = Pruned(T, at), NEW d, d = check_state(Entry(P, key), at),
           NEW B, B = Looked(P, key, d)
    PROVE  /\ TableOk(B, keys, maximum) /\ Honest(d, at)
           /\ NoLonger(T, B, key, FALSE) /\ Holds(T, B, maximum)
           /\ Covered(d.retry, at, Entry(B, key).locked_until)
<1>1. T = [k \in DOMAIN T |-> T[k]] /\ \A k \in DOMAIN T : T[k] \in FailureState
    BY TableFacts DEF TableOk
<1>2. PartOf(P, T) /\ \A k \in DOMAIN T \ DOMAIN P : PruneIsDue /\ at - T[k].last_seen > StaleTicks
    BY <1>1, PrunedPart
<1>3. TableOk(P, keys, maximum)
    BY <1>2, PartTyped
<1>4. PICK e \in FailureState : e = Entry(P, key)
    BY <1>3, EntryFacts DEF TableOk
<1>5. Honest(d, at) /\ Softer(d, e, at) /\ ~d.locks
    BY <1>4, CheckState
<1>6. /\ DOMAIN B = DOMAIN P /\ B = [k \in DOMAIN B |-> B[k]]
      /\ key \in DOMAIN P => B[key] = d.state
      /\ \A k \in DOMAIN P : k # key => B[k] = P[k]
    <2>1. CASE key \in DOMAIN P
        <3>1. PICK s : s = d.state
            OBVIOUS
        <3>2. B = With(P, key, s) /\ DOMAIN P \cup {key} = DOMAIN P
            BY <2>1, <3>1 DEF Looked
        <3>3. /\ DOMAIN B = DOMAIN P \cup {key} /\ B = [k \in DOMAIN B |-> B[k]]
              /\ B[key] = s /\ \A k \in DOMAIN P : k # key => B[k] = P[k]
            <4>1. DOMAIN B = DOMAIN P \cup {key}
                BY <3>2 DEF With
            <4>2. B[key] = s
                BY <3>2 DEF With
            <4>3. \A k \in DOMAIN P : k # key => B[k] = P[k]
                BY <3>2 DEF With
            <4>4. B = [k \in DOMAIN B |-> B[k]]
                BY <3>2 DEF With
            <4> QED BY <4>1, <4>2, <4>3, <4>4
        <3> QED BY <3>1, <3>2, <3>3
    <2>2. CASE key \notin DOMAIN P
        BY <1>2, <2>2 DEF Looked, PartOf
    <2> QED BY <2>1, <2>2
<1>7. d.state \in FailureState /\ d.state.locked_until \in Nat /\ e.locked_until \in Nat
    BY <1>5, StateFields DEF Honest
<1>8. d.state.locked_until <= e.locked_until
    BY <1>5 DEF Softer
<1>9. TableOk(B, keys, maximum)
    <2>1. \A k \in DOMAIN B : B[k] \in FailureState
        BY <1>3, <1>6, <1>7, TableFacts DEF TableOk
    <2> QED BY <1>3, <1>6, <2>1, TableFacts DEF TableOk
<1>10. NoLonger(T, B, key, FALSE)
    <2>1. ASSUME NEW k PROVE Entry(B, k).locked_until <= Entry(T, k).locked_until
        <3>0. Entry(T, k).locked_until \in Nat
            BY EntryFacts DEF TableOk
        <3>1. CASE k \notin DOMAIN B
            <4>1. Entry(B, k).locked_until = 0
                BY <3>1 DEF Entry, NoFailures
            <4> QED BY <3>0, <4>1
        <3>2. CASE k \in DOMAIN B
            <4>1. k \in DOMAIN T /\ Entry(T, k) = T[k] /\ Entry(B, k) = B[k] /\ P[k] = T[k]
                BY <1>2, <1>6, <3>2 DEF Entry, PartOf
            <4>2. CASE k = key
                <5>1. e = T[k] /\ B[k] = d.state
                    BY <1>4, <1>6, <3>2, <4>1, <4>2 DEF Entry
                <5> QED BY <1>8, <4>1, <5>1
            <4>3. CASE k # key
                <5>1. B[k] = T[k]
                    BY <1>6, <3>2, <4>1, <4>3
                <5> QED BY <3>0, <4>1, <5>1
            <4> QED BY <4>2, <4>3
        <3> QED BY <3>1, <3>2
    <2> QED BY <2>1 DEF NoLonger
<1>11. Holds(T, B, maximum)
    <2> SUFFICES ASSUME NEW k \in DOMAIN T, T[k].locked_until > now
                 PROVE  \/ k \in DOMAIN B /\ B[k].locked_until = T[k].locked_until
                        \/ PrunedNow(T, k)
        BY DEF Holds, LockedOut
    <2>0. T[k].locked_until \in Nat /\ T[k].last_seen \in Nat
        BY <1>1, StateFields
    <2>1. CASE k \notin DOMAIN P
        <3>1. PruneIsDue /\ at - T[k].last_seen > StaleTicks
            BY <1>2, <2>1
        <3>2. StaleTicks \in Nat
            BY TimeFacts, ConfigAssumption DEF StaleTicks
        <3>3. now - T[k].last_seen > StaleTicks
            BY <2>0, <3>1, <3>2
        <3> QED BY <3>1, <3>3 DEF PrunedNow
    <2>2. CASE k \in DOMAIN P
        <3>1. P[k] = T[k] /\ k \in DOMAIN B
            BY <1>2, <1>6, <2>2 DEF PartOf
        <3>2. CASE k = key
            <4>1. e = T[k] /\ B[k] = d.state
                BY <1>4, <1>6, <2>2, <3>1, <3>2 DEF Entry
            <4>2. e.locked_until > at
                BY <1>7, <2>0, <4>1
            <4> QED BY <1>5, <3>1, <4>1, <4>2 DEF Softer
        <3>3. CASE k # key
            BY <1>6, <2>2, <3>1, <3>3
        <3> QED BY <3>2, <3>3
    <2> QED BY <2>1, <2>2
<1>12. Covered(d.retry, at, Entry(B, key).locked_until)
    <2>1. CASE key \in DOMAIN B
        <3>1. Entry(B, key) = d.state
            BY <1>6, <2>1 DEF Entry
        <3> QED BY <1>5, <3>1 DEF Honest
    <2>2. CASE key \notin DOMAIN B
        <3>1. Entry(B, key).locked_until = 0
            BY <2>2 DEF Entry, NoFailures
        <3>2. d.retry \in Nat /\ d.retry <= MaxRetry /\ Covered(0, at, 0)
            BY <1>5 DEF Honest, Covered
        <3> QED BY <3>1, <3>2, CoveredFacts
    <2> QED BY <2>1, <2>2
<1> QED BY <1>5, <1>9, <1>10, <1>11, <1>12

LEMMA RecordTable ==
    ASSUME NEW keys, NEW key \in keys, NEW maximum \in Nat \ {0}, NEW T, TableOk(T, keys, maximum),
           NEW at \in Nat, now \in Nat, at <= now,
           NEW A \in ensure_capacity(Pruned(T, at), key, maximum), NEW limit,
           NEW d, d = record_failure_state(Entry(A, key), limit, at),
           NEW B, B = With(A, key, d.state)
    PROVE  /\ TableOk(B, keys, maximum) /\ Honest(d, at)
           /\ NoLonger(T, B, key, d.locks) /\ Holds(T, B, maximum)
           /\ Covered(d.retry, at, Entry(B, key).locked_until)
           /\ NextLock(Entry(T, key), Entry(B, key), at)
<1>0. PICK P : P = Pruned(T, at)
    OBVIOUS
<1>1. T = [k \in DOMAIN T |-> T[k]] /\ \A k \in DOMAIN T : T[k] \in FailureState
    BY TableFacts DEF TableOk
<1>2. PartOf(P, T) /\ \A k \in DOMAIN T \ DOMAIN P : PruneIsDue /\ at - T[k].last_seen > StaleTicks
    BY <1>0, <1>1, PrunedPart
<1>3. TableOk(P, keys, maximum)
    BY <1>2, PartTyped
<1>20. /\ PartOf(A, P)
       /\ \A k \in DOMAIN P \ DOMAIN A : key \notin DOMAIN P /\ Cardinality(DOMAIN P) >= maximum
       /\ IsFiniteSet(DOMAIN A \cup {key}) /\ Cardinality(DOMAIN A \cup {key}) <= maximum
    BY <1>0, <1>3, RoomPart
<1>21. TableOk(A, keys, maximum)
    BY <1>3, <1>20, PartTyped
<1>4. PICK e \in FailureState : e = Entry(A, key)
    BY <1>21, EntryFacts DEF TableOk
<1>5. Honest(d, at) /\ Softer(d, e, at) /\ Timed(d, e, at)
    BY <1>4, RecordState
<1>6. /\ DOMAIN B = DOMAIN A \cup {key} /\ B = [k \in DOMAIN B |-> B[k]]
      /\ B[key] = d.state
      /\ \A k \in DOMAIN A : k # key => B[k] = A[k]
    <2>1. DOMAIN B = DOMAIN A \cup {key}
        BY DEF With
    <2>2. B[key] = d.state
        BY DEF With
    <2>3. \A k \in DOMAIN A : k # key => B[k] = A[k]
        BY DEF With
    <2>4. B = [k \in DOMAIN B |-> B[k]]
        BY DEF With
    <2> QED BY <2>1, <2>2, <2>3, <2>4
<1>7. d.state \in FailureState /\ d.state.locked_until \in Nat /\ e.locked_until \in Nat
    BY <1>5, StateFields DEF Honest
<1>8. ~d.locks => d.state.locked_until <= e.locked_until
    BY <1>5 DEF Softer
<1>22. \A k \in DOMAIN A : k \in DOMAIN T /\ A[k] = T[k]
    BY <1>2, <1>20 DEF PartOf
<1>9. TableOk(B, keys, maximum)
    <2>1. \A k \in DOMAIN B : B[k] \in FailureState
        BY <1>21, <1>6, <1>7, TableFacts DEF TableOk
    <2>2. DOMAIN B \subseteq keys
        BY <1>21, <1>6, TableFacts DEF TableOk
    <2>3. B \in Tables(keys)
        BY <1>6, <2>1, <2>2, TableFacts
    <2>4. PICK D : D = DOMAIN A \cup {key}
        OBVIOUS
    <2>5. DOMAIN B = D /\ IsFiniteSet(D) /\ Cardinality(D) <= maximum
        <3>1. DOMAIN B = D
            BY <1>6, <2>4
        <3>2. IsFiniteSet(D) /\ Cardinality(D) <= maximum
            BY <1>20, <2>4
        <3> QED BY <3>1, <3>2
    <2> QED BY <2>3, <2>5 DEF TableOk
<1>10. NoLonger(T, B, key, d.locks)
    <2>1. ASSUME NEW k, k # key \/ ~d.locks PROVE Entry(B, k).locked_until <= Entry(T, k).locked_until
        <3>0. Entry(T, k).locked_until \in Nat
            BY EntryFacts DEF TableOk
        <3>1. CASE k \notin DOMAIN B
            <4>1. Entry(B, k).locked_until = 0
                BY <3>1 DEF Entry, NoFailures
            <4> QED BY <3>0, <4>1
        <3>2. CASE k = key
            <4>1. Entry(B, k) = d.state
                BY <1>6, <3>2 DEF Entry
            <4>2. e.locked_until <= Entry(T, k).locked_until
                <5>1. CASE key \in DOMAIN A
                    <6>1. e = Entry(T, k)
                        BY <1>4, <1>22, <3>2, <5>1 DEF Entry
                    <6> QED BY <3>0, <6>1
                <5>2. CASE key \notin DOMAIN A
                    <6>1. e.locked_until = 0
                        BY <1>4, <5>2 DEF Entry, NoFailures
                    <6> QED BY <3>0, <6>1
                <5> QED BY <5>1, <5>2
            <4> QED BY <1>7, <1>8, <2>1, <3>0, <3>2, <4>1, <4>2
        <3>3. CASE k \in DOMAIN B /\ k # key
            <4>1. Entry(B, k) = Entry(T, k)
                BY <1>6, <1>22, <3>3 DEF Entry
            <4> QED BY <3>0, <4>1
        <3> QED BY <3>1, <3>2, <3>3
    <2> QED BY <2>1 DEF NoLonger
<1>11. Holds(T, B, maximum)
    <2> SUFFICES ASSUME NEW k \in DOMAIN T, T[k].locked_until > now
                 PROVE  \/ k \in DOMAIN B /\ B[k].locked_until = T[k].locked_until
                        \/ EvictedFor(T, B, maximum)
                        \/ PrunedNow(T, k)
        BY DEF Holds, LockedOut
    <2>0. T[k].locked_until \in Nat /\ T[k].last_seen \in Nat
        BY <1>1, StateFields
    <2>1. CASE k \notin DOMAIN P
        <3>1. PruneIsDue /\ at - T[k].last_seen > StaleTicks
            BY <1>2, <2>1
        <3>2. StaleTicks \in Nat
            BY TimeFacts, ConfigAssumption DEF StaleTicks
        <3>3. now - T[k].last_seen > StaleTicks
            BY <2>0, <3>1, <3>2
        <3> QED BY <3>1, <3>3 DEF PrunedNow
    <2>2. CASE k \in DOMAIN P \ DOMAIN A
        <3>1. key \notin DOMAIN P /\ Cardinality(DOMAIN P) >= maximum
            BY <1>20, <2>2
        <3>2. PICK D, E : D = DOMAIN P /\ E = DOMAIN T
            OBVIOUS
        <3>3. /\ D \subseteq E /\ IsFiniteSet(E) /\ IsFiniteSet(D)
              /\ Cardinality(D) >= maximum /\ Cardinality(E) <= maximum
            BY <1>2, <1>3, <3>1, <3>2 DEF TableOk, PartOf
        <3>4. /\ Cardinality(D) \in Nat /\ Cardinality(E) \in Nat
              /\ Cardinality(D) <= Cardinality(E)
            BY <3>3, FS_Subset, FS_CardinalityType
        <3>5. Cardinality(D) = Cardinality(E)
            BY <3>3, <3>4
        <3>6. D = E
            BY <3>3, <3>5, FS_Subset
        <3>7. key \in DOMAIN B /\ key \notin DOMAIN T /\ Cardinality(DOMAIN T) >= maximum
            BY <1>6, <3>1, <3>2, <3>3, <3>5, <3>6
        <3> QED BY <3>7 DEF EvictedFor
    <2>3. CASE k \in DOMAIN A
        <3>1. A[k] = T[k] /\ k \in DOMAIN B
            BY <1>6, <1>22, <2>3
        <3>2. CASE k = key
            <4>1. e = T[k] /\ B[k] = d.state
                BY <1>4, <1>6, <2>3, <3>1, <3>2 DEF Entry
            <4>2. e.locked_until > at
                BY <1>7, <2>0, <4>1
            <4> QED BY <1>5, <3>1, <4>1, <4>2 DEF Softer
        <3>3. CASE k # key
            BY <1>6, <2>3, <3>1, <3>3
        <3> QED BY <3>2, <3>3
    <2> QED BY <2>1, <2>2, <2>3
<1>12. Entry(B, key) = d.state /\ Covered(d.retry, at, Entry(B, key).locked_until)
    <2>1. Entry(B, key) = d.state
        BY <1>6 DEF Entry
    <2> QED BY <1>5, <2>1 DEF Honest
<1>13. NextLock(Entry(T, key), Entry(B, key), at)
    <2>1. PICK s, t : s = Entry(B, key) /\ t = Entry(T, key)
        OBVIOUS
    <2>2. s = d.state /\ s.locked_until \in Nat /\ s.lockout_level \in Nat
        BY <1>7, <1>12, <2>1, StateFields
    <2>3. t.locked_until \in Nat
        BY <2>1, EntryFacts DEF TableOk
    <2> SUFFICES ASSUME s.locked_until > t.locked_until
                 PROVE  /\ Climbs(s.lockout_level, t, at)
                        /\ s.locked_until - at = LockTicks(LockoutSeconds(s.lockout_level))
        BY <2>1 DEF NextLock, Climbs
    <2>4. ~(s.locked_until <= t.locked_until)
        BY <2>2, <2>3
    <2>5. d.locks
        BY <1>10, <2>1, <2>4 DEF NoLonger
    <2>6. PICK w : w = LockTicks(LockoutSeconds(s.lockout_level))
        OBVIOUS
    <2>7. s.locked_until = at + w
        BY <1>5, <2>2, <2>5, <2>6 DEF Timed
    <2>8. w \in Int
        <3>1. s.lockout_level \in Nat \ {0}
            BY <1>5, <2>2, <2>5 DEF Timed
        <3> QED BY <2>6, <3>1, LengthType
    <2>9. s.locked_until - at = w
        BY <2>2, <2>7, <2>8
    <2>10. Climbs(s.lockout_level, e, at)
        BY <1>5, <2>2, <2>5 DEF Timed
    <2>11. Climbs(s.lockout_level, t, at)
        <3>1. CASE key \in DOMAIN A
            BY <1>4, <1>22, <2>1, <2>10, <3>1 DEF Entry
        <3>2. CASE key \notin DOMAIN A /\ key \notin DOMAIN T
            BY <1>4, <2>1, <2>10, <3>2 DEF Entry
        <3>3. CASE key \notin DOMAIN A /\ key \in DOMAIN T
            <4>1. e.lockout_level = 0
                BY <1>4, <3>3 DEF Entry, NoFailures
            <4>2. s.lockout_level = 1
                BY <2>10, <4>1 DEF Climbs
            <4>3. key \notin DOMAIN P
                BY <1>20, <3>3
            <4>4. at - t.last_seen > StaleTicks
                BY <1>2, <2>1, <3>3, <4>3 DEF Entry
            <4> QED BY <4>2, <4>4 DEF Climbs, StartsOver
        <3> QED BY <3>1, <3>2, <3>3
    <2> QED BY <2>6, <2>9, <2>11
<1> QED BY <1>5, <1>9, <1>10, <1>11, <1>12, <1>13

-----------------------------------------------------------------------------
(* The inductive invariant.                                                *)

(* A call may find a key locked until then: one that was let in not at     *)
(* all, one that was refused for the time it was told.                     *)
Expected(q, n, until) ==
    IF q.phase = "refused" THEN Outlasts(q.retry, q.at, until) ELSE until <= n

(* What is true of a call at time n, with these tables.                    *)
CallOk(q, n, A, I) ==
    q.phase # "idle" =>
        /\ q.at <= n
        /\ q.phase = "refused" => q.retry > 0
        /\ q.phase # "arrived" /\ "account" \notin q.overtaken =>
               Expected(q, n, Entry(A, NormalLogin[q.login]).locked_until)
        /\ q.phase # "arrived" /\ "ip" \notin q.overtaken =>
               Expected(q, n, Entry(I, q.ip).locked_until)

GuardInv ==
    /\ TypeOK
    /\ TableOk(accounts, Accounts, MaxAccounts)
    /\ TableOk(ips, Ips, MaxIps)
    /\ \A c \in Calls : CallOk(call[c], now, accounts, ips)

LEMMA Assembled ==
    ASSUME now' \in Nat \ {0}, operations' \in 0 .. PruneEvery - 1,
           TableOk(accounts', Accounts, MaxAccounts), TableOk(ips', Ips, MaxIps),
           call' \in [Calls -> CallState \cup {Idle}],
           \A c \in Calls : CallOk(call'[c], now', accounts', ips')
    PROVE  GuardInv'
    BY DEF GuardInv, TypeOK, TableOk

LEMMA CallFields ==
    ASSUME NEW q \in CallState \cup {Idle}
    PROVE  q.phase # "idle" =>
               /\ q \in CallState /\ q.phase \in Phases \ {"idle"} /\ q.login \in Logins
               /\ q.ip \in Ips /\ q.at \in Nat /\ q.retry \in Nat
               /\ q.overtaken \in SUBSET Dimensions
               /\ NormalLogin[q.login] \in Accounts
    BY KeyAssumption DEF CallState, Idle

LEMMA Counted ==
    ASSUME operations \in 0 .. PruneEvery - 1, CountOperation
    PROVE  operations' \in 0 .. PruneEvery - 1
<1>1. PICK p \in Nat \ {0} : p = PruneEvery
    BY BoundAssumption
<1>2. \A n \in Nat : n % p \in 0 .. p - 1
    OBVIOUS
<1>3. operations + 1 \in Nat
    BY <1>1
<1> QED BY <1>1, <1>2, <1>3 DEF CountOperation

(* A call keeps what it expects when no lock grows but one it is told of.  *)
LEMMA CallKept ==
    ASSUME NEW q \in CallState \cup {Idle}, NEW n \in Nat,
           NEW A \in Tables(Accounts), NEW B \in Tables(Accounts),
           NEW I \in Tables(Ips), NEW J \in Tables(Ips),
           CallOk(q, n, A, I),
           NEW key, NEW ip, NEW la \in BOOLEAN, NEW li \in BOOLEAN,
           NoLonger(A, B, key, la), NoLonger(I, J, ip, li),
           NEW r \in CallState \cup {Idle}, q.phase = r.phase,
           q.phase # "idle" =>
               /\ r.login = q.login /\ r.ip = q.ip /\ r.at = q.at
               /\ r.retry = q.retry /\ q.overtaken \subseteq r.overtaken
               /\ la /\ NormalLogin[q.login] = key => "account" \in r.overtaken
               /\ li /\ q.ip = ip => "ip" \in r.overtaken
    PROVE  CallOk(r, n, B, J)
<1> SUFFICES ASSUME q.phase # "idle" PROVE CallOk(r, n, B, J)
    BY DEF CallOk
<1>1. /\ r.login = q.login /\ r.ip = q.ip /\ r.at = q.at
      /\ r.retry = q.retry /\ q.overtaken \subseteq r.overtaken
    OBVIOUS
<1>2. PICK k : k = NormalLogin[q.login]
    OBVIOUS
<1>3. ASSUME NEW until \in Nat, NEW sooner \in Nat, sooner <= until, Expected(q, n, until)
      PROVE  Expected(r, n, sooner)
    <2>1. q.at \in Nat /\ q.retry \in Nat
        BY CallFields
    <2>2. CASE q.phase = "refused"
        BY <1>1, <1>3, <2>1, <2>2, CoveredEarlier DEF Expected
    <2>3. CASE q.phase # "refused"
        BY <1>3, <2>3 DEF Expected
    <2> QED BY <2>2, <2>3
<1>5. q.at <= n /\ (q.phase = "refused" => q.retry > 0)
    BY DEF CallOk
<1>6. q.phase # "arrived" /\ "account" \notin r.overtaken => Expected(r, n, Entry(B, k).locked_until)
    <2> SUFFICES ASSUME q.phase # "arrived", "account" \notin r.overtaken
                 PROVE  Expected(r, n, Entry(B, k).locked_until)
        OBVIOUS
    <2>1. Expected(q, n, Entry(A, k).locked_until)
        BY <1>1, <1>2 DEF CallOk
    <2>2. k # key \/ ~la
        BY <1>2
    <2>3. Entry(B, k).locked_until <= Entry(A, k).locked_until
        BY <2>2 DEF NoLonger
    <2>4. Entry(A, k).locked_until \in Nat /\ Entry(B, k).locked_until \in Nat
        BY EntryFacts
    <2> QED BY <1>3, <2>1, <2>3, <2>4
<1>7. q.phase # "arrived" /\ "ip" \notin r.overtaken => Expected(r, n, Entry(J, q.ip).locked_until)
    <2> SUFFICES ASSUME q.phase # "arrived", "ip" \notin r.overtaken
                 PROVE  Expected(r, n, Entry(J, q.ip).locked_until)
        OBVIOUS
    <2>1. Expected(q, n, Entry(I, q.ip).locked_until)
        BY <1>1, <1>2 DEF CallOk
    <2>2. q.ip # ip \/ ~li
        OBVIOUS
    <2>3. Entry(J, q.ip).locked_until <= Entry(I, q.ip).locked_until
        BY <2>2 DEF NoLonger
    <2>4. Entry(I, q.ip).locked_until \in Nat /\ Entry(J, q.ip).locked_until \in Nat
        BY EntryFacts
    <2> QED BY <1>3, <2>1, <2>3, <2>4
<1> QED BY <1>1, <1>2, <1>5, <1>6, <1>7 DEF CallOk

(* The two dimensions together.                                            *)
LEMMA CombinedFacts ==
    ASSUME NEW a, NEW b, NEW at \in Nat, Honest(a, at), Honest(b, at), NEW d, d = Combined(a, b)
    PROVE  /\ d.allowed \in BOOLEAN /\ d.retry \in Nat /\ d.retry <= MaxRetry
           /\ d.allowed => d.retry = 0
           /\ ~d.allowed => d.retry > 0
           /\ a.retry <= d.retry /\ b.retry <= d.retry
<1>1. /\ a.allowed \in BOOLEAN /\ a.retry \in Nat /\ (a.allowed <=> a.retry = 0)
      /\ b.allowed \in BOOLEAN /\ b.retry \in Nat /\ (b.allowed <=> b.retry = 0)
      /\ a.retry <= MaxRetry /\ b.retry <= MaxRetry
    BY DEF Honest
<1>2. d.allowed = (a.allowed /\ b.allowed)
    BY DEF Combined
<1>3. d.retry = IF a.allowed /\ b.allowed THEN 0 ELSE LongerWait(a, b)
    BY DEF Combined
<1>4. d.allowed \in BOOLEAN
    BY <1>2
<1>5. CASE a.allowed /\ b.allowed
    <2>1. d.allowed /\ d.retry = 0 /\ a.retry = 0 /\ b.retry = 0
        BY <1>1, <1>2, <1>3, <1>5
    <2> QED BY <1>1, <1>4, <2>1
<1>6. CASE ~(a.allowed /\ b.allowed)
    <2>1. ~d.allowed /\ d.retry = LongerWait(a, b)
        BY <1>2, <1>3, <1>6
    <2>2. d.retry = IF a.retry > b.retry THEN a.retry ELSE b.retry
        BY <2>1 DEF LongerWait
    <2>3. a.retry # 0 \/ b.retry # 0
        BY <1>1, <1>6
    <2>4. /\ d.retry \in Nat /\ a.retry <= d.retry /\ b.retry <= d.retry
          /\ d.retry > 0 /\ d.retry <= MaxRetry
        BY <1>1, <2>2, <2>3
    <2> QED BY <1>4, <2>1, <2>4
<1> QED BY <1>5, <1>6

-----------------------------------------------------------------------------
(* The steps.                                                              *)

LEMMA InitInv == Init => GuardInv
<1> SUFFICES ASSUME Init PROVE GuardInv
    OBVIOUS
<1>1. PICK T : T = [k \in {} |-> NoFailures]
    OBVIOUS
<1>2. DOMAIN T = {} /\ T = [k \in DOMAIN T |-> T[k]]
    BY <1>1
<1>3. IsFiniteSet({}) /\ Cardinality({}) = 0
    BY FS_EmptySet
<1>4. T \in Tables(Accounts) /\ T \in Tables(Ips)
    BY <1>2, TableFacts
<1>5. TableOk(T, Accounts, MaxAccounts) /\ TableOk(T, Ips, MaxIps)
    BY <1>2, <1>3, <1>4, ConfigAssumption DEF TableOk
<1>6. accounts = T /\ ips = T /\ now = 1 /\ operations = 0
    BY <1>1 DEF Init
<1>7. call \in [Calls -> CallState \cup {Idle}] /\ \A c \in Calls : call[c].phase = "idle"
    BY DEF Init, Idle
<1>8. \A c \in Calls : CallOk(call[c], now, accounts, ips)
    BY <1>7 DEF CallOk
<1>9. TypeOK
    <2>1. 0 \in 0 .. PruneEvery - 1
        BY BoundAssumption
    <2> QED BY <1>5, <1>6, <1>7, <2>1 DEF TypeOK, TableOk
<1> QED BY <1>5, <1>6, <1>8, <1>9 DEF GuardInv

(* A step that changes one call alone.                                     *)
LEMMA CallStep ==
    ASSUME GuardInv, NEW c \in Calls, NEW r \in CallState \cup {Idle},
           CallOk(r, now, accounts, ips), call' = [call EXCEPT ![c] = r],
           UNCHANGED <<now, accounts, ips, operations>>
    PROVE  GuardInv'
<1>1. \A d \in Calls : CallOk(call'[d], now', accounts', ips')
    BY DEF GuardInv, TypeOK
<1>2. call' \in [Calls -> CallState \cup {Idle}]
    BY DEF GuardInv, TypeOK
<1> QED BY <1>1, <1>2, Assembled DEF GuardInv, TypeOK

LEMMA SmallSteps ==
    ASSUME GuardInv, NEW c \in Calls,
           \/ \E login \in Logins, ip \in Ips : Arrive(c, login, ip)
           \/ VerifyFails(c) \/ VerifySucceeds(c) \/ VerifyUnrecorded(c) \/ Leave(c)
    PROVE  GuardInv' /\ UNCHANGED <<now, accounts, ips, operations>>
<1>0. PICK q, n : q = call[c] /\ n = now
    OBVIOUS
<1>1. n \in Nat \ {0} /\ q \in CallState \cup {Idle} /\ CallOk(q, n, accounts, ips)
    BY <1>0 DEF GuardInv, TypeOK
<1>2. CallOk(Idle, n, accounts, ips)
    BY DEF CallOk, Idle
<1>3. ASSUME NEW login \in Logins, NEW ip \in Ips, Arrive(c, login, ip)
      PROVE  GuardInv' /\ UNCHANGED <<now, accounts, ips, operations>>
    <2>1. PICK r : r = [phase |-> "arrived", login |-> login, ip |-> ip, at |-> n,
                        retry |-> 0, overtaken |-> {}]
        OBVIOUS
    <2>2. r \in CallState /\ r.phase = "arrived" /\ r.at = n
        BY <1>1, <2>1 DEF CallState, Phases
    <2>3. CallOk(r, n, accounts, ips)
        BY <1>1, <2>2 DEF CallOk
    <2>4. call' = [call EXCEPT ![c] = r] /\ UNCHANGED <<now, accounts, ips, operations>>
        BY <1>0, <1>3, <2>1 DEF Arrive
    <2> QED BY <1>0, <2>2, <2>3, <2>4, CallStep
<1>4. CASE VerifyFails(c)
    <2>1. PICK r : r = [q EXCEPT !.phase = "wrong", !.at = n]
        OBVIOUS
    <2>2. q \in CallState /\ q.phase = "verifying"
        BY <1>0, <1>1, <1>4, CallFields DEF VerifyFails
    <2>3. /\ r \in CallState /\ r.phase = "wrong" /\ r.at = n
          /\ r.login = q.login /\ r.ip = q.ip /\ r.overtaken = q.overtaken
        BY <1>1, <2>1, <2>2 DEF CallState, Phases
    <2>4. \A until : Expected(r, n, until) <=> Expected(q, n, until)
        BY <2>2, <2>3 DEF Expected
    <2>5. CallOk(r, n, accounts, ips)
        BY <1>1, <2>2, <2>3, <2>4 DEF CallOk
    <2>6. call' = [call EXCEPT ![c] = r] /\ UNCHANGED <<now, accounts, ips, operations>>
        BY <1>0, <1>4, <2>1 DEF VerifyFails, GuardInv, TypeOK
    <2> QED BY <1>0, <2>3, <2>5, <2>6, CallStep
<1>5. CASE VerifySucceeds(c)
    <2>1. PICK r : r = [q EXCEPT !.phase = "right"]
        OBVIOUS
    <2>2. q \in CallState /\ q.phase = "verifying"
        BY <1>0, <1>1, <1>5, CallFields DEF VerifySucceeds
    <2>3. /\ r \in CallState /\ r.phase = "right" /\ r.at = q.at
          /\ r.login = q.login /\ r.ip = q.ip /\ r.overtaken = q.overtaken
        BY <1>1, <2>1, <2>2 DEF CallState, Phases
    <2>4. \A until : Expected(r, n, until) <=> Expected(q, n, until)
        BY <2>2, <2>3 DEF Expected
    <2>5. CallOk(r, n, accounts, ips)
        BY <1>1, <2>2, <2>3, <2>4 DEF CallOk
    <2>6. call' = [call EXCEPT ![c] = r] /\ UNCHANGED <<now, accounts, ips, operations>>
        BY <1>0, <1>5, <2>1 DEF VerifySucceeds, GuardInv, TypeOK
    <2> QED BY <1>0, <2>3, <2>5, <2>6, CallStep
<1>6. CASE VerifyUnrecorded(c) \/ Leave(c)
    <2>1. call' = [call EXCEPT ![c] = Idle] /\ UNCHANGED <<now, accounts, ips, operations>>
        BY <1>6 DEF VerifyUnrecorded, Leave
    <2> QED BY <1>0, <1>2, <2>1, CallStep
<1> QED BY <1>3, <1>4, <1>5, <1>6

LEMMA TickStep ==
    ASSUME GuardInv, Tick
    PROVE  GuardInv' /\ accounts' = accounts /\ ips' = ips
<1>1. /\ now \in Nat \ {0} /\ now' \in Nat \ {0} /\ now' > now
      /\ UNCHANGED <<accounts, ips, operations, call>>
    BY BoundAssumption DEF Tick, GuardInv, TypeOK
<1>2. ASSUME NEW c \in Calls PROVE CallOk(call[c], now', accounts, ips)
    <2>0. PICK q, n, m, A, I : q = call[c] /\ n = now /\ m = now' /\ A = accounts /\ I = ips
        OBVIOUS
    <2>1. /\ n \in Nat /\ m \in Nat /\ m > n /\ q \in CallState \cup {Idle} /\ CallOk(q, n, A, I)
          /\ A \in Tables(Accounts) /\ I \in Tables(Ips)
        BY <1>1, <2>0 DEF GuardInv, TypeOK
    <2>2. CallOk(q, m, A, I)
        <3> SUFFICES ASSUME q.phase # "idle" PROVE CallOk(q, m, A, I)
            BY DEF CallOk
        <3>1. q.at \in Nat /\ q.at <= n /\ (q.phase = "refused" => q.retry > 0)
            BY <2>1, CallFields DEF CallOk
        <3>2. PICK a, i : a = Entry(A, NormalLogin[q.login]).locked_until /\ i = Entry(I, q.ip).locked_until
            OBVIOUS
        <3>3. a \in Nat /\ i \in Nat
            BY <2>1, <3>2, EntryFacts
        <3>4. CASE q.phase = "refused"
            <4>1. \A until : Expected(q, m, until) <=> Expected(q, n, until)
                BY <3>4 DEF Expected
            <4>2. q.at <= m
                BY <2>1, <3>1
            <4> QED BY <2>1, <3>1, <4>1, <4>2 DEF CallOk
        <3>5. CASE q.phase # "refused"
            <4>1. \A until : /\ Expected(q, m, until) <=> until <= m
                             /\ Expected(q, n, until) <=> until <= n
                BY <3>5 DEF Expected
            <4>2. q.at <= m /\ (a <= n => a <= m) /\ (i <= n => i <= m)
                BY <2>1, <3>1, <3>3
            <4> QED BY <2>1, <3>1, <3>2, <4>1, <4>2 DEF CallOk
        <3> QED BY <3>4, <3>5
    <2> QED BY <1>1, <2>0, <2>2
<1>3. \A c \in Calls : CallOk(call'[c], now', accounts', ips')
    BY <1>1, <1>2
<1>4. now' \in Nat \ {0}
    BY <1>1
<1>5. /\ operations' \in 0 .. PruneEvery - 1 /\ call' \in [Calls -> CallState \cup {Idle}]
      /\ TableOk(accounts', Accounts, MaxAccounts) /\ TableOk(ips', Ips, MaxIps)
    BY <1>1 DEF GuardInv, TypeOK
<1> QED BY <1>1, <1>3, <1>4, <1>5, Assembled

(* What check and record_failure make of a call they have decided about.   *)
LEMMA Decided ==
    ASSUME NEW q \in CallState, NEW n \in Nat, NEW at \in Nat, q.at = at, at <= n,
           NEW a, NEW b, Honest(a, at), Honest(b, at), NEW d, d = Combined(a, b),
           NEW A \in Tables(Accounts), NEW I \in Tables(Ips),
           Covered(a.retry, at, Entry(A, NormalLogin[q.login]).locked_until),
           Covered(b.retry, at, Entry(I, q.ip).locked_until),
           NEW r \in CallState, r.login = q.login, r.ip = q.ip, r.retry = d.retry,
           r.at \in Nat, r.at <= n,
           IF d.allowed THEN r.phase = "verifying" ELSE r.phase = "refused" /\ r.at = at
    PROVE  CallOk(r, n, A, I)
<1>1. /\ d.allowed \in BOOLEAN /\ d.retry \in Nat /\ d.retry <= MaxRetry
      /\ d.allowed => d.retry = 0
      /\ ~d.allowed => d.retry > 0
      /\ a.retry <= d.retry /\ b.retry <= d.retry
    BY CombinedFacts
<1>2. PICK x, y : x = Entry(A, NormalLogin[q.login]).locked_until /\ y = Entry(I, q.ip).locked_until
    OBVIOUS
<1>3. x \in Nat /\ y \in Nat
    BY <1>2, EntryFacts
<1>4. PICK u, v, w \in Nat : u = a.retry /\ v = b.retry /\ w = d.retry
    BY <1>1 DEF Honest
<1>5. Covered(w, at, x) /\ Covered(w, at, y)
    BY <1>1, <1>2, <1>3, <1>4, CoveredFacts
<1>6. CASE d.allowed
    <2>1. w = 0
        BY <1>1, <1>4, <1>6
    <2>2. x <= n /\ y <= n
        BY <1>3, <1>5, <2>1 DEF Covered
    <2>3. r.phase = "verifying"
        BY <1>6
    <2>4. Expected(r, n, x) /\ Expected(r, n, y)
        BY <2>2, <2>3 DEF Expected
    <2> QED BY <1>2, <2>3, <2>4 DEF CallOk
<1>7. CASE ~d.allowed
    <2>1. r.phase = "refused" /\ r.at = at
        BY <1>7
    <2>2. Outlasts(w, at, x) /\ Outlasts(w, at, y)
        BY <1>1, <1>4, <1>5, <1>7 DEF Covered
    <2>3. Expected(r, n, x) /\ Expected(r, n, y)
        BY <1>4, <2>1, <2>2 DEF Expected
    <2> QED BY <1>1, <1>2, <1>7, <2>1, <2>3 DEF CallOk
<1> QED BY <1>1, <1>6, <1>7

LEMMA CheckStep ==
    ASSUME GuardInv, NEW c \in Calls, check(c)
    PROVE  /\ GuardInv'
           /\ Holds(accounts, accounts', MaxAccounts) /\ Holds(ips, ips', MaxIps)
<1>1. PICK q, n, T, U : q = call[c] /\ n = now /\ T = accounts /\ U = ips
    OBVIOUS
<1>2. /\ n \in Nat \ {0} /\ now \in Nat
      /\ TableOk(T, Accounts, MaxAccounts) /\ TableOk(U, Ips, MaxIps)
      /\ q \in CallState \cup {Idle} /\ CallOk(q, n, T, U) /\ q.phase = "arrived"
    BY <1>1 DEF check, GuardInv, TypeOK
<1>3. /\ q \in CallState /\ q.login \in Logins /\ q.ip \in Ips /\ q.at \in Nat
      /\ NormalLogin[q.login] \in Accounts /\ q.at <= n
    BY <1>2, CallFields DEF CallOk
<1>4. PICK key \in Accounts, ip \in Ips, at \in Nat :
          key = NormalLogin[q.login] /\ ip = q.ip /\ at = q.at
    BY <1>3
<1>5. key = Key(c) /\ ip = Address(c) /\ at = call[c].at /\ at <= now
    BY <1>1, <1>3, <1>4 DEF Key, Address
<1>6. PICK P, R : P = Pruned(T, at) /\ R = Pruned(U, at)
    OBVIOUS
<1>7. PICK a, b : a = check_state(Entry(P, key), at) /\ b = check_state(Entry(R, ip), at)
    OBVIOUS
<1>8. PICK A, I : A = accounts' /\ I = ips'
    OBVIOUS
<1>9. PICK d : d = Combined(a, b)
    OBVIOUS
<1>10. PICK r : r = [q EXCEPT !.phase = IF d.allowed THEN "verifying" ELSE "refused",
                              !.at = IF d.allowed THEN 0 ELSE @,
                              !.retry = d.retry, !.overtaken = {}]
    OBVIOUS
<1>11. A = Looked(P, key, a) /\ I = Looked(R, ip, b) /\ now' = now /\ CountOperation
    BY <1>1, <1>5, <1>6, <1>7, <1>8 DEF check
<1>12. call' = [call EXCEPT ![c] = r]
    <2>1. call \in [Calls -> CallState \cup {Idle}]
        BY DEF GuardInv, TypeOK
    <2>2. call' = [call EXCEPT
              ![c].phase = IF d.allowed THEN "verifying" ELSE "refused",
              ![c].at = IF d.allowed THEN 0 ELSE @,
              ![c].retry = d.retry,
              ![c].overtaken = {}]
        BY <1>1, <1>5, <1>6, <1>7, <1>9 DEF check
    <2> QED BY <1>1, <1>10, <2>1, <2>2
<1>13. MaxAccounts \in Nat \ {0} /\ MaxIps \in Nat \ {0}
    BY ConfigAssumption
<1>14. /\ TableOk(A, Accounts, MaxAccounts) /\ Honest(a, at)
       /\ NoLonger(T, A, key, FALSE) /\ Holds(T, A, MaxAccounts)
       /\ Covered(a.retry, at, Entry(A, key).locked_until)
    BY <1>2, <1>5, <1>6, <1>7, <1>11, <1>13, CheckTable
<1>15. /\ TableOk(I, Ips, MaxIps) /\ Honest(b, at)
       /\ NoLonger(U, I, ip, FALSE) /\ Holds(U, I, MaxIps)
       /\ Covered(b.retry, at, Entry(I, ip).locked_until)
    BY <1>2, <1>5, <1>6, <1>7, <1>11, <1>13, CheckTable
<1>16. d.allowed \in BOOLEAN /\ d.retry \in Nat
    BY <1>9, <1>14, <1>15, CombinedFacts
<1>17. /\ r \in CallState /\ r.login = q.login /\ r.ip = q.ip /\ r.retry = d.retry
       /\ r.at \in Nat /\ r.at <= n
       /\ IF d.allowed THEN r.phase = "verifying" ELSE r.phase = "refused" /\ r.at = at
    <2>1. CASE d.allowed
        <3>1. r = [q EXCEPT !.phase = "verifying", !.at = 0, !.retry = d.retry, !.overtaken = {}]
            BY <1>10, <2>1
        <3>2. /\ r \in CallState /\ r.login = q.login /\ r.ip = q.ip /\ r.retry = d.retry
              /\ r.at = 0 /\ r.phase = "verifying"
            BY <1>3, <1>16, <3>1 DEF CallState, Phases
        <3> QED BY <1>2, <2>1, <3>2
    <2>2. CASE ~d.allowed
        <3>1. r = [q EXCEPT !.phase = "refused", !.at = q.at, !.retry = d.retry, !.overtaken = {}]
            BY <1>10, <2>2
        <3>2. /\ r \in CallState /\ r.login = q.login /\ r.ip = q.ip /\ r.retry = d.retry
              /\ r.at = q.at /\ r.phase = "refused"
            BY <1>3, <1>16, <3>1 DEF CallState, Phases
        <3> QED BY <1>3, <1>4, <2>2, <3>2
    <2> QED BY <1>16, <2>1, <2>2
<1>18. CallOk(r, n, A, I)
    BY <1>2, <1>3, <1>4, <1>9, <1>14, <1>15, <1>17, Decided DEF TableOk
<1>19. ASSUME NEW e \in Calls PROVE CallOk(call'[e], now', accounts', ips')
    <2>1. CASE e = c
        <3>1. call'[e] = r
            BY <1>12, <2>1 DEF GuardInv, TypeOK
        <3> QED BY <1>1, <1>8, <1>11, <1>18, <3>1
    <2>2. CASE e # c
        <3>1. PICK s : s = call[e]
            OBVIOUS
        <3>2. call'[e] = s /\ s \in CallState \cup {Idle} /\ CallOk(s, n, T, U)
            BY <1>1, <1>12, <2>2, <3>1 DEF GuardInv, TypeOK
        <3>3. CallOk(s, n, A, I)
            BY <1>2, <1>14, <1>15, <3>2, CallKept DEF TableOk
        <3> QED BY <1>1, <1>8, <1>11, <3>2, <3>3
    <2> QED BY <2>1, <2>2
<1>20. call' \in [Calls -> CallState \cup {Idle}]
    BY <1>12, <1>17 DEF GuardInv, TypeOK
<1>21. operations' \in 0 .. PruneEvery - 1
    BY <1>11, Counted DEF GuardInv, TypeOK
<1>22. GuardInv'
    BY <1>1, <1>2, <1>8, <1>11, <1>14, <1>15, <1>19, <1>20, <1>21, Assembled
<1>23. Holds(accounts, accounts', MaxAccounts) /\ Holds(ips, ips', MaxIps)
    BY <1>1, <1>8, <1>14, <1>15
<1> QED BY <1>22, <1>23

(* The calls a new lock overtakes are told of it, and nothing else changes.*)
LEMMA Overtaken ==
    ASSUME NEW calls \in [Calls -> CallState \cup {Idle}], NEW key, NEW ip,
           NEW dims \in SUBSET Dimensions,
           NEW after, after = Overtake(calls, key, ip, dims)
    PROVE  \A e \in Calls :
              /\ after[e] \in CallState \cup {Idle} /\ after[e].phase = calls[e].phase
              /\ calls[e].phase # "idle" =>
                    /\ after[e] \in CallState
                    /\ after[e].login = calls[e].login /\ after[e].ip = calls[e].ip
                    /\ after[e].at = calls[e].at /\ after[e].retry = calls[e].retry
                    /\ calls[e].overtaken \subseteq after[e].overtaken
                    /\ "account" \in dims /\ NormalLogin[calls[e].login] = key =>
                          "account" \in after[e].overtaken
                    /\ "ip" \in dims /\ calls[e].ip = ip => "ip" \in after[e].overtaken
<1> SUFFICES ASSUME NEW e \in Calls
             PROVE  /\ after[e] \in CallState \cup {Idle} /\ after[e].phase = calls[e].phase
                    /\ calls[e].phase # "idle" =>
                          /\ after[e] \in CallState
                          /\ after[e].login = calls[e].login /\ after[e].ip = calls[e].ip
                          /\ after[e].at = calls[e].at /\ after[e].retry = calls[e].retry
                          /\ calls[e].overtaken \subseteq after[e].overtaken
                          /\ "account" \in dims /\ NormalLogin[calls[e].login] = key =>
                                "account" \in after[e].overtaken
                          /\ "ip" \in dims /\ calls[e].ip = ip => "ip" \in after[e].overtaken
    OBVIOUS
<1>1. PICK q, r : q = calls[e] /\ r = after[e]
    OBVIOUS
<1>2. CASE q.phase = "idle"
    <2>1. r = q
        BY <1>1, <1>2 DEF Overtake
    <2> QED BY <1>1, <1>2, <2>1
<1>3. CASE q.phase # "idle"
    <2>1. PICK new : new = {x \in dims : \/ x = "account" /\ NormalLogin[q.login] = key
                                         \/ x = "ip" /\ q.ip = ip}
        OBVIOUS
    <2>2. r = [q EXCEPT !.overtaken = q.overtaken \cup new]
        BY <1>1, <1>3, <2>1 DEF Overtake
    <2>3. q \in CallState /\ q.overtaken \in SUBSET Dimensions /\ new \in SUBSET Dimensions
        BY <1>1, <1>3, <2>1, CallFields
    <2>4. /\ r \in CallState /\ r.phase = q.phase /\ r.login = q.login /\ r.ip = q.ip
          /\ r.at = q.at /\ r.retry = q.retry /\ r.overtaken = q.overtaken \cup new
        BY <2>2, <2>3 DEF CallState
    <2>5. /\ "account" \in dims /\ NormalLogin[q.login] = key => "account" \in new
          /\ "ip" \in dims /\ q.ip = ip => "ip" \in new
        BY <2>1
    <2> QED BY <1>1, <2>4, <2>5
<1> QED BY <1>2, <1>3

LEMMA RecordStep ==
    ASSUME GuardInv, NEW c \in Calls, record_failure(c)
    PROVE  /\ GuardInv'
           /\ Holds(accounts, accounts', MaxAccounts) /\ Holds(ips, ips', MaxIps)
           /\ NextLock(Entry(accounts, Key(c)), Entry(accounts', Key(c)), call[c].at)
           /\ NextLock(Entry(ips, Address(c)), Entry(ips', Address(c)), call[c].at)
           /\ \A e \in Calls \ {c} : call'[e].phase = call[e].phase
<1>1. PICK q, n, T, U, all : q = call[c] /\ n = now /\ T = accounts /\ U = ips /\ all = call
    OBVIOUS
<1>2. /\ n \in Nat \ {0} /\ now \in Nat
      /\ TableOk(T, Accounts, MaxAccounts) /\ TableOk(U, Ips, MaxIps)
      /\ all \in [Calls -> CallState \cup {Idle}]
      /\ q \in CallState \cup {Idle} /\ CallOk(q, n, T, U) /\ q.phase = "wrong"
    BY <1>1 DEF record_failure, GuardInv, TypeOK
<1>3. /\ q \in CallState /\ q.login \in Logins /\ q.ip \in Ips /\ q.at \in Nat
      /\ NormalLogin[q.login] \in Accounts /\ q.at <= n
    BY <1>2, CallFields DEF CallOk
<1>4. PICK key \in Accounts, ip \in Ips, at \in Nat :
          key = NormalLogin[q.login] /\ ip = q.ip /\ at = q.at
    BY <1>3
<1>5. key = Key(c) /\ ip = Address(c) /\ at = call[c].at /\ at <= now
    BY <1>1, <1>3, <1>4 DEF Key, Address
<1>6. PICK A0 \in ensure_capacity(Pruned(accounts, call[c].at), Key(c), MaxAccounts),
           I0 \in ensure_capacity(Pruned(ips, call[c].at), Address(c), MaxIps) :
          LET byAccount == record_failure_state(Entry(A0, Key(c)), AccountLimit, call[c].at)
              byIp      == record_failure_state(Entry(I0, Address(c)), IpLimit, call[c].at)
              decision  == Combined(byAccount, byIp)
              begun     == {x \in Dimensions : \/ x = "account" /\ byAccount.locks
                                               \/ x = "ip" /\ byIp.locks}
              calls     == Overtake(call, Key(c), Address(c), begun)
          IN  /\ accounts' = With(A0, Key(c), byAccount.state)
              /\ ips' = With(I0, Address(c), byIp.state)
              /\ call' = [calls EXCEPT ![c] =
                    IF decision.allowed THEN Idle
                    ELSE [calls[c] EXCEPT !.phase = "refused",
                                          !.retry = decision.retry,
                                          !.overtaken = {}]]
    BY Zenon DEF record_failure
<1>30. /\ A0 \in ensure_capacity(Pruned(T, at), key, MaxAccounts)
       /\ I0 \in ensure_capacity(Pruned(U, at), ip, MaxIps)
    BY <1>1, <1>5
<1>7. PICK a, b : /\ a = record_failure_state(Entry(A0, key), AccountLimit, at)
                  /\ b = record_failure_state(Entry(I0, ip), IpLimit, at)
    OBVIOUS
<1>8. PICK A, I : A = accounts' /\ I = ips'
    OBVIOUS
<1>9. PICK d : d = Combined(a, b)
    OBVIOUS
<1>10. PICK begun \in SUBSET Dimensions :
           begun = {x \in Dimensions : \/ x = "account" /\ a.locks
                                       \/ x = "ip" /\ b.locks}
    OBVIOUS
<1>11. PICK calls : calls = Overtake(all, key, ip, begun)
    OBVIOUS
<1>12. /\ A = With(A0, key, a.state) /\ I = With(I0, ip, b.state)
       /\ call' = [calls EXCEPT ![c] =
                    IF d.allowed THEN Idle
                    ELSE [calls[c] EXCEPT !.phase = "refused", !.retry = d.retry, !.overtaken = {}]]
    BY <1>1, <1>5, <1>6, <1>7, <1>8, <1>9, <1>10, <1>11
<1>13. MaxAccounts \in Nat \ {0} /\ MaxIps \in Nat \ {0} /\ now' = now /\ CountOperation
    BY ConfigAssumption DEF record_failure
<1>14. /\ TableOk(A, Accounts, MaxAccounts) /\ Honest(a, at)
       /\ NoLonger(T, A, key, a.locks) /\ Holds(T, A, MaxAccounts)
       /\ Covered(a.retry, at, Entry(A, key).locked_until)
       /\ NextLock(Entry(T, key), Entry(A, key), at)
    BY <1>2, <1>5, <1>7, <1>12, <1>13, <1>30, RecordTable
<1>15. /\ TableOk(I, Ips, MaxIps) /\ Honest(b, at)
       /\ NoLonger(U, I, ip, b.locks) /\ Holds(U, I, MaxIps)
       /\ Covered(b.retry, at, Entry(I, ip).locked_until)
       /\ NextLock(Entry(U, ip), Entry(I, ip), at)
    BY <1>2, <1>5, <1>7, <1>12, <1>13, <1>30, RecordTable
<1>16. d.allowed \in BOOLEAN /\ d.retry \in Nat /\ a.locks \in BOOLEAN /\ b.locks \in BOOLEAN
    BY <1>9, <1>14, <1>15, CombinedFacts DEF Honest
<1>17. \A e \in Calls :
          /\ calls[e] \in CallState \cup {Idle} /\ calls[e].phase = all[e].phase
          /\ all[e].phase # "idle" =>
                /\ calls[e] \in CallState
                /\ calls[e].login = all[e].login /\ calls[e].ip = all[e].ip
                /\ calls[e].at = all[e].at /\ calls[e].retry = all[e].retry
                /\ all[e].overtaken \subseteq calls[e].overtaken
                /\ "account" \in begun /\ NormalLogin[all[e].login] = key =>
                      "account" \in calls[e].overtaken
                /\ "ip" \in begun /\ all[e].ip = ip => "ip" \in calls[e].overtaken
    BY <1>2, <1>11, Overtaken
<1>18. ("account" \in begun <=> a.locks) /\ ("ip" \in begun <=> b.locks)
    BY <1>10 DEF Dimensions
<1>19. PICK p : p = calls[c]
    OBVIOUS
<1>20. /\ p \in CallState /\ p.login = q.login /\ p.ip = q.ip /\ p.at = q.at
    BY <1>1, <1>2, <1>17, <1>19
<1>21. PICK r : r = IF d.allowed THEN Idle
                    ELSE [p EXCEPT !.phase = "refused", !.retry = d.retry, !.overtaken = {}]
    OBVIOUS
<1>22. call' = [calls EXCEPT ![c] = r]
    BY <1>12, <1>19, <1>21
<1>23. r \in CallState \cup {Idle} /\ CallOk(r, n, A, I)
    <2>1. CASE d.allowed
        BY <1>21, <2>1 DEF CallOk, Idle
    <2>2. CASE ~d.allowed
        <3>1. r = [p EXCEPT !.phase = "refused", !.retry = d.retry, !.overtaken = {}]
            BY <1>21, <2>2
        <3>2. /\ r \in CallState /\ r.login = q.login /\ r.ip = q.ip /\ r.retry = d.retry
              /\ r.at = q.at /\ r.phase = "refused"
            BY <1>16, <1>20, <3>1 DEF CallState, Phases
        <3>3. r.at \in Nat /\ r.at <= n /\ r.at = at
            BY <1>3, <1>4, <3>2
        <3>4. IF d.allowed THEN r.phase = "verifying" ELSE r.phase = "refused" /\ r.at = at
            BY <2>2, <3>2, <3>3
        <3>5. CallOk(r, n, A, I)
            BY <1>2, <1>3, <1>4, <1>9, <1>14, <1>15, <3>2, <3>3, <3>4, Decided DEF TableOk
        <3> QED BY <3>2, <3>5
    <2> QED BY <1>16, <2>1, <2>2
<1>24. calls = [e \in Calls |-> calls[e]]
    BY <1>11 DEF Overtake
<1>25. call' \in [Calls -> CallState \cup {Idle}]
    BY <1>17, <1>22, <1>23, <1>24
<1>26. ASSUME NEW e \in Calls PROVE CallOk(call'[e], now', accounts', ips')
    <2>1. CASE e = c
        <3>1. call'[e] = r
            BY <1>22, <1>24, <2>1
        <3> QED BY <1>1, <1>8, <1>13, <1>23, <3>1
    <2>2. CASE e # c
        <3>1. PICK s, t : s = all[e] /\ t = calls[e]
            OBVIOUS
        <3>2. call'[e] = t /\ s \in CallState \cup {Idle} /\ CallOk(s, n, T, U)
            BY <1>1, <1>2, <1>22, <1>24, <2>2, <3>1 DEF GuardInv
        <3>3. /\ t \in CallState \cup {Idle} /\ s.phase = t.phase
              /\ s.phase # "idle" =>
                    /\ t.login = s.login /\ t.ip = s.ip /\ t.at = s.at
                    /\ t.retry = s.retry /\ s.overtaken \subseteq t.overtaken
                    /\ a.locks /\ NormalLogin[s.login] = key => "account" \in t.overtaken
                    /\ b.locks /\ s.ip = ip => "ip" \in t.overtaken
            BY <1>17, <1>18, <3>1
        <3>4. PICK la \in BOOLEAN, li \in BOOLEAN : la = a.locks /\ li = b.locks
            BY <1>16
        <3>5. NoLonger(T, A, key, la) /\ NoLonger(U, I, ip, li)
            BY <1>14, <1>15, <3>4
        <3>6. CallOk(t, n, A, I)
            BY <1>2, <1>14, <1>15, <3>2, <3>3, <3>4, <3>5, CallKept DEF TableOk
        <3> QED BY <1>1, <1>8, <1>13, <3>2, <3>6
    <2> QED BY <2>1, <2>2
<1>27. operations' \in 0 .. PruneEvery - 1
    BY <1>13, Counted DEF GuardInv, TypeOK
<1>28. GuardInv'
    BY <1>1, <1>2, <1>8, <1>13, <1>14, <1>15, <1>25, <1>26, <1>27, Assembled
<1>29. Holds(accounts, accounts', MaxAccounts) /\ Holds(ips, ips', MaxIps)
    BY <1>1, <1>8, <1>14, <1>15
<1>31. /\ NextLock(Entry(accounts, Key(c)), Entry(accounts', Key(c)), call[c].at)
       /\ NextLock(Entry(ips, Address(c)), Entry(ips', Address(c)), call[c].at)
    BY <1>1, <1>5, <1>8, <1>14, <1>15
<1>32. \A e \in Calls \ {c} : call'[e].phase = call[e].phase
    BY <1>1, <1>17, <1>22, <1>24
<1> QED BY <1>28, <1>29, <1>31, <1>32

LEMMA SuccessStep ==
    ASSUME GuardInv, NEW c \in Calls, record_success(c)
    PROVE  /\ GuardInv' /\ ips' = ips
           /\ \A k \in DOMAIN accounts : k # Key(c) =>
                 k \in DOMAIN accounts' /\ accounts'[k] = accounts[k]
<1>1. PICK T, U, n, A, key : /\ T = accounts /\ U = ips /\ n = now
                             /\ A = accounts' /\ key = Key(c)
    OBVIOUS
<1>2. /\ n \in Nat \ {0} /\ TableOk(T, Accounts, MaxAccounts) /\ TableOk(U, Ips, MaxIps)
      /\ A = Without(T, {key}) /\ call' = [call EXCEPT ![c] = Idle]
      /\ UNCHANGED <<now, ips, operations>>
    BY <1>1 DEF record_success, GuardInv, TypeOK
<1>3. T = [k \in DOMAIN T |-> T[k]]
    BY <1>2, TableFacts DEF TableOk
<1>4. PartOf(A, T) /\ DOMAIN A = DOMAIN T \ {key}
    BY <1>2, <1>3, WithoutPart
<1>5. TableOk(A, Accounts, MaxAccounts)
    BY <1>2, <1>4, PartTyped, ConfigAssumption
<1>6. NoLonger(T, A, key, FALSE) /\ NoLonger(U, U, key, FALSE)
    <2>1. ASSUME NEW k PROVE Entry(A, k).locked_until <= Entry(T, k).locked_until
        <3>1. Entry(T, k).locked_until \in Nat
            BY <1>2, EntryFacts DEF TableOk
        <3>2. Entry(A, k) = Entry(T, k) \/ Entry(A, k) = NoFailures
            BY <1>4 DEF Entry, PartOf
        <3>3. NoFailures.locked_until = 0
            BY DEF NoFailures
        <3> QED BY <3>1, <3>2, <3>3
    <2>2. ASSUME NEW k PROVE Entry(U, k).locked_until <= Entry(U, k).locked_until
        <3>1. Entry(U, k).locked_until \in Nat
            BY <1>2, EntryFacts DEF TableOk
        <3> QED BY <3>1
    <2> QED BY <2>1, <2>2 DEF NoLonger
<1>7. ASSUME NEW e \in Calls PROVE CallOk(call'[e], now', accounts', ips')
    <2>1. CASE e = c
        <3>1. call'[e] = Idle
            BY <1>2, <2>1 DEF GuardInv, TypeOK
        <3> QED BY <3>1 DEF CallOk, Idle
    <2>2. CASE e # c
        <3>1. PICK s : s = call[e]
            OBVIOUS
        <3>2. call'[e] = s /\ s \in CallState \cup {Idle} /\ CallOk(s, n, T, U)
            BY <1>1, <1>2, <2>2, <3>1 DEF GuardInv, TypeOK
        <3>3. PICK J, ip : J = U /\ ip = key
            OBVIOUS
        <3>4. /\ J \in Tables(Ips) /\ NoLonger(U, J, ip, FALSE)
              /\ A \in Tables(Accounts) /\ T \in Tables(Accounts) /\ U \in Tables(Ips)
            BY <1>2, <1>5, <1>6, <3>3 DEF TableOk
        <3>5. n \in Nat /\ FALSE \in BOOLEAN
            BY <1>2
        <3>6. CallOk(s, n, A, J)
            BY <1>6, <3>2, <3>4, <3>5, CallKept
        <3> QED BY <1>1, <1>2, <3>2, <3>3, <3>6
    <2> QED BY <2>1, <2>2
<1>8. call' \in [Calls -> CallState \cup {Idle}] /\ operations' \in 0 .. PruneEvery - 1
    BY <1>2 DEF GuardInv, TypeOK
<1>9. GuardInv'
    BY <1>1, <1>2, <1>5, <1>7, <1>8, Assembled
<1>10. \A k \in DOMAIN T : k # key => k \in DOMAIN A /\ A[k] = T[k]
    BY <1>4 DEF PartOf
<1> QED BY <1>1, <1>2, <1>9, <1>10

-----------------------------------------------------------------------------
(* The theorems.                                                           *)

LEMMA NextInv == GuardInv /\ [Next]_vars => GuardInv'
<1> SUFFICES ASSUME GuardInv, [Next]_vars PROVE GuardInv'
    OBVIOUS
<1>1. CASE UNCHANGED vars
    BY <1>1 DEF vars, GuardInv, TypeOK
<1>2. CASE Tick
    BY <1>2, TickStep
<1>3. ASSUME NEW c \in Calls, Step(c) PROVE GuardInv'
    <2>1. CASE check(c)
        BY <2>1, CheckStep
    <2>2. CASE record_failure(c)
        BY <2>2, RecordStep
    <2>3. CASE record_success(c)
        BY <2>3, SuccessStep
    <2>4. CASE \/ \E login \in Logins, ip \in Ips : Arrive(c, login, ip)
               \/ VerifyFails(c) \/ VerifySucceeds(c) \/ VerifyUnrecorded(c) \/ Leave(c)
        BY <2>4, SmallSteps
    <2> QED BY <1>3, <2>1, <2>2, <2>3, <2>4 DEF Step
<1> QED BY <1>1, <1>2, <1>3 DEF Next

(* The inductive invariant holds: what every call under way may expect of  *)
(* the two tables, whatever the other threads have done to them since.     *)
THEOREM Invariance == Spec => []GuardInv
<1>1. Init => GuardInv
    BY InitInv
<1>2. GuardInv /\ [Next]_vars => GuardInv'
    BY NextInv
<1> QED BY <1>1, <1>2, PTL DEF Spec

(* The variables keep their types, and neither table ever tracks more      *)
(* keys than its configured maximum.                                       *)
THEOREM TypeCorrect == Spec => []TypeOK
<1>1. GuardInv => TypeOK
    BY DEF GuardInv
<1> QED BY <1>1, Invariance, PTL

(* No guess starts during a lock: a password is verified for a locked      *)
(* account, or from a locked address, only by a call that check let in     *)
(* before the lock began.                                                  *)
THEOREM GuessesStop == Spec => []NoGuessDuringLock
<1>1. GuardInv => NoGuessDuringLock
    <2> SUFFICES ASSUME GuardInv, NEW c \in Calls, call[c].phase \in {"verifying", "wrong", "right"}
                 PROVE  /\ LockedOut(accounts, Key(c)) => "account" \in call[c].overtaken
                        /\ LockedOut(ips, Address(c)) => "ip" \in call[c].overtaken
        BY DEF NoGuessDuringLock
    <2>1. PICK q, n, A, I : q = call[c] /\ n = now /\ A = accounts /\ I = ips
        OBVIOUS
    <2>2. /\ n \in Nat /\ A \in Tables(Accounts) /\ I \in Tables(Ips) /\ CallOk(q, n, A, I)
          /\ q.phase \in {"verifying", "wrong", "right"}
        BY <2>1 DEF GuardInv, TypeOK
    <2>3. \A until : Expected(q, n, until) <=> until <= n
        BY <2>2 DEF Expected
    <2>4. PICK key, ip : key = NormalLogin[q.login] /\ ip = q.ip
        OBVIOUS
    <2>5. /\ "account" \notin q.overtaken => Entry(A, key).locked_until <= n
          /\ "ip" \notin q.overtaken => Entry(I, ip).locked_until <= n
        BY <2>2, <2>3, <2>4 DEF CallOk
    <2>6. Entry(A, key).locked_until \in Nat /\ Entry(I, ip).locked_until \in Nat
        BY <2>2, EntryFacts
    <2>7. key \in DOMAIN A /\ A[key].locked_until > n => "account" \in q.overtaken
        BY <2>2, <2>5, <2>6 DEF Entry
    <2>8. ip \in DOMAIN I /\ I[ip].locked_until > n => "ip" \in q.overtaken
        BY <2>2, <2>5, <2>6 DEF Entry
    <2> QED BY <2>1, <2>4, <2>7, <2>8 DEF LockedOut, Key, Address
<1> QED BY <1>1, Invariance, PTL

(* Retry-After is honest to the millisecond the code cuts it to: it        *)
(* outlasts, in both dimensions, every lock that existed when the client   *)
(* was told to wait, unless it is the longest that can be told.            *)
THEOREM RetryHonest == Spec => []RetryIsEnough
<1>1. GuardInv => RetryIsEnough
    <2> SUFFICES ASSUME GuardInv, NEW c \in Calls, call[c].phase = "refused"
                 PROVE  /\ call[c].retry > 0
                        /\ "account" \notin call[c].overtaken =>
                              Outlasts(call[c].retry, call[c].at,
                                       Entry(accounts, Key(c)).locked_until)
                        /\ "ip" \notin call[c].overtaken =>
                              Outlasts(call[c].retry, call[c].at,
                                       Entry(ips, Address(c)).locked_until)
        BY DEF RetryIsEnough
    <2>1. CallOk(call[c], now, accounts, ips)
        BY DEF GuardInv
    <2>2. \A until : Expected(call[c], now, until) <=>
                         Outlasts(call[c].retry, call[c].at, until)
        BY DEF Expected
    <2> QED BY <2>1, <2>2 DEF CallOk, Key, Address
<1> QED BY <1>1, Invariance, PTL

(* A lock in force keeps its end, whatever late failures and old checks    *)
(* arrive: an eviction by a full table, a prune after the longest quiet    *)
(* time and, for an account, a login that succeeds are the only ways out.  *)
THEOREM LocksHold == Spec => LockHolds
<1> DEFINE Good ==
               /\ Holds(ips, ips', MaxIps)
               /\ \A k \in DOMAIN accounts : LockedOut(accounts, k) =>
                     \/ k \in DOMAIN accounts' /\ accounts'[k].locked_until = accounts[k].locked_until
                     \/ EvictedFor(accounts, accounts', MaxAccounts)
                     \/ PrunedNow(accounts, k)
                     \/ \E c \in Calls : record_success(c) /\ Key(c) = k
<1>1. ASSUME GuardInv, Next PROVE Good
    <2>1. CASE accounts' = accounts /\ ips' = ips
        BY <2>1 DEF Holds
    <2>2. CASE Tick
        BY <2>1, <2>2 DEF Tick
    <2>3. ASSUME NEW c \in Calls, Step(c) PROVE Good
        <3>1. CASE check(c)
            BY <1>1, <3>1, CheckStep DEF Holds
        <3>2. CASE record_failure(c)
            BY <1>1, <3>2, RecordStep DEF Holds
        <3>3. CASE record_success(c)
            <4>1. /\ ips' = ips
                  /\ \A k \in DOMAIN accounts : k # Key(c) =>
                        k \in DOMAIN accounts' /\ accounts'[k] = accounts[k]
                BY <1>1, <3>3, SuccessStep
            <4>2. Holds(ips, ips', MaxIps)
                BY <4>1 DEF Holds
            <4>3. ASSUME NEW k \in DOMAIN accounts
                  PROVE  \/ k \in DOMAIN accounts' /\ accounts'[k].locked_until = accounts[k].locked_until
                         \/ \E d \in Calls : record_success(d) /\ Key(d) = k
                BY <3>3, <4>1
            <4> QED BY <4>2, <4>3
        <3>4. CASE \/ \E login \in Logins, ip \in Ips : Arrive(c, login, ip)
                   \/ VerifyFails(c) \/ VerifySucceeds(c) \/ VerifyUnrecorded(c) \/ Leave(c)
            <4>1. accounts' = accounts /\ ips' = ips
                BY <1>1, <3>4, SmallSteps
            <4> QED BY <2>1, <4>1
        <3> QED BY <2>3, <3>1, <3>2, <3>3, <3>4 DEF Step
    <2> QED BY <1>1, <2>2, <2>3 DEF Next
<1>2. GuardInv /\ [Next]_vars => [Good]_vars
    BY <1>1
<1>3. Good => /\ \A k \in DOMAIN ips : LockedOut(ips, k) =>
                    \/ k \in DOMAIN ips' /\ ips'[k].locked_until = ips[k].locked_until
                    \/ EvictedFor(ips, ips', MaxIps)
                    \/ PrunedNow(ips, k)
              /\ \A k \in DOMAIN accounts : LockedOut(accounts, k) =>
                    \/ k \in DOMAIN accounts' /\ accounts'[k].locked_until = accounts[k].locked_until
                    \/ EvictedFor(accounts, accounts', MaxAccounts)
                    \/ PrunedNow(accounts, k)
                    \/ \E c \in Calls : record_success(c) /\ Key(c) = k
    BY DEF Holds
<1> HIDE DEF Good
<1> QED BY <1>2, <1>3, Invariance, PTL DEF Spec, LockHolds

(* The locks of a key double from one to the next up to the configured     *)
(* maximum, counted from the time the failure was recorded with, and no    *)
(* level is skipped, or forgotten before a quiet time.                     *)
THEOREM LocksDouble == Spec => LockoutDoubles
<1> DEFINE Good ==
        \A c \in Calls : call[c].phase = "wrong" /\ call'[c].phase # "wrong" =>
            /\ NextLock(Entry(accounts, Key(c)), Entry(accounts', Key(c)), call[c].at)
            /\ NextLock(Entry(ips, Address(c)), Entry(ips', Address(c)), call[c].at)
<1>1. ASSUME GuardInv, Next, NEW c \in Calls, call[c].phase = "wrong", call'[c].phase # "wrong"
      PROVE  record_failure(c)
    <2>1. PICK e \in Calls : Step(e)
        BY <1>1 DEF Next, Tick
    <2>2. call \in [Calls -> CallState \cup {Idle}]
        BY <1>1 DEF GuardInv, TypeOK
    <2>3. CASE record_failure(e)
        <3>1. \A x \in Calls \ {e} : call'[x].phase = call[x].phase
            BY <1>1, <2>3, RecordStep
        <3>2. c = e
            BY <1>1, <3>1
        <3> QED BY <2>3, <3>2
    <2>4. CASE check(e)
        <3>1. call[e].phase = "arrived" /\ \A x \in Calls \ {e} : call'[x] = call[x]
            BY <2>2, <2>4 DEF check
        <3> QED BY <1>1, <3>1
    <2>5. CASE \E login \in Logins, ip \in Ips : Arrive(e, login, ip)
        <3>1. call[e].phase = "idle" /\ \A x \in Calls \ {e} : call'[x] = call[x]
            BY <2>2, <2>5 DEF Arrive
        <3> QED BY <1>1, <3>1
    <2>6. CASE VerifyFails(e) \/ VerifySucceeds(e) \/ VerifyUnrecorded(e)
        <3>1. call[e].phase = "verifying" /\ \A x \in Calls \ {e} : call'[x] = call[x]
            BY <2>2, <2>6 DEF VerifyFails, VerifySucceeds, VerifyUnrecorded
        <3> QED BY <1>1, <3>1
    <2>7. CASE record_success(e) \/ Leave(e)
        <3>1. call[e].phase \in {"right", "refused"} /\ \A x \in Calls \ {e} : call'[x] = call[x]
            BY <2>2, <2>7 DEF record_success, Leave
        <3> QED BY <1>1, <3>1
    <2> QED BY <2>1, <2>3, <2>4, <2>5, <2>6, <2>7 DEF Step
<1>2. ASSUME GuardInv, Next PROVE Good
    BY <1>1, <1>2, RecordStep
<1>3. GuardInv /\ [Next]_vars => [Good]_vars
    BY <1>2
<1> QED BY <1>3, Invariance, PTL DEF Spec, LockoutDoubles
=============================================================================
