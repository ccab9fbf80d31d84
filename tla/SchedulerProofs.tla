---------------------------- MODULE SchedulerProofs ----------------------------
(***************************************************************************)
(* The cycle of the scheduler is seamless for every set of periodicities,  *)
(* and the scheduler implements the schedule in nominal time.              *)
(***************************************************************************)
EXTENDS Scheduler, TLAPS, WellFoundedInduction

-----------------------------------------------------------------------------
(* Arithmetic of remainders.                                               *)

\* Euclidean division: what tlapm must know of % and \div.
LEMMA EuclideanDivision ==
  ASSUME NEW a \in Int, NEW p \in Nat \ {0}
  PROVE  /\ a = (p * (a \div p)) + (a % p)
         /\ a % p \in 0..(p - 1)
         /\ a \div p \in Int
OBVIOUS

\* A quotient and a small remainder determine the remainder.
LEMMA RemainderUnique ==
  ASSUME NEW q \in Int, NEW r \in Nat, NEW p \in Nat \ {0}, r < p
  PROVE  ((p * q) + r) % p = r
OBVIOUS

\* A multiple of p leaves the remainder zero.
LEMMA MultipleHasNoRemainder ==
  ASSUME NEW q \in Int, NEW p \in Nat \ {0}
  PROVE  (p * q) % p = 0
OBVIOUS

\* Adding a multiple of p does not change the remainder.
LEMMA RemainderShift ==
  ASSUME NEW q \in Int, NEW a \in Int, NEW p \in Nat \ {0}
  PROVE  ((p * q) + a) % p = a % p
<1> DEFINE r == a % p
           k == q + (a \div p)
<1>1. a = (p * (a \div p)) + r /\ r \in Nat /\ r < p /\ k \in Int
  BY EuclideanDivision
<1>2. (p * q) + a = (p * k) + r
  BY <1>1
<1> HIDE DEF r, k
<1>3. ((p * k) + r) % p = r
  BY <1>1, RemainderUnique
<1> QED
  BY <1>2, <1>3 DEF r

SameRemainder(a, b, p) == a % p = b % p

\* Equal remainders stay equal when the same amount is added to both sides.
LEMMA RemainderAdd ==
  ASSUME NEW a \in Nat, NEW b \in Nat, NEW c \in Nat, NEW p \in Nat \ {0},
         SameRemainder(a, b, p)
  PROVE  SameRemainder(a + c, b + c, p)
<1> USE DEF SameRemainder
<1> DEFINE s == (a % p) + c
<1>1. /\ a = (p * (a \div p)) + (a % p)
      /\ b = (p * (b \div p)) + (b % p)
      /\ a \div p \in Int /\ b \div p \in Int /\ s \in Int
  BY EuclideanDivision
<1>2. a + c = (p * (a \div p)) + s /\ b + c = (p * (b \div p)) + s
  BY <1>1
<1> HIDE DEF s
<1>3. ((p * (a \div p)) + s) % p = s % p /\ ((p * (b \div p)) + s) % p = s % p
  BY <1>1, RemainderShift
<1> QED
  BY <1>2, <1>3

\* A multiple of a multiple of p is a multiple of p.
LEMMA RemainderMultiply ==
  ASSUME NEW a \in Nat, NEW c \in Nat, NEW p \in Nat \ {0}, a % p = 0
  PROVE  (a * c) % p = 0
<1> DEFINE k == (a \div p) * c
<1>1. a = p * (a \div p) /\ a \div p \in Int
  BY EuclideanDivision
<1>2. k \in Int
  BY <1>1
<1>3. a * c = p * k
  BY <1>1
<1> HIDE DEF k
<1>4. (p * k) % p = 0
  BY <1>2, MultipleHasNoRemainder
<1> QED
  BY <1>3, <1>4

\* Multiplying the ticks by p \div d makes the cycle a multiple of p.
LEMMA CycleMultiple ==
  ASSUME NEW t \in Nat, NEW d \in Nat \ {0}, NEW p \in Nat \ {0}, p % d = 0
  PROVE  ((t * (p \div d)) * d) % p = 0
OBVIOUS

-----------------------------------------------------------------------------
(* The duration of a tick.                                                 *)

\* reduce(math.gcd, periodicities) is positive and divides every periodicity.
LEMMA TickDurationDivides ==
  ASSUME NEW S \in SUBSET (Nat \ {0}), S # {}
  PROVE  /\ TickDuration(S) \in Nat \ {0}
         /\ \A p \in S : p % TickDuration(S) = 0
<1> DEFINE D == CommonDivisors(S)
           b == CHOOSE p \in S : TRUE
           T == {b - d : d \in D}
<1>0. /\ b \in S
      /\ D = {d \in 1..b : \A p \in S : p % d = 0}
  BY DEF CommonDivisors
<1> HIDE DEF b, D
<1>1. b \in Nat \ {0} /\ D \subseteq 1..b
  BY <1>0
<1>2. 1 \in D
  <2>1. \A p \in S : p % 1 = 0
    OBVIOUS
  <2> QED
    BY <1>0, <1>1, <2>1
<1>3. T \subseteq Nat /\ T # {}
  BY <1>1, <1>2
<1>4. PICK m \in T : \A y \in T : ~ (<<y, m>> \in OpToRel(<, Nat))
  BY <1>3, WFMin, NatLessThanWellFounded
<1>5. PICK d \in D : m = b - d
  BY <1>4
<1>6. \A e \in D : e <= d
  <2> SUFFICES ASSUME NEW e \in D, ~ (e <= d) PROVE FALSE
    OBVIOUS
  <2>1. b - e \in T /\ b - e < m /\ b - e \in Nat /\ m \in Nat
    BY <1>1, <1>3, <1>5
  <2>2. <<b - e, m>> \in OpToRel(<, Nat)
    BY <2>1 DEF OpToRel
  <2> QED
    BY <1>4, <2>1, <2>2
<1>7. TickDuration(S) \in D
  BY <1>5, <1>6 DEF TickDuration, D
<1> QED
  BY <1>0, <1>1, <1>7

\* Multiplication by a positive number is strictly monotonic, read backwards.
LEMMA ProductOrder ==
  ASSUME NEW d \in Nat \ {0}, NEW j \in Int, NEW k \in Int, d * j < d * k
  PROVE  j < k
<1> SUFFICES ASSUME k <= j PROVE FALSE
  OBVIOUS
<1>1. j - k \in Nat /\ d * (j - k) \in Nat
  OBVIOUS
<1>2. d * (j - k) = (d * j) - (d * k)
  OBVIOUS
<1> QED
  BY <1>1, <1>2

\* No due instant is slept over: between two ticks of length d there is no
\* multiple of a periodicity that d divides.
LEMMA NothingDueBetweenTicks ==
  ASSUME NEW d \in Nat \ {0}, NEW p \in Nat \ {0}, p % d = 0, NEW k \in Nat,
         NEW x \in Int, d * k < x, x < d * (k + 1)
  PROVE  x % p # 0
<1> SUFFICES ASSUME x % p = 0 PROVE FALSE
  OBVIOUS
<1> DEFINE c == p \div d
           j == x \div p
           m == c * j
<1>1. x = p * j /\ j \in Int
  BY EuclideanDivision
<1>2. p = d * c /\ c \in Int
  BY EuclideanDivision
<1>3. m \in Int /\ x = d * m
  BY <1>1, <1>2
<1> HIDE DEF m
<1>4. k < m
  BY <1>3, ProductOrder
<1>5. m < k + 1
  <2> DEFINE n == k + 1
  <2>1. n \in Int /\ d * m < d * n
    BY <1>3
  <2> HIDE DEF n
  <2>2. m < n
    BY <1>3, <2>1, ProductOrder
  <2> QED
    BY <2>2 DEF n
<1> QED
  BY <1>3, <1>4, <1>5

-----------------------------------------------------------------------------
(* The inductive invariant.                                                *)

\* The tick duration of the jobs of a well-typed state.
LEMMA JobsDuration ==
  ASSUME TypeOK
  PROVE  /\ jobs \subseteq Nat \ {0}
         /\ TickDuration(jobs) \in Nat \ {0}
         /\ \A p \in jobs : p % TickDuration(jobs) = 0
<1>1. jobs \in SUBSET (Nat \ {0}) /\ jobs # {}
  BY PeriodAssumption DEF TypeOK
<1> QED
  BY <1>1, TickDurationDivides

\* The initial state.
LEMMA InitIInv == Init => IInv
<1> SUFFICES ASSUME Init PROVE IInv
  OBVIOUS
<1>1. TypeOK
  BY DEF Init, TypeOK
<1> QED
  BY <1>1 DEF Init, IInv, CycleFitsSizedJobs, TickInStep

\* Visiting a periodicity makes the cycle fit it and keeps it fitting the others.
LEMMA SizeCycleIInv == IInv /\ SizeCycle => IInv'
<1> SUFFICES ASSUME IInv, SizeCycle PROVE IInv'
  OBVIOUS
<1> DEFINE td == TickDuration(jobs)
<1>1. jobs \subseteq Nat \ {0} /\ td \in Nat \ {0} /\ \A p \in jobs : p % td = 0
  BY JobsDuration DEF IInv
<1>2. PICK p \in unsized : unsized' = unsized \ {p} /\ ticks' = TicksMultiplied(p)
  BY DEF SizeCycle
<1>3. p \in jobs /\ p \in Nat \ {0} /\ p % td = 0
  BY <1>1, <1>2 DEF IInv, TypeOK
<1> DEFINE c == IF ticks % p # 0 THEN p \div td ELSE 1
<1>4. c \in Nat \ {0} /\ ticks \in Nat \ {0}
  <2> HIDE DEF td
  <2>1. p \div td \in Nat \ {0}
    BY <1>1, <1>3
  <2> QED
    BY <2>1 DEF IInv, TypeOK
<1>5. ticks' = ticks * c
  BY <1>2, <1>4 DEF TicksMultiplied
<1>6. ticks' \in Nat \ {0} /\ ticks' >= ticks
  <2> HIDE DEF c
  <2> QED
    BY <1>4, <1>5
<1>7. TypeOK'
  BY <1>2, <1>6 DEF SizeCycle, IInv, TypeOK
<1>8. CycleFitsSizedJobs'
  <2> SUFFICES ASSUME NEW q \in jobs, q \notin unsized \ {p}
               PROVE  ((ticks * c) * td) % q = 0
    BY <1>2, <1>5 DEF CycleFitsSizedJobs, SizeCycle
  <2>1. CASE q \notin unsized
    <3>1. (ticks * td) % q = 0 /\ q \in Nat \ {0}
      BY <1>1, <2>1 DEF IInv, CycleFitsSizedJobs
    <3> DEFINE a == ticks * td
    <3> HIDE DEF c, td
    <3>2. a \in Nat /\ (ticks * c) * td = a * c
      BY <1>1, <1>4
    <3> HIDE DEF a
    <3>3. (a * c) % q = 0
      BY <1>4, <3>1, <3>2, RemainderMultiply DEF a
    <3> QED
      BY <3>2, <3>3
  <2>2. CASE q = p /\ ticks % p # 0
    <3> HIDE DEF td
    <3>1. ((ticks * (p \div td)) * td) % p = 0
      BY <1>1, <1>3, <1>4, CycleMultiple
    <3> QED
      BY <2>2, <3>1
  <2>3. CASE q = p /\ ticks % p = 0
    <3> HIDE DEF td
    <3>1. (ticks * td) % p = 0
      BY <1>1, <1>3, <1>4, <2>3, RemainderMultiply
    <3> QED
      BY <1>4, <2>3, <3>1
  <2> QED
    BY <2>1, <2>2, <2>3
<1>9. TickInStep'
  BY DEF SizeCycle, IInv, TickInStep
<1> QED
  BY <1>7, <1>8, <1>9 DEF IInv

\* One call of __next__ keeps the tick congruent to the number of wakes.
LEMMA CallNextIInv == IInv /\ CallNext => IInv'
<1> SUFFICES ASSUME IInv, CallNext PROVE IInv'
  OBVIOUS
<1> DEFINE td == TickDuration(jobs)
<1>1. jobs \subseteq Nat \ {0} /\ td \in Nat \ {0}
  BY JobsDuration DEF IInv
<1>2. /\ ticks \in Nat \ {0} /\ currentTick \in 0..(ticks - 1) /\ wakes \in Nat
      /\ unsized = {} /\ wakes' = wakes + 1
      /\ jobs' = jobs /\ unsized' = unsized /\ ticks' = ticks
  BY DEF IInv, TypeOK, CallNext
<1>3. TypeOK'
  BY <1>2 DEF CallNext, IInv, TypeOK, DueJobs, TickAfter
<1>4. CycleFitsSizedJobs'
  BY <1>2 DEF IInv, CycleFitsSizedJobs
<1>5. TickInStep'
  <2> SUFFICES ASSUME NEW p \in jobs
               PROVE  ((wakes + 1) * td) % p = (currentTick' * td) % p
    BY <1>2 DEF TickInStep
  <2> DEFINE a == wakes * td
             b == currentTick * td
  <2>1. p \in Nat \ {0} /\ a % p = b % p /\ (ticks * td) % p = 0
    BY <1>1, <1>2 DEF IInv, TickInStep, CycleFitsSizedJobs
  <2>2. currentTick' = TickAfter
    BY DEF CallNext
  <2> HIDE DEF td
  <2>3. a \in Nat /\ b \in Nat /\ (wakes + 1) * td = a + td /\ (currentTick + 1) * td = b + td
    BY <1>1, <1>2
  <2> HIDE DEF a, b
  <2>4. (a + td) % p = (b + td) % p
    <3>1. td \in Nat /\ a \in Nat /\ b \in Nat /\ p \in Nat \ {0} /\ SameRemainder(a, b, p)
      BY <1>1, <2>1, <2>3 DEF SameRemainder
    <3>2. SameRemainder(a + td, b + td, p)
      BY ONLY <3>1, RemainderAdd
    <3> QED
      BY ONLY <3>2 DEF SameRemainder
  <2>5. CASE currentTick + 1 < ticks
    <3>1. currentTick' = currentTick + 1
      BY ONLY <1>2, <2>2, <2>5 DEF TickAfter
    <3>2. currentTick' * td = b + td
      BY ONLY <3>1, <2>3
    <3> QED
      BY ONLY <3>2, <2>3, <2>4
  <2>6. CASE currentTick + 1 >= ticks
    <3>1. currentTick + 1 = ticks /\ currentTick' = 0
      BY <1>2, <2>2, <2>6 DEF TickAfter
    <3>2. (0 * td) % p = 0
      BY <1>1, <2>1
    <3> QED
      BY <2>1, <2>3, <2>4, <3>1, <3>2
  <2> QED
    BY <1>2, <2>5, <2>6
<1> QED
  BY <1>3, <1>4, <1>5 DEF IInv

\* IInv is inductive.
LEMMA NextIInv == IInv /\ [Next]_vars => IInv'
<1> SUFFICES ASSUME IInv, [Next]_vars PROVE IInv'
  OBVIOUS
<1>1. CASE SizeCycle
  BY <1>1, SizeCycleIInv
<1>2. CASE CycleSized
  BY <1>2 DEF CycleSized, IInv, TypeOK, CycleFitsSizedJobs, TickInStep
<1>3. CASE CallNext
  BY <1>3, CallNextIInv
<1>4. CASE BreakLoop
  BY <1>4 DEF BreakLoop, IInv, TypeOK, CycleFitsSizedJobs, TickInStep
<1>5. CASE UNCHANGED vars
  BY <1>5 DEF vars, IInv, TypeOK, CycleFitsSizedJobs, TickInStep
<1> QED
  BY <1>1, <1>2, <1>3, <1>4, <1>5 DEF Next

\* Every reachable state of the scheduler satisfies the inductive invariant.
THEOREM InductiveInvariant == Spec => []IInv
BY InitIInv, NextIInv, PTL DEF Spec

\* The scheduler's fields keep their ranges, for every set of periodicities: the
\* current tick never leaves the cycle.
THEOREM TypeCorrect == Spec => []TypeOK
BY InductiveInvariant, PTL DEF IInv

\* The wrap of the cycle is seamless, for every set of periodicities.
THEOREM CycleIsSeamless == Spec => []CycleFitsEveryJob
<1>1. IInv => CycleFitsEveryJob
  BY DEF IInv, TypeOK, CycleFitsSizedJobs, CycleFitsEveryJob
<1> QED
  BY <1>1, InductiveInvariant, PTL

-----------------------------------------------------------------------------
(* The scheduler implements the schedule in nominal time.                  *)

\* A call of __next__ is a wake of the abstract schedule.
LEMMA CallNextIsWake == IInv /\ CallNext => Abstract!Wake
<1> SUFFICES ASSUME IInv, CallNext PROVE Abstract!Wake
  OBVIOUS
<1> DEFINE td == TickDuration(jobs)
           now == wakes * td
<1>1. /\ jobs \subseteq Nat \ {0} /\ td \in Nat \ {0}
      /\ \A p \in jobs : p % td = 0
  BY JobsDuration DEF IInv
<1>2. wakes \in Nat /\ wakes' = wakes + 1 /\ jobs' = jobs /\ fired' = DueJobs
  BY DEF IInv, TypeOK, CallNext
<1>3. fired' = {p \in jobs : Abstract!IsDue(p, now)}
  BY <1>2 DEF IInv, TickInStep, DueJobs, Abstract!IsDue
<1>4. wakes' * TickDuration(jobs') = (wakes + 1) * td
  BY <1>2
<1>5. now \in Nat /\ (wakes + 1) * td > now
  <2> HIDE DEF td
  <2> QED
    BY <1>1, <1>2
<1>6. ASSUME NEW p \in jobs, NEW instant \in (now + 1)..(((wakes + 1) * td) - 1)
      PROVE  ~ Abstract!IsDue(p, instant)
  <2> HIDE DEF td
  <2>1. instant \in Int /\ td * wakes < instant /\ instant < td * (wakes + 1)
    BY <1>1, <1>2
  <2>2. p \in Nat \ {0} /\ p % td = 0
    BY <1>1
  <2>3. instant % p # 0
    BY <1>1, <1>2, <2>1, <2>2, NothingDueBetweenTicks
  <2> QED
    BY <2>3 DEF Abstract!IsDue
<1> QED
  BY <1>2, <1>3, <1>4, <1>5, <1>6 DEF Abstract!Wake

\* At its k-th call the scheduler fires exactly the jobs due at second
\* k * tick_duration and sleeps over no due instant, for ever and for every set
\* of periodicities.
THEOREM ImplementsSchedule == Spec => RunsOnSchedule
<1>1. Init => Abstract!Init
  <2> SUFFICES ASSUME Init PROVE Abstract!Init
    OBVIOUS
  <2>1. TickDuration(jobs) \in Nat \ {0}
    BY InitIInv, JobsDuration DEF IInv
  <2> QED
    BY <2>1 DEF Init, Abstract!Init
<1>2. IInv /\ [Next]_vars => [Abstract!Wake]_(Abstract!abstractVars)
  <2> SUFFICES ASSUME IInv, [Next]_vars
               PROVE  Abstract!Wake \/ UNCHANGED Abstract!abstractVars
    OBVIOUS
  <2>1. CASE CallNext
    BY <2>1, CallNextIsWake
  <2>2. CASE SizeCycle \/ CycleSized \/ BreakLoop \/ UNCHANGED vars
    BY <2>2 DEF SizeCycle, CycleSized, BreakLoop, vars, Abstract!abstractVars
  <2> QED
    BY <2>1, <2>2 DEF Next
<1> QED
  BY <1>1, <1>2, InductiveInvariant, PTL DEF Spec, RunsOnSchedule, Abstract!Spec
===============================================================================
