------------------------------- MODULE Scheduler -------------------------------
(***************************************************************************)
(* sauna/scheduler.py: a Scheduler numbers the wakes of the producer with  *)
(* a tick that runs through a finite cycle, and fires at each tick the     *)
(* jobs whose periodicity divides tick * tick_duration.                    *)
(*                                                                         *)
(* The sizing loop of the constructor (find_minimum_ticks_required) is     *)
(* modelled one iteration at a time, the calls to __next__ one at a time.  *)
(* A Job is its periodicity: run_producer makes one Job per periodicity.   *)
(***************************************************************************)
EXTENDS Integers, FiniteSets

CONSTANTS
  PeriodDomain,  \* the periodicities a configuration may use, in seconds
  MaxWakes       \* bound on the calls to __next__ that are explored

ASSUME PeriodAssumption == PeriodDomain \subseteq Nat \ {0}
ASSUME MaxWakesAssumption == MaxWakes \in Nat

VARIABLES
  jobs,         \* self._jobs, as the set of their periodicities
  phase,        \* "sizing" in the constructor, then "running", then "stopped"
  unsized,      \* the periodicities the sizing loop has not visited yet
  ticks,        \* self._ticks
  currentTick,  \* self._current_tick
  fired,        \* the list the last __next__ returned, as a set
  wakes         \* history: how many times __next__ was called

vars == <<jobs, phase, unsized, ticks, currentTick, fired, wakes>>

-----------------------------------------------------------------------------
CommonDivisors(S) == {d \in 1..(CHOOSE p \in S : TRUE) : \A p \in S : p % d = 0}

\* reduce(math.gcd, periodicities)
TickDuration(S) == CHOOSE d \in CommonDivisors(S) : \A e \in CommonDivisors(S) : e <= d

TicksMultipliedMut(p) == IF ticks >= p \div TickDuration(jobs) THEN ticks ELSE p \div TickDuration(jobs)

\* The new value of ticks after the loop visited p.  The test compares a number
\* of ticks with a number of seconds, as the code does.
TicksMultiplied(p) == IF ticks % p # 0 THEN ticks * (p \div TickDuration(jobs)) ELSE ticks

DueJobsMut == {p \in jobs : (((currentTick + 1) % ticks) * TickDuration(jobs)) % p = 0}

\* The list comprehension of __next__.
DueJobs == {p \in jobs : (currentTick * TickDuration(jobs)) % p = 0}

TickAfter == IF currentTick + 1 >= ticks THEN 0 ELSE currentTick + 1

-----------------------------------------------------------------------------
\* run_producer builds the Scheduler from a non-empty set of periodicities (an
\* empty one makes reduce() raise, see Lifecycle!ProducerFails).
Init ==
  /\ jobs \in (SUBSET PeriodDomain) \ {{}}
  /\ phase = "sizing"
  /\ unsized = jobs
  /\ ticks = 1
  /\ currentTick = 0
  /\ fired = {}
  /\ wakes = 0

\* One iteration of the loop over reversed(sorted(periodicities)).
SizeCycle ==
  /\ phase = "sizing"
  /\ \E p \in unsized :
       /\ \A q \in unsized : q <= p
       /\ unsized' = unsized \ {p}
       /\ ticks' = TicksMultiplied(p)
  /\ UNCHANGED <<jobs, phase, currentTick, fired, wakes>>

\* The loop is over: the constructor returns.
CycleSized ==
  /\ phase = "sizing"
  /\ unsized = {}
  /\ phase' = "running"
  /\ UNCHANGED <<jobs, unsized, ticks, currentTick, fired, wakes>>

\* __next__: the tick moves on before the due jobs are called.
CallNext ==
  /\ phase = "running"
  /\ wakes < MaxWakes
  /\ fired' = DueJobs
  /\ currentTick' = TickAfter
  /\ wakes' = wakes + 1
  /\ UNCHANGED <<jobs, phase, unsized, ticks>>

\* run_producer: must_stop.wait() returned true, the loop over the scheduler is left.
BreakLoop ==
  /\ phase = "running"
  /\ wakes > 0
  /\ phase' = "stopped"
  /\ UNCHANGED <<jobs, unsized, ticks, currentTick, fired, wakes>>

Next == SizeCycle \/ CycleSized \/ CallNext \/ BreakLoop

Spec == Init /\ [][Next]_vars

-----------------------------------------------------------------------------
\* The state of a Scheduler: once the cycle is sized the tick stays inside it,
\* so that _current_tick never designates a tick past the end of the cycle.
TypeOK ==
  /\ jobs \in (SUBSET PeriodDomain) \ {{}}
  /\ phase \in {"sizing", "running", "stopped"}
  /\ unsized \in SUBSET jobs
  /\ phase # "sizing" => unsized = {}
  /\ ticks \in Nat \ {0}
  /\ currentTick \in 0..(ticks - 1)
  /\ fired \in SUBSET jobs
  /\ wakes \in Nat

\* Going back to tick 0 is seamless: the length of the cycle in seconds is a
\* multiple of every periodicity, so no job fires early or late at the wrap.
CycleFitsEveryJob ==
  phase # "sizing" => \A p \in jobs : (ticks * TickDuration(jobs)) % p = 0

\* The part of it that the sizing loop builds up, one periodicity after the other.
CycleFitsSizedJobs ==
  \A p \in jobs \ unsized : (ticks * TickDuration(jobs)) % p = 0

\* The tick stands for the number of wakes, up to a multiple of every periodicity.
TickInStep ==
  \A p \in jobs : (wakes * TickDuration(jobs)) % p = (currentTick * TickDuration(jobs)) % p

\* The inductive invariant from which CycleFitsEveryJob and RunsOnSchedule follow.
IInv == TypeOK /\ CycleFitsSizedJobs /\ TickInStep

\* The scheduler implements the abstract schedule, whose time never wraps: at the
\* k-th call of __next__ exactly the jobs due at second k * tick_duration fire,
\* and no due instant falls between two wakes.
Abstract == INSTANCE PeriodicSchedule WITH nextWake <- wakes * TickDuration(jobs)

RunsOnSchedule == Abstract!Spec
===============================================================================
