--------------------------- MODULE PeriodicSchedule ---------------------------
(***************************************************************************)
(* What a periodic scheduler promises, in nominal seconds and without any  *)
(* notion of tick or cycle: at every wake exactly the periodicities that   *)
(* divide the nominal time are fired, and the nominal time never jumps     *)
(* over an instant at which some job was due.  Scheduler implements it.    *)
(***************************************************************************)
EXTENDS Integers

VARIABLES
  jobs,      \* the periodicities, in seconds, of the jobs to run
  nextWake,  \* nominal time of the next wake; the first one is at 0
  fired      \* the periodicities fired by the last wake

abstractVars == <<jobs, nextWake, fired>>

IsDue(p, instant) == instant % p = 0

Init ==
  /\ nextWake = 0
  /\ fired = {}

\* The jobs due now are fired, all of them and no other, and the scheduler
\* sleeps until an instant that comes no later than the next due one.
Wake ==
  /\ fired' = {p \in jobs : IsDue(p, nextWake)}
  /\ nextWake' > nextWake
  /\ \A p \in jobs : \A instant \in (nextWake + 1)..(nextWake' - 1) : ~ IsDue(p, instant)
  /\ jobs' = jobs

Spec == Init /\ [][Wake]_abstractVars
===============================================================================
