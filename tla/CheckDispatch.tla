----------------------------- MODULE CheckDispatch -----------------------------
(***************************************************************************)
(* sauna/__init__.py: from a due check to the consumers' queues and to the *)
(* shared dict of the last results.                                        *)
(*                                                                         *)
(* With a concurrency above 1 the producer submits checks to a thread pool *)
(* and the workers execute _check_helper; otherwise the producer executes  *)
(* it itself, one check after the other.  Which checks are due when is the *)
(* scheduler's affair: a job here brings any set of checks.                *)
(*                                                                         *)
(* The consumers take nothing from their queue in this module, so that a   *)
(* queue is also the history of what was put in it.                        *)
(***************************************************************************)
EXTENDS Integers, Sequences

CONSTANTS
  Names,      \* the names of the active checks, unique after get_all_active_checks
  Executors,  \* the workers of the pool; without one, any of them is the producer
  QueueCount, \* len(self._consumers_queues), complete before the producer starts
  MaxRuns     \* bound on the runs of one check

ASSUME ExecutorsAssumption == Executors # {}
ASSUME BoundsAssumption == QueueCount \in Nat /\ MaxRuns \in Nat

VARIABLES
  threadPool,    \* whether self._thread_pool is not None
  producer,      \* "waiting" for the next job, "dispatching" one, or "stopped"
  due,           \* checks of the current job that were not handled yet
  currentChecks, \* self._current_checks: how many times a name is in the list
  pending,       \* work queue of the ThreadPoolExecutor
  pc,            \* where each executor is in _check_helper, or "idle"
  checking,      \* the check of each executor (arbitrary when idle)
  result,        \* the ServiceCheck of each executor, as the rank of the run
  nextQueue,     \* the queue each executor puts the result in next
  completed,     \* history: how many times each check was run to its end
  queues,        \* self._consumers_queues
  checkResults   \* check_results: rank of the run stored for a name, 0 if none

jobVars == <<producer, due>>
workVars == <<pc, checking, result, nextQueue>>
outputVars == <<completed, queues, checkResults>>
vars == <<threadPool, jobVars, currentChecks, pending, workVars, outputVars>>

Queue == 1..QueueCount

Steps == {"idle", "running", "sending", "storing", "removing"}

Idle(e) == pc[e] = "idle"

-----------------------------------------------------------------------------
MaySubmitMut(n) == TRUE

\* check.name not in self._current_checks
MaySubmit(n) == currentChecks[n] = 0

AfterCheckMut(raised) == IF raised THEN "idle" ELSE "sending"

\* launch_check catches what run_check raises and makes an UNKNOWN result of it:
\* either way there is a ServiceCheck to send, if there is a queue at all.
AfterCheck(raised) == IF QueueCount = 0 THEN "storing" ELSE "sending"

AfterSendReturnsMut(e) == "storing"

AfterSendOffByOneMut(e) == IF nextQueue[e] > QueueCount THEN "storing" ELSE "sending"

\* The for loop of send_data_to_consumers is over with the last queue.
AfterSend(e) == IF nextQueue[e] = QueueCount THEN "storing" ELSE "sending"

\* Only a pool keeps track of the checks under way.
AfterStore == IF threadPool THEN "removing" ELSE "idle"

-----------------------------------------------------------------------------
Init ==
  /\ threadPool \in BOOLEAN
  /\ producer = "waiting"
  /\ due = {}
  /\ currentChecks = [n \in Names |-> 0]
  /\ pending = << >>
  /\ pc = [e \in Executors |-> "idle"]
  /\ checking \in [Executors -> Names]
  /\ \A e, f \in Executors : checking[e] = checking[f]
  /\ result = [e \in Executors |-> 0]
  /\ nextQueue = [e \in Executors |-> 1]
  /\ completed = [n \in Names |-> 0]
  /\ queues = [q \in Queue |-> << >>]
  /\ checkResults = [n \in Names |-> 0]

\* A job of the scheduler calls launch_and_publish_checks_with_periodicity, whose
\* list of checks is complete before the first of them is handled.
StartJob ==
  /\ producer = "waiting"
  /\ due' \in (SUBSET {n \in Names : completed[n] < MaxRuns}) \ {{}}
  /\ producer' = "dispatching"
  /\ UNCHANGED <<threadPool, currentChecks, pending, workVars, outputVars>>

\* Under _current_checks_lock: the name is recorded and the check submitted.
Submit(n) ==
  /\ threadPool
  /\ n \in due
  /\ MaySubmit(n)
  /\ currentChecks' = [currentChecks EXCEPT ![n] = @ + 1]
  /\ pending' = Append(pending, n)
  /\ due' = due \ {n}
  /\ UNCHANGED <<threadPool, producer, workVars, outputVars>>

\* Under the same lock: "Skipping, already being checked".
Skip(n) ==
  /\ threadPool
  /\ n \in due
  /\ ~ MaySubmit(n)
  /\ due' = due \ {n}
  /\ UNCHANGED <<threadPool, producer, currentChecks, pending, workVars, outputVars>>

\* Without a pool the producer calls _check_helper and waits for it to return.
RunInline(n) ==
  /\ ~ threadPool
  /\ n \in due
  /\ \A e \in Executors : Idle(e)
  /\ \E e \in Executors :
       /\ pc' = [pc EXCEPT ![e] = "running"]
       /\ checking' = [checking EXCEPT ![e] = n]
  /\ due' = due \ {n}
  /\ UNCHANGED <<threadPool, producer, currentChecks, pending, result, nextQueue, outputVars>>

\* The job returns to the scheduler.
EndJob ==
  /\ producer = "dispatching"
  /\ due = {}
  /\ ~ threadPool => \A e \in Executors : Idle(e)
  /\ producer' = "waiting"
  /\ UNCHANGED <<threadPool, due, currentChecks, pending, workVars, outputVars>>

\* The producer leaves its loop on must_stop, or get_all_active_checks exits its
\* thread.  Thread_pool.shutdown(wait=False) leaves the pending work in the pool,
\* which executes it before the interpreter exits.
StopProducer ==
  /\ producer = "waiting"
  /\ producer' = "stopped"
  /\ UNCHANGED <<threadPool, due, currentChecks, pending, workVars, outputVars>>

\* A worker of the pool takes the oldest work item.
TakeWork(e) ==
  /\ threadPool
  /\ Idle(e)
  /\ pending # << >>
  /\ checking' = [checking EXCEPT ![e] = Head(pending)]
  /\ pending' = Tail(pending)
  /\ pc' = [pc EXCEPT ![e] = "running"]
  /\ UNCHANGED <<threadPool, jobVars, currentChecks, result, nextQueue, outputVars>>

\* launch_check: run_check returns or raises, and the result is timestamped.
RunCheck(e) ==
  /\ pc[e] = "running"
  /\ \E raised \in BOOLEAN : pc' = [pc EXCEPT ![e] = AfterCheck(raised)]
  /\ completed' = [completed EXCEPT ![checking[e]] = @ + 1]
  /\ result' = [result EXCEPT ![e] = completed'[checking[e]]]
  /\ nextQueue' = [nextQueue EXCEPT ![e] = 1]
  /\ UNCHANGED <<threadPool, jobVars, currentChecks, pending, checking, queues, checkResults>>

\* send_data_to_consumers: one put, in the order of the consumers.
PutInQueue(e) ==
  /\ pc[e] = "sending"
  /\ nextQueue[e] \in Queue
  /\ queues' = [queues EXCEPT ![nextQueue[e]] =
                  Append(@, [name |-> checking[e], run |-> result[e]])]
  /\ pc' = [pc EXCEPT ![e] = AfterSend(e)]
  /\ nextQueue' = [nextQueue EXCEPT ![e] = @ + 1]
  /\ UNCHANGED <<threadPool, jobVars, currentChecks, pending, checking, result, completed, checkResults>>

\* Under check_results_lock: the result replaces the previous one of that name.
StoreResult(e) ==
  /\ pc[e] = "storing"
  /\ checkResults' = [checkResults EXCEPT ![checking[e]] = result[e]]
  /\ pc' = [pc EXCEPT ![e] = AfterStore]
  /\ UNCHANGED <<threadPool, jobVars, currentChecks, pending, checking, result, nextQueue, completed, queues>>

\* Under _current_checks_lock: list.remove takes one occurrence of the name out and
\* raises ValueError, which the pool swallows, when there is none.
RemoveName(e) ==
  /\ pc[e] = "removing"
  /\ currentChecks' = [currentChecks EXCEPT ![checking[e]] = IF @ > 0 THEN @ - 1 ELSE @]
  /\ pc' = [pc EXCEPT ![e] = "idle"]
  /\ UNCHANGED <<threadPool, jobVars, pending, checking, result, nextQueue, outputVars>>

ProducerNext ==
  \/ StartJob
  \/ \E n \in Names : Submit(n) \/ Skip(n) \/ RunInline(n)
  \/ EndJob
  \/ StopProducer

ExecutorNext(e) ==
  \/ TakeWork(e)
  \/ RunCheck(e)
  \/ PutInQueue(e)
  \/ StoreResult(e)
  \/ RemoveName(e)

Next == ProducerNext \/ \E e \in Executors : ExecutorNext(e)

Spec == Init /\ [][Next]_vars

\* Threads that can run do run, and run_check terminates; nothing says that a job
\* ever starts or that the producer ever stops.
Fairness ==
  /\ WF_vars(EndJob \/ \E n \in Names : Submit(n) \/ Skip(n) \/ RunInline(n))
  /\ \A e \in Executors : WF_vars(ExecutorNext(e))

FairSpec == Spec /\ Fairness

-----------------------------------------------------------------------------
ResultSet == [name : Names, run : Nat]

\* The types of the variables; a thread in send_data_to_consumers never runs past
\* the last queue.
TypeOK ==
  /\ threadPool \in BOOLEAN
  /\ producer \in {"waiting", "dispatching", "stopped"}
  /\ due \in SUBSET Names
  /\ currentChecks \in [Names -> Nat]
  /\ pending \in Seq(Names)
  /\ pc \in [Executors -> Steps]
  /\ checking \in [Executors -> Names]
  /\ result \in [Executors -> Nat]
  /\ nextQueue \in [Executors -> 1..(QueueCount + 1)]
  /\ \A e \in Executors : pc[e] = "sending" => nextQueue[e] \in Queue
  /\ completed \in [Names -> Nat]
  /\ queues \in [Queue -> Seq(ResultSet)]
  /\ checkResults \in [Names -> Nat]

\* The bookkeeping of _current_checks: a name is in the list exactly once while its
\* check has a work item or an executor, never both, and not at all otherwise, so
\* that no name leaks and list.remove always finds its argument.
NamesAccountedFor ==
  /\ \A n \in Names : currentChecks[n] \in {0, 1}
  /\ \A i, j \in 1..Len(pending) : i # j => pending[i] # pending[j]
  /\ \A i \in 1..Len(pending) : currentChecks[pending[i]] = 1
  /\ \A e \in Executors : threadPool /\ ~ Idle(e) =>
       /\ currentChecks[checking[e]] = 1
       /\ \A i \in 1..Len(pending) : checking[e] # pending[i]
  /\ ~ threadPool => /\ \A n \in Names : currentChecks[n] = 0
                     /\ \A e \in Executors : pc[e] # "removing"
  /\ \A n \in Names : currentChecks[n] # 0 =>
       \/ \E i \in 1..Len(pending) : pending[i] = n
       \/ \E e \in Executors : ~ Idle(e) /\ checking[e] = n

\* A check is never executed by two threads at a time, whatever the pool's backlog:
\* what _current_checks is for.
OneRunAtATime ==
  \A e, f \in Executors :
    ~ Idle(e) /\ ~ Idle(f) /\ e # f => checking[e] # checking[f]

\* An executor still has to put the last result of n in queue q.
OnItsWay(n, q) ==
  \E e \in Executors : pc[e] = "sending" /\ checking[e] = n /\ nextQueue[e] <= q

\* How many runs of n queue q should have been given by now.
RunsGiven(n, q) == completed[n] - (IF OnItsWay(n, q) THEN 1 ELSE 0)

Holds(q, n, run) ==
  \E i \in 1..Len(queues[q]) : queues[q][i] = [name |-> n, run |-> run]

\* Every queue receives every run of a check, once, and never an older run after a
\* newer one, although several threads put in the queues without a common lock.
EveryRunInOrder ==
  \A q \in Queue :
    /\ \A n \in Names : \A run \in 1..RunsGiven(n, q) : Holds(q, n, run)
    /\ \A i \in 1..Len(queues[q]) : queues[q][i].run \in 1..RunsGiven(queues[q][i].name, q)
    /\ \A i, j \in 1..Len(queues[q]) :
         i < j /\ queues[q][i].name = queues[q][j].name => queues[q][i].run < queues[q][j].run

\* The shared dict never shows a run that some queued consumer was not given.
StoredAfterPublished ==
  \A n \in Names, q \in Queue : checkResults[n] # 0 => Holds(q, n, checkResults[n])

\* A name recorded as being checked is released, with its result stored, even when
\* the check raises: no check is skipped for ever.
EveryNameReleased ==
  \A n \in Names : currentChecks[n] > 0 ~> currentChecks[n] = 0 /\ checkResults[n] = completed[n]

\* The producer always gets to the end of a job.
EveryJobEnds == producer = "dispatching" ~> producer = "waiting"
===============================================================================
