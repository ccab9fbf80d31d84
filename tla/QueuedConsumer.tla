---------------------------- MODULE QueuedConsumer ----------------------------
(***************************************************************************)
(* sauna/consumers/base.py: the thread of a BatchQueuedConsumer.  It takes *)
(* checks from its queue, buffers them in a batch, sends the batch with    *)
(* the default _send_batch (one _send per check), and retries, drops or    *)
(* gives up.  A QueuedConsumer is one whose max_batch_size is 1.           *)
(*                                                                         *)
(* Checks are numbered in the order they were put in the queue.  Clocks    *)
(* are ages: Tick makes everything one unit older.  Only waiting and       *)
(* sending take time.                                                      *)
(***************************************************************************)
EXTENDS Integers, Sequences

CONSTANTS
  MaxBatchSize,   \* max_batch_size
  MaxBatchDelay,  \* max_batch_delay, in units of Tick
  StaleAge,       \* stale_age
  RetryDelay,     \* retry_delay
  MaxRetries,     \* the values of max_retry to consider
  PutDelay,       \* bound on the time from the timestamp of a check to its put
  MaxChecks       \* bound on the checks put in the queue

ASSUME SettingsAssumption ==
  /\ MaxBatchSize \in Nat \ {0}
  /\ MaxBatchDelay \in Nat
  /\ StaleAge \in Nat
  /\ RetryDelay \in Nat
  /\ MaxRetries # {} /\ MaxRetries \subseteq Nat \cup {-1}
ASSUME BoundsAssumption == MaxChecks \in Nat /\ PutDelay \in 0..StaleAge

VARIABLES
  maxRetry,     \* self.max_retry
  queue,        \* the queue.Queue: checks and the stop mark (the must_stop Event)
  produced,     \* history: how many checks were put in the queue
  age,          \* time since the timestamp of each check, up to StaleAge + 1
  mustStop,     \* must_stop.is_set()
  markPut,      \* term_handler has put the stop mark in the queue
  pc,           \* where the thread is
  batch,        \* the local variable of that name
  batchAge,     \* time since batch_created_at, up to MaxBatchDelay + 1
  waitLeft,     \* what is left of the timeout of queue.get, Forever for None
  retryCount,   \* retry_count
  retryLeft,    \* what is left of must_stop.wait(timeout=retry_delay)
  position,     \* the check _send_batch sends next
  delivered,    \* the checks that reached the remote service
  outcome,      \* history: how each check left the batch
  handled,      \* history: how many checks left a batch
  firstWait,    \* history: time since the first check of the batch was taken
  attempts,     \* history: the calls to _send_batch for this batch
  lateAttempts  \* history: those that started after must_stop was set

inputVars == <<queue, produced, mustStop, markPut>>
timeVars == <<age, batchAge, waitLeft, retryLeft, firstWait>>
batchVars == <<batch, delivered, outcome, handled>>
retryVars == <<retryCount, position, attempts, lateAttempts>>
vars == <<maxRetry, inputVars, timeVars, pc, batchVars, retryVars>>

Check == 1..MaxChecks
StopMark == 0
Forever == -1

AtMost(bound, n) == IF n > bound THEN bound ELSE n
AtLeast(bound, n) == IF n < bound THEN bound ELSE n

-----------------------------------------------------------------------------
TimeoutMut == Forever

\* The timeout of queue.get: none while the batch is empty, else what is left of the
\* batch delay.
Timeout ==
  IF batch = << >> THEN Forever ELSE AtLeast(0, MaxBatchDelay - batchAge)

\* batch_created_at is set by the first check of a batch.
BatchAgeAfter == IF batch = << >> THEN 0 ELSE batchAge

\* should_send_batch
ShouldSend ==
  \/ Len(batch) >= MaxBatchSize
  \/ MaxBatchDelay < batchAge
  \/ mustStop

TooOldMut == StaleAge < age[batch[1]]

\* Only the age of the last check of the batch is tested.
TooOld == StaleAge < age[batch[Len(batch)]]

\* retry_count was just incremented.
RetriesExhausted(count) == maxRetry # -1 /\ count > maxRetry

WaitsBeforeRetryMut == retryCount < maxRetry

WaitsBeforeRetry == maxRetry = -1 \/ retryCount < maxRetry

\* must_stop.wait(timeout=retry_delay) returns.
RetryWaitOver == retryLeft = 0 \/ mustStop

GivesUpMut == FALSE

\* After a failed attempt, try_send does not go on while the program stops.
GivesUp == mustStop

FirstPositionMut == IF position < Len(batch) THEN position + 1 ELSE 1

\* Every attempt sends the whole batch, from its first check.
FirstPosition == 1

\* The condition of the main loop of run().
StopsLoop == mustStop

BatchAfterSendMut == batch

\* run() replaces the batch by an empty one when try_send returns.
BatchAfterSend == << >>

\* The batch leaves the thread.
Leave(reason) ==
  /\ outcome' = [c \in Check |-> IF \E i \in 1..Len(batch) : batch[i] = c THEN reason ELSE outcome[c]]
  /\ handled' = handled + Len(batch)
  /\ batch' = BatchAfterSend
  /\ pc' = "loop"

-----------------------------------------------------------------------------
Init ==
  /\ maxRetry \in MaxRetries
  /\ queue = << >>
  /\ produced = 0
  /\ age = [c \in Check |-> 0]
  /\ mustStop = FALSE
  /\ markPut = FALSE
  /\ pc = "loop"
  /\ batch = << >>
  /\ batchAge = 0
  /\ waitLeft = Forever
  /\ retryCount = 0
  /\ retryLeft = 0
  /\ position = 1
  /\ delivered = {}
  /\ outcome = [c \in Check |-> "none"]
  /\ handled = 0
  /\ firstWait = 0
  /\ attempts = 0
  /\ lateAttempts = 0

(* The rest of the program.                                                *)

\* A thread that executed a check puts its result in the queue, possibly after the
\* stop mark or after a result with a later timestamp.
PutCheck ==
  /\ produced < MaxChecks
  /\ produced' = produced + 1
  /\ queue' = Append(queue, produced + 1)
  /\ \E a \in 0..PutDelay : age' = [age EXCEPT ![produced + 1] = a]
  /\ UNCHANGED <<maxRetry, mustStop, markPut, batchAge, waitLeft, retryLeft, firstWait, pc,
                 batchVars, retryVars>>

MarkNeededMut == FALSE

\* term_handler puts the Event in the queues.
MarkNeeded == mustStop /\ ~ markPut

\* term_handler: must_stop.set(), then the Event is put in the queue.
SetMustStop ==
  /\ ~ mustStop
  /\ mustStop' = TRUE
  /\ UNCHANGED <<maxRetry, queue, produced, markPut, timeVars, pc, batchVars, retryVars>>

PutStopMark ==
  /\ MarkNeeded
  /\ markPut' = TRUE
  /\ queue' = Append(queue, StopMark)
  /\ UNCHANGED <<maxRetry, produced, mustStop, timeVars, pc, batchVars, retryVars>>

\* Time passes while the thread waits or sends.  A queue.get that can return does not
\* last; with a batch exactly max_batch_delay old the thread polls the queue until
\* the clock moves, because the comparison of should_send_batch is strict.
Tick ==
  /\ \/ pc = "get" /\ queue = << >> /\ (waitLeft = 0 => batchAge <= MaxBatchDelay)
     \/ pc = "sending"
     \/ pc = "retryWait" /\ retryLeft > 0 /\ ~ mustStop
  /\ age' = [c \in Check |-> IF c <= produced THEN AtMost(StaleAge + 1, age[c] + 1) ELSE 0]
  /\ batchAge' = AtMost(MaxBatchDelay + 1, batchAge + 1)
  /\ firstWait' = AtMost(MaxBatchDelay + 2, firstWait + 1)
  /\ waitLeft' = IF waitLeft = Forever THEN Forever ELSE AtLeast(0, waitLeft - 1)
  /\ retryLeft' = AtLeast(0, retryLeft - 1)
  /\ UNCHANGED <<maxRetry, inputVars, pc, batchVars, retryVars>>

(* run()                                                                   *)

\* while not must_stop.is_set()
Exit ==
  /\ pc = "loop"
  /\ StopsLoop
  /\ pc' = "done"
  /\ UNCHANGED <<maxRetry, inputVars, timeVars, batchVars, retryVars>>

StartGet ==
  /\ pc = "loop"
  /\ ~ StopsLoop
  /\ waitLeft' = Timeout
  /\ pc' = "get"
  /\ UNCHANGED <<maxRetry, inputVars, age, batchAge, retryLeft, firstWait, batchVars, retryVars>>

GetCheck ==
  /\ pc = "get"
  /\ queue # << >>
  /\ Head(queue) # StopMark
  /\ queue' = Tail(queue)
  /\ batch' = Append(batch, Head(queue))
  /\ batchAge' = BatchAgeAfter
  /\ firstWait' = IF batch = << >> THEN 0 ELSE firstWait
  /\ pc' = "decide"
  /\ UNCHANGED <<maxRetry, produced, mustStop, markPut, age, waitLeft, retryLeft,
                 delivered, outcome, handled, retryVars>>

\* The Event only wakes the thread up.
GetStopMark ==
  /\ pc = "get"
  /\ queue # << >>
  /\ Head(queue) = StopMark
  /\ queue' = Tail(queue)
  /\ pc' = "decide"
  /\ UNCHANGED <<maxRetry, produced, mustStop, markPut, timeVars, batchVars, retryVars>>

GetEmpty ==
  /\ pc = "get"
  /\ queue = << >>
  /\ waitLeft = 0
  /\ pc' = "decide"
  /\ UNCHANGED <<maxRetry, inputVars, timeVars, batchVars, retryVars>>

KeepBatch ==
  /\ pc = "decide"
  /\ ~ ShouldSend
  /\ pc' = "loop"
  /\ UNCHANGED <<maxRetry, inputVars, timeVars, batchVars, retryVars>>

\* try_send returns at once when the batch is empty.
SendBatch ==
  /\ pc = "decide"
  /\ ShouldSend
  /\ pc' = IF batch = << >> THEN "loop" ELSE "try"
  /\ retryCount' = 0
  /\ attempts' = 0
  /\ UNCHANGED <<maxRetry, inputVars, timeVars, batchVars, position, lateAttempts>>

(* try_send()                                                              *)

DropStale ==
  /\ pc = "try"
  /\ TooOld
  /\ Leave("stale")
  /\ retryCount' = retryCount + 1
  /\ UNCHANGED <<maxRetry, inputVars, timeVars, delivered, position, attempts, lateAttempts>>

DropRetried ==
  /\ pc = "try"
  /\ ~ TooOld
  /\ RetriesExhausted(retryCount + 1)
  /\ Leave("maxRetry")
  /\ retryCount' = retryCount + 1
  /\ UNCHANGED <<maxRetry, inputVars, timeVars, delivered, position, attempts, lateAttempts>>

StartAttempt ==
  /\ pc = "try"
  /\ ~ TooOld
  /\ ~ RetriesExhausted(retryCount + 1)
  /\ retryCount' = retryCount + 1
  /\ attempts' = attempts + 1
  /\ lateAttempts' = IF mustStop THEN lateAttempts + 1 ELSE lateAttempts
  /\ position' = FirstPosition
  /\ pc' = "sending"
  /\ UNCHANGED <<maxRetry, inputVars, timeVars, batchVars>>

\* _send returns for a check that is not the last of the batch.
SendNext ==
  /\ pc = "sending"
  /\ position < Len(batch)
  /\ delivered' = delivered \cup {batch[position]}
  /\ position' = position + 1
  /\ UNCHANGED <<maxRetry, inputVars, timeVars, pc, batch, outcome, handled,
                 retryCount, attempts, lateAttempts>>

\* _send returns for the last one: "Batch sent".
SendLast ==
  /\ pc = "sending"
  /\ position = Len(batch)
  /\ delivered' = delivered \cup {batch[position]}
  /\ Leave("sent")
  /\ UNCHANGED <<maxRetry, inputVars, timeVars, retryVars>>

\* _send raises; the remote service may have got the check all the same.
SendRaises ==
  /\ pc = "sending"
  /\ delivered' \in {delivered, delivered \cup {batch[position]}}
  /\ pc' = "failed"
  /\ UNCHANGED <<maxRetry, inputVars, timeVars, batch, outcome, handled, retryVars>>

GiveUp ==
  /\ pc = "failed"
  /\ GivesUp
  /\ Leave("stopped")
  /\ UNCHANGED <<maxRetry, inputVars, timeVars, delivered, retryVars>>

StartRetryWait ==
  /\ pc = "failed"
  /\ ~ GivesUp
  /\ WaitsBeforeRetry
  /\ retryLeft' = RetryDelay
  /\ pc' = "retryWait"
  /\ UNCHANGED <<maxRetry, inputVars, age, batchAge, waitLeft, firstWait, batchVars, retryVars>>

SkipRetryWait ==
  /\ pc = "failed"
  /\ ~ GivesUp
  /\ ~ WaitsBeforeRetry
  /\ pc' = "try"
  /\ UNCHANGED <<maxRetry, inputVars, timeVars, batchVars, retryVars>>

\* must_stop.wait returns, early if the program stops.
EndRetryWait ==
  /\ pc = "retryWait"
  /\ RetryWaitOver
  /\ pc' = "try"
  /\ UNCHANGED <<maxRetry, inputVars, timeVars, batchVars, retryVars>>

-----------------------------------------------------------------------------
Environment == PutCheck \/ SetMustStop \/ PutStopMark \/ Tick

Run == Exit \/ StartGet \/ GetCheck \/ GetStopMark \/ GetEmpty \/ KeepBatch \/ SendBatch

TrySend ==
  \/ DropStale \/ DropRetried \/ StartAttempt
  \/ SendNext \/ SendLast \/ SendRaises
  \/ GiveUp \/ StartRetryWait \/ SkipRetryWait \/ EndRetryWait

Next == Environment \/ Run \/ TrySend

Spec == Init /\ [][Next]_vars

\* The thread runs, _send returns or raises, and term_handler puts the mark once it
\* has set the Event; nothing says that the program ever stops.  The clock moves
\* even while the thread polls its queue without ever waiting, hence the strong
\* fairness of Tick.
Fairness ==
  /\ WF_vars(Run \/ TrySend)
  /\ SF_vars(Tick)
  /\ WF_vars(PutStopMark)

FairSpec == Spec /\ Fairness

-----------------------------------------------------------------------------
Steps == {"loop", "get", "decide", "try", "sending", "failed", "retryWait", "done"}

\* The types of the variables; the batch never exceeds max_batch_size, and a batch
\* being sent is not empty.
TypeOK ==
  /\ maxRetry \in MaxRetries
  /\ queue \in Seq(Check \cup {StopMark})
  /\ produced \in 0..MaxChecks
  /\ age \in [Check -> 0..(StaleAge + 1)]
  /\ mustStop \in BOOLEAN /\ markPut \in BOOLEAN
  /\ pc \in Steps
  /\ batch \in Seq(Check) /\ Len(batch) <= MaxBatchSize
  /\ batchAge \in 0..(MaxBatchDelay + 1)
  /\ waitLeft \in {Forever} \cup 0..MaxBatchDelay
  /\ retryCount \in Nat
  /\ retryLeft \in 0..RetryDelay
  /\ position \in Nat
  /\ delivered \in SUBSET Check
  /\ outcome \in [Check -> {"none", "sent", "stale", "maxRetry", "stopped"}]
  /\ handled \in 0..MaxChecks
  /\ firstWait \in 0..(MaxBatchDelay + 2)
  /\ attempts \in Nat /\ lateAttempts \in Nat
  /\ pc \in {"try", "sending", "failed", "retryWait"} => batch # << >>
  /\ pc = "sending" => position \in 1..Len(batch)

\* The checks the thread still has to deal with, and the stop mark.
Line == batch \o queue

\* No check is lost, duplicated or reordered between the queue, the batch and the
\* checks that left the batch, across drops, retries and the stop mark.
NothingLost ==
  /\ \A c \in (handled + 1)..produced : \E i \in 1..Len(Line) : Line[i] = c
  /\ \A i \in 1..Len(Line) : Line[i] # StopMark =>
       /\ Line[i] \in (handled + 1)..produced
       /\ \A j \in 1..(i - 1) : Line[j] < Line[i]
  /\ \A c \in Check : outcome[c] = "none" <=> c > handled

\* A check is reported as sent only if the remote service got it, even when an
\* earlier attempt failed half way through the batch.
SentWasDelivered == \A c \in Check : outcome[c] = "sent" => c \in delivered

\* A batch is dropped for max_retry after exactly max_retry attempts, for its age
\* only when all its checks are too old (but for the put delay, although the age of
\* one of them is tested), and given up only in a shutdown, after an attempt.
DropsAreJustified ==
  [][\A c \in Check : outcome[c] = "none" =>
       /\ outcome'[c] = "maxRetry" => attempts = maxRetry
       /\ outcome'[c] = "stale" => \A i \in 1..Len(batch) : age[batch[i]] > StaleAge - PutDelay
       /\ outcome'[c] = "stopped" => mustStop /\ attempts > 0]_vars

\* Even with an unlimited max_retry a batch is not retried for ever: each retry
\* waits for retry_delay, until the batch is stale.  The shutdown grants one more.
AttemptsAreBounded ==
  RetryDelay > 0 => attempts <= (StaleAge \div RetryDelay) + 1 + (IF mustStop THEN 1 ELSE 0)

\* Once the program stops, the thread starts at most one more attempt.
OneLateAttempt == lateAttempts <= 1

\* The first check of a batch waits for the batch to be full no longer than
\* max_batch_delay, to the resolution of the clock.
BatchIsNotHeldBack ==
  pc \in {"loop", "get", "decide"} /\ batch # << >> => firstWait <= MaxBatchDelay + 1

\* After must_stop the thread ends, wherever it was.
StopIsObeyed == mustStop ~> pc = "done"

\* Every check that is put in the queue is sent or dropped, unless the program stops.
EveryCheckHandled == \A c \in Check : produced >= c ~> handled >= c \/ mustStop
===============================================================================
