------------------------- MODULE QueuedConsumerProofs -------------------------
(***************************************************************************)
(* What the thread of a consumer does with its checks: none is lost on the *)
(* way from the queue to _send, one that counts as sent was delivered, and *)
(* one that was dropped was dropped for the reason that is logged, for any *)
(* size of the batches, any delays and any number of checks.               *)
(***************************************************************************)
EXTENDS QueuedConsumer, TLAPS

\* The first check that is not in the batch or beyond it.
Next1 == handled + Len(batch) + 1

\* The batch holds the checks that follow the handled ones.
BatchInOrder == \A i \in 1..Len(batch) : batch[i] = handled + i

\* The queue holds the checks that follow the batch, and the stop mark at position p, or
\* no mark when p is beyond its end.
QueueIsFrom(p) ==
  /\ \A i \in 1..Len(queue) :
       /\ i < p => queue[i] = handled + Len(batch) + i
       /\ i = p => queue[i] = StopMark
       /\ i > p => queue[i] = handled + Len(batch) + i - 1
  /\ p <= Len(queue) => produced = handled + Len(batch) + Len(queue) - 1 /\ markPut
  /\ p > Len(queue) => produced = handled + Len(batch) + Len(queue)

QueueInOrder == \E p \in Nat \ {0} : QueueIsFrom(p)

OutcomesKnown == \A c \in Check : outcome[c] = "none" <=> c > handled

\* A thread that may take one more check has room for it.
RoomInBatch == pc \in {"loop", "get"} => Len(batch) < MaxBatchSize

\* A check is no older than the ones before it, but for the put delay.
AgesInOrder == \A c, d \in Check : c < d /\ d <= produced => age[d] <= age[c] + PutDelay

\* An attempt has delivered the checks before its position.
PrefixDelivered == pc = "sending" => \A i \in 1..(position - 1) : batch[i] \in delivered

\* Attempts are counted twice, and the last one was allowed.
AttemptsCounted ==
  /\ pc \in {"try", "sending", "failed", "retryWait"} =>
       attempts = retryCount /\ (maxRetry # -1 => retryCount <= maxRetry)
  /\ pc \in {"sending", "failed", "retryWait"} => attempts > 0

\* Where the thread is once it has started an attempt in the shutdown.
LateAttemptIsLast ==
  \/ lateAttempts = 0
  \/ lateAttempts = 1 /\ mustStop /\ pc \in {"sending", "failed", "loop", "done"}

\* The batch is as old as the wait of its first check, and the wait in the queue ends
\* with the batch delay.
WaitMeasured ==
  batch # << >> =>
    /\ pc \in {"loop", "get", "decide"} => firstWait = batchAge
    /\ pc = "get" => waitLeft = AtLeast(0, MaxBatchDelay - batchAge)

\* The inductive invariant.
IInv ==
  /\ TypeOK
  /\ BatchInOrder
  /\ QueueInOrder
  /\ OutcomesKnown
  /\ RoomInBatch
  /\ AgesInOrder
  /\ PrefixDelivered
  /\ AttemptsCounted
  /\ LateAttemptIsLast
  /\ WaitMeasured

-----------------------------------------------------------------------------
\* The initial state.
LEMMA InitIInv == Init => IInv
<1> SUFFICES ASSUME Init PROVE IInv
  OBVIOUS
<1>1. TypeOK
  <2>1. /\ queue \in Seq(Check \cup {StopMark}) /\ batch \in Seq(Check)
        /\ batch = << >> /\ Len(batch) = 0
    BY DEF Init
  <2>2. /\ age \in [Check -> 0..(StaleAge + 1)]
        /\ outcome \in [Check -> {"none", "sent", "stale", "maxRetry", "stopped"}]
    BY SettingsAssumption DEF Init
  <2>3. /\ produced \in 0..MaxChecks /\ handled \in 0..MaxChecks
        /\ batchAge \in 0..(MaxBatchDelay + 1) /\ firstWait \in 0..(MaxBatchDelay + 2)
        /\ retryLeft \in 0..RetryDelay
    BY SettingsAssumption, BoundsAssumption DEF Init
  <2>4. /\ retryCount \in Nat /\ position \in Nat /\ attempts \in Nat /\ lateAttempts \in Nat
        /\ delivered \in SUBSET Check /\ Len(batch) <= MaxBatchSize
    BY <2>1, SettingsAssumption DEF Init
  <2> QED
    BY <2>1, <2>2, <2>3, <2>4 DEF Init, TypeOK, Steps
<1>2. QueueIsFrom(1)
  BY DEF Init, QueueIsFrom
<1>3. QueueInOrder
  BY <1>2 DEF QueueInOrder
<1>4. OutcomesKnown
  BY BoundsAssumption DEF Init, OutcomesKnown, Check
<1>5. BatchInOrder /\ PrefixDelivered
  BY DEF Init, BatchInOrder, PrefixDelivered
<1>6. RoomInBatch /\ AttemptsCounted /\ LateAttemptIsLast /\ WaitMeasured
  BY SettingsAssumption DEF Init, RoomInBatch, AttemptsCounted, LateAttemptIsLast, WaitMeasured
<1>7. AgesInOrder
  BY BoundsAssumption DEF Init, AgesInOrder, Check
<1> QED
  BY <1>1, <1>3, <1>4, <1>5, <1>6, <1>7 DEF IInv

-----------------------------------------------------------------------------
(* The types.                                                              *)

\* The members of the batch are checks.
LEMMA BatchTypes ==
  ASSUME TypeOK
  PROVE  /\ Len(batch) \in Nat
         /\ \A i \in 1..Len(batch) : batch[i] \in Check
         /\ Check \subseteq Nat \ {0}
<1>1. Len(batch) \in Nat /\ \A i \in 1..Len(batch) : batch[i] \in Check
  BY DEF TypeOK
<1>2. Check \subseteq Nat \ {0}
  BY BoundsAssumption DEF Check
<1> QED
  BY <1>1, <1>2

\* The environment keeps the types.
LEMMA EnvironmentTypes == TypeOK /\ Environment => TypeOK'
<1> SUFFICES ASSUME TypeOK, Environment PROVE TypeOK'
  OBVIOUS
<1> USE SettingsAssumption, BoundsAssumption
<1>1. CASE PutCheck
  <2>1. produced' \in 0..MaxChecks /\ produced + 1 \in Check
    BY <1>1 DEF PutCheck, TypeOK, Check
  <2>2. queue' \in Seq(Check \cup {StopMark})
    BY <1>1, <2>1 DEF PutCheck, TypeOK
  <2>3. age' \in [Check -> 0..(StaleAge + 1)]
    BY <1>1, <2>1 DEF PutCheck, TypeOK
  <2> QED
    BY <1>1, <2>1, <2>2, <2>3 DEF PutCheck, TypeOK, batchVars, retryVars
<1>2. CASE SetMustStop
  BY <1>2 DEF SetMustStop, TypeOK, timeVars, batchVars, retryVars
<1>3. CASE PutStopMark
  <2>1. queue' \in Seq(Check \cup {StopMark})
    BY <1>3 DEF PutStopMark, TypeOK
  <2> QED
    BY <1>3, <2>1 DEF PutStopMark, TypeOK, timeVars, batchVars, retryVars
<1>4. CASE Tick
  <2>1. age' \in [Check -> 0..(StaleAge + 1)]
    <3>1. \A a \in 0..(StaleAge + 1) : AtMost(StaleAge + 1, a + 1) \in 0..(StaleAge + 1)
      BY DEF AtMost
    <3>2. 0 \in 0..(StaleAge + 1)
      OBVIOUS
    <3> QED
      BY <1>4, <3>1, <3>2 DEF Tick, TypeOK
  <2>2. /\ batchAge' \in 0..(MaxBatchDelay + 1)
        /\ firstWait' \in 0..(MaxBatchDelay + 2)
        /\ waitLeft' \in {Forever} \cup 0..MaxBatchDelay
        /\ retryLeft' \in 0..RetryDelay
    BY <1>4 DEF Tick, TypeOK, AtMost, AtLeast, Forever
  <2> QED
    BY <1>4, <2>1, <2>2 DEF Tick, TypeOK, inputVars, batchVars, retryVars
<1> QED
  BY <1>1, <1>2, <1>3, <1>4 DEF Environment

\* run() keeps the types.
LEMMA RunTypes == IInv /\ Run => TypeOK'
<1> SUFFICES ASSUME IInv, Run PROVE TypeOK'
  OBVIOUS
<1> USE SettingsAssumption, BoundsAssumption
<1>0. TypeOK
  BY DEF IInv
<1>1. CASE Exit \/ KeepBatch \/ GetEmpty
  BY <1>0, <1>1 DEF Exit, KeepBatch, GetEmpty, TypeOK, Steps, inputVars, timeVars, batchVars, retryVars
<1>2. CASE StartGet
  <2>1. waitLeft' \in {Forever} \cup 0..MaxBatchDelay
    BY <1>0, <1>2 DEF StartGet, TypeOK, Timeout, AtLeast
  <2> QED
    BY <1>0, <1>2, <2>1 DEF StartGet, TypeOK, Steps, inputVars, batchVars, retryVars
<1>3. CASE GetCheck
  <2>1. Head(queue) \in Check /\ queue' \in Seq(Check \cup {StopMark})
    BY <1>0, <1>3 DEF GetCheck, TypeOK
  <2>2. batch' \in Seq(Check) /\ Len(batch') <= MaxBatchSize
    BY <1>0, <1>3, <2>1 DEF GetCheck, TypeOK, IInv, RoomInBatch
  <2>3. batchAge' \in 0..(MaxBatchDelay + 1) /\ firstWait' \in 0..(MaxBatchDelay + 2)
    BY <1>0, <1>3 DEF GetCheck, TypeOK, BatchAgeAfter
  <2> QED
    BY <1>0, <1>3, <2>1, <2>2, <2>3 DEF GetCheck, TypeOK, Steps, retryVars
<1>4. CASE GetStopMark
  <2>1. queue' \in Seq(Check \cup {StopMark})
    BY <1>0, <1>4 DEF GetStopMark, TypeOK
  <2> QED
    BY <1>0, <1>4, <2>1 DEF GetStopMark, TypeOK, Steps, timeVars, batchVars, retryVars
<1>5. CASE SendBatch
  BY <1>0, <1>5 DEF SendBatch, TypeOK, Steps, inputVars, timeVars, batchVars
<1> QED
  BY <1>1, <1>2, <1>3, <1>4, <1>5 DEF Run

\* How many checks were put in the queue bounds how many left a batch.
LEMMA HandledBound == IInv => handled + Len(batch) \in 0..produced
<1> SUFFICES ASSUME IInv PROVE handled + Len(batch) \in 0..produced
  OBVIOUS
<1>1. PICK p \in Nat \ {0} : QueueIsFrom(p)
  BY DEF IInv, QueueInOrder
<1>2. Len(batch) \in Nat /\ Len(queue) \in Nat /\ handled \in Nat
  BY BoundsAssumption DEF IInv, TypeOK
<1> QED
  BY <1>1, <1>2 DEF QueueIsFrom

\* A batch leaves with its types.
LEMMA LeaveTypes ==
  ASSUME IInv, NEW reason \in {"sent", "stale", "maxRetry", "stopped"}, Leave(reason)
  PROVE  /\ outcome' \in [Check -> {"none", "sent", "stale", "maxRetry", "stopped"}]
         /\ handled' \in 0..MaxChecks
         /\ batch' = << >> /\ pc' = "loop"
<1>1. outcome' \in [Check -> {"none", "sent", "stale", "maxRetry", "stopped"}]
  BY DEF IInv, TypeOK, Leave
<1>2. handled' \in 0..MaxChecks
  BY HandledBound, BoundsAssumption DEF IInv, TypeOK, Leave
<1> QED
  BY <1>1, <1>2 DEF Leave, BatchAfterSend

\* try_send() keeps the types.
LEMMA TrySendTypes == IInv /\ TrySend => TypeOK'
<1> SUFFICES ASSUME IInv, TrySend PROVE TypeOK'
  OBVIOUS
<1> USE SettingsAssumption, BoundsAssumption
<1>0. TypeOK
  BY DEF IInv
<1>1. CASE DropStale
  <2>1. Leave("stale")
    BY <1>1 DEF DropStale
  <2> QED
    BY <1>0, <1>1, <2>1, LeaveTypes DEF DropStale, TypeOK, Steps, inputVars, timeVars
<1>2. CASE DropRetried
  <2>1. Leave("maxRetry")
    BY <1>2 DEF DropRetried
  <2> QED
    BY <1>0, <1>2, <2>1, LeaveTypes DEF DropRetried, TypeOK, Steps, inputVars, timeVars
<1>3. CASE GiveUp
  <2>1. Leave("stopped")
    BY <1>3 DEF GiveUp
  <2> QED
    BY <1>0, <1>3, <2>1, LeaveTypes DEF GiveUp, TypeOK, Steps, inputVars, timeVars, retryVars
<1>4. CASE SendLast
  <2>1. Leave("sent")
    BY <1>4 DEF SendLast
  <2>2. delivered' \in SUBSET Check
    BY <1>0, <1>4, BatchTypes DEF SendLast, TypeOK
  <2> QED
    BY <1>0, <1>4, <2>1, <2>2, LeaveTypes DEF SendLast, TypeOK, Steps, inputVars, timeVars, retryVars
<1>5. CASE StartAttempt
  <2>1. batch # << >> /\ Len(batch) \in Nat
    BY <1>0, <1>5 DEF StartAttempt, TypeOK
  <2>2. position' \in 1..Len(batch)
    BY <1>0, <1>5, <2>1 DEF StartAttempt, TypeOK, FirstPosition
  <2> QED
    BY <1>0, <1>5, <2>1, <2>2 DEF StartAttempt, TypeOK, Steps, inputVars, timeVars, batchVars
<1>6. CASE SendNext
  <2>1. delivered' \in SUBSET Check
    BY <1>0, <1>6, BatchTypes DEF SendNext, TypeOK
  <2>2. position' \in 1..Len(batch)
    BY <1>0, <1>6, BatchTypes DEF SendNext, TypeOK
  <2> QED
    BY <1>0, <1>6, <2>1, <2>2 DEF SendNext, TypeOK, Steps, inputVars, timeVars
<1>7. CASE SendRaises
  <2>1. batch[position] \in Check
    BY <1>0, <1>7, BatchTypes DEF SendRaises, TypeOK
  <2>2. delivered' \in SUBSET Check
    BY <1>0, <1>7, <2>1 DEF SendRaises, TypeOK
  <2> QED
    BY <1>0, <1>7, <2>2 DEF SendRaises, TypeOK, Steps, inputVars, timeVars, retryVars
<1>8. CASE StartRetryWait
  BY <1>0, <1>8 DEF StartRetryWait, TypeOK, Steps, inputVars, batchVars, retryVars
<1>9. CASE SkipRetryWait \/ EndRetryWait
  BY <1>0, <1>9 DEF SkipRetryWait, EndRetryWait, TypeOK, Steps, inputVars, timeVars, batchVars, retryVars
<1> QED
  BY <1>1, <1>2, <1>3, <1>4, <1>5, <1>6, <1>7, <1>8, <1>9 DEF TrySend

-----------------------------------------------------------------------------
(* The line of the checks.                                                 *)

\* A batch that leaves takes with it the checks that follow the handled ones.
LEMMA LeaveOrder ==
  ASSUME IInv, NEW reason \in {"sent", "stale", "maxRetry", "stopped"}, Leave(reason),
         UNCHANGED <<queue, produced, markPut>>
  PROVE  BatchInOrder' /\ QueueInOrder' /\ OutcomesKnown'
<1>1. /\ batch' = << >> /\ handled' = handled + Len(batch)
      /\ handled \in Nat /\ Len(batch) \in Nat /\ Len(batch') = 0
  BY BoundsAssumption DEF IInv, TypeOK, Leave, BatchAfterSend
<1>2. BatchInOrder'
  BY <1>1 DEF BatchInOrder
<1>3. QueueInOrder'
  <2>1. PICK p \in Nat \ {0} : QueueIsFrom(p)
    BY DEF IInv, QueueInOrder
  <2>2. handled' + Len(batch') = handled + Len(batch)
    BY <1>1
  <2>3. QueueIsFrom(p)'
    BY <2>1, <2>2 DEF QueueIsFrom
  <2> QED
    BY <2>1, <2>3 DEF QueueInOrder
<1>4. OutcomesKnown'
  <2> SUFFICES ASSUME NEW c \in Check PROVE outcome'[c] = "none" <=> c > handled'
    BY DEF OutcomesKnown
  <2>1. c \in Nat
    BY BatchTypes DEF IInv
  <2>2. CASE \E i \in 1..Len(batch) : batch[i] = c
    <3>1. outcome'[c] = reason
      BY <2>2 DEF Leave
    <3>2. c <= handled + Len(batch)
      BY <1>1, <2>2 DEF IInv, BatchInOrder
    <3> QED
      BY <1>1, <2>1, <3>1, <3>2
  <2>3. CASE ~ \E i \in 1..Len(batch) : batch[i] = c
    <3>1. outcome'[c] = outcome[c]
      BY <2>3 DEF Leave
    <3>2. ASSUME c > handled, c <= handled + Len(batch) PROVE FALSE
      <4>1. c - handled \in 1..Len(batch)
        BY <1>1, <2>1, <3>2
      <4>2. batch[c - handled] = handled + (c - handled)
        BY <4>1 DEF IInv, BatchInOrder
      <4>3. batch[c - handled] = c
        BY <1>1, <2>1, <4>2
      <4> QED
        BY <2>3, <4>1, <4>3
    <3>3. outcome[c] = "none" <=> c > handled
      BY DEF IInv, OutcomesKnown
    <3> QED
      BY <1>1, <2>1, <3>1, <3>2, <3>3
  <2> QED
    BY <2>2, <2>3
<1> QED
  BY <1>2, <1>3, <1>4

\* A check, or the mark, is put at the end of the queue.
LEMMA PutOrder == IInv /\ (PutCheck \/ PutStopMark) => QueueInOrder'
<1> SUFFICES ASSUME IInv, PutCheck \/ PutStopMark PROVE QueueInOrder'
  OBVIOUS
<1>1. PICK p \in Nat \ {0} : QueueIsFrom(p)
  BY DEF IInv, QueueInOrder
<1>2. /\ handled \in Nat /\ Len(batch) \in Nat /\ Len(queue) \in Nat /\ produced \in Nat
      /\ queue \in Seq(Check \cup {StopMark})
  BY BoundsAssumption DEF IInv, TypeOK
<1>3. UNCHANGED <<handled, batch>>
  BY DEF PutCheck, PutStopMark, batchVars
<1>4. CASE PutCheck
  <2>0. PICK q \in Nat \ {0} : q = IF p <= Len(queue) THEN p ELSE Len(queue) + 2
    BY <1>2
  <2>1. produced + 1 \in Check
    BY <1>2, <1>4, BoundsAssumption DEF PutCheck, Check
  <2>2. /\ Len(queue') = Len(queue) + 1
        /\ \A i \in 1..Len(queue) : queue'[i] = queue[i]
        /\ queue'[Len(queue) + 1] = produced + 1
        /\ produced' = produced + 1 /\ markPut' = markPut
    BY <1>2, <1>4, <2>1 DEF PutCheck
  <2>3. QueueIsFrom(q)'
    <3>1. ASSUME NEW i \in 1..Len(queue')
          PROVE  /\ i < q => queue'[i] = handled + Len(batch) + i
                 /\ i = q => queue'[i] = StopMark
                 /\ i > q => queue'[i] = handled + Len(batch) + i - 1
      <4>1. CASE i \in 1..Len(queue)
        BY <1>1, <1>2, <2>0, <2>2, <4>1 DEF QueueIsFrom
      <4>2. CASE i = Len(queue) + 1
        BY <1>1, <1>2, <2>0, <2>2, <4>2 DEF QueueIsFrom
      <4> QED
        BY <1>2, <2>2, <4>1, <4>2
    <3>2. /\ q <= Len(queue') => produced' = handled + Len(batch) + Len(queue') - 1 /\ markPut
          /\ q > Len(queue') => produced' = handled + Len(batch) + Len(queue')
      BY <1>1, <1>2, <2>0, <2>2 DEF QueueIsFrom
    <3> QED
      BY <1>3, <2>2, <3>1, <3>2 DEF QueueIsFrom
  <2> QED
    BY <2>3 DEF QueueInOrder
<1>5. CASE PutStopMark
  <2>1. /\ Len(queue') = Len(queue) + 1
        /\ \A i \in 1..Len(queue) : queue'[i] = queue[i]
        /\ queue'[Len(queue) + 1] = StopMark
        /\ produced' = produced /\ ~ markPut /\ markPut'
    BY <1>2, <1>5 DEF PutStopMark, MarkNeeded
  <2>2. PICK q \in Nat \ {0} : q = Len(queue) + 1
    BY <1>2
  <2>3. QueueIsFrom(q)'
    <3>1. \A i \in 1..Len(queue') : i \in 1..Len(queue) \/ i = q
      BY <1>2, <2>1, <2>2
    <3> QED
      BY <1>1, <1>2, <1>3, <2>1, <2>2, <3>1 DEF QueueIsFrom
  <2> QED
    BY <2>3 DEF QueueInOrder
<1> QED
  BY <1>4, <1>5

\* The first check, or the mark, is taken from the queue.
LEMMA GetOrder == IInv /\ (GetCheck \/ GetStopMark) => BatchInOrder' /\ QueueInOrder'
<1> SUFFICES ASSUME IInv, GetCheck \/ GetStopMark PROVE BatchInOrder' /\ QueueInOrder'
  OBVIOUS
<1>1. PICK p \in Nat \ {0} : QueueIsFrom(p)
  BY DEF IInv, QueueInOrder
<1>2. /\ handled \in Nat /\ Len(batch) \in Nat /\ Len(queue) \in Nat /\ produced \in Nat
      /\ queue \in Seq(Check \cup {StopMark}) /\ batch \in Seq(Check)
  BY BoundsAssumption DEF IInv, TypeOK
<1>3. /\ queue # << >> /\ queue' = Tail(queue)
      /\ UNCHANGED <<handled, produced, markPut>>
  BY DEF GetCheck, GetStopMark, batchVars
<1>4. /\ Len(queue') = Len(queue) - 1 /\ Len(queue) > 0
      /\ \A i \in 1..(Len(queue) - 1) : queue'[i] = queue[i + 1]
      /\ Head(queue) = queue[1]
  BY <1>2, <1>3
<1>5. CASE GetCheck
  <2>1. queue[1] # StopMark /\ batch' = Append(batch, queue[1])
    BY <1>4, <1>5 DEF GetCheck
  <2>2. p > 1 /\ queue[1] = handled + Len(batch) + 1
    BY <1>1, <1>2, <1>4, <2>1 DEF QueueIsFrom
  <2>3. /\ Len(batch') = Len(batch) + 1
        /\ \A i \in 1..Len(batch) : batch'[i] = batch[i]
        /\ batch'[Len(batch) + 1] = handled + Len(batch) + 1
    BY <1>2, <2>1, <2>2
  <2>4. BatchInOrder'
    <3>1. BatchInOrder
      BY DEF IInv
    <3>2. ASSUME NEW i \in 1..Len(batch') PROVE batch'[i] = handled + i
      <4>1. CASE i \in 1..Len(batch)
        BY <2>3, <3>1, <4>1 DEF BatchInOrder
      <4>2. CASE i = Len(batch) + 1
        BY <1>2, <2>3, <4>2
      <4> QED
        BY <1>2, <2>3, <4>1, <4>2
    <3> QED
      BY <1>3, <3>2 DEF BatchInOrder
  <2>5. PICK q \in Nat \ {0} : p = q + 1
    <3>1. p - 1 \in Nat \ {0} /\ p = (p - 1) + 1
      BY <2>2
    <3> QED
      BY <3>1
  <2>6. QueueIsFrom(q)'
    <3>1. ASSUME NEW i \in 1..Len(queue')
          PROVE  /\ i < q => queue'[i] = handled + (Len(batch) + 1) + i
                 /\ i = q => queue'[i] = StopMark
                 /\ i > q => queue'[i] = handled + (Len(batch) + 1) + i - 1
      <4>1. i + 1 \in 1..Len(queue) /\ queue'[i] = queue[i + 1]
        BY <1>2, <1>4
      <4>2. /\ i + 1 < p => queue[i + 1] = handled + Len(batch) + (i + 1)
            /\ i + 1 = p => queue[i + 1] = StopMark
            /\ i + 1 > p => queue[i + 1] = handled + Len(batch) + (i + 1) - 1
        BY <1>1, <4>1 DEF QueueIsFrom
      <4> QED
        BY <1>2, <2>5, <4>1, <4>2
    <3>2. /\ q <= Len(queue') =>
               produced = handled + (Len(batch) + 1) + Len(queue') - 1 /\ markPut
          /\ q > Len(queue') => produced = handled + (Len(batch) + 1) + Len(queue')
      <4>1. q <= Len(queue') <=> p <= Len(queue)
        BY <1>2, <1>4, <2>5
      <4>2. CASE p <= Len(queue)
        <5>1. produced = handled + Len(batch) + Len(queue) - 1 /\ markPut
          BY <1>1, <4>2 DEF QueueIsFrom
        <5> QED
          BY <1>2, <1>4, <2>5, <4>1, <4>2, <5>1
      <4>3. CASE p > Len(queue)
        <5>1. produced = handled + Len(batch) + Len(queue)
          BY <1>1, <4>3 DEF QueueIsFrom
        <5> QED
          BY <1>2, <1>4, <2>5, <4>1, <4>3, <5>1
      <4> QED
        BY <1>2, <4>2, <4>3
    <3> QED
      BY <1>3, <2>3, <3>1, <3>2 DEF QueueIsFrom
  <2> QED
    BY <2>4, <2>6 DEF QueueInOrder
<1>6. CASE GetStopMark
  <2>1. queue[1] = StopMark /\ batch' = batch
    BY <1>4, <1>6 DEF GetStopMark, batchVars
  <2>2. p = 1 /\ ~ p > Len(queue)
    BY <1>1, <1>2, <1>4, <2>1 DEF QueueIsFrom, StopMark
  <2>0. PICK q \in Nat \ {0} : q = Len(queue)
    BY <1>2, <1>4
  <2>3. QueueIsFrom(q)'
    <3>1. \A i \in 1..Len(queue') : i < q /\ queue'[i] = handled + Len(batch) + i
      BY <1>1, <1>2, <1>4, <2>0, <2>2 DEF QueueIsFrom
    <3>2. q > Len(queue') /\ produced = handled + Len(batch) + Len(queue')
      BY <1>1, <1>2, <1>4, <2>0, <2>2 DEF QueueIsFrom
    <3>3. batch' = batch /\ Len(queue') \in Nat
      BY <1>2, <1>4, <2>1
    <3> QED
      BY <1>3, <2>0, <3>1, <3>2, <3>3 DEF QueueIsFrom
  <2>4. BatchInOrder'
    BY <1>3, <2>1 DEF BatchInOrder, IInv
  <2> QED
    BY <2>3, <2>4 DEF QueueInOrder
<1> QED
  BY <1>5, <1>6

\* The line is kept by every step.
LEMMA OrderStep == IInv /\ [Next]_vars => BatchInOrder' /\ QueueInOrder' /\ OutcomesKnown'
<1> SUFFICES ASSUME IInv, [Next]_vars PROVE BatchInOrder' /\ QueueInOrder' /\ OutcomesKnown'
  OBVIOUS
<1>1. ASSUME UNCHANGED <<queue, produced, markPut, batch, handled, outcome>>
      PROVE  BatchInOrder' /\ QueueInOrder' /\ OutcomesKnown'
  BY <1>1 DEF IInv, BatchInOrder, QueueInOrder, QueueIsFrom, OutcomesKnown
<1>2. CASE PutCheck \/ PutStopMark
  BY <1>2, PutOrder DEF PutCheck, PutStopMark, batchVars, IInv, BatchInOrder, OutcomesKnown
<1>3. CASE GetCheck \/ GetStopMark
  BY <1>3, GetOrder DEF GetCheck, GetStopMark, batchVars, IInv, OutcomesKnown
<1>4. CASE DropStale \/ DropRetried \/ SendLast \/ GiveUp
  BY <1>4, LeaveOrder DEF DropStale, DropRetried, SendLast, GiveUp, inputVars
<1>5. CASE SetMustStop \/ Tick
  BY <1>1, <1>5 DEF SetMustStop, Tick, inputVars, batchVars
<1>6. CASE Exit \/ StartGet \/ GetEmpty \/ KeepBatch \/ SendBatch
  BY <1>1, <1>6 DEF Exit, StartGet, GetEmpty, KeepBatch, SendBatch, inputVars, batchVars
<1>7. CASE StartAttempt \/ SendNext \/ SendRaises \/ StartRetryWait \/ SkipRetryWait \/ EndRetryWait
  BY <1>1, <1>7 DEF StartAttempt, SendNext, SendRaises, StartRetryWait, SkipRetryWait,
    EndRetryWait, inputVars, batchVars
<1>8. CASE UNCHANGED vars
  BY <1>1, <1>8 DEF vars, inputVars, batchVars
<1> QED
  BY <1>2, <1>3, <1>4, <1>5, <1>6, <1>7, <1>8 DEF Next, Environment, Run, TrySend

-----------------------------------------------------------------------------
(* The other parts of the invariant, each kept by every step.              *)

\* What leaves the loop of try_send comes back to the loop of run() with an empty batch.
LEMMA LeaveResets ==
  ASSUME NEW reason, Leave(reason)
  PROVE  pc' = "loop" /\ batch' = << >> /\ Len(batch') = 0
BY DEF Leave, BatchAfterSend

\* A batch that is full is sent at once.
LEMMA RoomStep == IInv /\ [Next]_vars => RoomInBatch'
<1> SUFFICES ASSUME IInv, [Next]_vars PROVE RoomInBatch'
  OBVIOUS
<1> USE SettingsAssumption
<1>1. Len(batch) \in Nat /\ RoomInBatch
  BY DEF IInv, TypeOK
<1>2. CASE DropStale \/ DropRetried \/ SendLast \/ GiveUp
  BY <1>2, LeaveResets DEF DropStale, DropRetried, SendLast, GiveUp, RoomInBatch
<1>3. CASE KeepBatch
  BY <1>1, <1>3 DEF KeepBatch, ShouldSend, RoomInBatch, batchVars
<1>4. CASE SendBatch
  <2>1. batch = << >> => Len(batch) = 0
    OBVIOUS
  <2> QED
    BY <1>1, <1>4, <2>1 DEF SendBatch, RoomInBatch, batchVars
<1>5. CASE GetCheck \/ GetStopMark \/ GetEmpty \/ Exit
  BY <1>5 DEF GetCheck, GetStopMark, GetEmpty, Exit, RoomInBatch
<1>6. CASE StartGet \/ Environment
  BY <1>1, <1>6 DEF StartGet, Environment, PutCheck, SetMustStop, PutStopMark, Tick, RoomInBatch,
    batchVars
<1>7. CASE StartAttempt \/ SendNext \/ SendRaises \/ StartRetryWait \/ SkipRetryWait \/ EndRetryWait
  BY <1>7 DEF StartAttempt, SendNext, SendRaises, StartRetryWait, SkipRetryWait, EndRetryWait,
    RoomInBatch
<1>8. CASE UNCHANGED vars
  BY <1>1, <1>8 DEF vars, batchVars, RoomInBatch
<1> QED
  BY <1>2, <1>3, <1>4, <1>5, <1>6, <1>7, <1>8 DEF Next, Run, TrySend

\* A check is put with an age of at most PutDelay, and all grow old together.
LEMMA AgesStep == IInv /\ [Next]_vars => AgesInOrder'
<1> SUFFICES ASSUME IInv, [Next]_vars PROVE AgesInOrder'
  OBVIOUS
<1>1. /\ AgesInOrder /\ produced \in Nat /\ PutDelay \in Nat /\ StaleAge \in Nat
      /\ age \in [Check -> 0..(StaleAge + 1)] /\ Check \subseteq Nat \ {0}
  BY BatchTypes, SettingsAssumption, BoundsAssumption DEF IInv, TypeOK
<1>2. CASE PutCheck
  <2>1. PICK a \in 0..PutDelay : age' = [age EXCEPT ![produced + 1] = a]
    BY <1>2 DEF PutCheck
  <2>2. produced' = produced + 1
    BY <1>2 DEF PutCheck
  <2> SUFFICES ASSUME NEW c \in Check, NEW d \in Check, c < d, d <= produced'
               PROVE  age'[d] <= age'[c] + PutDelay
    BY DEF AgesInOrder
  <2>3. age'[c] = age[c] /\ age[c] \in Nat
    BY <1>1, <2>1, <2>2
  <2>4. CASE d = produced + 1
    BY <1>1, <2>1, <2>3, <2>4
  <2>5. CASE d <= produced
    <3>1. age'[d] = age[d]
      BY <1>1, <2>1, <2>5
    <3> QED
      BY <1>1, <2>3, <2>5, <3>1 DEF AgesInOrder
  <2> QED
    BY <1>1, <2>2, <2>4, <2>5
<1>3. CASE Tick
  <2>1. produced' = produced
    BY <1>3 DEF Tick, inputVars
  <2> SUFFICES ASSUME NEW c \in Check, NEW d \in Check, c < d, d <= produced
               PROVE  age'[d] <= age'[c] + PutDelay
    BY <2>1 DEF AgesInOrder
  <2>2. c <= produced /\ age[d] <= age[c] + PutDelay /\ age[c] \in Nat /\ age[d] \in Nat
    BY <1>1 DEF AgesInOrder
  <2>3. /\ age'[c] = AtMost(StaleAge + 1, age[c] + 1)
        /\ age'[d] = AtMost(StaleAge + 1, age[d] + 1)
    BY <1>3, <2>2 DEF Tick
  <2> QED
    BY <1>1, <2>2, <2>3 DEF AtMost
<1>4. ASSUME UNCHANGED <<produced, age>> PROVE AgesInOrder'
  BY <1>1, <1>4 DEF AgesInOrder
<1>5. CASE SetMustStop \/ PutStopMark \/ Run
  BY <1>4, <1>5 DEF SetMustStop, PutStopMark, Run, Exit, StartGet, GetCheck, GetStopMark, GetEmpty,
    KeepBatch, SendBatch, inputVars, timeVars
<1>6. CASE TrySend
  BY <1>4, <1>6 DEF TrySend, DropStale, DropRetried, StartAttempt, SendNext, SendLast, SendRaises,
    GiveUp, StartRetryWait, SkipRetryWait, EndRetryWait, inputVars, timeVars
<1>7. CASE UNCHANGED vars
  BY <1>4, <1>7 DEF vars, inputVars, timeVars
<1> QED
  BY <1>2, <1>3, <1>5, <1>6, <1>7 DEF Next, Environment

\* _send_batch goes through the batch from its first check.
LEMMA PrefixStep == IInv /\ [Next]_vars => PrefixDelivered'
<1> SUFFICES ASSUME IInv, [Next]_vars, pc' = "sending"
             PROVE  \A i \in 1..(position' - 1) : batch'[i] \in delivered'
  BY DEF PrefixDelivered
<1>1. PrefixDelivered /\ position \in Nat
  BY DEF IInv, TypeOK
<1>2. CASE StartAttempt
  BY <1>2 DEF StartAttempt, FirstPosition
<1>3. CASE SendNext
  <2>1. /\ position' - 1 = position /\ batch' = batch
        /\ delivered' = delivered \cup {batch[position]}
    BY <1>1, <1>3 DEF SendNext
  <2>2. \A i \in 1..(position - 1) : batch[i] \in delivered
    BY <1>1, <1>3 DEF SendNext, PrefixDelivered
  <2> QED
    BY <1>1, <2>1, <2>2
<1>4. CASE Environment \/ UNCHANGED vars
  BY <1>1, <1>4 DEF Environment, PutCheck, SetMustStop, PutStopMark, Tick, vars, batchVars, retryVars,
    PrefixDelivered
<1>5. CASE Run
  BY <1>5 DEF Run, Exit, StartGet, GetCheck, GetStopMark, GetEmpty, KeepBatch, SendBatch
<1>6. CASE TrySend /\ ~ StartAttempt /\ ~ SendNext
  BY <1>6, LeaveResets DEF TrySend, DropStale, DropRetried, SendLast, SendRaises, GiveUp,
    StartRetryWait, SkipRetryWait, EndRetryWait
<1> QED
  BY <1>2, <1>3, <1>4, <1>5, <1>6 DEF Next

\* An attempt is counted when it starts, if max_retry allows it.
LEMMA AttemptsStep == IInv /\ [Next]_vars => AttemptsCounted'
<1> SUFFICES ASSUME IInv, [Next]_vars PROVE AttemptsCounted'
  OBVIOUS
<1>1. /\ AttemptsCounted /\ retryCount \in Nat /\ attempts \in Nat
      /\ maxRetry \in Nat \cup {-1}
  BY SettingsAssumption DEF IInv, TypeOK
<1>2. CASE StartAttempt
  BY <1>1, <1>2 DEF StartAttempt, RetriesExhausted, AttemptsCounted
<1>3. CASE SendBatch
  BY <1>1, <1>3 DEF SendBatch, AttemptsCounted
<1>4. CASE SendNext \/ SendRaises \/ StartRetryWait \/ SkipRetryWait \/ EndRetryWait
  BY <1>1, <1>4 DEF SendNext, SendRaises, StartRetryWait, SkipRetryWait, EndRetryWait, retryVars,
    AttemptsCounted
<1>5. CASE DropStale \/ DropRetried \/ SendLast \/ GiveUp
  BY <1>5, LeaveResets DEF DropStale, DropRetried, SendLast, GiveUp, AttemptsCounted
<1>6. CASE Run /\ ~ SendBatch
  BY <1>6 DEF Run, Exit, StartGet, GetCheck, GetStopMark, GetEmpty, KeepBatch, AttemptsCounted
<1>7. CASE Environment \/ UNCHANGED vars
  BY <1>1, <1>7 DEF Environment, PutCheck, SetMustStop, PutStopMark, Tick, vars, retryVars,
    AttemptsCounted
<1> QED
  BY <1>2, <1>3, <1>4, <1>5, <1>6, <1>7 DEF Next, TrySend

\* An attempt that starts late is not tried again.
LEMMA LateStep == IInv /\ [Next]_vars => LateAttemptIsLast'
<1> SUFFICES ASSUME IInv, [Next]_vars PROVE LateAttemptIsLast'
  OBVIOUS
<1>1. LateAttemptIsLast
  BY DEF IInv
<1>2. CASE StartAttempt
  BY <1>1, <1>2 DEF StartAttempt, LateAttemptIsLast, inputVars
<1>3. CASE SendNext \/ SendRaises \/ StartRetryWait \/ SkipRetryWait \/ EndRetryWait
  BY <1>1, <1>3 DEF SendNext, SendRaises, StartRetryWait, SkipRetryWait, EndRetryWait, GivesUp,
    inputVars, retryVars, LateAttemptIsLast
<1>4. CASE DropStale \/ DropRetried \/ SendLast \/ GiveUp
  BY <1>1, <1>4, LeaveResets DEF DropStale, DropRetried, SendLast, GiveUp, inputVars, retryVars,
    LateAttemptIsLast
<1>5. CASE Run
  BY <1>1, <1>5 DEF Run, Exit, StartGet, GetCheck, GetStopMark, GetEmpty, KeepBatch, SendBatch,
    StopsLoop, inputVars, retryVars, LateAttemptIsLast
<1>6. CASE Environment \/ UNCHANGED vars
  BY <1>1, <1>6 DEF Environment, PutCheck, SetMustStop, PutStopMark, Tick, vars, inputVars, retryVars,
    LateAttemptIsLast
<1> QED
  BY <1>2, <1>3, <1>4, <1>5, <1>6 DEF Next, TrySend

\* The wait for the rest of a batch is what its delay leaves.
LEMMA WaitStep == IInv /\ [Next]_vars => WaitMeasured'
<1> SUFFICES ASSUME IInv, [Next]_vars PROVE WaitMeasured'
  OBVIOUS
<1>1. /\ WaitMeasured /\ MaxBatchDelay \in Nat /\ batchAge \in Nat /\ firstWait \in Nat
      /\ waitLeft \in {Forever} \cup Nat
  BY SettingsAssumption DEF IInv, TypeOK
<1>2. CASE Tick
  <2> SUFFICES ASSUME batch # << >>, pc = "get"
               PROVE  firstWait' = batchAge' /\ waitLeft' = AtLeast(0, MaxBatchDelay - batchAge')
    BY <1>2 DEF Tick, WaitMeasured, batchVars
  <2>1. firstWait = batchAge /\ waitLeft = AtLeast(0, MaxBatchDelay - batchAge)
    BY DEF WaitMeasured, IInv
  <2>2. batchAge <= MaxBatchDelay
    BY <1>1, <1>2, <2>1 DEF Tick, AtLeast
  <2>3. /\ batchAge' = AtMost(MaxBatchDelay + 1, batchAge + 1)
        /\ firstWait' = AtMost(MaxBatchDelay + 2, firstWait + 1)
        /\ waitLeft' = AtLeast(0, waitLeft - 1)
    BY <1>1, <1>2, <2>1 DEF Tick, Forever, AtLeast
  <2> QED
    BY <1>1, <2>1, <2>2, <2>3 DEF AtMost, AtLeast
<1>3. CASE StartGet
  BY <1>1, <1>3 DEF StartGet, Timeout, WaitMeasured, batchVars
<1>4. CASE GetCheck
  BY <1>1, <1>4 DEF GetCheck, BatchAgeAfter, WaitMeasured
<1>5. CASE GetStopMark \/ GetEmpty \/ KeepBatch \/ Exit \/ SendBatch
  BY <1>1, <1>5 DEF GetStopMark, GetEmpty, KeepBatch, Exit, SendBatch, timeVars, batchVars, WaitMeasured
<1>6. CASE PutCheck \/ SetMustStop \/ PutStopMark \/ UNCHANGED vars
  BY <1>1, <1>6 DEF PutCheck, SetMustStop, PutStopMark, vars, timeVars, batchVars, WaitMeasured
<1>7. CASE DropStale \/ DropRetried \/ SendLast \/ GiveUp
  BY <1>7, LeaveResets DEF DropStale, DropRetried, SendLast, GiveUp, WaitMeasured
<1>8. CASE StartAttempt \/ SendNext \/ SendRaises \/ StartRetryWait \/ SkipRetryWait \/ EndRetryWait
  BY <1>8 DEF StartAttempt, SendNext, SendRaises, StartRetryWait, SkipRetryWait, EndRetryWait,
    WaitMeasured
<1> QED
  BY <1>2, <1>3, <1>4, <1>5, <1>6, <1>7, <1>8 DEF Next, Environment, Run, TrySend

-----------------------------------------------------------------------------
\* The types are kept by every step.
LEMMA TypesStep == IInv /\ [Next]_vars => TypeOK'
<1>1. IInv /\ UNCHANGED vars => TypeOK'
  BY DEF IInv, TypeOK, vars, inputVars, timeVars, batchVars, retryVars
<1> QED
  BY <1>1, EnvironmentTypes, RunTypes, TrySendTypes DEF Next, IInv

\* Every step keeps the invariant.
LEMMA StepIInv == IInv /\ [Next]_vars => IInv'
BY TypesStep, OrderStep, RoomStep, AgesStep, PrefixStep, AttemptsStep, LateStep, WaitStep DEF IInv

\* The invariant always holds.
LEMMA AlwaysIInv == Spec => []IInv
BY InitIInv, StepIInv, PTL DEF Spec

-----------------------------------------------------------------------------
\* The types of the thread's state; the batch is never longer than max_batch_size, and
\* what _send_batch sends is in it.
THEOREM TypeCorrect == Spec => []TypeOK
<1>1. IInv => TypeOK
  BY DEF IInv
<1> QED
  BY <1>1, AlwaysIInv, PTL

\* No check is lost, duplicated or reordered from the queue through the batch to its end,
\* whatever fails and whenever the program stops.
THEOREM ChecksAreAccountedFor == Spec => []NothingLost
<1>1. IInv => NothingLost
  <2> SUFFICES ASSUME IInv PROVE NothingLost
    OBVIOUS
  <2>1. PICK p \in Nat \ {0} : QueueIsFrom(p)
    BY DEF IInv, QueueInOrder
  <2>2. /\ handled \in Nat /\ Len(batch) \in Nat /\ Len(queue) \in Nat /\ produced \in Nat
        /\ queue \in Seq(Check \cup {StopMark}) /\ batch \in Seq(Check \cup {StopMark})
    BY BoundsAssumption DEF IInv, TypeOK
  <2>3. /\ Len(Line) = Len(batch) + Len(queue)
        /\ \A i \in 1..Len(batch) : Line[i] = handled + i
        /\ \A i \in 1..Len(queue) : Line[Len(batch) + i] = queue[i]
    <3>1. \A i \in 1..Len(batch) : Line[i] = batch[i]
      BY <2>2 DEF Line
    <3> QED
      BY <2>2, <3>1 DEF Line, IInv, BatchInOrder
  <2> DEFINE mark == Len(batch) + p
  <2>4. \A i \in 1..Len(Line) :
          /\ i < mark => Line[i] = handled + i
          /\ i = mark => Line[i] = StopMark
          /\ i > mark => Line[i] = handled + i - 1
    <3> SUFFICES ASSUME NEW i \in 1..Len(Line)
                 PROVE  /\ i < mark => Line[i] = handled + i
                        /\ i = mark => Line[i] = StopMark
                        /\ i > mark => Line[i] = handled + i - 1
      OBVIOUS
    <3>1. CASE i <= Len(batch)
      BY <2>2, <2>3, <3>1
    <3>2. CASE i > Len(batch)
      <4>1. PICK j \in 1..Len(queue) : i = Len(batch) + j
        <5>1. i - Len(batch) \in 1..Len(queue) /\ i = Len(batch) + (i - Len(batch))
          BY <2>2, <2>3, <3>2
        <5> QED
          BY <5>1
      <4>2. Line[i] = queue[j]
        BY <2>3, <4>1
      <4> QED
        BY <2>1, <2>2, <4>1, <4>2 DEF QueueIsFrom
    <3> QED
      BY <2>2, <3>1, <3>2
  <2>5. /\ mark <= Len(Line) => produced = handled + Len(Line) - 1
        /\ mark > Len(Line) => produced = handled + Len(Line)
    BY <2>1, <2>2, <2>3 DEF QueueIsFrom
  <2>6. mark \in Nat /\ Len(Line) \in Nat
    BY <2>2, <2>3
  <2> HIDE DEF mark
  <2>7. ASSUME NEW c \in (handled + 1)..produced
        PROVE  \E i \in 1..Len(Line) : Line[i] = c
    <3>1. CASE c - handled < mark
      <4>1. c - handled \in 1..Len(Line) /\ Line[c - handled] = handled + (c - handled)
        BY <2>2, <2>4, <2>5, <2>6, <3>1
      <4>2. Line[c - handled] = c
        BY <2>2, <4>1
      <4> QED
        BY <4>1, <4>2
    <3>2. CASE c - handled >= mark
      <4>1. c - handled + 1 \in 1..Len(Line) /\ c - handled + 1 > mark
        BY <2>2, <2>5, <2>6, <3>2
      <4>2. Line[c - handled + 1] = handled + (c - handled + 1) - 1
        BY <2>4, <4>1
      <4>3. Line[c - handled + 1] = c
        BY <2>2, <4>2
      <4> QED
        BY <4>1, <4>3
    <3> QED
      BY <2>2, <2>6, <3>1, <3>2
  <2>8. ASSUME NEW i \in 1..Len(Line), Line[i] # StopMark
        PROVE  /\ Line[i] \in (handled + 1)..produced
               /\ \A j \in 1..(i - 1) : Line[j] < Line[i]
    <3>1. i # mark
      BY <2>4, <2>8
    <3>2. Line[i] = IF i < mark THEN handled + i ELSE handled + i - 1
      BY <2>4, <2>6, <3>1
    <3>3. Line[i] \in (handled + 1)..produced
      <4>1. mark > 0
        BY <2>2 DEF mark
      <4> QED
        BY <2>2, <2>5, <2>6, <3>1, <3>2, <4>1
    <3>4. ASSUME NEW j \in 1..(i - 1) PROVE Line[j] < Line[i]
      <4>1. j \in 1..Len(Line) /\ j < i
        BY <2>6
      <4>2. Line[j] = IF j < mark THEN handled + j ELSE IF j = mark THEN 0 ELSE handled + j - 1
        BY <2>4, <2>6, <4>1 DEF StopMark
      <4>3. mark > 0
        BY <2>2 DEF mark
      <4> QED
        BY <2>2, <2>6, <3>1, <3>2, <4>1, <4>2, <4>3
    <3> QED
      BY <3>3, <3>4
  <2> QED
    BY <2>7, <2>8 DEF NothingLost, IInv, OutcomesKnown
<1> QED
  BY <1>1, AlwaysIInv, PTL

\* The invariant leads to SentWasDelivered step by step: the check that counts as sent is in a
\* batch whose last attempt went through all of it.
LEMMA SentStep == IInv /\ SentWasDelivered /\ [Next]_vars => SentWasDelivered'
<1> SUFFICES ASSUME IInv, SentWasDelivered, [Next]_vars,
                    NEW c \in Check, outcome'[c] = "sent"
             PROVE  c \in delivered'
  BY DEF SentWasDelivered
<1>1. outcome[c] = "sent" => c \in delivered
  BY DEF SentWasDelivered
<1>2. ASSUME UNCHANGED outcome PROVE outcome[c] = "sent"
  BY <1>2
<1>3. CASE SendLast
  <2>1. CASE \E i \in 1..Len(batch) : batch[i] = c
    <3>1. PICK i \in 1..Len(batch) : batch[i] = c
      BY <2>1
    <3>2. /\ delivered' = delivered \cup {batch[position]} /\ position = Len(batch)
          /\ \A j \in 1..(position - 1) : batch[j] \in delivered
      BY <1>3 DEF SendLast, IInv, PrefixDelivered
    <3>3. i = position \/ i \in 1..(position - 1)
      BY <3>2, BatchTypes DEF IInv
    <3> QED
      BY <3>1, <3>2, <3>3
  <2>2. CASE ~ \E i \in 1..Len(batch) : batch[i] = c
    BY <1>1, <1>3, <2>2 DEF SendLast, Leave
  <2> QED
    BY <2>1, <2>2
<1>4. CASE DropStale \/ DropRetried \/ GiveUp
  <2>1. PICK reason \in {"stale", "maxRetry", "stopped"} : Leave(reason)
    BY <1>4 DEF DropStale, DropRetried, GiveUp
  <2>2. outcome[c] = "sent"
    BY <2>1 DEF Leave
  <2> QED
    BY <1>1, <1>4, <2>2 DEF DropStale, DropRetried, GiveUp
<1>5. CASE Environment \/ UNCHANGED vars
  BY <1>1, <1>5 DEF Environment, PutCheck, SetMustStop, PutStopMark, Tick, batchVars, vars
<1>6. CASE Run
  BY <1>1, <1>6 DEF Run, Exit, StartGet, GetCheck, GetStopMark, GetEmpty, KeepBatch, SendBatch, batchVars
<1>7. CASE StartAttempt \/ SendNext \/ SendRaises \/ StartRetryWait \/ SkipRetryWait \/ EndRetryWait
  BY <1>1, <1>7 DEF StartAttempt, SendNext, SendRaises, StartRetryWait, SkipRetryWait, EndRetryWait,
    batchVars
<1> QED
  BY <1>3, <1>4, <1>5, <1>6, <1>7 DEF Next, TrySend

\* A check is reported as sent only if the service got it, however many attempts failed half way.
THEOREM SentChecksWereDelivered == Spec => []SentWasDelivered
<1>1. Init => SentWasDelivered
  BY DEF Init, SentWasDelivered
<1> QED
  BY <1>1, AlwaysIInv, SentStep, PTL DEF Spec

\* After must_stop at most one more attempt starts.
THEOREM ShutdownGrantsOneAttempt == Spec => []OneLateAttempt
<1>1. IInv => OneLateAttempt
  BY DEF IInv, LateAttemptIsLast, OneLateAttempt
<1> QED
  BY <1>1, AlwaysIInv, PTL

\* The first check of a batch waits for the others no longer than max_batch_delay.
THEOREM BatchesAreSentInTime == Spec => []BatchIsNotHeldBack
<1>1. IInv => BatchIsNotHeldBack
  <2> SUFFICES ASSUME IInv, pc \in {"loop", "get", "decide"}, batch # << >>
               PROVE  firstWait <= MaxBatchDelay + 1
    BY DEF BatchIsNotHeldBack
  <2> QED
    BY SettingsAssumption DEF IInv, TypeOK, WaitMeasured
<1> QED
  BY <1>1, AlwaysIInv, PTL

\* The invariant gives the reason of each drop.
LEMMA DropStep ==
  ASSUME IInv, [Next]_vars, NEW c \in Check, outcome[c] = "none"
  PROVE  /\ outcome'[c] = "maxRetry" => attempts = maxRetry
         /\ outcome'[c] = "stale" => \A i \in 1..Len(batch) : age[batch[i]] > StaleAge - PutDelay
         /\ outcome'[c] = "stopped" => mustStop /\ attempts > 0
<1>1. ASSUME NEW reason, Leave(reason) PROVE outcome'[c] \in {"none", reason}
  BY <1>1 DEF Leave
<1>2. CASE DropStale
  <2>1. outcome'[c] \in {"none", "stale"}
    BY <1>1, <1>2 DEF DropStale
  <2>2. /\ batch # << >> /\ Len(batch) \in Nat
        /\ StaleAge < age[batch[Len(batch)]]
    BY <1>2 DEF DropStale, TooOld, IInv, TypeOK
  <2>3. ASSUME NEW i \in 1..Len(batch) PROVE age[batch[i]] > StaleAge - PutDelay
    <3> DEFINE last == Len(batch)
    <3>1. /\ batch[i] \in Check /\ batch[last] \in Check /\ last \in 1..Len(batch)
          /\ batch[i] = handled + i /\ batch[last] = handled + last
      BY <2>2, BatchTypes DEF IInv, BatchInOrder
    <3>2. batch[last] <= produced /\ handled \in Nat
      <4>1. handled \in Nat /\ produced \in Nat
        BY BoundsAssumption DEF IInv, TypeOK
      <4>2. handled + last \in 0..produced
        BY HandledBound
      <4> QED
        BY <3>1, <4>1, <4>2
    <3>3. /\ age[batch[i]] \in Nat /\ age[batch[last]] \in Nat
          /\ StaleAge \in Nat /\ PutDelay \in Nat
      BY <3>1, SettingsAssumption, BoundsAssumption DEF IInv, TypeOK
    <3>4. age[batch[last]] <= age[batch[i]] + PutDelay
      <4>1. CASE i = last
        BY <3>3, <4>1
      <4>2. CASE i < last
        BY <2>2, <3>1, <3>2, <4>2 DEF IInv, AgesInOrder
      <4> QED
        BY <2>2, <4>1, <4>2
    <3> QED
      BY <2>2, <3>3, <3>4
  <2> QED
    BY <2>1, <2>3
<1>3. CASE DropRetried
  <2>1. outcome'[c] \in {"none", "maxRetry"}
    BY <1>1, <1>3 DEF DropRetried
  <2>2. attempts = maxRetry
    BY <1>3, SettingsAssumption DEF DropRetried, RetriesExhausted, IInv, TypeOK, AttemptsCounted
  <2> QED
    BY <2>1, <2>2
<1>4. CASE GiveUp
  <2>1. outcome'[c] \in {"none", "stopped"}
    BY <1>1, <1>4 DEF GiveUp
  <2>2. mustStop /\ attempts > 0
    BY <1>4 DEF GiveUp, GivesUp, IInv, AttemptsCounted
  <2> QED
    BY <2>1, <2>2
<1>5. CASE SendLast
  <2>1. outcome'[c] \in {"none", "sent"}
    BY <1>1, <1>5 DEF SendLast
  <2> QED
    BY <2>1
<1>6. CASE Environment \/ UNCHANGED vars
  BY <1>6 DEF Environment, PutCheck, SetMustStop, PutStopMark, Tick, batchVars, vars
<1>7. CASE Run
  BY <1>7 DEF Run, Exit, StartGet, GetCheck, GetStopMark, GetEmpty, KeepBatch, SendBatch, batchVars
<1>8. CASE StartAttempt \/ SendNext \/ SendRaises \/ StartRetryWait \/ SkipRetryWait \/ EndRetryWait
  BY <1>8 DEF StartAttempt, SendNext, SendRaises, StartRetryWait, SkipRetryWait, EndRetryWait,
    batchVars
<1> QED
  BY <1>2, <1>3, <1>4, <1>5, <1>6, <1>7, <1>8 DEF Next, TrySend

\* A batch is dropped only for the reason that is logged: after max_retry attempts, when all
\* its checks are too old but for the put delay, or in a shutdown after an attempt.
THEOREM DropsHaveTheirReason == Spec => DropsAreJustified
<1>1. IInv /\ [Next]_vars =>
        [\A c \in Check : outcome[c] = "none" =>
           /\ outcome'[c] = "maxRetry" => attempts = maxRetry
           /\ outcome'[c] = "stale" =>
                \A i \in 1..Len(batch) : age[batch[i]] > StaleAge - PutDelay
           /\ outcome'[c] = "stopped" => mustStop /\ attempts > 0]_vars
  BY DropStep
<1> QED
  BY <1>1, AlwaysIInv, PTL DEF Spec, DropsAreJustified
-----------------------------------------------------------------------------
(* How often a batch is tried.                                             *)

\* How long k waits before a retry take.
WaitsTake(k) == k * RetryDelay

\* The attempts of the time before a batch is stale: one, and one after each wait.
Limit == (StaleAge \div RetryDelay) + 1

LastAge == age[batch[Len(batch)]]

\* The last check of the batch is as old as the waits before the retries, or too old.
RetriesTakeTime ==
  /\ pc = "try" =>
       StaleAge < LastAge \/ WaitsTake(attempts) <= LastAge \/ RetriesExhausted(retryCount + 1)
  /\ pc \in {"sending", "failed"} => StaleAge < LastAge \/ WaitsTake(attempts - 1) <= LastAge
  /\ pc = "retryWait" => StaleAge < LastAge \/ WaitsTake(attempts) <= LastAge + retryLeft

\* A shutdown cuts a wait short, but only one attempt follows it.
Paced ==
  /\ attempts <= Limit + lateAttempts
  /\ ~ mustStop => RetriesTakeTime

\* What is used of products and quotients.
LEMMA Waits ==
  ASSUME RetryDelay > 0, NEW k \in Nat
  PROVE  /\ WaitsTake(k) \in Nat /\ WaitsTake(0) = 0
         /\ WaitsTake(k + 1) = WaitsTake(k) + RetryDelay
         /\ WaitsTake(k) <= StaleAge => k + 1 <= Limit
         /\ Limit \in Nat \ {0}
<1>1. RetryDelay \in Nat \ {0} /\ StaleAge \in Nat
  BY SettingsAssumption
<1>2. PICK q \in Nat : q = StaleAge \div RetryDelay
  BY <1>1
<1>3. StaleAge < (q + 1) * RetryDelay
  <2>1. /\ StaleAge = (RetryDelay * q) + (StaleAge % RetryDelay)
        /\ StaleAge % RetryDelay \in 0..(RetryDelay - 1)
    BY <1>1, <1>2
  <2> QED
    BY <1>1, <2>1
<1>4. ASSUME k * RetryDelay <= StaleAge PROVE k <= q
  <2> SUFFICES ASSUME k >= q + 1 PROVE FALSE
    OBVIOUS
  <2>1. k * RetryDelay >= (q + 1) * RetryDelay
    BY <1>1
  <2> QED
    BY <1>1, <1>3, <1>4, <2>1
<1>5. k * RetryDelay \in Nat /\ 0 * RetryDelay = 0 /\ (k + 1) * RetryDelay = (k * RetryDelay) + RetryDelay
  BY <1>1
<1> QED
  BY <1>2, <1>4, <1>5 DEF WaitsTake, Limit

\* The last check of a batch that is sent, and the clock.
LEMMA LastAgeSteps ==
  ASSUME IInv, batch # << >>
  PROVE  /\ LastAge \in Nat
         /\ PutCheck => LastAge' = LastAge
         /\ Tick => LastAge' = AtMost(StaleAge + 1, LastAge + 1)
<1>1. /\ Len(batch) \in Nat \ {0} /\ batch[Len(batch)] \in Check
      /\ batch[Len(batch)] = handled + Len(batch)
  <2>1. Len(batch) \in Nat \ {0}
    BY DEF IInv, TypeOK
  <2> QED
    BY <2>1, BatchTypes DEF IInv, BatchInOrder
<1>2. PICK last \in Check : last = batch[Len(batch)]
  BY <1>1
<1>3. last <= produced /\ produced \in Nat /\ produced + 1 # last
  <2>1. handled + Len(batch) \in 0..produced /\ produced \in Nat
    BY HandledBound, BoundsAssumption DEF IInv, TypeOK
  <2> QED
    BY <1>1, <1>2, <2>1
<1>4. age \in [Check -> 0..(StaleAge + 1)] /\ LastAge = age[last]
  BY <1>2 DEF IInv, TypeOK, LastAge
<1>5. LastAge \in Nat
  BY <1>4, SettingsAssumption
<1>6. ASSUME PutCheck PROVE LastAge' = LastAge
  <2>1. age'[last] = age[last] /\ batch' = batch
    BY <1>3, <1>4, <1>6 DEF PutCheck, batchVars
  <2> QED
    BY <1>2, <2>1 DEF LastAge
<1>7. ASSUME Tick PROVE LastAge' = AtMost(StaleAge + 1, LastAge + 1)
  <2>1. age'[last] = AtMost(StaleAge + 1, age[last] + 1) /\ batch' = batch
    BY <1>3, <1>7 DEF Tick, batchVars
  <2> QED
    BY <1>2, <1>4, <2>1 DEF LastAge
<1> QED
  BY <1>5, <1>6, <1>7

\* Neither the loop nor the end of a batch is about attempts.
LEMMA OutsideAttempts ==
  ASSUME pc' \in {"loop", "get", "decide", "done"}
  PROVE  RetriesTakeTime'
BY DEF RetriesTakeTime

\* The number of attempts is limited by the time, but for the one a shutdown grants.
LEMMA LimitStep ==
  ASSUME RetryDelay > 0, IInv, Paced, [Next]_vars
  PROVE  attempts' <= Limit' + lateAttempts'
<1>1. /\ attempts \in Nat /\ lateAttempts \in Nat /\ Limit \in Nat \ {0}
      /\ attempts <= Limit + lateAttempts
  BY Waits DEF IInv, TypeOK, Paced
<1>2. CASE SendBatch
  BY <1>1, <1>2 DEF SendBatch, Limit
<1>3. CASE StartAttempt
  <2>1. attempts' = attempts + 1 /\ pc = "try" /\ lateAttempts = 0
    BY <1>3 DEF StartAttempt, IInv, LateAttemptIsLast
  <2>2. CASE mustStop
    <3>1. lateAttempts' = lateAttempts + 1
      BY <1>3, <2>2 DEF StartAttempt
    <3> QED
      BY <1>1, <2>1, <3>1 DEF Limit
  <2>3. CASE ~ mustStop
    <3>1. lateAttempts' = 0
      BY <1>3, <2>1, <2>3 DEF StartAttempt
    <3>2. batch # << >> /\ StaleAge \in Nat
      BY <2>1, SettingsAssumption DEF IInv, TypeOK
    <3>3. LastAge \in Nat /\ LastAge <= StaleAge /\ WaitsTake(attempts) \in Nat
      <4>1. LastAge \in Nat
        BY <3>2, LastAgeSteps
      <4>2. ~ (StaleAge < LastAge)
        BY <1>3 DEF StartAttempt, TooOld, LastAge
      <4>3. WaitsTake(attempts) \in Nat
        BY <1>1, Waits
      <4> QED
        BY <3>2, <4>1, <4>2, <4>3
    <3>4. WaitsTake(attempts) <= LastAge
      BY <1>3, <2>1, <2>3, <3>2, <3>3 DEF StartAttempt, Paced, RetriesTakeTime
    <3>5. attempts + 1 <= Limit
      BY <1>1, <3>2, <3>3, <3>4, Waits
    <3> QED
      BY <1>1, <2>1, <3>1, <3>5 DEF Limit
  <2> QED
    BY <2>2, <2>3
<1>4. CASE UNCHANGED <<attempts, lateAttempts>>
  BY <1>1, <1>4 DEF Limit
<1> QED
  BY <1>2, <1>3, <1>4 DEF Next, Environment, PutCheck, SetMustStop, PutStopMark, Tick, Run, Exit,
     StartGet, GetCheck, GetStopMark, GetEmpty, KeepBatch, TrySend, DropStale, DropRetried,
     SendNext, SendLast, SendRaises, GiveUp, StartRetryWait, SkipRetryWait, EndRetryWait,
     retryVars, vars

\* A wait moves the age of the last check on by retry_delay, unless it is cut short.
LEMMA TimeStep ==
  ASSUME RetryDelay > 0, IInv, Paced, [Next]_vars, ~ mustStop'
  PROVE  RetriesTakeTime'
<1>1. /\ attempts \in Nat /\ retryCount \in Nat /\ retryLeft \in Nat
      /\ StaleAge \in Nat /\ RetryDelay \in Nat
  BY SettingsAssumption DEF IInv, TypeOK
<1>2. ~ mustStop
  BY DEF Next, Environment, PutCheck, SetMustStop, PutStopMark, Tick, Run, Exit,
     StartGet, GetCheck, GetStopMark, GetEmpty, KeepBatch, SendBatch, TrySend, DropStale,
     DropRetried, StartAttempt, SendNext, SendLast, SendRaises, GiveUp, StartRetryWait,
     SkipRetryWait, EndRetryWait, inputVars, vars
<1>3. RetriesTakeTime
  BY <1>2 DEF Paced
<1>4. CASE pc' \in {"loop", "get", "decide", "done"}
  BY <1>4, OutsideAttempts
<1>5. CASE SendBatch /\ batch # << >>
  <2>1. pc' = "try" /\ attempts' = 0 /\ batch' = batch /\ age' = age
    BY <1>5 DEF SendBatch, timeVars, batchVars
  <2>2. LastAge' = LastAge /\ LastAge \in Nat
    BY <1>5, <2>1, LastAgeSteps DEF LastAge
  <2>3. WaitsTake(attempts)' = 0
    BY <2>1, Waits DEF WaitsTake
  <2> QED
    BY <2>1, <2>2, <2>3 DEF RetriesTakeTime
<1>6. CASE StartAttempt
  <2>1. /\ pc = "try" /\ pc' = "sending" /\ attempts' = attempts + 1
        /\ batch' = batch /\ age' = age /\ batch # << >>
        /\ ~ RetriesExhausted(retryCount + 1)
    BY <1>6 DEF StartAttempt, timeVars, batchVars, IInv, TypeOK
  <2>2. LastAge' = LastAge
    BY <2>1 DEF LastAge
  <2>3. StaleAge < LastAge \/ WaitsTake(attempts) <= LastAge
    BY <1>3, <2>1 DEF RetriesTakeTime
  <2>4. WaitsTake(attempts - 1)' = WaitsTake(attempts)
    <3>1. attempts' - 1 = attempts
      BY <1>1, <2>1
    <3> QED
      BY <3>1 DEF WaitsTake
  <2> QED
    BY <2>1, <2>2, <2>3, <2>4 DEF RetriesTakeTime
<1>7. CASE StartRetryWait
  <2>1. /\ pc = "failed" /\ pc' = "retryWait" /\ attempts' = attempts /\ retryLeft' = RetryDelay
        /\ batch' = batch /\ age' = age /\ batch # << >> /\ attempts > 0
    BY <1>7 DEF StartRetryWait, batchVars, retryVars, IInv, TypeOK, AttemptsCounted
  <2>2. LastAge' = LastAge /\ LastAge \in Nat
    BY <2>1, LastAgeSteps DEF LastAge
  <2>3. StaleAge < LastAge \/ WaitsTake(attempts - 1) <= LastAge
    BY <1>3, <2>1 DEF RetriesTakeTime
  <2>4. WaitsTake(attempts - 1) \in Nat /\ WaitsTake(attempts) = WaitsTake(attempts - 1) + RetryDelay
    <3>1. attempts - 1 \in Nat /\ (attempts - 1) + 1 = attempts
      BY <1>1, <2>1
    <3>2. PICK k \in Nat : k = attempts - 1
      BY <3>1
    <3> QED
      BY <3>1, <3>2, Waits
  <2>5. WaitsTake(attempts)' = WaitsTake(attempts)
    BY <2>1 DEF WaitsTake
  <2>6. StaleAge < LastAge' \/ WaitsTake(attempts)' <= LastAge' + retryLeft'
    BY <1>1, <2>1, <2>2, <2>3, <2>4, <2>5
  <2> QED
    BY <2>1, <2>6 DEF RetriesTakeTime
<1>8. CASE SkipRetryWait
  <2>1. /\ pc' = "try" /\ retryCount' = retryCount /\ maxRetry' = maxRetry
        /\ maxRetry # -1 /\ ~ (retryCount < maxRetry)
    BY <1>8 DEF SkipRetryWait, WaitsBeforeRetry, retryVars
  <2>2. maxRetry \in Nat
    BY <2>1, SettingsAssumption DEF IInv, TypeOK
  <2>3. RetriesExhausted(retryCount + 1)'
    BY <1>1, <2>1, <2>2 DEF RetriesExhausted
  <2> QED
    BY <2>1, <2>3 DEF RetriesTakeTime
<1>9. CASE EndRetryWait
  <2>1. /\ pc = "retryWait" /\ pc' = "try" /\ attempts' = attempts /\ retryLeft = 0
        /\ batch' = batch /\ age' = age /\ batch # << >>
    BY <1>2, <1>9 DEF EndRetryWait, RetryWaitOver, timeVars, batchVars, retryVars, IInv, TypeOK
  <2>2. LastAge' = LastAge /\ LastAge \in Nat /\ WaitsTake(attempts)' = WaitsTake(attempts)
    BY <2>1, LastAgeSteps DEF LastAge, WaitsTake
  <2>3. StaleAge < LastAge \/ WaitsTake(attempts) <= LastAge + 0
    BY <1>3, <2>1 DEF RetriesTakeTime
  <2>4. StaleAge < LastAge' \/ WaitsTake(attempts)' <= LastAge'
    BY <2>2, <2>3
  <2> QED
    BY <2>1, <2>4 DEF RetriesTakeTime
<1>10. CASE Tick /\ batch # << >>
  <2>1. UNCHANGED <<pc, batch, attempts, retryCount, maxRetry>>
    BY <1>10 DEF Tick, batchVars, retryVars
  <2>2. /\ LastAge \in Nat /\ LastAge' = AtMost(StaleAge + 1, LastAge + 1)
        /\ retryLeft' = AtLeast(0, retryLeft - 1)
    BY <1>10, LastAgeSteps DEF Tick
  <2>3. /\ StaleAge < LastAge => StaleAge < LastAge'
        /\ \A w \in Nat : w <= LastAge => StaleAge < LastAge' \/ w <= LastAge'
        /\ \A w \in Nat : w <= LastAge + retryLeft =>
             StaleAge < LastAge' \/ w <= LastAge' + retryLeft'
    BY <1>1, <2>2 DEF AtMost, AtLeast
  <2>4. /\ WaitsTake(attempts) \in Nat /\ WaitsTake(attempts)' = WaitsTake(attempts)
        /\ WaitsTake(attempts - 1)' = WaitsTake(attempts - 1)
        /\ attempts > 0 => WaitsTake(attempts - 1) \in Nat
    <3>1. WaitsTake(attempts) \in Nat
      BY <1>1, Waits
    <3>2. ASSUME attempts > 0 PROVE WaitsTake(attempts - 1) \in Nat
      <4>1. attempts - 1 \in Nat
        BY <1>1, <3>2
      <4> QED
        BY <4>1, Waits
    <3> QED
      BY <2>1, <3>1, <3>2 DEF WaitsTake
  <2>5. pc \in {"sending", "failed"} => attempts > 0
    BY DEF IInv, AttemptsCounted
  <2>6. pc' # "try"
    BY <1>10 DEF Tick
  <2> QED
    BY <1>3, <2>1, <2>3, <2>4, <2>5, <2>6 DEF RetriesTakeTime
<1>11. ASSUME UNCHANGED <<pc, batch, age, attempts, retryCount, retryLeft, maxRetry>>
       PROVE  RetriesTakeTime'
  BY <1>3, <1>11 DEF RetriesTakeTime, LastAge, WaitsTake, RetriesExhausted
<1>12. CASE PutCheck /\ batch # << >>
  <2>1. UNCHANGED <<pc, batch, attempts, retryCount, retryLeft, maxRetry>>
    BY <1>12 DEF PutCheck, batchVars, retryVars
  <2>2. LastAge' = LastAge
    BY <1>12, LastAgeSteps
  <2> QED
    BY <1>3, <2>1, <2>2 DEF RetriesTakeTime, WaitsTake, RetriesExhausted
<1>13. CASE SendNext \/ SendRaises
  <2>1. /\ pc \in {"sending", "failed"} /\ pc' \in {"sending", "failed"}
        /\ UNCHANGED <<batch, age, attempts>>
    BY <1>13 DEF SendNext, SendRaises, timeVars, retryVars
  <2> QED
    BY <1>3, <2>1 DEF RetriesTakeTime, LastAge, WaitsTake
<1>14. CASE (Tick \/ PutCheck \/ SendBatch) /\ batch = << >>
  <2>1. pc' \in {"loop", "get", "decide", "done"}
    BY <1>14 DEF Tick, PutCheck, SendBatch, IInv, TypeOK, Steps
  <2> QED
    BY <2>1, <1>4
<1>15. CASE SetMustStop \/ PutStopMark \/ UNCHANGED vars
  BY <1>11, <1>15 DEF SetMustStop, PutStopMark, timeVars, batchVars, retryVars, vars
<1>16. CASE \/ Exit \/ StartGet \/ GetCheck \/ GetStopMark \/ GetEmpty \/ KeepBatch
            \/ DropStale \/ DropRetried \/ SendLast \/ GiveUp
  <2>1. pc' \in {"loop", "get", "decide", "done"}
    BY <1>16 DEF Exit, StartGet, GetCheck, GetStopMark, GetEmpty, KeepBatch, DropStale,
       DropRetried, SendLast, GiveUp, Leave
  <2> QED
    BY <2>1, <1>4
<1> QED
  BY <1>5, <1>6, <1>7, <1>8, <1>9, <1>10, <1>12, <1>13, <1>14, <1>15, <1>16
     DEF Next, Environment, Run, TrySend

\* Even with an unlimited max_retry the attempts for a batch are bounded by the time until it
\* is stale, for any delays and batches, and a shutdown grants one more.
THEOREM RetriesAreBounded == Spec => []AttemptsAreBounded
<1>1. CASE RetryDelay > 0
  <2>1. Init => Paced
    <3> SUFFICES ASSUME Init PROVE Paced
      OBVIOUS
    <3>1. Limit \in Nat
      BY <1>1, Waits
    <3> QED
      BY <3>1 DEF Init, Paced, RetriesTakeTime
  <2>2. IInv /\ Paced /\ [Next]_vars => Paced'
    BY <1>1, LimitStep, TimeStep DEF Paced
  <2>3. IInv /\ Paced => AttemptsAreBounded
    <3> SUFFICES ASSUME IInv, Paced PROVE AttemptsAreBounded
      OBVIOUS
    <3>1. /\ attempts \in Nat /\ Limit \in Nat /\ attempts <= Limit + lateAttempts
          /\ lateAttempts = 0 \/ (lateAttempts = 1 /\ mustStop)
      BY <1>1, Waits DEF IInv, TypeOK, Paced, LateAttemptIsLast
    <3>2. attempts <= Limit + (IF mustStop THEN 1 ELSE 0)
      BY <3>1
    <3> QED
      BY <3>2 DEF AttemptsAreBounded, Limit
  <2> QED
    BY <2>1, <2>2, <2>3, AlwaysIInv, PTL DEF Spec
<1>2. CASE ~ (RetryDelay > 0)
  <2>1. AttemptsAreBounded
    BY <1>2 DEF AttemptsAreBounded
  <2> QED
    BY <2>1, PTL
<1> QED
  BY <1>1, <1>2
===============================================================================
