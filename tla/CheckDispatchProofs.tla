-------------------------- MODULE CheckDispatchProofs --------------------------
(***************************************************************************)
(* Whatever the number of checks, workers and queues, a check is executed  *)
(* by one thread at a time, no name leaks in _current_checks, and results  *)
(* reach the queues in order and before the shared dict.  Next to these    *)
(* threads, the HTTP server tells on every page what all the checks were   *)
(* at one moment, and accepts one client at most after it was told to      *)
(* stop.                                                                   *)
(***************************************************************************)
EXTENDS StatusPage, TLAPS

\* The inductive invariant.
IInv == TypeOK /\ NamesAccountedFor /\ OneRunAtATime

-----------------------------------------------------------------------------
\* What Append and Tail do to the elements of the work queue.
LEMMA PendingSequences ==
  ASSUME NEW s \in Seq(Names), NEW n \in Names
  PROVE  /\ Append(s, n) \in Seq(Names)
         /\ Len(Append(s, n)) = Len(s) + 1
         /\ Append(s, n)[Len(s) + 1] = n
         /\ \A i \in 1..Len(s) : Append(s, n)[i] = s[i]
         /\ s # << >> =>
              /\ Len(s) \in Nat \ {0}
              /\ Head(s) = s[1] /\ s[1] \in Names
              /\ Tail(s) \in Seq(Names)
              /\ Len(Tail(s)) = Len(s) - 1
              /\ \A i \in 1..(Len(s) - 1) : Tail(s)[i] = s[i + 1]
OBVIOUS

\* The initial state.
LEMMA InitIInv == Init => IInv
<1> SUFFICES ASSUME Init PROVE IInv
  OBVIOUS
<1>1. TypeOK
  BY BoundsAssumption DEF Init, TypeOK, Queue, Steps
<1>2. NamesAccountedFor /\ OneRunAtATime
  BY DEF Init, NamesAccountedFor, OneRunAtATime, Idle
<1> QED
  BY <1>1, <1>2 DEF IInv

-----------------------------------------------------------------------------
\* Every step keeps the types.
LEMMA NextTypeOK == TypeOK /\ [Next]_vars => TypeOK'
<1> SUFFICES ASSUME TypeOK, [Next]_vars PROVE TypeOK'
  OBVIOUS
<1> USE DEF TypeOK, Steps
<1>1. CASE StartJob
  BY <1>1 DEF StartJob, workVars, outputVars
<1>2. ASSUME NEW n \in Names, Submit(n) PROVE TypeOK'
  BY <1>2 DEF Submit, workVars, outputVars
<1>3. ASSUME NEW n \in Names, Skip(n) PROVE TypeOK'
  BY <1>3 DEF Skip, workVars, outputVars
<1>4. ASSUME NEW n \in Names, RunInline(n) PROVE TypeOK'
  BY <1>4 DEF RunInline, outputVars
<1>5. CASE EndJob
  BY <1>5 DEF EndJob, workVars, outputVars
<1>6. CASE StopProducer
  BY <1>6 DEF StopProducer, workVars, outputVars
<1>7. ASSUME NEW e \in Executors, TakeWork(e) PROVE TypeOK'
  <2>1. Head(pending) \in Names /\ Tail(pending) \in Seq(Names)
    BY <1>7 DEF TakeWork
  <2> QED
    BY <1>7, <2>1 DEF TakeWork, jobVars, outputVars
<1>8. ASSUME NEW e \in Executors, RunCheck(e) PROVE TypeOK'
  <2>1. completed' \in [Names -> Nat] /\ checking[e] \in Names
    BY <1>8 DEF RunCheck
  <2>2. result' \in [Executors -> Nat]
    BY <1>8, <2>1 DEF RunCheck
  <2>3. nextQueue' \in [Executors -> 1..(QueueCount + 1)]
    BY <1>8, BoundsAssumption DEF RunCheck
  <2>4. /\ pc' \in [Executors -> Steps]
        /\ \A f \in Executors : pc'[f] = "sending" => nextQueue'[f] \in Queue
    <3>1. PICK raised \in BOOLEAN : pc' = [pc EXCEPT ![e] = AfterCheck(raised)]
      BY <1>8 DEF RunCheck
    <3>2. /\ AfterCheck(raised) \in {"sending", "storing"}
          /\ AfterCheck(raised) = "sending" => 1 \in Queue
      BY BoundsAssumption DEF AfterCheck, Queue
    <3>3. nextQueue' = [nextQueue EXCEPT ![e] = 1]
      BY <1>8 DEF RunCheck
    <3> QED
      BY <3>1, <3>2, <3>3
  <2> QED
    BY <1>8, <2>1, <2>2, <2>3, <2>4 DEF RunCheck, jobVars
<1>9. ASSUME NEW e \in Executors, PutInQueue(e) PROVE TypeOK'
  <2> DEFINE r == [name |-> checking[e], run |-> result[e]]
  <2>1. r \in ResultSet /\ nextQueue[e] \in Queue
    BY <1>9 DEF PutInQueue, ResultSet
  <2> HIDE DEF r
  <2>2. Append(queues[nextQueue[e]], r) \in Seq(ResultSet)
    BY <2>1
  <2>3. queues' \in [Queue -> Seq(ResultSet)]
    BY <1>9, <2>1, <2>2 DEF PutInQueue, r
  <2>4. nextQueue' \in [Executors -> 1..(QueueCount + 1)]
    <3>1. nextQueue' = [nextQueue EXCEPT ![e] = @ + 1]
      BY <1>9 DEF PutInQueue
    <3>2. nextQueue[e] + 1 \in 1..(QueueCount + 1)
      BY <2>1, BoundsAssumption DEF Queue
    <3> QED
      BY <3>1, <3>2
  <2>5. pc' \in [Executors -> Steps]
    BY <1>9 DEF PutInQueue, AfterSend
  <2>6. ASSUME NEW f \in Executors, pc'[f] = "sending" PROVE nextQueue'[f] \in Queue
    <3>1. CASE f = e
      <4>1. pc'[e] = AfterSend(e) /\ nextQueue'[e] = nextQueue[e] + 1
        BY <1>9 DEF PutInQueue
      <4>2. nextQueue[e] # QueueCount
        BY <2>6, <3>1, <4>1 DEF AfterSend
      <4> QED
        BY <2>1, <3>1, <4>1, <4>2, BoundsAssumption DEF Queue
    <3>2. CASE f # e
      BY <1>9, <2>6, <3>2 DEF PutInQueue
    <3> QED
      BY <3>1, <3>2
  <2> QED
    BY <1>9, <2>3, <2>4, <2>5, <2>6 DEF PutInQueue, jobVars
<1>10. ASSUME NEW e \in Executors, StoreResult(e) PROVE TypeOK'
  BY <1>10 DEF StoreResult, AfterStore, jobVars
<1>11. ASSUME NEW e \in Executors, RemoveName(e) PROVE TypeOK'
  <2>1. currentChecks' \in [Names -> Nat]
    BY <1>11 DEF RemoveName
  <2> QED
    BY <1>11, <2>1 DEF RemoveName, jobVars, outputVars
<1>12. CASE UNCHANGED vars
  BY <1>12 DEF vars, jobVars, workVars, outputVars
<1> QED
  BY <1>1, <1>2, <1>3, <1>4, <1>5, <1>6, <1>7, <1>8, <1>9, <1>10, <1>11, <1>12
     DEF Next, ProducerNext, ExecutorNext

-----------------------------------------------------------------------------
\* What the bookkeeping reads; steps that keep it keep the bookkeeping.
accountVars == <<threadPool, currentChecks, pending, checking>>

\* An executor that is busy before and after a step, or idle before and after it,
\* disturbs nothing.
LEMMA BusyStaysBusy ==
  ASSUME IInv, UNCHANGED accountVars,
         \A e \in Executors : Idle(e)' <=> Idle(e),
         ~ threadPool => \A e \in Executors : pc'[e] # "removing"
  PROVE  NamesAccountedFor' /\ OneRunAtATime'
BY DEF IInv, accountVars, NamesAccountedFor, OneRunAtATime, Idle

\* Submitting a name that is not in the list.
LEMMA SubmitAccount ==
  ASSUME IInv, NEW n \in Names, Submit(n)
  PROVE  NamesAccountedFor' /\ OneRunAtATime'
<1>1. /\ currentChecks \in [Names -> Nat] /\ pending \in Seq(Names)
      /\ checking \in [Executors -> Names]
  BY DEF IInv, TypeOK
<1>2. /\ currentChecks[n] = 0
      /\ currentChecks' = [currentChecks EXCEPT ![n] = @ + 1]
      /\ pending' = Append(pending, n)
      /\ pc' = pc /\ checking' = checking
  BY DEF Submit, MaySubmit, workVars
<1>3. /\ Len(pending') = Len(pending) + 1 /\ Len(pending) \in Nat
      /\ pending'[Len(pending) + 1] = n
      /\ \A i \in 1..Len(pending) : pending'[i] = pending[i] /\ pending[i] \in Names
  BY <1>1, <1>2, PendingSequences
<1>4. currentChecks'[n] = 1 /\ \A m \in Names \ {n} : currentChecks'[m] = currentChecks[m]
  BY <1>1, <1>2
<1>5. \A i \in 1..Len(pending) : pending[i] # n
  BY <1>2 DEF IInv, NamesAccountedFor
<1>6. \A i \in 1..Len(pending') : i = Len(pending) + 1 \/ i \in 1..Len(pending)
  BY <1>3
<1>7. \A e \in Executors : Idle(e)' <=> Idle(e)
  BY <1>2 DEF Idle
<1>8. OneRunAtATime'
  BY <1>2, <1>7 DEF IInv, OneRunAtATime
<1>9. \A m \in Names : currentChecks'[m] \in {0, 1}
  BY <1>4 DEF IInv, NamesAccountedFor
<1>10. \A i, j \in 1..Len(pending') : i # j => pending'[i] # pending'[j]
  BY <1>3, <1>5, <1>6 DEF IInv, NamesAccountedFor
<1>11. \A i \in 1..Len(pending') : currentChecks'[pending'[i]] = 1
  BY <1>3, <1>4, <1>5, <1>6 DEF IInv, NamesAccountedFor
<1>12. ASSUME NEW e \in Executors, threadPool, ~ Idle(e)'
       PROVE  /\ currentChecks'[checking'[e]] = 1
              /\ \A i \in 1..Len(pending') : checking'[e] # pending'[i]
  <2>1. ~ Idle(e) /\ checking'[e] = checking[e] /\ checking[e] \in Names
    BY <1>1, <1>2, <1>7, <1>12
  <2>2. currentChecks[checking[e]] = 1 /\ checking[e] # n
    BY <1>2, <1>12, <2>1 DEF IInv, NamesAccountedFor
  <2>3. \A i \in 1..Len(pending) : checking[e] # pending[i]
    BY <1>12, <2>1 DEF IInv, NamesAccountedFor
  <2> QED
    BY <1>3, <1>4, <1>6, <2>1, <2>2, <2>3
<1>13. threadPool /\ threadPool'
  BY DEF Submit
<1>14. ASSUME NEW m \in Names, currentChecks'[m] # 0
       PROVE  \/ \E i \in 1..Len(pending') : pending'[i] = m
              \/ \E e \in Executors : ~ Idle(e)' /\ checking'[e] = m
  <2>1. CASE m = n
    <3>1. Len(pending) + 1 \in 1..Len(pending')
      BY <1>3
    <3> QED
      BY <1>3, <2>1, <3>1
  <2>2. CASE m # n
    <3>1. \/ \E i \in 1..Len(pending) : pending[i] = m
          \/ \E e \in Executors : ~ Idle(e) /\ checking[e] = m
      BY <1>4, <1>14, <2>2 DEF IInv, NamesAccountedFor
    <3>2. 1..Len(pending) \subseteq 1..Len(pending')
      BY <1>3
    <3> QED
      BY <1>2, <1>3, <1>7, <3>1, <3>2
  <2> QED
    BY <2>1, <2>2
<1> QED
  BY <1>8, <1>9, <1>10, <1>11, <1>12, <1>13, <1>14 DEF NamesAccountedFor

\* A worker takes the name of the head of the work queue.
LEMMA TakeWorkAccount ==
  ASSUME IInv, NEW e \in Executors, TakeWork(e)
  PROVE  NamesAccountedFor' /\ OneRunAtATime'
<1>1. /\ pending \in Seq(Names) /\ pending # << >>
      /\ checking \in [Executors -> Names] /\ pc \in [Executors -> Steps]
  BY DEF IInv, TypeOK, TakeWork
<1>2. /\ threadPool /\ Idle(e)
      /\ checking' = [checking EXCEPT ![e] = Head(pending)]
      /\ pending' = Tail(pending)
      /\ pc' = [pc EXCEPT ![e] = "running"]
      /\ currentChecks' = currentChecks
  BY DEF TakeWork
<1>3. /\ Len(pending) \in Nat \ {0} /\ Len(pending') = Len(pending) - 1
      /\ checking'[e] = pending[1] /\ pending[1] \in Names
      /\ \A i \in 1..(Len(pending) - 1) : pending'[i] = pending[i + 1]
  BY <1>1, <1>2, PendingSequences
<1>4. /\ ~ Idle(e)' /\ pc'[e] = "running"
      /\ \A f \in Executors \ {e} : /\ pc'[f] = pc[f] /\ checking'[f] = checking[f]
                                    /\ Idle(f)' <=> Idle(f)
  BY <1>1, <1>2 DEF Idle
<1>5. \A i \in 1..Len(pending') : i + 1 \in 1..Len(pending) /\ i + 1 # 1 /\ pending'[i] = pending[i + 1]
  BY <1>3
<1>6. 1 \in 1..Len(pending)
  BY <1>3
<1>7. OneRunAtATime'
  <2>1. \A f \in Executors \ {e} : ~ Idle(f) => checking[f] # pending[1]
    BY <1>2, <1>6 DEF IInv, NamesAccountedFor
  <2> QED
    BY <1>3, <1>4, <2>1 DEF IInv, OneRunAtATime
<1>8. \A i, j \in 1..Len(pending') : i # j => pending'[i] # pending'[j]
  <2> SUFFICES ASSUME NEW i \in 1..Len(pending'), NEW j \in 1..Len(pending'), i # j
               PROVE  pending'[i] # pending'[j]
    OBVIOUS
  <2>1. i + 1 # j + 1
    OBVIOUS
  <2> QED
    BY <1>5, <2>1 DEF IInv, NamesAccountedFor
<1>9. \A i \in 1..Len(pending') : currentChecks'[pending'[i]] = 1
  BY <1>2, <1>5 DEF IInv, NamesAccountedFor
<1>10. ASSUME NEW f \in Executors, threadPool, ~ Idle(f)'
       PROVE  /\ currentChecks'[checking'[f]] = 1
              /\ \A i \in 1..Len(pending') : checking'[f] # pending'[i]
  <2>1. CASE f = e
    <3>1. currentChecks[pending[1]] = 1
      BY <1>6 DEF IInv, NamesAccountedFor
    <3>2. \A i \in 1..Len(pending') : pending[1] # pending'[i]
      BY <1>5, <1>6 DEF IInv, NamesAccountedFor
    <3> QED
      BY <1>2, <1>3, <2>1, <3>1, <3>2
  <2>2. CASE f # e
    <3>1. ~ Idle(f) /\ checking'[f] = checking[f]
      BY <1>4, <1>10, <2>2
    <3>2. /\ currentChecks[checking[f]] = 1
          /\ \A i \in 1..Len(pending) : checking[f] # pending[i]
      BY <1>10, <3>1 DEF IInv, NamesAccountedFor
    <3> QED
      BY <1>2, <1>5, <3>1, <3>2
  <2> QED
    BY <2>1, <2>2
<1>11. threadPool /\ threadPool'
  BY <1>2 DEF TakeWork
<1>12. ASSUME NEW m \in Names, currentChecks'[m] # 0
       PROVE  \/ \E i \in 1..Len(pending') : pending'[i] = m
              \/ \E f \in Executors : ~ Idle(f)' /\ checking'[f] = m
  <2>1. \/ \E i \in 1..Len(pending) : pending[i] = m
        \/ \E f \in Executors : ~ Idle(f) /\ checking[f] = m
    BY <1>2, <1>12 DEF IInv, NamesAccountedFor
  <2>2. ASSUME NEW i \in 1..Len(pending), pending[i] = m
        PROVE  \/ \E k \in 1..Len(pending') : pending'[k] = m
               \/ checking'[e] = m
    <3>1. CASE i = 1
      BY <1>3, <2>2, <3>1
    <3>2. CASE i # 1
      <4>1. i - 1 \in 1..Len(pending') /\ i - 1 \in 1..(Len(pending) - 1)
        BY <1>3, <3>2
      <4>2. pending'[i - 1] = pending[(i - 1) + 1]
        BY <1>3, <4>1
      <4>3. (i - 1) + 1 = i
        OBVIOUS
      <4> QED
        BY <2>2, <4>1, <4>2, <4>3
    <3> QED
      BY <3>1, <3>2
  <2>3. ASSUME NEW f \in Executors, ~ Idle(f), checking[f] = m
        PROVE  ~ Idle(f)' /\ checking'[f] = m
    BY <1>2, <1>4, <2>3
  <2> QED
    BY <1>4, <2>1, <2>2, <2>3
<1> QED
  BY <1>2, <1>7, <1>8, <1>9, <1>10, <1>11, <1>12 DEF IInv, NamesAccountedFor

\* A worker takes its name out of the list and becomes idle.
LEMMA RemoveNameAccount ==
  ASSUME IInv, NEW e \in Executors, RemoveName(e)
  PROVE  NamesAccountedFor' /\ OneRunAtATime'
<1> DEFINE n == checking[e]
<1>1. /\ currentChecks \in [Names -> Nat] /\ n \in Names
      /\ pending \in Seq(Names)
      /\ pc \in [Executors -> Steps] /\ pc[e] = "removing"
  BY DEF IInv, TypeOK, RemoveName
<1>0. threadPool /\ ~ Idle(e)
  BY <1>1, ExecutorsAssumption DEF IInv, NamesAccountedFor, Idle
<1>2. currentChecks[n] = 1
  BY <1>0, <1>1 DEF IInv, NamesAccountedFor
<1>3. /\ pc' = [pc EXCEPT ![e] = "idle"]
      /\ pending' = pending /\ checking' = checking
      /\ currentChecks'[n] = 0
      /\ \A m \in Names \ {n} : currentChecks'[m] = currentChecks[m]
  BY <1>1, <1>2 DEF RemoveName
<1>4. /\ Idle(e)'
      /\ \A f \in Executors \ {e} : pc'[f] = pc[f] /\ (Idle(f)' <=> Idle(f))
  BY <1>1, <1>3 DEF Idle
<1>5. OneRunAtATime'
  BY <1>3, <1>4 DEF IInv, OneRunAtATime
<1>6. \A i \in 1..Len(pending) : pending[i] \in Names \ {n}
  BY <1>0, <1>1 DEF IInv, NamesAccountedFor
<1>7. \A f \in Executors \ {e} : ~ Idle(f) => checking[f] \in Names \ {n}
  BY <1>0, <1>1 DEF IInv, OneRunAtATime, TypeOK
<1>8. \A m \in Names : currentChecks'[m] \in {0, 1}
  BY <1>3 DEF IInv, NamesAccountedFor
<1>9. \A i \in 1..Len(pending') : currentChecks'[pending'[i]] = 1
  BY <1>3, <1>6 DEF IInv, NamesAccountedFor
<1>10. ASSUME NEW f \in Executors, threadPool, ~ Idle(f)'
       PROVE  /\ currentChecks'[checking'[f]] = 1
              /\ \A i \in 1..Len(pending') : checking'[f] # pending'[i]
  <2>1. f # e /\ ~ Idle(f)
    BY <1>4, <1>10
  <2> QED
    BY <1>3, <1>7, <1>10, <2>1 DEF IInv, NamesAccountedFor
<1>11. threadPool /\ threadPool'
  BY <1>0 DEF RemoveName
<1>12. ASSUME NEW m \in Names, currentChecks'[m] # 0
       PROVE  \/ \E i \in 1..Len(pending') : pending'[i] = m
              \/ \E f \in Executors : ~ Idle(f)' /\ checking'[f] = m
  <2>1. m # n /\ currentChecks[m] # 0
    BY <1>3, <1>12
  <2> QED
    BY <1>3, <1>4, <2>1 DEF IInv, NamesAccountedFor
<1> QED
  BY <1>3, <1>5, <1>8, <1>9, <1>10, <1>11, <1>12 DEF IInv, NamesAccountedFor

\* Without a pool the list is not used.
LEMMA InlineAccount ==
  ASSUME IInv, ~ threadPool, UNCHANGED <<threadPool, currentChecks, pending>>,
         \A e \in Executors : pc'[e] # "removing", OneRunAtATime'
  PROVE  NamesAccountedFor' /\ OneRunAtATime'
BY DEF IInv, TypeOK, NamesAccountedFor

\* Every step keeps the bookkeeping.
LEMMA NextAccount == IInv /\ [Next]_vars => NamesAccountedFor' /\ OneRunAtATime'
<1> SUFFICES ASSUME IInv, [Next]_vars
             PROVE  NamesAccountedFor' /\ OneRunAtATime'
  OBVIOUS
<1>0. /\ pc \in [Executors -> Steps]
      /\ ~ threadPool => \A e \in Executors : pc[e] # "removing"
  BY DEF IInv, TypeOK, NamesAccountedFor
<1>1. CASE StartJob \/ EndJob \/ StopProducer \/ UNCHANGED vars
  <2>1. UNCHANGED accountVars /\ pc' = pc
    BY <1>1 DEF StartJob, EndJob, StopProducer, vars, workVars, accountVars
  <2> QED
    BY <1>0, <2>1, BusyStaysBusy DEF Idle
<1>2. ASSUME NEW n \in Names, Submit(n) PROVE NamesAccountedFor' /\ OneRunAtATime'
  BY <1>2, SubmitAccount
<1>3. ASSUME NEW n \in Names, Skip(n) PROVE NamesAccountedFor' /\ OneRunAtATime'
  <2>1. UNCHANGED accountVars /\ pc' = pc
    BY <1>3 DEF Skip, workVars, accountVars
  <2> QED
    BY <1>0, <2>1, BusyStaysBusy DEF Idle
<1>4. ASSUME NEW n \in Names, RunInline(n) PROVE NamesAccountedFor' /\ OneRunAtATime'
  <2>1. \A e \in Executors : pc'[e] # "removing"
    BY <1>0, <1>4 DEF RunInline
  <2>2. \E e \in Executors : \A f \in Executors \ {e} : Idle(f)'
    BY <1>0, <1>4 DEF RunInline, Idle
  <2>3. OneRunAtATime'
    BY <2>2 DEF OneRunAtATime
  <2> QED
    BY <1>4, <2>1, <2>3, InlineAccount DEF RunInline
<1>5. ASSUME NEW e \in Executors, TakeWork(e) PROVE NamesAccountedFor' /\ OneRunAtATime'
  BY <1>5, TakeWorkAccount
<1>6. ASSUME NEW e \in Executors, RunCheck(e) \/ PutInQueue(e)
      PROVE  NamesAccountedFor' /\ OneRunAtATime'
  <2>1. UNCHANGED accountVars
    BY <1>6 DEF RunCheck, PutInQueue, accountVars
  <2>2. /\ pc[e] \in {"running", "sending"} /\ pc'[e] \in {"sending", "storing"}
        /\ \A f \in Executors \ {e} : pc'[f] = pc[f]
    BY <1>0, <1>6 DEF RunCheck, PutInQueue, AfterCheck, AfterSend
  <2> QED
    BY <1>0, <2>1, <2>2, BusyStaysBusy DEF Idle
<1>7. ASSUME NEW e \in Executors, StoreResult(e)
      PROVE  NamesAccountedFor' /\ OneRunAtATime'
  <2>1. UNCHANGED accountVars
    BY <1>7 DEF StoreResult, accountVars
  <2>2. /\ pc[e] = "storing" /\ pc'[e] = AfterStore
        /\ \A f \in Executors \ {e} : pc'[f] = pc[f]
    BY <1>0, <1>7 DEF StoreResult
  <2>3. CASE threadPool
    BY <1>0, <2>1, <2>2, <2>3, BusyStaysBusy DEF Idle, AfterStore
  <2>4. CASE ~ threadPool
    <3>1. \A f \in Executors : pc'[f] # "removing"
      BY <1>0, <2>2, <2>4 DEF AfterStore
    <3>2. \A f \in Executors : ~ Idle(f)' => ~ Idle(f)
      BY <2>2 DEF Idle
    <3>3. OneRunAtATime'
      BY <2>1, <3>2 DEF IInv, OneRunAtATime, accountVars
    <3> QED
      BY <2>1, <2>4, <3>1, <3>3, InlineAccount DEF accountVars
  <2> QED
    BY <2>3, <2>4
<1>8. ASSUME NEW e \in Executors, RemoveName(e) PROVE NamesAccountedFor' /\ OneRunAtATime'
  BY <1>8, RemoveNameAccount
<1> QED
  BY <1>1, <1>2, <1>3, <1>4, <1>5, <1>6, <1>7, <1>8 DEF Next, ProducerNext, ExecutorNext

-----------------------------------------------------------------------------
\* IInv holds in every reachable state.
THEOREM InductiveInvariant == Spec => []IInv
<1>1. IInv /\ [Next]_vars => IInv'
  BY NextTypeOK, NextAccount DEF IInv
<1> QED
  BY <1>1, InitIInv, PTL DEF Spec

\* The types of the variables, for every configuration.
THEOREM TypeCorrect == Spec => []TypeOK
BY InductiveInvariant, PTL DEF IInv

\* No name leaks in _current_checks, and the remove of a worker never fails, for
\* every number of checks and workers.
THEOREM NamesAreAccountedFor == Spec => []NamesAccountedFor
BY InductiveInvariant, PTL DEF IInv

\* Two threads never execute the same check, for every number of checks and workers.
THEOREM ChecksAreExclusive == Spec => []OneRunAtATime
BY InductiveInvariant, PTL DEF IInv
-----------------------------------------------------------------------------
(* What reaches the queues and the shared dict.                            *)

\* An executor has the result of the last run of its check.
ResultIsLast ==
  \A e \in Executors : pc[e] \in {"sending", "storing"} =>
    result[e] = completed[checking[e]] /\ result[e] > 0

\* The inductive invariant about the results: the one above makes sure that no two threads
\* have results of the same check.
OutputInv == IInv /\ ResultIsLast /\ EveryRunInOrder /\ StoredAfterPublished

\* Nothing is in the queues at the start.
LEMMA InitOutput == Init => OutputInv
<1> SUFFICES ASSUME Init PROVE OutputInv
  OBVIOUS
<1>1. IInv
  BY InitIInv
<1>2. ResultIsLast
  BY DEF Init, ResultIsLast
<1>3. ASSUME NEW n \in Names, NEW q \in Queue PROVE RunsGiven(n, q) = 0
  BY DEF Init, RunsGiven, OnItsWay
<1>4. \A q \in Queue : Len(queues[q]) = 0
  BY DEF Init
<1>5. EveryRunInOrder
  BY <1>3, <1>4 DEF EveryRunInOrder
<1>6. StoredAfterPublished
  BY DEF Init, StoredAfterPublished
<1> QED
  BY <1>1, <1>2, <1>5, <1>6 DEF OutputInv

\* A step that leaves the runs, the queues and what is on its way to them as they are.
LEMMA QueuesStay ==
  ASSUME OutputInv, UNCHANGED <<completed, queues>>,
         \A n \in Names, q \in Queue : OnItsWay(n, q)' <=> OnItsWay(n, q),
         \A q \in Queue : \A i \in 1..Len(queues[q]) : queues[q][i].name \in Names
  PROVE  EveryRunInOrder'
<1>1. \A n \in Names, q \in Queue : RunsGiven(n, q)' = RunsGiven(n, q)
  BY DEF RunsGiven
<1>2. \A q \in Queue, n \in Names : \A run : Holds(q, n, run)' <=> Holds(q, n, run)
  BY DEF Holds
<1> QED
  BY <1>1, <1>2 DEF OutputInv, EveryRunInOrder

\* The elements of a queue.
LEMMA QueueElements ==
  ASSUME TypeOK, NEW q \in Queue
  PROVE  /\ queues[q] \in Seq(ResultSet) /\ Len(queues[q]) \in Nat
         /\ \A i \in 1..Len(queues[q]) :
              /\ queues[q][i] \in ResultSet
              /\ queues[q][i].name \in Names /\ queues[q][i].run \in Nat
<1>1. queues[q] \in Seq(ResultSet)
  BY DEF TypeOK
<1>2. \A i \in 1..Len(queues[q]) : queues[q][i] \in ResultSet
  BY <1>1
<1> QED
  BY <1>1, <1>2 DEF ResultSet

\* The thread that has a result of n is the only one that does anything for n.
LEMMA OnlySender ==
  ASSUME IInv, NEW e \in Executors, pc[e] # "idle", NEW q \in Queue
  PROVE  OnItsWay(checking[e], q) <=> pc[e] = "sending" /\ nextQueue[e] <= q
<1>1. \A f \in Executors : pc[f] = "sending" /\ checking[f] = checking[e] => f = e
  BY DEF IInv, OneRunAtATime, Idle
<1> QED
  BY <1>1 DEF OnItsWay

\* The end of a run: its result is on its way to every queue.
LEMMA RunCheckOutput ==
  ASSUME OutputInv, NEW e \in Executors, RunCheck(e), IInv'
  PROVE  OutputInv'
<1> DEFINE n == checking[e]
<1>1. /\ TypeOK /\ TypeOK' /\ pc[e] = "running" /\ n \in Names
      /\ completed[n] \in Nat
  BY DEF OutputInv, IInv, TypeOK, RunCheck
<1>2. /\ pc'[e] = IF QueueCount = 0 THEN "storing" ELSE "sending"
      /\ \A f \in Executors \ {e} : pc'[f] = pc[f]
      /\ completed'[n] = completed[n] + 1
      /\ \A m \in Names \ {n} : completed'[m] = completed[m]
      /\ result'[e] = completed'[n]
      /\ \A f \in Executors \ {e} : result'[f] = result[f]
      /\ nextQueue'[e] = 1
      /\ \A f \in Executors \ {e} : nextQueue'[f] = nextQueue[f]
      /\ checking' = checking /\ queues' = queues /\ checkResults' = checkResults
  BY <1>1 DEF RunCheck, TypeOK, AfterCheck
<1>3. \A f \in Executors \ {e} : pc[f] # "idle" => checking[f] \in Names \ {n}
  BY <1>1 DEF OutputInv, IInv, OneRunAtATime, Idle, TypeOK
<1>4. ResultIsLast'
  BY <1>1, <1>2, <1>3 DEF OutputInv, ResultIsLast
<1>5. ASSUME NEW m \in Names, NEW q \in Queue PROVE RunsGiven(m, q)' = RunsGiven(m, q)
  <2>1. CASE m = n
    <3>1. ~ OnItsWay(n, q)
      BY <1>1, OnlySender DEF OutputInv
    <3>2. QueueCount # 0 /\ 1 <= q
      BY BoundsAssumption DEF Queue
    <3>3. OnItsWay(n, q)'
      BY <1>2, <3>2 DEF OnItsWay
    <3> QED
      BY <1>1, <1>2, <2>1, <3>1, <3>3 DEF RunsGiven
  <2>2. CASE m # n
    <3>1. \A f \in Executors : pc[f] = "sending" /\ checking[f] = m /\ nextQueue[f] <= q
                                 <=> pc'[f] = "sending" /\ checking'[f] = m /\ nextQueue'[f] <= q
      BY <1>2, <2>2
    <3>2. OnItsWay(m, q)' <=> OnItsWay(m, q)
      BY <3>1 DEF OnItsWay
    <3> QED
      BY <1>2, <2>2, <3>2 DEF RunsGiven
  <2> QED
    BY <2>1, <2>2
<1>6. \A m \in Names, q \in Queue : \A run : Holds(q, m, run)' <=> Holds(q, m, run)
  BY <1>2 DEF Holds
<1>7. EveryRunInOrder'
  <2>1. \A q \in Queue : \A i \in 1..Len(queues[q]) : queues[q][i].name \in Names
    BY <1>1, QueueElements
  <2> QED
    BY <1>2, <1>5, <1>6, <2>1 DEF OutputInv, EveryRunInOrder
<1>8. StoredAfterPublished'
  BY <1>2, <1>6 DEF OutputInv, StoredAfterPublished
<1> QED
  BY <1>4, <1>7, <1>8 DEF OutputInv

\* A put: the result is the next run of its check for that queue.
LEMMA PutInQueueOutput ==
  ASSUME OutputInv, NEW e \in Executors, PutInQueue(e), IInv'
  PROVE  OutputInv'
<1>0. /\ TypeOK /\ pc[e] = "sending" /\ checking[e] \in Names /\ nextQueue[e] \in Queue
      /\ result[e] \in Nat
  BY DEF OutputInv, IInv, TypeOK, PutInQueue
<1> PICK n \in Names : n = checking[e]
  BY <1>0
<1> PICK p \in Queue : p = nextQueue[e]
  BY <1>0
<1> PICK c \in Nat : c = result[e]
  BY <1>0
<1> DEFINE r == [name |-> n, run |-> c]
<1>1. /\ TypeOK /\ pc[e] = "sending" /\ r \in ResultSet
      /\ p \in Nat /\ QueueCount \in Nat /\ p <= QueueCount
      /\ c = completed[n] /\ c > 0
  BY <1>0, BoundsAssumption DEF OutputInv, ResultIsLast, ResultSet, Queue
<1>2. /\ pc'[e] = IF p = QueueCount THEN "storing" ELSE "sending"
      /\ \A f \in Executors \ {e} : pc'[f] = pc[f]
      /\ nextQueue'[e] = p + 1
      /\ \A f \in Executors \ {e} : nextQueue'[f] = nextQueue[f]
      /\ checking' = checking /\ result' = result /\ completed' = completed
      /\ checkResults' = checkResults
  BY <1>1 DEF PutInQueue, AfterSend, TypeOK
<1>3. /\ queues'[p] = Append(queues[p], r)
      /\ \A q \in Queue \ {p} : queues'[q] = queues[q]
  BY <1>0, <1>1 DEF PutInQueue, TypeOK
<1>4. /\ Len(queues[p]) \in Nat /\ Len(queues'[p]) = Len(queues[p]) + 1
      /\ queues'[p][Len(queues[p]) + 1] = r
      /\ \A i \in 1..Len(queues[p]) : queues'[p][i] = queues[p][i]
  <2>1. queues[p] \in Seq(ResultSet)
    BY <1>1, QueueElements
  <2> HIDE DEF r
  <2> QED
    BY <1>1, <1>3, <2>1
<1>5. ResultIsLast'
  BY <1>2, <1>1 DEF OutputInv, ResultIsLast
<1>6. ASSUME NEW m \in Names, NEW q \in Queue, m # n \/ q # p
      PROVE  RunsGiven(m, q)' = RunsGiven(m, q)
  <2>1. q \in Nat /\ q <= QueueCount
    BY <1>1 DEF Queue
  <2>2. \A f \in Executors : pc[f] = "sending" /\ checking[f] = m /\ nextQueue[f] <= q
                               <=> pc'[f] = "sending" /\ checking'[f] = m /\ nextQueue'[f] <= q
    BY <1>1, <1>2, <1>6, <2>1
  <2>3. OnItsWay(m, q)' <=> OnItsWay(m, q)
    BY <2>2 DEF OnItsWay
  <2> QED
    BY <1>2, <2>3 DEF RunsGiven
<1>7. RunsGiven(n, p) = c - 1 /\ RunsGiven(n, p)' = c
  <2>1. OnItsWay(n, p)
    BY <1>1, OnlySender DEF OutputInv
  <2>2. checking'[e] = n /\ completed'[n] = c /\ ~ (p + 1 <= p)
    BY <1>1, <1>2
  <2>3. \A f \in Executors : ~ (pc'[f] = "sending" /\ checking'[f] = n /\ nextQueue'[f] <= p)
    <3>1. \A f \in Executors \ {e} : pc[f] = "sending" => checking[f] # n
      BY <1>1 DEF OutputInv, IInv, OneRunAtATime, Idle
    <3> QED
      BY <1>2, <2>2, <3>1
  <2>4. ~ OnItsWay(n, p)'
    BY <2>3 DEF OnItsWay
  <2> QED
    BY <1>1, <1>2, <2>1, <2>4 DEF RunsGiven
<1> HIDE DEF r
<1>8. \A q \in Queue, m \in Names : \A run : Holds(q, m, run) => Holds(q, m, run)'
  <2> SUFFICES ASSUME NEW q \in Queue, NEW m \in Names, NEW run, Holds(q, m, run)
               PROVE  Holds(q, m, run)'
    OBVIOUS
  <2>1. PICK i \in 1..Len(queues[q]) : queues[q][i] = [name |-> m, run |-> run]
    BY DEF Holds
  <2>2. i \in 1..Len(queues'[q]) /\ queues'[q][i] = queues[q][i]
    BY <1>3, <1>4, <2>1
  <2> QED
    BY <2>1, <2>2 DEF Holds
<1>9. Holds(p, n, c)'
  <2>1. Len(queues[p]) + 1 \in 1..Len(queues'[p])
    BY <1>4
  <2>2. queues'[p][Len(queues[p]) + 1] = [name |-> n, run |-> c]
    BY <1>4 DEF r
  <2> QED
    BY <2>1, <2>2 DEF Holds
<1>10. EveryRunInOrder'
  <2>1. ASSUME NEW q \in Queue, NEW m \in Names, NEW run \in 1..(RunsGiven(m, q)')
        PROVE  Holds(q, m, run)'
    <3>1. CASE m # n \/ q # p
      BY <1>6, <1>8, <2>1, <3>1 DEF OutputInv, EveryRunInOrder
    <3>2. CASE m = n /\ q = p
      <4>1. run = c \/ run \in 1..RunsGiven(n, p)
        BY <1>1, <1>7, <2>1, <3>2
      <4> QED
        BY <1>1, <1>8, <1>9, <3>2, <4>1 DEF OutputInv, EveryRunInOrder
    <3> QED
      BY <3>1, <3>2
  <2>2. \A q \in Queue : \A i \in 1..Len(queues'[q]) :
          \/ q = p /\ i = Len(queues[p]) + 1 /\ queues'[q][i].name = n /\ queues'[q][i].run = c
          \/ i \in 1..Len(queues[q]) /\ queues'[q][i] = queues[q][i]
    <3> SUFFICES ASSUME NEW q \in Queue, NEW i \in 1..Len(queues'[q])
                 PROVE  \/ q = p /\ i = Len(queues[p]) + 1 /\ queues'[q][i].name = n /\ queues'[q][i].run = c
                        \/ i \in 1..Len(queues[q]) /\ queues'[q][i] = queues[q][i]
      OBVIOUS
    <3>1. r.name = n /\ r.run = c
      BY DEF r
    <3>2. CASE q # p
      BY <1>3, <3>2
    <3>3. CASE q = p
      <4>1. i = Len(queues[p]) + 1 \/ i \in 1..Len(queues[p])
        BY <1>4, <3>3
      <4> QED
        BY <1>4, <3>1, <3>3, <4>1
    <3> QED
      BY <3>2, <3>3
  <2>3. ASSUME NEW q \in Queue, NEW i \in 1..Len(queues'[q]),
               NEW m, m = queues'[q][i].name
        PROVE  queues'[q][i].run \in 1..(RunsGiven(m, q)')
    <3>1. CASE q = p /\ queues'[q][i].name = n /\ queues'[q][i].run = c
      BY <1>1, <1>7, <2>3, <3>1
    <3>2. CASE i \in 1..Len(queues[q]) /\ queues'[q][i] = queues[q][i]
      <4>1. queues[q][i].run \in 1..RunsGiven(m, q) /\ m \in Names
        BY <1>1, <2>3, <3>2, QueueElements DEF OutputInv, EveryRunInOrder
      <4>2. CASE m # n \/ q # p
        BY <1>6, <3>2, <4>1, <4>2
      <4>3. CASE m = n /\ q = p
        BY <1>1, <1>7, <3>2, <4>1, <4>3
      <4> QED
        BY <4>2, <4>3
    <3> QED
      BY <2>2, <3>1, <3>2
  <2>4. ASSUME NEW q \in Queue, NEW i \in 1..Len(queues'[q]), NEW j \in 1..Len(queues'[q]),
               i < j, queues'[q][i].name = queues'[q][j].name
        PROVE  queues'[q][i].run < queues'[q][j].run
    <3>1. Len(queues[q]) \in Nat /\ Len(queues[p]) \in Nat
      BY <1>1, QueueElements
    <3>2. CASE q = p /\ j = Len(queues[p]) + 1 /\ queues'[q][j].name = n /\ queues'[q][j].run = c
      <4>1. i \in 1..Len(queues[p]) /\ queues'[p][i] = queues[p][i]
        BY <2>2, <2>4, <3>1, <3>2
      <4>2. queues[p][i].name = n
        BY <2>4, <3>2, <4>1
      <4>3. queues[p][i].run \in 1..RunsGiven(n, p)
        BY <4>1, <4>2 DEF OutputInv, EveryRunInOrder
      <4>4. queues[p][i].run < c
        <5>1. queues[p][i].run \in 1..(c - 1)
          BY <1>7, <4>3
        <5> QED
          BY <5>1
      <4>5. queues'[q][i].run = queues[p][i].run /\ queues'[q][j].run = c
        BY <3>2, <4>1
      <4> QED
        BY <4>4, <4>5
    <3>3. CASE j \in 1..Len(queues[q]) /\ queues'[q][j] = queues[q][j]
      <4>1. i \in 1..Len(queues[q]) /\ queues'[q][i] = queues[q][i]
        <5>1. i \in 1..Len(queues[q])
          BY <2>4, <3>1, <3>3
        <5>2. CASE q = p
          BY <1>4, <5>1, <5>2
        <5>3. CASE q # p
          BY <1>3, <5>1, <5>3
        <5> QED
          BY <5>1, <5>2, <5>3
      <4> QED
        BY <2>4, <3>3, <4>1 DEF OutputInv, EveryRunInOrder
    <3> QED
      BY <2>2, <3>2, <3>3
  <2> QED
    BY <2>1, <2>3, <2>4 DEF EveryRunInOrder
<1>11. StoredAfterPublished'
  BY <1>2, <1>8 DEF OutputInv, StoredAfterPublished
<1> QED
  BY <1>5, <1>10, <1>11 DEF OutputInv

\* A result is stored once it is in every queue.
LEMMA StoreResultOutput ==
  ASSUME OutputInv, NEW e \in Executors, StoreResult(e), IInv'
  PROVE  OutputInv'
<1> DEFINE n == checking[e]
<1>1. /\ TypeOK /\ pc[e] = "storing" /\ n \in Names
      /\ completed \in [Names -> Nat]
      /\ result[e] = completed[n]
  BY DEF OutputInv, ResultIsLast, IInv, TypeOK, StoreResult
<1>2. /\ pc'[e] \in {"removing", "idle"}
      /\ \A f \in Executors \ {e} : pc'[f] = pc[f]
      /\ checkResults'[n] = result[e]
      /\ \A m \in Names \ {n} : checkResults'[m] = checkResults[m]
      /\ UNCHANGED <<checking, result, nextQueue, completed, queues>>
  BY <1>1 DEF StoreResult, AfterStore, TypeOK
<1>3. ResultIsLast'
  BY <1>1, <1>2 DEF OutputInv, ResultIsLast
<1>4. \A m \in Names, q \in Queue : OnItsWay(m, q)' <=> OnItsWay(m, q)
  BY <1>1, <1>2 DEF OnItsWay
<1>5. EveryRunInOrder'
  BY <1>1, <1>2, <1>4, QueueElements, QueuesStay
<1>6. ASSUME NEW m \in Names, NEW q \in Queue, checkResults'[m] # 0
      PROVE  Holds(q, m, checkResults[m])'
  <2>1. Holds(q, m, checkResults'[m])
    <3>1. CASE m = n
      <4>1. ~ OnItsWay(n, q)
        BY <1>1, OnlySender DEF OutputInv
      <4>2. RunsGiven(n, q) = completed[n] /\ completed[n] \in 1..RunsGiven(n, q)
        BY <1>1, <1>2, <1>6, <3>1, <4>1 DEF RunsGiven
      <4> QED
        BY <1>1, <1>2, <3>1, <4>2 DEF OutputInv, EveryRunInOrder
    <3>2. CASE m # n
      BY <1>2, <1>6, <3>2 DEF OutputInv, StoredAfterPublished
    <3> QED
      BY <3>1, <3>2
  <2> QED
    BY <1>2, <2>1 DEF Holds
<1>7. StoredAfterPublished'
  BY <1>6 DEF StoredAfterPublished
<1> QED
  BY <1>3, <1>5, <1>7 DEF OutputInv

\* The steps that no result takes part in.
LEMMA OtherOutput ==
  ASSUME OutputInv, IInv', UNCHANGED outputVars, UNCHANGED result,
         \A f \in Executors :
           pc'[f] \in {"sending", "storing"} \/ pc[f] \in {"sending", "storing"} =>
             pc'[f] = pc[f] /\ checking'[f] = checking[f] /\ nextQueue'[f] = nextQueue[f]
  PROVE  OutputInv'
<1>1. UNCHANGED <<completed, queues, checkResults>>
  BY DEF outputVars
<1>2. ResultIsLast'
  BY <1>1 DEF OutputInv, ResultIsLast
<1>3. \A m \in Names, q \in Queue : OnItsWay(m, q)' <=> OnItsWay(m, q)
  BY DEF OnItsWay
<1>4. EveryRunInOrder'
  BY <1>1, <1>3, QueueElements, QueuesStay DEF OutputInv, IInv
<1>5. StoredAfterPublished'
  BY <1>1 DEF OutputInv, StoredAfterPublished, Holds
<1> QED
  BY <1>2, <1>4, <1>5 DEF OutputInv

\* Every step keeps the results in order.
LEMMA NextOutput == OutputInv /\ [Next]_vars => OutputInv'
<1> SUFFICES ASSUME OutputInv, [Next]_vars PROVE OutputInv'
  OBVIOUS
<1>1. IInv'
  BY NextTypeOK, NextAccount DEF OutputInv, IInv
<1>2. pc \in [Executors -> Steps] /\ checking \in [Executors -> Names]
  BY DEF OutputInv, IInv, TypeOK
<1>3. CASE \/ StartJob \/ EndJob \/ StopProducer \/ UNCHANGED vars
           \/ \E n \in Names : Submit(n) \/ Skip(n)
  <2>1. UNCHANGED workVars /\ UNCHANGED outputVars
    BY <1>3 DEF StartJob, EndJob, StopProducer, vars, Submit, Skip
  <2> QED
    BY <1>1, <2>1, OtherOutput DEF workVars
<1>4. ASSUME NEW n \in Names, RunInline(n) PROVE OutputInv'
  <2>1. PICK e \in Executors : /\ pc' = [pc EXCEPT ![e] = "running"]
                               /\ checking' = [checking EXCEPT ![e] = n]
    BY <1>4 DEF RunInline
  <2>2. pc[e] = "idle" /\ UNCHANGED outputVars /\ UNCHANGED <<result, nextQueue>>
    BY <1>4 DEF RunInline, Idle
  <2> QED
    BY <1>1, <1>2, <2>1, <2>2, OtherOutput
<1>5. ASSUME NEW e \in Executors, TakeWork(e) PROVE OutputInv'
  <2>1. /\ pc[e] = "idle" /\ UNCHANGED outputVars /\ UNCHANGED <<result, nextQueue>>
        /\ pc' = [pc EXCEPT ![e] = "running"]
        /\ checking' = [checking EXCEPT ![e] = Head(pending)]
    BY <1>5 DEF TakeWork, Idle
  <2> QED
    BY <1>1, <1>2, <2>1, OtherOutput
<1>6. ASSUME NEW e \in Executors, RemoveName(e) PROVE OutputInv'
  <2>1. /\ pc[e] = "removing" /\ UNCHANGED outputVars
        /\ UNCHANGED <<checking, result, nextQueue>>
        /\ pc' = [pc EXCEPT ![e] = "idle"]
    BY <1>6 DEF RemoveName
  <2> QED
    BY <1>1, <1>2, <2>1, OtherOutput
<1>7. ASSUME NEW e \in Executors, RunCheck(e) \/ PutInQueue(e) \/ StoreResult(e) PROVE OutputInv'
  BY <1>1, <1>7, RunCheckOutput, PutInQueueOutput, StoreResultOutput
<1> QED
  BY <1>3, <1>4, <1>5, <1>6, <1>7 DEF Next, ProducerNext, ExecutorNext

\* The results are in order in every reachable state.
LEMMA AlwaysOutput == Spec => []OutputInv
BY InitOutput, NextOutput, PTL DEF Spec

\* Every queue receives every run of every check, once and in order, for every number of
\* checks, workers and queues.
THEOREM QueuesAreInOrder == Spec => []EveryRunInOrder
BY AlwaysOutput, PTL DEF OutputInv

\* The shared dict never shows a run that some queued consumer was not given, for every
\* number of checks, workers and queues.
THEOREM DictIsBehindQueues == Spec => []StoredAfterPublished
BY AlwaysOutput, PTL DEF OutputInv

-----------------------------------------------------------------------------
(* How many runs of a check there may be, and which of them is stored.     *)

\* A run of n was submitted, or started, and did not return yet.
Unfinished(n) ==
  \/ \E i \in 1..Len(pending) : pending[i] = n
  \/ \E e \in Executors : pc[e] = "running" /\ checking[e] = n

\* The runs of n that were submitted or started.
RunsBegun(n) == completed[n] + (IF Unfinished(n) THEN 1 ELSE 0)

\* A job may find the last run but one of a check unfinished, and run it once more.
RunsBounded ==
  \A n \in Names : /\ RunsBegun(n) <= MaxRuns + 1
                   /\ n \in due => RunsBegun(n) <= MaxRuns

\* What is stored was run.
StoredWasRun == \A n \in Names : checkResults[n] <= completed[n]

\* The inductive invariant of the dispatcher, with what bounds and orders the runs.
DispatchInv == OutputInv /\ RunsBounded /\ StoredWasRun

\* A run that ends was the only one of its check.
LEMMA RunEnds ==
  ASSUME OutputInv, NEW e \in Executors, RunCheck(e)
  PROVE  \A n \in Names :
           IF n = checking[e]
             THEN Unfinished(n) /\ ~ Unfinished(n)' /\ completed'[n] = completed[n] + 1
             ELSE (Unfinished(n)' <=> Unfinished(n)) /\ completed'[n] = completed[n]
<1>1. /\ TypeOK /\ NamesAccountedFor /\ OneRunAtATime /\ pc[e] = "running"
      /\ completed' = [completed EXCEPT ![checking[e]] = @ + 1]
      /\ UNCHANGED <<pending, checking>>
  BY DEF OutputInv, IInv, RunCheck
<1>2. pc'[e] # "running" /\ \A f \in Executors \ {e} : pc'[f] = pc[f]
  BY <1>1 DEF RunCheck, AfterCheck, TypeOK
<1>3. \A i \in 1..Len(pending) : pending[i] # checking[e]
  <2>1. CASE threadPool
    BY <1>1, <2>1 DEF NamesAccountedFor, Idle
  <2>2. CASE ~ threadPool
    <3>1. \A i \in 1..Len(pending) : pending[i] \in Names
      BY <1>1 DEF TypeOK
    <3> QED
      BY <1>1, <2>2, <3>1 DEF NamesAccountedFor
  <2> QED
    BY <2>1, <2>2
<1>4. \A f \in Executors \ {e} : pc[f] = "running" => checking[f] # checking[e]
  BY <1>1 DEF OneRunAtATime, Idle
<1>5. ASSUME NEW n \in Names, n = checking[e]
      PROVE  Unfinished(n) /\ ~ Unfinished(n)' /\ completed'[n] = completed[n] + 1
  <2>1. Unfinished(n)
    BY <1>1, <1>5 DEF Unfinished
  <2>2. ~ Unfinished(n)'
    BY <1>1, <1>2, <1>3, <1>4, <1>5 DEF Unfinished
  <2>3. completed'[n] = completed[n] + 1
    BY <1>1, <1>5 DEF TypeOK
  <2> QED
    BY <2>1, <2>2, <2>3
<1>6. ASSUME NEW n \in Names, n # checking[e]
      PROVE  (Unfinished(n)' <=> Unfinished(n)) /\ completed'[n] = completed[n]
  <2>1. completed'[n] = completed[n]
    BY <1>1, <1>6 DEF TypeOK
  <2>2. Unfinished(n)' <=> Unfinished(n)
    BY <1>1, <1>2, <1>6 DEF Unfinished
  <2> QED
    BY <2>1, <2>2
<1> QED
  BY <1>5, <1>6

\* A step after which no run is unfinished that was not before, but for one that was due.
LEMMA RunsStay ==
  ASSUME OutputInv, RunsBounded, UNCHANGED completed, due' \subseteq due,
         \A n \in Names : Unfinished(n)' => Unfinished(n) \/ n \in due \ due'
  PROVE  RunsBounded'
<1> SUFFICES ASSUME NEW n \in Names
             PROVE  /\ RunsBegun(n)' <= MaxRuns + 1
                    /\ n \in due' => RunsBegun(n)' <= MaxRuns
  BY DEF RunsBounded
<1>1. completed[n] \in Nat /\ completed'[n] = completed[n] /\ MaxRuns \in Nat
  BY BoundsAssumption DEF OutputInv, IInv, TypeOK
<1>2. RunsBegun(n) \in Nat /\ RunsBegun(n)' \in Nat
  BY <1>1 DEF RunsBegun
<1>3. RunsBegun(n) <= MaxRuns + 1 /\ (n \in due => RunsBegun(n) <= MaxRuns)
  BY DEF RunsBounded
<1>4. CASE n \in due \ due'
  <2>1. RunsBegun(n)' <= completed[n] + 1 /\ completed[n] <= RunsBegun(n)
    BY <1>1 DEF RunsBegun
  <2> QED
    BY <1>1, <1>2, <1>3, <1>4, <2>1
<1>5. CASE n \notin due \ due'
  <2>1. RunsBegun(n)' <= RunsBegun(n)
    BY <1>1, <1>5 DEF RunsBegun
  <2> QED
    BY <1>1, <1>2, <1>3, <1>5, <2>1
<1> QED
  BY <1>4, <1>5

\* Every step keeps the number of runs.
LEMMA NextRuns == OutputInv /\ RunsBounded /\ [Next]_vars => RunsBounded'
<1> SUFFICES ASSUME OutputInv, RunsBounded, [Next]_vars PROVE RunsBounded'
  OBVIOUS
<1>1. TypeOK /\ TypeOK'
  BY NextTypeOK DEF OutputInv, IInv
<1>2. CASE StartJob
  <2>1. UNCHANGED <<pending, workVars, outputVars>> /\ due' \subseteq {n \in Names : completed[n] < MaxRuns}
    BY <1>2 DEF StartJob
  <2>2. \A n \in Names : RunsBegun(n)' = RunsBegun(n)
    BY <2>1 DEF RunsBegun, Unfinished, workVars, outputVars
  <2>3. \A n \in Names : completed[n] < MaxRuns => RunsBegun(n) <= MaxRuns
    BY <1>1, BoundsAssumption DEF TypeOK, RunsBegun
  <2> QED
    BY <2>1, <2>2, <2>3 DEF RunsBounded
<1>3. ASSUME NEW n \in Names, Submit(n) PROVE RunsBounded'
  <2>1. /\ UNCHANGED completed /\ UNCHANGED <<pc, checking>>
        /\ n \in due /\ due' = due \ {n} /\ pending' = Append(pending, n)
        /\ pending \in Seq(Names)
    BY <1>1, <1>3 DEF Submit, workVars, outputVars, TypeOK
  <2>2. \A m \in Names : Unfinished(m)' => Unfinished(m) \/ m = n
    BY <2>1, PendingSequences DEF Unfinished
  <2> QED
    BY <2>1, <2>2, RunsStay
<1>4. ASSUME NEW n \in Names, RunInline(n) PROVE RunsBounded'
  <2>1. /\ UNCHANGED completed /\ UNCHANGED pending
        /\ n \in due /\ due' = due \ {n}
    BY <1>4 DEF RunInline, outputVars
  <2>2. PICK e \in Executors : /\ pc' = [pc EXCEPT ![e] = "running"]
                               /\ checking' = [checking EXCEPT ![e] = n]
    BY <1>4 DEF RunInline
  <2>3. \A m \in Names : Unfinished(m)' => Unfinished(m) \/ m = n
    BY <1>1, <2>1, <2>2 DEF Unfinished, TypeOK
  <2> QED
    BY <2>1, <2>3, RunsStay
<1>5. ASSUME NEW e \in Executors, TakeWork(e) PROVE RunsBounded'
  <2>1. /\ UNCHANGED completed /\ UNCHANGED due
        /\ pending # << >> /\ pending \in Seq(Names) /\ pending' = Tail(pending)
        /\ pc' = [pc EXCEPT ![e] = "running"]
        /\ checking' = [checking EXCEPT ![e] = Head(pending)]
    BY <1>1, <1>5 DEF TakeWork, jobVars, outputVars, TypeOK
  <2>2. /\ Head(pending) = pending[1] /\ Len(pending) \in Nat \ {0}
        /\ Len(pending') = Len(pending) - 1
        /\ \A i \in 1..Len(pending') : pending'[i] = pending[i + 1]
    BY <2>1, PendingSequences DEF TypeOK
  <2>3. \A m \in Names : Unfinished(m)' => Unfinished(m)
    <3> SUFFICES ASSUME NEW m \in Names, Unfinished(m)' PROVE Unfinished(m)
      OBVIOUS
    <3>1. CASE \E i \in 1..Len(pending') : pending'[i] = m
      BY <2>2, <3>1 DEF Unfinished
    <3>2. CASE \E f \in Executors : pc'[f] = "running" /\ checking'[f] = m
      <4>1. PICK f \in Executors : pc'[f] = "running" /\ checking'[f] = m
        BY <3>2
      <4>2. CASE f = e
        <5>1. pending[1] = m /\ 1 \in 1..Len(pending)
          BY <1>1, <2>1, <2>2, <4>1, <4>2 DEF TypeOK
        <5> QED
          BY <5>1 DEF Unfinished
      <4>3. CASE f # e
        BY <1>1, <2>1, <4>1, <4>3 DEF Unfinished, TypeOK
      <4> QED
        BY <4>2, <4>3
    <3> QED
      BY <3>1, <3>2 DEF Unfinished
  <2> QED
    BY <2>1, <2>3, RunsStay
<1>6. ASSUME NEW e \in Executors, RunCheck(e) PROVE RunsBounded'
  <2> SUFFICES ASSUME NEW n \in Names
               PROVE  /\ RunsBegun(n)' = RunsBegun(n)
                      /\ due' = due
    BY DEF RunsBounded
  <2>1. due' = due
    BY <1>6 DEF RunCheck, jobVars
  <2>2. CASE n = checking[e]
    <3>1. /\ completed[n] \in Nat /\ completed'[n] = completed[n] + 1
          /\ Unfinished(n) /\ ~ Unfinished(n)'
      BY <1>1, <1>6, <2>2, RunEnds DEF TypeOK
    <3>2. RunsBegun(n) = completed[n] + 1 /\ RunsBegun(n)' = completed'[n] + 0
      BY <3>1 DEF RunsBegun
    <3> QED
      BY <2>1, <3>1, <3>2
  <2>3. CASE n # checking[e]
    <3>1. completed'[n] = completed[n] /\ (Unfinished(n)' <=> Unfinished(n))
      BY <1>1, <1>6, <2>3, RunEnds DEF TypeOK
    <3> QED
      BY <2>1, <3>1 DEF RunsBegun
  <2> QED
    BY <2>1, <2>2, <2>3
<1>7. CASE \/ EndJob \/ StopProducer \/ UNCHANGED vars
           \/ \E n \in Names : Skip(n)
           \/ \E e \in Executors : PutInQueue(e) \/ StoreResult(e) \/ RemoveName(e)
  <2>1. /\ UNCHANGED completed /\ UNCHANGED <<pending, checking>> /\ due' \subseteq due
    BY <1>7 DEF EndJob, StopProducer, vars, Skip, PutInQueue, StoreResult, RemoveName,
                jobVars, workVars, outputVars
  <2>2. \A e \in Executors : pc'[e] = "running" => pc[e] = "running"
    BY <1>1, <1>7 DEF EndJob, StopProducer, vars, Skip, PutInQueue, StoreResult, RemoveName,
                      workVars, AfterSend, AfterStore, TypeOK
  <2>3. \A n \in Names : Unfinished(n)' => Unfinished(n)
    BY <2>1, <2>2 DEF Unfinished
  <2> QED
    BY <2>1, <2>3, RunsStay
<1> QED
  BY <1>2, <1>3, <1>4, <1>5, <1>6, <1>7 DEF Next, ProducerNext, ExecutorNext

\* Results in the shared dict are only replaced by those of later runs.
LEMMA ResultsGrow ==
  ASSUME OutputInv, StoredWasRun, [Next]_vars
  PROVE  StoredWasRun' /\ \A n \in Names : checkResults[n] <= checkResults'[n]
<1>1. TypeOK /\ TypeOK'
  BY NextTypeOK DEF OutputInv, IInv
<1>2. ASSUME UNCHANGED checkResults, \A n \in Names : completed[n] <= completed'[n]
      PROVE  StoredWasRun' /\ \A n \in Names : checkResults[n] <= checkResults'[n]
  BY <1>1, <1>2 DEF StoredWasRun, TypeOK
<1>3. ASSUME NEW e \in Executors, StoreResult(e)
      PROVE  StoredWasRun' /\ \A n \in Names : checkResults[n] <= checkResults'[n]
  <2>1. /\ checkResults' = [checkResults EXCEPT ![checking[e]] = result[e]]
        /\ result[e] = completed[checking[e]] /\ UNCHANGED completed
    BY <1>3 DEF StoreResult, OutputInv, ResultIsLast
  <2>2. /\ checkResults \in [Names -> Nat] /\ completed \in [Names -> Nat]
        /\ checking[e] \in Names
    BY <1>1 DEF TypeOK
  <2>3. ASSUME NEW n \in Names
        PROVE  checkResults'[n] <= completed[n] /\ checkResults[n] <= checkResults'[n]
    <3>1. checkResults[n] <= completed[n] /\ checkResults[n] \in Nat /\ completed[n] \in Nat
      BY <2>2 DEF StoredWasRun
    <3>2. checkResults'[n] = IF n = checking[e] THEN completed[n] ELSE checkResults[n]
      BY <2>1, <2>2
    <3> QED
      BY <3>1, <3>2
  <2> QED
    BY <2>1, <2>3 DEF StoredWasRun
<1>4. ASSUME NEW e \in Executors, RunCheck(e)
      PROVE  StoredWasRun' /\ \A n \in Names : checkResults[n] <= checkResults'[n]
  <2>1. /\ completed' = [completed EXCEPT ![checking[e]] = @ + 1] /\ UNCHANGED checkResults
    BY <1>4 DEF RunCheck
  <2>2. \A n \in Names : completed[n] <= completed'[n]
    <3> SUFFICES ASSUME NEW n \in Names PROVE completed[n] <= completed'[n]
      OBVIOUS
    <3>1. completed[n] \in Nat
      BY <1>1 DEF TypeOK
    <3>2. completed'[n] = completed[n] + 1 \/ completed'[n] = completed[n]
      BY <1>4, RunEnds
    <3> QED
      BY <3>1, <3>2
  <2> QED
    BY <1>2, <2>1, <2>2
<1>5. CASE UNCHANGED completed /\ UNCHANGED checkResults
  BY <1>1, <1>2, <1>5 DEF TypeOK
<1> QED
  BY <1>3, <1>4, <1>5 DEF Next, ProducerNext, ExecutorNext, StartJob, Submit, Skip, RunInline,
     EndJob, StopProducer, TakeWork, PutInQueue, RemoveName, vars, outputVars

-----------------------------------------------------------------------------
(* What a page tells: the code that the loops make, and what they list.   *)

\* The dicts that there may be: the run each check is shown with.
Results == [Names -> 0..(MaxRuns + 1)]

\* Nothing was visited yet: OK.
LEMMA NothingIsOK ==
  /\ Nothing \in Results
  /\ IsWorst(0, Nothing)
BY BoundsAssumption DEF Nothing, Results, IsWorst, CRIT

\* One turn of reduce takes one more check into account.
LEMMA WorseIsWorst ==
  ASSUME NEW results \in Results, NEW status, IsWorst(status, results),
         NEW n \in Names, results[n] = 0, NEW run \in 1..(MaxRuns + 1)
  PROVE  IsWorst(Worse(status, StatusOf[n][run]), [results EXCEPT ![n] = run])
<1> DEFINE after == [results EXCEPT ![n] = run]
           known == {StatusOf[m][results[m]] : m \in {m \in Names : results[m] # 0}}
           told == {0} \cup {s \in known : s <= CRIT}
           next == {StatusOf[m][after[m]] : m \in {m \in Names : after[m] # 0}}
           new == StatusOf[n][run]
<1>1. next = known \cup {new}
  <2>1. after[n] = run /\ run # 0 /\ \A m \in Names \ {n} : after[m] = results[m]
    BY BoundsAssumption DEF Results
  <2>2. {m \in Names : after[m] # 0} = {m \in Names : results[m] # 0} \cup {n}
    BY <2>1
  <2>3. \A m \in {k \in Names : results[k] # 0} : m # n
    OBVIOUS
  <2> HIDE DEF after
  <2> QED
    BY <2>1, <2>2, <2>3
<1>2. new \in Int /\ \A s \in known : s \in Int
  BY StatusAssumption, BoundsAssumption DEF Results
<1>3. status \in told /\ \A s \in told : s <= status
  BY DEF IsWorst
<1> HIDE DEF after, known, next, new
<1>4. {0} \cup {s \in next : s <= CRIT} = IF new <= CRIT THEN told \cup {new} ELSE told
  BY <1>1
<1>5. \A s \in told : s \in Int
  BY <1>2
<1> HIDE DEF told
<1>6. CASE new > CRIT
  <2>1. ~ (new <= CRIT) /\ Worse(status, new) = status
    BY <1>2, <1>6 DEF Worse, CRIT
  <2> QED
    BY <1>3, <1>4, <2>1 DEF IsWorst, after, next, new
<1>7. CASE new <= CRIT
  <2>1. Worse(status, new) = IF status > new THEN status ELSE new
    BY <1>2, <1>7 DEF Worse, CRIT
  <2>2. Worse(status, new) \in told \cup {new} /\ \A s \in told \cup {new} : s <= Worse(status, new)
    BY <1>2, <1>3, <1>5, <2>1
  <2> QED
    BY <1>4, <1>7, <2>2 DEF IsWorst, after, next, new
<1> QED
  BY <1>2, <1>6, <1>7 DEF CRIT

-----------------------------------------------------------------------------
(* The page.                                                               *)

\* What the loop has visited of the dict.
Visited == [n \in Names |-> IF n \in unread THEN 0 ELSE checkResults[n]]

\* Only a loop holds the lock, and it visits what is in the dict.
LockIsForLoops ==
  /\ locked \in BOOLEAN
  /\ locked => server \in Loops
  /\ unread \subseteq {n \in Names : checkResults[n] # 0}
  /\ ~ locked => unread = {}

\* While an answer is made the history ends with the dict of now.
MomentsEndNow ==
  Answering => /\ moments \in Seq(Results) /\ moments # << >>
               /\ moments[Len(moments)] = checkResults

\* The code is that of a moment.
CodeTold == \E i \in DOMAIN moments : IsWorst(code, moments[i])

\* The content is that of two moments in their order.
ContentTold ==
  \E i, j \in DOMAIN moments : i <= j /\ IsWorst(code, moments[i]) /\ shown = moments[j]

\* What there is of the page at each step.
PageSoFar ==
  /\ server \notin {"checks", "body", "written"} =>
       code = 0 \/ (server = "status" /\ locked)
  /\ server \notin {"checks", "rows", "body", "written"} => shown = Nothing
  /\ server = "status" /\ locked => IsWorst(code, Visited)
  /\ server \in {"status", "checks"} => path = "/"
  /\ server = "rows" => dataType = "html"
  /\ server = "checks" => CodeTold
  /\ server \in {"checks", "rows"} => shown = IF locked THEN Visited ELSE Nothing
  /\ server = "body" => IF path = "/" THEN ContentTold ELSE code = 0 /\ shown = Nothing
  /\ PageIsExplained

\* A client was accepted after must_stop was set.
LateRequestIsLast ==
  /\ lateRequests \in {0, 1}
  /\ lateRequests = 1 => mustStop /\ (server = "select" => shutdown)

\* The inductive invariant of the dispatcher and the server.
StatusInv ==
  /\ DispatchInv
  /\ LockIsForLoops
  /\ MomentsEndNow
  /\ PageSoFar
  /\ LateRequestIsLast

\* The dispatcher at the start.
LEMMA InitDispatch == Init => DispatchInv
<1> SUFFICES ASSUME Init PROVE DispatchInv
  OBVIOUS
<1>1. RunsBounded /\ StoredWasRun
  BY BoundsAssumption DEF Init, RunsBounded, StoredWasRun, RunsBegun, Unfinished
<1> QED
  BY <1>1, InitOutput DEF DispatchInv

\* The dispatcher goes on whatever the server does.
LEMMA NextDispatch == DispatchInv /\ [Next]_vars => DispatchInv'
BY NextOutput, NextRuns, ResultsGrow DEF DispatchInv

\* What the dict shows are runs.
LEMMA ShownAreResults == DispatchInv => checkResults \in Results
<1> SUFFICES ASSUME DispatchInv, NEW n \in Names PROVE checkResults[n] \in 0..(MaxRuns + 1)
  BY DEF Results, DispatchInv, OutputInv, IInv, TypeOK
<1>1. checkResults[n] \in Nat /\ completed[n] \in Nat
  BY DEF DispatchInv, OutputInv, IInv, TypeOK
<1>2. checkResults[n] <= completed[n] /\ RunsBegun(n) <= MaxRuns + 1
  BY DEF DispatchInv, StoredWasRun, RunsBounded
<1>3. completed[n] <= RunsBegun(n) /\ RunsBegun(n) \in Nat
  BY <1>1 DEF RunsBegun
<1> QED
  BY <1>1, <1>2, <1>3, BoundsAssumption

\* A step of both is one of the dispatcher or leaves it alone.
LEMMA StepOfDispatcher == [StatusNext]_statusVars => [Next]_vars
BY DEF StatusNext, statusVars, Dispatch, OpenConnection, SetMustStop, Accept, PollTimeout,
       ReadRequest, NoRequest, TakeLock, Visit, ReleaseLock, Respond, EndRequest,
       ServiceActions, ServerExits, Serve, Goes

\* The late request is the last one.
LEMMA LateStep == LateRequestIsLast /\ [StatusNext]_statusVars => LateRequestIsLast'
<1> SUFFICES ASSUME LateRequestIsLast, [StatusNext]_statusVars PROVE LateRequestIsLast'
  OBVIOUS
<1> USE DEF LateRequestIsLast, Goes
<1>1. CASE Accept
  BY <1>1 DEF Accept
<1>2. CASE ServiceActions
  BY <1>2 DEF ServiceActions, Shutdown
<1>3. CASE SetMustStop
  BY <1>3 DEF SetMustStop
<1>4. CASE Dispatch \/ OpenConnection \/ TakeLock \/ UNCHANGED statusVars
  BY <1>4 DEF Dispatch, OpenConnection, TakeLock, statusVars, serverVars
<1>5. CASE \E n \in Names : Visit(n)
  BY <1>5 DEF Visit, serverVars
<1>6. CASE ReadRequest
  BY <1>6 DEF ReadRequest, AfterRequest
<1>7. CASE ReleaseLock
  BY <1>7 DEF ReleaseLock, Loops, AfterLoop
<1>8. CASE PollTimeout \/ NoRequest \/ Respond \/ EndRequest \/ ServerExits
  BY <1>8 DEF PollTimeout, NoRequest, Respond, EndRequest, ServerExits
<1> QED
  BY <1>1, <1>2, <1>3, <1>4, <1>5, <1>6, <1>7, <1>8 DEF StatusNext, Serve

\* What the three parts about the page say together.
PageInv == LockIsForLoops /\ MomentsEndNow /\ PageSoFar

\* A worker may store a result between two steps of the server, but not in a loop.
LEMMA DispatchPage ==
  ASSUME StatusInv, Dispatch, checkResults' \in Results PROVE PageInv'
<1>1. UNCHANGED <<server, path, dataType, code, shown, locked, unread>>
  BY DEF Dispatch, pageVars, readVars, serverVars
<1>2. PageInv /\ checkResults \in Results
  BY ShownAreResults DEF StatusInv, PageInv
<1>3. CASE checkResults' = checkResults
  <2>1. moments' = moments
    BY <1>3 DEF Dispatch
  <2> QED
    BY <1>1, <1>2, <1>3, <2>1 DEF PageInv, LockIsForLoops, MomentsEndNow, PageSoFar, Answering,
       Visited, CodeTold, ContentTold, PageIsExplained, IsWorst
<1>4. CASE checkResults' # checkResults
  <2>1. ~ locked /\ unread = {}
    BY <1>2, <1>4 DEF Dispatch, MayStore, PageInv, LockIsForLoops
  <2>2. LockIsForLoops'
    BY <1>1, <1>2, <2>1 DEF PageInv, LockIsForLoops
  <2>3. CASE ~ Answering
    <3>1. server \notin {"status", "checks", "rows", "body", "written"}
      BY <2>3 DEF Answering, Loops
    <3>2. MomentsEndNow'
      BY <1>1, <3>1 DEF MomentsEndNow, Answering, Loops
    <3>3. PageSoFar'
      BY <1>1, <1>2, <3>1 DEF PageInv, PageSoFar, PageIsExplained
    <3> QED
      BY <2>2, <3>2, <3>3 DEF PageInv
  <2>4. CASE Answering
    <3>1. /\ moments \in Seq(Results) /\ moments # << >>
          /\ moments' = Append(moments, checkResults')
      BY <1>2, <1>4, <2>4 DEF Dispatch, PageInv, MomentsEndNow
    <3>2. /\ moments' \in Seq(Results) /\ moments' # << >>
          /\ moments'[Len(moments')] = checkResults'
          /\ \A i \in DOMAIN moments : i \in DOMAIN moments' /\ moments'[i] = moments[i]
      BY <3>1
    <3>3. MomentsEndNow'
      BY <3>2 DEF MomentsEndNow
    <3>4. \A i \in DOMAIN moments : IsWorst(code, moments[i]) => IsWorst(code, moments[i])'
      BY <1>1, <3>2 DEF IsWorst
    <3>5. (CodeTold => CodeTold') /\ (ContentTold => ContentTold')
      BY <1>1, <3>2, <3>4 DEF CodeTold, ContentTold
    <3>6. PageIsExplained => PageIsExplained'
      BY <1>1, <3>2, <3>4 DEF PageIsExplained
    <3>7. PageSoFar'
      BY <1>1, <1>2, <2>1, <3>5, <3>6 DEF PageInv, PageSoFar, Nothing
    <3> QED
      BY <2>2, <3>3, <3>7 DEF PageInv
  <2> QED
    BY <2>3, <2>4
<1> QED
  BY <1>3, <1>4

\* The loops.
LEMMA LoopPage ==
  ASSUME StatusInv, TakeLock \/ (\E n \in Names : Visit(n)) \/ ReleaseLock PROVE PageInv'
<1>1. PageInv /\ checkResults \in Results
  BY ShownAreResults DEF StatusInv, PageInv
<1>2. UNCHANGED <<checkResults, moments, path, dataType>>
  BY DEF TakeLock, Visit, ReleaseLock, Goes, vars, outputVars, pageVars
<1>3. server \in Loops
  BY <1>1 DEF TakeLock, Visit, ReleaseLock, Goes, PageInv, LockIsForLoops
<1>4. /\ moments \in Seq(Results) /\ moments # << >> /\ moments[Len(moments)] = checkResults
  BY <1>1, <1>3 DEF PageInv, MomentsEndNow, Answering
<1>5. MomentsEndNow'
  BY <1>2, <1>4 DEF MomentsEndNow
<1>6. CASE TakeLock
  <2>1. /\ locked' = TRUE /\ UNCHANGED <<server, code, shown>> /\ ~ locked
        /\ unread' = {n \in Names : checkResults[n] # 0}
    BY <1>6 DEF TakeLock, pageVars, serverVars
  <2>2. LockIsForLoops'
    BY <1>2, <1>3, <2>1 DEF LockIsForLoops
  <2>3. Visited' = Nothing
    BY <1>1, <1>2, <2>1 DEF Visited, Nothing, Results
  <2>4. server = "status" => code = 0 /\ shown = Nothing
    BY <1>1, <2>1 DEF PageInv, PageSoFar
  <2>5. server = "status" => IsWorst(code, Visited)'
    BY <2>1, <2>3, <2>4, NothingIsOK DEF IsWorst
  <2>6. CodeTold' <=> CodeTold
    BY <1>2, <2>1 DEF CodeTold, IsWorst
  <2>7. server # "written" /\ server # "body"
    BY <1>3 DEF Loops
  <2>8. PageSoFar'
    BY <1>1, <1>2, <2>1, <2>3, <2>4, <2>5, <2>6, <2>7 DEF PageInv, PageSoFar, PageIsExplained
  <2> QED
    BY <1>5, <2>2, <2>8 DEF PageInv
<1>7. ASSUME NEW n \in Names, Visit(n) PROVE PageInv'
  <2>1. /\ locked /\ UNCHANGED <<server, locked>> /\ n \in unread
        /\ unread' = unread \ {n}
    BY <1>7 DEF Visit, serverVars
  <2>2. LockIsForLoops'
    BY <1>1, <1>2, <2>1 DEF PageInv, LockIsForLoops
  <2>3. checkResults[n] \in 1..(MaxRuns + 1)
    BY <1>1, <2>1, BoundsAssumption DEF PageInv, LockIsForLoops, Results
  <2>4. Visited \in Results /\ Visited[n] = 0 /\ Visited' = [Visited EXCEPT ![n] = checkResults[n]]
    <3>1. \A m \in Names : checkResults[m] \in 0..(MaxRuns + 1) /\ 0 \in 0..(MaxRuns + 1)
      BY <1>1, BoundsAssumption DEF Results
    <3>2. Visited \in Results /\ Visited[n] = 0
      BY <2>1, <3>1 DEF Visited, Results
    <3>3. Visited' = [m \in Names |-> IF m \in unread \ {n} THEN 0 ELSE checkResults[m]]
      BY <1>2, <2>1 DEF Visited
    <3> QED
      BY <3>2, <3>3 DEF Visited
  <2>5. server # "written" /\ server # "body"
    BY <1>3 DEF Loops
  <2>6. CASE server = "status"
    <3>1. code' = Worse(code, StatusOf[n][checkResults[n]]) /\ UNCHANGED shown
      BY <1>7, <2>6 DEF Visit
    <3>2. IsWorst(code, Visited)
      BY <1>1, <2>1, <2>6 DEF PageInv, PageSoFar
    <3> DEFINE after == [Visited EXCEPT ![n] = checkResults[n]]
               next == Worse(code, StatusOf[n][checkResults[n]])
    <3>3. IsWorst(next, after)
      BY <2>3, <2>4, <3>2, WorseIsWorst
    <3>4. code' = next /\ Visited' = after
      BY <2>4, <3>1
    <3> HIDE DEF after, next
    <3>5. IsWorst(code, Visited)'
      BY <3>3, <3>4 DEF IsWorst
    <3>6. PageSoFar'
      BY <1>1, <1>2, <2>1, <2>6, <3>1, <3>5 DEF PageInv, PageSoFar, PageIsExplained
    <3> QED
      BY <1>5, <2>2, <3>6 DEF PageInv
  <2>7. CASE server \in {"checks", "rows"}
    <3>1. shown' = [shown EXCEPT ![n] = checkResults[n]] /\ UNCHANGED code
      BY <1>7, <2>7 DEF Visit
    <3>2. shown = Visited
      BY <1>1, <2>1, <2>7 DEF PageInv, PageSoFar
    <3>3. CodeTold' <=> CodeTold
      BY <1>2, <3>1 DEF CodeTold, IsWorst
    <3>4. PageSoFar'
      BY <1>1, <1>2, <2>1, <2>4, <2>5, <2>7, <3>1, <3>2, <3>3 DEF PageInv, PageSoFar, PageIsExplained
    <3> QED
      BY <1>5, <2>2, <3>4 DEF PageInv
  <2> QED
    BY <1>3, <2>6, <2>7 DEF Loops
<1>8. CASE ReleaseLock
  <2>1. /\ locked /\ unread = {} /\ locked' = FALSE /\ UNCHANGED <<unread, code, shown>>
        /\ server' = AfterLoop[server]
    BY <1>8 DEF ReleaseLock, Goes, pageVars
  <2>2. LockIsForLoops'
    BY <2>1 DEF LockIsForLoops
  <2>3. Visited = checkResults
    BY <1>1, <2>1 DEF Visited, Results
  <2>4. Len(moments) \in DOMAIN moments
    BY <1>4
  <2>5. \A i : IsWorst(code, moments[i]) <=> IsWorst(code, moments[i])'
    BY <1>2, <2>1 DEF IsWorst
  <2>6. CASE server = "status"
    <3>1. server' = "checks" /\ shown = Nothing /\ IsWorst(code, moments[Len(moments)])
      BY <1>1, <1>4, <2>1, <2>3, <2>6 DEF AfterLoop, PageInv, PageSoFar
    <3>2. CodeTold'
      BY <1>2, <2>4, <2>5, <3>1 DEF CodeTold
    <3>3. path' = "/"
      BY <1>1, <1>2, <2>6 DEF PageInv, PageSoFar
    <3>4. PageSoFar'
      BY <2>1, <3>1, <3>2, <3>3 DEF PageSoFar, PageIsExplained, Nothing
    <3> QED
      BY <1>5, <2>2, <3>4 DEF PageInv
  <2>7. CASE server = "checks"
    <3>1. server' = "body" /\ shown = moments[Len(moments)] /\ CodeTold
      BY <1>1, <1>4, <2>1, <2>3, <2>7 DEF AfterLoop, PageInv, PageSoFar
    <3>2. PICK i \in DOMAIN moments : IsWorst(code, moments[i])
      BY <3>1 DEF CodeTold
    <3>3. i <= Len(moments)
      BY <1>4, <3>2
    <3>4. ContentTold'
      BY <1>2, <2>1, <2>4, <2>5, <3>1, <3>2, <3>3 DEF ContentTold
    <3>5. path' = "/"
      BY <1>1, <1>2, <2>7 DEF PageInv, PageSoFar
    <3>6. PageSoFar'
      BY <3>1, <3>4, <3>5 DEF PageSoFar, PageIsExplained
    <3> QED
      BY <1>5, <2>2, <3>6 DEF PageInv
  <2>8. CASE server = "rows"
    <3>1. server' = "written" /\ shown = moments[Len(moments)] /\ dataType = "html"
      BY <1>1, <1>4, <2>1, <2>3, <2>8 DEF AfterLoop, PageInv, PageSoFar
    <3>2. PageIsExplained'
      BY <1>2, <1>4, <2>1, <2>4, <3>1 DEF PageIsExplained
    <3>3. PageSoFar'
      BY <3>1, <3>2 DEF PageSoFar
    <3> QED
      BY <1>5, <2>2, <3>3 DEF PageInv
  <2> QED
    BY <1>3, <2>6, <2>7, <2>8 DEF Loops
<1> QED
  BY <1>6, <1>7, <1>8

\* The steps of the server between its loops.
LEMMA AnswerPage ==
  ASSUME StatusInv, ReadRequest \/ Respond \/ EndRequest, checkResults \in Results
  PROVE  PageInv'
<1>1. PageInv
  BY DEF StatusInv, PageInv
<1>2. UNCHANGED <<checkResults, dataType, locked, unread>>
  BY DEF ReadRequest, Respond, EndRequest, Goes, vars, outputVars, readVars
<1>3. server \notin Loops
  BY DEF ReadRequest, Respond, EndRequest, Goes, Loops
<1>4. ~ locked /\ unread = {}
  BY <1>1, <1>3 DEF PageInv, LockIsForLoops
<1>5. LockIsForLoops'
  BY <1>1, <1>2, <1>4 DEF PageInv, LockIsForLoops
<1>6. CASE ReadRequest
  <2>1. /\ server = "reading" /\ server' = AfterRequest(path') /\ path' \in {"/", "/other"}
        /\ moments' = <<checkResults>> /\ UNCHANGED <<code, shown>>
    BY <1>6 DEF ReadRequest, Goes
  <2>2. MomentsEndNow'
    BY <1>2, <2>1 DEF MomentsEndNow
  <2>3. code = 0 /\ shown = Nothing
    BY <1>1, <2>1 DEF PageInv, PageSoFar
  <2>4. IF path' = "/" THEN server' = "status" ELSE server' = "body"
    BY <2>1 DEF AfterRequest
  <2>5. PageSoFar'
    BY <1>2, <1>4, <2>1, <2>3, <2>4 DEF PageSoFar, PageIsExplained, Nothing
  <2> QED
    BY <1>5, <2>2, <2>5 DEF PageInv
<1>7. CASE Respond
  <2>1. /\ server = "body" /\ server' = IF dataType = "html" THEN "rows" ELSE "written"
        /\ IF dataType = "json" THEN UNCHANGED <<code, shown>> ELSE code' = 0 /\ shown' = Nothing
        /\ UNCHANGED <<path, moments>>
    BY <1>7 DEF Respond, Goes
  <2>2. /\ moments \in Seq(Results) /\ moments # << >> /\ moments[Len(moments)] = checkResults
    BY <1>1, <2>1 DEF PageInv, MomentsEndNow, Answering
  <2>3. MomentsEndNow'
    BY <1>2, <2>1, <2>2 DEF MomentsEndNow
  <2>4. 1 \in DOMAIN moments
    BY <2>2
  <2>5. CASE dataType = "html"
    <3>1. PageSoFar'
      BY <1>2, <1>4, <2>1, <2>5 DEF PageSoFar, PageIsExplained, Nothing
    <3> QED
      BY <1>5, <2>3, <3>1 DEF PageInv
  <2>6. CASE dataType = "json" /\ path = "/"
    <3>1. PICK i, j \in DOMAIN moments : i <= j /\ IsWorst(code, moments[i]) /\ shown = moments[j]
      BY <1>1, <2>1, <2>6 DEF PageInv, PageSoFar, ContentTold
    <3>2. IsWorst(code, moments[i])'
      BY <2>1, <2>6, <3>1 DEF IsWorst
    <3>3. PageIsExplained'
      BY <1>2, <2>1, <2>6, <3>1, <3>2 DEF PageIsExplained
    <3>4. PageSoFar'
      BY <2>1, <2>6, <3>3 DEF PageSoFar
    <3> QED
      BY <1>5, <2>3, <3>4 DEF PageInv
  <2>7. CASE dataType # "html" /\ ~ (dataType = "json" /\ path = "/")
    <3>1. PageIsExplained'
      BY <1>2, <2>1, <2>2, <2>4, <2>7 DEF PageIsExplained
    <3>2. PageSoFar'
      BY <2>1, <2>7, <3>1 DEF PageSoFar
    <3> QED
      BY <1>5, <2>3, <3>2 DEF PageInv
  <2> QED
    BY <2>5, <2>6, <2>7
<1>8. CASE EndRequest
  <2>1. server' = "actions" /\ code' = 0 /\ shown' = Nothing
    BY <1>8 DEF EndRequest, Goes
  <2>2. MomentsEndNow'
    BY <2>1 DEF MomentsEndNow, Answering, Loops
  <2>3. PageSoFar'
    BY <2>1 DEF PageSoFar, PageIsExplained
  <2> QED
    BY <1>5, <2>2, <2>3 DEF PageInv
<1> QED
  BY <1>6, <1>7, <1>8

\* The steps that no answer is made in, or that do not matter to one.
LEMMA OtherPage ==
  ASSUME StatusInv,
         \/ OpenConnection \/ SetMustStop \/ UNCHANGED statusVars
         \/ Accept \/ PollTimeout \/ NoRequest \/ ServiceActions \/ ServerExits
  PROVE  PageInv'
<1>1. PageInv
  BY DEF StatusInv, PageInv
<1>2. UNCHANGED <<checkResults, dataType, path, code, shown, locked, unread, moments>>
  BY DEF OpenConnection, SetMustStop, statusVars, Accept, PollTimeout, NoRequest, ServiceActions,
         ServerExits, Goes, vars, outputVars, pageVars, readVars
<1>3. CASE UNCHANGED server
  BY <1>1, <1>2, <1>3 DEF PageInv, LockIsForLoops, MomentsEndNow, PageSoFar, Answering, Visited,
     CodeTold, ContentTold, PageIsExplained, IsWorst
<1>4. CASE /\ server \in {"select", "reading", "actions"}
           /\ server' \in {"select", "reading", "actions", "done"}
  <2>1. LockIsForLoops' /\ MomentsEndNow'
    BY <1>1, <1>2, <1>4 DEF PageInv, LockIsForLoops, MomentsEndNow, Answering, Loops
  <2>2. PageSoFar'
    BY <1>1, <1>2, <1>4 DEF PageInv, PageSoFar, PageIsExplained
  <2> QED
    BY <2>1, <2>2 DEF PageInv
<1> QED
  BY <1>3, <1>4 DEF OpenConnection, SetMustStop, statusVars, serverVars, Accept, PollTimeout,
     NoRequest, ServiceActions, ServerExits, Goes

\* Every step of the dispatcher and the server.
LEMMA StatusStep == StatusInv /\ [StatusNext]_statusVars => StatusInv'
<1> SUFFICES ASSUME StatusInv, [StatusNext]_statusVars PROVE StatusInv'
  OBVIOUS
<1>1. DispatchInv'
  BY StepOfDispatcher, NextDispatch DEF StatusInv
<1>2. checkResults \in Results /\ checkResults' \in Results
  <2>1. checkResults \in Results
    BY ShownAreResults DEF StatusInv
  <2>2. (DispatchInv => checkResults \in Results)'
    BY ShownAreResults, PTL
  <2> QED
    BY <1>1, <2>1, <2>2 DEF Results
<1>3. LateRequestIsLast'
  BY LateStep DEF StatusInv
<1>4. PageInv'
  BY <1>2, DispatchPage, LoopPage, AnswerPage, OtherPage DEF StatusNext, Serve
<1> QED
  BY <1>1, <1>3, <1>4 DEF StatusInv, PageInv

\* The invariant always holds.
LEMMA AlwaysStatus == StatusSpec => []StatusInv
<1>1. StatusInit => StatusInv
  <2> SUFFICES ASSUME StatusInit PROVE StatusInv
    OBVIOUS
  <2>1. DispatchInv
    BY InitDispatch DEF StatusInit
  <2>2. ~ locked /\ locked \in BOOLEAN /\ unread = {} /\ lateRequests = 0
    BY DEF StatusInit
  <2>3. LockIsForLoops
    BY <2>2 DEF LockIsForLoops
  <2>4. LateRequestIsLast
    BY <2>2 DEF LateRequestIsLast
  <2>5. MomentsEndNow /\ PageSoFar
    BY DEF StatusInit, MomentsEndNow, Answering, Loops, PageSoFar, PageIsExplained
  <2> QED
    BY <2>1, <2>3, <2>4, <2>5 DEF StatusInv
<1> QED
  BY <1>1, StatusStep, PTL DEF StatusSpec

\* The server leaves the dispatcher alone: next to it every step is one of CheckDispatch or
\* none, so that all of the theorems above hold for both together.
THEOREM ServerOnlyReads == StatusSpec => Spec
<1>1. StatusInit => Init
  BY DEF StatusInit
<1> QED
  BY <1>1, StepOfDispatcher, PTL DEF StatusSpec, Spec

\* However many results are stored while an answer is made, its code is the worst status of
\* all the checks at one moment since the request was read, and what it lists is all of them
\* at one moment, the same or a later one: for any checks, workers and statuses.
THEOREM PagesAreExplained == StatusSpec => []PageIsExplained
<1>1. StatusInv => PageIsExplained
  BY DEF StatusInv, PageSoFar
<1> QED
  BY <1>1, AlwaysStatus, PTL

\* After must_stop was set the server accepts one more client at most, whatever the clients do.
THEOREM OneLateClient == StatusSpec => [](lateRequests <= 1)
<1>1. StatusInv => lateRequests <= 1
  BY DEF StatusInv, LateRequestIsLast
<1> QED
  BY <1>1, AlwaysStatus, PTL
===============================================================================
