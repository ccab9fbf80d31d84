------------------------------ MODULE NSCAProofs ------------------------------
(***************************************************************************)
(* _send returns only if a receiver was sent the check, and gives up only  *)
(* when each was tried as often as it is listed, for any receivers, any    *)
(* answers of getaddrinfo and any failures.                                *)
(***************************************************************************)
EXTENDS NSCA, FiniteSetTheorems, FunctionTheorems, SequenceTheorems, WellFoundedInduction, TLAPS

InLoop == pc \in {"attempt", "connect", "init", "payload"}

\* The receivers tried are the first n of the list.
TriedFirst(n) == Len(tried) = n /\ \A i \in 1..n : tried[i] = addresses[i]

\* The loop of _send goes through its list from the first address.
LoopGoesThroughList ==
  /\ pc = "resolve" => tried = << >>
  /\ pc = "attempt" => position <= Len(addresses) + 1 /\ TriedFirst(position - 1)
  /\ pc \in {"connect", "init", "payload"} => TriedFirst(position)

\* The list holds each address as often as the answer of getaddrinfo.
ListIsAnswer == InLoop => \A r \in Receivers : Count(r, addresses) = Count(r, resolved)

\* A receiver is given the check in the last step of a call that returns.
ServedOnReturn ==
  /\ pc # "returned" => served = {}
  /\ pc = "returned" /\ ~ PayloadIsEmpty => \E r \in Receivers : served = {r}
  /\ pc = "returned" /\ PayloadIsEmpty => served = {}

\* The inductive invariant.
IInv ==
  /\ TypeOK
  /\ LoopGoesThroughList
  /\ ListIsAnswer
  /\ ServedOnReturn

-----------------------------------------------------------------------------
(* The order of the addresses.                                             *)

\* A set of positions has a smallest one.
LEMMA MinIsMember == ASSUME NEW S, S \subseteq Nat, S # {} PROVE Min(S) \in S
<1>1. PICK m \in S : \A y \in S : ~ (<<y, m>> \in OpToRel(<, Nat))
  BY WFMin, NatLessThanWellFounded
<1>2. \A y \in S : m <= y
  <2> SUFFICES ASSUME NEW y \in S, ~ (m <= y) PROVE FALSE
    OBVIOUS
  <2>1. <<y, m>> \in OpToRel(<, Nat)
    BY DEF OpToRel
  <2> QED
    BY <1>1, <2>1
<1> QED
  BY <1>1, <1>2 DEF Min

\* list.remove takes out one occurrence, and keeps the order of the others.
LEMMA RemoveFirstTakesOne ==
  ASSUME NEW s \in Seq(Receivers), NEW e, Contains(s, e)
  PROVE  /\ e \in Receivers
         /\ \E k \in 1..Len(s) :
              /\ s[k] = e
              /\ RemoveFirst(s, e) \in Seq(Receivers)
              /\ Len(RemoveFirst(s, e)) = Len(s) - 1
              /\ \A i \in 1..(Len(s) - 1) :
                   RemoveFirst(s, e)[i] = IF i < k THEN s[i] ELSE s[i + 1]
<1> DEFINE I == {i \in 1..Len(s) : s[i] = e}
           k == Min(I)
<1>1. k \in 1..Len(s) /\ s[k] = e /\ e \in Receivers /\ Len(s) \in Nat
  <2>1. I # {} /\ I \subseteq Nat
    BY DEF Contains
  <2>2. k \in I
    BY <2>1, MinIsMember
  <2> QED
    BY <2>2
<1>2. RemoveFirst(s, e) = RemoveAt(s, k)
  BY <1>1 DEF RemoveFirst, SelectInSeq, Contains
<1> HIDE DEF k
<1> DEFINE left == SubSeq(s, 1, k - 1)
           right == SubSeq(s, k + 1, Len(s))
<1>3. /\ left \in Seq(Receivers) /\ Len(left) = k - 1
      /\ \A i \in 1..(k - 1) : left[i] = s[i]
  BY <1>1
<1>4. /\ right \in Seq(Receivers) /\ Len(right) = Len(s) - k
      /\ \A i \in 1..(Len(s) - k) : right[i] = s[k + i]
  BY <1>1
<1>5. RemoveFirst(s, e) = left \o right
  BY <1>2 DEF RemoveAt
<1> HIDE DEF left, right
<1>6. /\ left \o right \in Seq(Receivers) /\ Len(left \o right) = Len(s) - 1
      /\ \A i \in 1..(Len(s) - 1) :
           (left \o right)[i] = IF i <= k - 1 THEN left[i] ELSE right[i - (k - 1)]
  <2>1. /\ left \o right \in Seq(Receivers) /\ Len(left \o right) = Len(left) + Len(right)
        /\ \A i \in 1..(Len(left) + Len(right)) :
             (left \o right)[i] = IF i <= Len(left) THEN left[i] ELSE right[i - Len(left)]
    BY <1>3, <1>4, ConcatProperties
  <2>2. Len(left) + Len(right) = Len(s) - 1
    BY <1>1, <1>3, <1>4
  <2> QED
    BY <1>3, <2>1, <2>2
<1>7. ASSUME NEW i \in 1..(Len(s) - 1)
      PROVE  (left \o right)[i] = IF i < k THEN s[i] ELSE s[i + 1]
  <2>1. CASE i < k
    BY <1>1, <1>3, <1>6, <2>1
  <2>2. CASE i >= k
    <3>1. i - (k - 1) \in 1..(Len(s) - k) /\ k + (i - (k - 1)) = i + 1
      BY <1>1, <2>2
    <3> QED
      BY <1>1, <1>4, <1>6, <2>2, <3>1
  <2>3. i < k \/ i >= k
    BY <1>1
  <2> QED
    BY <2>1, <2>2, <2>3
<1> QED
  BY <1>1, <1>5, <1>6, <1>7

\* t has the n elements of s in another order.
IsReordering(t, s, n) ==
  /\ Len(s) = n /\ Len(t) = n
  /\ \E f \in [1..n -> 1..n] :
       /\ \A i, j \in 1..n : f[i] = f[j] => i = j
       /\ \A j \in 1..n : \E i \in 1..n : f[i] = j
       /\ \A i \in 1..n : t[f[i]] = s[i]

\* Such a sequence holds each element as often.
LEMMA CountOfReordering ==
  ASSUME NEW r, NEW n \in Nat, NEW s, NEW t, IsReordering(t, s, n)
  PROVE  Count(r, t) = Count(r, s)
<1>0. PICK f \in [1..n -> 1..n] :
        /\ \A i, j \in 1..n : f[i] = f[j] => i = j
        /\ \A j \in 1..n : \E i \in 1..n : f[i] = j
        /\ \A i \in 1..n : t[f[i]] = s[i]
  BY DEF IsReordering
<1> DEFINE S == {i \in 1..n : s[i] = r}
           T == {i \in 1..n : t[i] = r}
           g == [i \in S |-> f[i]]
<1>1. g \in [S -> T]
  BY <1>0
<1>2. \A i, j \in S : g[i] = g[j] => i = j
  BY <1>0
<1>3. ASSUME NEW j \in T PROVE \E i \in S : g[i] = j
  <2>1. PICK i \in 1..n : f[i] = j
    BY <1>0
  <2>2. i \in S
    BY <1>0, <2>1
  <2> QED
    BY <2>1, <2>2
<1>4. g \in Bijection(S, T)
  <2> HIDE DEF S, T, g
  <2> QED
    BY <1>1, <1>2, <1>3 DEF Bijection, Injection, Surjection, IsInjective
<1>5. ExistsBijection(S, T)
  BY <1>4 DEF ExistsBijection
<1>6. IsFiniteSet(S)
  <2>1. IsFiniteSet(1..n)
    BY FS_Interval
  <2> QED
    BY <2>1, FS_Subset
<1>7. Cardinality(T) = Cardinality(S)
  <2> HIDE DEF S, T, g
  <2> QED
    BY <1>5, <1>6, FS_Bijection
<1> QED
  BY <1>7 DEF Count, IsReordering

\* _get_receivers_addresses keeps the addresses: none is added, dropped or listed once more.
LEMMA PriorityKeepsAddresses ==
  ASSUME NEW answer \in Seq(Receivers)
  PROVE  /\ Priority(answer) \in Seq(Receivers)
         /\ \A r \in Receivers : Count(r, Priority(answer)) = Count(r, answer)
<1>1. CASE ~ Contains(answer, lastGood)
  BY <1>1 DEF Priority
<1>2. CASE Contains(answer, lastGood)
  <2> DEFINE rest == RemoveFirst(answer, lastGood)
             n == Len(answer)
             all == <<lastGood>> \o rest
  <2>1. lastGood \in Receivers
    BY <1>2, RemoveFirstTakesOne
  <2>2. PICK k \in 1..n :
          /\ answer[k] = lastGood
          /\ rest \in Seq(Receivers) /\ Len(rest) = n - 1
          /\ \A i \in 1..(n - 1) : rest[i] = IF i < k THEN answer[i] ELSE answer[i + 1]
    BY <1>2, RemoveFirstTakesOne
  <2>3. Priority(answer) = all
    BY <1>2 DEF Priority
  <2>4. n \in Nat
    OBVIOUS
  <2> HIDE DEF rest, n
  <2>5. /\ all \in Seq(Receivers) /\ Len(all) = n
        /\ all[1] = lastGood /\ \A i \in 2..n : all[i] = rest[i - 1]
    <3>1. /\ all \in Seq(Receivers) /\ Len(all) = 1 + Len(rest)
          /\ \A i \in 1..(1 + Len(rest)) : all[i] = IF i <= 1 THEN lastGood ELSE rest[i - 1]
      BY <2>1, <2>2
    <3> QED
      BY <2>2, <2>4, <3>1
  <2> HIDE DEF all
  <2> DEFINE f == [i \in 1..n |-> IF i = k THEN 1 ELSE IF i < k THEN i + 1 ELSE i]
  <2>6. f \in [1..n -> 1..n]
    BY <2>4
  <2>7. \A i, j \in 1..n : f[i] = f[j] => i = j
    BY <2>4
  <2>8. ASSUME NEW j \in 1..n PROVE \E i \in 1..n : f[i] = j
    <3>1. CASE j = 1
      BY <3>1
    <3>2. CASE j > 1 /\ j <= k
      <4>1. j - 1 \in 1..n /\ j - 1 < k /\ (j - 1) + 1 = j
        BY <2>4, <3>2
      <4>2. f[j - 1] = j
        BY <4>1
      <4> QED
        BY <4>1, <4>2
    <3>3. CASE j > k
      BY <3>3
    <3> QED
      BY <2>4, <3>1, <3>2, <3>3
  <2>9. ASSUME NEW i \in 1..n PROVE all[f[i]] = answer[i]
    <3>1. CASE i = k
      BY <2>2, <2>5, <3>1
    <3>2. CASE i < k
      <4>1. f[i] = i + 1 /\ i + 1 \in 2..n /\ (i + 1) - 1 = i /\ i \in 1..(n - 1)
        BY <2>4, <3>2
      <4> QED
        BY <2>2, <2>5, <3>2, <4>1
    <3>3. CASE i > k
      <4>1. f[i] = i /\ i \in 2..n /\ i - 1 \in 1..(n - 1) /\ (i - 1) + 1 = i /\ ~ (i - 1 < k)
        BY <2>4, <3>3
      <4> QED
        BY <2>2, <2>5, <4>1
    <3> QED
      BY <2>4, <3>1, <3>2, <3>3
  <2> HIDE DEF f
  <2>10. IsReordering(all, answer, n)
    <3>1. Len(all) = n /\ Len(answer) = n
      BY <2>5 DEF n
    <3> QED
      BY <2>6, <2>7, <2>8, <2>9, <3>1 DEF IsReordering
  <2>11. \A r \in Receivers : Count(r, all) = Count(r, answer)
    BY <2>4, <2>10, CountOfReordering
  <2> QED
    BY <2>3, <2>5, <2>11
<1> QED
  BY <1>1, <1>2
-----------------------------------------------------------------------------
(* The inductive invariant.                                                *)

\* No call of _send has begun.
LEMMA InitIInv == Init => IInv
<1> SUFFICES ASSUME Init PROVE IInv
  OBVIOUS
<1>1. TypeOK
  <2>1. /\ resolved \in Seq(Receivers) /\ addresses \in Seq(Receivers)
        /\ tried \in Seq(Receivers) /\ served \in SUBSET Receivers
    BY DEF Init
  <2>2. position \in Nat \ {0} /\ received \in 0..InitSize
    BY SizesAssumption DEF Init
  <2>3. keyGiven \in BOOLEAN /\ encodable \in BOOLEAN /\ ended \in BOOLEAN
    BY DEF Init
  <2> QED
    BY <2>1, <2>2, <2>3 DEF Init, TypeOK, Steps
<1>2. LoopGoesThroughList /\ ListIsAnswer /\ ServedOnReturn
  BY DEF Init, LoopGoesThroughList, ListIsAnswer, InLoop, ServedOnReturn
<1> QED
  BY <1>1, <1>2 DEF IInv

\* A call starts with no receiver tried and none that was sent the check.
LEMMA SendIInv == ASSUME IInv, Send PROVE IInv'
<1>1. TypeOK'
  BY DEF IInv, TypeOK, Send, Steps, Sending, settings, streamVars
<1>2. LoopGoesThroughList' /\ ListIsAnswer' /\ ServedOnReturn'
  BY DEF Send, LoopGoesThroughList, ListIsAnswer, InLoop, ServedOnReturn
<1> QED
  BY <1>1, <1>2 DEF IInv

\* The loop starts at the first address of a list that holds those of the answer.
LEMMA ResolveIInv == ASSUME IInv, Resolve PROVE IInv'
<1>1. PICK answer \in Answers : resolved' = answer /\ addresses' = Priority(answer)
  BY DEF Resolve
<1>2. answer \in Seq(Receivers)
  BY DEF Answers, SeqOf
<1>3. /\ addresses' \in Seq(Receivers)
      /\ \A r \in Receivers : Count(r, addresses') = Count(r, resolved')
  BY <1>1, <1>2, PriorityKeepsAddresses
<1>4. TypeOK'
  BY <1>1, <1>2, <1>3 DEF IInv, TypeOK, Resolve, Steps, settings, streamVars, historyVars
<1>5. Len(addresses') \in Nat /\ tried = << >> /\ tried' = tried /\ position' = 1
  BY <1>3 DEF IInv, LoopGoesThroughList, Resolve, historyVars
<1>6. LoopGoesThroughList'
  BY <1>5 DEF Resolve, LoopGoesThroughList, TriedFirst
<1>7. ListIsAnswer'
  BY <1>3 DEF ListIsAnswer
<1>8. ServedOnReturn'
  BY DEF IInv, Resolve, ServedOnReturn, historyVars
<1> QED
  BY <1>4, <1>6, <1>7, <1>8 DEF IInv

\* What the steps of a call have in common, but for the first two and SendAll: the list, the
\* answer and the receivers tried and served stay as they are.
Keeps ==
  /\ UNCHANGED <<settings, lastGood, callVars, tried, served>>
  /\ pc \in {"resolve", "attempt", "connect", "init", "payload"}
  /\ received' \in 0..InitSize /\ ended' \in BOOLEAN

\* An OSError moves the loop to the next address, with the receiver it fails at tried.
LEMMA FailIInv ==
  ASSUME IInv, Keeps, Fail, pc \in {"connect", "init", "payload"}
  PROVE  IInv'
<1>1. /\ position \in Nat \ {0} /\ Len(addresses) \in Nat
      /\ position <= Len(addresses) /\ TriedFirst(position)
  BY DEF IInv, TypeOK, LoopGoesThroughList
<1>2. TypeOK'
  BY <1>1 DEF IInv, TypeOK, Keeps, Fail, Steps, settings, callVars
<1>3. /\ position' = position + 1 /\ position' - 1 = position /\ pc' = "attempt"
      /\ position' <= Len(addresses) + 1
      /\ tried' = tried /\ addresses' = addresses
  BY <1>1 DEF Keeps, Fail, callVars
<1>4. TriedFirst(position - 1)'
  BY <1>1, <1>3 DEF TriedFirst
<1>5. LoopGoesThroughList'
  BY <1>3, <1>4 DEF LoopGoesThroughList
<1>6. ListIsAnswer' /\ ServedOnReturn'
  BY <1>3 DEF IInv, ListIsAnswer, InLoop, ServedOnReturn, Keeps, callVars, settings
<1> QED
  BY <1>2, <1>5, <1>6 DEF IInv

\* An exception that leaves _send leaves it with nothing sent.
LEMMA RaiseIInv == ASSUME IInv, Keeps, pc' = "raised", position' = position PROVE IInv'
<1>1. TypeOK'
  BY DEF IInv, TypeOK, Keeps, Steps, settings, callVars
<1>2. LoopGoesThroughList' /\ ListIsAnswer' /\ ServedOnReturn'
  BY DEF IInv, LoopGoesThroughList, ListIsAnswer, InLoop, ServedOnReturn, Keeps
<1> QED
  BY <1>1, <1>2 DEF IInv

\* The steps that stay with the receiver of the attempt.
LEMMA SameReceiverIInv ==
  ASSUME IInv, Keeps, position' = position,
         pc \in {"connect", "init", "payload"}, pc' \in {"connect", "init", "payload"}
  PROVE  IInv'
<1>1. TypeOK'
  BY DEF IInv, TypeOK, Keeps, Steps, settings, callVars
<1>2. LoopGoesThroughList'
  BY DEF IInv, LoopGoesThroughList, TriedFirst, Keeps, callVars
<1>3. ListIsAnswer' /\ ServedOnReturn'
  BY DEF IInv, ListIsAnswer, InLoop, ServedOnReturn, Keeps, callVars, settings
<1> QED
  BY <1>1, <1>2, <1>3 DEF IInv

\* An attempt adds the receiver at the position of the loop to the ones tried.
LEMMA StartAttemptIInv == ASSUME IInv, StartAttempt PROVE IInv'
<1>1. /\ position \in Nat \ {0} /\ tried \in Seq(Receivers) /\ addresses \in Seq(Receivers)
      /\ position <= Len(addresses) /\ TriedFirst(position - 1)
  BY DEF IInv, TypeOK, LoopGoesThroughList, StartAttempt
<1>2. /\ tried' = Append(tried, addresses[position]) /\ addresses[position] \in Receivers
      /\ position' = position /\ addresses' = addresses /\ pc' = "connect" /\ pc = "attempt"
  BY <1>1 DEF StartAttempt, callVars
<1>3. /\ tried' \in Seq(Receivers) /\ Len(tried') = position
      /\ \A i \in 1..position : tried'[i] = addresses[i]
  BY <1>1, <1>2 DEF TriedFirst
<1>4. TypeOK'
  BY <1>1, <1>2, <1>3 DEF IInv, TypeOK, StartAttempt, Steps, settings, callVars, streamVars
<1>5. LoopGoesThroughList'
  BY <1>2, <1>3 DEF LoopGoesThroughList, TriedFirst
<1>6. ListIsAnswer' /\ ServedOnReturn'
  BY <1>2 DEF IInv, ListIsAnswer, InLoop, ServedOnReturn, StartAttempt, callVars, settings
<1> QED
  BY <1>4, <1>5, <1>6 DEF IInv

\* sendall sends the check to the one receiver of the call, or sends nothing.
LEMMA SendAllIInv == ASSUME IInv, SendAll PROVE IInv'
<1>1. /\ pc = "payload" /\ pc' = "returned" /\ served = {}
      /\ addresses[position] \in Receivers
  BY DEF IInv, TypeOK, ServedOnReturn, SendAll
<1>2. /\ PayloadIsEmpty' = PayloadIsEmpty
      /\ served' = IF PayloadIsEmpty THEN {} ELSE {addresses[position]}
  BY <1>1 DEF SendAll, PayloadIsEmpty, settings
<1>3. TypeOK'
  BY <1>1, <1>2 DEF IInv, TypeOK, SendAll, Steps, settings, callVars, streamVars
<1>4. LoopGoesThroughList' /\ ListIsAnswer'
  BY <1>1 DEF LoopGoesThroughList, ListIsAnswer, InLoop
<1>5. ServedOnReturn'
  BY <1>1, <1>2 DEF ServedOnReturn
<1> QED
  BY <1>3, <1>4, <1>5 DEF IInv

\* IInv is inductive.
LEMMA NextIInv == IInv /\ [Next]_vars => IInv'
<1> SUFFICES ASSUME IInv, [Next]_vars PROVE IInv'
  OBVIOUS
<1>1. InitSize \in Nat \ {0} /\ received \in 0..InitSize /\ ended \in BOOLEAN
  BY SizesAssumption DEF IInv, TypeOK
<1>2. CASE Send
  BY <1>2, SendIInv
<1>3. CASE Resolve
  BY <1>3, ResolveIInv
<1>4. CASE ResolveRaises \/ PayloadRaises
  <2>1. Keeps /\ pc' = "raised" /\ position' = position
    BY <1>1, <1>4 DEF ResolveRaises, PayloadRaises, Keeps, streamVars, historyVars
  <2> QED
    BY <2>1, RaiseIInv
<1>5. CASE NoReceiverLeft
  <2>1. Keeps /\ pc' = "raised" /\ position' = position
    BY <1>1, <1>5 DEF NoReceiverLeft, AfterLast, Keeps, streamVars, historyVars
  <2> QED
    BY <2>1, RaiseIInv
<1>6. CASE StartAttempt
  BY <1>6, StartAttemptIInv
<1>7. CASE ConnectRaises \/ RecvRaises \/ SendAllRaises
  <2>1. Keeps /\ Fail /\ pc \in {"connect", "init", "payload"}
    BY <1>1, <1>7 DEF ConnectRaises, RecvRaises, SendAllRaises, Keeps, streamVars, historyVars
  <2> QED
    BY <2>1, FailIInv
<1>8. CASE Connect \/ InitPayloadRead \/ ReceiverEnds
  <2>1. received' \in 0..InitSize
    BY <1>1, <1>8 DEF Connect, InitPayloadRead, ReceiverEnds, streamVars
  <2>2. ended' \in BOOLEAN
    BY <1>1, <1>8 DEF Connect, InitPayloadRead, ReceiverEnds, streamVars
  <2>3. /\ Keeps /\ position' = position
        /\ pc \in {"connect", "init", "payload"} /\ pc' \in {"connect", "init", "payload"}
    BY <1>8, <2>1, <2>2 DEF Connect, InitPayloadRead, ReceiverEnds, Keeps, streamVars, historyVars
  <2> QED
    BY <2>3, SameReceiverIInv
<1>9. CASE RecvPiece
  <2>1. received' \in 0..InitSize
    BY <1>1, <1>9 DEF RecvPiece, Remaining
  <2>2. /\ Keeps /\ position' = position
        /\ pc \in {"connect", "init", "payload"} /\ pc' \in {"connect", "init", "payload"}
    BY <1>1, <1>9, <2>1 DEF RecvPiece, Keeps, historyVars
  <2> QED
    BY <2>2, SameReceiverIInv
<1>10. CASE SendAll
  BY <1>10, SendAllIInv
<1>11. CASE UNCHANGED vars
  BY <1>11 DEF vars, settings, callVars, streamVars, historyVars, IInv, TypeOK, InLoop,
     LoopGoesThroughList, TriedFirst, ListIsAnswer, ServedOnReturn, PayloadIsEmpty
<1>12. CASE RecvNothing
  BY <1>11, <1>12 DEF RecvNothing
<1> QED
  BY <1>2, <1>3, <1>4, <1>5, <1>6, <1>7, <1>8, <1>9, <1>10, <1>11, <1>12
     DEF Next, Thread, SendToReceiver

\* Every reachable state of _send satisfies the inductive invariant.
THEOREM InductiveInvariant == Spec => []IInv
BY InitIInv, NextIInv, PTL DEF Spec

\* The variables keep their types, and the loop never leaves its list while it is with a
\* receiver.
THEOREM TypeCorrect == Spec => []TypeOK
BY InductiveInvariant, PTL DEF IInv

-----------------------------------------------------------------------------
(* What the callers of _send rest on.                                      *)

\* Before a check is refused every receiver was tried as often as it is listed, for any
\* answers of getaddrinfo, and no call gives a check to two receivers.
THEOREM EveryReceiverIsTried == Spec => []AllTried
<1>1. ASSUME IInv, pc = "attempt", position > Len(addresses), NEW r \in Receivers
      PROVE  Count(r, tried) = Count(r, resolved)
  <2>1. /\ Len(addresses) \in Nat /\ position - 1 = Len(addresses)
        /\ Len(tried) = Len(addresses)
        /\ \A i \in 1..Len(addresses) : tried[i] = addresses[i]
    BY <1>1 DEF IInv, TypeOK, LoopGoesThroughList, TriedFirst
  <2>2. {i \in 1..Len(tried) : tried[i] = r} = {i \in 1..Len(addresses) : addresses[i] = r}
    BY <2>1
  <2>3. Count(r, addresses) = Count(r, resolved)
    BY <1>1 DEF IInv, ListIsAnswer, InLoop
  <2> QED
    BY <2>2, <2>3 DEF Count
<1>2. ASSUME IInv PROVE Cardinality(served) <= 1
  <2>1. CASE served = {}
    BY <2>1, FS_EmptySet
  <2>2. CASE \E r \in Receivers : served = {r}
    BY <2>2, FS_Singleton
  <2> QED
    BY <1>2, <2>1, <2>2 DEF IInv, ServedOnReturn
<1>3. IInv => AllTried
  BY <1>1, <1>2 DEF AllTried
<1> QED
  BY <1>3, InductiveInvariant, PTL

\* _send returns only when a receiver was sent the check, but for encryption 1 with its
\* empty default key.
THEOREM SendDelivers == Spec => ImplementsDelivery
<1> DEFINE call == IF Sending THEN "sending" ELSE pc
           given == served # {} \/ (pc = "returned" /\ PayloadIsEmpty)
<1>1. Init => D!Init
  BY DEF Init, D!Init, Sending
<1>2. IInv /\ [Next]_vars => [D!Next]_(D!deliveryVars)
  <2> SUFFICES ASSUME IInv, [Next]_vars
               PROVE  D!Next \/ UNCHANGED D!deliveryVars
    OBVIOUS
  <2>1. pc # "returned" => ~ given
    BY DEF IInv, ServedOnReturn
  <2>2. IInv'
    BY NextIInv
  <2>3. /\ pc' # "returned" => ~ given'
        /\ pc' = "returned" => given'
    BY <2>2 DEF IInv, ServedOnReturn
  <2>4. CASE Send
    <3>1. call # "sending" /\ call' = "sending" /\ ~ given'
      BY <2>3, <2>4 DEF Send, Sending, IInv, TypeOK, Steps
    <3> QED
      BY <3>1 DEF D!Next, D!Begin
  <2>5. CASE SendAll
    <3>1. call = "sending" /\ call' = "returned" /\ given'
      BY <2>3, <2>5 DEF SendAll, Sending
    <3> QED
      BY <3>1 DEF D!Next, D!Return
  <2>6. CASE ResolveRaises \/ NoReceiverLeft \/ PayloadRaises
    <3>1. call = "sending" /\ call' = "raised" /\ ~ given /\ ~ given'
      BY <2>1, <2>3, <2>6 DEF ResolveRaises, NoReceiverLeft, AfterLast, PayloadRaises, Sending
    <3> QED
      BY <3>1 DEF D!Next, D!Raise
  <2>7. CASE \/ Resolve \/ StartAttempt \/ Connect \/ ConnectRaises \/ RecvPiece
             \/ RecvRaises \/ InitPayloadRead \/ SendAllRaises \/ ReceiverEnds
    <3>1. call = "sending" /\ call' = "sending" /\ ~ given /\ ~ given'
      BY <2>1, <2>3, <2>7 DEF Resolve, StartAttempt, Connect, ConnectRaises, RecvPiece,
         RecvRaises, InitPayloadRead, SendAllRaises, ReceiverEnds, Fail, Sending
    <3> QED
      BY <3>1 DEF D!deliveryVars
  <2>8. CASE UNCHANGED vars
    <3>1. call' = call /\ given' = given
      BY <2>8 DEF vars, settings, historyVars, PayloadIsEmpty, Sending
    <3> QED
      BY <3>1 DEF D!deliveryVars
  <2>9. CASE RecvNothing
    BY <2>8, <2>9 DEF RecvNothing
  <2> QED
    BY <2>4, <2>5, <2>6, <2>7, <2>8, <2>9 DEF Next, Thread, SendToReceiver
<1> QED
  BY <1>1, <1>2, InductiveInvariant, PTL DEF Spec, ImplementsDelivery, D!Spec
===============================================================================
