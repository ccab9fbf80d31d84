------------------------ MODULE HomeAssistantMQTTProofs ------------------------
(***************************************************************************)
(* Whatever calls fail and wherever, Home Assistant knows every sensor     *)
(* before it gets a state of it, but for those of a call that could not    *)
(* build its messages, and is told of each sensor once.                    *)
(***************************************************************************)
EXTENDS HomeAssistantMQTT, TLAPS

Busy == pc \in {"building", "publishing"}

IsDiscovery(i, id) == msgs[i].kind = "discovery" /\ msgs[i].id = id

\* What the consumer believes announced was, or is about to be in this call, or never is.
ConfiguredIsAnnounced ==
  /\ Busy => configured \subseteq retained \cup stranded \cup pending
  /\ ~ Busy => configured \subseteq retained \cup stranded

\* What a call announces is configured until it fails.
PendingIsConfigured == Busy => pending \subseteq configured

\* The discovery messages of a call are those of the pending sensors.
PendingIsInMessages ==
  Busy => /\ \A id \in pending : \E i \in 1..Len(msgs) : IsDiscovery(i, id)
          /\ \A i \in 1..Len(msgs) : msgs[i].kind = "discovery" => msgs[i].id \in pending

\* A message about a sensor the broker does not know comes with its discovery message,
\* or after it.
DiscoveryFirst ==
  Busy => \A i \in 1..Len(msgs) :
            msgs[i].id \in retained \cup stranded \/ \E j \in 1..i : IsDiscovery(j, msgs[i].id)

\* What the broker was sent of the call.
PublishedIsRetained ==
  /\ pc = "building" => published = 0
  /\ \A i \in 1..published : msgs[i].id \in retained \cup stranded

\* What was announced is not forgotten.
ConfirmedIsConfigured ==
  /\ confirmed \subseteq configured
  /\ Busy => confirmed \cap pending = {}

\* The inductive invariant.
IInv ==
  /\ TypeOK
  /\ ConfiguredIsAnnounced
  /\ PendingIsConfigured
  /\ PendingIsInMessages
  /\ DiscoveryFirst
  /\ PublishedIsRetained
  /\ ConfirmedIsConfigured

-----------------------------------------------------------------------------
\* The initial state.
LEMMA InitIInv == Init => IInv
<1> SUFFICES ASSUME Init PROVE IInv
  OBVIOUS
<1>1. TypeOK
  BY DEF Init, TypeOK
<1> QED
  BY <1>1 DEF Init, IInv, Busy, ConfiguredIsAnnounced, PendingIsConfigured, PendingIsInMessages,
    DiscoveryFirst, PublishedIsRetained, ConfirmedIsConfigured

\* A call starts.
LEMMA SendBatchStep == IInv /\ SendBatch => IInv'
<1> SUFFICES ASSUME IInv, SendBatch PROVE IInv'
  OBVIOUS
<1>1. /\ pc' = "building" /\ built' = 0 /\ msgs' = << >> /\ pending' = {} /\ published' = 0
      /\ ~ Busy /\ UNCHANGED <<configured, retained, confirmed, stranded>>
  BY DEF SendBatch, Busy
<1>2. batch' \in Seq(Names)
  <2>1. CASE batch' = batch
    BY <2>1 DEF IInv, TypeOK
  <2>2. ASSUME NEW size \in 1..MaxBatchSize, batch' \in [1..size -> Names] PROVE batch' \in Seq(Names)
    BY <2>2, BatchAssumption
  <2> QED
    BY <2>1, <2>2 DEF SendBatch
<1>3. TypeOK'
  BY <1>1, <1>2 DEF IInv, TypeOK
<1> QED
  BY <1>1, <1>3 DEF IInv, Busy, ConfiguredIsAnnounced, PendingIsConfigured, PendingIsInMessages,
    DiscoveryFirst, PublishedIsRetained, ConfirmedIsConfigured, IsDiscovery

\* What one turn of the loop adds to the messages.
LEMMA MessagesAdded ==
  ASSUME TypeOK, NEW id \in Ids
  PROVE  LET all == msgs \o Messages(id) IN
         /\ all \in Seq(Message)
         /\ \A i \in 1..Len(msgs) : i \in 1..Len(all) /\ all[i] = msgs[i]
         /\ \A i \in 1..Len(all) : i \notin 1..Len(msgs) => all[i].id = id
         /\ id \in configured =>
              \A i \in 1..Len(all) : i \notin 1..Len(msgs) => all[i].kind = "state"
         /\ id \notin configured =>
              /\ Len(msgs) + 1 \in 1..Len(all)
              /\ all[Len(msgs) + 1] = Discovery(id)
              /\ \A i \in 1..Len(all) : i \notin 1..Len(msgs) => Len(msgs) + 1 \in 1..i
<1>1. msgs \in Seq(Message) /\ Discovery(id) \in Message /\ State(id) \in Message
  BY DEF TypeOK, Message, Discovery, State
<1>2. Discovery(id).id = id /\ State(id).id = id /\ State(id).kind = "state"
  BY DEF Discovery, State
<1> HIDE DEF Message
<1>3. CASE id \in configured
  <2> DEFINE all == msgs \o <<State(id)>>
  <2>1. /\ all \in Seq(Message) /\ Len(all) = Len(msgs) + 1 /\ Len(msgs) \in Nat
        /\ \A i \in 1..Len(msgs) : all[i] = msgs[i]
        /\ all[Len(msgs) + 1] = State(id)
    BY <1>1
  <2>2. \A i \in 1..Len(all) : i \notin 1..Len(msgs) => i = Len(msgs) + 1
    BY <2>1
  <2>3. msgs \o Messages(id) = all
    BY <1>3 DEF Messages
  <2> QED
    BY <1>2, <1>3, <2>1, <2>2, <2>3
<1>4. CASE id \notin configured
  <2> DEFINE all == msgs \o <<Discovery(id), State(id)>>
  <2>1. /\ all \in Seq(Message) /\ Len(all) = Len(msgs) + 2 /\ Len(msgs) \in Nat
        /\ \A i \in 1..Len(msgs) : all[i] = msgs[i]
        /\ all[Len(msgs) + 1] = Discovery(id)
        /\ all[Len(msgs) + 2] = State(id)
    BY <1>1
  <2>2. \A i \in 1..Len(all) : i \notin 1..Len(msgs) => i = Len(msgs) + 1 \/ i = Len(msgs) + 2
    BY <2>1
  <2>3. msgs \o Messages(id) = all
    BY <1>4 DEF Messages
  <2> QED
    BY <1>2, <1>4, <2>1, <2>2, <2>3
<1> QED
  BY <1>3, <1>4

\* One check more in the messages of the call.
LEMMA BuildMessagesStep == IInv /\ BuildMessages => IInv'
<1> SUFFICES ASSUME IInv, BuildMessages PROVE IInv'
  OBVIOUS
<1> DEFINE name == batch[built + 1]
           id == ToSafeStr(name)
           all == msgs \o Messages(id)
<1>1. /\ pc = "building" /\ built < Len(batch) /\ built' = built + 1
      /\ msgs' = all /\ pending' = PendingAfter(id) /\ configured' = configured \cup {id}
      /\ UNCHANGED <<pc, batch, published, retained, confirmed, stranded>>
  BY DEF BuildMessages
<1>2. /\ TypeOK /\ ConfiguredIsAnnounced /\ PendingIsConfigured /\ PendingIsInMessages
      /\ DiscoveryFirst
      /\ PublishedIsRetained /\ ConfirmedIsConfigured /\ Busy /\ Busy'
  BY <1>1 DEF IInv, Busy
<1>3. id \in Ids
  <2>1. built + 1 \in 1..Len(batch) /\ batch \in Seq(Names)
    BY <1>1, <1>2 DEF TypeOK
  <2>2. name \in Names
    BY <2>1
  <2> QED
    BY <2>2 DEF Ids
<1> HIDE DEF id
<1>4. /\ all \in Seq(Message)
      /\ \A i \in 1..Len(msgs) : i \in 1..Len(all) /\ all[i] = msgs[i]
      /\ \A i \in 1..Len(all) : i \notin 1..Len(msgs) => all[i].id = id
      /\ id \in configured =>
           \A i \in 1..Len(all) : i \notin 1..Len(msgs) => all[i].kind = "state"
      /\ id \notin configured =>
           /\ Len(msgs) + 1 \in 1..Len(all)
           /\ all[Len(msgs) + 1] = Discovery(id)
           /\ \A i \in 1..Len(all) : i \notin 1..Len(msgs) => Len(msgs) + 1 \in 1..i
  BY <1>2, <1>3, MessagesAdded
<1> HIDE DEF all
<1>5. Discovery(id).kind = "discovery" /\ Discovery(id).id = id
  BY DEF Discovery
<1>6. published = 0
  BY <1>1, <1>2 DEF PublishedIsRetained
<1>7. TypeOK'
  BY <1>1, <1>2, <1>3, <1>4, <1>6 DEF TypeOK, PendingAfter
<1>8. ConfiguredIsAnnounced' /\ PendingIsConfigured'
  BY <1>1, <1>2 DEF ConfiguredIsAnnounced, PendingIsConfigured, PendingAfter
<1>9. PendingIsInMessages'
  <2>1. ASSUME NEW p \in pending' PROVE \E i \in 1..Len(msgs') : IsDiscovery(i, p)'
    <3>1. CASE p \in pending
      BY <1>1, <1>2, <1>4, <3>1 DEF PendingIsInMessages, IsDiscovery
    <3>2. CASE p \notin pending
      <4>1. p = id /\ id \notin configured
        BY <1>1, <2>1, <3>2 DEF PendingAfter
      <4> QED
        BY <1>1, <1>4, <1>5, <4>1 DEF IsDiscovery
    <3> QED
      BY <3>1, <3>2
  <2>2. ASSUME NEW i \in 1..Len(msgs'), msgs'[i].kind = "discovery"
        PROVE  msgs'[i].id \in pending'
    <3>1. CASE i \in 1..Len(msgs)
      BY <1>1, <1>2, <1>4, <2>2, <3>1 DEF PendingIsInMessages, PendingAfter
    <3>2. CASE i \notin 1..Len(msgs)
      BY <1>1, <1>4, <2>2, <3>2 DEF PendingAfter
    <3> QED
      BY <3>1, <3>2
  <2> QED
    BY <2>1, <2>2 DEF PendingIsInMessages
<1>10. DiscoveryFirst'
  <2> SUFFICES ASSUME NEW i \in 1..Len(msgs')
               PROVE  \/ msgs'[i].id \in retained \cup stranded
                      \/ \E j \in 1..i : msgs'[j].kind = "discovery" /\ msgs'[j].id = msgs'[i].id
    BY <1>1 DEF DiscoveryFirst, IsDiscovery
  <2>1. CASE i \in 1..Len(msgs)
    <3>1. 1..i \subseteq 1..Len(msgs)
      BY <2>1
    <3> QED
      BY <1>1, <1>2, <1>4, <2>1, <3>1 DEF DiscoveryFirst, IsDiscovery
  <2>2. CASE i \notin 1..Len(msgs) /\ id \in configured
    <3>1. CASE id \in retained \cup stranded
      BY <1>1, <1>4, <2>2, <3>1
    <3>2. CASE id \notin retained \cup stranded
      <4>1. PICK j \in 1..Len(msgs) : IsDiscovery(j, id)
        BY <1>2, <2>2, <3>2 DEF ConfiguredIsAnnounced, PendingIsInMessages
      <4>2. Len(msgs) \in Nat /\ i \in Nat
        BY <1>2 DEF TypeOK
      <4>3. j \in 1..i
        BY <2>2, <4>2
      <4> QED
        BY <1>1, <1>4, <2>2, <4>1, <4>3 DEF IsDiscovery
    <3> QED
      BY <3>1, <3>2
  <2>3. CASE i \notin 1..Len(msgs) /\ id \notin configured
    BY <1>1, <1>4, <1>5, <2>3
  <2> QED
    BY <2>1, <2>2, <2>3
<1>11. PublishedIsRetained'
  BY <1>1, <1>6 DEF PublishedIsRetained
<1>12. ConfirmedIsConfigured'
  BY <1>1, <1>2 DEF ConfirmedIsConfigured, PendingAfter
<1> QED
  BY <1>7, <1>8, <1>9, <1>10, <1>11, <1>12 DEF IInv

\* The messages cannot be built.
LEMMA BuildRaisesStep == IInv /\ BuildRaises => IInv'
<1> SUFFICES ASSUME IInv, BuildRaises PROVE IInv'
  OBVIOUS
<1> DEFINE id == ToSafeStr(batch[built + 1])
<1>1. PICK ids \in {{}, {id}} : /\ configured' = configured \cup ids
                               /\ stranded' = stranded \cup pending \cup (ids \ configured)
  BY DEF BuildRaises
<1>2. /\ pc = "building" /\ pc' = "failed" /\ built < Len(batch) /\ Busy /\ ~ Busy'
      /\ UNCHANGED <<batch, built, msgs, pending, published, retained, confirmed>>
  BY DEF BuildRaises, Busy
<1>3. /\ TypeOK /\ ConfiguredIsAnnounced /\ PublishedIsRetained /\ ConfirmedIsConfigured
      /\ published = 0
  BY <1>2 DEF IInv, PublishedIsRetained
<1>4. id \in Ids
  <2>1. built + 1 \in 1..Len(batch) /\ batch \in Seq(Names)
    BY <1>2, <1>3 DEF TypeOK
  <2>2. batch[built + 1] \in Names
    BY <2>1
  <2> QED
    BY <2>2 DEF Ids
<1> HIDE DEF id
<1>5. TypeOK'
  BY <1>1, <1>2, <1>3, <1>4 DEF TypeOK
<1>6. ConfiguredIsAnnounced'
  BY <1>1, <1>2, <1>3 DEF ConfiguredIsAnnounced
<1>7. PublishedIsRetained' /\ ConfirmedIsConfigured'
  BY <1>1, <1>2, <1>3 DEF PublishedIsRetained, ConfirmedIsConfigured
<1> QED
  BY <1>2, <1>5, <1>6, <1>7 DEF IInv, PendingIsConfigured, PendingIsInMessages, DiscoveryFirst

\* The broker gets one message.
LEMMA PublishNextStep == IInv /\ PublishNext => IInv'
<1> SUFFICES ASSUME IInv, PublishNext PROVE IInv'
  OBVIOUS
<1> DEFINE m == msgs[published + 1]
<1>1. /\ pc = "publishing" /\ published < Len(msgs) /\ published' = published + 1
      /\ retained' = IF m.kind = "discovery" THEN retained \cup {m.id} ELSE retained
      /\ UNCHANGED <<pc, batch, built, msgs, configured, pending, confirmed, stranded>>
  BY DEF PublishNext
<1>2. /\ TypeOK /\ ConfiguredIsAnnounced /\ PendingIsConfigured /\ PendingIsInMessages
      /\ DiscoveryFirst
      /\ PublishedIsRetained /\ ConfirmedIsConfigured /\ Busy /\ Busy'
  BY <1>1 DEF IInv, Busy
<1>3. /\ published \in Nat /\ published + 1 \in 1..Len(msgs) /\ msgs \in Seq(Message)
      /\ 1..(published + 1) = 1..published \cup {published + 1}
  BY <1>1, <1>2 DEF TypeOK
<1>4. m \in Message
  BY <1>3
<1>5. retained \subseteq retained' /\ retained' \in SUBSET Ids
  BY <1>1, <1>2, <1>4 DEF TypeOK, Message
<1>6. m.id \in retained' \cup stranded'
  <2>1. CASE m.kind = "discovery"
    BY <1>1, <2>1
  <2>2. CASE m.kind # "discovery" /\ m.id \notin retained \cup stranded
    <3>1. PICK j \in 1..(published + 1) : IsDiscovery(j, m.id)
      BY <1>2, <1>3, <2>2 DEF DiscoveryFirst
    <3>2. j \in 1..published
      BY <1>3, <2>2, <3>1 DEF IsDiscovery
    <3> QED
      BY <1>1, <1>2, <1>5, <3>1, <3>2 DEF PublishedIsRetained, IsDiscovery
  <2> QED
    BY <1>1, <1>5, <2>1, <2>2
<1>7. TypeOK'
  BY <1>1, <1>2, <1>3, <1>5 DEF TypeOK
<1>8. /\ ConfiguredIsAnnounced' /\ PendingIsConfigured' /\ PendingIsInMessages'
      /\ ConfirmedIsConfigured'
  BY <1>1, <1>2, <1>5 DEF ConfiguredIsAnnounced, PendingIsConfigured, PendingIsInMessages,
    ConfirmedIsConfigured, IsDiscovery
<1>9. DiscoveryFirst'
  BY <1>1, <1>2, <1>5 DEF DiscoveryFirst, IsDiscovery
<1>10. PublishedIsRetained'
  BY <1>1, <1>2, <1>3, <1>5, <1>6 DEF PublishedIsRetained
<1> QED
  BY <1>7, <1>8, <1>9, <1>10 DEF IInv

\* The call ends, one way or the other.
LEMMA CallEndsStep == IInv /\ (CallPublish \/ PublishReturns \/ PublishRaises) => IInv'
<1> SUFFICES ASSUME IInv, CallPublish \/ PublishReturns \/ PublishRaises PROVE IInv'
  OBVIOUS
<1>1. /\ TypeOK /\ ConfiguredIsAnnounced /\ PendingIsConfigured /\ PendingIsInMessages
      /\ DiscoveryFirst
      /\ PublishedIsRetained /\ ConfirmedIsConfigured
  BY DEF IInv
<1>2. CASE CallPublish
  BY <1>1, <1>2 DEF CallPublish, IInv, TypeOK, Busy, ConfiguredIsAnnounced, PendingIsConfigured, PendingIsInMessages,
    DiscoveryFirst, PublishedIsRetained, ConfirmedIsConfigured, IsDiscovery
<1>3. CASE PublishReturns
  <2>1. /\ pc = "publishing" /\ published = Len(msgs) /\ pc' = "idle"
        /\ confirmed' = confirmed \cup pending /\ Busy /\ ~ Busy'
        /\ UNCHANGED <<batch, built, msgs, configured, pending, published, retained, stranded>>
    BY <1>3 DEF PublishReturns, Busy
  <2>2. pending \subseteq retained \cup stranded
    BY <1>1, <2>1 DEF PendingIsInMessages, PublishedIsRetained, IsDiscovery
  <2>3. pending \subseteq configured
    BY <1>1, <2>1 DEF IInv, PendingIsConfigured
  <2>4. TypeOK'
    BY <1>1, <2>1 DEF TypeOK
  <2> QED
    BY <1>1, <2>1, <2>2, <2>3, <2>4 DEF IInv, ConfiguredIsAnnounced, PendingIsInMessages, DiscoveryFirst,
      PublishedIsRetained, ConfirmedIsConfigured, PendingIsConfigured
<1>4. CASE PublishRaises
  <2>1. /\ pc = "publishing" /\ pc' = "failed" /\ Busy /\ ~ Busy'
        /\ configured' = configured \ pending
        /\ UNCHANGED <<batch, built, msgs, pending, published, retained, confirmed, stranded>>
    BY <1>4 DEF PublishRaises, ConfiguredAfterFailure, Busy
  <2>2. TypeOK'
    BY <1>1, <2>1 DEF TypeOK
  <2> QED
    BY <1>1, <2>1, <2>2 DEF IInv, ConfiguredIsAnnounced, PendingIsInMessages, DiscoveryFirst,
      PublishedIsRetained, ConfirmedIsConfigured, PendingIsConfigured
<1> QED
  BY <1>2, <1>3, <1>4

\* Every step.
LEMMA StepIInv == IInv /\ [Next]_vars => IInv'
<1> SUFFICES ASSUME IInv, [Next]_vars PROVE IInv'
  OBVIOUS
<1>1. CASE UNCHANGED vars
  BY <1>1 DEF vars, IInv, TypeOK, Busy, ConfiguredIsAnnounced, PendingIsInMessages, PendingIsConfigured,
    DiscoveryFirst, PublishedIsRetained, ConfirmedIsConfigured, IsDiscovery
<1> QED
  BY <1>1, SendBatchStep, BuildMessagesStep, BuildRaisesStep, PublishNextStep, CallEndsStep DEF Next

\* The inductive invariant holds in every state.
LEMMA AlwaysIInv == Spec => []IInv
BY InitIInv, StepIInv, PTL DEF Spec

-----------------------------------------------------------------------------
\* The types of the variables, for any names, letters and size of the batches.
THEOREM TypeCorrect == Spec => []TypeOK
<1>1. IInv => TypeOK
  BY DEF IInv
<1> QED
  BY AlwaysIInv, <1>1, PTL

\* Home Assistant knows every sensor before it gets a state of it, whatever calls failed at
\* the broker.
THEOREM SensorsAreKnown == Spec => []SensorBeforeState
<1>1. IInv => SensorBeforeState
  BY DEF IInv, PublishedIsRetained, SensorBeforeState
<1> QED
  BY AlwaysIInv, <1>1, PTL

\* What a call that returned has announced is not announced again.
THEOREM AnnouncementsAreRemembered == Spec => []AnnouncedOnce
<1>1. IInv => AnnouncedOnce
  BY DEF IInv, PendingIsInMessages, ConfirmedIsConfigured, AnnouncedOnce, Busy
<1> QED
  BY AlwaysIInv, <1>1, PTL
===============================================================================
