--------------------------- MODULE HomeAssistantMQTT ---------------------------
(***************************************************************************)
(* sauna/consumers/ext/home_assistant_mqtt.py: the consumer announces each *)
(* check to Home Assistant with a discovery message, once, and then sends  *)
(* the states of the check.  A batch is published message by message, and  *)
(* may fail after any of them; try_send (see QueuedConsumer) then tries    *)
(* the same batch again or gives it up.                                    *)
(*                                                                         *)
(* All the checks of a process have the same host name, which is left out. *)
(***************************************************************************)
EXTENDS Naturals, Sequences, SequencesExt

CONSTANTS
  Letters,       \* the characters 0-9, a-z and A-Z
  Names,         \* the names of the checks, sequences of characters
  MaxBatchSize   \* max_batch_size

ASSUME BatchAssumption == Names # {} /\ MaxBatchSize \in Nat \ {0}

VARIABLES
  pc,          \* "idle", "building", "publishing" or "failed"
  batch,       \* names of the service_checks that _send_batch was called with
  built,       \* how many of them have their messages in msgs
  msgs,        \* the messages for the broker
  configured,  \* self._configured_checks
  pending,     \* pending_discovery_checks
  published,   \* how many of msgs the broker has got
  retained,    \* the sensors whose discovery message the broker keeps
  confirmed,   \* history: sensors announced by a call that returned
  stranded     \* history: sensors that a call which built no messages left configured

vars == <<pc, batch, built, msgs, configured, pending, published, retained, confirmed, stranded>>

\* One more character of the text: a run of characters that are not letters is
\* replaced by one underscore.
SafeChar(safe, char) ==
  IF char \in Letters THEN Append(safe, char)
  ELSE IF safe # << >> /\ Last(safe) = "_" THEN safe
  ELSE Append(safe, "_")

\* _to_safe_str.  It is all that tells unique_id and state_topic of a check from others.
ToSafeStr(text) == FoldLeft(SafeChar, << >>, text)

Discovery(id) == [kind |-> "discovery", id |-> id]
State(id) == [kind |-> "state", id |-> id]

Messages(id) == IF id \in configured THEN <<State(id)>> ELSE <<Discovery(id), State(id)>>

-----------------------------------------------------------------------------
Init ==
  /\ pc = "idle"
  /\ batch = << >>
  /\ built = 0
  /\ msgs = << >>
  /\ configured = {}
  /\ pending = {}
  /\ published = 0
  /\ retained = {}
  /\ confirmed = {}
  /\ stranded = {}

\* _send_batch is called, with the checks of the call that failed or with new ones.
SendBatch ==
  /\ pc \in {"idle", "failed"}
  /\ \/ pc = "failed" /\ batch' = batch
     \/ \E size \in 1..MaxBatchSize : batch' \in [1..size -> Names]
  /\ pc' = "building"
  /\ built' = 0
  /\ msgs' = << >>
  /\ pending' = {}
  /\ published' = 0
  /\ UNCHANGED <<configured, retained, confirmed, stranded>>

PendingAfterMut(id) == pending

\* The sensors to forget if the broker does not get the messages.
PendingAfter(id) == IF id \in configured THEN pending ELSE pending \cup {id}

\* One turn of the loop, with _get_check_discovery.
BuildMessages ==
  /\ pc = "building"
  /\ built < Len(batch)
  /\ LET id == ToSafeStr(batch[built + 1]) IN
       /\ msgs' = msgs \o Messages(id)
       /\ pending' = PendingAfter(id)
       /\ configured' = configured \cup {id}
  /\ built' = built + 1
  /\ UNCHANGED <<pc, batch, published, retained, confirmed, stranded>>

\* The turn raises: for a host name that is no string, or once the sensor is configured for
\* an output that json.dumps does not take.  This is outside of the try, and what the call
\* has configured stays so.
BuildRaises ==
  /\ pc = "building"
  /\ built < Len(batch)
  /\ pc' = "failed"
  /\ \E ids \in {{}, {ToSafeStr(batch[built + 1])}} :
       /\ configured' = configured \cup ids
       /\ stranded' = stranded \cup pending \cup (ids \ configured)
  /\ UNCHANGED <<batch, built, msgs, pending, published, retained, confirmed>>

CallPublish ==
  /\ pc = "building"
  /\ built = Len(batch)
  /\ pc' = "publishing"
  /\ UNCHANGED <<batch, built, msgs, configured, pending, published, retained, confirmed, stranded>>

(* mqtt_publish.multiple: the messages leave one by one, each once the one *)
(* before is done.                                                         *)

PublishNext ==
  /\ pc = "publishing"
  /\ published < Len(msgs)
  /\ published' = published + 1
  /\ LET m == msgs[published + 1] IN
       retained' = IF m.kind = "discovery" THEN retained \cup {m.id} ELSE retained
  /\ UNCHANGED <<pc, batch, built, msgs, configured, pending, confirmed, stranded>>

PublishReturns ==
  /\ pc = "publishing"
  /\ published = Len(msgs)
  /\ pc' = "idle"
  /\ confirmed' = confirmed \cup pending
  /\ UNCHANGED <<batch, built, msgs, configured, pending, published, retained, stranded>>

ConfiguredAfterFailureMut == {}

\* self._configured_checks.difference_update(pending_discovery_checks)
ConfiguredAfterFailure == configured \ pending

\* The connection fails before the first message, between two of them or while the
\* client waits for the broker to acknowledge the last one.
PublishRaises ==
  /\ pc = "publishing"
  /\ pc' = "failed"
  /\ configured' = ConfiguredAfterFailure
  /\ UNCHANGED <<batch, built, msgs, pending, published, retained, confirmed, stranded>>

Next ==
  \/ SendBatch \/ BuildMessages \/ BuildRaises \/ CallPublish
  \/ PublishNext \/ PublishReturns \/ PublishRaises

Spec == Init /\ [][Next]_vars

-----------------------------------------------------------------------------
Ids == {ToSafeStr(n) : n \in Names}
Message == [kind : {"discovery", "state"}, id : Ids]

\* The types of the variables.
TypeOK ==
  /\ pc \in {"idle", "building", "publishing", "failed"}
  /\ batch \in Seq(Names)
  /\ built \in 0..Len(batch)
  /\ msgs \in Seq(Message)
  /\ configured \in SUBSET Ids
  /\ pending \in SUBSET Ids
  /\ published \in 0..Len(msgs)
  /\ retained \in SUBSET Ids
  /\ confirmed \in SUBSET Ids
  /\ stranded \in SUBSET Ids

\* Home Assistant knows a sensor before it gets a state of it, wherever the broker failed:
\* no state is published on a topic that nobody was told about.  The exception is a sensor
\* configured by a call that raised before it had its messages, which is never announced.
SensorBeforeState ==
  \A i \in 1..published : msgs[i].id \in retained \cup stranded

\* A sensor is announced once, but for the calls that failed: those of an earlier batch
\* must not make the consumer forget what it announced before.
AnnouncedOnce ==
  pc = "publishing" => \A i \in 1..Len(msgs) : msgs[i].kind = "discovery" => msgs[i].id \notin confirmed
===============================================================================
