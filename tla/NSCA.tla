---------------------------------- MODULE NSCA ----------------------------------
(***************************************************************************)
(* sauna/consumers/ext/nsca.py: _send offers a check to each address of    *)
(* the NSCA server until one of them takes it.  A receiver first sends an  *)
(* initialisation vector, which the consumer reads in pieces, and is then  *)
(* sent one payload; it answers nothing, so that "given" means no more     *)
(* than that sendall returned.                                             *)
(*                                                                         *)
(* The bytes of the payload are left out, but for the two settings that    *)
(* decide whether there is a payload at all.                               *)
(***************************************************************************)
EXTENDS Naturals, Sequences, SequencesExt, FiniteSets

CONSTANTS
  Receivers,     \* the addresses the name of the server may resolve to
  NoReceiver,    \* None, before any receiver took a check
  MaxAddresses,  \* bound on the addresses of one answer of getaddrinfo
  InitSize       \* init_payload_size, in pieces that recv may return

ASSUME ReceiversAssumption == NoReceiver \notin Receivers
ASSUME SizesAssumption == MaxAddresses \in Nat /\ InitSize \in Nat \ {0}

VARIABLES
  encryption,  \* config['encryption']: 0, 1, or a mode that is not supported
  keyGiven,    \* config['key'] is not the empty default
  lastGood,    \* self._last_good_receiver_address
  pc,          \* where the thread is in _send
  encodable,   \* the texts of the check can be encoded
  resolved,    \* history: the addresses getaddrinfo returned to this call
  addresses,   \* what _get_receivers_addresses made of them
  position,    \* the address the loop of _send is at
  received,    \* len(init_payload)
  ended,       \* the receiver ended its stream and all it sent was read
  tried,       \* history: the receivers this call connected to, or tried to
  served       \* history: the receivers that were sent the check of this call

settings == <<encryption, keyGiven>>
callVars == <<encodable, resolved, addresses>>
streamVars == <<received, ended>>
historyVars == <<tried, served>>
vars == <<settings, lastGood, pc, callVars, position, streamVars, historyVars>>

Unsupported == 2
Answers == SeqOf(Receivers, MaxAddresses)

Sending == pc \in {"resolve", "attempt", "connect", "init", "payload"}

Count(r, list) == Cardinality({i \in 1..Len(list) : list[i] = r})

-----------------------------------------------------------------------------
PriorityMut(answer) == IF Contains(answer, lastGood) THEN <<lastGood>> \o answer ELSE answer

\* _get_receivers_addresses: list.remove takes the first occurrence out.
Priority(answer) ==
  IF Contains(answer, lastGood) THEN <<lastGood>> \o RemoveFirst(answer, lastGood) ELSE answer

RemainingMut == InitSize - received - 1

\* What recv is asked for: init_payload_size - len(init_payload).
Remaining == InitSize - received

AfterLastMut == "returned"

\* raise IOError('No receiver accepted the check')
AfterLast == "raised"

\* encrypt_xor zips the payload with the cycle of an empty key: nothing is left.
PayloadIsEmpty == encryption = 1 /\ ~ keyGiven

\* An OSError is logged, and the loop goes on with the next address.
Fail ==
  /\ position' = position + 1
  /\ pc' = "attempt"

-----------------------------------------------------------------------------
Init ==
  /\ encryption \in {0, 1, Unsupported}
  /\ keyGiven \in BOOLEAN
  /\ lastGood = NoReceiver
  /\ pc = "idle"
  /\ encodable = TRUE
  /\ resolved = << >>
  /\ addresses = << >>
  /\ position = 1
  /\ received = 0
  /\ ended = FALSE
  /\ tried = << >>
  /\ served = {}

\* _send_batch calls _send for one more check, or for the same one again.
Send ==
  /\ ~ Sending
  /\ encodable' \in BOOLEAN
  /\ pc' = "resolve"
  /\ tried' = << >>
  /\ served' = {}
  /\ UNCHANGED <<settings, lastGood, resolved, addresses, position, streamVars>>

\* getaddrinfo may answer anything, from one call to the next.
Resolve ==
  /\ pc = "resolve"
  /\ \E answer \in Answers :
       /\ resolved' = answer
       /\ addresses' = Priority(answer)
  /\ position' = 1
  /\ pc' = "attempt"
  /\ UNCHANGED <<settings, lastGood, encodable, streamVars, historyVars>>

\* gaierror is an OSError, but getaddrinfo is called outside of the try.
ResolveRaises ==
  /\ pc = "resolve"
  /\ pc' = "raised"
  /\ UNCHANGED <<settings, lastGood, callVars, position, streamVars, historyVars>>

StartAttempt ==
  /\ pc = "attempt"
  /\ position <= Len(addresses)
  /\ tried' = Append(tried, addresses[position])
  /\ pc' = "connect"
  /\ UNCHANGED <<settings, lastGood, callVars, position, streamVars, served>>

NoReceiverLeft ==
  /\ pc = "attempt"
  /\ position > Len(addresses)
  /\ pc' = AfterLast
  /\ UNCHANGED <<settings, lastGood, callVars, position, streamVars, historyVars>>

Connect ==
  /\ pc = "connect"
  /\ received' = 0
  /\ ended' = FALSE
  /\ pc' = "init"
  /\ UNCHANGED <<settings, lastGood, callVars, position, historyVars>>

\* connect is refused or times out.
ConnectRaises ==
  /\ pc = "connect"
  /\ Fail
  /\ UNCHANGED <<settings, lastGood, callVars, streamVars, historyVars>>

\* recv returns some of the bytes it was asked for.
RecvPiece ==
  /\ pc = "init"
  /\ received < InitSize
  /\ ~ ended
  /\ \E n \in 1..Remaining : received' = received + n
  /\ UNCHANGED <<settings, lastGood, pc, callVars, position, ended, historyVars>>

\* At the end of the stream, or when it is asked for none, recv returns no byte, at once
\* and without raising, and the loop calls it again.
RecvNothing ==
  /\ pc = "init"
  /\ received < InitSize
  /\ ended \/ Remaining = 0
  /\ UNCHANGED vars

\* recv times out, or the connection is reset.
RecvRaises ==
  /\ pc = "init"
  /\ received < InitSize
  /\ ~ ended /\ Remaining > 0
  /\ Fail
  /\ UNCHANGED <<settings, lastGood, callVars, streamVars, historyVars>>

InitPayloadRead ==
  /\ pc = "init"
  /\ received = InitSize
  /\ pc' = "payload"
  /\ UNCHANGED <<settings, lastGood, callVars, position, streamVars, historyVars>>

\* A UnicodeEncodeError, or the ValueError of an unsupported mode, is no OSError: it
\* leaves _send, and the receivers that follow are not tried.
PayloadRaises ==
  /\ pc = "payload"
  /\ ~ encodable \/ encryption = Unsupported
  /\ pc' = "raised"
  /\ UNCHANGED <<settings, lastGood, callVars, position, streamVars, historyVars>>

\* sendall returns, and so does _send, even when it had nothing to send.
SendAll ==
  /\ pc = "payload"
  /\ encodable /\ encryption # Unsupported
  /\ served' = IF PayloadIsEmpty THEN served ELSE served \cup {addresses[position]}
  /\ lastGood' = addresses[position]
  /\ pc' = "returned"
  /\ UNCHANGED <<settings, callVars, position, streamVars, tried>>

\* sendall raises before all of the payload was taken.
SendAllRaises ==
  /\ pc = "payload"
  /\ encodable /\ encryption # Unsupported
  /\ Fail
  /\ UNCHANGED <<settings, lastGood, callVars, streamVars, historyVars>>

\* The receiver closes or shuts down its side before it sent the whole vector.
ReceiverEnds ==
  /\ pc = "init"
  /\ received < InitSize
  /\ ~ ended
  /\ ended' = TRUE
  /\ UNCHANGED <<settings, lastGood, pc, callVars, position, received, historyVars>>

-----------------------------------------------------------------------------
SendToReceiver ==
  \/ Connect \/ ConnectRaises
  \/ RecvPiece \/ RecvNothing \/ RecvRaises \/ InitPayloadRead
  \/ PayloadRaises \/ SendAll \/ SendAllRaises

Thread == Resolve \/ ResolveRaises \/ StartAttempt \/ NoReceiverLeft \/ SendToReceiver

Next == Send \/ Thread \/ ReceiverEnds

Spec == Init /\ [][Next]_vars

\* The thread runs, and the timeout of the socket ends a call that would wait; nothing
\* says that _send is ever called or that a receiver ends its stream.
FairSpec == Spec /\ WF_vars(Thread)

-----------------------------------------------------------------------------
Steps == {"idle", "resolve", "attempt", "connect", "init", "payload", "returned", "raised"}

\* The types of the variables, and the loop of _send inside its list.
TypeOK ==
  /\ encryption \in {0, 1, Unsupported}
  /\ keyGiven \in BOOLEAN
  /\ lastGood \in Receivers \cup {NoReceiver}
  /\ pc \in Steps
  /\ encodable \in BOOLEAN
  /\ resolved \in Seq(Receivers) /\ addresses \in Seq(Receivers)
  /\ position \in Nat \ {0}
  /\ received \in 0..InitSize
  /\ ended \in BOOLEAN
  /\ tried \in Seq(Receivers)
  /\ served \in SUBSET Receivers
  /\ pc \in {"connect", "init", "payload"} => position <= Len(addresses)

D == INSTANCE Delivery WITH
       call <- IF Sending THEN "sending" ELSE pc,
       given <- served # {} \/ (pc = "returned" /\ PayloadIsEmpty)

\* _send keeps the promise the retries of BatchQueuedConsumer rest on, whatever the
\* receivers do: it never returns without having sent the check to one of them, but
\* for encryption 1 with its default key, which sends nothing and says it did.
ImplementsDelivery == D!Spec

\* Every receiver the name resolves to gets its chance, exactly as often as it is listed,
\* before the check is refused for want of one; and no call gives it to two receivers.
AllTried ==
  /\ pc = "attempt" /\ position > Len(addresses) =>
       \A r \in Receivers : Count(r, tried) = Count(r, resolved)
  /\ Cardinality(served) <= 1

\* The thread reads the end of a stream over and over.
AtEndOfStream == pc = "init" /\ received < InitSize /\ ended

\* Refused connections, time-outs and receivers that send their vector piece by piece
\* all end: only the end of a stream can keep _send, and with it the consumer, for ever.
EverySendEnds == Sending ~> (~ Sending \/ AtEndOfStream)
===============================================================================
