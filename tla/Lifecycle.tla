------------------------------- MODULE Lifecycle -------------------------------
(***************************************************************************)
(* sauna/__init__.py: launch() starts one thread per consumer and then the *)
(* producer, and the program is torn down by term_handler, which is called *)
(* by the main thread itself and by the signals SIGTERM and SIGINT.        *)
(*                                                                         *)
(* Python runs a signal handler on the main thread, between two bytecodes  *)
(* of whatever that thread executes, a handler included: the calls of      *)
(* term_handler under way form a stack, of which only the top moves.       *)
(* What the threads do with checks is left to the other modules.           *)
(***************************************************************************)
EXTENDS Integers, Sequences

CONSTANTS
  ConsumerCount,  \* number of consumers in the configuration
  MaxSignals      \* bound on the signals the process receives

ASSUME ConsumerCountAssumption == ConsumerCount \in Nat
ASSUME MaxSignalsAssumption == MaxSignals \in Nat

VARIABLES
  kind,       \* kind of each consumer: "queued" (BatchQueuedConsumer) or "async"
  fate,       \* what launch() meets: "ok", "unknown" type or "missing" dependency
  main,       \* where the main thread is in launch()
  current,    \* the consumer launch() is at
  handlers,   \* the stack of calls of term_handler
  signals,    \* history: how many signals were received
  mustStop,   \* must_stop._flag
  eventLock,  \* the lock of must_stop is held by the main thread
  listed,     \* the consumers whose queue is in self._consumers_queues
  marks,      \* how many times the Event is in each consumer's queue
  consumer,   \* where each consumer thread is
  producer    \* where the producer thread is

configVars == <<kind, fate>>
mainVars == <<main, current>>
stopVars == <<handlers, signals, mustStop, eventLock, marks>>
vars == <<configVars, mainVars, stopVars, listed, consumer, producer>>

Consumer == 1..ConsumerCount

Kinds == {"queued", "async"}
Fates == {"ok", "unknown", "missing"}
HandlerSteps == {"test", "acquire", "flag", "release", "send"}

\* A call of term_handler that begins; next is the queue its loop puts in next.
NewHandler == [at |-> "test", next |-> 1]

Top == handlers[Len(handlers)]
SetTop(handler) == handlers' = [handlers EXCEPT ![Len(handlers)] = handler]
Return == handlers' = SubSeq(handlers, 1, Len(handlers) - 1)

\* The main thread executes launch() itself, not a handler.
InLaunch(step) == main = step /\ handlers = << >>

\* The process ends when the main thread has left launch() and every other thread,
\* none of which is a daemon, is over.
Terminated ==
  /\ main = "exited"
  /\ handlers = << >>
  /\ \A c \in Consumer : consumer[c] \in {"absent", "done"}
  /\ producer \in {"absent", "done"}

-----------------------------------------------------------------------------
Init ==
  /\ kind \in [Consumer -> Kinds]
  /\ fate \in [Consumer -> Fates]
  /\ main = "lookup"
  /\ current = 1
  /\ handlers = << >>
  /\ signals = 0
  /\ mustStop = FALSE
  /\ eventLock = FALSE
  /\ listed = {}
  /\ marks = [c \in Consumer |-> 0]
  /\ consumer = [c \in Consumer |-> "absent"]
  /\ producer = "absent"

(* launch()                                                                *)

\* The consumer's type is registered.
FindConsumer ==
  /\ InLaunch("lookup")
  /\ current <= ConsumerCount
  /\ fate[current] # "unknown"
  /\ main' = "construct"
  /\ UNCHANGED <<configVars, current, stopVars, listed, consumer, producer>>

\* It is not: "Plugin ... does not exist", and sys.exit(1) at once.
UnknownConsumer ==
  /\ InLaunch("lookup")
  /\ current <= ConsumerCount
  /\ fate[current] = "unknown"
  /\ main' = "exited"
  /\ UNCHANGED <<configVars, current, stopVars, listed, consumer, producer>>

\* The constructor raises DependencyError: term_handler is called before sys.exit(1).
MissingDependency ==
  /\ InLaunch("construct")
  /\ fate[current] = "missing"
  /\ handlers' = << NewHandler >>
  /\ main' = "exited"
  /\ UNCHANGED <<configVars, current, signals, mustStop, eventLock, marks, listed, consumer, producer>>

StepAfterMut(step) ==
  CASE step = "construct" -> "startConsumer"
    [] step = "startConsumer" -> "listQueue"
    [] step = "listQueue" -> "lookup"

\* The body of the loop over self.consumers: the queue of a consumer is listed before
\* its thread is started.
StepAfter(step) ==
  CASE step = "construct" -> "listQueue"
    [] step = "listQueue" -> "startConsumer"
    [] step = "startConsumer" -> "lookup"

NextStep ==
  /\ main' = StepAfter(main)
  /\ current' = IF main' = "lookup" THEN current + 1 ELSE current

Construct ==
  /\ InLaunch("construct")
  /\ fate[current] = "ok"
  /\ NextStep
  /\ UNCHANGED <<configVars, stopVars, listed, consumer, producer>>

ListQueue ==
  /\ InLaunch("listQueue")
  /\ listed' = IF kind[current] = "queued" THEN listed \cup {current} ELSE listed
  /\ NextStep
  /\ UNCHANGED <<configVars, stopVars, consumer, producer>>

StartConsumer ==
  /\ InLaunch("startConsumer")
  /\ consumer' = [consumer EXCEPT ![current] = "loop"]
  /\ NextStep
  /\ UNCHANGED <<configVars, stopVars, listed, producer>>

StartProducer ==
  /\ InLaunch("lookup")
  /\ current > ConsumerCount
  /\ producer' = "working"
  /\ main' = "joinProducer"
  /\ UNCHANGED <<configVars, current, stopVars, listed, consumer>>

HandlersAfterJoinMut == << >>

\* launch() calls term_handler itself when the producer is over.
HandlersAfterJoin == << NewHandler >>

\* producer.join() returns.
ProducerJoined ==
  /\ InLaunch("joinProducer")
  /\ producer = "done"
  /\ handlers' = HandlersAfterJoin
  /\ main' = "joinConsumers"
  /\ UNCHANGED <<configVars, current, signals, mustStop, eventLock, marks, listed, consumer, producer>>

\* All the threads of consumers_threads are joined and launch() returns.
ConsumersJoined ==
  /\ InLaunch("joinConsumers")
  /\ \A c \in Consumer : consumer[c] = "done"
  /\ main' = "exited"
  /\ UNCHANGED <<configVars, current, stopVars, listed, consumer, producer>>

(* term_handler(), on the main thread                                      *)

\* SIGTERM or SIGINT: the handler is called on top of what the main thread does, also
\* while it joins threads or waits for them at the end of the interpreter.
Signal ==
  /\ signals < MaxSignals
  /\ ~ Terminated
  /\ signals' = signals + 1
  /\ handlers' = Append(handlers, NewHandler)
  /\ UNCHANGED <<configVars, mainVars, mustStop, eventLock, marks, listed, consumer, producer>>

AtStep(step) == handlers # << >> /\ Top.at = step

\* must_stop.is_set(), which takes no lock.
TestFlag ==
  /\ AtStep("test")
  /\ IF mustStop THEN Return ELSE SetTop([Top EXCEPT !.at = "acquire"])
  /\ UNCHANGED <<configVars, mainVars, signals, mustStop, eventLock, marks, listed, consumer, producer>>

\* must_stop.set(): the lock of the Event is not reentrant.
AcquireEvent ==
  /\ AtStep("acquire")
  /\ ~ eventLock
  /\ eventLock' = TRUE
  /\ SetTop([Top EXCEPT !.at = "flag"])
  /\ UNCHANGED <<configVars, mainVars, signals, mustStop, marks, listed, consumer, producer>>

SetFlag ==
  /\ AtStep("flag")
  /\ mustStop' = TRUE
  /\ SetTop([Top EXCEPT !.at = "release"])
  /\ UNCHANGED <<configVars, mainVars, signals, eventLock, marks, listed, consumer, producer>>

ReleaseEvent ==
  /\ AtStep("release")
  /\ eventLock' = FALSE
  /\ SetTop([Top EXCEPT !.at = "send"])
  /\ UNCHANGED <<configVars, mainVars, signals, mustStop, marks, listed, consumer, producer>>

\* The loop over self._consumers_queues is over.
SentToAll == Top.next > ConsumerCount

\* send_data_to_consumers puts the Event in every listed queue, one after the other.
PutEvent ==
  /\ AtStep("send")
  /\ ~ SentToAll
  /\ marks' = [c \in Consumer |-> IF c \in listed /\ c = Top.next THEN marks[c] + 1 ELSE marks[c]]
  /\ SetTop([Top EXCEPT !.next = @ + 1])
  /\ UNCHANGED <<configVars, mainVars, signals, mustStop, eventLock, listed, consumer, producer>>

HandlerReturns ==
  /\ AtStep("send")
  /\ SentToAll
  /\ Return
  /\ UNCHANGED <<configVars, mainVars, signals, mustStop, eventLock, marks, listed, consumer, producer>>

(* The other threads                                                       *)

ConsumerMoves(c, from, to) ==
  /\ consumer[c] = from
  /\ consumer' = [consumer EXCEPT ![c] = to]
  /\ UNCHANGED <<configVars, mainVars, handlers, signals, mustStop, eventLock, listed, producer>>

\* while not must_stop.is_set(): every kind of consumer tests the flag in its loop.
ConsumerStops(c) ==
  /\ mustStop
  /\ ConsumerMoves(c, "loop", "done")
  /\ UNCHANGED marks

MayBlockMut == TRUE

\* The thread tested must_stop and goes on to queue.get, which has no timeout.
MayBlock == ~ mustStop

ConsumerBlocks(c) ==
  /\ MayBlock
  /\ kind[c] = "queued"
  /\ ConsumerMoves(c, "loop", "blocked")
  /\ UNCHANGED marks

\* queue.get returns the Event, or a check, or an attempt to send is over.
ConsumerGetsEvent(c) ==
  /\ marks[c] > 0
  /\ ConsumerMoves(c, "blocked", "loop")
  /\ marks' = [marks EXCEPT ![c] = @ - 1]

ConsumerGetsCheck(c) ==
  /\ producer # "absent"
  /\ ConsumerMoves(c, "blocked", "loop")
  /\ UNCHANGED marks

\* The server of an asynchronous consumer raises, or cannot bind its port.
ServerFails(c) ==
  /\ kind[c] = "async"
  /\ ConsumerMoves(c, "loop", "done")
  /\ UNCHANGED marks

ProducerMoves(from, to) ==
  /\ producer = from
  /\ producer' = to
  /\ UNCHANGED <<configVars, mainVars, stopVars, listed, consumer>>

\* The jobs of a tick are done; must_stop.wait takes the lock of the Event.
ProducerWaits == ~ eventLock /\ ProducerMoves("working", "waiting")

ProducerWakes == ~ eventLock /\ ~ mustStop /\ ProducerMoves("waiting", "working")

ProducerStops == ~ eventLock /\ mustStop /\ ProducerMoves("waiting", "done")

\* get_all_active_checks calls sys.exit, or Scheduler gets no periodicity at all: the
\* exception ends the thread and nothing else.
ProducerFails == ProducerMoves("working", "done")

-----------------------------------------------------------------------------
Launch ==
  \/ FindConsumer \/ UnknownConsumer \/ MissingDependency \/ Construct
  \/ ListQueue \/ StartConsumer \/ StartProducer \/ ProducerJoined \/ ConsumersJoined

TermHandler ==
  TestFlag \/ AcquireEvent \/ SetFlag \/ ReleaseEvent \/ PutEvent \/ HandlerReturns

RunConsumer(c) ==
  \/ ConsumerStops(c) \/ ConsumerBlocks(c) \/ ConsumerGetsEvent(c)
  \/ ConsumerGetsCheck(c) \/ ServerFails(c)

RunProducer == ProducerWaits \/ ProducerWakes \/ ProducerStops \/ ProducerFails

Next ==
  \/ Launch
  \/ Signal
  \/ TermHandler
  \/ \E c \in Consumer : RunConsumer(c)
  \/ RunProducer

Spec == Init /\ [][Next]_vars

\* Every thread that can run does; a consumer is woken up by the Event, but no check
\* need ever arrive, no server need fail, and no signal need come.
Fairness ==
  /\ WF_vars(Launch)
  /\ WF_vars(TermHandler)
  /\ \A c \in Consumer : WF_vars(ConsumerStops(c) \/ ConsumerBlocks(c) \/ ConsumerGetsEvent(c))
  /\ WF_vars(ProducerWaits \/ ProducerWakes \/ ProducerStops)

FairSpec == Spec /\ Fairness

-----------------------------------------------------------------------------
\* The types of the variables; a call of term_handler stops with the last queue.
TypeOK ==
  /\ kind \in [Consumer -> Kinds]
  /\ fate \in [Consumer -> Fates]
  /\ main \in {"lookup", "construct", "listQueue", "startConsumer",
               "joinProducer", "joinConsumers", "exited"}
  /\ current \in 1..(ConsumerCount + 1)
  /\ main \in {"construct", "listQueue", "startConsumer"} => current <= ConsumerCount
  /\ handlers \in Seq([at : HandlerSteps, next : 1..(ConsumerCount + 1)])
  /\ signals \in 0..MaxSignals
  /\ mustStop \in BOOLEAN
  /\ eventLock \in BOOLEAN
  /\ listed \in SUBSET Consumer
  /\ marks \in [Consumer -> Nat]
  /\ consumer \in [Consumer -> {"absent", "loop", "blocked", "done"}]
  /\ producer \in {"absent", "working", "waiting", "done"}

\* No consumer is left asleep: when the program stops and no handler is under way,
\* whatever is blocked on its queue has the Event there to wake it up.
NobodyLeftBlocked ==
  mustStop /\ handlers = << >> => \A c \in Consumer : consumer[c] = "blocked" => marks[c] > 0

\* A thread that may block on its queue has its queue listed already.
StartedWhenListed ==
  /\ \A c \in Consumer : c >= current => consumer[c] = "absent"
  /\ \A c \in Consumer :
       /\ kind[c] = "queued"
       /\ consumer[c] # "absent" \/ (main = "startConsumer" /\ c = current)
       => c \in listed
  /\ \A c \in Consumer : consumer[c] = "blocked" => kind[c] = "queued"

\* A call of term_handler that has set must_stop and still has the queue of c to visit.
WillVisit(h, c) ==
  \/ h.at = "release" /\ h.next = 1
  \/ h.at = "send" /\ h.next <= c

EventOnItsWay(c) == \E k \in 1..Len(handlers) : WillVisit(handlers[k], c)

\* The inductive strengthening of NobodyLeftBlocked: the Event is in the queue of a
\* blocked consumer or a call of term_handler will still put it there.
BlockedWillWake ==
  /\ mustStop => \A c \in Consumer : consumer[c] = "blocked" => marks[c] > 0 \/ EventOnItsWay(c)
  /\ \A k \in 1..Len(handlers) : handlers[k].at # "send" => handlers[k].next = 1

\* Once must_stop is set the process ends, whatever the launch met and however many
\* signals came.
StopTerminates == mustStop ~> Terminated

\* A handler waits for the lock of the Event, which a handler under it holds.
SelfDeadlock == AtStep("acquire") /\ eventLock

\* A signal stops the process wherever the main thread was, and so does the end of
\* the producer: only a signal in the middle of must_stop.set() can prevent it.
SignalTerminates ==
  [](~ SelfDeadlock) => (signals > 0 \/ producer = "done" ~> Terminated)

\* The docstring of term_handler: "Notify producer and consumer that they should
\* stop."  A signal always leads to must_stop.
SignalIsHeeded == signals > 0 ~> mustStop
===============================================================================
