# Sauna, specified

Sauna is a monitoring daemon: it runs checks (disk, load, a service that must
answer...) at regular intervals and reports their results to consumers. This
directory holds TLA+ modules of the program, from the command line to the consumers,
the TLC runs that check them on small instances, and proofs, checked by TLAPS, of
their safety properties for instances of any size. Paths below are relative to the
repository.

## 1. The system

### Parts and their state

| Part | Source | State | Operations |
|---|---|---|---|
| Command line and configuration | `sauna/main.py`, `commands/`, `sauna/__init__.py` 59-96, 162-266 | the merged dict, the registers | merge included files, list the active checks, refuse duplicates and what is missing, run a command |
| Scheduler | `sauna/scheduler.py` | `tick_duration`, `_ticks`, `_current_tick`, `_jobs` | the constructor sizes a cycle of ticks; `__next__` calls the jobs due at this tick |
| Producer | `sauna/__init__.py` `run_producer` | its place in the loop | one `__next__`, then `must_stop.wait(tick_duration)` |
| Check dispatch | `sauna/__init__.py` 273-322, 347-349 | `_current_checks` and its lock, the pool's work queue, `check_results` and its lock | submit or skip a check, run it, put its result in every queue, store it, release its name |
| Plugins | `sauna/plugins/` | an instance lives for one job and caches readings in its attributes or an `lru_cache` | a check reads, compares with thresholds and returns a status, or raises |
| Batched consumers | `sauna/consumers/base.py` 38-163 | a `queue.Queue`, `batch`, `batch_created_at`, `retry_count` | take a check, decide whether to send, try, wait, drop |
| NSCA consumer | `nsca.py` | `_last_good_receiver_address` | try the receivers one after the other |
| MQTT consumer | `home_assistant_mqtt.py` | `_configured_checks` | publish a batch with the discovery messages it needs |
| HTTP, Icinga, Stdout consumers | `http_icinga.py`, `stdout.py`... | none | one request, or one print, per check |
| TCP server | `tcp_server.py` | sockets, `read_wanted`, `write_wanted`, `write_buffers` | accept, receive, send the results |
| HTTP server | `http_server/`, `base.py` 165-208 | `__shutdown_request`, the request being handled | read `check_results` under its lock, reduce the statuses, answer |
| Launcher | `sauna/__init__.py` `launch`, `term_handler` | `must_stop`, `_consumers_queues`, the threads | start the threads, join them, notify them on a signal |

### How they interact

`main` reads the configuration and runs a command, or launches sauna: the main
thread starts a thread per consumer, then the producer, and joins it. The producer
asks the scheduler for the jobs of a tick; a job lists the active checks anew, with new
plugin instances, and runs every check of one periodicity, itself or through a pool of
`concurrency` threads. A result goes, without any common lock, to the queue of each
queued consumer and then to the dict `check_results`, which the two servers read.
`must_stop` is a `threading.Event`; `term_handler` sets it and puts the Event itself in
every queue, because a queued consumer with an empty batch waits on its queue without a
time-out. `term_handler` runs on the main thread: called by it, or as the handler of
SIGTERM and SIGINT, between any two bytecodes of what the main thread executes, another
call of `term_handler` included.

### What is hard, and what makes each part correct

The hazards are listed with their lines in `PROJECT.json`. In short:

* *Configuration*: files include files, in a glob, twice or in a cycle. Names are
  unique whatever their case, and no check that was asked for vanishes.
* *Scheduler*: the cycle wraps; nothing may fire early, late, twice or never
  because of it, for any mix of periodicities and any uptime.
* *Dispatch*: a check that is slower than its period is due again while it runs;
  it may raise; several workers publish at once. A check must never run twice at
  the same time, its results must reach every queue once and in order, and its
  name must be released whatever happens.
* *Plugins*: readings are cached and the pool runs the checks that share a cache at
  once. No result may be older than its job, and no fault may be hidden by another.
* *Batched consumers*: a remote service that fails half way through a batch,
  retries bounded by a count or only by the age of a check, a clock, a stop that
  arrives anywhere. No check may be lost or reordered silently, no batch held back
  or retried for ever, and the thread must end when told to. `_send` may only return
  when the check was delivered.
* *Servers*: lists of sockets that are out of date when they are used, answers in
  pieces, a page made of two readings of what workers are writing.
* *Launcher*: signals at any moment of the launch and of each other. Nobody may
  sleep through the end of the program.

Not in that list, because no property of this project could catch them: the wait between
two ticks starts when the jobs of the first are over, so that the wall-clock time between
two wakes is longer than `tick_duration` (`sauna/__init__.py:334`); without a pool
`must_stop` is tested only between ticks (280); the queues have no bound (377); and
`_configured_checks` does not notice a broker that lost its retained messages
(`home_assistant_mqtt.py:66`). Some are in that list without a property, because the code
has what a property would have to exclude: the race of two threads for a cached attribute
(`memcached.py:64`), a client that stops reading and holds `send()` (`tcp_server.py:106`), a
command that hangs (`command.py:20`), an `accept()` that fails (`tcp_server.py:34`).

## 2. The modules

Each module is about one component; the others appear in it only by what they do
to its state. An action is a step the code performs without another thread being
able to come in between, as far as the state that is modelled goes. The exception is
`StatusPage`, which is composed with `CheckDispatch`.

    MCStartup ---------- Startup
    MCScheduler -------- Scheduler ---- refines ---- PeriodicSchedule
    MCCheckDispatch ---- CheckDispatch
    MCStatusPage ------- StatusPage --- extends ---- CheckDispatch
    MCPluginChecks ----- PluginChecks
    MCQueuedConsumer --- QueuedConsumer, whose _send is Delivery
    MCNSCA ------------- NSCA --------- refines ---- Delivery
    MCHomeAssistantMQTT  HomeAssistantMQTT
    MCTCPServer -------- TCPServer
    MCLifecycle -------- Lifecycle

A module `<M>Proofs` extends `<M>` with its theorems. `CheckDispatchProofs` has those of
`StatusPage` too, and `MainProofs` those of the main thread: `Startup`, then `Lifecycle`.

### Startup

`main()`, `read_config` and `_merge_config`, `get_all_active_checks` and the commands.
`read_config` calls itself for every file a file includes: `stack` has its frames, each
with what is left of the glob and the `plugins` section so far; `Include`, `ReturnToCaller` and
`ConfigRead` are the call, the merge into the caller and the last return. A section is a
list, a dict, absent, or something else (null), and `Merge` is `extend`, `update`,
`AttributeError` or a replacement accordingly. `LoadPlugin`, `LoadMissing` and
`LoadUnknown` are one turn of the loop over the plugins, `Refuse` and `Accept` its end.
`NextJob` calls it all again, as every job does.

`NothingForgotten` says what should be active without reading anything: `Asked` is the set of
the places that ask for a check called `n`, each with a way of includes that leads there from
the root. A file that is reached in two ways counts twice, because `read_config` reads it twice.

### Scheduler, PeriodicSchedule

`Scheduler` has the attributes of the class: `jobs` (the periodicities: there is
one job per periodicity), `ticks`, `currentTick`, and the list `fired` that the
last `__next__` returned. `SizeCycle` is one iteration of
`find_minimum_ticks_required`, `CycleSized` the return of the constructor,
`CallNext` is `__next__`, which moves the tick before it calls the jobs, and
`BreakLoop` the end of the loop of `run_producer`. `wakes` is a history variable.

`PeriodicSchedule` is the abstract specification: at every wake the jobs due at
that nominal second are fired, all of them and no other, and no due second falls
between two wakes. It has no tick and no cycle. `RunsOnSchedule` says that
`Scheduler` implements it with `nextWake <- wakes * TickDuration(jobs)`.

### CheckDispatch

`launch_and_publish_checks_with_periodicity`, `_check_helper`, `launch_check` and
`send_data_to_consumers`. The variable `threadPool` tells whether there is a pool.
`producer` and `due` are the place of the producer in a job; `Submit` and `Skip` are
the two branches under `_current_checks_lock`. `pc`, `checking`, `result` and
`nextQueue` are the locals of each thread in `_check_helper`: it runs the check,
puts the result in one queue at a time, stores it under `check_results_lock` and
removes the name under `_current_checks_lock`. `currentChecks` counts the
occurrences of a name in the list, because `list.remove` takes one out. Checks are
what `get_all_active_checks` lets through: their names are unique (`Startup`).

The consumers take nothing from the queues here, which makes a queue the history
of what was put in it.

### StatusPage

The HTTP server, extending `CheckDispatch` with its thread. `Accept` and `PollTimeout`
are the two ways `select` returns in `serve_forever`; `ReadRequest` is a request;
`ServiceActions` is where the server looks at `must_stop`. An answer reads the dict in loops,
one for the code, one for the checks and, for the dashboard, one more for its rows: each is
`TakeLock`, a `Visit` for every check, in any order, and `ReleaseLock`. The workers go on all
the while; the one thing that keeps them from storing a result during a loop is that
`StoreResult` waits for the lock (`MayStore`). `Worse` is `reduce_status`. `StatusOf` gives the
status each run of a check returned, which may be none of the four: a command that was killed
returns -9, and its shell 127.

`moments` is a history: what `check_results` has been since the request was read.
`PageIsExplained` compares the page with it. The code must be the worst status of *all* the
checks at one of these moments, and the list of the checks must be the *whole* dict at the same
moment or a later one. A mixture of two moments, a status that a 127 reset, a check left out, or
a code newer than the list all violate it. It promises no more, because the code does not: the
two readings may be of different moments, so that a page may be OK next to a failure that was
stored between them, or critical with a list in which the failure is over already.

### PluginChecks

A table says of every check of every plugin which sources it reads, in which groups,
through which cache of the instance (an attribute, an `lru_cache`, none), what a failed
reading comes to (the check raises, returns CRIT, or leaves the group out), and by which
rule the readings become a status. What a source reads is a level of trouble that only
grows, so that a result that looks better than what was there when its job began is
visible. A run of a check goes through its groups: `LookUp`, `Fetch`, `Store` and `Return`
for one that is cached, which are steps of their own because threads of the pool share the
instance, `Query` for one that is not. `NewInstance` is the plugin that
`get_all_active_checks` makes for each job. Each rule is an operator of its own, of which
`StatusOf` takes the one the table names.

`ReadingFails` is a check that raises, or returns CRIT, where it reads, and also one that
raises after a reading that was cached: a field that memcached did not send, a mail queue that
cannot be parsed, a list of arrays that is missing. An empty reading, which `if not self._x`
takes again at the next access, is one of these. `HTTP` and `HTTPJSON` make a CRIT of a request
that fails and raise for a content, an expression or a threshold that is not right. `Listed` is
`MDStat`, which judges only the arrays that `/proc/mdstat` lists: one that was stopped is not
there any more, so that a check that reported it as failed is OK again, and UNKNOWN when no
array is left. `ReturnCode` is `Command`, whose status is the exit code as it is; `ExitCodes`
has 127 for the codes that are no status.

`FaultIsNoticed` looks at the last result of a check: it is as severe as anything the check
read was when its job began, and when it is OK the check has read all that it may not leave out
(`ReadAll`). What it may leave out are the partitions without inodes, the sensors and
processes that are gone, and the arrays that are not listed.

### QueuedConsumer, Delivery

`BatchQueuedConsumer.run`, `try_send`, `_send_batch` and `_wait_before_retry`, with
`pc` as the place in them. Every clock is an age: `Tick` makes the checks, the
batch and the waits one unit older. Time passes only where the thread waits
(`queue.get`, `must_stop.wait`) or sends. Ages stop growing just above the limit
they are compared with, which no comparison can tell.

At an age of exactly `max_batch_delay` the time-out of `queue.get` is 0 and
`should_send_batch` is still false: the thread polls until the clock moves.
The model keeps this, and the fairness of `Tick` is strong for that reason.

`SendNext`, `SendLast` and `SendRaises` are the remote service: a batch may fail at
any check, and the check that failed may or may not have arrived. `PutCheck` is a
thread of the dispatcher: the timestamp of a check may be up to `PutDelay` older
than its place in the queue, so that a queue need not be sorted by timestamp.

`Delivery` is the abstract specification of one call of `_send`, which those three
actions take for granted: it returns only once the check was given to a service, and may
raise whether it was or not.

### NSCA

`_send`: resolve the name, put the last good receiver first (`Priority`), and for each
address connect, read the initialisation vector in pieces and send the payload. Each of
those steps may fail; an `OSError` goes on with the next address, anything else leaves
the loop. `ReceiverEnds` is a receiver that closes its side early. `ImplementsDelivery`
is the refinement of `Delivery`.

### HomeAssistantMQTT

`_send_batch` of the MQTT consumer: `BuildMessages` is one turn of its loop with
`_get_check_discovery`; `PublishNext` is the broker, which gets the messages one by one
and retains the discovery messages; `PublishRaises` may come after any of them.
`SendBatch` is `try_send` (see `QueuedConsumer`), which after a failure calls it with the
same batch or gives up. `BuildRaises` is an exception in that loop, which is outside of the
`try`: nothing is published, and what the call has configured so far stays configured although
it was never announced. `stranded` is the history of these sensors, the one exception of
`SensorBeforeState`. `ToSafeStr` is the conversion itself, on sequences of
characters, since identifiers and topics are equal or not because of it.

### TCPServer

`TCPServerConsumer`: a round of `run` goes through the three lists of `select()`
(`errored`, `readable`, `writable`) while its handlers change `readWanted`,
`writeWanted` and `writeBuffers`. `writeWanted` counts the occurrences of a socket in
the list. The kernel and the clients are the variables `link`, `incoming` and `room`.
Accepted sockets block, as on Linux: `send()` takes what there is room for and waits
if there is none. An `accept()` may fail; nothing catches it.

### Lifecycle

`launch()` with the order of its loop (construct, list the queue, start the thread),
the two failures that leave it (`UnknownConsumer`, `MissingDependency`), and the
joins. `handlers` is a stack of calls of `term_handler`, because a signal handler of
Python runs on the main thread on top of whatever it does. `must_stop.set()` takes
three steps (lock, flag, unlock), `is_set()` takes no lock. A consumer thread is in
its loop, blocked in `queue.get()` or over; the producer works, waits in
`must_stop.wait()` or is over.

## 3. What TLC checks

| Run | Instance | States | What it shows |
|---|---|---|---|
| `startup` | 3 files, 2 plugins, every command | 479 thousand | reading ends, names are unique, no check that was asked for in a list is forgotten |
| `scheduler` | all 63 sets of periodicities of 1 to 6 s, 130 wakes | 16 thousand | `CycleFitsEveryJob`, and the refinement of `PeriodicSchedule` |
| `dispatch` | 2 checks, 2 workers or none, 2 queues, 2 runs per check | 103 thousand | no leaked name, no concurrent runs of a check, all results to all queues in order, every job ends |
| `status_page` | 2 checks of 2 runs, 1 worker or none, 2 requests | 888 thousand | the code and the list of a page are the whole dict at one moment each, in this order; the server stops |
| `plugin_checks` | every check alone and 2 pairs that share a cache, 2 jobs | 322 thousand | no reading older than its job, no hidden fault, no recovery by itself |
| `queued_consumer` | batches of 2, 3 checks, `max_retry` -1 or 2 | 341 thousand | nothing lost, late, dropped without reason or retried for ever; the stop is obeyed |
| `nsca` | 2 receivers, answers of up to 3 addresses, a vector of 2 pieces | 19 thousand | every receiver gets its chance, the refinement of `Delivery`, a call ends unless a stream did |
| `home_assistant` | 3 names, batches of up to 2 | 3 thousand | sensors are announced before their states, once, but for those that `BuildRaises` left |
| `tcp_server` | 2 clients, one message each | 180 thousand | the handlers survive lists that are out of date, answers arrive whole, everybody is served |
| `lifecycle` | 2 consumers of every kind and fate, 3 signals | 59 thousand | nobody is left asleep, the process ends |
| `lifecycle_signal` | the same | | violated: see below |
| `slow_answer` | the instance of `plugin_checks` | | violated: see below |

### Why the bounds are enough

*Startup*: with three files a file can be included by two others, twice by one, by
itself, or in a cycle of any length up to three; `MaxDepth` of 4 is one more than the
longest chain without a cycle. *Scheduler*: the longest cycle has 120 ticks, so that 130
wakes pass every wrap. *Dispatch*: two checks and two workers give every overlap of a
check with itself and with another one, two queues an instant between two puts, and a
second run an old and a new result; nothing depends on the identity of a third.
*Status page*: a check that is killed and then critical, and one that recovers with a code that
is no status; any of their results may be stored between the readings of the dict or wait for
one of them, and the two are visited in either order; the second request comes with the stop. *Plugins*: the plugins do not interact, so that each check alone is the whole of
it, but for the checks that share a cache; a pair of those for each kind of cache, two
jobs, and levels at, below and between the thresholds. *Queued consumer*: three checks are
one more than a batch holds; the delays are small but all different in their order relation
to each other (a batch can become stale before, between and after retries, full before and
after its delay). *NSCA*: a receiver may be listed twice, and the last good one be missing
from the next answer. *MQTT*: a batch can hold a check twice, or one known and one
unknown check; two of the names differ in punctuation only. *TCP server*: the second
answer to a client that does not read does not fit, so it stays in the buffer and leaves it
in pieces. *Lifecycle*: with two consumers the second can fail while the first runs;
three signals let a handler be interrupted while it interrupts another.

### Fairness

Liveness assumes weak fairness of each thread: Python's threads run, checks and
connection attempts return (they have time-outs, or the operating system has). It never
assumes that a job or a check arrives, that a signal or a stop comes, that a server fails or
that a remote service succeeds. Some cases are worth a note.

* `SF_vars(Tick)` in `QueuedConsumer`: the clock moves although the polling thread is
  never seen waiting.
* `WF_vars(ClientReads(c))` in `TCPServer`: a client that stops reading without being dead
  holds a blocking `send()`, and then the other clients and the stop, for as long as it
  likes; without that assumption `EveryClientServed` and `StopIsObeyed` do not hold.
* A client of the HTTP server need not send its request, and the handler has no time-out:
  `ServerStops` is stated for executions where the server does not stay in that wait.
* In `NSCA` the weak fairness of the thread covers the time-out of its socket. It does not
  help at the end of a stream, which `EverySendEnds` leaves out by name.
* `PluginChecks` has safety properties only.

### Disagreements with what the repository says

Two are runs that TLC must refute:

* `lifecycle_signal`: a second signal inside `must_stop.set()` makes the main thread
  wait for a lock it holds. `SignalTerminates` shows that nothing else defeats a signal.
* `slow_answer`: `elapsed.microseconds` leaves the whole seconds out, so that an HTTP
  answer after 2.0 s is OK with `warn: 1000` (`http.py:39`, and `http_json.py`).

The following came up while modelling; the models have them, no run is about them.

* The cycle of the scheduler is not minimal, for periodicities 1, 4 and 6 for instance: 24
  ticks where 12 are enough (`scheduler.py:33-37`). Harmless.
* Consumers do not work "until the queue is empty": they test `must_stop` first
  (`base.py:110`, 159-160).
* An unknown consumer type makes the main thread exit without a stop, and the consumers
  started before it keep the process alive (`sauna/__init__.py:367`).
* An `accept()` that fails ends the thread of the TCP server (`tcp_server.py:34`).
* Checks whose names differ in punctuation share a topic of Home Assistant
  (`home_assistant_mqtt.py:27-28`, 53).
* "Remove the discovery message that could not be sent so that they will be recreated"
  (`home_assistant_mqtt.py:117-118`) is not done when building the messages raises (line 103,
  for an output that `json.dumps` does not take, such as a date in the configuration of a Dummy
  check): the new sensors of that batch are never announced.
* A page of the HTTP server may say that all is well and list a failure, or the reverse, since
  its two readings are of two moments (`http_server/__init__.py:98-102`).
* NSCA reads the vector in a loop that spins at the end of the stream, past its time-out
  and `must_stop` (`nsca.py:52-56`); `encryption: 1` with the empty default key sends
  nothing and reports success; `getaddrinfo` is called outside of the `try`.
* "The worse status of all check results" (`base.py:175`) ignores UNKNOWN, and every status
  above it; the dashboard is served, with its page, for paths that do not exist.
* Configurations that give `plugins` as dicts lose checks when two files have the same plugin
  (`dict.update`); a dict included into a list ends in an `AttributeError`, a file that includes
  itself in a `RecursionError`, one without `plugins` in a `KeyError`, and `sauna status` in a
  `KeyError` when a command returns none of the four statuses.
* A failed RAID array that is stopped makes its check OK again, or UNKNOWN when it was the last
  one (`mdstat.py:28-31`).
* `Disk` returns at the first partition above a threshold, so that a WARN hides a CRIT further
  on, and `Processes.file_descriptors` the same for a process and the system. `FaultIsNoticed`
  does not exclude that: what a check that found a fault did not come to is not compared.
* With a pool, two checks that share an attribute race for it: one may report an older reading
  than its former run did. `NeverLooksBetter` holds without a pool or without a cache. No property
  is about the race itself; `Fresh` says that whatever wins was read in the same job.
* `Command` has no time-out and returns the exit code as a status; its
  `_return_code_to_status` (`command.py:24-27`), which would make UNKNOWN of the others, is never
  called.

## 4. What is proved

TLAPS checks the following for every value of the constants, subject to the named
`ASSUME`s of each module (positive periodicities, at least one executor, sizes that are
natural numbers, finitely many files whose sections are sequences of entries with texts for names). `TypeOK` is proved wherever the
table below has a `TypeCorrect`, and is part of every inductive invariant.

| Theorem | Module | Argument |
|---|---|---|
| `TypeCorrect`, `CycleIsSeamless` | `SchedulerProofs` | The product is a multiple of each periodicity already visited (`CycleFitsSizedJobs`), and a multiplication keeps that. |
| `ImplementsSchedule` | `SchedulerProofs` | `TickInStep`: the tick and the number of wakes agree modulo every periodicity, because the cycle is a multiple of each; the step simulation follows, and no due second is skipped because every periodicity is a multiple of the tick. |
| `TypeCorrect`, `NamesAreAccountedFor`, `ChecksAreExclusive` | `CheckDispatchProofs` | One invariant: an occurrence of a name stands for one work item or one thread, and never both. Exclusion alone is not inductive, nor is the count without the pool's backlog. |
| `QueuesAreInOrder`, `DictIsBehindQueues` | `CheckDispatchProofs` | `OutputInv`: exclusion makes the thread that has a result of a check the only one that does anything for it, so that its result is the last run (`ResultIsLast`) and the queues it has not come to yet hold exactly the runs before it. |
| `ServerOnlyReads`, `PagesAreExplained`, `OneLateClient` | `CheckDispatchProofs` | The steps of `StatusPage` are steps of `CheckDispatch` or leave its variables alone, so that its theorems hold for both together. `MomentsEndNow`: the history of a request ends with the dict of now. `PageSoFar`: a loop that holds the lock has folded, or listed, the part of that dict it has visited, which is all of it at the end. Adding a check to what was visited makes the worst status the `Worse` of both (`WorseIsWorst`). |
| `TypeCorrect`, `ChecksAreAccountedFor`, `SentChecksWereDelivered` | `QueuedConsumerProofs` | `BatchInOrder` and `QueueIsFrom`: handled, batch and queue are three consecutive intervals of what was produced; `PrefixDelivered`: the checks before the position of an attempt have arrived. |
| `ShutdownGrantsOneAttempt`, `BatchesAreSentInTime`, `DropsHaveTheirReason` | `QueuedConsumerProofs` | `LateAttemptIsLast`, `AttemptsCounted` and `AgesInOrder`: a check is older than those put after it but for the put delay, so that the last one of a stale batch tells about all of it. |
| `RetriesAreBounded` | `QueuedConsumerProofs` | `Paced`: each attempt but the first comes `retry_delay` after the one before, so that the age of the last check is at least that many delays when the next one starts. |
| `EveryReceiverIsTried`, `SendDelivers`, `TypeCorrect` | `NSCAProofs` | `LoopGoesThroughList` (what was tried is the list up to the position) and `ListIsAnswer`, from a lemma that taking out the first occurrence of an address and putting it first changes no count. `ServedOnReturn` gives the refinement. |
| `ReadingsAreFresh` | `PluginChecksProofs` | `LevelsGrow` (the present is no better than any job's start) and `OwnIsFresh` (what a thread is about to store was read in its own job): whichever thread of a race stores last, it stores a reading of that job. |
| `FaultsAreNoticed` | `PluginChecksProofs` | `ResultIsTrue`: a result that did not fail is `StatusOf` the readings it carries, each no older than its job. With levels that only grow and a `StatusOf` that is monotone for every rule, it is as severe as the readings of the start of the job. `GatherInv`: the groups before the one a run is at were read unless they may be left out, and a run does not end OK before the last of them. |
| `StatusesDoNotRecover` | `PluginChecksProofs` | The readings of a source are in the order of the results: alone in its job a check starts after the others ended, and without a cache it reads after its former run did. With both a pool and a cache that fails, which the statement leaves out. |
| `TypeCorrect`, `HandlersAreSafe`, `SelectIsSafe`, `AnswersAreKept`, `AnswersAreWanted` | `TCPServerProofs` | `WritableIsWanted`: an open socket is in `write_wanted` at least as often as in what is left of the list of the round. With `OnlyOpenSockets` this makes every `list.remove` succeed and keeps a socket wanted as long as its buffer is not empty. |
| `HealthyClientsAreKept` | `TCPServerProofs` | `ReadableIsReady`: what `select()` called readable stays so until it is read, so that no byte means the end of the stream. |
| `TypeCorrect`, `SensorsAreKnown`, `AnnouncementsAreRemembered` | `HomeAssistantMQTTProofs` | `DiscoveryFirst` (a state in the messages comes after the discovery of its sensor, unless an earlier call announced it or left it `stranded`) and the relation of `configured`, `pending`, `confirmed` and `retained`. |
| `NoNameTwice`, `ChecksAreNotForgotten` | `MainProofs` | `ReadingInv`: what each call of `read_config` under way has gathered is what its file and the includes it has merged ask for, whose number grows with a merge by what the included file asks for with one call less (`AskedStep`). `Loaded`: the active names are those of the entries so far unless a plugin is missing. `Asked` is finite although files may include each other in a cycle: that is part of the invariant, because only calls that returned are counted. |
| `OnlyCyclesExhaust` | `MainProofs` | `StackInv`: each call was made by the one below it. A full stack of more calls than there are files has one file twice (the pigeonhole principle), and the calls between are a cycle. |
| `TypeCorrect`, `NoLostWakeup` | `MainProofs` | `StartedWhenListed` (a thread starts after its queue is listed) and `BlockedWillWake` (the Event is in the queue, or a handler on the stack will still put it there). A thread that blocks saw the flag down, so that the handler that sets the flag starts its loop later. |

The status of the services of Supervisor is a fold over a set, about which the prover knows
nothing. The proof gives it a closed form (the worst that occurs), shows that it satisfies the
fold's recursion, and that nothing else does, by a smallest counterexample. That the table of the plugins is well formed
is a lemma (`TableIsWellFormed`), and not an assumption.

Only model-checked: every liveness property and whatever uses fairness, which the prover
does not reach, among them the halves of `ReadingEnds` and `ServerStops` that say that
something ends (the others are `OnlyCyclesExhaust` and `OneLateClient`). Every invariant and
action property of a passing run is proved. What a recursive definition computes for every
input would take an induction the installed provers cannot do: about `ToSafeStr` the proofs
assume nothing, so they hold for any conversion of names; `Update`, the loop of `dict.update`,
is only proved to make entries of entries.

## 5. What is not modelled, and the plan

| Next | Module | Question |
|---|---|---|
| 1 | `Monitor` | scheduler, dispatch and a consumer composed: a due check ends up sent, dropped for a reason, or skipped because it is running |
| 2 | `Startup` | the sections other than `plugins`, and `Sauna.consumers` |
| 3 | `QueuedConsumer` with `NSCA` | `_send` in the place of `SendNext`, in one state space |

Left out for good: the packaging, the documentation and the tests; the HTML of the
dashboard and what commands print; the bytes of the protocols (the NSCA payload, MQTT,
memcached's answers, the XML-RPC of Supervisor, the JSON paths of HTTP-JSON), which are one
reading or one message each; `extra_plugins` and the import of modules, which fill the
registers before any thread starts; `Dummy`, which returns what the configuration says. The
HTTP, Icinga and Stdout consumers are one call that returns or raises, which `Delivery` and
`QueuedConsumer` have.
