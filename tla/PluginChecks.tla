------------------------------ MODULE PluginChecks ------------------------------
(***************************************************************************)
(* sauna/plugins: the checks of one plugin of the configuration, from the  *)
(* readings they take of the system to the statuses they return.  Each job *)
(* makes a new instance of the plugin, whose attributes cache readings for *)
(* the checks of that job; with a thread pool these run at the same time,  *)
(* and next to those of earlier jobs that are not over.                    *)
(*                                                                         *)
(* A source is one thing a plugin reads: a load average, a partition, a    *)
(* service.  What it reads is a level, 0 for no trouble, which only grows: *)
(* the system gets worse and never recovers, so that a result that looks   *)
(* better than what was there shows.  Thresholds are levels too.  A table  *)
(* per plugin says what each of its checks reads, through which cache, and *)
(* what it makes of it.                                                    *)
(***************************************************************************)
EXTENDS Integers, Sequences, FiniteSets, FiniteSetsExt

CONSTANTS
  Warn, Crit,      \* check_config['warn'] and check_config['crit']
  Configurations,  \* <<plugin, checks>>: the plugins and the sets of checks to look at
  MaxLevel,        \* bound on the levels
  MaxJobs          \* bound on the jobs

ASSUME ThresholdsAssumption == Warn \in Nat \ {0} /\ Crit \in Nat \ {0}
ASSUME BoundsAssumption == MaxLevel \in Nat /\ MaxJobs \in Nat

OK == 0
WARN == 1
CRIT == 2
UNKNOWN == 3

\* status_priority of Supervisor: UNKNOWN is worse than OK only.
Priority == <<OK, UNKNOWN, WARN, CRIT>>

\* A status that is none of the four counts as UNKNOWN (see status_code_to_str).
Severity(status) ==
  CHOOSE i \in 1..4 : Priority[i] = IF status \in OK..CRIT THEN status ELSE UNKNOWN

NotRead == -1

-----------------------------------------------------------------------------
(* The table of the checks: a plugin is the record of its checks.          *)

\* A check reads groups of sources, one after the other, each group at once.  fails has
\* what a failed reading comes to: "raise", a "CRIT" result, the group left out ("skip"),
\* or one source of it, that is at its worst ("unlisted").  After a group that is last the
\* check ends, when it has found a fault.
Group(sources, cache, fails, last) ==
  [sources |-> sources, cache |-> cache, fails |-> fails, last |-> last]

\* A reading kept in an attribute of the instance, and one of the check's own.
Attribute(source) == Group({source}, "attribute", {"raise"}, FALSE)
Direct(source) == Group({source}, "none", {"raise"}, FALSE)
DirectOrSkip(source) == Group({source}, "none", {"raise", "skip"}, FALSE)

Last(group) == [group EXCEPT !.last = TRUE]

Check(rule, groups) == [rule |-> rule, groups |-> groups]

\* One request, and what its exceptions and wrong answers are.
Request(rule, source, fails) == Check(rule, <<Group({source}, "none", fails, FALSE)>>)

Load ==
  [c \in {"load1", "load5", "load15"} |-> Check("less", <<Attribute("loadavg")>>)]

Memory ==
  [available |-> Check("more", <<Attribute("virtual")>>),
   used_percent |-> Check("less", <<Attribute("virtual")>>),
   swap_used_percent |-> Check("less", <<Attribute("swap")>>)]

\* llen makes a request of its own.
Redis ==
  [llen |-> Check("less", <<Direct("list")>>),
   used_memory |-> Check("less", <<Attribute("info")>>),
   used_memory_rss |-> Check("less", <<Attribute("info")>>)]

Disque ==
  [qlen |-> Check("less", <<Direct("queue")>>),
   used_memory |-> Check("less", <<Attribute("info")>>),
   used_memory_rss |-> Check("less", <<Attribute("info")>>)]

\* accepting_connections makes a CRIT of an OSError; an answer without the field raises.
Memcached ==
  [accepting_connections |->
     Check("accepting", <<Group({"stats"}, "attribute", {"CRIT", "raise"}, FALSE)>>),
   bytes |-> Check("less", <<Attribute("stats")>>),
   used_percent |-> Check("less", <<Attribute("stats")>>),
   current_items |-> Check("less", <<Attribute("stats")>>)]

Postfix == [queue_size |-> Check("less", <<Attribute("mailq")>>)]

\* The clock is read first; what grows when the agent does not run is its distance to
\* the time in the summary.
PuppetAgent ==
  [last_run_delta |->
     Check("less", <<Group({"clock"}, "none", {}, FALSE), Attribute("summary")>>),
   failures |-> Check("less", <<Attribute("summary")>>)]

Ntpd ==
  [last_sync_delta |->
     Check("less", <<Group({"clock"}, "none", {}, FALSE), Attribute("loopstats")>>),
   offset |-> Check("less", <<Attribute("loopstats")>>)]

\* Two arrays, that one reading tells about: healthy ones, faulty ones, but not those that
\* were stopped.
MDStat ==
  [status |->
     Check("arrays", <<Group({"md0", "md1"}, "attribute", {"raise", "unlisted"}, FALSE)>>)]

\* The lru_cache of get_network_data, whose key is the instance with the interface.
Network ==
  [c \in {"upload_data_speed", "download_data_speed", "upload_packet_speed",
          "download_packet_speed"} |->
     Check("less", <<Group({"interface"}, "lru", {"raise"}, FALSE)>>)]

Apt ==
  [c \in {"security_updates", "package_updates"} |->
     Check("updates", <<Attribute("packages")>>)]

\* The first partition with a fault is the result.  One without inodes is left out.
Disk ==
  [used_percent |-> Check("less", <<Last(Direct("used1")), Last(Direct("used2"))>>),
   used_inodes_percent |->
     Check("less", <<Last(DirectOrSkip("inodes1")), Last(DirectOrSkip("inodes2"))>>)]

\* A sensor of a device that is not wanted is left out.
Hwmon ==
  [temperature |-> Check("hottest", <<DirectOrSkip("temp1"), DirectOrSkip("temp2")>>)]

\* getAllProcessInfo reads all the services at once.
Supervisor ==
  [service |-> Check("services", <<Direct("service1")>>),
   services |->
     Check("services", <<Group({"service1", "service2"}, "none", {"raise"}, FALSE)>>)]

\* A process that is gone is left out, but zombies raises.  The descriptors of the system
\* are read only when no process is short of its own: fds is the one that uses most.
Processes ==
  [count |-> Check("less", <<Direct("pids")>>),
   zombies |-> Check("zombies", <<Direct("zombie1"), Direct("zombie2")>>),
   running |-> Check("running", <<Group({"process1"}, "none", {"skip"}, FALSE),
                                  Group({"process2"}, "none", {"skip"}, FALSE)>>),
   file_descriptors |-> Check("less", <<Last(DirectOrSkip("fds")), Direct("files")>>)]

\* What follows the request raises without warn or crit, or for a content that is no string.
HTTP == [request |-> Request("latency", "latency", {"CRIT", "raise"})]

\* So it does for a bad regular expression or JSONPath.
HTTPJSON == [request |-> Request("latency", "latency", {"CRIT", "raise"})]

TCP == [request |-> Request("answer", "port", {"CRIT"})]

SimpleDomain == [request |-> Request("answer", "name", {"CRIT"})]

Command == [command |-> Check("exit code", <<Direct("command")>>)]

Plugins ==
  [Load |-> Load, Memory |-> Memory, Redis |-> Redis, Disque |-> Disque,
   Memcached |-> Memcached, Postfix |-> Postfix, PuppetAgent |-> PuppetAgent, Ntpd |-> Ntpd,
   MDStat |-> MDStat, Network |-> Network, Apt |-> Apt, Disk |-> Disk, Hwmon |-> Hwmon,
   Supervisor |-> Supervisor, Processes |-> Processes, HTTP |-> HTTP, HTTPJSON |-> HTTPJSON,
   TCP |-> TCP, SimpleDomain |-> SimpleDomain, Command |-> Command]

\* The checks are those of a plugin.
ASSUME ConfigurationsAssumption ==
  \A conf \in Configurations :
    conf[1] \in DOMAIN Plugins /\ conf[2] \in SUBSET DOMAIN Plugins[conf[1]]

SourcesOf(check) == UNION {check.groups[i].sources : i \in DOMAIN check.groups}

-----------------------------------------------------------------------------
(* The rules: the status of the levels in seen, NotRead for what was left out. *)

Read(seen) == {s \in DOMAIN seen : seen[s] # NotRead}
Highest(seen) == Max({0} \cup {seen[s] : s \in Read(seen)})
Faulty(seen) == {s \in Read(seen) : seen[s] > 0}

\* _value_to_status_less
Less(value) == IF value >= Crit THEN CRIT ELSE IF value >= Warn THEN WARN ELSE OK

MoreMut(value) == Less(value)

\* _value_to_status_more, of what is left of MaxLevel.
More(value) ==
  IF value <= MaxLevel - Crit THEN CRIT ELSE IF value <= MaxLevel - Warn THEN WARN ELSE OK

\* The state of a service: level 1 is a state that no threshold names.
ServiceStatus(level) == Priority[IF level > 3 THEN 4 ELSE level + 1]

WorstMut(global, status) == IF status > global THEN status ELSE global

\* services: the loop over service_statuses.values().
Worst(global, status) == IF Severity(status) > Severity(global) THEN status ELSE global

Services(seen) ==
  FoldSet(LAMBDA s, global : Worst(global, ServiceStatus(seen[s])), OK, Read(seen))

\* temperature: the dummy sensor stays when there is no other.
Hottest(seen) == IF Read(seen) = {} THEN UNKNOWN ELSE Less(Highest(seen))

\* accepting_connections
Accepting(seen) == IF Faulty(seen) = {} THEN OK ELSE CRIT

\* status of MDStat: of the arrays that are listed.
Arrays(seen) ==
  IF Read(seen) = {} THEN UNKNOWN ELSE IF Faulty(seen) = {} THEN OK ELSE CRIT

\* security_updates, package_updates
Updates(seen) == IF Faulty(seen) = {} THEN OK ELSE WARN

\* zombies: those of level 0 are none.
Zombies(seen) == Less(Cardinality(Faulty(seen)))

\* running: the processes of level 0 run; check_config['nb'] is 2.
Running(seen) ==
  LET instances == Read(seen) \ Faulty(seen)
  IN  IF instances = {} THEN CRIT ELSE IF Cardinality(instances) = 2 THEN OK ELSE WARN

\* request of HTTP and HTTP-JSON: levels are half seconds, and r.elapsed.microseconds leaves
\* out the whole ones.
Latency(seen) == Less(Highest(seen) % 2)

\* The exit codes of a command that gets worse; its shell's 127 is no status.
ExitCodes == <<OK, 127, WARN, CRIT>>

\* command: the exit code as it is.
ReturnCode(seen) == ExitCodes[IF Highest(seen) > 3 THEN 4 ELSE Highest(seen) + 1]

StatusOf(rule, seen) ==
  CASE rule = "less" -> Less(Highest(seen))
    [] rule = "more" -> More(MaxLevel - Highest(seen))
    [] rule = "hottest" -> Hottest(seen)
    [] rule = "services" -> Services(seen)
    [] rule = "accepting" -> Accepting(seen)
    [] rule = "arrays" -> Arrays(seen)
    [] rule = "updates" -> Updates(seen)
    [] rule = "zombies" -> Zombies(seen)
    [] rule = "running" -> Running(seen)
    [] rule = "latency" -> Latency(seen)
    [] rule = "exit code" -> ReturnCode(seen)
    [] rule = "answer" -> OK

-----------------------------------------------------------------------------
VARIABLES
  plugin,   \* the plugin
  active,   \* its checks in the configuration
  pool,     \* concurrency is set: the checks run in a thread pool
  level,    \* level[s]: what source s would read now
  due,      \* checks of the current job that were not started yet
  atStart,  \* history: atStart[j]: the levels when job j made its instance
  cache,    \* cache[j]: what the instance of job j has cached of each source
  pc,       \* pc[c]: where check c is, in the only run of it there may be
  job,      \* job[c]: the job of that run
  at,       \* at[c]: the group that run is at
  seen,     \* seen[c]: what that run has read
  own,      \* own[c]: what its fetch, or its look-up, of the group returned
  results   \* results[c]: the results of check c

runVars == <<pc, job, at, seen, own, results>>
vars == <<plugin, active, pool, level, due, atStart, cache, runVars>>

CheckOf(c) == Plugins[plugin][c]
GroupOf(c) == CheckOf(c).groups[at[c]]
Sources == UNION {SourcesOf(CheckOf(c)) : c \in active}
Unread(c) == [s \in SourcesOf(CheckOf(c)) |-> NotRead]
EmptyCache == [s \in Sources |-> NotRead]

Init ==
  /\ \E conf \in Configurations : plugin = conf[1] /\ active = conf[2]
  /\ pool \in BOOLEAN
  /\ level = [s \in Sources |-> 0]
  /\ due = {}
  /\ atStart = << >>
  /\ cache = << >>
  /\ pc = [c \in active |-> "idle"]
  /\ job = [c \in active |-> 0]
  /\ at = [c \in active |-> 1]
  /\ seen = [c \in active |-> Unread(c)]
  /\ own = [c \in active |-> Unread(c)]
  /\ results = [c \in active |-> << >>]

\* The system gets worse.
Degrade(s) ==
  /\ level[s] < MaxLevel
  /\ level' = [level EXCEPT ![s] = @ + 1]
  /\ UNCHANGED <<plugin, active, pool, due, atStart, cache, runVars>>

NewInstanceMut == Append(cache, IF cache = << >> THEN EmptyCache ELSE cache[Len(cache)])

\* plugin_cls(plugin_data['config']), in get_all_active_checks.
NewInstance == Append(cache, EmptyCache)

\* The scheduler calls the job, once the former has returned.
StartJob ==
  /\ Len(cache) < MaxJobs
  /\ due = {}
  /\ ~ pool => \A c \in active : pc[c] = "idle"
  /\ due' = active
  /\ atStart' = Append(atStart, level)
  /\ cache' = NewInstance
  /\ UNCHANGED <<plugin, active, pool, level, runVars>>

\* Without a pool a check waits for the ones before it.
MayStart(c) == IF pool THEN pc[c] = "idle" ELSE \A d \in active : pc[d] = "idle"

StartCheck(c) ==
  /\ c \in due
  /\ MayStart(c)
  /\ due' = due \ {c}
  /\ pc' = [pc EXCEPT ![c] = "access"]
  /\ job' = [job EXCEPT ![c] = Len(cache)]
  /\ at' = [at EXCEPT ![c] = 1]
  /\ seen' = [seen EXCEPT ![c] = Unread(c)]
  /\ own' = [own EXCEPT ![c] = Unread(c)]
  /\ UNCHANGED <<plugin, active, pool, level, atStart, cache, results>>

\* With a pool a check whose last run is not over is not run in this job.
SkipCheck(c) ==
  /\ pool
  /\ c \in due
  /\ pc[c] # "idle"
  /\ due' = due \ {c}
  /\ UNCHANGED <<plugin, active, pool, level, atStart, cache, runVars>>

InCache(c) == \A s \in GroupOf(c).sources : cache[job[c]][s] # NotRead

\* readings, with those of the current group of c made with value.
WithGroup(c, readings, value(_)) ==
  [s \in DOMAIN readings |-> IF s \in GroupOf(c).sources THEN value(s) ELSE readings[s]]

\* 'if not self._x', or the look-up of the lru_cache.
LookUp(c) ==
  /\ pc[c] = "access"
  /\ GroupOf(c).cache # "none"
  /\ pc' = [pc EXCEPT ![c] = IF InCache(c) THEN "return" ELSE "fetch"]
  /\ UNCHANGED <<plugin, active, pool, level, due, atStart, cache, job, at, seen, own, results>>

\* The reading that is to be cached.
Fetch(c) ==
  /\ pc[c] = "fetch"
  /\ own' = [own EXCEPT ![c] = WithGroup(c, @, LAMBDA s : level[s])]
  /\ pc' = [pc EXCEPT ![c] = "store"]
  /\ UNCHANGED <<plugin, active, pool, level, due, atStart, cache, job, at, seen, results>>

\* 'self._x = ...' replaces what another thread has stored; the lru_cache keeps it.
Store(c) ==
  /\ pc[c] = "store"
  /\ cache' = IF GroupOf(c).cache = "lru" /\ InCache(c) THEN cache
               ELSE [cache EXCEPT ![job[c]] = WithGroup(c, @, LAMBDA s : own[c][s])]
  /\ pc' = [pc EXCEPT ![c] = "return"]
  /\ UNCHANGED <<plugin, active, pool, level, due, atStart, job, at, seen, own, results>>

\* The run of c is over; failed tells a result that no reading made.
Finish(c, status, failed, read) ==
  /\ results' = [results EXCEPT ![c] = Append(@,
                   [status |-> status, failed |-> failed, job |-> job[c], seen |-> read])]
  /\ pc' = [pc EXCEPT ![c] = "idle"]
  /\ UNCHANGED at

\* After a group, with what was read so far: the next group or the result.
Continue(c, read) ==
  IF \/ at[c] = Len(CheckOf(c).groups)
     \/ GroupOf(c).last /\ StatusOf(CheckOf(c).rule, read) # OK
  THEN Finish(c, StatusOf(CheckOf(c).rule, read), FALSE, read)
  ELSE /\ at' = [at EXCEPT ![c] = @ + 1]
       /\ pc' = [pc EXCEPT ![c] = "access"]
       /\ UNCHANGED results

\* The reading of a group that no cache keeps.
Query(c) ==
  /\ pc[c] = "access"
  /\ GroupOf(c).cache = "none"
  /\ seen' = [seen EXCEPT ![c] = WithGroup(c, @, LAMBDA s : level[s])]
  /\ Continue(c, seen'[c])
  /\ UNCHANGED <<plugin, active, pool, level, due, atStart, cache, job, own>>

\* What a check sees of a source that was read.
Listed(c, value) == IF "unlisted" \in GroupOf(c).fails /\ value = MaxLevel THEN NotRead ELSE value

\* 'return self._x' reads the attribute again; the lru_cache returns what it had, or what
\* the call has just read.  Some checks use the attribute more than once, after the reading
\* that this is: for what else they say, or for a field whose absence makes them raise.
Return(c) ==
  /\ pc[c] = "return"
  /\ seen' = [seen EXCEPT ![c] = WithGroup(c, @, LAMBDA s :
                Listed(c, IF GroupOf(c).cache = "lru" /\ own[c][s] # NotRead
                          THEN own[c][s] ELSE cache[job[c]][s]))]
  /\ own' = [own EXCEPT ![c] = Unread(c)]
  /\ Continue(c, seen'[c])
  /\ UNCHANGED <<plugin, active, pool, level, due, atStart, cache, job>>

\* Where a reading is made.
Reading(c) == pc[c] = IF GroupOf(c).cache = "none" THEN "access" ELSE "fetch"

\* The group is left out.
QuerySkips(c) ==
  /\ Reading(c)
  /\ "skip" \in GroupOf(c).fails
  /\ Continue(c, seen[c])
  /\ UNCHANGED <<plugin, active, pool, level, due, atStart, cache, job, seen, own>>

\* The check returns CRIT, or raises and launch_check makes an UNKNOWN of it: when the
\* reading is made, or when what was cached is not what it looks for in it.
ReadingFails(c) ==
  /\ \/ Reading(c) /\ "CRIT" \in GroupOf(c).fails /\ Finish(c, CRIT, TRUE, seen[c])
     \/ /\ Reading(c) \/ pc[c] = "return"
        /\ "raise" \in GroupOf(c).fails
        /\ Finish(c, UNKNOWN, TRUE, seen[c])
  /\ UNCHANGED <<plugin, active, pool, level, due, atStart, cache, job, seen, own>>

RunOf(c) ==
  \/ LookUp(c) \/ Fetch(c) \/ Store(c) \/ Return(c)
  \/ Query(c) \/ QuerySkips(c) \/ ReadingFails(c)

Next ==
  \/ \E s \in DOMAIN level : Degrade(s)
  \/ StartJob
  \/ \E c \in active : StartCheck(c) \/ SkipCheck(c)
  \/ \E c \in active : RunOf(c)

Spec == Init /\ [][Next]_vars

-----------------------------------------------------------------------------
\* What was read of the sources in readings is no better than what was there when job j
\* began.
NoOlderThan(readings, j) ==
  \A s \in DOMAIN readings : readings[s] # NotRead => readings[s] >= atStart[j][s]

\* The caches never hand a check a reading older than its job: not what an earlier job
\* cached, whose runs may still be storing, nor, after a race of two threads for one
\* attribute, anything but a reading of the same job.
Fresh ==
  /\ \A j \in DOMAIN cache : NoOlderThan(cache[j], j)
  /\ \A c \in active : job[c] > 0 => NoOlderThan(seen[c], job[c])

\* The sources that check c may not leave out are among those that it has read.
ReadAll(c, read) ==
  \A g \in DOMAIN CheckOf(c).groups :
    LET group == CheckOf(c).groups[g]
    IN  group.fails \cap {"skip", "unlisted"} = {} => group.sources \subseteq read

\* The last result of a check tells of every fault there was, among what it has read, when
\* its job began: its status is as severe as that of any source, and when it is OK the check
\* has read all there is, but for what it may leave out.  The latency of HTTP checks is left
\* out (see SlowAnswerIsNoticed), and "running" counts the whole.
FaultIsNoticed ==
  \A c \in active : pc[c] = "idle" /\ results[c] # << >> =>
    LET result == results[c][Len(results[c])]
        rule == CheckOf(c).rule
        read == Read(result.seen)
        parts == IF rule = "running" THEN {read} ELSE {{s} : s \in read}
        fault(part) == StatusOf(rule, [s \in part |-> atStart[result.job][s]])
    IN  ~ result.failed /\ rule # "latency" =>
          /\ \A part \in parts : Severity(result.status) >= Severity(fault(part))
          /\ result.status = OK => ReadAll(c, read)

\* Without a pool, or without a cache, a check that read the same sources twice does not
\* look better the second time, when the system only got worse in between.  With both, a
\* run may start after the former run of its check has read and be handed what another
\* check had cached before that.
NeverLooksBetter ==
  \A c \in active : pc[c] = "idle" => \A i \in 1..(Len(results[c]) - 1) :
    LET first == results[c][i]
        second == results[c][Len(results[c])]
        groups == CheckOf(c).groups
    IN  /\ ~ first.failed /\ ~ second.failed
        /\ Read(first.seen) = Read(second.seen)
        /\ pool => \A g \in DOMAIN groups : groups[g].cache = "none"
        /\ CheckOf(c).rule # "latency"
        => Severity(second.status) >= Severity(first.status)

\* The samples of HTTP and HTTP-JSON say "timeout, warn and crit are durations in
\* milliseconds": an answer that took at least warn is no OK.
SlowAnswerIsNoticed ==
  \A c \in active : \A i \in DOMAIN results[c] :
    ~ results[c][i].failed /\ CheckOf(c).rule = "latency" =>
      results[c][i].status = Less(Highest(results[c][i].seen))
===============================================================================
