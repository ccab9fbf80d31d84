-------------------------- MODULE PluginChecksProofs --------------------------
(***************************************************************************)
(* For any thresholds, any number of jobs and any of the checks of the     *)
(* table, with or without a pool: no cache hands a check a reading older   *)
(* than its job; the last result of a check is as severe as what it read   *)
(* was when the job began; and a check that read the same sources again    *)
(* does not look better while the system only gets worse, but for the      *)
(* checks that share a cache in a pool.                                    *)
(***************************************************************************)
EXTENDS PluginChecks, FiniteSetTheorems, NaturalsInduction, WellFoundedInduction, TLAPS

-----------------------------------------------------------------------------
(* The table.                                                              *)

\* The rules that StatusOf knows.
Rules == {"less", "more", "hottest", "services", "accepting", "arrays", "updates", "zombies",
          "running", "latency", "exit code", "answer"}

\* A check has a rule, and groups of finitely many sources; check_config['nb'] is the number
\* of processes that "running" looks for.
WellFormed(check) ==
  /\ check.rule \in Rules
  /\ Len(check.groups) \in Nat \ {0}
  /\ DOMAIN check.groups = 1..Len(check.groups)
  /\ IsFiniteSet(SourcesOf(check))
  /\ check.rule = "running" => Cardinality(SourcesOf(check)) <= 2
  /\ \A g \in DOMAIN check.groups : "unlisted" \in check.groups[g].fails => Len(check.groups) = 1

\* Small sets are finite.
LEMMA SmallSets ==
  ASSUME NEW s, NEW t
  PROVE  IsFiniteSet({s, t}) /\ Cardinality({s, t}) <= 2
<1>1. IsFiniteSet({s}) /\ Cardinality({s}) = 1
  BY FS_Singleton
<1>2. {s, t} = {s} \cup {t}
  OBVIOUS
<1>3. /\ IsFiniteSet({s} \cup {t})
      /\ Cardinality({s} \cup {t}) = IF t \in {s} THEN Cardinality({s}) ELSE Cardinality({s}) + 1
  BY <1>1, FS_AddElement
<1> QED
  BY <1>1, <1>2, <1>3

\* A check of one group.
LEMMA OneGroup ==
  ASSUME NEW rule \in Rules \ {"running"}, NEW group, IsFiniteSet(group.sources)
  PROVE  WellFormed(Check(rule, <<group>>))
<1> DEFINE check == Check(rule, <<group>>)
<1>1. check.groups = <<group>> /\ check.rule = rule
  BY DEF Check
<1>2. SourcesOf(check) = group.sources
  BY <1>1 DEF SourcesOf
<1> HIDE DEF check
<1>3. WellFormed(check)
  BY <1>1, <1>2 DEF WellFormed
<1> QED
  BY <1>3 DEF check

\* A check of two groups, of one source each.
LEMMA TwoGroups ==
  ASSUME NEW rule \in Rules, NEW first, NEW second, NEW s, NEW t,
         first.sources = {s}, second.sources = {t},
         "unlisted" \notin first.fails, "unlisted" \notin second.fails
  PROVE  WellFormed(Check(rule, <<first, second>>))
<1> DEFINE check == Check(rule, <<first, second>>)
<1>1. check.groups = <<first, second>> /\ check.rule = rule
  BY DEF Check
<1>2. SourcesOf(check) = {s, t}
  BY <1>1 DEF SourcesOf
<1> HIDE DEF check
<1>3. IsFiniteSet(SourcesOf(check)) /\ Cardinality(SourcesOf(check)) <= 2
  <2>1. IsFiniteSet({s, t}) /\ Cardinality({s, t}) <= 2
    BY SmallSets
  <2> QED
    BY <1>2, <2>1
<1>4. Len(check.groups) = 2 /\ DOMAIN check.groups = 1..2
  BY <1>1
<1>5. \A g \in DOMAIN check.groups : "unlisted" \notin check.groups[g].fails
  <2>1. check.groups[1] = first /\ check.groups[2] = second
    BY <1>1
  <2>2. \A g \in 1..2 : g = 1 \/ g = 2
    OBVIOUS
  <2> QED
    BY <1>4, <2>1, <2>2
<1>6. WellFormed(check)
  BY <1>1, <1>3, <1>4, <1>5 DEF WellFormed
<1> QED
  BY <1>6 DEF check

\* The groups of one source that the table is made of.
LEMMA GroupKinds ==
  ASSUME NEW s
  PROVE  /\ Attribute(s).sources = {s} /\ Direct(s).sources = {s}
         /\ DirectOrSkip(s).sources = {s}
         /\ Last(Direct(s)).sources = {s} /\ Last(DirectOrSkip(s)).sources = {s}
         /\ "unlisted" \notin Attribute(s).fails /\ "unlisted" \notin Direct(s).fails
         /\ "unlisted" \notin DirectOrSkip(s).fails
         /\ "unlisted" \notin Last(Direct(s)).fails
         /\ "unlisted" \notin Last(DirectOrSkip(s)).fails
BY DEF Attribute, Direct, DirectOrSkip, Last, Group

\* A check of one group of one source.
LEMMA OneSource ==
  ASSUME NEW rule \in Rules \ {"running"}, NEW s
  PROVE  /\ WellFormed(Check(rule, <<Attribute(s)>>))
         /\ WellFormed(Check(rule, <<Direct(s)>>))
<1>1. IsFiniteSet({s})
  BY FS_Singleton
<1>2. IsFiniteSet(Attribute(s).sources) /\ IsFiniteSet(Direct(s).sources)
  BY <1>1, GroupKinds
<1> QED
  BY <1>2, OneGroup

\* The same, written out.
LEMMA OneListed ==
  ASSUME NEW rule \in Rules \ {"running"}, NEW s, NEW kept, NEW fails
  PROVE  WellFormed(Check(rule, <<Group({s}, kept, fails, FALSE)>>))
<1>1. IsFiniteSet({s})
  BY FS_Singleton
<1>2. IsFiniteSet(Group({s}, kept, fails, FALSE).sources)
  BY <1>1 DEF Group
<1> QED
  BY <1>2, OneGroup

\* A check of two sources at once.
LEMMA TwoListed ==
  ASSUME NEW rule \in Rules \ {"running"}, NEW s, NEW t, NEW kept, NEW fails
  PROVE  WellFormed(Check(rule, <<Group({s, t}, kept, fails, FALSE)>>))
<1>1. IsFiniteSet(Group({s, t}, kept, fails, FALSE).sources)
  BY SmallSets DEF Group
<1> QED
  BY <1>1, OneGroup

\* Every check of every plugin is well formed.
LEMMA TableIsWellFormed ==
  \A p \in DOMAIN Plugins : \A c \in DOMAIN Plugins[p] : WellFormed(Plugins[p][c])
<1>1. \A c \in DOMAIN Load : WellFormed(Load[c])
  <2>1. WellFormed(Check("less", <<Attribute("loadavg")>>))
    BY OneSource DEF Rules
  <2> QED
    BY <2>1 DEF Load
<1>2. \A c \in DOMAIN Memory : WellFormed(Memory[c])
  <2>1. WellFormed(Check("more", <<Attribute("virtual")>>))
    BY OneSource DEF Rules
  <2>2. WellFormed(Check("less", <<Attribute("virtual")>>))
    BY OneSource DEF Rules
  <2>3. WellFormed(Check("less", <<Attribute("swap")>>))
    BY OneSource DEF Rules
  <2> QED
    BY <2>1, <2>2, <2>3 DEF Memory
<1>3. \A c \in DOMAIN Redis : WellFormed(Redis[c])
  <2>1. WellFormed(Check("less", <<Direct("list")>>))
    BY OneSource DEF Rules
  <2>2. WellFormed(Check("less", <<Attribute("info")>>))
    BY OneSource DEF Rules
  <2> QED
    BY <2>1, <2>2 DEF Redis
<1>4. \A c \in DOMAIN Disque : WellFormed(Disque[c])
  <2>1. WellFormed(Check("less", <<Direct("queue")>>))
    BY OneSource DEF Rules
  <2>2. WellFormed(Check("less", <<Attribute("info")>>))
    BY OneSource DEF Rules
  <2> QED
    BY <2>1, <2>2 DEF Disque
<1>5. \A c \in DOMAIN Memcached : WellFormed(Memcached[c])
  <2>1. WellFormed(Check("accepting", <<Group({"stats"}, "attribute", {"CRIT", "raise"}, FALSE)>>))
    BY OneListed DEF Rules
  <2>2. WellFormed(Check("less", <<Attribute("stats")>>))
    BY OneSource DEF Rules
  <2> QED
    BY <2>1, <2>2 DEF Memcached
<1>6. \A c \in DOMAIN Postfix : WellFormed(Postfix[c])
  <2>1. WellFormed(Check("less", <<Attribute("mailq")>>))
    BY OneSource DEF Rules
  <2> QED
    BY <2>1 DEF Postfix
<1>7. \A c \in DOMAIN PuppetAgent : WellFormed(PuppetAgent[c])
  <2>1. WellFormed(Check("less", <<Group({"clock"}, "none", {}, FALSE), Attribute("summary")>>))
    <3>1. /\ Group({"clock"}, "none", {}, FALSE).sources = {"clock"}
          /\ "unlisted" \notin Group({"clock"}, "none", {}, FALSE).fails
      BY DEF Group
    <3>2. /\ Attribute("summary").sources = {"summary"}
          /\ "unlisted" \notin Attribute("summary").fails
      BY GroupKinds
    <3> QED
      BY <3>1, <3>2, TwoGroups DEF Rules
  <2>2. WellFormed(Check("less", <<Attribute("summary")>>))
    BY OneSource DEF Rules
  <2> QED
    BY <2>1, <2>2 DEF PuppetAgent
<1>8. \A c \in DOMAIN Ntpd : WellFormed(Ntpd[c])
  <2>1. WellFormed(Check("less", <<Group({"clock"}, "none", {}, FALSE), Attribute("loopstats")>>))
    <3>1. /\ Group({"clock"}, "none", {}, FALSE).sources = {"clock"}
          /\ "unlisted" \notin Group({"clock"}, "none", {}, FALSE).fails
      BY DEF Group
    <3>2. /\ Attribute("loopstats").sources = {"loopstats"}
          /\ "unlisted" \notin Attribute("loopstats").fails
      BY GroupKinds
    <3> QED
      BY <3>1, <3>2, TwoGroups DEF Rules
  <2>2. WellFormed(Check("less", <<Attribute("loopstats")>>))
    BY OneSource DEF Rules
  <2> QED
    BY <2>1, <2>2 DEF Ntpd
<1>9. \A c \in DOMAIN MDStat : WellFormed(MDStat[c])
  <2>1. WellFormed(Check("arrays",
                     <<Group({"md0", "md1"}, "attribute", {"raise", "unlisted"}, FALSE)>>))
    BY TwoListed DEF Rules
  <2> QED
    BY <2>1 DEF MDStat
<1>10. \A c \in DOMAIN Network : WellFormed(Network[c])
  <2>1. WellFormed(Check("less", <<Group({"interface"}, "lru", {"raise"}, FALSE)>>))
    BY OneListed DEF Rules
  <2> QED
    BY <2>1 DEF Network
<1>11. \A c \in DOMAIN Apt : WellFormed(Apt[c])
  <2>1. WellFormed(Check("updates", <<Attribute("packages")>>))
    BY OneSource DEF Rules
  <2> QED
    BY <2>1 DEF Apt
<1>12. \A c \in DOMAIN Disk : WellFormed(Disk[c])
  <2>1. WellFormed(Check("less", <<Last(Direct("used1")), Last(Direct("used2"))>>))
    <3>1. /\ Last(Direct("used1")).sources = {"used1"}
          /\ "unlisted" \notin Last(Direct("used1")).fails
      BY GroupKinds
    <3>2. /\ Last(Direct("used2")).sources = {"used2"}
          /\ "unlisted" \notin Last(Direct("used2")).fails
      BY GroupKinds
    <3> QED
      BY <3>1, <3>2, TwoGroups DEF Rules
  <2>2. WellFormed(Check("less", <<Last(DirectOrSkip("inodes1")), Last(DirectOrSkip("inodes2"))>>))
    <3>1. /\ Last(DirectOrSkip("inodes1")).sources = {"inodes1"}
          /\ "unlisted" \notin Last(DirectOrSkip("inodes1")).fails
      BY GroupKinds
    <3>2. /\ Last(DirectOrSkip("inodes2")).sources = {"inodes2"}
          /\ "unlisted" \notin Last(DirectOrSkip("inodes2")).fails
      BY GroupKinds
    <3> QED
      BY <3>1, <3>2, TwoGroups DEF Rules
  <2> QED
    BY <2>1, <2>2 DEF Disk
<1>13. \A c \in DOMAIN Hwmon : WellFormed(Hwmon[c])
  <2>1. WellFormed(Check("hottest", <<DirectOrSkip("temp1"), DirectOrSkip("temp2")>>))
    <3>1. /\ DirectOrSkip("temp1").sources = {"temp1"}
          /\ "unlisted" \notin DirectOrSkip("temp1").fails
      BY GroupKinds
    <3>2. /\ DirectOrSkip("temp2").sources = {"temp2"}
          /\ "unlisted" \notin DirectOrSkip("temp2").fails
      BY GroupKinds
    <3> QED
      BY <3>1, <3>2, TwoGroups DEF Rules
  <2> QED
    BY <2>1 DEF Hwmon
<1>14. \A c \in DOMAIN Supervisor : WellFormed(Supervisor[c])
  <2>1. WellFormed(Check("services", <<Direct("service1")>>))
    BY OneSource DEF Rules
  <2>2. WellFormed(Check("services", <<Group({"service1", "service2"}, "none", {"raise"}, FALSE)>>))
    BY TwoListed DEF Rules
  <2> QED
    BY <2>1, <2>2 DEF Supervisor
<1>15. \A c \in DOMAIN Processes : WellFormed(Processes[c])
  <2>1. WellFormed(Check("less", <<Direct("pids")>>))
    BY OneSource DEF Rules
  <2>2. WellFormed(Check("zombies", <<Direct("zombie1"), Direct("zombie2")>>))
    <3>1. /\ Direct("zombie1").sources = {"zombie1"}
          /\ "unlisted" \notin Direct("zombie1").fails
      BY GroupKinds
    <3>2. /\ Direct("zombie2").sources = {"zombie2"}
          /\ "unlisted" \notin Direct("zombie2").fails
      BY GroupKinds
    <3> QED
      BY <3>1, <3>2, TwoGroups DEF Rules
  <2>3. WellFormed(Check("running", <<Group({"process1"}, "none", {"skip"}, FALSE),
                                      Group({"process2"}, "none", {"skip"}, FALSE)>>))
    <3>1. /\ Group({"process1"}, "none", {"skip"}, FALSE).sources = {"process1"}
          /\ "unlisted" \notin Group({"process1"}, "none", {"skip"}, FALSE).fails
      BY DEF Group
    <3>2. /\ Group({"process2"}, "none", {"skip"}, FALSE).sources = {"process2"}
          /\ "unlisted" \notin Group({"process2"}, "none", {"skip"}, FALSE).fails
      BY DEF Group
    <3> QED
      BY <3>1, <3>2, TwoGroups DEF Rules
  <2>4. WellFormed(Check("less", <<Last(DirectOrSkip("fds")), Direct("files")>>))
    <3>1. /\ Last(DirectOrSkip("fds")).sources = {"fds"}
          /\ "unlisted" \notin Last(DirectOrSkip("fds")).fails
      BY GroupKinds
    <3>2. /\ Direct("files").sources = {"files"}
          /\ "unlisted" \notin Direct("files").fails
      BY GroupKinds
    <3> QED
      BY <3>1, <3>2, TwoGroups DEF Rules
  <2> QED
    BY <2>1, <2>2, <2>3, <2>4 DEF Processes
<1>16. \A c \in DOMAIN Command : WellFormed(Command[c])
  <2>1. WellFormed(Check("exit code", <<Direct("command")>>))
    BY OneSource DEF Rules
  <2>2. DOMAIN Command = {"command"}
    BY DEF Command
  <2>3. Command["command"] = Check("exit code", <<Direct("command")>>)
    BY DEF Command
  <2> QED
    BY <2>1, <2>2, <2>3
<1>17. \A t \in {HTTP, HTTPJSON, TCP, SimpleDomain} : \A c \in DOMAIN t : WellFormed(t[c])
  <2>1. WellFormed(Request("latency", "latency", {"CRIT", "raise"}))
    BY OneListed DEF Request, Rules
  <2>2. WellFormed(Request("answer", "port", {"CRIT"}))
    BY OneListed DEF Request, Rules
  <2>3. WellFormed(Request("answer", "name", {"CRIT"}))
    BY OneListed DEF Request, Rules
  <2> QED
    BY <2>1, <2>2, <2>3 DEF HTTP, HTTPJSON, TCP, SimpleDomain
<1> QED
  BY <1>1, <1>2, <1>3, <1>4, <1>5, <1>6, <1>7, <1>8, <1>9, <1>10, <1>11, <1>12, <1>13, <1>14,
     <1>15, <1>16, <1>17 DEF Plugins

-----------------------------------------------------------------------------
(* The inductive invariant.                                                *)

\* A reading, or none.
LevelOrNone == Nat \cup {NotRead}

\* Where a run may be.
Places == {"idle", "access", "fetch", "store", "return"}

\* The checks that run are those of a configuration.
ChecksKnown == \A c \in active : WellFormed(CheckOf(c))

\* The levels, and what each job has of them.
LevelsTyped ==
  /\ level \in [Sources -> Nat]
  /\ atStart \in Seq([Sources -> Nat])
  /\ cache \in Seq([Sources -> LevelOrNone])
  /\ Len(atStart) = Len(cache)

\* Where the runs are, and what they have read.
RunsTyped ==
  /\ pc \in [active -> Places]
  /\ job \in [active -> 0..Len(cache)]
  /\ at \in [active -> Nat]
  /\ \A c \in active : at[c] \in DOMAIN CheckOf(c).groups
  /\ DOMAIN seen = active /\ DOMAIN own = active
  /\ \A c \in active : /\ seen[c] \in [SourcesOf(CheckOf(c)) -> LevelOrNone]
                       /\ own[c] \in [SourcesOf(CheckOf(c)) -> LevelOrNone]

\* A run belongs to a job.
RunsHaveJobs ==
  /\ due \subseteq active
  /\ due # {} => Len(cache) > 0
  /\ \A c \in active : pc[c] # "idle" => job[c] > 0

\* What a job found when it started only got worse.
LevelsGrow == \A j \in 1..Len(cache) : \A s \in Sources : atStart[j][s] <= level[s]

\* What a run has fetched, but not stored yet, is not older than its job either.
OwnIsFresh == \A c \in active : job[c] > 0 => NoOlderThan(own[c], job[c])

\* The inductive invariant.
IInv ==
  /\ ChecksKnown
  /\ LevelsTyped
  /\ RunsTyped
  /\ RunsHaveJobs
  /\ LevelsGrow
  /\ OwnIsFresh
  /\ Fresh

-----------------------------------------------------------------------------
\* A check reads sources of its own, which are sources of the plugin.
LEMMA GroupSources ==
  ASSUME IInv, NEW c \in active
  PROVE  /\ GroupOf(c).sources \subseteq SourcesOf(CheckOf(c))
         /\ SourcesOf(CheckOf(c)) \subseteq Sources
<1>1. at[c] \in DOMAIN CheckOf(c).groups
  BY DEF IInv, RunsTyped
<1>2. GroupOf(c).sources \subseteq SourcesOf(CheckOf(c))
  BY <1>1 DEF GroupOf, SourcesOf
<1>3. SourcesOf(CheckOf(c)) \subseteq Sources
  BY DEF Sources
<1> QED
  BY <1>2, <1>3

\* What nobody has read is older than nothing.
LEMMA UnreadIsFresh ==
  ASSUME NEW S, NEW j
  PROVE  /\ [s \in S |-> NotRead] \in [S -> LevelOrNone]
         /\ NoOlderThan([s \in S |-> NotRead], j)
BY DEF NoOlderThan, LevelOrNone

\* The table does not change.
LEMMA TableUnchanged ==
  ASSUME UNCHANGED <<plugin, active>>
  PROVE  /\ Sources' = Sources
         /\ \A d \in active : CheckOf(d)' = CheckOf(d)
         /\ \A d \in active : SourcesOf(CheckOf(d))' = SourcesOf(CheckOf(d))
<1>1. \A d : CheckOf(d)' = CheckOf(d)
  BY DEF CheckOf
<1>2. \A d : SourcesOf(CheckOf(d))' = SourcesOf(CheckOf(d))
  BY <1>1 DEF SourcesOf
<1>3. Sources' = Sources
  BY <1>2 DEF Sources
<1> QED
  BY <1>1, <1>2, <1>3

\* The initial state.
LEMMA InitIInv == Init => IInv
<1> SUFFICES ASSUME Init PROVE IInv
  OBVIOUS
<1>1. ChecksKnown
  BY ConfigurationsAssumption, TableIsWellFormed DEF Init, ChecksKnown, CheckOf
<1>2. LevelsTyped /\ LevelsGrow
  BY DEF Init, LevelsTyped, LevelsGrow
<1>3. RunsTyped
  <2>1. \A c \in active : 1 \in DOMAIN CheckOf(c).groups
    BY <1>1 DEF ChecksKnown, WellFormed
  <2>2. \A c \in active : Unread(c) \in [SourcesOf(CheckOf(c)) -> LevelOrNone]
    BY UnreadIsFresh DEF Unread
  <2>3. DOMAIN seen = active /\ DOMAIN own = active
    BY DEF Init
  <2>4. \A c \in active : seen[c] = Unread(c) /\ own[c] = Unread(c) /\ at[c] = 1
    BY DEF Init
  <2>5. /\ pc \in [active -> Places] /\ job \in [active -> 0..Len(cache)]
        /\ at \in [active -> Nat]
    BY DEF Init, Places
  <2> QED
    BY <2>1, <2>2, <2>3, <2>4, <2>5 DEF RunsTyped
<1>4. RunsHaveJobs /\ OwnIsFresh /\ Fresh
  BY DEF Init, RunsHaveJobs, OwnIsFresh, Fresh
<1> QED
  BY <1>1, <1>2, <1>3, <1>4 DEF IInv

-----------------------------------------------------------------------------
\* A step of a run that keeps what it read, and what the caches keep, as old as the job.
LEMMA RunKeepsFresh ==
  ASSUME IInv, NEW c \in active, pc[c] # "idle",
         UNCHANGED <<plugin, active, level, due, atStart, job>>,
         pc' \in [active -> Places],
         \A d \in active : d # c => pc'[d] = pc[d],
         at' \in [active -> Nat],
         \A d \in active : at'[d] \in DOMAIN CheckOf(d).groups,
         cache' \in Seq([Sources -> LevelOrNone]),
         Len(cache') = Len(cache),
         \A j \in 1..Len(cache) : NoOlderThan(cache'[j], j),
         DOMAIN seen' = active,
         \A d \in active : d # c => seen'[d] = seen[d],
         seen'[c] \in [SourcesOf(CheckOf(c)) -> LevelOrNone],
         NoOlderThan(seen'[c], job[c]),
         DOMAIN own' = active,
         \A d \in active : d # c => own'[d] = own[d],
         own'[c] \in [SourcesOf(CheckOf(c)) -> LevelOrNone],
         NoOlderThan(own'[c], job[c])
  PROVE  IInv'
<1>1. /\ Sources' = Sources
      /\ \A d \in active : CheckOf(d)' = CheckOf(d)
      /\ \A d \in active : SourcesOf(CheckOf(d))' = SourcesOf(CheckOf(d))
  BY TableUnchanged
<1>2. ChecksKnown'
  BY <1>1 DEF IInv, ChecksKnown
<1>3. LevelsTyped'
  BY <1>1 DEF IInv, LevelsTyped
<1>4. RunsTyped'
  <2>1. \A d \in active : /\ seen'[d] \in [SourcesOf(CheckOf(d)) -> LevelOrNone]
                          /\ own'[d] \in [SourcesOf(CheckOf(d)) -> LevelOrNone]
    BY DEF IInv, RunsTyped
  <2>2. job' \in [active -> 0..Len(cache')]
    BY DEF IInv, RunsTyped
  <2> QED
    BY <1>1, <2>1, <2>2 DEF RunsTyped
<1>5. RunsHaveJobs'
  BY DEF IInv, RunsHaveJobs
<1>6. LevelsGrow'
  BY <1>1 DEF IInv, LevelsGrow
<1>7. ASSUME NEW readings, NEW j PROVE NoOlderThan(readings, j)' <=> NoOlderThan(readings, j)
  BY DEF NoOlderThan
<1>8. \A d \in active : job[d] > 0 => /\ NoOlderThan(seen'[d], job[d])
                                      /\ NoOlderThan(own'[d], job[d])
  BY DEF IInv, Fresh, OwnIsFresh
<1>9. DOMAIN cache = 1..Len(cache) /\ DOMAIN cache' = 1..Len(cache)
  BY DEF IInv, LevelsTyped
<1>10. OwnIsFresh'
  BY <1>8 DEF OwnIsFresh, NoOlderThan
<1>11. Fresh'
  BY <1>8, <1>9 DEF Fresh, NoOlderThan
<1> QED
  BY <1>2, <1>3, <1>4, <1>5, <1>6, <1>10, <1>11 DEF IInv

\* A run goes on to the next group or to its end.
LEMMA ContinueStep ==
  ASSUME IInv, NEW c \in active, NEW read, Continue(c, read)
  PROVE  /\ pc' \in [active -> Places]
         /\ \A d \in active : d # c => pc'[d] = pc[d]
         /\ at' \in [active -> Nat]
         /\ \A d \in active : at'[d] \in DOMAIN CheckOf(d).groups
<1>1. /\ pc \in [active -> Places] /\ at \in [active -> Nat]
      /\ \A d \in active : at[d] \in DOMAIN CheckOf(d).groups
  BY DEF IInv, RunsTyped
<1>2. CASE \E status : Finish(c, status, FALSE, read)
  BY <1>1, <1>2 DEF Finish, Places
<1>3. CASE /\ at[c] # Len(CheckOf(c).groups)
           /\ at' = [at EXCEPT ![c] = @ + 1]
           /\ pc' = [pc EXCEPT ![c] = "access"]
  <2>1. at[c] + 1 \in DOMAIN CheckOf(c).groups
    BY <1>1, <1>3 DEF IInv, ChecksKnown, WellFormed
  <2> QED
    BY <1>1, <1>3, <2>1 DEF Places
<1> QED
  BY <1>2, <1>3 DEF Continue

\* A reading of the system is not older than any job.
LEMMA LevelIsFresh ==
  ASSUME IInv, NEW c \in active, job[c] > 0, NEW s \in Sources
  PROVE  level[s] \in Nat /\ level[s] >= atStart[job[c]][s]
<1>1. job[c] \in 1..Len(cache) /\ level[s] \in Nat /\ atStart[job[c]][s] \in Nat
  BY DEF IInv, RunsTyped, LevelsTyped
<1>2. atStart[job[c]][s] <= level[s]
  BY <1>1 DEF IInv, LevelsGrow
<1> QED
  BY <1>1, <1>2

\* What the invariant says of the run of one check.
LEMMA RunFacts ==
  ASSUME IInv, NEW c \in active, pc[c] # "idle"
  PROVE  /\ job[c] \in 1..Len(cache) /\ job[c] > 0
         /\ DOMAIN seen[c] = SourcesOf(CheckOf(c)) /\ DOMAIN own[c] = SourcesOf(CheckOf(c))
         /\ seen[c] \in [SourcesOf(CheckOf(c)) -> LevelOrNone]
         /\ own[c] \in [SourcesOf(CheckOf(c)) -> LevelOrNone]
         /\ NoOlderThan(seen[c], job[c]) /\ NoOlderThan(own[c], job[c])
         /\ DOMAIN seen = active /\ DOMAIN own = active
         /\ cache[job[c]] \in [Sources -> LevelOrNone]
         /\ NoOlderThan(cache[job[c]], job[c])
<1>1. job[c] \in 1..Len(cache) /\ job[c] > 0
  BY DEF IInv, RunsTyped, RunsHaveJobs, LevelsTyped
<1>2. cache[job[c]] \in [Sources -> LevelOrNone] /\ job[c] \in DOMAIN cache
  BY <1>1 DEF IInv, LevelsTyped
<1> QED
  BY <1>1, <1>2 DEF IInv, RunsTyped, OwnIsFresh, Fresh

\* What the invariant says of the runs as a whole, for the steps that leave some of it alone.
LEMMA AllFacts ==
  ASSUME IInv
  PROVE  /\ cache \in Seq([Sources -> LevelOrNone])
         /\ \A j \in 1..Len(cache) : NoOlderThan(cache[j], j)
         /\ pc \in [active -> Places] /\ at \in [active -> Nat]
         /\ \A d \in active : at[d] \in DOMAIN CheckOf(d).groups
<1>1. cache \in Seq([Sources -> LevelOrNone]) /\ DOMAIN cache = 1..Len(cache)
  BY DEF IInv, LevelsTyped
<1> QED
  BY <1>1 DEF IInv, RunsTyped, Fresh

-----------------------------------------------------------------------------
\* The steps of a run that read nothing, or leave a group out.
LEMMA QuietRunStep ==
  ASSUME IInv, NEW c \in active, LookUp(c) \/ QuerySkips(c) \/ ReadingFails(c)
  PROVE  IInv'
<1>1. pc[c] # "idle"
  BY DEF LookUp, QuerySkips, ReadingFails, Reading
<1>2. UNCHANGED <<plugin, active, level, due, atStart, job, cache, seen, own>>
  BY DEF LookUp, QuerySkips, ReadingFails
<1>3. /\ pc' \in [active -> Places]
      /\ \A d \in active : d # c => pc'[d] = pc[d]
      /\ at' \in [active -> Nat]
      /\ \A d \in active : at'[d] \in DOMAIN CheckOf(d).groups
  <2>1. CASE LookUp(c)
    BY <2>1, AllFacts DEF LookUp, Places
  <2>2. CASE QuerySkips(c)
    BY <2>2, ContinueStep DEF QuerySkips
  <2>3. CASE ReadingFails(c)
    BY <2>3, AllFacts DEF ReadingFails, Finish, Places
  <2> QED
    BY <2>1, <2>2, <2>3
<1> QED
  BY <1>1, <1>2, <1>3, RunKeepsFresh, RunFacts, AllFacts

\* A reading that will be cached.
LEMMA FetchStep == ASSUME IInv, NEW c \in active, Fetch(c) PROVE IInv'
<1>1. pc[c] # "idle"
  BY DEF Fetch
<1>2. UNCHANGED <<plugin, active, level, due, atStart, job, cache, seen, at>>
  BY DEF Fetch
<1>3. pc' \in [active -> Places] /\ \A d \in active : d # c => pc'[d] = pc[d]
  BY AllFacts DEF Fetch, Places
<1>4. /\ own'[c] = [s \in SourcesOf(CheckOf(c)) |->
                      IF s \in GroupOf(c).sources THEN level[s] ELSE own[c][s]]
      /\ DOMAIN own' = active /\ \A d \in active : d # c => own'[d] = own[d]
  BY <1>1, RunFacts DEF Fetch, WithGroup
<1>5. ASSUME NEW s \in SourcesOf(CheckOf(c))
      PROVE  /\ own'[c][s] \in LevelOrNone
             /\ own'[c][s] # NotRead => own'[c][s] >= atStart[job[c]][s]
  <2>1. CASE s \in GroupOf(c).sources
    BY <1>1, <1>4, <2>1, GroupSources, LevelIsFresh, RunFacts DEF LevelOrNone
  <2>2. CASE s \notin GroupOf(c).sources
    BY <1>1, <1>4, <2>2, RunFacts DEF NoOlderThan
  <2> QED
    BY <2>1, <2>2
<1>6. own'[c] \in [SourcesOf(CheckOf(c)) -> LevelOrNone]
  BY <1>4, <1>5
<1>7. NoOlderThan(own'[c], job[c])
  BY <1>5, <1>6 DEF NoOlderThan
<1> QED
  BY <1>1, <1>2, <1>3, <1>4, <1>6, <1>7, RunKeepsFresh, RunFacts, AllFacts

\* The reading is cached.
LEMMA StoreStep == ASSUME IInv, NEW c \in active, Store(c) PROVE IInv'
<1>1. pc[c] # "idle"
  BY DEF Store
<1>2. UNCHANGED <<plugin, active, level, due, atStart, job, seen, at, own>>
  BY DEF Store
<1>3. pc' \in [active -> Places] /\ \A d \in active : d # c => pc'[d] = pc[d]
  BY AllFacts DEF Store, Places
<1>4. /\ cache' \in Seq([Sources -> LevelOrNone]) /\ Len(cache') = Len(cache)
      /\ \A j \in 1..Len(cache) : NoOlderThan(cache'[j], j)
  <2>1. CASE cache' = cache
    BY <2>1, AllFacts
  <2>2. CASE cache' = [cache EXCEPT ![job[c]] = WithGroup(c, @, LAMBDA s : own[c][s])]
    <3> DEFINE new == [s \in Sources |->
                         IF s \in GroupOf(c).sources THEN own[c][s] ELSE cache[job[c]][s]]
    <3>1. cache' = [cache EXCEPT ![job[c]] = new]
      BY <1>1, <2>2, RunFacts DEF WithGroup
    <3>2. ASSUME NEW s \in Sources
          PROVE  /\ new[s] \in LevelOrNone
                 /\ new[s] # NotRead => new[s] >= atStart[job[c]][s]
      <4>1. CASE s \in GroupOf(c).sources
        BY <1>1, <4>1, GroupSources, RunFacts DEF NoOlderThan
      <4>2. CASE s \notin GroupOf(c).sources
        BY <1>1, <4>2, RunFacts DEF NoOlderThan
      <4> QED
        BY <4>1, <4>2
    <3>3. new \in [Sources -> LevelOrNone]
      BY <3>2
    <3>4. NoOlderThan(new, job[c])
      BY <3>2 DEF NoOlderThan
    <3> HIDE DEF new
    <3>5. /\ cache \in Seq([Sources -> LevelOrNone]) /\ job[c] \in 1..Len(cache)
          /\ \A j \in 1..Len(cache) : NoOlderThan(cache[j], j)
      BY <1>1, AllFacts, RunFacts
    <3>6. cache' \in Seq([Sources -> LevelOrNone]) /\ Len(cache') = Len(cache)
      BY <3>1, <3>3, <3>5
    <3>7. \A j \in 1..Len(cache) : cache'[j] = IF j = job[c] THEN new ELSE cache[j]
      BY <3>1, <3>5
    <3> QED
      BY <3>4, <3>5, <3>6, <3>7
  <2> QED
    BY <2>1, <2>2 DEF Store
<1> QED
  BY <1>1, <1>2, <1>3, <1>4, RunKeepsFresh, RunFacts, AllFacts

\* A reading that no cache keeps, and one that the cache, or the call, returns.
LEMMA ReadStep == ASSUME IInv, NEW c \in active, Query(c) \/ Return(c) PROVE IInv'
<1>1. pc[c] # "idle"
  BY DEF Query, Return
<1>2. UNCHANGED <<plugin, active, level, due, atStart, job, cache>>
  BY DEF Query, Return
<1>3. /\ pc' \in [active -> Places]
      /\ \A d \in active : d # c => pc'[d] = pc[d]
      /\ at' \in [active -> Nat]
      /\ \A d \in active : at'[d] \in DOMAIN CheckOf(d).groups
  <2>1. PICK read : Continue(c, read)
    BY DEF Query, Return
  <2> QED
    BY <2>1, ContinueStep
<1>4. /\ DOMAIN own' = active /\ \A d \in active : d # c => own'[d] = own[d]
      /\ own'[c] \in [SourcesOf(CheckOf(c)) -> LevelOrNone]
      /\ NoOlderThan(own'[c], job[c])
  BY <1>1, RunFacts, UnreadIsFresh DEF Query, Return, Unread
<1>5. /\ DOMAIN seen' = active /\ \A d \in active : d # c => seen'[d] = seen[d]
      /\ seen'[c] \in [SourcesOf(CheckOf(c)) -> LevelOrNone]
      /\ NoOlderThan(seen'[c], job[c])
  <2>1. DOMAIN seen' = active /\ \A d \in active : d # c => seen'[d] = seen[d]
    BY <1>1, RunFacts DEF Query, Return
  <2>2. PICK value \in [SourcesOf(CheckOf(c)) -> LevelOrNone] :
          /\ NoOlderThan(value, job[c])
          /\ seen'[c] = [s \in SourcesOf(CheckOf(c)) |->
                           IF s \in GroupOf(c).sources THEN value[s] ELSE seen[c][s]]
    <3>1. CASE Query(c)
      <4> DEFINE value == [s \in SourcesOf(CheckOf(c)) |-> level[s]]
      <4>1. seen'[c] = [s \in SourcesOf(CheckOf(c)) |->
                          IF s \in GroupOf(c).sources THEN level[s] ELSE seen[c][s]]
        BY <1>1, <3>1, RunFacts DEF Query, WithGroup
      <4>2. \A s \in SourcesOf(CheckOf(c)) :
              level[s] \in LevelOrNone /\ level[s] >= atStart[job[c]][s]
        BY <1>1, GroupSources, LevelIsFresh, RunFacts DEF LevelOrNone
      <4>3. value \in [SourcesOf(CheckOf(c)) -> LevelOrNone] /\ NoOlderThan(value, job[c])
        BY <4>2 DEF NoOlderThan
      <4>4. seen'[c] = [s \in SourcesOf(CheckOf(c)) |->
                          IF s \in GroupOf(c).sources THEN value[s] ELSE seen[c][s]]
        BY <4>1
      <4> QED
        BY <4>3, <4>4
    <3>2. CASE Return(c)
      <4> DEFINE value == [s \in SourcesOf(CheckOf(c)) |->
                             Listed(c, IF GroupOf(c).cache = "lru" /\ own[c][s] # NotRead
                                       THEN own[c][s] ELSE cache[job[c]][s])]
      <4>1. seen'[c] = [s \in SourcesOf(CheckOf(c)) |->
                          IF s \in GroupOf(c).sources
                          THEN Listed(c, IF GroupOf(c).cache = "lru" /\ own[c][s] # NotRead
                                         THEN own[c][s] ELSE cache[job[c]][s])
                          ELSE seen[c][s]]
        BY <1>1, <3>2, RunFacts DEF Return, WithGroup
      <4>2. \A s \in SourcesOf(CheckOf(c)) :
              /\ own[c][s] \in LevelOrNone /\ cache[job[c]][s] \in LevelOrNone
              /\ own[c][s] # NotRead => own[c][s] >= atStart[job[c]][s]
              /\ cache[job[c]][s] # NotRead => cache[job[c]][s] >= atStart[job[c]][s]
        BY <1>1, GroupSources, RunFacts DEF NoOlderThan
      <4>3. value \in [SourcesOf(CheckOf(c)) -> LevelOrNone] /\ NoOlderThan(value, job[c])
        BY <4>2 DEF NoOlderThan, Listed, LevelOrNone
      <4>4. seen'[c] = [s \in SourcesOf(CheckOf(c)) |->
                          IF s \in GroupOf(c).sources THEN value[s] ELSE seen[c][s]]
        BY <4>1
      <4> QED
        BY <4>3, <4>4
    <3> QED
      BY <3>1, <3>2
  <2>3. ASSUME NEW s \in SourcesOf(CheckOf(c))
        PROVE  /\ seen'[c][s] \in LevelOrNone
               /\ seen'[c][s] # NotRead => seen'[c][s] >= atStart[job[c]][s]
    BY <1>1, <2>2, RunFacts DEF NoOlderThan
  <2>4. seen'[c] \in [SourcesOf(CheckOf(c)) -> LevelOrNone]
    BY <2>2, <2>3
  <2>5. NoOlderThan(seen'[c], job[c])
    BY <2>3, <2>4 DEF NoOlderThan
  <2> QED
    BY <2>1, <2>4, <2>5
<1> QED
  BY <1>1, <1>2, <1>3, <1>4, <1>5, RunKeepsFresh, AllFacts

-----------------------------------------------------------------------------
\* The system gets worse.
LEMMA DegradeStep == ASSUME IInv, NEW s \in DOMAIN level, Degrade(s) PROVE IInv'
<1>1. /\ level' = [level EXCEPT ![s] = @ + 1]
      /\ UNCHANGED <<plugin, active, pool, due, atStart, cache, runVars>>
  BY DEF Degrade
<1>2. /\ Sources' = Sources
      /\ \A d \in active : CheckOf(d)' = CheckOf(d)
      /\ \A d \in active : SourcesOf(CheckOf(d))' = SourcesOf(CheckOf(d))
  BY <1>1, TableUnchanged
<1>3. ChecksKnown' /\ RunsHaveJobs'
  BY <1>1, <1>2 DEF IInv, ChecksKnown, RunsHaveJobs, runVars
<1>4. LevelsTyped'
  BY <1>1, <1>2 DEF IInv, LevelsTyped
<1>5. RunsTyped'
  BY <1>1, <1>2 DEF IInv, RunsTyped, runVars
<1>6. LevelsGrow'
  <2> SUFFICES ASSUME NEW j \in 1..Len(cache), NEW r \in Sources
               PROVE  atStart[j][r] <= level'[r]
    BY <1>1, <1>2 DEF LevelsGrow
  <2>1. atStart[j][r] <= level[r] /\ atStart[j][r] \in Nat /\ level[r] \in Nat
    BY DEF IInv, LevelsGrow, LevelsTyped
  <2>2. level'[r] \in {level[r], level[r] + 1}
    BY <1>1 DEF IInv, LevelsTyped
  <2> QED
    BY <2>1, <2>2
<1>7. OwnIsFresh' /\ Fresh'
  BY <1>1 DEF IInv, OwnIsFresh, Fresh, NoOlderThan, runVars
<1> QED
  BY <1>3, <1>4, <1>5, <1>6, <1>7 DEF IInv

\* A job makes a new instance, with nothing in its caches.
LEMMA StartJobStep == ASSUME IInv, StartJob PROVE IInv'
<1>1. /\ due' = active /\ atStart' = Append(atStart, level) /\ cache' = Append(cache, EmptyCache)
      /\ UNCHANGED <<plugin, active, pool, level, runVars>>
  BY DEF StartJob, NewInstance
<1>2. /\ Sources' = Sources
      /\ \A d \in active : CheckOf(d)' = CheckOf(d)
      /\ \A d \in active : SourcesOf(CheckOf(d))' = SourcesOf(CheckOf(d))
  BY <1>1, TableUnchanged
<1>3. /\ level \in [Sources -> Nat] /\ atStart \in Seq([Sources -> Nat])
      /\ cache \in Seq([Sources -> LevelOrNone]) /\ Len(atStart) = Len(cache) /\ Len(cache) \in Nat
      /\ EmptyCache \in [Sources -> LevelOrNone]
  <2>1. EmptyCache \in [Sources -> LevelOrNone]
    BY UnreadIsFresh DEF EmptyCache
  <2> QED
    BY <2>1 DEF IInv, LevelsTyped
<1>4. /\ Len(cache') = Len(cache) + 1
      /\ \A j \in 1..Len(cache) : cache'[j] = cache[j] /\ atStart'[j] = atStart[j]
      /\ cache'[Len(cache) + 1] = EmptyCache /\ atStart'[Len(cache) + 1] = level
      /\ \A j \in 1..Len(cache') : j \in 1..Len(cache) \/ j = Len(cache) + 1
  BY <1>1, <1>3
<1>5. ChecksKnown'
  BY <1>1, <1>2 DEF IInv, ChecksKnown
<1>6. LevelsTyped'
  BY <1>1, <1>2, <1>3 DEF LevelsTyped
<1>7. RunsTyped'
  <2>1. job' \in [active -> 0..Len(cache')]
    BY <1>1, <1>3, <1>4 DEF IInv, RunsTyped, runVars
  <2> QED
    BY <1>1, <1>2, <2>1 DEF IInv, RunsTyped, runVars
<1>8. RunsHaveJobs'
  BY <1>1, <1>3, <1>4 DEF IInv, RunsHaveJobs, runVars
<1>9. LevelsGrow'
  <2> SUFFICES ASSUME NEW j \in 1..Len(cache'), NEW s \in Sources
               PROVE  atStart'[j][s] <= level[s]
    BY <1>1, <1>2 DEF LevelsGrow
  <2>1. CASE j \in 1..Len(cache)
    BY <1>4, <2>1 DEF IInv, LevelsGrow
  <2>2. CASE j = Len(cache) + 1
    BY <1>3, <1>4, <2>2
  <2> QED
    BY <1>4, <2>1, <2>2
<1>10. ASSUME NEW readings, NEW j \in 1..Len(cache), NoOlderThan(readings, j)
       PROVE  NoOlderThan(readings, j)'
  BY <1>4, <1>10 DEF NoOlderThan
<1>11. ASSUME NEW c \in active, job[c] > 0 PROVE job[c] \in 1..Len(cache)
  BY <1>3, <1>11 DEF IInv, RunsTyped
<1>12. OwnIsFresh'
  <2> SUFFICES ASSUME NEW c \in active, job[c] > 0 PROVE NoOlderThan(own[c], job[c])'
    BY <1>1 DEF OwnIsFresh, runVars
  <2>1. NoOlderThan(own[c], job[c])
    BY DEF IInv, OwnIsFresh
  <2>2. \A s \in DOMAIN own[c] : own[c][s] # NotRead => own[c][s] >= atStart'[job[c]][s]
    BY <1>4, <1>11, <2>1 DEF NoOlderThan
  <2> QED
    BY <1>1, <2>2 DEF NoOlderThan, runVars
<1>13. Fresh'
  <2>1. ASSUME NEW j \in DOMAIN cache' PROVE NoOlderThan(cache[j], j)'
    <3>1. DOMAIN cache' = 1..Len(cache') /\ DOMAIN cache = 1..Len(cache)
      BY <1>1, <1>3
    <3>2. CASE j \in 1..Len(cache)
      <4>1. NoOlderThan(cache[j], j)
        BY <3>1, <3>2 DEF IInv, Fresh
      <4>2. \A s \in DOMAIN cache'[j] : cache'[j][s] # NotRead => cache'[j][s] >= atStart'[j][s]
        BY <1>4, <3>2, <4>1 DEF NoOlderThan
      <4> QED
        BY <4>2 DEF NoOlderThan
    <3>3. CASE j = Len(cache) + 1
      <4>1. \A s \in DOMAIN cache'[j] : cache'[j][s] = NotRead
        BY <1>4, <3>3 DEF EmptyCache
      <4> QED
        BY <4>1 DEF NoOlderThan
    <3> QED
      BY <1>4, <3>1, <3>2, <3>3
  <2>2. ASSUME NEW c \in active, job[c] > 0 PROVE NoOlderThan(seen[c], job[c])'
    <3>1. NoOlderThan(seen[c], job[c])
      BY <2>2 DEF IInv, Fresh
    <3>2. \A s \in DOMAIN seen[c] : seen[c][s] # NotRead => seen[c][s] >= atStart'[job[c]][s]
      BY <1>4, <1>11, <2>2, <3>1 DEF NoOlderThan
    <3> QED
      BY <1>1, <3>2 DEF NoOlderThan, runVars
  <2> QED
    BY <1>1, <2>1, <2>2 DEF Fresh, runVars
<1> QED
  BY <1>5, <1>6, <1>7, <1>8, <1>9, <1>12, <1>13 DEF IInv

\* A run starts for the last job, having read nothing; or there is none.
LEMMA StartCheckStep == ASSUME IInv, NEW c \in active, StartCheck(c) \/ SkipCheck(c) PROVE IInv'
<1>1. /\ UNCHANGED <<plugin, active, pool, level, atStart, cache, results>>
      /\ c \in due /\ due' = due \ {c}
  BY DEF StartCheck, SkipCheck, runVars
<1>2. /\ Sources' = Sources
      /\ \A d \in active : CheckOf(d)' = CheckOf(d)
      /\ \A d \in active : SourcesOf(CheckOf(d))' = SourcesOf(CheckOf(d))
  BY <1>1, TableUnchanged
<1>3. ChecksKnown' /\ LevelsTyped' /\ LevelsGrow'
  BY <1>1, <1>2 DEF IInv, ChecksKnown, LevelsTyped, LevelsGrow
<1>4. Len(cache) \in Nat /\ Len(cache) > 0
  BY <1>1 DEF IInv, LevelsTyped, RunsHaveJobs
<1>5. CASE StartCheck(c)
  <2>1. /\ pc' = [pc EXCEPT ![c] = "access"] /\ job' = [job EXCEPT ![c] = Len(cache)]
        /\ at' = [at EXCEPT ![c] = 1]
        /\ seen' = [seen EXCEPT ![c] = Unread(c)] /\ own' = [own EXCEPT ![c] = Unread(c)]
    BY <1>5 DEF StartCheck
  <2>2. /\ pc \in [active -> Places] /\ job \in [active -> 0..Len(cache)] /\ at \in [active -> Nat]
        /\ DOMAIN seen = active /\ DOMAIN own = active
    BY DEF IInv, RunsTyped
  <2>3. /\ Unread(c) \in [SourcesOf(CheckOf(c)) -> LevelOrNone]
        /\ \A s \in DOMAIN Unread(c) : Unread(c)[s] = NotRead
    BY UnreadIsFresh DEF Unread
  <2>4. 1 \in DOMAIN CheckOf(c).groups
    BY DEF IInv, ChecksKnown, WellFormed
  <2>5. /\ pc' \in [active -> Places] /\ job' \in [active -> 0..Len(cache)]
        /\ at' \in [active -> Nat]
        /\ DOMAIN seen' = active /\ DOMAIN own' = active
    BY <1>4, <2>1, <2>2 DEF Places
  <2>6. ASSUME NEW d \in active
        PROVE  /\ at'[d] \in DOMAIN CheckOf(d).groups
               /\ seen'[d] \in [SourcesOf(CheckOf(d)) -> LevelOrNone]
               /\ own'[d] \in [SourcesOf(CheckOf(d)) -> LevelOrNone]
    <3>1. CASE d = c
      BY <2>1, <2>2, <2>3, <2>4, <3>1
    <3>2. CASE d # c
      <4>1. at'[d] = at[d] /\ seen'[d] = seen[d] /\ own'[d] = own[d]
        BY <2>1, <2>2, <3>2
      <4> QED
        BY <4>1 DEF IInv, RunsTyped
    <3> QED
      BY <3>1, <3>2
  <2>7. RunsTyped'
    BY <1>1, <1>2, <2>5, <2>6 DEF RunsTyped
  <2>8. RunsHaveJobs'
    BY <1>1, <1>4, <2>1, <2>2 DEF IInv, RunsHaveJobs
  <2>9. ASSUME NEW d \in active, job'[d] > 0
        PROVE  /\ \A s \in DOMAIN seen'[d] : seen'[d][s] # NotRead =>
                                               seen'[d][s] >= atStart[job'[d]][s]
               /\ \A s \in DOMAIN own'[d] : own'[d][s] # NotRead =>
                                              own'[d][s] >= atStart[job'[d]][s]
    <3>1. CASE d = c
      BY <2>1, <2>2, <2>3, <3>1
    <3>2. CASE d # c
      <4>1. job'[d] = job[d] /\ seen'[d] = seen[d] /\ own'[d] = own[d]
        BY <2>1, <2>2, <3>2
      <4> QED
        BY <2>9, <4>1 DEF IInv, Fresh, OwnIsFresh, NoOlderThan
    <3> QED
      BY <3>1, <3>2
  <2>10. OwnIsFresh'
    BY <1>1, <2>9 DEF OwnIsFresh, NoOlderThan
  <2>11. Fresh'
    BY <1>1, <2>9 DEF IInv, Fresh, NoOlderThan
  <2> QED
    BY <1>3, <2>7, <2>8, <2>10, <2>11 DEF IInv
<1>6. CASE SkipCheck(c)
  <2>1. UNCHANGED runVars
    BY <1>6 DEF SkipCheck
  <2>2. RunsTyped' /\ RunsHaveJobs'
    BY <1>1, <1>2, <1>4, <2>1 DEF IInv, RunsTyped, RunsHaveJobs, runVars
  <2>3. OwnIsFresh' /\ Fresh'
    BY <1>1, <2>1 DEF IInv, OwnIsFresh, Fresh, NoOlderThan, runVars
  <2> QED
    BY <1>3, <2>2, <2>3 DEF IInv
<1> QED
  BY <1>5, <1>6

-----------------------------------------------------------------------------
\* Every step keeps the invariant.
LEMMA StepIInv == IInv /\ [Next]_vars => IInv'
<1> SUFFICES ASSUME IInv, [Next]_vars PROVE IInv'
  OBVIOUS
<1>1. CASE \E s \in DOMAIN level : Degrade(s)
  BY <1>1, DegradeStep
<1>2. CASE StartJob
  BY <1>2, StartJobStep
<1>3. CASE \E c \in active : StartCheck(c) \/ SkipCheck(c)
  BY <1>3, StartCheckStep
<1>4. CASE \E c \in active : RunOf(c)
  BY <1>4, QuietRunStep, FetchStep, StoreStep, ReadStep DEF RunOf
<1>5. CASE UNCHANGED vars
  <2>1. UNCHANGED <<plugin, active, pool, level, due, atStart, cache, pc, job, at, seen, own,
                    results>>
    BY <1>5 DEF vars, runVars
  <2>2. /\ Sources' = Sources
        /\ \A d \in active : CheckOf(d)' = CheckOf(d)
        /\ \A d \in active : SourcesOf(CheckOf(d))' = SourcesOf(CheckOf(d))
    BY <2>1, TableUnchanged
  <2>3. ChecksKnown' /\ LevelsTyped' /\ LevelsGrow' /\ RunsHaveJobs'
    BY <2>1, <2>2 DEF IInv, ChecksKnown, LevelsTyped, LevelsGrow, RunsHaveJobs
  <2>4. RunsTyped'
    BY <2>1, <2>2 DEF IInv, RunsTyped
  <2>5. OwnIsFresh' /\ Fresh'
    BY <2>1 DEF IInv, OwnIsFresh, Fresh, NoOlderThan
  <2> QED
    BY <2>3, <2>4, <2>5 DEF IInv
<1> QED
  BY <1>1, <1>2, <1>3, <1>4, <1>5 DEF Next

\* The invariant always holds.
LEMMA AlwaysIInv == Spec => []IInv
BY InitIInv, StepIInv, PTL DEF Spec

\* No check is ever handed a reading that was made before its job began, whoever raced it
\* for the cache and whatever job was not over.
THEOREM ReadingsAreFresh == Spec => []Fresh
<1>1. IInv => Fresh
  BY DEF IInv
<1> QED
  BY <1>1, AlwaysIInv, PTL

-----------------------------------------------------------------------------
(* The rules.                                                              *)

\* What a check may have read of the sources S, within the bound.
Readings(S) == [S -> (0..MaxLevel) \cup {NotRead}]

\* Whoever reads b instead of a reads what is in a, and it is no better.
NoBetter(a, b) == \A s \in Read(a) : s \in Read(b) /\ a[s] <= b[s]

\* What a check may return: a status, or the exit code of a command that is none.
Statuses == {OK, WARN, CRIT, UNKNOWN, 127}

\* The order of the statuses.
LEMMA Severities ==
  /\ Severity(OK) = 1 /\ Severity(UNKNOWN) = 2 /\ Severity(127) = 2
  /\ Severity(WARN) = 3 /\ Severity(CRIT) = 4
<1>1. Priority[1] = OK /\ Priority[2] = UNKNOWN /\ Priority[3] = WARN /\ Priority[4] = CRIT
  BY DEF Priority
<1>2. OK = 0 /\ WARN = 1 /\ CRIT = 2 /\ UNKNOWN = 3
  BY DEF OK, WARN, CRIT, UNKNOWN
<1>3. \A i \in 1..4 : i = 1 \/ i = 2 \/ i = 3 \/ i = 4
  OBVIOUS
<1>4. \A i \in 1..4 : /\ Priority[i] = OK <=> i = 1
                      /\ Priority[i] = UNKNOWN <=> i = 2
                      /\ Priority[i] = WARN <=> i = 3
                      /\ Priority[i] = CRIT <=> i = 4
  BY <1>1, <1>2, <1>3
<1>5. /\ OK \in OK..CRIT /\ WARN \in OK..CRIT /\ CRIT \in OK..CRIT
      /\ UNKNOWN \notin OK..CRIT /\ 127 \notin OK..CRIT
  BY <1>2
<1>6. Severity(OK) = 1
  BY <1>4, <1>5 DEF Severity
<1>7. Severity(UNKNOWN) = 2 /\ Severity(127) = 2
  BY <1>4, <1>5 DEF Severity
<1>8. Severity(WARN) = 3
  BY <1>4, <1>5 DEF Severity
<1>9. Severity(CRIT) = 4
  BY <1>4, <1>5 DEF Severity
<1> QED
  BY <1>6, <1>7, <1>8, <1>9

\* A set of naturals with a bound has a maximum.
LEMMA MaxExists ==
  ASSUME NEW S \in SUBSET Nat, S # {}, NEW n \in Nat, \A x \in S : x <= n
  PROVE  Max(S) \in S /\ \A x \in S : x <= Max(S)
<1> DEFINE B == {d \in Nat : \A x \in S : x <= d}
<1>1. PICK d \in B : \A y \in B : ~ (<<y, d>> \in OpToRel(<, Nat))
  <2>1. B \subseteq Nat /\ B # {}
    OBVIOUS
  <2> HIDE DEF B
  <2> QED
    BY <2>1, WFMin, NatLessThanWellFounded
<1>2. d \in Nat /\ \A x \in S : x <= d
  OBVIOUS
<1>3. d \in S
  <2> SUFFICES ASSUME d \notin S PROVE FALSE
    OBVIOUS
  <2>1. \A x \in S : x < d
    BY <1>2
  <2>2. d - 1 \in Nat /\ \A x \in S : x <= d - 1
    <3>1. PICK x \in S : TRUE
      OBVIOUS
    <3>2. x \in Nat /\ x < d
      BY <2>1, <3>1
    <3>3. d - 1 \in Nat
      BY <1>2, <3>2
    <3>4. \A y \in S : y \in Nat /\ y < d
      BY <2>1
    <3> QED
      BY <1>2, <3>3, <3>4
  <2>3. <<d - 1, d>> \in OpToRel(<, Nat)
    BY <1>2, <2>2 DEF OpToRel
  <2> QED
    BY <1>1, <2>2, <2>3
<1>4. Max(S) \in S /\ \A x \in S : Max(S) >= x
  <2>1. \E x \in S : \A y \in S : x >= y
    BY <1>2, <1>3
  <2> QED
    BY <2>1 DEF Max
<1> QED
  BY <1>4

\* The highest of what was read.
LEMMA HighestIs ==
  ASSUME NEW S, NEW r \in Readings(S)
  PROVE  /\ Highest(r) \in Nat
         /\ \A s \in Read(r) : r[s] <= Highest(r)
         /\ Highest(r) = 0 \/ \E s \in Read(r) : r[s] = Highest(r)
<1> DEFINE K == {0} \cup {r[s] : s \in Read(r)}
<1>1. \A k \in K : k \in Nat /\ k <= MaxLevel
  BY BoundsAssumption DEF Read, Readings, NotRead
<1>2. K \in SUBSET Nat /\ K # {} /\ MaxLevel \in Nat
  BY <1>1, BoundsAssumption
<1> HIDE DEF K
<1>3. Max(K) \in K /\ \A k \in K : k <= Max(K)
  BY <1>1, <1>2, MaxExists
<1>4. Highest(r) = Max(K)
  BY DEF Highest, K
<1> QED
  BY <1>1, <1>3, <1>4 DEF K

\* It is no lower for worse readings.
LEMMA HighestIsMonotone ==
  ASSUME NEW S, NEW T, NEW a \in Readings(S), NEW b \in Readings(T), NoBetter(a, b)
  PROVE  Highest(a) <= Highest(b)
<1>1. Highest(a) \in Nat /\ Highest(b) \in Nat
  BY HighestIs
<1>2. CASE Highest(a) = 0
  BY <1>1, <1>2
<1>3. ASSUME NEW s \in Read(a), a[s] = Highest(a) PROVE Highest(a) <= Highest(b)
  <2>1. s \in Read(b) /\ a[s] <= b[s]
    BY <1>3 DEF NoBetter
  <2>2. b[s] <= Highest(b) /\ b[s] \in Int
    <3>1. b[s] <= Highest(b)
      BY <2>1, HighestIs
    <3>2. b[s] \in Int
      BY <2>1, BoundsAssumption DEF Read, Readings, NotRead
    <3> QED
      BY <3>1, <3>2
  <2> QED
    BY <1>1, <1>3, <2>1, <2>2
<1> QED
  BY <1>2, <1>3, HighestIs

\* A higher value is no better, and what _value_to_status_more makes of what is left of
\* MaxLevel is what _value_to_status_less makes of the level.
LEMMA Thresholds ==
  ASSUME NEW v \in Nat, NEW w \in Nat, v <= w
  PROVE  /\ Severity(Less(v)) <= Severity(Less(w))
         /\ More(MaxLevel - v) = Less(v)
<1>1. Severity(Less(v)) <= Severity(Less(w))
  BY ThresholdsAssumption, Severities DEF Less
<1>2. More(MaxLevel - v) = Less(v)
  BY ThresholdsAssumption, BoundsAssumption DEF More, Less
<1> QED
  BY <1>1, <1>2

\* What a service in a state comes to.
LEMMA ServiceStatuses ==
  ASSUME NEW v \in Nat
  PROVE  ServiceStatus(v) = IF v >= 3 THEN CRIT ELSE IF v = 2 THEN WARN
                            ELSE IF v = 1 THEN UNKNOWN ELSE OK
<1>1. v = 0 \/ v = 1 \/ v = 2 \/ v >= 3
  OBVIOUS
<1>2. Priority[1] = OK /\ Priority[2] = UNKNOWN /\ Priority[3] = WARN /\ Priority[4] = CRIT
  BY DEF Priority
<1>3. CASE v >= 3
  BY <1>2, <1>3 DEF ServiceStatus
<1>4. CASE v = 2
  BY <1>2, <1>4 DEF ServiceStatus
<1>5. CASE v = 1
  BY <1>2, <1>5 DEF ServiceStatus
<1>6. CASE v = 0
  BY <1>2, <1>6 DEF ServiceStatus
<1> QED
  BY <1>1, <1>3, <1>4, <1>5, <1>6

\* A worse state is no better.
LEMMA ServiceIsMonotone ==
  ASSUME NEW v \in Nat, NEW w \in Nat, v <= w
  PROVE  Severity(ServiceStatus(v)) <= Severity(ServiceStatus(w))
BY ServiceStatuses, Severities

\* What a command that got so bad returns.
LEMMA ReturnCodes ==
  ASSUME NEW r, Highest(r) \in Nat
  PROVE  ReturnCode(r) = IF Highest(r) >= 3 THEN CRIT ELSE IF Highest(r) = 2 THEN WARN
                         ELSE IF Highest(r) = 1 THEN 127 ELSE OK
<1>1. Highest(r) = 0 \/ Highest(r) = 1 \/ Highest(r) = 2 \/ Highest(r) >= 3
  OBVIOUS
<1>2. ExitCodes[1] = OK /\ ExitCodes[2] = 127 /\ ExitCodes[3] = WARN /\ ExitCodes[4] = CRIT
  BY DEF ExitCodes
<1>3. CASE Highest(r) >= 3
  <2>1. (IF Highest(r) > 3 THEN 4 ELSE Highest(r) + 1) = 4
    BY <1>3
  <2> QED
    BY <1>2, <1>3, <2>1 DEF ReturnCode
<1>4. CASE Highest(r) = 2
  BY <1>2, <1>4 DEF ReturnCode
<1>5. CASE Highest(r) = 1
  BY <1>2, <1>5 DEF ReturnCode
<1>6. CASE Highest(r) = 0
  BY <1>2, <1>6 DEF ReturnCode
<1> QED
  BY <1>1, <1>3, <1>4, <1>5, <1>6

\* The worst status of the services in S.
WorstService(r, S) ==
  IF \E s \in S : r[s] >= 3 THEN CRIT
  ELSE IF \E s \in S : r[s] = 2 THEN WARN
  ELSE IF \E s \in S : r[s] = 1 THEN UNKNOWN ELSE OK

\* f is the loop of Supervisor.services over the subsets of S.
IsLoop(r, S, f) ==
  f = [T \in SUBSET S |->
         IF T = {} THEN OK
         ELSE Worst(f[T \ {CHOOSE s \in T : TRUE}], ServiceStatus(r[CHOOSE s \in T : TRUE]))]

\* FoldSet is a function on the subsets of the set that its equation chooses.
LEMMA Unfolded ==
  ASSUME NEW r
  PROVE  StatusOf("services", r) = (CHOOSE f : IsLoop(r, Read(r), f))[Read(r)]
BY DEF StatusOf, Services, FoldSet, MapThenFoldSet, IsLoop

\* The worst status obeys that equation, whatever service a turn takes.
LEMMA WorstIsLoop ==
  ASSUME NEW S, NEW r, \A s \in S : r[s] \in Nat
  PROVE  IsLoop(r, S, [T \in SUBSET S |-> WorstService(r, T)])
<1> DEFINE g == [T \in SUBSET S |-> WorstService(r, T)]
<1>1. ASSUME NEW T \in SUBSET S, NEW s \in T
      PROVE  WorstService(r, T) = Worst(WorstService(r, T \ {s}), ServiceStatus(r[s]))
  <2>1. r[s] \in Nat
    OBVIOUS
  <2>2. \A u \in T : u = s \/ u \in T \ {s}
    OBVIOUS
  <2>3. CASE r[s] >= 3
    <3>1. ServiceStatus(r[s]) = CRIT /\ WorstService(r, T) = CRIT
      BY <2>1, <2>3, ServiceStatuses DEF WorstService
    <3>2. /\ Severity(WorstService(r, T \ {s})) \in 1..4
          /\ Severity(WorstService(r, T \ {s})) = 4 => WorstService(r, T \ {s}) = CRIT
      BY Severities DEF WorstService
    <3> QED
      BY <3>1, <3>2, Severities DEF Worst
  <2>4. CASE r[s] = 2
    <3>1. ServiceStatus(r[s]) = WARN
      BY <2>1, <2>4, ServiceStatuses
    <3> QED
      BY <2>1, <2>2, <2>4, <3>1, Severities DEF Worst, WorstService
  <2>5. CASE r[s] = 1
    <3>1. ServiceStatus(r[s]) = UNKNOWN
      BY <2>1, <2>5, ServiceStatuses
    <3> QED
      BY <2>1, <2>2, <2>5, <3>1, Severities DEF Worst, WorstService
  <2>6. CASE r[s] = 0
    <3>1. ServiceStatus(r[s]) = OK
      BY <2>1, <2>6, ServiceStatuses
    <3> QED
      BY <2>1, <2>2, <2>6, <3>1, Severities DEF Worst, WorstService
  <2> QED
    BY <2>1, <2>3, <2>4, <2>5, <2>6
<1>2. ASSUME NEW T \in SUBSET S
      PROVE  g[T] = IF T = {} THEN OK
                    ELSE Worst(g[T \ {CHOOSE s \in T : TRUE}],
                               ServiceStatus(r[CHOOSE s \in T : TRUE]))
  <2>1. CASE T = {}
    BY <2>1 DEF WorstService
  <2>2. CASE T # {}
    <3> DEFINE s == CHOOSE s \in T : TRUE
    <3>1. s \in T /\ T \ {s} \in SUBSET S
      BY <2>2
    <3> HIDE DEF s
    <3>2. g[T] = Worst(g[T \ {s}], ServiceStatus(r[s]))
      BY <1>1, <3>1
    <3> QED
      BY <2>2, <3>2 DEF s
  <2> QED
    BY <2>1, <2>2
<1> QED
  BY <1>2 DEF IsLoop

\* Nothing else does: a smallest set on which two functions differ would lose an element.
LEMMA LoopIsUnique ==
  ASSUME NEW S, IsFiniteSet(S), NEW r, NEW f, NEW g, IsLoop(r, S, f), IsLoop(r, S, g)
  PROVE  f[S] = g[S]
<1> DEFINE D == {T \in FiniteSubsetsOf(S) : f[T] # g[T]}
<1> SUFFICES ASSUME D # {} PROVE FALSE
  BY DEF FiniteSubsetsOf
<1>1. PICK T \in D : \A U \in D : ~ (<<U, T>> \in StrictSubsetOrdering(S))
  <2>1. D \subseteq FiniteSubsetsOf(S)
    OBVIOUS
  <2> HIDE DEF D
  <2> QED
    BY <2>1, WFMin, FS_StrictSubsetOrderingWellFounded
<1>2. T \in SUBSET S /\ IsFiniteSet(T) /\ f[T] # g[T]
  BY DEF FiniteSubsetsOf
<1> DEFINE s == CHOOSE s \in T : TRUE
<1>3. T # {}
  BY <1>2 DEF IsLoop
<1>4. s \in T
  BY <1>3
<1>5. /\ f[T] = Worst(f[T \ {s}], ServiceStatus(r[s]))
      /\ g[T] = Worst(g[T \ {s}], ServiceStatus(r[s]))
  BY <1>2, <1>3 DEF IsLoop
<1> HIDE DEF s
<1>6. T \ {s} \in FiniteSubsetsOf(S)
  BY <1>2, FS_RemoveElement DEF FiniteSubsetsOf
<1>7. <<T \ {s}, T>> \in StrictSubsetOrdering(S)
  BY <1>2, <1>4 DEF StrictSubsetOrdering
<1>8. f[T \ {s}] = g[T \ {s}]
  BY <1>1, <1>6, <1>7
<1> QED
  BY <1>2, <1>5, <1>8

\* What the loop computes, for any number of services in any order.
LEMMA ServicesAreWorst ==
  ASSUME NEW S, IsFiniteSet(S), NEW r \in Readings(S)
  PROVE  StatusOf("services", r) = WorstService(r, Read(r))
<1> DEFINE R == Read(r)
           h == CHOOSE f : IsLoop(r, R, f)
           g == [T \in SUBSET R |-> WorstService(r, T)]
<1>1. IsFiniteSet(R) /\ \A s \in R : r[s] \in Nat
  <2>1. R \in SUBSET S
    BY DEF Read, Readings
  <2>2. IsFiniteSet(R)
    BY <2>1, FS_Subset
  <2> QED
    BY <2>2, BoundsAssumption DEF Read, Readings, NotRead
<1> HIDE DEF R
<1>2. IsLoop(r, R, g)
  BY <1>1, WorstIsLoop
<1>3. IsLoop(r, R, h)
  BY <1>2
<1> HIDE DEF h
<1>4. h[R] = g[R]
  BY <1>1, <1>2, <1>3, LoopIsUnique
<1>5. StatusOf("services", r) = h[R]
  BY Unfolded DEF h, R
<1> QED
  BY <1>4, <1>5 DEF R

\* More faults among more readings.
LEMMA FaultsOfWorse ==
  ASSUME NEW S, NEW T, NEW a \in Readings(S), NEW b \in Readings(T), NoBetter(a, b)
  PROVE  /\ Faulty(a) \subseteq Faulty(b)
         /\ Read(a) = Read(b) => Read(b) \ Faulty(b) \subseteq Read(a) \ Faulty(a)
         /\ \A s \in Read(a) : a[s] \in Nat /\ b[s] \in Nat /\ s \in Read(b) /\ a[s] <= b[s]
<1>1. ASSUME NEW s \in Read(a)
      PROVE  a[s] \in Nat /\ b[s] \in Nat /\ s \in Read(b) /\ a[s] <= b[s]
  BY BoundsAssumption DEF NoBetter, Read, Readings, NotRead
<1>2. Faulty(a) \subseteq Faulty(b)
  BY <1>1 DEF Faulty
<1>3. ASSUME Read(a) = Read(b), NEW s \in Read(b), s \notin Faulty(b)
      PROVE  s \in Read(a) /\ s \notin Faulty(a)
  BY <1>1, <1>3 DEF Faulty
<1> QED
  BY <1>1, <1>2, <1>3

\* The status of worse readings is no better, whatever the rule, but for the latency of HTTP
\* checks.  "running" counts what was read, at most two processes, and "hottest" has nothing
\* to say of nothing.
LEMMA StatusIsMonotone ==
  ASSUME NEW rule \in Rules \ {"latency"},
         NEW S, NEW T, IsFiniteSet(T), NEW a \in Readings(S), NEW b \in Readings(T),
         IsFiniteSet(S), NoBetter(a, b),
         Read(a) = Read(b) \/ (Read(a) # {} /\ rule # "running"),
         rule = "running" => Cardinality(S) <= 2
  PROVE  Severity(StatusOf(rule, a)) <= Severity(StatusOf(rule, b))
<1>1. Highest(a) \in Nat /\ Highest(b) \in Nat /\ Highest(a) <= Highest(b)
  BY HighestIs, HighestIsMonotone
<1>2. Severity(Less(Highest(a))) <= Severity(Less(Highest(b)))
  BY <1>1, Thresholds
<1>3. CASE rule = "less"
  BY <1>2, <1>3 DEF StatusOf
<1>4. CASE rule = "more"
  <2>1. /\ More(MaxLevel - Highest(a)) = Less(Highest(a))
        /\ More(MaxLevel - Highest(b)) = Less(Highest(b))
    BY <1>1, Thresholds
  <2> QED
    BY <1>2, <1>4, <2>1 DEF StatusOf
<1>5. CASE rule = "hottest"
  <2>1. CASE Read(b) = {}
    <3>1. Read(a) = {}
      BY <2>1 DEF NoBetter
    <3>2. StatusOf(rule, a) = UNKNOWN /\ StatusOf(rule, b) = UNKNOWN
      BY <1>5, <2>1, <3>1 DEF StatusOf, Hottest
    <3> QED
      BY <3>2, Severities
  <2>2. CASE Read(b) # {}
    <3>1. Read(a) # {}
      BY <2>2
    <3>2. StatusOf(rule, a) = Less(Highest(a)) /\ StatusOf(rule, b) = Less(Highest(b))
      BY <1>5, <2>2, <3>1 DEF StatusOf, Hottest
    <3> QED
      BY <1>2, <3>2
  <2> QED
    BY <2>1, <2>2
<1>6. CASE rule = "services"
  <2>1. /\ StatusOf(rule, a) = WorstService(a, Read(a))
        /\ StatusOf(rule, b) = WorstService(b, Read(b))
    BY <1>6, ServicesAreWorst
  <2>2. \A s \in Read(a) : a[s] \in Nat /\ b[s] \in Nat /\ s \in Read(b) /\ a[s] <= b[s]
    BY FaultsOfWorse
  <2>3. (\E s \in Read(a) : a[s] >= 3) => \E s \in Read(b) : b[s] >= 3
    BY <2>2
  <2>4. (\E s \in Read(a) : a[s] = 2) => \E s \in Read(b) : b[s] >= 3 \/ b[s] = 2
    BY <2>2
  <2>5. (\E s \in Read(a) : a[s] = 1) => \E s \in Read(b) : b[s] >= 3 \/ b[s] = 2 \/ b[s] = 1
    BY <2>2
  <2> QED
    BY <2>1, <2>3, <2>4, <2>5, Severities DEF WorstService
<1>7. CASE rule \in {"accepting", "arrays", "updates"}
  <2>1. Faulty(a) # {} => Faulty(b) # {}
    BY FaultsOfWorse
  <2>2. CASE rule = "accepting"
    <3>1. /\ StatusOf(rule, a) = IF Faulty(a) = {} THEN OK ELSE CRIT
          /\ StatusOf(rule, b) = IF Faulty(b) = {} THEN OK ELSE CRIT
      BY <2>2 DEF StatusOf, Accepting
    <3> QED
      BY <2>1, <3>1, Severities
  <2>3. CASE rule = "arrays"
    <3>1. Read(a) = {} <=> Read(b) = {}
      BY <2>3 DEF NoBetter
    <3>2. \A r : StatusOf(rule, r) = IF Read(r) = {} THEN UNKNOWN
                                     ELSE IF Faulty(r) = {} THEN OK ELSE CRIT
      BY <2>3 DEF StatusOf, Arrays
    <3> QED
      BY <2>1, <3>1, <3>2, Severities
  <2>4. CASE rule = "updates"
    <3>1. /\ StatusOf(rule, a) = IF Faulty(a) = {} THEN OK ELSE WARN
          /\ StatusOf(rule, b) = IF Faulty(b) = {} THEN OK ELSE WARN
      BY <2>4 DEF StatusOf, Updates
    <3> QED
      BY <2>1, <3>1, Severities
  <2> QED
    BY <1>7, <2>2, <2>3, <2>4
<1>8. CASE rule = "zombies"
  <2>1. Faulty(b) \in SUBSET T
    BY DEF Faulty, Read, Readings
  <2>2. IsFiniteSet(Faulty(b)) /\ Faulty(a) \in SUBSET Faulty(b)
    BY <2>1, FS_Subset, FaultsOfWorse
  <2>3. /\ Cardinality(Faulty(a)) \in Nat /\ Cardinality(Faulty(b)) \in Nat
        /\ Cardinality(Faulty(a)) <= Cardinality(Faulty(b))
    BY <2>2, FS_Subset, FS_CardinalityType
  <2>4. /\ StatusOf(rule, a) = Less(Cardinality(Faulty(a)))
        /\ StatusOf(rule, b) = Less(Cardinality(Faulty(b)))
    BY <1>8 DEF StatusOf, Zombies
  <2> QED
    BY <2>3, <2>4, Thresholds
<1>9. CASE rule = "running"
  <2> DEFINE A == Read(a) \ Faulty(a)
             B == Read(b) \ Faulty(b)
  <2>1. A \in SUBSET S /\ B \in SUBSET A
    BY <1>9, FaultsOfWorse DEF Read, Readings
  <2>2. /\ IsFiniteSet(A) /\ Cardinality(A) \in Nat /\ Cardinality(A) <= 2
        /\ IsFiniteSet(B) /\ Cardinality(B) \in Nat /\ Cardinality(B) <= Cardinality(A)
    <3>1. IsFiniteSet(A) /\ Cardinality(A) <= Cardinality(S)
      BY <2>1, FS_Subset
    <3>2. IsFiniteSet(B) /\ Cardinality(B) <= Cardinality(A)
      BY <2>1, <3>1, FS_Subset
    <3>3. Cardinality(A) \in Nat /\ Cardinality(B) \in Nat /\ Cardinality(S) \in Nat
      BY <3>1, <3>2, FS_CardinalityType
    <3> QED
      BY <1>9, <3>1, <3>2, <3>3
  <2>3. /\ StatusOf(rule, a) = IF A = {} THEN CRIT ELSE IF Cardinality(A) = 2 THEN OK ELSE WARN
        /\ StatusOf(rule, b) = IF B = {} THEN CRIT ELSE IF Cardinality(B) = 2 THEN OK ELSE WARN
    BY <1>9 DEF StatusOf, Running
  <2>4. A = {} => B = {}
    BY <2>1
  <2> HIDE DEF A, B
  <2>5. Cardinality(B) = 2 => Cardinality(A) = 2
    BY <2>2
  <2> QED
    BY <2>3, <2>4, <2>5, Severities
<1>10. CASE rule = "exit code"
  <2>1. StatusOf(rule, a) = ReturnCode(a) /\ StatusOf(rule, b) = ReturnCode(b)
    BY <1>10 DEF StatusOf
  <2> QED
    BY <1>1, <2>1, ReturnCodes, Severities
<1>11. CASE rule = "answer"
  <2>1. StatusOf(rule, a) = OK /\ StatusOf(rule, b) = OK
    BY <1>11 DEF StatusOf
  <2> QED
    BY <2>1, Severities
<1> QED
  BY <1>3, <1>4, <1>5, <1>6, <1>7, <1>8, <1>9, <1>10, <1>11 DEF Rules

\* A check returns one of them.
LEMMA StatusIsKnown ==
  ASSUME NEW rule \in Rules, NEW S, IsFiniteSet(S), NEW r \in Readings(S)
  PROVE  StatusOf(rule, r) \in Statuses
<1>1. \A v : Less(v) \in Statuses /\ More(v) \in Statuses
  BY DEF Less, More, Statuses
<1>2. CASE rule \in {"less", "more"}
  BY <1>1, <1>2 DEF StatusOf
<1>3. CASE rule \in {"hottest", "zombies", "latency"}
  BY <1>1, <1>3 DEF StatusOf, Hottest, Zombies, Latency, Statuses
<1>4. CASE rule = "services"
  BY <1>4, ServicesAreWorst DEF WorstService, Statuses
<1>5. CASE rule \in {"accepting", "arrays", "updates"}
  BY <1>5 DEF StatusOf, Accepting, Arrays, Updates, Statuses
<1>6. CASE rule \in {"running", "answer"}
  BY <1>6 DEF StatusOf, Running, Statuses
<1>7. CASE rule = "exit code"
  <2>1. StatusOf(rule, r) = ReturnCode(r)
    BY <1>7 DEF StatusOf
  <2> QED
    BY <2>1, HighestIs, ReturnCodes DEF Statuses
<1> QED
  BY <1>2, <1>3, <1>4, <1>5, <1>6, <1>7 DEF Rules

-----------------------------------------------------------------------------
(* What a step of a run does.                                              *)

\* A result of check c, made of what read has.
ResultOf(c, status, failed, read) ==
  [status |-> status, failed |-> failed, job |-> job[c], seen |-> read]

\* The run of c ends with a result that its readings make, or that a failed one makes.
Ends(c, read) ==
  /\ pc' = [pc EXCEPT ![c] = "idle"]
  /\ \E status \in {CRIT, UNKNOWN, StatusOf(CheckOf(c).rule, read)}, failed \in BOOLEAN :
       /\ results' = [results EXCEPT ![c] = Append(@, ResultOf(c, status, failed, read))]
       /\ failed \/ status = StatusOf(CheckOf(c).rule, read)

\* The run of c goes on.
GoesOn(c) ==
  /\ \E place \in Places \ {"idle"} : pc' = [pc EXCEPT ![c] = place]
  /\ UNCHANGED results

\* After a group.
LEMMA ContinueEnds == ASSUME NEW c, NEW read, Continue(c, read) PROVE Ends(c, read) \/ GoesOn(c)
<1>1. CASE Finish(c, StatusOf(CheckOf(c).rule, read), FALSE, read)
  BY <1>1 DEF Finish, Ends, ResultOf
<1>2. CASE pc' = [pc EXCEPT ![c] = "access"] /\ UNCHANGED results
  BY <1>2 DEF GoesOn, Places
<1> QED
  BY <1>1, <1>2 DEF Continue

\* Of the rest of the system a run changes no more than the cache of its job.
LEMMA RunFrame ==
  ASSUME IInv, NEW c \in active, RunOf(c)
  PROVE  /\ pc[c] # "idle"
         /\ UNCHANGED <<plugin, active, pool, level, due, atStart, job>>
         /\ Ends(c, seen'[c]) \/ GoesOn(c)
         /\ seen' = seen \/ seen' = [seen EXCEPT ![c] = seen'[c]]
         /\ own' = own \/ own' = [own EXCEPT ![c] = own'[c]]
         /\ cache' = cache \/ cache' = [cache EXCEPT ![job[c]] = cache'[job[c]]]
<1>1. DOMAIN seen = active /\ DOMAIN own = active
  BY DEF IInv, RunsTyped
<1>2. cache \in Seq([Sources -> LevelOrNone]) /\ (pc[c] # "idle" => job[c] \in 1..Len(cache))
  BY RunFacts, AllFacts
<1>3. CASE LookUp(c)
  <2>1. GoesOn(c)
    BY <1>3 DEF LookUp, GoesOn, Places
  <2> QED
    BY <1>3, <2>1 DEF LookUp
<1>4. CASE Fetch(c)
  <2>1. GoesOn(c)
    BY <1>4 DEF Fetch, GoesOn, Places
  <2> QED
    BY <1>1, <1>4, <2>1 DEF Fetch
<1>5. CASE Store(c)
  <2>1. GoesOn(c)
    BY <1>5 DEF Store, GoesOn, Places
  <2>2. cache' = cache \/ cache' = [cache EXCEPT ![job[c]] = cache'[job[c]]]
    BY <1>2, <1>5 DEF Store
  <2> QED
    BY <1>5, <2>1, <2>2 DEF Store
<1>6. CASE Query(c)
  <2>1. Ends(c, seen'[c]) \/ GoesOn(c)
    BY <1>6, ContinueEnds DEF Query
  <2> QED
    BY <1>1, <1>6, <2>1 DEF Query
<1>7. CASE Return(c)
  <2>1. Ends(c, seen'[c]) \/ GoesOn(c)
    BY <1>7, ContinueEnds DEF Return
  <2>2. /\ seen' = [seen EXCEPT ![c] = seen'[c]]
        /\ own' = [own EXCEPT ![c] = own'[c]]
    BY <1>1, <1>7 DEF Return
  <2> QED
    BY <1>7, <2>1, <2>2 DEF Return
<1>8. CASE QuerySkips(c)
  <2>1. Ends(c, seen'[c]) \/ GoesOn(c)
    BY <1>8, ContinueEnds DEF QuerySkips
  <2> QED
    BY <1>8, <2>1 DEF QuerySkips, Reading
<1>9. CASE ReadingFails(c)
  <2>1. Ends(c, seen'[c])
    BY <1>9 DEF ReadingFails, Finish, Ends, ResultOf
  <2> QED
    BY <1>9, <2>1 DEF ReadingFails, Reading
<1> QED
  BY <1>3, <1>4, <1>5, <1>6, <1>7, <1>8, <1>9 DEF RunOf

\* Where a run has what it reads from, and what it leaves in the cache.
LEMMA RunReads ==
  ASSUME IInv, NEW c \in active, RunOf(c)
  PROVE  /\ \A s \in SourcesOf(CheckOf(c)) :
              /\ \/ seen'[c][s] \in {seen[c][s], level[s]}
                 \/ pc[c] = "return" /\ seen'[c][s] \in {own[c][s], cache[job[c]][s], NotRead}
              /\ own'[c][s] \in {own[c][s], level[s], NotRead}
         /\ \A s \in Sources : \/ cache'[job[c]][s] = cache[job[c]][s]
                               \/ /\ s \in SourcesOf(CheckOf(c))
                                  /\ cache'[job[c]][s] = own[c][s]
<1>1. DOMAIN seen = active /\ DOMAIN own = active
  BY DEF IInv, RunsTyped
<1>2. pc[c] # "idle"
  BY RunFrame
<1>3. /\ DOMAIN seen[c] = SourcesOf(CheckOf(c)) /\ DOMAIN own[c] = SourcesOf(CheckOf(c))
      /\ cache[job[c]] \in [Sources -> LevelOrNone] /\ job[c] \in 1..Len(cache)
      /\ cache \in Seq([Sources -> LevelOrNone])
  BY <1>2, RunFacts, AllFacts
<1>4. CASE LookUp(c) \/ QuerySkips(c) \/ ReadingFails(c)
  BY <1>4 DEF LookUp, QuerySkips, ReadingFails
<1>5. CASE Fetch(c)
  <2>1. own'[c] = [s \in SourcesOf(CheckOf(c)) |->
                     IF s \in GroupOf(c).sources THEN level[s] ELSE own[c][s]]
    BY <1>1, <1>3, <1>5 DEF Fetch, WithGroup
  <2> QED
    BY <1>5, <2>1 DEF Fetch
<1>6. CASE Store(c)
  <2>1. UNCHANGED <<seen, own>>
    BY <1>6 DEF Store
  <2>2. CASE cache' = cache
    BY <2>1, <2>2
  <2>3. CASE cache' = [cache EXCEPT ![job[c]] = WithGroup(c, @, LAMBDA s : own[c][s])]
    <3>1. cache'[job[c]] = [s \in Sources |->
                              IF s \in GroupOf(c).sources THEN own[c][s] ELSE cache[job[c]][s]]
      BY <1>3, <2>3 DEF WithGroup
    <3>2. GroupOf(c).sources \subseteq SourcesOf(CheckOf(c))
      BY GroupSources
    <3> QED
      BY <2>1, <3>1, <3>2
  <2> QED
    BY <1>6, <2>2, <2>3 DEF Store
<1>7. CASE Query(c)
  <2>1. seen'[c] = [s \in SourcesOf(CheckOf(c)) |->
                      IF s \in GroupOf(c).sources THEN level[s] ELSE seen[c][s]]
    BY <1>1, <1>3, <1>7 DEF Query, WithGroup
  <2> QED
    BY <1>7, <2>1 DEF Query
<1>8. CASE Return(c)
  <2>1. seen'[c] = [s \in SourcesOf(CheckOf(c)) |->
                      IF s \in GroupOf(c).sources
                      THEN Listed(c, IF GroupOf(c).cache = "lru" /\ own[c][s] # NotRead
                                     THEN own[c][s] ELSE cache[job[c]][s])
                      ELSE seen[c][s]]
    BY <1>1, <1>3, <1>8 DEF Return, WithGroup
  <2>2. own'[c] = Unread(c) /\ UNCHANGED cache /\ pc[c] = "return"
    BY <1>1, <1>8 DEF Return
  <2> QED
    BY <2>1, <2>2 DEF Unread, Listed
<1> QED
  BY <1>4, <1>5, <1>6, <1>7, <1>8 DEF RunOf

-----------------------------------------------------------------------------
(* Nothing reads what is not there yet.                                    *)

\* What was read is not higher than what is there now.
NotAhead(readings) == \A s \in DOMAIN readings : readings[s] <= level[s]

\* Neither is what is cached, and only a group with a cache gets to its places.
ReadingsKnown ==
  /\ \A s \in Sources : level[s] <= MaxLevel
  /\ \A j \in 1..Len(cache) : NotAhead(cache[j])
  /\ \A c \in active : NotAhead(seen[c]) /\ NotAhead(own[c])
  /\ \A c \in active : pc[c] = "return" => GroupOf(c).cache # "none"
  /\ \A c \in active : pc[c] \in {"fetch", "store"} => GroupOf(c).cache # "none"

\* The invariant, with how far the readings are.
KnownInv == IInv /\ ReadingsKnown

\* Nothing was read at the start.
LEMMA InitKnown == Init => KnownInv
<1> SUFFICES ASSUME Init PROVE KnownInv
  OBVIOUS
<1>1. \A s \in Sources : level[s] <= MaxLevel
  BY BoundsAssumption DEF Init
<1>2. Len(cache) = 0
  BY DEF Init
<1>3. \A c \in active : NotAhead(seen[c]) /\ NotAhead(own[c])
  <2> SUFFICES ASSUME NEW c \in active PROVE NotAhead(Unread(c))
    BY DEF Init
  <2>1. \A s \in SourcesOf(CheckOf(c)) : s \in Sources
    BY DEF Sources
  <2> QED
    BY <2>1 DEF NotAhead, Unread, Init, NotRead
<1>4. \A c \in active : pc[c] = "idle"
  BY DEF Init
<1> QED
  BY <1>1, <1>2, <1>3, <1>4, InitIInv DEF KnownInv, ReadingsKnown

\* The system only gets worse, up to the bound.
LEMMA LevelsOnlyGrow ==
  ASSUME KnownInv, [Next]_vars
  PROVE  /\ UNCHANGED <<plugin, active, pool>>
         /\ Sources' = Sources
         /\ \A d \in active : CheckOf(d)' = CheckOf(d)
         /\ \A d \in active : SourcesOf(CheckOf(d))' = SourcesOf(CheckOf(d))
         /\ \A s \in Sources : /\ level[s] \in Nat /\ level'[s] \in Nat
                               /\ level[s] <= level'[s] /\ level'[s] <= MaxLevel
<1>1. UNCHANGED <<plugin, active, pool>>
  <2>1. CASE \E c \in active : RunOf(c)
    BY <2>1, RunFrame DEF KnownInv
  <2>2. CASE ~ \E c \in active : RunOf(c)
    BY <2>2 DEF Next, Degrade, StartJob, StartCheck, SkipCheck, vars, runVars
  <2> QED
    BY <2>1, <2>2
<1>2. level \in [Sources -> Nat] /\ \A s \in Sources : level[s] <= MaxLevel
  BY DEF KnownInv, IInv, LevelsTyped, ReadingsKnown
<1>3. \A s \in Sources : /\ level[s] \in Nat /\ level'[s] \in Nat
                         /\ level[s] <= level'[s] /\ level'[s] <= MaxLevel
  <2>1. ASSUME NEW s \in DOMAIN level, Degrade(s)
        PROVE  \A r \in Sources : /\ level[r] \in Nat /\ level'[r] \in Nat
                                  /\ level[r] <= level'[r] /\ level'[r] <= MaxLevel
    BY <1>2, <2>1, BoundsAssumption DEF Degrade
  <2>2. CASE level' = level
    BY <1>2, <2>2
  <2>3. CASE \E c \in active : RunOf(c)
    BY <2>2, <2>3, RunFrame DEF KnownInv
  <2>4. CASE StartJob \/ (\E c \in active : StartCheck(c) \/ SkipCheck(c)) \/ UNCHANGED vars
    BY <2>2, <2>4 DEF StartJob, StartCheck, SkipCheck, vars
  <2> QED
    BY <2>1, <2>3, <2>4 DEF Next
<1> QED
  BY <1>1, <1>3, TableUnchanged

\* What was not ahead stays so.
LEMMA NotAheadStays ==
  ASSUME KnownInv, [Next]_vars, NEW S \in SUBSET Sources, NEW r \in [S -> LevelOrNone], NotAhead(r)
  PROVE  \A s \in S : r[s] <= level'[s]
<1> SUFFICES ASSUME NEW s \in S PROVE r[s] <= level'[s]
  OBVIOUS
<1>1. r[s] \in Int
  BY DEF LevelOrNone, NotRead
<1>2. r[s] <= level[s]
  BY DEF NotAhead
<1>3. level[s] \in Nat /\ level'[s] \in Nat /\ level[s] <= level'[s]
  BY LevelsOnlyGrow
<1> QED
  BY <1>1, <1>2, <1>3

\* The types of what was read, as the invariant has them.
LEMMA KnownTypes ==
  ASSUME KnownInv, NEW c \in active
  PROVE  /\ SourcesOf(CheckOf(c)) \in SUBSET Sources
         /\ seen[c] \in [SourcesOf(CheckOf(c)) -> LevelOrNone] /\ NotAhead(seen[c])
         /\ own[c] \in [SourcesOf(CheckOf(c)) -> LevelOrNone] /\ NotAhead(own[c])
         /\ DOMAIN seen = active /\ DOMAIN own = active /\ pc \in [active -> Places]
         /\ at \in [active -> Nat] /\ job \in [active -> 0..Len(cache)]
         /\ cache \in Seq([Sources -> LevelOrNone]) /\ Len(cache) \in Nat
         /\ \A j \in 1..Len(cache) : cache[j] \in [Sources -> LevelOrNone] /\ NotAhead(cache[j])
<1>1. cache \in Seq([Sources -> LevelOrNone])
  BY DEF KnownInv, IInv, LevelsTyped
<1>2. \A j \in 1..Len(cache) : cache[j] \in [Sources -> LevelOrNone]
  BY <1>1
<1> QED
  BY <1>1, <1>2, GroupSources DEF KnownInv, IInv, RunsTyped, ReadingsKnown

\* Nor does a run read ahead.
LEMMA RunKnown == ASSUME KnownInv, [Next]_vars, NEW c \in active, RunOf(c) PROVE ReadingsKnown'
<1>1. IInv /\ UNCHANGED level
  BY RunFrame DEF KnownInv
<1>2. /\ UNCHANGED <<active, plugin, job>> /\ Sources' = Sources
      /\ \A d \in active : SourcesOf(CheckOf(d))' = SourcesOf(CheckOf(d))
      /\ \A d \in active : CheckOf(d)' = CheckOf(d)
      /\ \A s \in Sources : level[s] \in Nat /\ level[s] <= MaxLevel
  BY <1>1, LevelsOnlyGrow, RunFrame
<1>3. IInv'
  BY StepIInv DEF KnownInv
<1>4. job[c] \in 1..Len(cache)
  BY <1>1, RunFrame, RunFacts
<1>5. \A d \in active : /\ seen'[d] \in [SourcesOf(CheckOf(d)) -> LevelOrNone]
                        /\ own'[d] \in [SourcesOf(CheckOf(d)) -> LevelOrNone]
  BY <1>2, <1>3 DEF IInv, RunsTyped
<1>6. \A j \in 1..Len(cache') : NotAhead(cache'[j])
  <2>1. CASE cache' = cache
    BY <2>1, <1>1 DEF KnownInv, ReadingsKnown
  <2>2. CASE cache' = [cache EXCEPT ![job[c]] = cache'[job[c]]]
    <3>1. Len(cache') = Len(cache) /\ \A j \in 1..Len(cache) : j # job[c] => cache'[j] = cache[j]
      BY <1>4, <2>2, KnownTypes
    <3>2. NotAhead(cache'[job[c]])
      <4>1. cache' \in Seq([Sources -> LevelOrNone])
        BY <1>2, <1>3 DEF IInv, LevelsTyped
      <4>2. cache'[job[c]] \in [Sources -> LevelOrNone]
        BY <1>4, <3>1, <4>1
      <4>3. \A s \in Sources : cache'[job[c]][s] <= level[s]
        BY <1>1, <1>4, RunReads, KnownTypes DEF NotAhead
      <4> QED
        BY <4>2, <4>3 DEF NotAhead
    <3> QED
      BY <3>1, <3>2, KnownTypes
  <2> QED
    BY <1>1, <2>1, <2>2, RunFrame
<1>7. ASSUME NEW d \in active PROVE NotAhead(seen'[d]) /\ NotAhead(own'[d])
  <2>1. CASE d # c
    <3>1. seen'[d] = seen[d] /\ own'[d] = own[d]
      BY <1>1, <2>1, RunFrame, KnownTypes
    <3> QED
      BY <3>1, KnownTypes
  <2>2. CASE d = c
    <3> SUFFICES ASSUME NEW s \in SourcesOf(CheckOf(c))
                 PROVE  seen'[c][s] <= level[s] /\ own'[c][s] <= level[s]
      BY <1>5, <2>2 DEF NotAhead
    <3>1. s \in Sources /\ level[s] \in Nat /\ NotRead <= level[s] /\ level[s] <= level[s]
      BY <1>2, KnownTypes DEF NotRead
    <3>2. /\ seen[c][s] <= level[s] /\ own[c][s] <= level[s] /\ cache[job[c]][s] <= level[s]
      BY <1>4, <3>1, KnownTypes DEF NotAhead
    <3> QED
      BY <1>1, <3>1, <3>2, RunReads
  <2> QED
    BY <2>1, <2>2
<1>8. ASSUME NEW d \in active, pc'[d] \in {"return", "fetch", "store"}
      PROVE  GroupOf(d)'.cache # "none"
  <2>1. CASE d # c
    <3>1. pc'[d] = pc[d] /\ at'[d] = at[d]
      BY <1>1, <2>1, KnownTypes DEF RunOf, LookUp, Fetch, Store, Query, Return, QuerySkips,
         ReadingFails, Continue, Finish
    <3> QED
      BY <1>2, <1>8, <3>1 DEF KnownInv, ReadingsKnown, GroupOf
  <2>2. CASE d = c
    <3>1. /\ at'[c] = at[c] /\ GroupOf(c).cache # "none"
      <4>1. CASE LookUp(c)
        BY <4>1 DEF LookUp
      <4>2. CASE Fetch(c) \/ Store(c)
        BY <4>2 DEF Fetch, Store, KnownInv, ReadingsKnown
      <4>3. CASE Query(c) \/ Return(c) \/ QuerySkips(c) \/ ReadingFails(c)
        BY <1>8, <2>2, <4>3, KnownTypes
          DEF Query, Return, QuerySkips, ReadingFails, Continue, Finish
      <4> QED
        BY <4>1, <4>2, <4>3 DEF RunOf
    <3> QED
      BY <1>2, <2>2, <3>1 DEF GroupOf
  <2> QED
    BY <2>1, <2>2
<1>9. \A d \in active : NotAhead(seen[d])' /\ NotAhead(own[d])'
  BY <1>1, <1>7 DEF NotAhead
<1>10. \A j \in 1..Len(cache') : NotAhead(cache[j])'
  BY <1>1, <1>6 DEF NotAhead
<1> QED
  BY <1>1, <1>2, <1>8, <1>9, <1>10 DEF ReadingsKnown

\* The other steps read nothing.
LEMMA NextKnown == KnownInv /\ [Next]_vars => KnownInv'
<1> SUFFICES ASSUME KnownInv, [Next]_vars PROVE KnownInv'
  OBVIOUS
<1>1. IInv'
  BY StepIInv DEF KnownInv
<1>2. CASE \E c \in active : RunOf(c)
  BY <1>1, <1>2, RunKnown DEF KnownInv
<1>3. CASE ~ \E c \in active : RunOf(c)
  <2>1. /\ active' = active /\ Sources' = Sources
        /\ \A d \in active : CheckOf(d)' = CheckOf(d)
        /\ \A s \in Sources : level'[s] \in Nat /\ level'[s] <= MaxLevel
    BY LevelsOnlyGrow
  <2>2. \/ cache' = cache
        \/ cache' = Append(cache, EmptyCache)
    BY <1>3 DEF Next, Degrade, StartJob, NewInstance, StartCheck, SkipCheck, vars, runVars
  <2>3. \/ UNCHANGED <<pc, at, seen, own>>
        \/ \E c \in active : /\ pc' = [pc EXCEPT ![c] = "access"]
                             /\ at' = [at EXCEPT ![c] = 1]
                             /\ seen' = [seen EXCEPT ![c] = Unread(c)]
                             /\ own' = [own EXCEPT ![c] = Unread(c)]
    BY <1>3 DEF Next, Degrade, StartJob, StartCheck, SkipCheck, vars, runVars
  <2>4. \A j \in 1..Len(cache') : NotAhead(cache[j])'
    <3>1. \A s \in Sources : EmptyCache[s] <= level'[s]
      BY <2>1 DEF EmptyCache, NotRead
    <3>2. \A j \in 1..Len(cache) : \A s \in Sources : cache[j][s] <= level'[s]
      <4> SUFFICES ASSUME NEW j \in 1..Len(cache)
                   PROVE  \A s \in Sources : cache[j][s] <= level'[s]
        OBVIOUS
      <4>1. cache[j] \in [Sources -> LevelOrNone] /\ NotAhead(cache[j])
        BY DEF KnownInv, IInv, LevelsTyped, ReadingsKnown
      <4> QED
        BY <4>1, NotAheadStays
    <3>3. EmptyCache \in [Sources -> LevelOrNone]
      BY UnreadIsFresh DEF EmptyCache
    <3>4. ASSUME NEW j \in 1..Len(cache')
          PROVE  /\ cache'[j] \in [Sources -> LevelOrNone]
                 /\ \A s \in Sources : cache'[j][s] <= level'[s]
      <4>1. cache \in Seq([Sources -> LevelOrNone])
        BY DEF KnownInv, IInv, LevelsTyped
      <4> QED
        BY <2>2, <3>1, <3>2, <3>3, <4>1
    <3> QED
      BY <3>4 DEF NotAhead
  <2>5. ASSUME NEW d \in active PROVE NotAhead(seen[d])' /\ NotAhead(own[d])'
    <3>1. \A s \in SourcesOf(CheckOf(d)) : seen[d][s] <= level'[s] /\ own[d][s] <= level'[s]
      BY KnownTypes, NotAheadStays
    <3>2. \A s \in SourcesOf(CheckOf(d)) : Unread(d)[s] <= level'[s]
      BY <2>1, KnownTypes DEF Unread, NotRead
    <3>3. /\ seen'[d] = seen[d] \/ seen'[d] = Unread(d)
          /\ own'[d] = own[d] \/ own'[d] = Unread(d)
      BY <2>3, KnownTypes
    <3>4. /\ DOMAIN seen[d] = SourcesOf(CheckOf(d)) /\ DOMAIN own[d] = SourcesOf(CheckOf(d))
          /\ DOMAIN Unread(d) = SourcesOf(CheckOf(d))
      BY KnownTypes DEF Unread
    <3> QED
      BY <3>1, <3>2, <3>3, <3>4 DEF NotAhead
  <2>6. ASSUME NEW d \in active, pc'[d] \in {"return", "fetch", "store"}
        PROVE  GroupOf(d)'.cache # "none"
    <3>1. pc'[d] = pc[d] /\ at'[d] = at[d]
      BY <2>3, <2>6, KnownTypes
    <3> QED
      BY <2>1, <2>6, <3>1 DEF KnownInv, ReadingsKnown, GroupOf
  <2> QED
    BY <1>1, <2>1, <2>4, <2>5, <2>6 DEF KnownInv, ReadingsKnown
<1> QED
  BY <1>2, <1>3

-----------------------------------------------------------------------------
(* The results.                                                            *)

\* The results that a check may have.
ResultSet(c) ==
  [status : Statuses, failed : BOOLEAN, job : Nat, seen : [SourcesOf(CheckOf(c)) -> LevelOrNone]]

\* What a result was read from is as old as its job, and makes its status.
ResultIsTrue(c, result) ==
  /\ result.job \in 1..Len(cache)
  /\ NoOlderThan(result.seen, result.job)
  /\ NotAhead(result.seen)
  /\ result.failed \/ result.status = StatusOf(CheckOf(c).rule, result.seen)

\* So is every result of every check.
ResultsTrue ==
  /\ DOMAIN results = active
  /\ \A c \in active : /\ results[c] \in Seq(ResultSet(c))
                       /\ \A i \in 1..Len(results[c]) : ResultIsTrue(c, results[c][i])

\* The invariant, with the results.
ResultsInv == KnownInv /\ ResultsTrue

\* There are no results at the start.
LEMMA InitResults == Init => ResultsInv
<1> SUFFICES ASSUME Init PROVE ResultsInv
  OBVIOUS
<1>1. DOMAIN results = active /\ \A c \in active : results[c] = << >>
  BY DEF Init
<1>2. ASSUME NEW c \in active
      PROVE  results[c] \in Seq(ResultSet(c)) /\ Len(results[c]) = 0
  <2>1. << >> \in Seq(ResultSet(c)) /\ Len(<< >>) = 0
    OBVIOUS
  <2>2. results[c] = << >>
    BY <1>1
  <2> QED
    BY <2>1, <2>2
<1> QED
  BY <1>1, <1>2, InitKnown DEF ResultsInv, ResultsTrue

\* What a job found is remembered.
LEMMA AtStartStays ==
  ASSUME KnownInv, [Next]_vars
  PROVE  /\ Len(cache) \in Nat
         /\ \A j \in 1..Len(cache) : atStart'[j] = atStart[j] /\ j \in 1..Len(cache')
<1>1. /\ atStart \in Seq([Sources -> Nat]) /\ cache \in Seq([Sources -> LevelOrNone])
      /\ Len(atStart) = Len(cache)
  BY DEF KnownInv, IInv, LevelsTyped
<1>2. CASE \E c \in active : RunOf(c)
  <2>1. PICK c \in active : RunOf(c)
    BY <1>2
  <2>2. atStart' = atStart
    BY <2>1, RunFrame DEF KnownInv
  <2>3. pc[c] # "idle"
    BY <2>1, RunFrame DEF KnownInv
  <2>4. Len(cache') = Len(cache)
    BY <1>1, <2>1, RunFrame, RunFacts DEF KnownInv
  <2> QED
    BY <1>1, <2>2, <2>4
<1>3. CASE StartJob
  <2>1. EmptyCache \in [Sources -> LevelOrNone] /\ level \in [Sources -> Nat]
    BY UnreadIsFresh DEF EmptyCache, KnownInv, IInv, LevelsTyped
  <2> QED
    BY <1>1, <1>3, <2>1 DEF StartJob, NewInstance
<1>4. CASE UNCHANGED <<atStart, cache>>
  BY <1>1, <1>4
<1>5. CASE ~ StartJob /\ ~ \E c \in active : RunOf(c)
  BY <1>4, <1>5 DEF Next, Degrade, StartCheck, SkipCheck, vars, runVars
<1> QED
  BY <1>2, <1>3, <1>5

\* What a run has read is within the bound.
LEMMA ReadingIsBounded ==
  ASSUME KnownInv, NEW c \in active, NEW r \in [SourcesOf(CheckOf(c)) -> LevelOrNone], NotAhead(r)
  PROVE  r \in Readings(SourcesOf(CheckOf(c)))
<1> SUFFICES ASSUME NEW s \in SourcesOf(CheckOf(c)) PROVE r[s] \in (0..MaxLevel) \cup {NotRead}
  BY DEF Readings
<1>1. s \in Sources
  BY KnownTypes
<1>2. level[s] \in Nat /\ level[s] <= MaxLevel
  BY <1>1 DEF KnownInv, IInv, LevelsTyped, ReadingsKnown
<1>3. r[s] <= level[s] /\ r[s] \in LevelOrNone
  BY DEF NotAhead
<1> QED
  BY <1>2, <1>3, BoundsAssumption DEF LevelOrNone

\* A result stays true.
LEMMA TrueStays ==
  ASSUME KnownInv, [Next]_vars, NEW c \in active, NEW result \in ResultSet(c),
         ResultIsTrue(c, result)
  PROVE  ResultIsTrue(c, result)'
<1>1. /\ result.seen \in [SourcesOf(CheckOf(c)) -> LevelOrNone]
      /\ SourcesOf(CheckOf(c)) \in SUBSET Sources
  BY KnownTypes DEF ResultSet
<1>2. \A s \in SourcesOf(CheckOf(c)) : result.seen[s] <= level'[s]
  BY <1>1, NotAheadStays DEF ResultIsTrue
<1>3. result.job \in 1..Len(cache)
  BY DEF ResultIsTrue
<1>4. result.job \in 1..Len(cache') /\ atStart'[result.job] = atStart[result.job]
  BY <1>3, AtStartStays
<1>5. NoOlderThan(result.seen, result.job)'
  BY <1>4 DEF ResultIsTrue, NoOlderThan
<1>6. NotAhead(result.seen)'
  BY <1>1, <1>2 DEF NotAhead
<1>7. result.failed \/ result.status = StatusOf(CheckOf(c)'.rule, result.seen)
  BY LevelsOnlyGrow DEF ResultIsTrue
<1> QED
  BY <1>4, <1>5, <1>6, <1>7 DEF ResultIsTrue

\* A run that ends makes one true result more.
LEMMA EndIsTrue ==
  ASSUME ResultsInv, [Next]_vars, NEW c \in active, RunOf(c), Ends(c, seen'[c])
  PROVE  \E result \in ResultSet(c) :
           /\ results' = [results EXCEPT ![c] = Append(@, result)]
           /\ ResultIsTrue(c, result)
           /\ result.seen = seen'[c]
<1>1. KnownInv /\ IInv /\ KnownInv' /\ IInv'
  BY NextKnown DEF ResultsInv, KnownInv
<1>2. UNCHANGED <<active, job, level, atStart>> /\ job[c] \in 1..Len(cache) /\ job[c] > 0
  BY <1>1, RunFrame, RunFacts
<1>3. /\ seen'[c] \in [SourcesOf(CheckOf(c)) -> LevelOrNone]
      /\ NotAhead(seen'[c])
      /\ NoOlderThan(seen'[c], job[c])
  <2>1. SourcesOf(CheckOf(c))' = SourcesOf(CheckOf(c))
    BY <1>1, LevelsOnlyGrow
  <2>2. seen'[c] \in [SourcesOf(CheckOf(c)) -> LevelOrNone]
    BY <1>1, <1>2, <2>1 DEF IInv, RunsTyped
  <2>3. NotAhead(seen'[c])
    BY <1>1, <1>2 DEF KnownInv, ReadingsKnown, NotAhead
  <2>4. NoOlderThan(seen'[c], job[c])
    BY <1>1, <1>2 DEF IInv, Fresh, NoOlderThan
  <2> QED
    BY <2>2, <2>3, <2>4
<1>4. PICK status \in {CRIT, UNKNOWN, StatusOf(CheckOf(c).rule, seen'[c])}, failed \in BOOLEAN :
        /\ results' = [results EXCEPT ![c] = Append(@, ResultOf(c, status, failed, seen'[c]))]
        /\ failed \/ status = StatusOf(CheckOf(c).rule, seen'[c])
  BY DEF Ends
<1>5. status \in Statuses
  <2>1. StatusOf(CheckOf(c).rule, seen'[c]) \in Statuses
    <3>1. CheckOf(c).rule \in Rules /\ IsFiniteSet(SourcesOf(CheckOf(c)))
      BY <1>1 DEF IInv, ChecksKnown, WellFormed
    <3>2. seen'[c] \in Readings(SourcesOf(CheckOf(c)))
      BY <1>1, <1>3, ReadingIsBounded
    <3> QED
      BY <3>1, <3>2, StatusIsKnown
  <2> QED
    BY <2>1 DEF Statuses
<1> DEFINE result == ResultOf(c, status, failed, seen'[c])
<1>6. result \in ResultSet(c)
  BY <1>2, <1>3, <1>5 DEF ResultOf, ResultSet
<1>7. ResultIsTrue(c, result) /\ result.seen = seen'[c]
  BY <1>2, <1>3, <1>4 DEF ResultOf, ResultIsTrue
<1> QED
  BY <1>4, <1>6, <1>7

\* Nobody else touches the results.
LEMMA ResultsStep ==
  ASSUME ResultsInv, [Next]_vars
  PROVE  \/ UNCHANGED results
         \/ \E c \in active : RunOf(c) /\ Ends(c, seen'[c])
<1>1. CASE \E c \in active : RunOf(c)
  BY <1>1, RunFrame DEF ResultsInv, KnownInv, GoesOn
<1>2. CASE ~ \E c \in active : RunOf(c)
  BY <1>2 DEF Next, Degrade, StartJob, StartCheck, SkipCheck, vars, runVars
<1> QED
  BY <1>1, <1>2

\* The results are true after every step.
LEMMA NextResults == ResultsInv /\ [Next]_vars => ResultsInv'
<1> SUFFICES ASSUME ResultsInv, [Next]_vars PROVE ResultsInv'
  OBVIOUS
<1>1. KnownInv /\ KnownInv'
  BY NextKnown DEF ResultsInv
<1>2. /\ active' = active
      /\ \A d \in active : SourcesOf(CheckOf(d))' = SourcesOf(CheckOf(d))
  BY <1>1, LevelsOnlyGrow
<1>3. \A d \in active : ResultSet(d)' = ResultSet(d)
  BY <1>2 DEF ResultSet
<1>4. \A d \in active : /\ results[d] \in Seq(ResultSet(d))
                        /\ \A i \in 1..Len(results[d]) : /\ results[d][i] \in ResultSet(d)
                                                         /\ ResultIsTrue(d, results[d][i])
  BY DEF ResultsInv, ResultsTrue
<1>5. DOMAIN results = active
  BY DEF ResultsInv, ResultsTrue
<1>6. ASSUME NEW d \in active, NEW r \in ResultSet(d), ResultIsTrue(d, r)
      PROVE  ResultIsTrue(d, r)'
  BY <1>1, <1>6, TrueStays
<1>7. ASSUME NEW d \in active
      PROVE  /\ results'[d] \in Seq(ResultSet(d))
             /\ \A i \in 1..Len(results'[d]) : ResultIsTrue(d, results'[d][i])
  <2>1. CASE results'[d] = results[d]
    BY <1>4, <2>1
  <2>2. CASE \E c \in active : RunOf(c) /\ Ends(c, seen'[c])
    <3>1. PICK c \in active : RunOf(c) /\ Ends(c, seen'[c])
      BY <2>2
    <3>2. PICK result \in ResultSet(c) :
            /\ results' = [results EXCEPT ![c] = Append(@, result)]
            /\ ResultIsTrue(c, result)
      BY <3>1, EndIsTrue
    <3>3. CASE d # c
      BY <1>5, <2>1, <3>2, <3>3
    <3>4. CASE d = c
      <4>1. results'[c] = Append(results[c], result)
        BY <1>5, <3>2
      <4>2. results[c] \in Seq(ResultSet(c))
        BY <1>4
      <4>3. /\ results'[c] \in Seq(ResultSet(c)) /\ Len(results'[c]) = Len(results[c]) + 1
            /\ Len(results[c]) \in Nat
            /\ results'[c][Len(results[c]) + 1] = result
            /\ \A i \in 1..Len(results[c]) : results'[c][i] = results[c][i]
        BY <4>1, <4>2
      <4>4. \A i \in 1..Len(results'[c]) : i \in 1..Len(results[c]) \/ i = Len(results[c]) + 1
        BY <4>3
      <4> QED
        BY <1>4, <3>2, <3>4, <4>3, <4>4
    <3> QED
      BY <3>3, <3>4
  <2> QED
    BY <2>1, <2>2, ResultsStep
<1>8. DOMAIN results' = active
  BY <1>5, ResultsStep, EndIsTrue
<1>9. ASSUME NEW d \in active, NEW i \in 1..Len(results'[d]) PROVE ResultIsTrue(d, results[d][i])'
  <2>1. PICK r \in ResultSet(d) : r = results'[d][i]
    BY <1>7
  <2>2. ResultIsTrue(d, r)'
    BY <1>6, <1>7, <2>1
  <2> QED
    BY <2>1, <2>2
<1> QED
  BY <1>1, <1>2, <1>3, <1>7, <1>8, <1>9 DEF ResultsInv, ResultsTrue

-----------------------------------------------------------------------------
(* The order of the results.                                               *)

\* What was read after what earlier has, of the same sources, is no better.
Before(earlier, later) ==
  \A s \in DOMAIN earlier : later[s] # NotRead => earlier[s] <= later[s]

\* No check of another run can hand c a reading, or there is no other run meanwhile.
Steady(c) == pool => \A g \in DOMAIN CheckOf(c).groups : CheckOf(c).groups[g].cache = "none"

\* The results of a steady check are in order, and before the run it is in.
InOrder(c) ==
  /\ \A k \in 1..Len(results[c]) : \A i \in 1..(k - 1) :
       Before(results[c][i].seen, results[c][k].seen)
  /\ pc[c] # "idle" => \A i \in 1..Len(results[c]) : Before(results[c][i].seen, seen[c])

\* Without a pool the run there is belongs to the last job, which found nothing better than
\* what the checks it runs, or is still to run, have read before.
InTurn(c) ==
  /\ pc[c] # "idle" => job[c] = Len(cache) /\ c \notin due
  /\ c \in due \/ pc[c] # "idle" =>
       \A i \in 1..Len(results[c]) : \A s \in SourcesOf(CheckOf(c)) :
         results[c][i].seen[s] <= atStart[Len(cache)][s]

\* The order of the results, where the code keeps one.
ResultsOrdered ==
  /\ \A c \in active : Steady(c) => InOrder(c)
  /\ ~ pool => \A c \in active : InTurn(c)

\* The invariant, with their order.
OrderInv == ResultsInv /\ ResultsOrdered

\* There are no results to be out of order at the start.
LEMMA InitOrder == Init => OrderInv
<1> SUFFICES ASSUME Init PROVE OrderInv
  OBVIOUS
<1>1. \A c \in active : results[c] = << >> /\ pc[c] = "idle" /\ c \notin due
  BY DEF Init
<1>2. Len(<< >>) = 0
  OBVIOUS
<1> QED
  BY <1>1, <1>2, InitResults DEF OrderInv, ResultsOrdered, InOrder, InTurn

\* What the invariant says of the results of a check.
LEMMA ResultFacts ==
  ASSUME ResultsInv, NEW c \in active
  PROVE  /\ results[c] \in Seq(ResultSet(c)) /\ DOMAIN results = active
         /\ Len(results[c]) \in Nat
         /\ SourcesOf(CheckOf(c)) \subseteq Sources
         /\ \A i \in 1..Len(results[c]) :
              /\ results[c][i].seen \in [SourcesOf(CheckOf(c)) -> LevelOrNone]
              /\ \A s \in SourcesOf(CheckOf(c)) : /\ results[c][i].seen[s] \in Int
                                                  /\ results[c][i].seen[s] <= level[s]
<1>1. results[c] \in Seq(ResultSet(c)) /\ DOMAIN results = active
  BY DEF ResultsInv, ResultsTrue
<1>2. SourcesOf(CheckOf(c)) \subseteq Sources
  BY KnownTypes DEF ResultsInv
<1>3. ASSUME NEW i \in 1..Len(results[c])
      PROVE  /\ results[c][i].seen \in [SourcesOf(CheckOf(c)) -> LevelOrNone]
             /\ \A s \in SourcesOf(CheckOf(c)) : /\ results[c][i].seen[s] \in Int
                                                 /\ results[c][i].seen[s] <= level[s]
  <2>1. results[c][i] \in ResultSet(c) /\ ResultIsTrue(c, results[c][i])
    BY <1>1 DEF ResultsInv, ResultsTrue
  <2>2. results[c][i].seen \in [SourcesOf(CheckOf(c)) -> LevelOrNone]
    BY <2>1 DEF ResultSet
  <2> QED
    BY <2>1, <2>2 DEF ResultIsTrue, NotAhead, LevelOrNone, NotRead
<1> QED
  BY <1>1, <1>2, <1>3

\* A steady run goes on to read nothing better than any result there is.
LEMMA ReadsInOrder ==
  ASSUME OrderInv, [Next]_vars, NEW c \in active, RunOf(c), Steady(c),
         NEW i \in 1..Len(results[c])
  PROVE  Before(results[c][i].seen, seen'[c])
<1>1. ResultsInv /\ KnownInv /\ IInv /\ KnownInv' /\ IInv' /\ pc[c] # "idle"
  BY NextKnown, RunFrame DEF OrderInv, ResultsInv, KnownInv
<1>2. results[c][i].seen \in [SourcesOf(CheckOf(c)) -> LevelOrNone]
  BY <1>1, ResultFacts
<1> SUFFICES ASSUME NEW s \in SourcesOf(CheckOf(c)), seen'[c][s] # NotRead
             PROVE  results[c][i].seen[s] <= seen'[c][s]
  BY <1>2 DEF Before
<1>3. /\ results[c][i].seen[s] \in Int /\ results[c][i].seen[s] <= level[s]
      /\ s \in Sources
  BY <1>1, ResultFacts
<1>4. CASE pool
  <2>1. GroupOf(c).cache = "none"
    BY <1>1, <1>4 DEF Steady, GroupOf, IInv, RunsTyped
  <2>2. pc[c] # "return"
    BY <1>1, <2>1 DEF KnownInv, ReadingsKnown
  <2>3. seen'[c][s] \in {seen[c][s], level[s]}
    BY <1>1, <2>2, RunReads
  <2>4. Before(results[c][i].seen, seen[c])
    BY <1>1 DEF OrderInv, ResultsOrdered, InOrder
  <2> QED
    BY <1>2, <1>3, <2>3, <2>4 DEF Before
<1>5. CASE ~ pool
  <2>1. job[c] = Len(cache) /\ results[c][i].seen[s] <= atStart[Len(cache)][s]
    BY <1>1, <1>5 DEF OrderInv, ResultsOrdered, InTurn
  <2>2. /\ UNCHANGED <<active, job, atStart>> /\ job[c] > 0 /\ job[c] \in 1..Len(cache)
    BY <1>1, RunFrame, RunFacts
  <2>3. NoOlderThan(seen'[c], job[c])
    BY <1>1, <2>2 DEF IInv, Fresh, NoOlderThan
  <2>4. seen'[c] \in [SourcesOf(CheckOf(c)) -> LevelOrNone]
    <3>1. SourcesOf(CheckOf(c))' = SourcesOf(CheckOf(c))
      BY <1>1, LevelsOnlyGrow
    <3> QED
      BY <1>1, <2>2, <3>1 DEF IInv, RunsTyped
  <2>5. seen'[c][s] >= atStart[job[c]][s]
    BY <2>3, <2>4 DEF NoOlderThan
  <2>6. atStart[job[c]][s] \in Nat /\ seen'[c][s] \in Int
    BY <1>1, <1>3, <2>2, <2>4 DEF IInv, LevelsTyped, LevelOrNone, NotRead
  <2> QED
    BY <1>3, <2>1, <2>5, <2>6
<1> QED
  BY <1>4, <1>5

\* A step of a run keeps the results of its check in order.
LEMMA RunInOrder ==
  ASSUME OrderInv, [Next]_vars, NEW c \in active, RunOf(c), Steady(c)
  PROVE  InOrder(c)'
<1>1. ResultsInv /\ KnownInv /\ IInv
  BY DEF OrderInv, ResultsInv, KnownInv
<1>2. \A i \in 1..Len(results[c]) : Before(results[c][i].seen, seen'[c])
  BY ReadsInOrder
<1>3. \A k \in 1..Len(results[c]) : \A i \in 1..(k - 1) :
        Before(results[c][i].seen, results[c][k].seen)
  BY DEF OrderInv, ResultsOrdered, InOrder
<1>4. CASE UNCHANGED results
  BY <1>2, <1>3, <1>4 DEF InOrder, Before
<1>5. CASE Ends(c, seen'[c])
  <2>1. PICK result \in ResultSet(c) : /\ results' = [results EXCEPT ![c] = Append(@, result)]
                                       /\ result.seen = seen'[c]
    BY <1>1, <1>5, EndIsTrue
  <2>2. /\ results[c] \in Seq(ResultSet(c)) /\ results'[c] = Append(results[c], result)
    BY <1>1, <2>1, ResultFacts
  <2>3. /\ Len(results'[c]) = Len(results[c]) + 1 /\ Len(results[c]) \in Nat
        /\ results'[c][Len(results[c]) + 1] = result
        /\ \A i \in 1..Len(results[c]) : results'[c][i] = results[c][i]
    BY <2>2
  <2>4. ASSUME NEW k \in 1..Len(results'[c]), NEW i \in 1..(k - 1)
        PROVE  Before(results'[c][i].seen, results'[c][k].seen)
    <3>1. i \in 1..Len(results[c]) /\ (k \in 1..Len(results[c]) \/ k = Len(results[c]) + 1)
      BY <2>3
    <3>2. CASE k \in 1..Len(results[c])
      BY <1>3, <2>3, <3>1, <3>2
    <3>3. CASE k = Len(results[c]) + 1
      BY <1>2, <2>1, <2>3, <3>1, <3>3
    <3> QED
      BY <3>1, <3>2, <3>3
  <2>5. pc'[c] = "idle"
    BY <1>1, <1>5, KnownTypes DEF Ends
  <2> QED
    BY <2>4, <2>5 DEF InOrder, Before
<1> QED
  BY <1>1, <1>4, <1>5, RunFrame DEF GoesOn

\* The runs of other checks leave the results of a check, and its run, alone.
LEMMA OtherRun ==
  ASSUME OrderInv, [Next]_vars, NEW c \in active, RunOf(c), NEW d \in active, d # c
  PROVE  results'[d] = results[d] /\ pc'[d] = pc[d] /\ seen'[d] = seen[d]
<1>1. ResultsInv /\ KnownInv /\ IInv
  BY DEF OrderInv, ResultsInv, KnownInv
<1>2. pc'[d] = pc[d] /\ results'[d] = results[d]
  <2>1. pc \in [active -> Places] /\ DOMAIN results = active
    BY <1>1, KnownTypes, ResultFacts
  <2>2. Ends(c, seen'[c]) \/ GoesOn(c)
    BY <1>1, RunFrame
  <2>3. CASE Ends(c, seen'[c])
    <3>1. pc'[d] = pc[d]
      BY <2>1, <2>3 DEF Ends
    <3>2. PICK result : results' = [results EXCEPT ![c] = Append(@, result)]
      BY <2>3 DEF Ends
    <3> QED
      BY <2>1, <3>1, <3>2
  <2>4. CASE GoesOn(c)
    BY <2>1, <2>4 DEF GoesOn
  <2> QED
    BY <2>2, <2>3, <2>4
<1>3. seen'[d] = seen[d]
  BY <1>1, RunFrame, KnownTypes
<1> QED
  BY <1>2, <1>3

\* The results of every check stay in order.
LEMMA StaysInOrder ==
  ASSUME OrderInv, [Next]_vars, NEW d \in active, Steady(d)
  PROVE  InOrder(d)'
<1>1. ResultsInv /\ KnownInv /\ IInv /\ InOrder(d)
  BY DEF OrderInv, ResultsInv, KnownInv, ResultsOrdered
<1>2. ASSUME NEW c \in active, RunOf(c) PROVE InOrder(d)'
  <2>1. CASE c = d
    BY <1>2, <2>1, RunInOrder
  <2>2. CASE c # d
    <3>1. results'[d] = results[d] /\ pc'[d] = pc[d] /\ seen'[d] = seen[d]
      BY <1>2, <2>2, OtherRun
    <3> QED
      BY <1>1, <3>1 DEF InOrder, Before
  <2> QED
    BY <2>1, <2>2
<1>3. ASSUME UNCHANGED results, pc'[d] = "idle" \/ (pc'[d] = pc[d] /\ seen'[d] = seen[d])
      PROVE  InOrder(d)'
  BY <1>1, <1>3 DEF InOrder, Before
<1>4. ASSUME NEW c \in active, StartCheck(c) PROVE InOrder(d)'
  <2>1. UNCHANGED results
    BY <1>4 DEF StartCheck
  <2>2. CASE c # d
    <3>1. pc'[d] = pc[d] /\ seen'[d] = seen[d]
      BY <1>1, <1>4, <2>2, KnownTypes DEF StartCheck
    <3> QED
      BY <1>3, <2>1, <3>1
  <2>3. CASE c = d
    <3>1. seen'[d] = Unread(d)
      BY <1>1, <1>4, <2>3, KnownTypes DEF StartCheck
    <3>2. \A i \in 1..Len(results[d]) : Before(results[d][i].seen, Unread(d))
      BY <1>1, ResultFacts DEF Before, Unread
    <3> QED
      BY <1>1, <2>1, <3>1, <3>2 DEF InOrder, Before
  <2> QED
    BY <2>2, <2>3
<1>5. CASE UNCHANGED runVars
  BY <1>3, <1>5 DEF runVars
<1> QED
  BY <1>2, <1>4, <1>5 DEF Next, Degrade, StartJob, SkipCheck, vars

\* Without a pool, the jobs and the runs take turns.
LEMMA StaysInTurn ==
  ASSUME OrderInv, [Next]_vars, ~ pool, NEW d \in active
  PROVE  InTurn(d)'
<1>1. ResultsInv /\ KnownInv /\ IInv /\ InTurn(d)
  BY DEF OrderInv, ResultsInv, KnownInv, ResultsOrdered
<1>2. SourcesOf(CheckOf(d))' = SourcesOf(CheckOf(d))
  BY <1>1, LevelsOnlyGrow
<1>3. ASSUME NEW c \in active, RunOf(c) PROVE InTurn(d)'
  <2>1. UNCHANGED <<due, atStart, job>> /\ pc[c] # "idle" /\ Len(cache') = Len(cache)
    <3>1. /\ UNCHANGED <<due, atStart, job>> /\ pc[c] # "idle"
          /\ cache' = cache \/ cache' = [cache EXCEPT ![job[c]] = cache'[job[c]]]
      BY <1>1, <1>3, RunFrame
    <3>2. cache \in Seq([Sources -> LevelOrNone])
      BY <1>1, KnownTypes
    <3> QED
      BY <3>1, <3>2
  <2>2. CASE c # d
    <3>1. results'[d] = results[d] /\ pc'[d] = pc[d]
      BY <1>3, <2>2, OtherRun
    <3> QED
      BY <1>1, <1>2, <2>1, <3>1 DEF InTurn
  <2>3. CASE c = d
    <3>1. d \notin due'
      BY <1>1, <2>1, <2>3 DEF InTurn
    <3>2. CASE GoesOn(c)
      BY <1>1, <1>2, <2>1, <2>3, <3>1, <3>2 DEF InTurn, GoesOn
    <3>3. CASE Ends(c, seen'[c])
      <4>1. pc'[d] = "idle"
        BY <1>1, <2>3, <3>3, KnownTypes DEF Ends
      <4> QED
        BY <3>1, <4>1 DEF InTurn
    <3> QED
      BY <1>1, <1>3, <3>2, <3>3, RunFrame
  <2> QED
    BY <2>2, <2>3
<1>4. CASE StartJob
  <2>1. /\ pc'[d] = "idle" /\ results' = results
        /\ atStart' = Append(atStart, level) /\ cache' = Append(cache, EmptyCache)
    BY <1>4 DEF StartJob, NewInstance, runVars
  <2>2. /\ atStart \in Seq([Sources -> Nat]) /\ level \in [Sources -> Nat]
        /\ cache \in Seq([Sources -> LevelOrNone]) /\ Len(atStart) = Len(cache)
        /\ EmptyCache \in [Sources -> LevelOrNone]
    BY <1>1, UnreadIsFresh DEF IInv, LevelsTyped, EmptyCache
  <2>3. atStart'[Len(cache')] = level
    BY <2>1, <2>2
  <2> QED
    BY <1>1, <1>2, <2>1, <2>3, ResultFacts DEF InTurn
<1>5. ASSUME NEW c \in active, StartCheck(c) PROVE InTurn(d)'
  <2>1. /\ UNCHANGED <<results, cache, atStart>> /\ due' = due \ {c} /\ c \in due
        /\ pc' = [pc EXCEPT ![c] = "access"] /\ job' = [job EXCEPT ![c] = Len(cache)]
    BY <1>5 DEF StartCheck
  <2>2. CASE c = d
    <3>1. job'[d] = Len(cache) /\ d \notin due'
      BY <1>1, <2>1, <2>2, KnownTypes
    <3> QED
      BY <1>1, <1>2, <2>1, <2>2, <3>1 DEF InTurn
  <2>3. CASE c # d
    <3>1. job'[d] = job[d] /\ pc'[d] = pc[d] /\ (d \in due' <=> d \in due)
      BY <1>1, <2>1, <2>3, KnownTypes
    <3> QED
      BY <1>1, <1>2, <2>1, <3>1 DEF InTurn
  <2> QED
    BY <2>2, <2>3
<1>6. CASE UNCHANGED <<due, atStart, cache, runVars>>
  BY <1>1, <1>2, <1>6 DEF InTurn, runVars
<1> QED
  BY <1>3, <1>4, <1>5, <1>6 DEF Next, Degrade, SkipCheck, vars

\* Every step keeps the results in order.
LEMMA NextOrder == OrderInv /\ [Next]_vars => OrderInv'
<1> SUFFICES ASSUME OrderInv, [Next]_vars PROVE OrderInv'
  OBVIOUS
<1>1. ResultsInv /\ ResultsInv' /\ KnownInv
  BY NextResults DEF OrderInv, ResultsInv
<1>2. /\ UNCHANGED <<active, pool>>
      /\ \A d \in active : CheckOf(d)' = CheckOf(d)
  BY <1>1, LevelsOnlyGrow
<1>3. \A d \in active : Steady(d)' => Steady(d)
  BY <1>2 DEF Steady
<1> QED
  BY <1>1, <1>2, <1>3, StaysInOrder, StaysInTurn DEF OrderInv, ResultsOrdered

\* The invariant always holds.
LEMMA AlwaysOrder == Spec => []OrderInv
BY InitOrder, NextOrder, PTL DEF Spec

-----------------------------------------------------------------------------
(* What was read of what there is.                                         *)

\* A group that c may not leave out.
Must(c, g) == CheckOf(c).groups[g].fails \cap {"skip", "unlisted"} = {}

\* Such groups are read before the one that c is at.
ReadBefore(c, read) ==
  \A g \in DOMAIN CheckOf(c).groups :
    g < at[c] /\ Must(c, g) => CheckOf(c).groups[g].sources \subseteq read

\* What runs gather: what c is about to store or to return was read, and so was all that it
\* says is OK.
Gathers(c) ==
  /\ pc[c] # "idle" => ReadBefore(c, Read(seen[c]))
  /\ pc[c] = "store" => \A s \in GroupOf(c).sources : own[c][s] # NotRead
  /\ pc[c] = "return" => InCache(c)
  /\ \A i \in 1..Len(results[c]) :
       ~ results[c][i].failed /\ results[c][i].status = OK =>
         ReadAll(c, Read(results[c][i].seen))

\* The invariant, with what runs gather.
GatherInv == OrderInv /\ \A c \in active : Gathers(c)

\* Nothing runs at the start.
LEMMA InitGather == Init => GatherInv
<1> SUFFICES ASSUME Init PROVE GatherInv
  OBVIOUS
<1>1. \A c \in active : pc[c] = "idle" /\ results[c] = << >>
  BY DEF Init
<1>2. Len(<< >>) = 0
  OBVIOUS
<1> QED
  BY <1>1, <1>2, InitOrder DEF GatherInv, Gathers

\* What is in a cache stays there, in one form or another.
LEMMA CacheStays ==
  ASSUME GatherInv, [Next]_vars, NEW j \in 1..Len(cache), NEW s \in Sources,
         cache[j][s] # NotRead
  PROVE  cache'[j][s] # NotRead
<1>1. KnownInv /\ IInv /\ cache \in Seq([Sources -> LevelOrNone])
  BY DEF GatherInv, OrderInv, ResultsInv, KnownInv, IInv, LevelsTyped
<1>2. CASE cache' = cache
  BY <1>2
<1>3. ASSUME NEW c \in active, Store(c) PROVE cache'[j][s] # NotRead
  <2>1. CASE cache' = [cache EXCEPT ![job[c]] = WithGroup(c, @, LAMBDA r : own[c][r])]
    <3>1. pc[c] = "store" /\ \A r \in GroupOf(c).sources : own[c][r] # NotRead
      BY <1>3 DEF Store, GatherInv, Gathers
    <3>2. cache[j] \in [Sources -> LevelOrNone]
      BY <1>1
    <3>3. CASE j = job[c]
      <4>1. cache'[j][s] = IF s \in GroupOf(c).sources THEN own[c][s] ELSE cache[j][s]
        BY <1>1, <2>1, <3>2, <3>3 DEF WithGroup
      <4> QED
        BY <3>1, <4>1
    <3>4. CASE j # job[c]
      BY <1>1, <2>1, <3>4
    <3> QED
      BY <3>3, <3>4
  <2> QED
    BY <1>2, <1>3, <2>1 DEF Store
<1>4. CASE StartJob
  <2>1. EmptyCache \in [Sources -> LevelOrNone]
    BY UnreadIsFresh DEF EmptyCache
  <2> QED
    BY <1>1, <1>4, <2>1 DEF StartJob, NewInstance
<1>5. CASE \E c \in active : RunOf(c) /\ ~ Store(c)
  BY <1>2, <1>5 DEF RunOf, LookUp, Fetch, Query, Return, QuerySkips, ReadingFails
<1>6. CASE ~ StartJob /\ ~ \E c \in active : RunOf(c)
  BY <1>2, <1>6 DEF Next, Degrade, StartCheck, SkipCheck, vars
<1> QED
  BY <1>3, <1>4, <1>5, <1>6 DEF RunOf

\* What was read before is still there after a step of the run, and a group that is read now
\* is there as a whole.
LEMMA RunGathers ==
  ASSUME GatherInv, NEW c \in active, RunOf(c)
  PROVE  /\ ReadBefore(c, Read(seen'[c]))
         /\ (Query(c) \/ Return(c)) /\ Must(c, at[c]) => GroupOf(c).sources \subseteq Read(seen'[c])
<1>1. KnownInv /\ IInv /\ Gathers(c) /\ pc[c] # "idle" /\ WellFormed(CheckOf(c))
  BY RunFrame DEF GatherInv, OrderInv, ResultsInv, KnownInv, IInv, ChecksKnown
<1>2. /\ DOMAIN seen = active /\ DOMAIN seen[c] = SourcesOf(CheckOf(c))
      /\ cache[job[c]] \in [Sources -> LevelOrNone]
      /\ at[c] \in DOMAIN CheckOf(c).groups /\ at[c] \in Nat
      /\ GroupOf(c).sources \subseteq SourcesOf(CheckOf(c)) /\ SourcesOf(CheckOf(c)) \subseteq Sources
  BY <1>1, RunFacts, GroupSources, AllFacts, KnownTypes
<1>3. \A g \in DOMAIN CheckOf(c).groups :
        g \in 1..Len(CheckOf(c).groups)
        /\ CheckOf(c).groups[g].sources \subseteq SourcesOf(CheckOf(c))
  BY <1>1 DEF WellFormed, SourcesOf
<1>4. CASE UNCHANGED seen /\ ~ Query(c) /\ ~ Return(c)
  BY <1>1, <1>4 DEF Gathers
<1>5. ASSUME NEW value \in [SourcesOf(CheckOf(c)) -> Int],
             \A s \in GroupOf(c).sources : value[s] # NotRead,
             seen'[c] = [s \in SourcesOf(CheckOf(c)) |->
                           IF s \in GroupOf(c).sources THEN value[s] ELSE seen[c][s]]
      PROVE  ReadBefore(c, Read(seen'[c])) /\ GroupOf(c).sources \subseteq Read(seen'[c])
  <2>1. \A s \in SourcesOf(CheckOf(c)) :
          s \in Read(seen[c]) \/ s \in GroupOf(c).sources => s \in Read(seen'[c])
    BY <1>2, <1>5 DEF Read
  <2> QED
    BY <1>1, <1>2, <1>3, <2>1 DEF Gathers, ReadBefore
<1>6. CASE Query(c)
  <2> DEFINE value == [s \in SourcesOf(CheckOf(c)) |-> level[s]]
  <2>1. \A s \in SourcesOf(CheckOf(c)) : level[s] \in Int /\ level[s] # NotRead
    BY <1>1, <1>2 DEF IInv, LevelsTyped, NotRead
  <2>2. /\ value \in [SourcesOf(CheckOf(c)) -> Int]
        /\ \A s \in GroupOf(c).sources : value[s] # NotRead
    BY <1>2, <2>1
  <2>3. seen'[c] = [s \in SourcesOf(CheckOf(c)) |->
                      IF s \in GroupOf(c).sources THEN value[s] ELSE seen[c][s]]
    BY <1>2, <1>6 DEF Query, WithGroup
  <2> HIDE DEF value
  <2> QED
    BY <1>5, <2>2, <2>3
<1>7. CASE Return(c)
  <2>1. seen'[c] = [s \in SourcesOf(CheckOf(c)) |->
                      IF s \in GroupOf(c).sources
                      THEN Listed(c, IF GroupOf(c).cache = "lru" /\ own[c][s] # NotRead
                                     THEN own[c][s] ELSE cache[job[c]][s])
                      ELSE seen[c][s]]
    BY <1>2, <1>7 DEF Return, WithGroup
  <2>2. CASE "unlisted" \in GroupOf(c).fails
    <3>1. Len(CheckOf(c).groups) = 1
      BY <1>1, <1>2, <2>2 DEF WellFormed, GroupOf
    <3>2. \A g \in DOMAIN CheckOf(c).groups : ~ (g < at[c])
      BY <1>2, <1>3, <3>1
    <3> QED
      BY <2>2, <3>2 DEF ReadBefore, Must, GroupOf
  <2>3. CASE "unlisted" \notin GroupOf(c).fails
    <3> DEFINE value == [s \in SourcesOf(CheckOf(c)) |->
                           IF GroupOf(c).cache = "lru" /\ own[c][s] # NotRead
                           THEN own[c][s] ELSE cache[job[c]][s]]
    <3>1. \A s \in GroupOf(c).sources : cache[job[c]][s] # NotRead
      BY <1>1, <1>7 DEF Return, Gathers, InCache
    <3>2. \A s \in SourcesOf(CheckOf(c)) : own[c][s] \in Int /\ cache[job[c]][s] \in Int
      BY <1>1, <1>2, RunFacts DEF LevelOrNone, NotRead
    <3>3. /\ value \in [SourcesOf(CheckOf(c)) -> Int]
          /\ \A s \in GroupOf(c).sources : value[s] # NotRead
      BY <1>2, <3>1, <3>2
    <3>4. seen'[c] = [s \in SourcesOf(CheckOf(c)) |->
                        IF s \in GroupOf(c).sources THEN value[s] ELSE seen[c][s]]
      BY <2>1, <2>3 DEF Listed
    <3> HIDE DEF value
    <3> QED
      BY <1>5, <3>3, <3>4
  <2> QED
    BY <2>2, <2>3
<1>8. CASE LookUp(c) \/ Fetch(c) \/ Store(c) \/ QuerySkips(c) \/ ReadingFails(c)
  <2>1. UNCHANGED seen
    BY <1>8 DEF LookUp, Fetch, Store, QuerySkips, ReadingFails
  <2> QED
    BY <1>4, <1>6, <1>7, <2>1
<1> QED
  BY <1>6, <1>7, <1>8 DEF RunOf

\* A run goes on with what it has gathered, or ends with a result that is OK only after all.
LEMMA ContinueGathers ==
  ASSUME GatherInv, NEW c \in active, NEW read, Continue(c, read),
         ReadBefore(c, Read(read)), Must(c, at[c]) => GroupOf(c).sources \subseteq Read(read)
  PROVE  \/ /\ pc' = [pc EXCEPT ![c] = "access"]
            /\ at' = [at EXCEPT ![c] = @ + 1]
            /\ UNCHANGED results
            /\ \A g \in DOMAIN CheckOf(c).groups :
                 g < at[c] + 1 /\ Must(c, g) => CheckOf(c).groups[g].sources \subseteq Read(read)
         \/ \E status : /\ Finish(c, status, FALSE, read)
                        /\ status = OK => ReadAll(c, Read(read))
<1>1. /\ KnownInv /\ IInv /\ WellFormed(CheckOf(c))
      /\ at[c] \in DOMAIN CheckOf(c).groups /\ at[c] \in Nat
  BY KnownTypes DEF GatherInv, OrderInv, ResultsInv, KnownInv, IInv, ChecksKnown, RunsTyped
<1>2. \A g \in DOMAIN CheckOf(c).groups :
        g \in 1..Len(CheckOf(c).groups) /\ Len(CheckOf(c).groups) \in Nat
  BY <1>1 DEF WellFormed
<1>3. \A g \in DOMAIN CheckOf(c).groups :
        g < at[c] + 1 /\ Must(c, g) => CheckOf(c).groups[g].sources \subseteq Read(read)
  BY <1>1, <1>2 DEF ReadBefore, GroupOf
<1>4. CASE at[c] = Len(CheckOf(c).groups)
  <2>1. ReadAll(c, Read(read))
    BY <1>2, <1>3, <1>4 DEF ReadAll, Must
  <2> QED
    BY <1>4, <2>1 DEF Continue
<1>5. CASE at[c] # Len(CheckOf(c).groups)
  BY <1>3, <1>5 DEF Continue
<1> QED
  BY <1>4, <1>5

\* A new result is OK only after all was read.
LEMMA FinishGathers ==
  ASSUME GatherInv, NEW c \in active, NEW status, NEW failed, NEW read,
         Finish(c, status, failed, read),
         ~ failed /\ status = OK => ReadAll(c, Read(read))
  PROVE  /\ pc'[c] = "idle"
         /\ \A i \in 1..Len(results'[c]) :
              ~ results'[c][i].failed /\ results'[c][i].status = OK =>
                ReadAll(c, Read(results'[c][i].seen))
<1> DEFINE result == ResultOf(c, status, failed, read)
<1>1. /\ results[c] \in Seq(ResultSet(c)) /\ DOMAIN results = active
      /\ pc \in [active -> Places] /\ Gathers(c)
  BY KnownTypes DEF GatherInv, OrderInv, ResultsInv, ResultsTrue
<1>2. /\ pc'[c] = "idle"
      /\ results'[c] = Append(results[c], result)
  BY <1>1 DEF Finish, ResultOf
<1>3. /\ result.failed = failed /\ result.status = status /\ result.seen = read
  BY DEF ResultOf
<1> HIDE DEF result
<1>4. ASSUME NEW i \in 1..Len(results'[c])
      PROVE  \/ i \in 1..Len(results[c]) /\ results'[c][i] = results[c][i]
             \/ results'[c][i] = result
  BY <1>1, <1>2
<1> QED
  BY <1>1, <1>2, <1>3, <1>4 DEF Gathers

\* A step of its own leaves a run with what it has to gather.
LEMMA OwnStepGathers ==
  ASSUME GatherInv, [Next]_vars, NEW c \in active, RunOf(c)
  PROVE  Gathers(c)'
<1>1. KnownInv /\ IInv /\ Gathers(c) /\ UNCHANGED <<plugin, active, job>>
  BY RunFrame DEF GatherInv, OrderInv, ResultsInv, KnownInv
<1>2. /\ CheckOf(c)' = CheckOf(c) /\ Sources' = Sources
      /\ pc \in [active -> Places] /\ at \in [active -> Nat] /\ DOMAIN own = active
      /\ own[c] \in [SourcesOf(CheckOf(c)) -> LevelOrNone]
      /\ job[c] \in 1..Len(cache) /\ cache \in Seq([Sources -> LevelOrNone])
      /\ cache[job[c]] \in [Sources -> LevelOrNone] /\ DOMAIN results = active
      /\ GroupOf(c).sources \subseteq SourcesOf(CheckOf(c)) /\ SourcesOf(CheckOf(c)) \subseteq Sources
  BY <1>1, RunFrame, RunFacts, KnownTypes, GroupSources, TableUnchanged
    DEF GatherInv, OrderInv, ResultsInv, ResultsTrue
<1>3. \A read : ReadAll(c, read)' = ReadAll(c, read)
  BY <1>2 DEF ReadAll
<1>4. ASSUME UNCHANGED <<seen, results, at>>, pc'[c] \notin {"store", "return"}
      PROVE  Gathers(c)'
  BY <1>1, <1>2, <1>3, <1>4, RunGathers DEF Gathers, ReadBefore, Must
<1>5. ASSUME NEW status, NEW failed, NEW read, Finish(c, status, failed, read),
             ~ failed /\ status = OK => ReadAll(c, Read(read))
      PROVE  Gathers(c)'
  BY <1>3, <1>5, FinishGathers DEF Gathers
<1>6. ASSUME Continue(c, seen'[c]), Must(c, at[c]) => GroupOf(c).sources \subseteq Read(seen'[c])
      PROVE  Gathers(c)'
  <2>1. CASE \E status : /\ Finish(c, status, FALSE, seen'[c])
                         /\ status = OK => ReadAll(c, Read(seen'[c]))
    BY <1>5, <2>1
  <2>2. CASE /\ pc' = [pc EXCEPT ![c] = "access"] /\ at' = [at EXCEPT ![c] = @ + 1]
             /\ UNCHANGED results
             /\ \A g \in DOMAIN CheckOf(c).groups : g < at[c] + 1 /\ Must(c, g) =>
                  CheckOf(c).groups[g].sources \subseteq Read(seen'[c])
    <3>1. pc'[c] = "access" /\ at'[c] = at[c] + 1
      BY <1>2, <2>2
    <3>2. ReadBefore(c, Read(seen[c]))'
      BY <1>2, <2>2, <3>1 DEF ReadBefore, Must
    <3> QED
      BY <1>1, <1>3, <2>2, <3>1, <3>2 DEF Gathers
  <2> QED
    BY <1>6, <2>1, <2>2, RunGathers, ContinueGathers
<1>7. CASE LookUp(c)
  <2>1. UNCHANGED <<seen, own, at, cache, results>>
    BY <1>7 DEF LookUp
  <2>2. pc'[c] = IF InCache(c) THEN "return" ELSE "fetch"
    BY <1>2, <1>7 DEF LookUp
  <2>3. InCache(c)' = InCache(c)
    BY <1>1, <1>2, <2>1 DEF InCache, GroupOf
  <2>4. ReadBefore(c, Read(seen[c]))'
    BY <1>2, <1>7, <2>1, RunGathers DEF ReadBefore, Must
  <2> QED
    BY <1>1, <1>3, <2>1, <2>2, <2>3, <2>4 DEF Gathers
<1>8. CASE Fetch(c)
  <2>1. UNCHANGED <<seen, at, results>> /\ pc'[c] = "store"
    BY <1>2, <1>8 DEF Fetch
  <2>2. ASSUME NEW s \in GroupOf(c).sources PROVE own'[c][s] # NotRead
    <3>1. own'[c][s] = level[s]
      BY <1>2, <1>8 DEF Fetch, WithGroup
    <3>2. level[s] \in Nat
      BY <1>1, <1>2 DEF IInv, LevelsTyped
    <3> QED
      BY <3>1, <3>2 DEF NotRead
  <2>3. GroupOf(c)' = GroupOf(c)
    BY <1>2, <2>1 DEF GroupOf
  <2>4. ReadBefore(c, Read(seen[c]))'
    BY <1>2, <2>1, RunGathers DEF ReadBefore, Must
  <2> QED
    BY <1>1, <1>3, <2>1, <2>2, <2>3, <2>4 DEF Gathers
<1>9. CASE Store(c)
  <2>1. UNCHANGED <<seen, own, at, results>> /\ pc'[c] = "return" /\ pc[c] = "store"
    BY <1>2, <1>9 DEF Store
  <2>2. GroupOf(c)' = GroupOf(c)
    BY <1>2, <2>1 DEF GroupOf
  <2>3. InCache(c)'
    <3>1. CASE cache' = cache /\ InCache(c)
      BY <1>1, <2>2, <3>1 DEF InCache
    <3>2. CASE cache' = [cache EXCEPT ![job[c]] = WithGroup(c, @, LAMBDA s : own[c][s])]
      <4>1. cache'[job[c]] = [s \in Sources |->
                                IF s \in GroupOf(c).sources THEN own[c][s] ELSE cache[job[c]][s]]
        BY <1>2, <3>2 DEF WithGroup
      <4>2. \A s \in GroupOf(c).sources : cache'[job[c]][s] # NotRead
        BY <1>1, <1>2, <2>1, <4>1 DEF Gathers
      <4> QED
        BY <1>1, <2>2, <4>2 DEF InCache
    <3> QED
      BY <1>9, <3>1, <3>2 DEF Store
  <2>4. ReadBefore(c, Read(seen[c]))'
    BY <1>2, <2>1, RunGathers DEF ReadBefore, Must
  <2> QED
    BY <1>1, <1>3, <2>1, <2>3, <2>4 DEF Gathers
<1>10. CASE Query(c) \/ Return(c)
  <2>1. Continue(c, seen'[c])
    BY <1>10 DEF Query, Return
  <2> QED
    BY <1>6, <1>10, <2>1, RunGathers
<1>11. CASE QuerySkips(c)
  <2>1. Continue(c, seen'[c])
    BY <1>11 DEF QuerySkips
  <2>2. ~ Must(c, at[c])
    BY <1>11 DEF QuerySkips, Must, GroupOf
  <2> QED
    BY <1>6, <2>1, <2>2
<1>12. CASE ReadingFails(c)
  <2>1. PICK status \in {CRIT, UNKNOWN} : Finish(c, status, TRUE, seen[c])
    BY <1>12 DEF ReadingFails
  <2> QED
    BY <1>5, <2>1
<1> QED
  BY <1>7, <1>8, <1>9, <1>10, <1>11, <1>12 DEF RunOf

\* Every step keeps what the runs have gathered.
LEMMA NextGather == GatherInv /\ [Next]_vars => GatherInv'
<1> SUFFICES ASSUME GatherInv, [Next]_vars PROVE GatherInv'
  OBVIOUS
<1>1. OrderInv /\ OrderInv' /\ KnownInv /\ IInv
  BY NextOrder DEF GatherInv, OrderInv, ResultsInv, KnownInv
<1>2. active' = active /\ \A d \in active : CheckOf(d)' = CheckOf(d)
  BY <1>1, LevelsOnlyGrow
<1> SUFFICES ASSUME NEW d \in active PROVE Gathers(d)'
  BY <1>1, <1>2 DEF GatherInv
<1>3. Gathers(d) /\ \A read : ReadAll(d, read)' = ReadAll(d, read)
  BY <1>2 DEF GatherInv, ReadAll
<1>4. ASSUME results'[d] = results[d], at'[d] = at[d], pc'[d] = pc[d], job'[d] = job[d],
             seen'[d] = seen[d], own'[d] = own[d]
      PROVE  Gathers(d)'
  <2>1. GroupOf(d)' = GroupOf(d)
    BY <1>2, <1>4 DEF GroupOf
  <2>2. ReadBefore(d, Read(seen[d])) => ReadBefore(d, Read(seen[d]))'
    BY <1>2, <1>4 DEF ReadBefore, Must
  <2>3. ASSUME pc[d] = "return" PROVE InCache(d)'
    <3>1. InCache(d) /\ job[d] \in 1..Len(cache) /\ GroupOf(d).sources \subseteq Sources
      BY <1>1, <1>3, <2>3, RunFacts, GroupSources DEF Gathers
    <3>2. \A s \in GroupOf(d).sources : cache'[job[d]][s] # NotRead
      BY <3>1, CacheStays DEF InCache
    <3> QED
      BY <1>4, <2>1, <3>2 DEF InCache
  <2> QED
    BY <1>3, <1>4, <2>1, <2>2, <2>3 DEF Gathers
<1>5. ASSUME NEW c \in active, RunOf(c) PROVE Gathers(d)'
  <2>1. CASE c = d
    BY <1>5, <2>1, OwnStepGathers
  <2>2. CASE c # d
    <3>1. results'[d] = results[d] /\ pc'[d] = pc[d] /\ seen'[d] = seen[d]
      BY <1>1, <1>5, <2>2, OtherRun
    <3>2. own'[d] = own[d] /\ job' = job
      BY <1>1, <1>5, <2>2, RunFrame, KnownTypes
    <3>3. at'[d] = at[d]
      BY <1>1, <1>5, <2>2, KnownTypes DEF RunOf, LookUp, Fetch, Store, Query, Return, QuerySkips,
         ReadingFails, Continue, Finish
    <3> QED
      BY <1>4, <3>1, <3>2, <3>3
  <2> QED
    BY <2>1, <2>2
<1>6. ASSUME NEW c \in active, StartCheck(c) PROVE Gathers(d)'
  <2>1. results'[d] = results[d]
    BY <1>6 DEF StartCheck
  <2>2. CASE c = d
    <3>1. pc'[d] = "access" /\ at'[d] = 1
      BY <1>1, <1>6, <2>2, KnownTypes DEF StartCheck
    <3>2. \A g \in DOMAIN CheckOf(d).groups : ~ (g < 1)
      BY <1>1 DEF IInv, ChecksKnown, WellFormed
    <3>3. ReadBefore(d, Read(seen[d]))'
      BY <1>2, <3>1, <3>2 DEF ReadBefore
    <3> QED
      BY <1>3, <2>1, <3>1, <3>3 DEF Gathers
  <2>3. CASE c # d
    <3>1. /\ at'[d] = at[d] /\ pc'[d] = pc[d] /\ job'[d] = job[d]
          /\ seen'[d] = seen[d] /\ own'[d] = own[d]
      BY <1>1, <1>6, <2>3, KnownTypes DEF StartCheck
    <3> QED
      BY <1>4, <2>1, <3>1
  <2> QED
    BY <2>2, <2>3
<1>7. CASE UNCHANGED runVars
  BY <1>4, <1>7 DEF runVars
<1> QED
  BY <1>5, <1>6, <1>7 DEF Next, Degrade, StartJob, SkipCheck, vars

\* The invariant always holds.
LEMMA AlwaysGather == Spec => []GatherInv
BY InitGather, NextGather, PTL DEF Spec

-----------------------------------------------------------------------------
(* What the statuses say.                                                  *)

\* A result that was read is one of its rule, over finitely many sources.
LEMMA ResultReadings ==
  ASSUME OrderInv, NEW c \in active, NEW i \in 1..Len(results[c]), ~ results[c][i].failed
  PROVE  /\ CheckOf(c).rule \in Rules
         /\ IsFiniteSet(SourcesOf(CheckOf(c)))
         /\ CheckOf(c).rule = "running" => Cardinality(SourcesOf(CheckOf(c))) <= 2
         /\ results[c][i].seen \in Readings(SourcesOf(CheckOf(c)))
         /\ results[c][i].status = StatusOf(CheckOf(c).rule, results[c][i].seen)
         /\ results[c][i].job \in 1..Len(cache)
         /\ NoOlderThan(results[c][i].seen, results[c][i].job)
<1>1. ResultsInv /\ KnownInv /\ IInv
  BY DEF OrderInv, ResultsInv, KnownInv
<1>2. WellFormed(CheckOf(c))
  BY <1>1 DEF IInv, ChecksKnown
<1>3. ResultIsTrue(c, results[c][i])
  BY <1>1 DEF ResultsInv, ResultsTrue
<1>4. results[c][i].seen \in Readings(SourcesOf(CheckOf(c)))
  BY <1>1, <1>3, ResultFacts, ReadingIsBounded DEF ResultIsTrue
<1> QED
  BY <1>2, <1>3, <1>4 DEF WellFormed, ResultIsTrue

\* A part of what the last result of a check was read from is no worse than the result.
LEMMA PartIsNoticed ==
  ASSUME OrderInv, NEW c \in active, results[c] # << >>,
         ~ results[c][Len(results[c])].failed, CheckOf(c).rule # "latency",
         NEW part,
         part \in IF CheckOf(c).rule = "running"
                  THEN {Read(results[c][Len(results[c])].seen)}
                  ELSE {{s} : s \in Read(results[c][Len(results[c])].seen)}
  PROVE  Severity(results[c][Len(results[c])].status) >=
           Severity(StatusOf(CheckOf(c).rule,
             [s \in part |-> atStart[results[c][Len(results[c])].job][s]]))
<1> DEFINE n == Len(results[c])
           rule == CheckOf(c).rule
           b == results[c][n].seen
           j == results[c][n].job
           S == SourcesOf(CheckOf(c))
           a == [s \in part |-> atStart[j][s]]
<1>1. n \in 1..Len(results[c])
  BY ResultFacts DEF OrderInv
<1>2. /\ rule \in Rules \ {"latency"} /\ IsFiniteSet(S)
      /\ rule = "running" => Cardinality(S) <= 2
      /\ b \in Readings(S) /\ results[c][n].status = StatusOf(rule, b)
      /\ j \in 1..Len(cache) /\ NoOlderThan(b, j)
  BY <1>1, ResultReadings
<1>3. part \in SUBSET Read(b) /\ (part = Read(b) \/ (part # {} /\ rule # "running"))
  OBVIOUS
<1>4. Read(b) \in SUBSET S /\ S \subseteq Sources
  BY <1>2, ResultFacts DEF Read, Readings, OrderInv
<1>5. \A s \in part : atStart[j][s] \in 0..MaxLevel /\ b[s] # NotRead /\ atStart[j][s] <= b[s]
  <2> SUFFICES ASSUME NEW s \in part
               PROVE  atStart[j][s] \in 0..MaxLevel /\ b[s] # NotRead /\ atStart[j][s] <= b[s]
    OBVIOUS
  <2>1. s \in Read(b) /\ s \in S /\ s \in Sources
    BY <1>3, <1>4
  <2>2. b[s] # NotRead /\ s \in DOMAIN b
    BY <2>1 DEF Read
  <2>3. atStart[j][s] <= b[s]
    BY <1>2, <2>2 DEF NoOlderThan
  <2>4. b[s] \in 0..MaxLevel
    BY <1>2, <2>1, <2>2 DEF Readings
  <2>5. atStart[j][s] \in Nat
    BY <1>2, <2>1 DEF OrderInv, ResultsInv, KnownInv, IInv, LevelsTyped
  <2> QED
    BY <2>2, <2>3, <2>4, <2>5, BoundsAssumption
<1>6. IsFiniteSet(part)
  BY <1>2, <1>3, <1>4, FS_Subset
<1>7. a \in Readings(part) /\ Read(a) = part
  BY <1>5 DEF Readings, Read, NotRead
<1>8. NoBetter(a, b)
  BY <1>3, <1>5, <1>7 DEF NoBetter
<1>9. rule = "running" => Cardinality(part) <= 2
  <2>1. Cardinality(part) <= Cardinality(S) /\ Cardinality(part) \in Nat /\ Cardinality(S) \in Nat
    BY <1>2, <1>3, <1>4, <1>6, FS_Subset, FS_CardinalityType
  <2> QED
    BY <1>2, <2>1
<1> HIDE DEF n, rule, b, j, S, a
<1>10. Severity(StatusOf(rule, a)) <= Severity(StatusOf(rule, b))
  BY <1>2, <1>3, <1>6, <1>7, <1>8, <1>9, StatusIsMonotone
<1>11. Severity(StatusOf(rule, a)) \in Int /\ Severity(StatusOf(rule, b)) \in Int
  <2>1. StatusOf(rule, a) \in Statuses /\ StatusOf(rule, b) \in Statuses
    BY <1>2, <1>6, <1>7, StatusIsKnown
  <2> QED
    BY <2>1, Severities DEF Statuses
<1> QED
  BY <1>2, <1>10, <1>11 DEF n, rule, b, j, S, a

\* Whatever the thresholds and however many jobs overlap, the last result of a check is as
\* severe as anything it read was when its job began,
\* and OK only when it has read all that it may not leave out.
THEOREM FaultsAreNoticed == Spec => []FaultIsNoticed
<1>1. GatherInv => FaultIsNoticed
  <2> SUFFICES ASSUME GatherInv, NEW c \in active, results[c] # << >>,
                      ~ results[c][Len(results[c])].failed, CheckOf(c).rule # "latency"
               PROVE  LET result == results[c][Len(results[c])]
                          rule == CheckOf(c).rule
                          read == Read(result.seen)
                          parts == IF rule = "running" THEN {read} ELSE {{s} : s \in read}
                      IN  /\ \A part \in parts :
                               Severity(result.status) >=
                                 Severity(StatusOf(rule,
                                   [s \in part |-> atStart[result.job][s]]))
                          /\ result.status = OK => ReadAll(c, read)
    BY DEF FaultIsNoticed
  <2>1. Len(results[c]) \in 1..Len(results[c])
    BY ResultFacts DEF GatherInv, OrderInv
  <2>2. results[c][Len(results[c])].status = OK =>
          ReadAll(c, Read(results[c][Len(results[c])].seen))
    BY <2>1 DEF GatherInv, Gathers
  <2>3. OrderInv
    BY DEF GatherInv
  <2> QED
    BY <2>2, <2>3, PartIsNoticed
<1> QED
  BY <1>1, AlwaysGather, PTL

\* However the runs of other checks are interleaved with them, two results of a steady
\* check do not recover by themselves.
THEOREM StatusesDoNotRecover == Spec => []NeverLooksBetter
<1>1. OrderInv => NeverLooksBetter
  <2> SUFFICES ASSUME OrderInv, NEW c \in active, NEW i \in 1..(Len(results[c]) - 1),
                      ~ results[c][i].failed, ~ results[c][Len(results[c])].failed,
                      Read(results[c][i].seen) = Read(results[c][Len(results[c])].seen),
                      Steady(c), CheckOf(c).rule # "latency"
               PROVE  Severity(results[c][Len(results[c])].status) >=
                        Severity(results[c][i].status)
    BY DEF NeverLooksBetter, Steady
  <2> DEFINE n == Len(results[c])
             rule == CheckOf(c).rule
             a == results[c][i].seen
             b == results[c][n].seen
             S == SourcesOf(CheckOf(c))
  <2>1. i \in 1..Len(results[c]) /\ n \in 1..Len(results[c]) /\ i \in 1..(n - 1)
    BY ResultFacts DEF OrderInv
  <2>2. /\ rule \in Rules \ {"latency"} /\ IsFiniteSet(S)
        /\ rule = "running" => Cardinality(S) <= 2
        /\ a \in Readings(S) /\ results[c][i].status = StatusOf(rule, a)
        /\ b \in Readings(S) /\ results[c][n].status = StatusOf(rule, b)
    BY <2>1, ResultReadings
  <2>3. Before(a, b)
    BY <2>1 DEF OrderInv, ResultsOrdered, InOrder
  <2>4. NoBetter(a, b)
    BY <2>2, <2>3 DEF Before, NoBetter, Read, Readings
  <2>5. Read(a) = Read(b)
    OBVIOUS
  <2> HIDE DEF n, rule, a, b, S
  <2>6. Severity(StatusOf(rule, a)) <= Severity(StatusOf(rule, b))
    BY <2>2, <2>4, <2>5, StatusIsMonotone
  <2>7. Severity(StatusOf(rule, a)) \in Int /\ Severity(StatusOf(rule, b)) \in Int
    <3>1. StatusOf(rule, a) \in Statuses /\ StatusOf(rule, b) \in Statuses
      BY <2>2, StatusIsKnown
    <3> QED
      BY <3>1, Severities DEF Statuses
  <2> QED
    BY <2>2, <2>6, <2>7 DEF n, rule, a, b, S
<1> QED
  BY <1>1, AlwaysOrder, PTL
===============================================================================
