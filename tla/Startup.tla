-------------------------------- MODULE Startup --------------------------------
(***************************************************************************)
(* From the command line to the active checks: main() in sauna/main.py,    *)
(* read_config, _merge_config and get_all_active_checks in                 *)
(* sauna/__init__.py.  read_config calls itself for every file that a file *)
(* includes; its frames are a stack here.  get_all_active_checks is called *)
(* again for every job, always on the configuration read at the start.     *)
(*                                                                         *)
(* Of a file this module keeps what it includes and its "plugins" section, *)
(* whose value has a form: "list", "dict", "absent", or "other" for null   *)
(* and for scalars.  A section is a sequence of entries in every form.     *)
(***************************************************************************)
EXTENDS Naturals, Sequences, SequencesExt, FiniteSets

CONSTANTS
  Files,        \* the configuration files
  Root,         \* the one on the command line
  Contents,     \* what the files may hold: functions from Files
  Registered,   \* the plugins of the register: each with the checks it has
  Names,        \* the names of checks
  NoName,       \* a check without the key "name"
  DefaultName,  \* '{}_{}'.format(plugin_name, check['type'])
  LowerOf,      \* str.lower
  MaxDepth      \* the calls of read_config the stack of the interpreter can hold

ASSUME FilesAssumption == Root \in Files /\ IsFiniteSet(Files) /\ MaxDepth \in Nat \ {0}
ASSUME NamesAssumption ==
  /\ NoName \notin Names
  /\ LowerOf \in [Names -> Names]
  /\ \A n \in Names : LowerOf[LowerOf[n]] = LowerOf[n]

VARIABLES
  content,   \* what each file holds
  missing,   \* the plugins whose constructor raises DependencyError
  command,   \* the command of the command line, or "none"
  pc,        \* what the main or the producer thread does
  stack,     \* the calls of read_config: file, what is left of the glob, plugins so far
  plugins,   \* config['plugins'], once read
  entry,     \* the entry get_all_active_checks is at
  depsError, \* len(deps_error)
  active     \* the names of checks, in order

input == <<content, missing, command>>
startupVars == <<input, pc, stack, plugins, entry, depsError, active>>

Commands ==
  {"none", "sample", "list-active-checks", "list-available-checks", "status", "invalid"}
Forms == {"list", "dict", "absent", "other"}

Absent == [form |-> "absent", entries |-> << >>]

\* The name of a check, as it is written.
WrittenName(plugin, check) ==
  IF check.name = NoName THEN DefaultName[plugin, check.kind] ELSE check.name

\* A plugin and its checks, whose names are texts.
IsEntry(e) ==
  /\ e.checks \in Seq(Range(e.checks))
  /\ \A i \in 1..Len(e.checks) : WrittenName(e.type, e.checks[i]) \in Names

\* What the "plugins" section of a file, or of several that are merged, may be.
IsSection(section) ==
  /\ section \in [form : Forms, entries : Seq(Range(section.entries))]
  /\ \A i \in 1..Len(section.entries) : IsEntry(section.entries[i])
  /\ section.form = "absent" => section = Absent

\* The files can be opened and parsed, or not, and include files by globs of names.
ASSUME ContentsAssumption ==
  /\ Contents # {}
  /\ \A c \in Contents : \A f \in Files :
       /\ c[f].file \in {"ok", "unreadable", "invalid", "empty"}
       /\ c[f].include \in Seq(Files)
       /\ IsSection(c[f].plugins)

FrameMut(f) == [file |-> f, todo |-> content[Root].include, plugins |-> content[f].plugins]

Frame(f) == [file |-> f, todo |-> content[f].include, plugins |-> content[f].plugins]

TopCall == Last(stack)

\* The process, or the thread, is over.
Over == {"exited", "crashed", "done"}

-----------------------------------------------------------------------------
\* One key of dict.update: the entry of the same plugin is replaced where it is.
Put(entries, e) ==
  LET Same == {i \in 1..Len(entries) : entries[i].type = e.type}
  IN  IF Same = {} THEN Append(entries, e)
      ELSE [i \in 1..Len(entries) |-> IF i \in Same THEN e ELSE entries[i]]

\* dict.update
Update(old, new) ==
  LET After[i \in 0..Len(new)] == IF i = 0 THEN old ELSE Put(After[i - 1], new[i])
  IN  After[Len(new)]

ExtendMut(old, new) == new

\* list.extend
Extend(old, new) == old \o new

\* extend or update of something else than a list or a dict: AttributeError.
MergeRaises(original, included) ==
  /\ included.form \in {"list", "dict"}
  /\ original.form # "absent"
  /\ original.form # included.form

\* _merge_config, for the key "plugins".
Merge(original, included) ==
  IF included.form = "absent" THEN original
  ELSE IF included.form = "other" \/ original.form = "absent" THEN included
  ELSE [original EXCEPT !.entries = IF included.form = "list" THEN Extend(@, included.entries)
                                                            ELSE Update(@, included.entries)]

NameOfMut(plugin, check) ==
  IF check.name = NoName THEN DefaultName[plugin, check.kind] ELSE LowerOf[check.name]

NameOf(plugin, check) == LowerOf[WrittenName(plugin, check)]

NamesOf(e) == [i \in 1..Len(e.checks) |-> NameOf(e.type, e.checks[i])]

Duplicates(names) == \E i, j \in 1..Len(names) : i # j /\ names[i] = names[j]

-----------------------------------------------------------------------------
StartupInit ==
  /\ content \in Contents
  /\ missing \in SUBSET DOMAIN Registered
  /\ command \in Commands
  /\ pc = "main"
  /\ stack = << >>
  /\ plugins = Absent
  /\ entry = 1
  /\ depsError = 0
  /\ active = << >>

\* "sample" writes its file from the registers alone.
Sample ==
  /\ pc = "main"
  /\ command = "sample"
  /\ pc' = "exited"
  /\ UNCHANGED <<input, stack, plugins, entry, depsError, active>>

\* read_config is called, from main or from itself.
Open(f, calls) ==
  /\ pc' = CASE content[f].file = "ok" -> "reading"
             [] content[f].file \in {"unreadable", "invalid"} -> "exited"
             [] content[f].file = "empty" -> "crashed"
  /\ stack' = IF content[f].file = "ok" THEN Append(calls, Frame(f)) ELSE calls

Read ==
  /\ pc = "main"
  /\ command # "sample"
  /\ Open(Root, << >>)
  /\ UNCHANGED <<input, plugins, entry, depsError, active>>

\* The for loop goes on with the next file of the glob; RecursionError when the calls are too deep.
Include ==
  /\ pc = "reading"
  /\ TopCall.todo # << >>
  /\ IF Len(stack) = MaxDepth
       THEN pc' = "crashed" /\ UNCHANGED stack
       ELSE Open(Head(TopCall.todo), [stack EXCEPT ![Len(stack)].todo = Tail(@)])
  /\ UNCHANGED <<input, plugins, entry, depsError, active>>

\* read_config returns to read_config, which merges what was read.
ReturnToCaller ==
  /\ pc = "reading"
  /\ TopCall.todo = << >>
  /\ Len(stack) > 1
  /\ LET calls == Front(stack)
         caller == Last(calls)
     IN  IF MergeRaises(caller.plugins, TopCall.plugins)
           THEN pc' = "crashed" /\ UNCHANGED stack
           ELSE /\ stack' = [calls EXCEPT ![Len(calls)].plugins = Merge(@, TopCall.plugins)]
                /\ UNCHANGED pc
  /\ UNCHANGED <<input, plugins, entry, depsError, active>>

\* read_config returns to main.
ConfigRead ==
  /\ pc = "reading"
  /\ TopCall.todo = << >>
  /\ Len(stack) = 1
  /\ plugins' = TopCall.plugins
  /\ stack' = << >>
  /\ pc' = "command"
  /\ UNCHANGED <<input, entry, depsError, active>>

\* main looks the command up, or launches sauna.  list-available-checks (and -consumers)
\* only read the registers.
RunCommand ==
  /\ pc = "command"
  /\ pc' = CASE command = "invalid" -> "exited"
             [] command = "list-available-checks" -> "done"
             [] OTHER -> "call"
  /\ UNCHANGED <<input, stack, plugins, entry, depsError, active>>

\* get_all_active_checks is called: plugins_checks comes first.  A configuration without
\* the key "plugins" raises KeyError.
Call ==
  /\ pc = "call"
  /\ pc' = CASE plugins.form = "absent" -> "crashed"
             [] plugins.form = "other" -> "exited"
             [] OTHER -> "loading"
  /\ entry' = 1
  /\ depsError' = 0
  /\ active' = << >>
  /\ UNCHANGED <<input, stack, plugins>>

Entry == plugins.entries[entry]

UnknownCheck(e) ==
  \E i \in 1..Len(e.checks) : e.checks[i].kind \notin Registered[e.type]

\* The plugin or one of its checks does not exist: sys.exit.
LoadUnknown ==
  /\ pc = "loading"
  /\ entry <= Len(plugins.entries)
  /\ Entry.type \in DOMAIN Registered => Entry.type \notin missing /\ UnknownCheck(Entry)
  /\ pc' = "exited"
  /\ UNCHANGED <<input, stack, plugins, entry, depsError, active>>

\* The constructor raises DependencyError: "continue".
LoadMissing ==
  /\ pc = "loading"
  /\ entry <= Len(plugins.entries)
  /\ Entry.type \in DOMAIN Registered \cap missing
  /\ depsError' = depsError + 1
  /\ entry' = entry + 1
  /\ UNCHANGED <<input, pc, stack, plugins, active>>

\* A new instance of the plugin, and one Check per check of the entry.
LoadPlugin ==
  /\ pc = "loading"
  /\ entry <= Len(plugins.entries)
  /\ Entry.type \in DOMAIN Registered \ missing
  /\ ~ UnknownCheck(Entry)
  /\ active' = active \o NamesOf(Entry)
  /\ entry' = entry + 1
  /\ UNCHANGED <<input, pc, stack, plugins, depsError>>

\* Dependency errors, then duplicate names, are reported: sys.exit.
Refuse ==
  /\ pc = "loading"
  /\ entry > Len(plugins.entries)
  /\ depsError > 0 \/ Duplicates(active)
  /\ pc' = "exited"
  /\ UNCHANGED <<input, stack, plugins, entry, depsError, active>>

\* The checks are handed to a job, or to the command, which ends with them: "status"
\* raises KeyError when a check returned none of the four statuses.
Accept ==
  /\ pc = "loading"
  /\ entry > Len(plugins.entries)
  /\ depsError = 0 /\ ~ Duplicates(active)
  /\ pc' \in CASE command = "none" -> {"active"}
               [] command = "status" -> {"done", "crashed"}
               [] OTHER -> {"done"}
  /\ UNCHANGED <<input, stack, plugins, entry, depsError, active>>

\* The next job calls get_all_active_checks anew.
NextJob ==
  /\ pc = "active"
  /\ pc' = "call"
  /\ UNCHANGED <<input, stack, plugins, entry, depsError, active>>

-----------------------------------------------------------------------------
ReadConfig == Read \/ Include \/ ReturnToCaller \/ ConfigRead
GetAllActiveChecks == Call \/ LoadUnknown \/ LoadMissing \/ LoadPlugin \/ Refuse \/ Accept

Thread == Sample \/ ReadConfig \/ RunCommand \/ GetAllActiveChecks

StartupNext == Thread \/ NextJob

StartupSpec == StartupInit /\ [][StartupNext]_startupVars

\* The thread runs; nothing says that a job comes.
FairStartup == StartupSpec /\ WF_startupVars(Thread)

-----------------------------------------------------------------------------
\* The includes that the files c have: a file, and the place of another in what it includes.
Includes(c) == UNION {{f} \X (1..Len(c[f].include)) : f \in Files}
Included(c, include) == c[include[1]].include[include[2]]

\* The ways to come from f to a file, include by include, in no more than that many calls.
Ways(c, f, calls) ==
  {w \in UNION {[1..n -> Includes(c)] : n \in 0..(calls - 1)} :
     \A i \in 1..Len(w) : w[i][1] = IF i = 1 THEN f ELSE Included(c, w[i - 1])}

\* Where the way leads.
EndOf(c, f, w) == IF w = << >> THEN f ELSE Included(c, w[Len(w)])

\* The places of the checks called n in entries.
Called(entries, n) ==
  UNION {{i} \X {j \in 1..Len(entries[i].checks) :
                   NameOf(entries[i].type, entries[i].checks[j]) = n} : i \in 1..Len(entries)}

\* The places where f and what it includes ask for a check called n, and the ways there.
Asked(c, f, calls, n) ==
  UNION {{w} \X Called(c[EndOf(c, f, w)].plugins.entries, n) : w \in Ways(c, f, calls)}

Done == pc \in {"active", "done"} /\ command # "list-available-checks"

\* The checks have distinct names, whatever the case they are written in: the locks of
\* the dispatcher, the shared results and the consumers tell checks apart by name.
NamesAreUnique ==
  Done => \A i, j \in 1..Len(active) : i # j => LowerOf[active[i]] # LowerOf[active[j]]

AllLists == \A f \in Files : content[f].plugins.form \in {"list", "absent"}

\* With plugins in lists, the form the documentation describes, what is active is what
\* the files ask for together, each check once: sauna refuses to start rather than
\* drop a check for a missing dependency, a clash of names or a file included twice.
NothingForgotten ==
  Done /\ AllLists =>
    \A n \in Names : Cardinality({i \in 1..Len(active) : active[i] = n}) =
                       Cardinality(Asked(content, Root, MaxDepth, n))

\* A file is reached through itself.
Cyclic ==
  \E n \in 2..(Cardinality(Files) + 1) : \E p \in [1..n -> Files] :
    /\ p[1] = p[n]
    /\ \A i \in 1..(n - 1) :
         \E j \in 1..Len(content[p[i]].include) : content[p[i]].include[j] = p[i + 1]

\* Files may include files, in any order and more than once: reading them ends, and
\* unless they include each other in a cycle it never exhausts the stack.
ReadingEnds ==
  /\ <>(pc \in Over \cup {"active"})
  /\ [](Len(stack) = MaxDepth => Cyclic \/ Cardinality(Files) >= MaxDepth)
===============================================================================
