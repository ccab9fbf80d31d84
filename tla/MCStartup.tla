------------------------------- MODULE MCStartup -------------------------------
(* Three files: the root includes up to two files of three, in any order and   *)
(* with repetition, and the two others at most one.  Two plugins; their checks *)
(* are named by default, by the default name written in capitals, or apart.    *)
EXTENDS Startup, TLC

MCFiles == {"sauna.yml", "a.yml", "b.yml"}

MCRegistered == "Disk" :> {"used"} @@ "Load" :> {"load1"}

MCNames == {"Disk_used", "disk_used", "Load_load1", "load_load1", "DISK_USED", "own"}

MCLowerOf ==
  [n \in MCNames |-> CASE n \in {"Disk_used", "DISK_USED"} -> "disk_used"
                       [] n = "Load_load1" -> "load_load1"
                       [] OTHER -> n]

MCDefaultName ==
  [pk \in {"Disk", "Load"} \X {"used", "load1", "bogus"} |->
     IF pk[1] = "Disk" THEN "Disk_used" ELSE "Load_load1"]

DiskUsed(name) == [type |-> "Disk", checks |-> <<[kind |-> "used", name |-> name]>>]
Load1 == [type |-> "Load", checks |-> <<[kind |-> "load1", name |-> NoName]>>]

Section(form, entries) == [form |-> form, entries |-> entries]

RootSections ==
  {Absent, Section("other", << >>),
   Section("list", <<DiskUsed(NoName)>>), Section("dict", <<DiskUsed(NoName)>>),
   Section("list", <<[type |-> "Disk", checks |-> <<[kind |-> "bogus", name |-> NoName]>>]>>)}

ASections ==
  {Absent, Section("list", <<DiskUsed("DISK_USED")>>), Section("list", <<DiskUsed("own"), Load1>>),
   Section("dict", <<DiskUsed("own"), Load1>>)}

BSections ==
  {Section("list", <<Load1>>), Section("list", <<[type |-> "Bogus", checks |-> << >>]>>),
   Section("other", << >>)}

File(state, includes, section) == [file |-> state, include |-> includes, plugins |-> section]

MCContents ==
  {"sauna.yml" :> File("ok", i, p) @@ "a.yml" :> File("ok", j, q) @@ "b.yml" :> File(state, k, r) :
     i \in {<< >>, <<"a.yml">>, <<"a.yml", "b.yml">>, <<"b.yml", "b.yml">>},
     j \in {<< >>, <<"b.yml">>},
     k \in {<< >>, <<"sauna.yml">>, <<"b.yml">>},
     p \in RootSections, q \in ASections, r \in BSections,
     state \in {"ok", "unreadable", "empty"}}
===============================================================================
