------------------------------ MODULE MainProofs ------------------------------
(***************************************************************************)
(* main() reads the configuration and launches sauna.  Whatever the files  *)
(* hold and however they include each other, the checks it accepts are the *)
(* ones they ask for, each under a name of its own (Startup).  However     *)
(* many consumers there are and however many signals interrupt the launch  *)
(* or one another, no consumer is left asleep when the program stops       *)
(* (Lifecycle).  The two specifications have no variable in common.        *)
(***************************************************************************)
EXTENDS Startup, Lifecycle, FiniteSetTheorems, SequenceTheorems, NaturalsInduction,
        WellFoundedInduction, TLAPS

-----------------------------------------------------------------------------
\* A set of numbers has a smallest one.
LEMMA Smallest == ASSUME NEW S, S \subseteq Nat, S # {} PROVE \E k \in S : \A j \in S : k <= j
<1>1. PICK k \in S : \A j \in S : ~ (<<j, k>> \in OpToRel(<, Nat))
  BY WFMin, NatLessThanWellFounded
<1>2. ASSUME NEW j \in S PROVE k <= j
  <2> SUFFICES ASSUME ~ (k <= j) PROVE FALSE
    OBVIOUS
  <2>1. <<j, k>> \in OpToRel(<, Nat)
    BY DEF OpToRel
  <2> QED
    BY <1>1, <2>1
<1> QED
  BY <1>1, <1>2


-----------------------------------------------------------------------------
(* The sections.                                                           *)

\* The entries that the files may have.
Entries == UNION {UNION {Range(c[f].plugins.entries) : f \in Files} : c \in Contents}

\* The sections made of them.
Sections == {Absent} \cup [form : Forms \ {"absent"}, entries : Seq(Entries)]

\* The names of an entry are texts.
LEMMA EntryFacts ==
  ASSUME NEW e \in Entries
  PROVE  /\ Len(e.checks) \in Nat
         /\ \A i \in 1..Len(e.checks) : NameOf(e.type, e.checks[i]) \in Names
         /\ \A i \in 1..Len(e.checks) :
              LowerOf[NameOf(e.type, e.checks[i])] = NameOf(e.type, e.checks[i])
<1>1. PICK c \in Contents, f \in Files : e \in Range(c[f].plugins.entries)
  BY DEF Entries
<1>2. IsSection(c[f].plugins)
  BY ContentsAssumption
<1>3. c[f].plugins.entries \in Seq(Range(c[f].plugins.entries))
  BY <1>2 DEF IsSection
<1>4. PICK i \in 1..Len(c[f].plugins.entries) : c[f].plugins.entries[i] = e
  BY <1>1, <1>3 DEF Range
<1>5. IsEntry(e)
  BY <1>2, <1>4 DEF IsSection
<1> QED
  BY <1>5, NamesAssumption DEF IsEntry, NameOf

\* What a file holds.
LEMMA FileFacts ==
  ASSUME NEW c \in Contents, NEW f \in Files
  PROVE  c[f].plugins \in Sections /\ c[f].include \in Seq(Files)
<1>1. IsSection(c[f].plugins) /\ c[f].include \in Seq(Files)
  BY ContentsAssumption
<1>2. Range(c[f].plugins.entries) \subseteq Entries
  BY DEF Entries
<1> DEFINE s == c[f].plugins
<1>3. /\ s \in [form : Forms, entries : Seq(Range(s.entries))]
      /\ s.form = "absent" => s = Absent
  BY <1>1 DEF IsSection
<1>4. s.entries \in Seq(Entries)
  <2>1. s.entries \in Seq(Range(s.entries))
    BY <1>3
  <2> HIDE DEF s
  <2> QED
    BY <1>2, <2>1 DEF s
<1> HIDE DEF s
<1>5. s \in Sections
  BY <1>3, <1>4 DEF Sections
<1> QED
  BY <1>1, <1>5 DEF s

\* A key of dict.update.
LEMMA PutEntries ==
  ASSUME NEW entries \in Seq(Entries), NEW e \in Entries
  PROVE  Put(entries, e) \in Seq(Entries)
<1> DEFINE Same == {i \in 1..Len(entries) : entries[i].type = e.type}
           t == [i \in 1..Len(entries) |-> IF i \in Same THEN e ELSE entries[i]]
<1>1. Put(entries, e) = IF Same = {} THEN Append(entries, e) ELSE t
  BY DEF Put
<1>2. t \in Seq(Entries)
  <2> HIDE DEF Same
  <2> QED
    OBVIOUS
<1> HIDE DEF t, Same
<1> QED
  BY <1>1, <1>2

\* f has what dict.update makes of the first n keys, for n up to m.
IsUpdate(f, old, new, m) ==
  f = [i \in 0..m |-> IF i = 0 THEN old ELSE Put(f[i - 1], new[i])]

\* There is such a function for every m.
LEMMA UpdateExists ==
  ASSUME NEW old \in Seq(Entries), NEW new \in Seq(Entries), NEW m \in 0..Len(new)
  PROVE  \E f : IsUpdate(f, old, new, m) /\ \A i \in 0..m : f[i] \in Seq(Entries)
<1> DEFINE Good(k) == \E f : IsUpdate(f, old, new, k) /\ \A i \in 0..k : f[i] \in Seq(Entries)
           Bad == {k \in 0..Len(new) : ~ Good(k)}
<1> SUFFICES ASSUME Bad # {} PROVE FALSE
  OBVIOUS
<1>1. PICK k \in Bad : \A j \in Bad : k <= j
  <2>1. Bad \subseteq Nat
    OBVIOUS
  <2> HIDE DEF Bad
  <2> QED
    BY <2>1, Smallest
<1>2. k \in 0..Len(new) /\ ~ Good(k) /\ \A j \in 0..(k - 1) : Good(j)
  <2>1. \A j \in 0..(k - 1) : j \notin Bad /\ j \in 0..Len(new)
    BY <1>1
  <2> QED
    BY <2>1
<1>3. k # 0
  <2>1. IsUpdate([i \in 0..0 |-> old], old, new, 0)
    BY DEF IsUpdate
  <2>2. Good(0)
    BY <2>1
  <2> QED
    BY <1>2, <2>2
<1>4. PICK f : IsUpdate(f, old, new, k - 1) /\ \A i \in 0..(k - 1) : f[i] \in Seq(Entries)
  <2>1. Good(k - 1)
    BY <1>2, <1>3
  <2> QED
    BY <2>1
<1> DEFINE g == [i \in 0..k |-> IF i = k THEN Put(f[k - 1], new[k]) ELSE f[i]]
<1>5. f[0] = old /\ \A i \in 1..(k - 1) : f[i] = Put(f[i - 1], new[i])
  BY <1>2, <1>3, <1>4 DEF IsUpdate
<1>6. IsUpdate(g, old, new, k)
  <2>1. \A i \in 0..k : g[i] = IF i = 0 THEN old ELSE Put(g[i - 1], new[i])
    BY <1>2, <1>3, <1>5
  <2> QED
    BY <2>1 DEF IsUpdate
<1>7. \A i \in 0..k : g[i] \in Seq(Entries)
  <2>1. Put(f[k - 1], new[k]) \in Seq(Entries)
    <3>1. f[k - 1] \in Seq(Entries) /\ new[k] \in Entries
      BY <1>2, <1>3, <1>4
    <3> QED
      BY <3>1, PutEntries
  <2> QED
    BY <1>2, <1>4, <2>1
<1> HIDE DEF g
<1> QED
  BY <1>2, <1>6, <1>7

\* dict.update.
LEMMA UpdateEntries ==
  ASSUME NEW old \in Seq(Entries), NEW new \in Seq(Entries)
  PROVE  Update(old, new) \in Seq(Entries)
<1> DEFINE After ==
             CHOOSE f : f = [i \in 0..Len(new) |-> IF i = 0 THEN old ELSE Put(f[i - 1], new[i])]
<1>1. Update(old, new) = After[Len(new)]
  BY DEF Update
<1>2. IsUpdate(After, old, new, Len(new))
  <2>1. PICK f : IsUpdate(f, old, new, Len(new))
    BY UpdateExists
  <2> QED
    BY <2>1 DEF IsUpdate
<1> HIDE DEF After
<1> DEFINE Bad == {k \in 0..Len(new) : After[k] \notin Seq(Entries)}
<1> SUFFICES ASSUME Bad # {} PROVE FALSE
  BY <1>1
<1>3. PICK k \in Bad : \A j \in Bad : k <= j
  <2>1. Bad \subseteq Nat
    OBVIOUS
  <2> HIDE DEF Bad
  <2> QED
    BY <2>1, Smallest
<1>4. k \in 0..Len(new) /\ (k # 0 => After[k - 1] \in Seq(Entries))
  BY <1>3
<1>5. After[k] = IF k = 0 THEN old ELSE Put(After[k - 1], new[k])
  BY <1>2, <1>4 DEF IsUpdate
<1> QED
  <2>1. k # 0 => Put(After[k - 1], new[k]) \in Seq(Entries)
    <3>1. k # 0 => new[k] \in Entries
      BY <1>4
    <3> QED
      BY <1>4, <3>1, PutEntries
  <2> QED
    BY <1>3, <1>5, <2>1

\* What a section has.
LEMMA SectionFacts ==
  ASSUME NEW s \in Sections
  PROVE  s.entries \in Seq(Entries) /\ s.form \in Forms /\ (s.form = "absent" => s = Absent)
<1>1. << >> \in Seq(Entries) /\ "absent" \in Forms
  BY DEF Forms
<1>2. CASE s = Absent
  BY <1>1, <1>2 DEF Absent
<1>3. CASE s \in [form : Forms \ {"absent"}, entries : Seq(Entries)]
  BY <1>3
<1> QED
  BY <1>2, <1>3 DEF Sections

\* A merge.
LEMMA MergeSections ==
  ASSUME NEW a \in Sections, NEW b \in Sections, ~ MergeRaises(a, b)
  PROVE  /\ Merge(a, b) \in Sections
         /\ a.form \in {"list", "absent"} /\ b.form \in {"list", "absent"} =>
              /\ Merge(a, b).form \in {"list", "absent"}
              /\ Merge(a, b).entries = a.entries \o b.entries
<1>1. /\ a.entries \in Seq(Entries) /\ b.entries \in Seq(Entries)
      /\ a.form \in Forms /\ b.form \in Forms
      /\ a.form = "absent" => a = Absent
      /\ b.form = "absent" => b = Absent
  BY SectionFacts
<1>2. CASE b.form = "absent"
  BY <1>1, <1>2 DEF Merge, Absent
<1>3. CASE b.form # "absent" /\ (b.form = "other" \/ a.form = "absent")
  <2>1. Merge(a, b) = b
    BY <1>3 DEF Merge
  <2>2. a.form = "absent" => a.entries \o b.entries = b.entries
    BY <1>1 DEF Absent
  <2> QED
    BY <1>3, <2>1, <2>2
<1>4. CASE b.form = "list" /\ a.form # "absent"
  <2>1. a.form = "list"
    BY <1>4 DEF MergeRaises
  <2>2. Merge(a, b) = [a EXCEPT !.entries = a.entries \o b.entries]
    BY <1>4 DEF Merge, Extend
  <2>3. a \in [form : Forms \ {"absent"}, entries : Seq(Entries)]
    BY <1>4 DEF Sections, Absent
  <2>4. a.entries \o b.entries \in Seq(Entries)
    BY <1>1
  <2> QED
    BY <2>1, <2>2, <2>3, <2>4 DEF Sections
<1>5. CASE b.form = "dict" /\ a.form # "absent"
  <2>1. a.form = "dict"
    BY <1>5 DEF MergeRaises
  <2>2. Merge(a, b) = [a EXCEPT !.entries = Update(a.entries, b.entries)]
    BY <1>5 DEF Merge
  <2>3. a \in [form : Forms \ {"absent"}, entries : Seq(Entries)]
    BY <1>5 DEF Sections, Absent
  <2>4. Update(a.entries, b.entries) \in Seq(Entries)
    BY <1>1, UpdateEntries
  <2> QED
    BY <2>1, <2>2, <2>3, <2>4 DEF Sections
<1> QED
  BY <1>1, <1>2, <1>3, <1>4, <1>5 DEF Forms


-----------------------------------------------------------------------------
(* Counting.                                                               *)

\* g tells the members of S from each other, and tells of every one of T.
IsMatch(g, S, T) ==
  /\ g \in [S -> T]
  /\ \A x, y \in S : g[x] = g[y] => x = y
  /\ \A t \in T : \E x \in S : g[x] = t

\* A set as large as B.
LEMMA CountCopy ==
  ASSUME NEW S, NEW B, IsFiniteSet(B), NEW g, IsMatch(g, B, S)
  PROVE  IsFiniteSet(S) /\ Cardinality(S) = Cardinality(B)
<1>1. g \in Bijection(B, S)
  BY DEF IsMatch, Bijection, Injection, Surjection, IsInjective
<1> QED
  BY <1>1, FS_Bijection DEF ExistsBijection

\* A set of two parts, the second as large as B.
LEMMA CountParts ==
  ASSUME NEW S, NEW A, NEW B, A \subseteq S, IsFiniteSet(A), IsFiniteSet(B),
         NEW g, IsMatch(g, B, S \ A)
  PROVE  IsFiniteSet(S) /\ Cardinality(S) = Cardinality(A) + Cardinality(B)
<1> DEFINE C == S \ A
<1>1. IsFiniteSet(C) /\ Cardinality(C) = Cardinality(B)
  BY CountCopy
<1>2. S = A \cup C /\ A \cap C = {}
  OBVIOUS
<1> HIDE DEF C
<1>3. /\ IsFiniteSet(A \cup C)
      /\ Cardinality(A \cup C) = Cardinality(A) + Cardinality(C) - Cardinality(A \cap C)
  BY <1>1, FS_Union
<1>4. Cardinality(A) \in Nat /\ Cardinality(B) \in Nat /\ Cardinality(A \cap C) = 0
  BY <1>2, FS_CardinalityType, FS_EmptySet
<1>5. IsFiniteSet(S) /\ Cardinality(S) = Cardinality(A) + Cardinality(C) - Cardinality(A \cap C)
  BY <1>2, <1>3
<1> QED
  BY <1>1, <1>4, <1>5

\* Where names have n.
At(names, n) == {i \in 1..Len(names) : names[i] = n}

\* A place of a sequence is one of a finite set of them.
LEMMA AtFinite ==
  ASSUME NEW names \in Seq(Names), NEW n
  PROVE  IsFiniteSet(At(names, n)) /\ Cardinality(At(names, n)) \in Nat
<1>1. IsFiniteSet(1..Len(names))
  BY FS_Interval
<1>2. At(names, n) \in SUBSET (1..Len(names))
  BY DEF At
<1> QED
  BY <1>1, <1>2, FS_Subset, FS_CardinalityType

\* The places of a concatenation.
LEMMA AtConcat ==
  \A a, b \in Seq(Names) : \A n :
    Cardinality(At(a \o b, n)) = Cardinality(At(a, n)) + Cardinality(At(b, n))
<1>1. ASSUME NEW a, NEW b, NEW n, a \in Seq(Names), b \in Seq(Names)
      PROVE  Cardinality(At(a \o b, n)) = Cardinality(At(a, n)) + Cardinality(At(b, n))
  <2> DEFINE g == [i \in At(b, n) |-> i + Len(a)]
  <2>1. /\ a \o b \in Seq(Names) /\ Len(a \o b) = Len(a) + Len(b)
        /\ \A i \in 1..(Len(a) + Len(b)) :
             (a \o b)[i] = IF i <= Len(a) THEN a[i] ELSE b[i - Len(a)]
        /\ Len(a) \in Nat /\ Len(b) \in Nat
    BY <1>1
  <2>2. At(a, n) \subseteq At(a \o b, n)
    BY <2>1 DEF At
  <2>3. IsMatch(g, At(b, n), At(a \o b, n) \ At(a, n))
    <3>1. \A i \in At(b, n) : i + Len(a) \in At(a \o b, n) \ At(a, n)
      BY <2>1 DEF At
    <3>2. \A k \in At(a \o b, n) \ At(a, n) : k - Len(a) \in At(b, n) /\ k = (k - Len(a)) + Len(a)
      BY <2>1 DEF At
    <3>3. \A i, j \in At(b, n) : i + Len(a) = j + Len(a) => i = j
      BY <2>1 DEF At
    <3> QED
      BY <3>1, <3>2, <3>3 DEF IsMatch
  <2>4. IsFiniteSet(At(a, n)) /\ IsFiniteSet(At(b, n))
    BY <1>1, AtFinite
  <2> HIDE DEF g
  <2> QED
    BY <2>2, <2>3, <2>4, CountParts
<1> QED
  BY <1>1

\* Where an entry asks for a check called n.
Here(e, n) == {j \in 1..Len(e.checks) : NameOf(e.type, e.checks[j]) = n}

\* The names of an entry have n where the entry asks for it.
LEMMA NamesOfEntry ==
  ASSUME NEW e \in Entries, NEW n
  PROVE  /\ NamesOf(e) \in Seq(Names) /\ At(NamesOf(e), n) = Here(e, n)
         /\ IsFiniteSet(Here(e, n)) /\ Cardinality(Here(e, n)) \in Nat
         /\ \A i \in 1..Len(NamesOf(e)) : LowerOf[NamesOf(e)[i]] = NamesOf(e)[i]
<1>1. NamesOf(e) \in Seq(Names) /\ Len(NamesOf(e)) = Len(e.checks)
  BY EntryFacts DEF NamesOf
<1>2. \A i \in 1..Len(e.checks) : NamesOf(e)[i] = NameOf(e.type, e.checks[i])
  BY DEF NamesOf
<1>3. At(NamesOf(e), n) = Here(e, n)
  BY <1>1, <1>2 DEF At, Here
<1> QED
  BY <1>1, <1>2, <1>3, AtFinite, EntryFacts

\* The places of the checks called n in the first m entries.
CalledUpTo(entries, m, n) == {x \in Called(entries, n) : x[1] <= m}

\* What a place is.
LEMMA CalledIs ==
  ASSUME NEW entries, NEW n, NEW x
  PROVE  x \in Called(entries, n) <=>
           \E i \in 1..Len(entries) : \E j \in Here(entries[i], n) : x = <<i, j>>
BY DEF Called, Here

\* One entry more.
LEMMA CalledStep ==
  \A entries \in Seq(Entries) : \A m \in 1..Len(entries) : \A n :
    IsFiniteSet(CalledUpTo(entries, m - 1, n)) =>
      /\ IsFiniteSet(CalledUpTo(entries, m, n))
      /\ Cardinality(CalledUpTo(entries, m, n)) =
           Cardinality(CalledUpTo(entries, m - 1, n)) + Cardinality(Here(entries[m], n))
<1>1. ASSUME NEW entries, NEW m, NEW n, entries \in Seq(Entries), m \in 1..Len(entries),
             IsFiniteSet(CalledUpTo(entries, m - 1, n))
      PROVE  /\ IsFiniteSet(CalledUpTo(entries, m, n))
             /\ Cardinality(CalledUpTo(entries, m, n)) =
                  Cardinality(CalledUpTo(entries, m - 1, n)) + Cardinality(Here(entries[m], n))
  <2> DEFINE S == CalledUpTo(entries, m, n)
             A == CalledUpTo(entries, m - 1, n)
             B == Here(entries[m], n)
             g == [j \in B |-> <<m, j>>]
  <2>1. m \in Nat /\ m \in 1..Len(entries) /\ entries[m] \in Entries
    BY <1>1
  <2>2. A \subseteq S
    BY <2>1, CalledIs DEF CalledUpTo
  <2>3. \A j \in B : <<m, j>> \in S \ A
    BY <2>1, CalledIs DEF CalledUpTo
  <2>4. \A x \in S \ A : \E j \in B : x = <<m, j>>
    <3> SUFFICES ASSUME NEW x \in S \ A PROVE \E j \in B : x = <<m, j>>
      OBVIOUS
    <3>1. PICK i \in 1..Len(entries) : \E j \in Here(entries[i], n) : x = <<i, j>>
      BY CalledIs DEF CalledUpTo
    <3>2. i <= m /\ ~ (i <= m - 1)
      BY <3>1 DEF CalledUpTo
    <3> QED
      BY <2>1, <3>1, <3>2
  <2> HIDE DEF S, A, B
  <2>5. IsMatch(g, B, S \ A)
    BY <2>3, <2>4 DEF IsMatch
  <2>6. IsFiniteSet(A) /\ IsFiniteSet(B)
    BY <1>1, <2>1, NamesOfEntry DEF A, B
  <2> HIDE DEF g
  <2>7. IsFiniteSet(S) /\ Cardinality(S) = Cardinality(A) + Cardinality(B)
    BY <2>2, <2>5, <2>6, CountParts
  <2> QED
    BY <2>7 DEF S, A, B
<1> QED
  BY <1>1

\* There are finitely many.
LEMMA CalledFinite ==
  ASSUME NEW entries \in Seq(Entries), NEW n
  PROVE  /\ \A m \in 0..Len(entries) : IsFiniteSet(CalledUpTo(entries, m, n))
         /\ CalledUpTo(entries, 0, n) = {}
         /\ CalledUpTo(entries, Len(entries), n) = Called(entries, n)
         /\ IsFiniteSet(Called(entries, n)) /\ Cardinality(Called(entries, n)) \in Nat
<1>1. CalledUpTo(entries, 0, n) = {}
  BY CalledIs DEF CalledUpTo
<1>2. CalledUpTo(entries, Len(entries), n) = Called(entries, n)
  BY CalledIs DEF CalledUpTo
<1> DEFINE Bad == {m \in 0..Len(entries) : ~ IsFiniteSet(CalledUpTo(entries, m, n))}
<1>3. ASSUME Bad # {} PROVE FALSE
  <2>1. PICK m \in Bad : \A k \in Bad : m <= k
    <3>1. Bad \subseteq Nat
      OBVIOUS
    <3> HIDE DEF Bad
    <3> QED
      BY <1>3, <3>1, Smallest
  <2>2. m # 0
    BY <1>1, <2>1, FS_EmptySet
  <2>3. m \in 1..Len(entries) /\ IsFiniteSet(CalledUpTo(entries, m - 1, n))
    BY <2>1, <2>2
  <2> QED
    BY <2>1, <2>3, CalledStep
<1>4. \A m \in 0..Len(entries) : IsFiniteSet(CalledUpTo(entries, m, n))
  BY <1>3
<1>5. IsFiniteSet(Called(entries, n))
  BY <1>2, <1>4
<1> QED
  BY <1>1, <1>2, <1>4, <1>5, FS_CardinalityType

\* list.extend.
LEMMA CalledConcat ==
  \A a, b \in Seq(Entries) : \A n :
    Cardinality(Called(a \o b, n)) = Cardinality(Called(a, n)) + Cardinality(Called(b, n))
<1>1. ASSUME NEW a, NEW b, NEW n, a \in Seq(Entries), b \in Seq(Entries)
      PROVE  Cardinality(Called(a \o b, n)) = Cardinality(Called(a, n)) + Cardinality(Called(b, n))
  <2> DEFINE S == Called(a \o b, n)
             A == Called(a, n)
             B == Called(b, n)
             g == [x \in B |-> <<x[1] + Len(a), x[2]>>]
  <2>1. /\ Len(a \o b) = Len(a) + Len(b)
        /\ \A i \in 1..Len(a) : (a \o b)[i] = a[i]
        /\ \A i \in 1..Len(b) : (a \o b)[i + Len(a)] = b[i]
        /\ Len(a) \in Nat /\ Len(b) \in Nat
    BY <1>1
  <2>2. A \subseteq S
    <3> SUFFICES ASSUME NEW x \in A PROVE x \in S
      OBVIOUS
    <3>1. PICK i \in 1..Len(a) : \E j \in Here(a[i], n) : x = <<i, j>>
      BY CalledIs
    <3>0. PICK j \in Here(a[i], n) : x = <<i, j>>
      BY <3>1
    <3>2. i \in 1..Len(a \o b) /\ (a \o b)[i] = a[i]
      BY <2>1
    <3> QED
      BY <3>0, <3>2, CalledIs
  <2>3. \A x \in B : /\ x = <<x[1], x[2]>> /\ x[1] \in Nat
                     /\ <<x[1] + Len(a), x[2]>> \in S \ A
    <3> SUFFICES ASSUME NEW x \in B
                 PROVE  /\ x = <<x[1], x[2]>> /\ x[1] \in Nat
                        /\ <<x[1] + Len(a), x[2]>> \in S \ A
      OBVIOUS
    <3>1. PICK i \in 1..Len(b) : \E j \in Here(b[i], n) : x = <<i, j>>
      BY CalledIs
    <3>0. PICK j \in Here(b[i], n) : x = <<i, j>>
      BY <3>1
    <3>2. /\ i + Len(a) \in 1..Len(a \o b) /\ (a \o b)[i + Len(a)] = b[i]
          /\ i + Len(a) \notin 1..Len(a)
      BY <2>1
    <3>3. <<i + Len(a), j>> \in S
      BY <3>2, CalledIs
    <3>4. <<i + Len(a), j>> \notin A
      BY <3>2, CalledIs
    <3> QED
      BY <3>0, <3>3, <3>4
  <2>4. \A y \in S \ A : \E x \in B : y = <<x[1] + Len(a), x[2]>>
    <3> SUFFICES ASSUME NEW y \in S \ A PROVE \E x \in B : y = <<x[1] + Len(a), x[2]>>
      OBVIOUS
    <3> DEFINE c == a \o b
    <3>1. PICK i \in 1..Len(c) : \E j \in Here(c[i], n) : y = <<i, j>>
      <4>1. y \in Called(c, n)
        OBVIOUS
      <4> HIDE DEF S, A, B, c
      <4> QED
        BY <4>1, CalledIs
    <3>0. PICK j \in Here((a \o b)[i], n) : y = <<i, j>>
      BY <3>1
    <3>2. i \notin 1..Len(a)
      BY <2>1, <3>0, CalledIs
    <3>3. i - Len(a) \in 1..Len(b) /\ i = (i - Len(a)) + Len(a) /\ (a \o b)[i] = b[i - Len(a)]
      BY <2>1, <3>2
    <3>4. <<i - Len(a), j>> \in B
      BY <3>0, <3>3, CalledIs
    <3> QED
      BY <3>0, <3>3, <3>4
  <2> HIDE DEF S, A, B
  <2>5. \A x, y \in B : <<x[1] + Len(a), x[2]>> = <<y[1] + Len(a), y[2]>> => x = y
    <3> SUFFICES ASSUME NEW x \in B, NEW y \in B,
                        <<x[1] + Len(a), x[2]>> = <<y[1] + Len(a), y[2]>>
                 PROVE  x = y
      OBVIOUS
    <3>1. x[1] + Len(a) = y[1] + Len(a) /\ x[2] = y[2]
      OBVIOUS
    <3>0. x[1] \in Nat /\ y[1] \in Nat
      BY <2>3
    <3>2. x[1] = y[1]
      BY <2>1, <3>0, <3>1
    <3> QED
      BY <2>3, <3>1, <3>2
  <2>6. IsMatch(g, B, S \ A)
    <3>1. \A x \in B : g[x] = <<x[1] + Len(a), x[2]>>
      OBVIOUS
    <3> QED
      BY <2>3, <2>4, <2>5, <3>1 DEF IsMatch
  <2>7. IsFiniteSet(A) /\ IsFiniteSet(B)
    BY <1>1, CalledFinite DEF A, B
  <2> HIDE DEF g
  <2>8. Cardinality(S) = Cardinality(A) + Cardinality(B)
    BY <2>2, <2>6, <2>7, CountParts
  <2> QED
    BY <2>8 DEF S, A, B
<1> QED
  BY <1>1


-----------------------------------------------------------------------------
(* What a file and those it includes ask for.                              *)

\* An include, and where it leads.
LEMMA IncludeFacts ==
  ASSUME NEW c \in Contents, NEW f \in Files, NEW m \in 1..Len(c[f].include)
  PROVE  /\ <<f, m>> \in Includes(c)
         /\ Included(c, <<f, m>>) = c[f].include[m] /\ Included(c, <<f, m>>) \in Files
<1>1. c[f].include \in Seq(Files)
  BY FileFacts
<1> QED
  BY <1>1 DEF Includes, Included

\* What an include is.
LEMMA IncludesAre ==
  ASSUME NEW c, NEW x \in Includes(c)
  PROVE  x[1] \in Files /\ x[2] \in 1..Len(c[x[1]].include) /\ x = <<x[1], x[2]>>
BY DEF Includes

\* A way is a sequence of includes, each in the file where the one before it led.
LEMMA WaysAre ==
  ASSUME NEW c, NEW f, NEW calls \in Nat \ {0}, NEW w
  PROVE  w \in Ways(c, f, calls) <=>
           /\ w \in Seq(Includes(c))
           /\ Len(w) < calls
           /\ \A i \in 1..Len(w) : w[i][1] = IF i = 1 THEN f ELSE Included(c, w[i - 1])
<1>1. ASSUME NEW k \in Nat, w \in [1..k -> Includes(c)] PROVE w \in Seq(Includes(c)) /\ Len(w) = k
  BY <1>1
<1>2. ASSUME w \in Seq(Includes(c)) PROVE Len(w) \in Nat /\ w \in [1..Len(w) -> Includes(c)]
  BY <1>2
<1>3. ASSUME w \in Ways(c, f, calls) PROVE \E k \in 0..(calls - 1) : w \in [1..k -> Includes(c)]
  BY <1>3 DEF Ways
<1>4. ASSUME w \in Ways(c, f, calls)
      PROVE  \A i \in 1..Len(w) : w[i][1] = IF i = 1 THEN f ELSE Included(c, w[i - 1])
  BY <1>4 DEF Ways
<1>5. ASSUME w \in Seq(Includes(c)), Len(w) < calls,
             \A i \in 1..Len(w) : w[i][1] = IF i = 1 THEN f ELSE Included(c, w[i - 1])
      PROVE  w \in Ways(c, f, calls)
  <2>1. Len(w) \in 0..(calls - 1) /\ w \in [1..Len(w) -> Includes(c)]
    BY <1>2, <1>5
  <2> QED
    BY <1>5, <2>1 DEF Ways
<1>6. ASSUME w \in Ways(c, f, calls) PROVE w \in Seq(Includes(c)) /\ Len(w) < calls
  <2>1. PICK k \in 0..(calls - 1) : w \in [1..k -> Includes(c)]
    BY <1>3, <1>6
  <2>2. w \in Seq(Includes(c)) /\ Len(w) = k
    BY <1>1, <2>1
  <2> QED
    BY <2>1, <2>2
<1> QED
  BY <1>4, <1>5, <1>6


\* A way that begins with an include.
LEMMA LongerWays ==
  ASSUME NEW c \in Contents, NEW f \in Files, NEW m \in 1..Len(c[f].include),
         NEW calls \in Nat \ {0, 1}, NEW w \in Ways(c, Included(c, <<f, m>>), calls - 1)
  PROVE  /\ << <<f, m>> >> \o w \in Ways(c, f, calls)
         /\ << <<f, m>> >> \o w # << >>
         /\ (<< <<f, m>> >> \o w)[1] = <<f, m>>
         /\ Tail(<< <<f, m>> >> \o w) = w
         /\ EndOf(c, f, << <<f, m>> >> \o w) = EndOf(c, Included(c, <<f, m>>), w)
<1> DEFINE x == <<f, m>>
           v == <<x>> \o w
<1>1. x \in Includes(c) /\ x[1] = f
  BY IncludeFacts
<1>2. /\ w \in Seq(Includes(c)) /\ Len(w) < calls - 1
      /\ \A i \in 1..Len(w) : w[i][1] = IF i = 1 THEN Included(c, x) ELSE Included(c, w[i - 1])
  BY WaysAre
<1> HIDE DEF x
<1>3. /\ v \in Seq(Includes(c)) /\ Len(v) = Len(w) + 1 /\ v # << >> /\ Tail(v) = w
      /\ v[1] = x /\ \A i \in 2..Len(v) : v[i] = w[i - 1]
  BY <1>1, <1>2
<1> HIDE DEF v
<1>4. \A i \in 1..Len(v) : v[i][1] = IF i = 1 THEN f ELSE Included(c, v[i - 1])
  <2> SUFFICES ASSUME NEW i \in 1..Len(v), i # 1 PROVE v[i][1] = Included(c, v[i - 1])
    BY <1>1, <1>3
  <2>1. i - 1 \in 1..Len(w) /\ v[i] = w[i - 1]
    BY <1>2, <1>3
  <2>2. CASE i = 2
    BY <1>2, <1>3, <2>1, <2>2
  <2>3. CASE i # 2
    <3>1. i - 1 # 1 /\ v[i - 1] = w[(i - 1) - 1]
      BY <1>2, <1>3, <2>1, <2>3
    <3> QED
      BY <1>2, <2>1, <3>1
  <2> QED
    BY <2>2, <2>3
<1>5. v \in Ways(c, f, calls)
  <2>1. Len(v) < calls
    BY <1>2, <1>3
  <2> QED
    BY <1>3, <1>4, <2>1, WaysAre
<1>6. EndOf(c, f, v) = EndOf(c, Included(c, x), w)
  <2>1. CASE w = << >>
    <3>1. Len(v) = 1
      BY <1>3, <2>1
    <3> QED
      BY <1>3, <2>1, <3>1 DEF EndOf
  <2>2. CASE w # << >>
    <3>1. Len(w) \in Nat \ {0} /\ v[Len(v)] = w[Len(w)]
      BY <1>2, <1>3, <2>2
    <3> QED
      BY <1>3, <2>2, <3>1 DEF EndOf
  <2> QED
    BY <2>1, <2>2
<1> QED
  BY <1>3, <1>5, <1>6 DEF v, x

\* What follows the first include of a way.
LEMMA ShorterWays ==
  ASSUME NEW c \in Contents, NEW f \in Files, NEW m \in 1..Len(c[f].include),
         NEW calls \in Nat \ {0}, NEW v \in Ways(c, f, calls), v # << >>, v[1][2] = m
  PROVE  /\ Tail(v) \in Ways(c, Included(c, <<f, m>>), calls - 1)
         /\ v = << <<f, m>> >> \o Tail(v)
         /\ calls - 1 \in Nat \ {0}
<1> DEFINE x == <<f, m>>
           w == Tail(v)
<1>1. /\ v \in Seq(Includes(c)) /\ Len(v) < calls
      /\ \A i \in 1..Len(v) : v[i][1] = IF i = 1 THEN f ELSE Included(c, v[i - 1])
  BY WaysAre
<1>2. /\ Len(v) \in Nat \ {0} /\ w \in Seq(Includes(c)) /\ Len(w) = Len(v) - 1
      /\ \A i \in 1..Len(w) : w[i] = v[i + 1]
  BY <1>1
<1>3. v[1] = x
  <2>1. v[1] \in Includes(c) /\ v[1][1] = f
    BY <1>1, <1>2
  <2> QED
    BY <2>1, IncludesAre
<1>4. v = <<x>> \o w
  BY <1>1, <1>2, <1>3
<1>5. calls - 1 \in Nat \ {0} /\ Len(w) < calls - 1
  BY <1>1, <1>2
<1> HIDE DEF x, w
<1>6. \A i \in 1..Len(w) : w[i][1] = IF i = 1 THEN Included(c, x) ELSE Included(c, w[i - 1])
  <2> SUFFICES ASSUME NEW i \in 1..Len(w)
               PROVE  w[i][1] = IF i = 1 THEN Included(c, x) ELSE Included(c, w[i - 1])
    OBVIOUS
  <2>1. i + 1 \in 1..Len(v) /\ i + 1 # 1 /\ w[i] = v[i + 1] /\ (i + 1) - 1 = i
    BY <1>2
  <2>2. w[i][1] = Included(c, v[i])
    BY <1>1, <2>1
  <2>3. i # 1 => w[i - 1] = v[i]
    <3>1. i # 1 => i - 1 \in 1..Len(w) /\ (i - 1) + 1 = i
      BY <1>2
    <3> QED
      BY <1>2, <3>1
  <2> QED
    BY <1>3, <2>2, <2>3
<1>7. w \in Ways(c, Included(c, x), calls - 1)
  BY <1>2, <1>5, <1>6, WaysAre
<1> QED
  BY <1>4, <1>5, <1>7 DEF x, w


\* The ways through the first m includes of f.
WaysUpTo(c, f, calls, m) == {w \in Ways(c, f, calls) : w # << >> => w[1][2] <= m}

\* What f and its first m includes ask for.
AskedUpTo(c, f, calls, m, n) ==
  UNION {{w} \X Called(c[EndOf(c, f, w)].plugins.entries, n) : w \in WaysUpTo(c, f, calls, m)}

\* What is asked for along a way.
LEMMA AskedIs ==
  ASSUME NEW c, NEW f, NEW calls, NEW m, NEW n, NEW x
  PROVE  x \in AskedUpTo(c, f, calls, m, n) <=>
           \E w \in WaysUpTo(c, f, calls, m) :
             \E y \in Called(c[EndOf(c, f, w)].plugins.entries, n) : x = <<w, y>>
BY DEF AskedUpTo

\* What a file asks for itself.
LEMMA AskedHere ==
  ASSUME NEW c \in Contents, NEW f \in Files, NEW calls \in Nat \ {0}, NEW n
  PROVE  /\ IsFiniteSet(AskedUpTo(c, f, calls, 0, n))
         /\ Cardinality(AskedUpTo(c, f, calls, 0, n)) =
              Cardinality(Called(c[f].plugins.entries, n))
<1> DEFINE S == AskedUpTo(c, f, calls, 0, n)
           B == Called(c[f].plugins.entries, n)
           g == [y \in B |-> << << >>, y>>]
<1>1. WaysUpTo(c, f, calls, 0) = {<< >>}
  <2>1. << >> \in Ways(c, f, calls)
    <3> DEFINE w == << >>
    <3>1. w \in Seq(Includes(c)) /\ Len(w) < calls /\ \A i \in 1..Len(w) : FALSE
      OBVIOUS
    <3> HIDE DEF w
    <3>2. w \in Ways(c, f, calls)
      BY <3>1, WaysAre
    <3> QED
      BY <3>2 DEF w
  <2>2. ASSUME NEW w \in Ways(c, f, calls), w # << >> PROVE ~ (w[1][2] <= 0)
    <3>1. w \in Seq(Includes(c))
      BY WaysAre
    <3>2. w[1] \in Includes(c)
      BY <2>2, <3>1
    <3>3. w[1][1] \in Files /\ w[1][2] \in 1..Len(c[w[1][1]].include)
      BY <3>2, IncludesAre
    <3>4. Len(c[w[1][1]].include) \in Nat
      BY <3>3, FileFacts
    <3> QED
      BY <3>3, <3>4
  <2> QED
    BY <2>1, <2>2 DEF WaysUpTo
<1>2. EndOf(c, f, << >>) = f
  BY DEF EndOf
<1>3. \A x : x \in S <=> \E y \in B : x = << << >>, y>>
  BY <1>1, <1>2, AskedIs
<1>4. IsFiniteSet(B)
  <2>1. c[f].plugins.entries \in Seq(Entries)
    BY FileFacts, SectionFacts
  <2> QED
    BY <2>1, CalledFinite
<1> HIDE DEF S, B
<1>5. IsMatch(g, B, S)
  BY <1>3 DEF IsMatch
<1> HIDE DEF g
<1>6. IsFiniteSet(S) /\ Cardinality(S) = Cardinality(B)
  BY <1>4, <1>5, CountCopy
<1> QED
  BY <1>6 DEF S, B

\* All the includes of a file.
LEMMA AskedAll ==
  ASSUME NEW c \in Contents, NEW f \in Files, NEW calls \in Nat \ {0}, NEW n
  PROVE  AskedUpTo(c, f, calls, Len(c[f].include), n) = Asked(c, f, calls, n)
<1>1. ASSUME NEW w \in Ways(c, f, calls), w # << >> PROVE w[1][2] <= Len(c[f].include)
  <2>1. /\ w \in Seq(Includes(c))
        /\ \A i \in 1..Len(w) : w[i][1] = IF i = 1 THEN f ELSE Included(c, w[i - 1])
    BY WaysAre
  <2>2. w[1] \in Includes(c) /\ w[1][1] = f
    BY <1>1, <2>1
  <2>3. Len(c[f].include) \in Nat
    BY FileFacts
  <2> QED
    BY <2>2, <2>3, IncludesAre
<1>2. WaysUpTo(c, f, calls, Len(c[f].include)) = Ways(c, f, calls)
  BY <1>1 DEF WaysUpTo
<1> QED
  BY <1>2 DEF AskedUpTo, Asked


\* One include more: what is asked for from there.
LEMMA AskedStep ==
  ASSUME NEW c \in Contents
  PROVE  \A f \in Files : \A m \in 1..Len(c[f].include) : \A calls \in Nat \ {0, 1} : \A n :
           LET h == Included(c, <<f, m>>)
           IN  /\ IsFiniteSet(AskedUpTo(c, f, calls, m - 1, n))
               /\ IsFiniteSet(Asked(c, h, calls - 1, n))
               => /\ IsFiniteSet(AskedUpTo(c, f, calls, m, n))
                  /\ Cardinality(AskedUpTo(c, f, calls, m, n)) =
                       Cardinality(AskedUpTo(c, f, calls, m - 1, n))
                       + Cardinality(Asked(c, h, calls - 1, n))
<1>1. ASSUME NEW f, NEW m, NEW calls, NEW n, NEW h,
             f \in Files, m \in 1..Len(c[f].include), calls \in Nat \ {0, 1},
             h = Included(c, <<f, m>>),
             IsFiniteSet(AskedUpTo(c, f, calls, m - 1, n)), IsFiniteSet(Asked(c, h, calls - 1, n))
      PROVE  /\ IsFiniteSet(AskedUpTo(c, f, calls, m, n))
             /\ Cardinality(AskedUpTo(c, f, calls, m, n)) =
                  Cardinality(AskedUpTo(c, f, calls, m - 1, n))
                  + Cardinality(Asked(c, h, calls - 1, n))
  <2> DEFINE S == AskedUpTo(c, f, calls, m, n)
             A == AskedUpTo(c, f, calls, m - 1, n)
             B == Asked(c, h, calls - 1, n)
             Long(w) == << <<f, m>> >> \o w
             g == [x \in B |-> <<Long(x[1]), x[2]>>]
  <2>1. m \in Nat \ {0}
    <3>1. Len(c[f].include) \in Nat
      BY <1>1, FileFacts
    <3> QED
      BY <1>1, <3>1
  <2>2. \A w \in Ways(c, h, calls - 1) :
          /\ Long(w) \in Ways(c, f, calls) /\ Long(w) # << >> /\ Long(w)[1][2] = m
          /\ Tail(Long(w)) = w /\ EndOf(c, f, Long(w)) = EndOf(c, h, w)
    <3> SUFFICES ASSUME NEW w \in Ways(c, Included(c, <<f, m>>), calls - 1)
                 PROVE  /\ Long(w) \in Ways(c, f, calls) /\ Long(w) # << >> /\ Long(w)[1][2] = m
                        /\ Tail(Long(w)) = w
                        /\ EndOf(c, f, Long(w)) = EndOf(c, Included(c, <<f, m>>), w)
      BY <1>1
    <3>1. <<f, m>>[2] = m
      OBVIOUS
    <3> QED
      BY <1>1, <3>1, LongerWays
  <2>3. \A v \in Ways(c, f, calls) : v # << >> /\ v[1][2] = m =>
          Tail(v) \in Ways(c, h, calls - 1) /\ v = Long(Tail(v))
    BY <1>1, ShorterWays
  <2>4. \A v \in Ways(c, f, calls) : v # << >> => v[1][2] \in Nat
    <3> SUFFICES ASSUME NEW v \in Ways(c, f, calls), v # << >> PROVE v[1][2] \in Nat
      OBVIOUS
    <3>1. v \in Seq(Includes(c))
      BY <1>1, WaysAre
    <3>2. v[1] \in Includes(c)
      BY <3>1
    <3>3. v[1][1] \in Files /\ v[1][2] \in 1..Len(c[v[1][1]].include)
      BY <3>2, IncludesAre
    <3> QED
      BY <3>3, FileFacts
  <2> HIDE DEF Long
  <2>5. A \subseteq S
    <3>1. WaysUpTo(c, f, calls, m - 1) \subseteq WaysUpTo(c, f, calls, m)
      BY <2>1, <2>4 DEF WaysUpTo
    <3> QED
      BY <3>1 DEF AskedUpTo
  <2>6. \A x : x \in B <=>
          \E w \in Ways(c, h, calls - 1) :
            \E y \in Called(c[EndOf(c, h, w)].plugins.entries, n) : x = <<w, y>>
    BY DEF Asked
  <2>7. \A w \in Ways(c, f, calls) :
          w \in WaysUpTo(c, f, calls, m) \ WaysUpTo(c, f, calls, m - 1) <=> w # << >> /\ w[1][2] = m
    BY <2>1, <2>4 DEF WaysUpTo
  <2>8. \A x : x \in S \ A <=>
          \E v \in Ways(c, f, calls) : /\ v # << >> /\ v[1][2] = m
            /\ \E y \in Called(c[EndOf(c, f, v)].plugins.entries, n) : x = <<v, y>>
    <3>1. \A x : x \in S <=> \E v \in WaysUpTo(c, f, calls, m) :
             \E y \in Called(c[EndOf(c, f, v)].plugins.entries, n) : x = <<v, y>>
      BY AskedIs
    <3>2. \A x : x \in A <=> \E v \in WaysUpTo(c, f, calls, m - 1) :
             \E y \in Called(c[EndOf(c, f, v)].plugins.entries, n) : x = <<v, y>>
      BY AskedIs
    <3>3. \A k : WaysUpTo(c, f, calls, k) \subseteq Ways(c, f, calls)
      BY DEF WaysUpTo
    <3> HIDE DEF S, A
    <3> QED
      BY <2>7, <3>1, <3>2, <3>3
  <2> HIDE DEF S, A, B
  <2>9. \A x \in B : x = <<x[1], x[2]>> /\ x[1] \in Ways(c, h, calls - 1)
                     /\ x[2] \in Called(c[EndOf(c, h, x[1])].plugins.entries, n)
    BY <2>6
  <2>10. \A x \in B : g[x] \in S \ A
    <3> SUFFICES ASSUME NEW x \in B PROVE <<Long(x[1]), x[2]>> \in S \ A
      OBVIOUS
    <3> QED
      BY <2>2, <2>8, <2>9
  <2>11. \A x, y \in B : g[x] = g[y] => x = y
    <3> SUFFICES ASSUME NEW x \in B, NEW y \in B,
                        <<Long(x[1]), x[2]>> = <<Long(y[1]), y[2]>>
                 PROVE  x = y
      OBVIOUS
    <3>1. Long(x[1]) = Long(y[1]) /\ x[2] = y[2]
      OBVIOUS
    <3>2. x[1] = y[1]
      BY <2>2, <2>9, <3>1
    <3> QED
      BY <2>9, <3>1, <3>2
  <2>12. \A z \in S \ A : \E x \in B : g[x] = z
    <3> SUFFICES ASSUME NEW z \in S \ A PROVE \E x \in B : <<Long(x[1]), x[2]>> = z
      OBVIOUS
    <3>1. PICK v \in Ways(c, f, calls) :
             /\ v # << >> /\ v[1][2] = m
             /\ \E y \in Called(c[EndOf(c, f, v)].plugins.entries, n) : z = <<v, y>>
      BY <2>8
    <3>2. PICK y \in Called(c[EndOf(c, f, v)].plugins.entries, n) : z = <<v, y>>
      BY <3>1
    <3>3. Tail(v) \in Ways(c, h, calls - 1) /\ v = Long(Tail(v))
      BY <2>3, <3>1
    <3>4. EndOf(c, h, Tail(v)) = EndOf(c, f, v)
      BY <2>2, <3>3
    <3>5. <<Tail(v), y>> \in B
      BY <2>6, <3>2, <3>3, <3>4
    <3> QED
      BY <3>2, <3>3, <3>5
  <2>13. IsMatch(g, B, S \ A)
    BY <2>10, <2>11, <2>12 DEF IsMatch
  <2>14. IsFiniteSet(A) /\ IsFiniteSet(B)
    BY <1>1 DEF A, B
  <2> HIDE DEF g
  <2>15. IsFiniteSet(S) /\ Cardinality(S) = Cardinality(A) + Cardinality(B)
    BY <2>5, <2>13, <2>14, CountParts
  <2> QED
    BY <2>15 DEF S, A, B
<1> QED
  BY <1>1


-----------------------------------------------------------------------------
(* The calls of read_config.                                               *)

\* What a call of read_config has.
Frames == [file : Files, todo : Seq(Files), plugins : Sections]

\* How many of the includes it has come to.
Taken(c, frame) == Len(c[frame.file].include) - Len(frame.todo)

\* What is left of the glob is the end of it.
IsFrame(c, frame) ==
  /\ frame \in Frames
  /\ Taken(c, frame) \in 0..Len(c[frame.file].include)
  /\ \A i \in 1..Len(frame.todo) :
       frame.todo[i] = c[frame.file].include[Taken(c, frame) + i]

\* The include it has come to last is file.
IsCaller(c, frame, file) ==
  /\ Taken(c, frame) # 0
  /\ file = c[frame.file].include[Taken(c, frame)]

\* Its plugins so far are what its file and the first m includes ask for.
HasAsked(c, frame, calls, m) ==
  /\ frame.plugins.form \in {"list", "absent"}
  /\ \A n \in Names :
       /\ IsFiniteSet(AskedUpTo(c, frame.file, calls, m, n))
       /\ Cardinality(Called(frame.plugins.entries, n)) =
            Cardinality(AskedUpTo(c, frame.file, calls, m, n))

\* What a frame has, in terms of numbers.
LEMMA FrameFacts ==
  ASSUME NEW c \in Contents, NEW frame, IsFrame(c, frame)
  PROVE  /\ frame.file \in Files /\ frame.todo \in Seq(Files) /\ frame.plugins \in Sections
         /\ c[frame.file].include \in Seq(Files)
         /\ Len(frame.todo) \in Nat /\ Len(c[frame.file].include) \in Nat
         /\ Taken(c, frame) \in Nat
<1>1. frame.file \in Files /\ frame.todo \in Seq(Files) /\ frame.plugins \in Sections
  BY DEF IsFrame, Frames
<1>2. c[frame.file].include \in Seq(Files)
  BY <1>1, FileFacts
<1> QED
  BY <1>1, <1>2 DEF IsFrame

\* A file is opened.
LEMMA OpenedFrame ==
  ASSUME NEW c \in Contents, NEW f \in Files, NEW calls \in Nat \ {0}
  PROVE  LET frame == [file |-> f, todo |-> c[f].include, plugins |-> c[f].plugins]
         IN  /\ IsFrame(c, frame) /\ Taken(c, frame) = 0
             /\ c[f].plugins.form \in {"list", "absent"} => HasAsked(c, frame, calls, 0)
<1> DEFINE frame == [file |-> f, todo |-> c[f].include, plugins |-> c[f].plugins]
<1>1. c[f].plugins \in Sections /\ c[f].include \in Seq(Files)
  BY FileFacts
<1>2. /\ frame \in Frames /\ frame.file = f /\ frame.todo = c[f].include
      /\ frame.plugins = c[f].plugins
  BY <1>1 DEF Frames
<1> HIDE DEF frame
<1>3. Len(c[f].include) \in Nat
  BY <1>1
<1>4. Taken(c, frame) = 0
  BY <1>2, <1>3 DEF Taken
<1>5. IsFrame(c, frame)
  BY <1>2, <1>3, <1>4 DEF IsFrame
<1>6. ASSUME c[f].plugins.form \in {"list", "absent"} PROVE HasAsked(c, frame, calls, 0)
  <2>1. \A n \in Names : /\ IsFiniteSet(AskedUpTo(c, f, calls, 0, n))
                         /\ Cardinality(AskedUpTo(c, f, calls, 0, n)) =
                              Cardinality(Called(c[f].plugins.entries, n))
    BY AskedHere
  <2> QED
    BY <1>2, <1>6, <2>1 DEF HasAsked
<1> QED
  BY <1>4, <1>5, <1>6 DEF frame

\* The next include is called.
LEMMA CallingFrame ==
  ASSUME NEW c \in Contents, NEW frame, IsFrame(c, frame), frame.todo # << >>
  PROVE  LET after == [frame EXCEPT !.todo = Tail(@)]
         IN  /\ IsFrame(c, after) /\ Taken(c, after) - 1 = Taken(c, frame)
             /\ Head(frame.todo) \in Files /\ IsCaller(c, after, Head(frame.todo))
             /\ after.file = frame.file
             /\ \A calls, m : HasAsked(c, frame, calls, m) => HasAsked(c, after, calls, m)
<1> DEFINE after == [frame EXCEPT !.todo = Tail(@)]
           inc == c[frame.file].include
<1>1. /\ frame \in Frames /\ frame.todo \in Seq(Files) /\ inc \in Seq(Files)
      /\ Len(inc) \in Nat /\ Taken(c, frame) \in 0..Len(inc)
      /\ \A i \in 1..Len(frame.todo) : frame.todo[i] = inc[Taken(c, frame) + i]
  BY FrameFacts DEF IsFrame
<1>2. /\ after \in Frames /\ after.file = frame.file /\ after.todo = Tail(frame.todo)
      /\ after.plugins = frame.plugins
  <2>1. Tail(frame.todo) \in Seq(Files)
    BY <1>1
  <2> QED
    BY <1>1, <2>1 DEF Frames
<1> HIDE DEF after
<1>3. /\ Len(frame.todo) \in Nat \ {0} /\ Len(after.todo) = Len(frame.todo) - 1
      /\ Head(frame.todo) = frame.todo[1] /\ Head(frame.todo) \in Files
      /\ \A i \in 1..Len(after.todo) : after.todo[i] = frame.todo[i + 1]
  BY <1>1, <1>2
<1> HIDE DEF inc
<1>4. Taken(c, frame) = Len(inc) - Len(frame.todo) /\ Taken(c, after) = Len(inc) - Len(after.todo)
  BY <1>2 DEF Taken, inc
<1>5. Taken(c, after) = Taken(c, frame) + 1 /\ Taken(c, after) \in 1..Len(inc)
  BY <1>1, <1>3, <1>4
<1>6. \A i \in 1..Len(after.todo) : after.todo[i] = inc[Taken(c, after) + i]
  <2> SUFFICES ASSUME NEW i \in 1..Len(after.todo) PROVE after.todo[i] = inc[Taken(c, after) + i]
    OBVIOUS
  <2>1. i + 1 \in 1..Len(frame.todo)
    BY <1>3
  <2>2. Taken(c, frame) + (i + 1) = Taken(c, after) + i
    BY <1>1, <1>3, <1>5
  <2> QED
    BY <1>1, <1>3, <2>1, <2>2
<1>7. IsFrame(c, after)
  BY <1>2, <1>5, <1>6 DEF IsFrame, inc
<1>8. Head(frame.todo) = inc[Taken(c, after)]
  BY <1>1, <1>3, <1>5
<1>9. IsCaller(c, after, Head(frame.todo))
  BY <1>2, <1>5, <1>8 DEF IsCaller, inc
<1>10. \A calls, m : HasAsked(c, frame, calls, m) => HasAsked(c, after, calls, m)
  BY <1>2 DEF HasAsked
<1>11. Taken(c, after) - 1 = Taken(c, frame)
  BY <1>1, <1>5
<1> QED
  BY <1>2, <1>3, <1>7, <1>9, <1>10, <1>11 DEF after


\* A call returns, and what it read is merged.
LEMMA MergedFrame ==
  ASSUME NEW c \in Contents, NEW frame, NEW callee, IsFrame(c, frame), IsFrame(c, callee),
         ~ MergeRaises(frame.plugins, callee.plugins)
  PROVE  LET after == [frame EXCEPT !.plugins = Merge(@, callee.plugins)]
         IN  /\ IsFrame(c, after) /\ Taken(c, after) = Taken(c, frame)
             /\ after.file = frame.file
             /\ \A file : IsCaller(c, frame, file) => IsCaller(c, after, file)
             /\ \A calls \in Nat \ {0, 1} :
                  /\ IsCaller(c, frame, callee.file) /\ callee.todo = << >>
                  /\ HasAsked(c, frame, calls, Taken(c, frame) - 1)
                  /\ HasAsked(c, callee, calls - 1, Taken(c, callee))
                  => HasAsked(c, after, calls, Taken(c, frame))
<1> DEFINE merged == Merge(frame.plugins, callee.plugins)
           after == [frame EXCEPT !.plugins = merged]
<1>1. /\ frame.file \in Files /\ frame \in Frames
      /\ frame.plugins \in Sections /\ callee.plugins \in Sections
  BY FrameFacts DEF IsFrame
<1>2. /\ merged \in Sections
      /\ frame.plugins.form \in {"list", "absent"} /\ callee.plugins.form \in {"list", "absent"} =>
           /\ merged.form \in {"list", "absent"}
           /\ merged.entries = frame.plugins.entries \o callee.plugins.entries
  BY <1>1, MergeSections
<1> HIDE DEF merged
<1>3. /\ after \in Frames /\ after.file = frame.file /\ after.todo = frame.todo
      /\ after.plugins = merged
  BY <1>1, <1>2 DEF Frames
<1> HIDE DEF after
<1>4. Taken(c, after) = Taken(c, frame)
  BY <1>3 DEF Taken
<1>5. IsFrame(c, after)
  BY <1>3, <1>4 DEF IsFrame
<1>6. \A file : IsCaller(c, frame, file) => IsCaller(c, after, file)
  BY <1>3, <1>4 DEF IsCaller
<1>7. ASSUME NEW calls \in Nat \ {0, 1},
             IsCaller(c, frame, callee.file), callee.todo = << >>,
             HasAsked(c, frame, calls, Taken(c, frame) - 1),
             HasAsked(c, callee, calls - 1, Taken(c, callee))
      PROVE  HasAsked(c, after, calls, Taken(c, frame))
  <2> DEFINE m == Taken(c, frame)
  <2>1. m \in 1..Len(c[frame.file].include) /\ callee.file = c[frame.file].include[m]
    <3>1. m \in 0..Len(c[frame.file].include) /\ m # 0
      BY <1>7 DEF IsFrame, IsCaller
    <3> QED
      BY <1>7, <3>1 DEF IsCaller
  <2>2. callee.file = Included(c, <<frame.file, m>>) /\ callee.file \in Files
    BY <1>1, <2>1, IncludeFacts
  <2>3. Taken(c, callee) = Len(c[callee.file].include)
    <3>1. c[callee.file].include \in Seq(Files)
      BY <2>2, FileFacts
    <3> QED
      BY <1>7, <3>1 DEF Taken
  <2> HIDE DEF m
  <2>4. ASSUME NEW n \in Names
        PROVE  /\ IsFiniteSet(AskedUpTo(c, frame.file, calls, m, n))
               /\ Cardinality(Called(merged.entries, n)) =
                    Cardinality(AskedUpTo(c, frame.file, calls, m, n))
    <3>1. /\ IsFiniteSet(AskedUpTo(c, frame.file, calls, m - 1, n))
          /\ Cardinality(Called(frame.plugins.entries, n)) =
               Cardinality(AskedUpTo(c, frame.file, calls, m - 1, n))
      BY <1>7 DEF HasAsked, m
    <3>2. calls - 1 \in Nat \ {0}
      OBVIOUS
    <3>3. /\ IsFiniteSet(Asked(c, callee.file, calls - 1, n))
          /\ Cardinality(Called(callee.plugins.entries, n)) =
               Cardinality(Asked(c, callee.file, calls - 1, n))
      <4>1. AskedUpTo(c, callee.file, calls - 1, Taken(c, callee), n) =
              Asked(c, callee.file, calls - 1, n)
        BY <2>2, <2>3, <3>2, AskedAll
      <4> QED
        BY <1>7, <4>1 DEF HasAsked
    <3>4. /\ IsFiniteSet(AskedUpTo(c, frame.file, calls, m, n))
          /\ Cardinality(AskedUpTo(c, frame.file, calls, m, n)) =
               Cardinality(AskedUpTo(c, frame.file, calls, m - 1, n))
               + Cardinality(Asked(c, callee.file, calls - 1, n))
      BY <1>1, <2>1, <2>2, <3>1, <3>3, AskedStep
    <3>5. Cardinality(Called(merged.entries, n)) =
            Cardinality(Called(frame.plugins.entries, n))
            + Cardinality(Called(callee.plugins.entries, n))
      <4>1. merged.entries = frame.plugins.entries \o callee.plugins.entries
        BY <1>2, <1>7 DEF HasAsked
      <4>2. frame.plugins.entries \in Seq(Entries) /\ callee.plugins.entries \in Seq(Entries)
        BY <1>1, SectionFacts
      <4> QED
        BY <4>1, <4>2, CalledConcat
    <3> QED
      BY <3>1, <3>3, <3>4, <3>5
  <2>5. merged.form \in {"list", "absent"}
    BY <1>2, <1>7 DEF HasAsked
  <2> QED
    BY <1>3, <2>4, <2>5 DEF HasAsked, m
<1> QED
  BY <1>3, <1>4, <1>5, <1>6, <1>7 DEF after, merged


-----------------------------------------------------------------------------
(* The invariant of the stack.                                             *)

\* Each call was made by the one below it; the first one is main's.
StackInv ==
  /\ content \in Contents
  /\ stack \in Seq(Frames) /\ Len(stack) <= MaxDepth
  /\ \A k \in 1..Len(stack) : IsFrame(content, stack[k])
  /\ stack # << >> => stack[1].file = Root
  /\ \A k \in 1..(Len(stack) - 1) : IsCaller(content, stack[k], stack[k + 1].file)

\* How many includes the k-th call has merged: all it has come to, but for the one it waits for.
MergedBy(k) ==
  IF k = Len(stack) THEN Taken(content, stack[k]) ELSE Taken(content, stack[k]) - 1

\* What was read so far is what the files ask for.
ReadingInv ==
  pc = "reading" =>
    /\ stack # << >>
    /\ AllLists => \A k \in 1..Len(stack) :
                     HasAsked(content, stack[k], MaxDepth - k + 1, MergedBy(k))

\* The configuration was read.
Configured == {"command", "call", "loading", "active", "done"}

\* A call more.
LEMMA OpenStep ==
  ASSUME content \in Contents, content' = content,
         NEW f \in Files, NEW calls, calls \in Seq(Frames), Len(calls) < MaxDepth,
         \A k \in 1..Len(calls) : IsFrame(content, calls[k]),
         IF calls = << >> THEN f = Root ELSE calls[1].file = Root,
         \A k \in 1..(Len(calls) - 1) : IsCaller(content, calls[k], calls[k + 1].file),
         calls # << >> => IsCaller(content, calls[Len(calls)], f),
         AllLists => \A k \in 1..Len(calls) :
           HasAsked(content, calls[k], MaxDepth - k + 1, Taken(content, calls[k]) - 1),
         Open(f, calls)
  PROVE  StackInv' /\ ReadingInv' /\ pc' \notin Configured
<1> DEFINE frame == [file |-> f, todo |-> content[f].include, plugins |-> content[f].plugins]
<1>1. MaxDepth \in Nat \ {0} /\ Len(calls) \in Nat
  BY FilesAssumption
<1>2. CASE content[f].file # "ok"
  <2>1. stack' = calls /\ pc' \in {"exited", "crashed"}
    <3>1. content[f].file \in {"ok", "unreadable", "invalid", "empty"}
      BY ContentsAssumption
    <3> QED
      BY <1>2, <3>1 DEF Open
  <2> QED
    BY <1>1, <2>1 DEF StackInv, ReadingInv, Configured
<1>3. CASE content[f].file = "ok"
  <2>1. /\ IsFrame(content, frame) /\ Taken(content, frame) = 0
        /\ frame.file = f
        /\ content[f].plugins.form \in {"list", "absent"} =>
             \A c \in Nat \ {0} : HasAsked(content, frame, c, 0)
    BY OpenedFrame
  <2>2. stack' = Append(calls, frame) /\ frame \in Frames /\ pc' = "reading"
    BY <1>3, <2>1 DEF Open, Frame, IsFrame
  <2> HIDE DEF frame
  <2>3. /\ stack' \in Seq(Frames) /\ Len(stack') = Len(calls) + 1 /\ stack' # << >>
        /\ \A k \in 1..Len(calls) : stack'[k] = calls[k]
        /\ stack'[Len(calls) + 1] = frame
    BY <2>2
  <2>4. \A k \in 1..Len(stack') : IsFrame(content, stack'[k])
    BY <1>1, <2>1, <2>3
  <2>5. stack'[1].file = Root
    <3>1. CASE calls = << >>
      BY <2>1, <2>3, <3>1
    <3>2. CASE calls # << >>
      BY <2>3, <3>2
    <3> QED
      BY <3>1, <3>2
  <2>6. ASSUME NEW k \in 1..(Len(stack') - 1)
        PROVE  IsCaller(content, stack'[k], stack'[k + 1].file)
    <3>1. k \in 1..Len(calls) /\ stack'[k] = calls[k]
      BY <1>1, <2>3
    <3>2. CASE k = Len(calls)
      BY <2>1, <2>3, <3>1, <3>2
    <3>3. CASE k # Len(calls)
      <4>1. k \in 1..(Len(calls) - 1) /\ k + 1 \in 1..Len(calls)
        BY <1>1, <3>1, <3>3
      <4> QED
        BY <2>3, <3>1, <4>1
    <3> QED
      BY <3>2, <3>3
  <2>7. ASSUME AllLists, NEW k \in 1..Len(stack')
        PROVE  HasAsked(content, stack'[k], MaxDepth - k + 1, MergedBy(k)')
    <3>1. MergedBy(k)' = IF k = Len(stack') THEN Taken(content, stack'[k])
                                           ELSE Taken(content, stack'[k]) - 1
      BY DEF MergedBy
    <3>2. CASE k = Len(stack')
      <4>1. MaxDepth - k + 1 \in Nat \ {0}
        BY <1>1, <2>3, <3>2
      <4>2. content[f].plugins.form \in {"list", "absent"}
        BY <2>7 DEF AllLists
      <4> QED
        BY <2>1, <2>3, <3>1, <3>2, <4>1, <4>2
    <3>3. CASE k # Len(stack')
      <4>1. k \in 1..Len(calls)
        BY <1>1, <2>3, <3>3
      <4> QED
        BY <2>3, <2>7, <3>1, <3>3, <4>1
    <3> QED
      BY <3>2, <3>3
  <2>8. Len(stack') <= MaxDepth
    BY <1>1, <2>3
  <2> QED
    BY <2>2, <2>3, <2>4, <2>5, <2>6, <2>7, <2>8
    DEF StackInv, ReadingInv, AllLists, Configured
<1> QED
  BY <1>2, <1>3

\* read_config is called from main.
LEMMA ReadStep ==
  ASSUME StackInv, content' = content, Read
  PROVE  StackInv' /\ ReadingInv' /\ pc' \notin Configured
<1> DEFINE calls == << >>
<1>1. /\ calls \in Seq(Frames) /\ Len(calls) = 0 /\ calls = << >>
      /\ \A k \in 1..Len(calls) : FALSE
      /\ \A k \in 1..(Len(calls) - 1) : FALSE
  OBVIOUS
<1>2. Open(Root, calls)
  BY DEF Read
<1>3. Root \in Files /\ Len(calls) < MaxDepth /\ content \in Contents
  BY <1>1, FilesAssumption DEF StackInv
<1> HIDE DEF calls
<1> QED
  BY <1>1, <1>2, <1>3, OpenStep

\* read_config is called from itself.
LEMMA IncludeStep ==
  ASSUME StackInv, ReadingInv, content' = content, Include
  PROVE  StackInv' /\ ReadingInv' /\ pc' \notin Configured
<1> DEFINE last == Len(stack)
           after == [stack[last] EXCEPT !.todo = Tail(@)]
           calls == [stack EXCEPT ![last] = after]
           f == Head(stack[last].todo)
<1>1. /\ content \in Contents /\ stack \in Seq(Frames) /\ Len(stack) \in Nat \ {0}
      /\ last <= MaxDepth /\ MaxDepth \in Nat /\ stack[1].file = Root
      /\ \A k \in 1..last : IsFrame(content, stack[k])
      /\ \A k \in 1..(last - 1) : IsCaller(content, stack[k], stack[k + 1].file)
      /\ pc = "reading" /\ stack[last].todo # << >>
      /\ AllLists => \A k \in 1..last :
           HasAsked(content, stack[k], MaxDepth - k + 1,
                    IF k = last THEN Taken(content, stack[k]) ELSE Taken(content, stack[k]) - 1)
  BY FilesAssumption DEF StackInv, ReadingInv, MergedBy, Include, TopCall, Last
<1>2. CASE last = MaxDepth
  <2>1. stack' = stack /\ pc' = "crashed"
    BY <1>2 DEF Include
  <2> QED
    BY <2>1 DEF StackInv, ReadingInv, Configured
<1>3. CASE last # MaxDepth
  <2>1. Open(f, calls)
    BY <1>3 DEF Include, TopCall, Last
  <2>2. /\ IsFrame(content, after) /\ Taken(content, after) - 1 = Taken(content, stack[last])
        /\ f \in Files /\ IsCaller(content, after, f) /\ after.file = stack[last].file
        /\ \A c, m : HasAsked(content, stack[last], c, m) => HasAsked(content, after, c, m)
    <3>1. IsFrame(content, stack[last])
      BY <1>1
    <3> QED
      BY <1>1, <3>1, CallingFrame
  <2> HIDE DEF after, f
  <2>3. /\ calls \in Seq(Frames) /\ Len(calls) = last
        /\ \A k \in 1..last : calls[k] = IF k = last THEN after ELSE stack[k]
    <3>1. after \in Frames
      BY <2>2 DEF IsFrame
    <3> QED
      BY <1>1, <3>1
  <2> HIDE DEF calls
  <2>4. calls # << >> /\ Len(calls) < MaxDepth /\ calls[last] = after
    BY <1>1, <1>3, <2>3
  <2>5. \A k \in 1..Len(calls) : IsFrame(content, calls[k])
    BY <1>1, <2>2, <2>3
  <2>6. calls[1].file = Root
    BY <1>1, <2>2, <2>3
  <2>7. ASSUME NEW k \in 1..(Len(calls) - 1)
        PROVE  IsCaller(content, calls[k], calls[k + 1].file)
    <3>1. /\ k \in 1..(last - 1) /\ k \in 1..last /\ k + 1 \in 1..last /\ k # last
      BY <1>1, <2>3
    <3>2. calls[k] = stack[k] /\ calls[k + 1].file = stack[k + 1].file
      BY <2>2, <2>3, <3>1
    <3> QED
      BY <1>1, <3>1, <3>2
  <2>8. ASSUME AllLists, NEW k \in 1..Len(calls)
        PROVE  HasAsked(content, calls[k], MaxDepth - k + 1, Taken(content, calls[k]) - 1)
    BY <1>1, <2>2, <2>3, <2>8
  <2> QED
    BY <1>1, <2>1, <2>2, <2>3, <2>4, <2>5, <2>6, <2>7, <2>8, OpenStep
<1> QED
  BY <1>2, <1>3


\* read_config returns to itself.
LEMMA ReturnStep ==
  ASSUME StackInv, ReadingInv, content' = content, ReturnToCaller
  PROVE  StackInv' /\ ReadingInv' /\ pc' \notin Configured
<1> DEFINE last == Len(stack)
           prev == Len(stack) - 1
           caller == stack[prev]
           callee == stack[last]
           after == [caller EXCEPT !.plugins = Merge(@, callee.plugins)]
<1>1. /\ content \in Contents /\ stack \in Seq(Frames) /\ last \in Nat \ {0, 1}
      /\ last <= MaxDepth /\ MaxDepth \in Nat /\ stack[1].file = Root
      /\ \A k \in 1..last : IsFrame(content, stack[k])
      /\ \A k \in 1..prev : IsCaller(content, stack[k], stack[k + 1].file)
      /\ pc = "reading" /\ callee.todo = << >>
      /\ AllLists => \A k \in 1..last :
           HasAsked(content, stack[k], MaxDepth - k + 1,
                    IF k = last THEN Taken(content, stack[k]) ELSE Taken(content, stack[k]) - 1)
  BY FilesAssumption DEF StackInv, ReadingInv, MergedBy, ReturnToCaller, TopCall, Last
<1>2. /\ prev \in Nat \ {0} /\ prev + 1 = last /\ prev # last /\ prev \in 1..prev
      /\ prev <= MaxDepth /\ last \in 1..last /\ \A k \in 1..prev : k \in 1..last
  <2>1. last \in Nat \ {0, 1} /\ prev = last - 1 /\ last <= MaxDepth /\ MaxDepth \in Nat
    BY <1>1
  <2> HIDE DEF last, prev
  <2> QED
    BY <2>1
<1>3. /\ Len(Front(stack)) = prev /\ Front(stack) \in Seq(Frames)
      /\ \A k \in 1..prev : Front(stack)[k] = stack[k]
  <2> HIDE DEF last, prev
  <2>1. \A i \in 1..prev : stack[i] \in Frames /\ 1 + i - 1 = i
    BY <1>1, <1>2 DEF last
  <2>2. Front(stack) = SubSeq(stack, 1, prev)
    BY DEF Front, prev
  <2>3. prev - 1 + 1 = prev /\ 1 \in Int /\ prev \in Int /\ 1 <= prev
    BY <1>2
  <2> QED
    BY <2>1, <2>2, <2>3, SubSeqProperties
<1>4. /\ MergeRaises(caller.plugins, callee.plugins) => stack' = stack /\ pc' = "crashed"
      /\ ~ MergeRaises(caller.plugins, callee.plugins) =>
           pc' = "reading" /\ stack' = [Front(stack) EXCEPT ![prev] = after]
  <2> HIDE DEF prev
  <2>1. Last(Front(stack)) = caller /\ TopCall = callee
    BY <1>2, <1>3 DEF Last, TopCall
  <2> HIDE DEF caller, callee
  <2>2. MergeRaises(caller.plugins, callee.plugins) => stack' = stack /\ pc' = "crashed"
    BY <2>1 DEF ReturnToCaller
  <2>3. ~ MergeRaises(caller.plugins, callee.plugins) =>
          /\ pc' = "reading"
          /\ stack' = [Front(stack) EXCEPT ![prev].plugins = Merge(@, callee.plugins)]
    BY <1>1, <1>3, <2>1 DEF ReturnToCaller
  <2>4. [Front(stack) EXCEPT ![prev].plugins = Merge(@, callee.plugins)] =
          [Front(stack) EXCEPT ![prev] =
            [Front(stack)[prev] EXCEPT
               !.plugins = Merge(Front(stack)[prev].plugins, callee.plugins)]]
    OBVIOUS
  <2>5. Front(stack)[prev] = caller
    BY <1>2, <1>3, Zenon DEF caller
  <2> QED
    BY <2>2, <2>3, <2>4, <2>5
<1> HIDE DEF last, prev
<1>5. /\ IsFrame(content, caller) /\ IsFrame(content, callee)
      /\ IsCaller(content, caller, callee.file)
  BY <1>1, <1>2
<1>6. CASE MergeRaises(caller.plugins, callee.plugins)
  BY <1>4, <1>6 DEF StackInv, ReadingInv, Configured
<1>7. CASE ~ MergeRaises(caller.plugins, callee.plugins)
  <2>2. /\ IsFrame(content, after) /\ Taken(content, after) = Taken(content, caller)
        /\ after.file = caller.file
        /\ \A file : IsCaller(content, caller, file) => IsCaller(content, after, file)
        /\ \A c \in Nat \ {0, 1} :
             /\ IsCaller(content, caller, callee.file) /\ callee.todo = << >>
             /\ HasAsked(content, caller, c, Taken(content, caller) - 1)
             /\ HasAsked(content, callee, c - 1, Taken(content, callee))
             => HasAsked(content, after, c, Taken(content, caller))
    BY <1>1, <1>5, <1>7, MergedFrame
  <2> HIDE DEF after
  <2>4. /\ stack' \in Seq(Frames) /\ Len(stack') = prev /\ stack' # << >>
        /\ \A k \in 1..(prev) : stack'[k] = IF k = prev THEN after ELSE stack[k]
    <3>1. after \in Frames
      BY <2>2 DEF IsFrame
    <3> DEFINE front == Front(stack)
    <3>2. /\ stack' = [front EXCEPT ![prev] = after]
          /\ front \in Seq(Frames) /\ Len(front) = prev
          /\ \A k \in 1..prev : front[k] = stack[k]
      BY <1>3, <1>4, <1>7
    <3> HIDE DEF front
    <3> QED
      BY <1>2, <3>1, <3>2
  <2>5. \A k \in 1..Len(stack') : IsFrame(content, stack'[k])
    BY <1>1, <1>2, <2>2, <2>4
  <2>6. stack'[1].file = Root
    BY <1>1, <2>2, <2>4
  <2>7. ASSUME NEW k \in 1..(Len(stack') - 1)
        PROVE  IsCaller(content, stack'[k], stack'[k + 1].file)
    <3>1. k \in 1..(prev) /\ k # prev /\ k + 1 \in 1..(prev)
      BY <1>1, <2>4
    <3>2. stack'[k] = stack[k] /\ stack'[k + 1].file = stack[k + 1].file
      BY <2>2, <2>4, <3>1
    <3> QED
      BY <1>1, <3>1, <3>2
  <2>8. ASSUME AllLists, NEW k \in 1..Len(stack')
        PROVE  HasAsked(content, stack'[k], MaxDepth - k + 1,
                        IF k = Len(stack') THEN Taken(content, stack'[k])
                                           ELSE Taken(content, stack'[k]) - 1)
    <3>1. k \in 1..last /\ k # last /\ k \in 1..prev
      BY <1>1, <1>2, <2>4
    <3>2. CASE k # prev
      <4>1. stack'[k] = stack[k] /\ k # Len(stack')
        BY <2>4, <3>1, <3>2
      <4> QED
        BY <1>1, <2>8, <3>1, <4>1
    <3>3. CASE k = prev
      <4> DEFINE c == MaxDepth - k + 1
      <4>1. c \in Nat \ {0, 1} /\ c - 1 = MaxDepth - last + 1
        BY <1>1, <1>2, <3>1, <3>3
      <4>2. HasAsked(content, caller, c, Taken(content, caller) - 1)
        BY <1>1, <2>8, <3>1, <3>3
      <4>3. HasAsked(content, callee, c - 1, Taken(content, callee))
        <5>1. last \in 1..last
          BY <1>1
        <5>2. HasAsked(content, callee, MaxDepth - last + 1, Taken(content, callee))
          BY <1>1, <2>8, <5>1
        <5> QED
          BY <4>1, <5>2
      <4> HIDE DEF c
      <4>4. HasAsked(content, after, c, Taken(content, after))
        BY <1>1, <1>5, <2>2, <4>1, <4>2, <4>3
      <4>5. stack'[k] = after /\ k = Len(stack')
        BY <1>1, <2>4, <3>3
      <4> QED
        BY <4>4, <4>5 DEF c
    <3> QED
      BY <3>2, <3>3
  <2>9. Len(stack') <= MaxDepth
    BY <1>2, <2>4
  <2> QED
    BY <1>1, <1>4, <1>7, <2>4, <2>5, <2>6, <2>7, <2>8, <2>9
    DEF StackInv, ReadingInv, MergedBy, AllLists, Configured
<1> QED
  BY <1>6, <1>7

\* read_config returns to main.
LEMMA ConfigReadStep ==
  ASSUME StackInv, ReadingInv, content' = content, ConfigRead
  PROVE  /\ StackInv' /\ ReadingInv'
         /\ plugins' \in Sections
         /\ AllLists => \A n \in Names :
              Cardinality(Called(plugins'.entries, n)) =
                Cardinality(Asked(content, Root, MaxDepth, n))
<1> DEFINE frame == stack[1]
<1>1. /\ content \in Contents /\ frame.file = Root /\ IsFrame(content, frame)
      /\ frame.todo = << >> /\ plugins' = frame.plugins /\ stack' = << >> /\ pc' # "reading"
      /\ AllLists => HasAsked(content, frame, MaxDepth - 1 + 1, Taken(content, frame))
  BY DEF StackInv, ReadingInv, MergedBy, ConfigRead, TopCall, Last
<1>2. MaxDepth - 1 + 1 = MaxDepth /\ MaxDepth \in Nat \ {0} /\ Root \in Files
  BY FilesAssumption
<1>3. StackInv' /\ ReadingInv'
  <2>1. << >> \in Seq(Frames) /\ Len(<< >>) = 0
    OBVIOUS
  <2> QED
    BY <1>1, <1>2, <2>1 DEF StackInv, ReadingInv
<1> HIDE DEF frame
<1>4. frame.plugins \in Sections /\ Taken(content, frame) = Len(content[Root].include)
  BY <1>1, FrameFacts DEF Taken
<1>5. \A n : AskedUpTo(content, Root, MaxDepth, Len(content[Root].include), n) =
               Asked(content, Root, MaxDepth, n)
  BY <1>1, <1>2, AskedAll
<1>6. AllLists => \A n \in Names : Cardinality(Called(frame.plugins.entries, n)) =
                                     Cardinality(Asked(content, Root, MaxDepth, n))
  BY <1>1, <1>2, <1>4, <1>5 DEF HasAsked
<1> QED
  BY <1>1, <1>3, <1>4, <1>6


-----------------------------------------------------------------------------
(* The active checks.                                                      *)

\* Its section is what the files ask for.
PluginsInv ==
  /\ plugins \in Sections
  /\ pc \in Configured /\ AllLists =>
       \A n \in Names : Cardinality(Called(plugins.entries, n)) =
                          Cardinality(Asked(content, Root, MaxDepth, n))

\* The names of the entries before this one are active, unless a plugin is missing.
Loaded ==
  /\ entry \in 1..(Len(plugins.entries) + 1)
  /\ depsError \in Nat
  /\ depsError = 0 => \A n \in Names : Cardinality(At(active, n)) =
                                         Cardinality(CalledUpTo(plugins.entries, entry - 1, n))

\* A list of active checks that was accepted is whole and has no duplicates.
LoadInv ==
  /\ active \in Seq(Names)
  /\ \A i \in 1..Len(active) : LowerOf[active[i]] = active[i]
  /\ pc = "loading" => Loaded
  /\ Done => Loaded /\ entry > Len(plugins.entries) /\ depsError = 0 /\ ~ Duplicates(active)

\* The whole of it.
StartupInv == StackInv /\ ReadingInv /\ PluginsInv /\ LoadInv

\* Nothing is read or active at the start.
LEMMA InitStartup == StartupInit => StartupInv
<1> SUFFICES ASSUME StartupInit PROVE StartupInv
  OBVIOUS
<1>1. /\ content \in Contents /\ pc = "main" /\ stack = << >> /\ plugins = Absent
      /\ active = << >>
  BY DEF StartupInit
<1>2. StackInv /\ ReadingInv
  <2>1. << >> \in Seq(Frames) /\ Len(<< >>) = 0 /\ MaxDepth \in Nat
    BY FilesAssumption
  <2> QED
    BY <1>1, <2>1 DEF StackInv, ReadingInv
<1>3. PluginsInv
  BY <1>1 DEF PluginsInv, Sections, Configured
<1>4. LoadInv
  <2>1. << >> \in Seq(Names) /\ Len(<< >>) = 0
    OBVIOUS
  <2> QED
    BY <1>1, <2>1 DEF LoadInv, Done
<1> QED
  BY <1>2, <1>3, <1>4 DEF StartupInv

\* A plugin is loaded.
LEMMA LoadPluginStep ==
  ASSUME PluginsInv, LoadInv, LoadPlugin PROVE LoadInv'
<1> DEFINE e == plugins.entries[entry]
           names == NamesOf(e)
<1>1. /\ pc' = pc /\ pc = "loading" /\ active' = active \o names /\ entry' = entry + 1
      /\ plugins' = plugins /\ depsError' = depsError
      /\ entry <= Len(plugins.entries)
  BY DEF LoadPlugin, Entry
<1>2. /\ plugins.entries \in Seq(Entries) /\ entry \in 1..Len(plugins.entries)
      /\ depsError \in Nat /\ active \in Seq(Names)
      /\ \A i \in 1..Len(active) : LowerOf[active[i]] = active[i]
      /\ depsError = 0 => \A n \in Names : Cardinality(At(active, n)) =
                            Cardinality(CalledUpTo(plugins.entries, entry - 1, n))
  <2>1. plugins.entries \in Seq(Entries)
    BY SectionFacts DEF PluginsInv
  <2>2. Len(plugins.entries) \in Nat
    BY <2>1
  <2> QED
    BY <1>1, <2>1, <2>2 DEF LoadInv, Loaded
<1>3. e \in Entries
  BY <1>2
<1> HIDE DEF e
<1>4. /\ names \in Seq(Names) /\ \A n : At(names, n) = Here(e, n)
      /\ \A i \in 1..Len(names) : LowerOf[names[i]] = names[i]
  BY <1>3, NamesOfEntry
<1> HIDE DEF names
<1>5. /\ active' \in Seq(Names)
      /\ \A i \in 1..Len(active') : LowerOf[active'[i]] = active'[i]
  <2>1. /\ active \o names \in Seq(Names) /\ Len(active \o names) = Len(active) + Len(names)
        /\ \A i \in 1..(Len(active) + Len(names)) :
             (active \o names)[i] = IF i <= Len(active) THEN active[i] ELSE names[i - Len(active)]
        /\ Len(active) \in Nat /\ Len(names) \in Nat
    BY <1>2, <1>4
  <2>2. ASSUME NEW i \in 1..(Len(active) + Len(names))
        PROVE  LowerOf[(active \o names)[i]] = (active \o names)[i]
    <3>1. CASE i <= Len(active)
      BY <1>2, <2>1, <3>1
    <3>2. CASE ~ (i <= Len(active))
      <4>1. i - Len(active) \in 1..Len(names)
        BY <2>1, <3>2
      <4> QED
        BY <1>4, <2>1, <3>2, <4>1
    <3> QED
      BY <3>1, <3>2
  <2> QED
    BY <1>1, <2>1, <2>2
<1>6. ASSUME depsError = 0, NEW n \in Names
      PROVE  Cardinality(At(active', n)) = Cardinality(CalledUpTo(plugins.entries, entry, n))
  <2>1. Cardinality(At(active \o names, n)) = Cardinality(At(active, n)) + Cardinality(Here(e, n))
    BY <1>2, <1>4, AtConcat
  <2>2. IsFiniteSet(CalledUpTo(plugins.entries, entry - 1, n))
    <3>1. entry - 1 \in 0..Len(plugins.entries)
      BY <1>2
    <3> QED
      BY <1>2, <3>1, CalledFinite
  <2>3. Cardinality(CalledUpTo(plugins.entries, entry, n)) =
          Cardinality(CalledUpTo(plugins.entries, entry - 1, n)) + Cardinality(Here(e, n))
    BY <1>2, <2>2, CalledStep DEF e
  <2> QED
    BY <1>1, <1>2, <1>6, <2>1, <2>3
<1>7. Loaded'
  <2>1. entry' \in 1..(Len(plugins.entries) + 1) /\ entry' - 1 = entry
    BY <1>1, <1>2
  <2>2. depsError' = 0 => \A n \in Names : Cardinality(At(active', n)) =
                            Cardinality(CalledUpTo(plugins.entries, entry' - 1, n))
    BY <1>1, <1>6, <2>1
  <2> QED
    BY <1>1, <1>2, <2>1, <2>2 DEF Loaded
<1> QED
  BY <1>1, <1>5, <1>7 DEF LoadInv, Done

\* A plugin whose dependencies are missing is left out, and counted.
LEMMA LoadMissingStep ==
  ASSUME PluginsInv, LoadInv, LoadMissing PROVE LoadInv'
<1>1. /\ pc' = pc /\ pc = "loading" /\ active' = active /\ entry' = entry + 1
      /\ plugins' = plugins /\ depsError' = depsError + 1
      /\ entry <= Len(plugins.entries)
  BY DEF LoadMissing
<1>2. Len(plugins.entries) \in Nat
  <2>1. plugins.entries \in Seq(Entries)
    BY SectionFacts DEF PluginsInv
  <2> QED
    BY <2>1
<1>3. entry \in Nat \ {0} /\ depsError \in Nat
  BY <1>1, <1>2 DEF LoadInv, Loaded
<1>4. entry' \in 1..(Len(plugins.entries) + 1) /\ depsError' \in Nat /\ depsError' # 0
  BY <1>1, <1>2, <1>3
<1>5. Loaded'
  BY <1>1, <1>4 DEF Loaded
<1> QED
  BY <1>1, <1>5 DEF LoadInv, Done

\* The loading begins, or begins anew.
LEMMA CallStep == ASSUME PluginsInv, LoadInv, Call PROVE LoadInv'
<1>1. /\ pc' \notin {"active", "done"} /\ entry' = 1 /\ depsError' = 0 /\ active' = << >>
      /\ plugins' = plugins
  BY DEF Call
<1>2. plugins.entries \in Seq(Entries)
  BY SectionFacts DEF PluginsInv
<1>3. /\ << >> \in Seq(Names) /\ Len(<< >>) = 0 /\ \A n : At(<< >>, n) = {}
      /\ 1 \in 1..(Len(plugins.entries) + 1)
  BY <1>2 DEF At
<1>4. \A n : CalledUpTo(plugins.entries, 1 - 1, n) = {}
  BY <1>2, CalledFinite
<1>5. Loaded'
  BY <1>1, <1>3, <1>4 DEF Loaded
<1> QED
  BY <1>1, <1>3, <1>5 DEF LoadInv, Done

\* The invariant is inductive.
LEMMA NextStartup == StartupInv /\ [StartupNext]_startupVars => StartupInv'
<1> SUFFICES ASSUME StartupInv, [StartupNext]_startupVars PROVE StartupInv'
  OBVIOUS
<1> USE DEF StartupInv
<1>0. content' = content
  BY DEF StartupNext, Thread, ReadConfig, GetAllActiveChecks, startupVars, input, Sample, Read,
         Include, ReturnToCaller, ConfigRead, RunCommand, Call, LoadUnknown, LoadMissing,
         LoadPlugin, Refuse, Accept, NextJob
<1>1. CASE Read \/ Include \/ ReturnToCaller
  <2>1. StackInv' /\ ReadingInv' /\ pc' \notin Configured
    BY <1>0, <1>1, ReadStep, IncludeStep, ReturnStep
  <2>2. plugins' = plugins /\ active' = active
    BY <1>1 DEF Read, Include, ReturnToCaller
  <2> QED
    BY <2>1, <2>2 DEF PluginsInv, LoadInv, Done, Configured
<1>2. CASE ConfigRead
  <2>1. pc' = "command" /\ active' = active
    BY <1>2 DEF ConfigRead
  <2> QED
    BY <1>0, <1>2, <2>1, ConfigReadStep DEF PluginsInv, LoadInv, Done, AllLists
<1>3. ASSUME stack' = stack, pc' # "reading", plugins' = plugins,
             pc' \in Configured => pc \in Configured, LoadInv'
      PROVE  StartupInv'
  <2>1. StackInv' /\ ReadingInv'
    BY <1>0, <1>3 DEF StackInv, ReadingInv
  <2>2. PluginsInv'
    BY <1>0, <1>3 DEF PluginsInv, AllLists
  <2> QED
    BY <1>3, <2>1, <2>2
<1>4. CASE Sample \/ RunCommand \/ LoadUnknown \/ Refuse \/ Accept \/ NextJob
  <2>1. /\ stack' = stack /\ plugins' = plugins /\ active' = active /\ entry' = entry
        /\ depsError' = depsError /\ command' = command
        /\ pc' \notin {"reading", "loading"} /\ (pc' \in Configured => pc \in Configured)
    BY <1>4 DEF Sample, RunCommand, LoadUnknown, Refuse, Accept, NextJob, input, Configured
  <2>2. Done' => Accept
    BY <1>4, <2>1 DEF Sample, RunCommand, LoadUnknown, Refuse, Accept, NextJob, Done
  <2>3. Accept => pc = "loading" /\ entry > Len(plugins.entries)
                  /\ depsError = 0 /\ ~ Duplicates(active)
    BY DEF Accept
  <2>4. Loaded => Loaded'
    BY <2>1 DEF Loaded
  <2>5. LoadInv'
    BY <2>1, <2>2, <2>3, <2>4 DEF LoadInv, Duplicates
  <2> QED
    BY <1>3, <2>1, <2>5
<1>5. CASE Call
  BY <1>3, <1>5, CallStep DEF Call, Configured
<1>6. CASE LoadMissing
  BY <1>3, <1>6, LoadMissingStep DEF LoadMissing
<1>7. CASE LoadPlugin
  BY <1>3, <1>7, LoadPluginStep DEF LoadPlugin
<1>8. CASE UNCHANGED startupVars
  <2>1. /\ stack' = stack /\ plugins' = plugins /\ active' = active /\ entry' = entry
        /\ depsError' = depsError /\ command' = command /\ pc' = pc
    BY <1>8 DEF startupVars, input
  <2>2. StackInv' /\ ReadingInv'
    BY <1>0, <2>1 DEF StackInv, ReadingInv, MergedBy, AllLists
  <2>3. PluginsInv' /\ LoadInv'
    BY <1>0, <2>1 DEF PluginsInv, LoadInv, Loaded, Done, Duplicates, AllLists
  <2> QED
    BY <2>2, <2>3
<1> QED
  BY <1>1, <1>2, <1>4, <1>5, <1>6, <1>7, <1>8
  DEF StartupNext, Thread, ReadConfig, GetAllActiveChecks

\* It holds in every reachable state.
LEMMA AlwaysStartup == StartupSpec => []StartupInv
BY InitStartup, NextStartup, PTL DEF StartupSpec

\* Two checks that a job or a command is handed never have the same name, however they are
\* written, whatever the files hold.
THEOREM NoNameTwice == StartupSpec => []NamesAreUnique
<1>1. StartupInv => NamesAreUnique
  <2> SUFFICES ASSUME StartupInv, Done, NEW i \in 1..Len(active), NEW j \in 1..Len(active),
                      i # j, LowerOf[active[i]] = LowerOf[active[j]]
               PROVE  FALSE
    BY DEF NamesAreUnique
  <2>1. active[i] = active[j]
    BY DEF StartupInv, LoadInv
  <2> QED
    BY <2>1 DEF StartupInv, LoadInv, Duplicates
<1> QED
  BY <1>1, AlwaysStartup, PTL

\* However the files include each other, each check that they ask for together is active, and
\* as often as they ask for it, once sauna accepts what they hold.
THEOREM ChecksAreNotForgotten == StartupSpec => []NothingForgotten
<1>1. StartupInv => NothingForgotten
  <2> SUFFICES ASSUME StartupInv, Done, AllLists, NEW n \in Names
               PROVE  Cardinality({i \in 1..Len(active) : active[i] = n}) =
                        Cardinality(Asked(content, Root, MaxDepth, n))
    BY DEF NothingForgotten
  <2>1. plugins.entries \in Seq(Entries)
    BY SectionFacts DEF StartupInv, PluginsInv
  <2>2. entry - 1 = Len(plugins.entries)
    <3>1. Len(plugins.entries) \in Nat
      BY <2>1
    <3> QED
      BY <3>1 DEF StartupInv, LoadInv, Loaded
  <2>3. CalledUpTo(plugins.entries, entry - 1, n) = Called(plugins.entries, n)
    BY <2>1, <2>2, CalledFinite
  <2>4. Cardinality(At(active, n)) = Cardinality(Called(plugins.entries, n))
    BY <2>3 DEF StartupInv, LoadInv, Loaded
  <2>5. Cardinality(Called(plugins.entries, n)) = Cardinality(Asked(content, Root, MaxDepth, n))
    BY DEF StartupInv, PluginsInv, Done, Configured
  <2> QED
    BY <2>4, <2>5 DEF At
<1> QED
  BY <1>1, AlwaysStartup, PTL


\* Only files that include each other in a cycle exhaust the stack of the interpreter, or as
\* many files as it can hold calls.
THEOREM OnlyCyclesExhaust ==
  StartupSpec => [](Len(stack) = MaxDepth => Cyclic \/ Cardinality(Files) >= MaxDepth)
<1>1. StartupInv => (Len(stack) = MaxDepth => Cyclic \/ Cardinality(Files) >= MaxDepth)
  <2> SUFFICES ASSUME StartupInv, Len(stack) = MaxDepth, ~ (Cardinality(Files) >= MaxDepth)
               PROVE  Cyclic
    OBVIOUS
  <2> DEFINE size == Cardinality(Files)
             fileOf == [k \in 1..(size + 1) |-> stack[k].file]
  <2>1. size \in Nat /\ MaxDepth \in Nat /\ size + 1 <= MaxDepth
    BY FilesAssumption, FS_CardinalityType
  <2>2. /\ content \in Contents
        /\ \A k \in 1..MaxDepth : IsFrame(content, stack[k])
        /\ \A k \in 1..(MaxDepth - 1) : IsCaller(content, stack[k], stack[k + 1].file)
    BY DEF StartupInv, StackInv
  <2>3. fileOf \in [1..(size + 1) -> Files]
    <3>1. \A k \in 1..(size + 1) : stack[k].file \in Files
      BY <2>1, <2>2 DEF IsFrame, Frames
    <3> QED
      BY <3>1
  <2>4. /\ IsFiniteSet(1..(size + 1)) /\ Cardinality(1..(size + 1)) = size + 1
    BY <2>1, FS_Interval
  <2> HIDE DEF fileOf
  <2>5. PICK i \in 1..(size + 1), j \in 1..(size + 1) : i # j /\ fileOf[i] = fileOf[j]
    <3>1. IsFiniteSet(Files) /\ size < Cardinality(1..(size + 1))
      BY <2>1, <2>4, FilesAssumption
    <3> QED
      BY <2>3, <2>4, <3>1, FS_PigeonHole
  <2>6. PICK a \in 1..(size + 1), b \in 1..(size + 1) : a < b /\ fileOf[a] = fileOf[b]
    <3>1. i < j \/ j < i
      BY <2>1, <2>5
    <3> QED
      BY <2>5, <3>1
  <2> DEFINE n == b - a + 1
             p == [k \in 1..n |-> fileOf[a + k - 1]]
  <2>7. n \in 2..(size + 1) /\ \A k \in 1..n : a + k - 1 \in 1..(size + 1)
    BY <2>1, <2>6
  <2>8. p \in [1..n -> Files]
    BY <2>3, <2>7
  <2>9. p[1] = p[n]
    <3>1. 1 \in 1..n /\ n \in 1..n /\ a + 1 - 1 = a /\ a + n - 1 = b
      BY <2>1, <2>7
    <3> HIDE DEF n
    <3> QED
      BY <2>6, <3>1
  <2>10. ASSUME NEW k \in 1..(n - 1)
         PROVE  \E x \in 1..Len(content[p[k]].include) : content[p[k]].include[x] = p[k + 1]
    <3> DEFINE t == a + k - 1
    <3>1. /\ k \in 1..n /\ k + 1 \in 1..n /\ t \in 1..(MaxDepth - 1) /\ t \in 1..MaxDepth
          /\ t \in 1..(size + 1) /\ t + 1 \in 1..(size + 1) /\ a + (k + 1) - 1 = t + 1
      BY <2>1, <2>7
    <3>2. p[k] = fileOf[t] /\ p[k + 1] = fileOf[t + 1]
      BY <3>1
    <3> HIDE DEF t, n, p
    <3>3. fileOf[t] = stack[t].file /\ fileOf[t + 1] = stack[t + 1].file
      BY <3>1 DEF fileOf
    <3>4. IsFrame(content, stack[t]) /\ IsCaller(content, stack[t], stack[t + 1].file)
      BY <2>2, <3>1
    <3>5. /\ Taken(content, stack[t]) \in 1..Len(content[stack[t].file].include)
          /\ stack[t + 1].file = content[stack[t].file].include[Taken(content, stack[t])]
      <4>1. Taken(content, stack[t]) # 0
        BY <3>4 DEF IsCaller
      <4>2. Taken(content, stack[t]) \in 0..Len(content[stack[t].file].include)
        BY <3>4 DEF IsFrame
      <4>3. stack[t + 1].file = content[stack[t].file].include[Taken(content, stack[t])]
        BY <3>4 DEF IsCaller
      <4> QED
        BY <4>1, <4>2, <4>3
    <3> QED
      BY <3>2, <3>3, <3>5
  <2> HIDE DEF n, p
  <2> QED
    BY <2>7, <2>8, <2>9, <2>10 DEF Cyclic
<1> QED
  BY <1>1, AlwaysStartup, PTL

-----------------------------------------------------------------------------
(* The launch and the stop.                                                *)

\* The inductive invariant.
IInv == TypeOK /\ StartedWhenListed /\ BlockedWillWake

Handler == [at : HandlerSteps, next : 1..(ConsumerCount + 1)]

-----------------------------------------------------------------------------
(* The stack of handlers.                                                  *)

\* A push leaves the handlers below where they are.
LEMMA Push ==
  ASSUME NEW s \in Seq(Handler), NEW h \in Handler
  PROVE  /\ Append(s, h) \in Seq(Handler)
         /\ Len(Append(s, h)) = Len(s) + 1
         /\ \A k \in 1..Len(s) : k \in 1..(Len(s) + 1) /\ Append(s, h)[k] = s[k]
OBVIOUS

\* A pop too.
LEMMA Pop ==
  ASSUME NEW s \in Seq(Handler), s # << >>
  PROVE  /\ Len(s) \in 1..Len(s)
         /\ SubSeq(s, 1, Len(s) - 1) \in Seq(Handler)
         /\ Len(SubSeq(s, 1, Len(s) - 1)) = Len(s) - 1
         /\ \A k \in 1..(Len(s) - 1) : SubSeq(s, 1, Len(s) - 1)[k] = s[k]
<1> DEFINE n == Len(s) - 1
           t == SubSeq(s, 1, n)
<1>1. n \in Nat /\ Len(s) = n + 1 /\ \A k \in 1..n : s[k] \in Handler
  OBVIOUS
<1> HIDE DEF n
<1>2. /\ t \in Seq(Handler)
      /\ Len(t) = IF 1 <= n THEN (n - 1) + 1 ELSE 0
      /\ \A k \in 1..((n - 1) + 1) : t[k] = s[(1 + k) - 1]
  BY <1>1, SubSeqProperties
<1> HIDE DEF t
<1>3. Len(t) = n /\ \A k \in 1..n : k \in 1..((n - 1) + 1) /\ (1 + k) - 1 = k
  BY <1>1, <1>2
<1>4. \A k \in 1..n : t[k] = s[k]
  BY <1>2, <1>3
<1> QED
  BY <1>1, <1>2, <1>3, <1>4 DEF t, n

\* The top moves and the handlers under it stay.
LEMMA Move ==
  ASSUME NEW s \in Seq(Handler), s # << >>, NEW h \in Handler
  PROVE  /\ [s EXCEPT ![Len(s)] = h] \in Seq(Handler)
         /\ Len([s EXCEPT ![Len(s)] = h]) = Len(s)
         /\ Len(s) \in 1..Len(s)
         /\ [s EXCEPT ![Len(s)] = h][Len(s)] = h
         /\ \A k \in 1..Len(s) : k # Len(s) => [s EXCEPT ![Len(s)] = h][k] = s[k]
OBVIOUS

\* A call of term_handler that begins is a handler.
LEMMA NewHandlerType == NewHandler \in Handler
BY ConsumerCountAssumption DEF NewHandler, Handler, HandlerSteps

\* The initial state.
LEMMA InitIInv == Init => IInv
<1> SUFFICES ASSUME Init PROVE IInv
  OBVIOUS
<1>1. TypeOK
  <2>1. handlers \in Seq([at : HandlerSteps, next : 1..(ConsumerCount + 1)])
    BY DEF Init
  <2>2. current \in 1..(ConsumerCount + 1) /\ signals \in 0..MaxSignals
    BY ConsumerCountAssumption, MaxSignalsAssumption DEF Init
  <2> QED
    BY <2>1, <2>2 DEF Init, TypeOK
<1>2. StartedWhenListed /\ BlockedWillWake
  BY DEF Init, StartedWhenListed, BlockedWillWake
<1> QED
  BY <1>1, <1>2 DEF IInv

-----------------------------------------------------------------------------
(* The steps of the handlers.                                              *)

\* A step of the top handler that gives its next state h.
LEMMA TopType ==
  ASSUME TypeOK, handlers # << >>
  PROVE  /\ handlers \in Seq(Handler)
         /\ Top \in Handler
         /\ \A step \in HandlerSteps : [Top EXCEPT !.at = step] \in Handler
         /\ Top.next <= ConsumerCount => [Top EXCEPT !.next = @ + 1] \in Handler
<1>1. handlers \in Seq(Handler)
  BY DEF TypeOK, Handler
<1>2. Top \in Handler
  BY <1>1 DEF Top
<1> QED
  BY <1>1, <1>2, ConsumerCountAssumption DEF Handler

\* Every step of term_handler keeps the types.
LEMMA TermHandlerTypeOK == TypeOK /\ TermHandler => TypeOK'
<1> SUFFICES ASSUME TypeOK, TermHandler PROVE TypeOK'
  OBVIOUS
<1>1. handlers # << >>
  BY DEF TermHandler, TestFlag, AcquireEvent, SetFlag, ReleaseEvent, PutEvent, HandlerReturns, AtStep
<1>2. /\ handlers \in Seq(Handler) /\ Top \in Handler
      /\ \A step \in HandlerSteps : [Top EXCEPT !.at = step] \in Handler
      /\ Top.next <= ConsumerCount => [Top EXCEPT !.next = @ + 1] \in Handler
  BY <1>1, TopType
<1>3. Return => handlers' \in Seq(Handler)
  BY <1>1, <1>2, Pop DEF Return
<1>4. ASSUME NEW h \in Handler, SetTop(h) PROVE handlers' \in Seq(Handler)
  BY <1>1, <1>2, <1>4, Move DEF SetTop
<1>5. handlers' \in Seq(Handler)
  <2>1. CASE TestFlag
    BY <1>2, <1>3, <1>4, <2>1 DEF TestFlag, HandlerSteps
  <2>2. CASE AcquireEvent
    BY <1>2, <1>4, <2>2 DEF AcquireEvent, HandlerSteps
  <2>3. CASE SetFlag
    BY <1>2, <1>4, <2>3 DEF SetFlag, HandlerSteps
  <2>4. CASE ReleaseEvent
    BY <1>2, <1>4, <2>4 DEF ReleaseEvent, HandlerSteps
  <2>5. CASE PutEvent
    <3>1. Top.next <= ConsumerCount
      BY <1>2, <2>5, ConsumerCountAssumption DEF PutEvent, SentToAll, Handler
    <3> QED
      BY <1>2, <1>4, <2>5, <3>1 DEF PutEvent
  <2>6. CASE HandlerReturns
    BY <1>3, <2>6 DEF HandlerReturns
  <2> QED
    BY <2>1, <2>2, <2>3, <2>4, <2>5, <2>6 DEF TermHandler
<1>6. /\ mustStop' \in BOOLEAN /\ eventLock' \in BOOLEAN
      /\ marks' \in [Consumer -> Nat]
      /\ UNCHANGED <<configVars, mainVars, signals, listed, consumer, producer>>
  <2>1. CASE TestFlag \/ AcquireEvent \/ SetFlag \/ ReleaseEvent \/ HandlerReturns
    BY <2>1 DEF TestFlag, AcquireEvent, SetFlag, ReleaseEvent, HandlerReturns, TypeOK
  <2>2. CASE PutEvent
    BY <2>2 DEF PutEvent, TypeOK
  <2> QED
    BY <2>1, <2>2 DEF TermHandler
<1> QED
  BY <1>5, <1>6 DEF TypeOK, Handler, configVars, mainVars

\* A step of term_handler keeps the promise made to the blocked consumers.
LEMMA TermHandlerBlocked == IInv /\ TermHandler => BlockedWillWake'
<1> SUFFICES ASSUME IInv, TermHandler PROVE BlockedWillWake'
  OBVIOUS
<1>1. handlers # << >>
  BY DEF TermHandler, TestFlag, AcquireEvent, SetFlag, ReleaseEvent, PutEvent, HandlerReturns, AtStep
<1>2. /\ handlers \in Seq(Handler) /\ Top \in Handler
      /\ \A step \in HandlerSteps : [Top EXCEPT !.at = step] \in Handler
      /\ Top.next <= ConsumerCount => [Top EXCEPT !.next = @ + 1] \in Handler
  BY <1>1, TopType DEF IInv
<1>3. Top.at # "send" => Top.next = 1
  BY <1>1, <1>2, Pop DEF Top, IInv, BlockedWillWake
<1>4. /\ marks \in [Consumer -> Nat] /\ consumer' = consumer
      /\ \A c \in Consumer : consumer[c] = "blocked" => c \in listed /\ c \in 1..ConsumerCount
  <2>1. consumer' = consumer
    BY DEF TermHandler, TestFlag, AcquireEvent, SetFlag, ReleaseEvent, PutEvent, HandlerReturns
  <2> QED
    BY <2>1 DEF IInv, TypeOK, StartedWhenListed, Consumer
\* A handler that returns visits no queue any more; the others stay.
<1>5. ASSUME Return
      PROVE  /\ \A k \in 1..Len(handlers') : handlers'[k].at # "send" => handlers'[k].next = 1
             /\ \A c \in Consumer : EventOnItsWay(c) => EventOnItsWay(c)' \/ WillVisit(Top, c)
  <2>1. /\ Len(handlers') = Len(handlers) - 1 /\ Len(handlers) \in Nat
        /\ \A k \in 1..(Len(handlers) - 1) : handlers'[k] = handlers[k]
    BY <1>1, <1>2, <1>5, Pop DEF Return
  <2>2. \A k \in 1..Len(handlers) : k = Len(handlers) \/ k \in 1..(Len(handlers) - 1)
    BY <2>1
  <2>3. \A k \in 1..Len(handlers') : k \in 1..Len(handlers) /\ handlers'[k] = handlers[k]
    BY <2>1
  <2> QED
    BY <2>1, <2>2, <2>3 DEF EventOnItsWay, Top, IInv, BlockedWillWake
\* A handler that moves may break its own promise, not those of the others.
<1>6. ASSUME NEW h \in Handler, SetTop(h), h.at # "send" => h.next = 1
      PROVE  /\ \A k \in 1..Len(handlers') : handlers'[k].at # "send" => handlers'[k].next = 1
             /\ \A c \in Consumer : EventOnItsWay(c) => EventOnItsWay(c)' \/ WillVisit(Top, c)
             /\ \A c \in Consumer : WillVisit(h, c) => EventOnItsWay(c)'
  <2>1. /\ Len(handlers') = Len(handlers) /\ Len(handlers) \in 1..Len(handlers)
        /\ handlers'[Len(handlers)] = h
        /\ \A k \in 1..Len(handlers) : k # Len(handlers) => handlers'[k] = handlers[k]
    BY <1>1, <1>2, <1>6, Move DEF SetTop
  <2>2. \A k \in 1..Len(handlers') : handlers'[k].at # "send" => handlers'[k].next = 1
    BY <1>6, <2>1 DEF IInv, BlockedWillWake
  <2>3. \A c \in Consumer : WillVisit(h, c) => EventOnItsWay(c)'
    BY <2>1 DEF EventOnItsWay
  <2>4. \A c \in Consumer : EventOnItsWay(c) => EventOnItsWay(c)' \/ WillVisit(Top, c)
    BY <2>1 DEF EventOnItsWay, Top
  <2> QED
    BY <2>2, <2>3, <2>4
<1>7. CASE TestFlag /\ mustStop
  <2>1. marks' = marks /\ mustStop' = mustStop /\ Top.at = "test" /\ Return
    BY <1>7 DEF TestFlag, AtStep
  <2>2. \A c \in Consumer : ~ WillVisit(Top, c)
    BY <2>1 DEF WillVisit
  <2> QED
    BY <1>4, <1>5, <1>7, <2>1, <2>2 DEF IInv, BlockedWillWake
<1>8. CASE TestFlag /\ ~ mustStop
  <2> DEFINE h == [Top EXCEPT !.at = "acquire"]
  <2>1. ~ mustStop' /\ Top.at = "test" /\ SetTop(h)
    BY <1>8 DEF TestFlag, AtStep
  <2>2. h \in Handler /\ h.next = 1
    BY <1>2, <1>3, <2>1 DEF HandlerSteps, Handler
  <2> HIDE DEF h
  <2> QED
    BY <1>6, <2>1, <2>2 DEF BlockedWillWake
<1>9. CASE AcquireEvent
  <2> DEFINE h == [Top EXCEPT !.at = "flag"]
  <2>1. marks' = marks /\ mustStop' = mustStop /\ Top.at = "acquire" /\ SetTop(h)
    BY <1>9 DEF AcquireEvent, AtStep
  <2>2. h \in Handler /\ h.next = 1
    BY <1>2, <1>3, <2>1 DEF HandlerSteps, Handler
  <2>3. \A c \in Consumer : ~ WillVisit(Top, c)
    BY <2>1 DEF WillVisit
  <2> HIDE DEF h
  <2> QED
    BY <1>4, <1>6, <2>1, <2>2, <2>3 DEF IInv, BlockedWillWake
<1>10. CASE SetFlag
  <2> DEFINE h == [Top EXCEPT !.at = "release"]
  <2>1. Top.at = "flag" /\ SetTop(h)
    BY <1>10 DEF SetFlag, AtStep
  <2>2. h \in Handler /\ h.next = 1 /\ h.at = "release"
    BY <1>2, <1>3, <2>1 DEF HandlerSteps, Handler
  <2>3. \A c \in Consumer : WillVisit(h, c)
    BY <2>2 DEF WillVisit
  <2> HIDE DEF h
  <2> QED
    BY <1>6, <2>1, <2>2, <2>3 DEF BlockedWillWake
<1>11. CASE ReleaseEvent
  <2> DEFINE h == [Top EXCEPT !.at = "send"]
  <2>1. marks' = marks /\ mustStop' = mustStop /\ Top.at = "release" /\ SetTop(h)
    BY <1>11 DEF ReleaseEvent, AtStep
  <2>2. h \in Handler /\ h.next = 1 /\ h.at = "send"
    BY <1>2, <1>3, <2>1 DEF HandlerSteps, Handler
  <2>3. \A c \in Consumer : WillVisit(h, c)
    BY <2>2 DEF WillVisit, Consumer
  <2> HIDE DEF h
  <2> QED
    BY <1>4, <1>6, <2>1, <2>2, <2>3 DEF IInv, BlockedWillWake
<1>12. CASE PutEvent
  <2> DEFINE h == [Top EXCEPT !.next = @ + 1]
  <2>1. /\ mustStop' = mustStop /\ Top.at = "send" /\ SetTop(h)
        /\ \A c \in Consumer : marks'[c] = IF c \in listed /\ c = Top.next THEN marks[c] + 1 ELSE marks[c]
        /\ Top.next \in 1..ConsumerCount
    BY <1>2, <1>12, ConsumerCountAssumption DEF PutEvent, AtStep, SentToAll, Handler
  <2>2. h \in Handler /\ h.at = "send" /\ h.next = Top.next + 1
    BY <1>2, <2>1, ConsumerCountAssumption DEF HandlerSteps, Handler
  <2>3. \A c \in Consumer : c # Top.next /\ WillVisit(Top, c) => WillVisit(h, c)
    BY <2>1, <2>2, ConsumerCountAssumption DEF WillVisit, Consumer
  <2> HIDE DEF h
  <2>4. ASSUME NEW c \in Consumer, mustStop, consumer[c] = "blocked"
        PROVE  marks'[c] > 0 \/ EventOnItsWay(c)'
    <3>1. marks[c] > 0 \/ EventOnItsWay(c)
      BY <2>4 DEF IInv, BlockedWillWake
    <3>2. CASE c = Top.next
      BY <1>4, <2>1, <2>4, <3>2
    <3>3. CASE c # Top.next
      BY <1>6, <2>1, <2>2, <2>3, <3>1, <3>3
    <3> QED
      BY <3>2, <3>3
  <2> QED
    BY <1>4, <1>6, <2>1, <2>2, <2>4 DEF BlockedWillWake
<1>13. CASE HandlerReturns
  <2>1. /\ marks' = marks /\ mustStop' = mustStop
        /\ Return /\ Top.at = "send" /\ Top.next > ConsumerCount
    BY <1>13 DEF HandlerReturns, AtStep, SentToAll
  <2>2. \A c \in Consumer : ~ WillVisit(Top, c)
    BY <1>2, <2>1, ConsumerCountAssumption DEF WillVisit, Consumer, Handler
  <2> QED
    BY <1>4, <1>5, <2>1, <2>2 DEF IInv, BlockedWillWake
<1> QED
  BY <1>7, <1>8, <1>9, <1>10, <1>11, <1>12, <1>13 DEF TermHandler

-----------------------------------------------------------------------------
(* The other steps.                                                        *)

\* A handler pushed by a signal or by launch() breaks no promise.
LEMMA PushBlocked ==
  ASSUME IInv, handlers' = Append(handlers, NewHandler),
         UNCHANGED <<mustStop, marks, consumer>>
  PROVE  BlockedWillWake' /\ handlers' \in Seq(Handler)
<1>1. handlers \in Seq(Handler)
  BY DEF IInv, TypeOK, Handler
<1>2. /\ handlers' \in Seq(Handler)
      /\ Len(handlers') = Len(handlers) + 1 /\ Len(handlers) \in Nat
      /\ \A k \in 1..Len(handlers) : k \in 1..Len(handlers') /\ handlers'[k] = handlers[k]
      /\ handlers'[Len(handlers) + 1] = NewHandler
  BY <1>1, NewHandlerType, Push
<1>3. \A k \in 1..Len(handlers') : k = Len(handlers) + 1 \/ k \in 1..Len(handlers)
  BY <1>2
<1>4. \A c \in Consumer : EventOnItsWay(c) => EventOnItsWay(c)'
  BY <1>2 DEF EventOnItsWay
<1>5. NewHandler.next = 1
  BY DEF NewHandler
<1> QED
  BY <1>2, <1>3, <1>4, <1>5 DEF IInv, BlockedWillWake

\* Every step keeps IInv.
LEMMA NextIInv == IInv /\ [Next]_vars => IInv'
<1> SUFFICES ASSUME IInv, [Next]_vars PROVE IInv'
  OBVIOUS
<1> USE ConsumerCountAssumption, MaxSignalsAssumption
<1>1. CASE FindConsumer \/ UnknownConsumer
  BY <1>1 DEF FindConsumer, UnknownConsumer, InLaunch, configVars, stopVars, WillVisit,
              IInv, TypeOK, StartedWhenListed, BlockedWillWake, EventOnItsWay
<1>2. CASE MissingDependency \/ ProducerJoined
  <2>1. handlers' = Append(handlers, NewHandler) /\ UNCHANGED <<mustStop, marks, consumer>>
    <3>1. Append(<< >>, NewHandler) = << NewHandler >>
      OBVIOUS
    <3> QED
      BY <1>2, <3>1 DEF MissingDependency, ProducerJoined, HandlersAfterJoin, InLaunch
  <2>2. BlockedWillWake' /\ handlers' \in Seq(Handler)
    BY <2>1, PushBlocked
  <2> QED
    BY <1>2, <2>2 DEF MissingDependency, ProducerJoined, InLaunch, configVars, Handler,
                      IInv, TypeOK, StartedWhenListed
<1>3. CASE Construct
  BY <1>3 DEF Construct, NextStep, StepAfter, InLaunch, configVars, stopVars,
              IInv, TypeOK, StartedWhenListed, BlockedWillWake, EventOnItsWay, WillVisit
<1>4. CASE ListQueue
  BY <1>4 DEF ListQueue, NextStep, StepAfter, InLaunch, configVars, stopVars, Consumer,
              IInv, TypeOK, StartedWhenListed, BlockedWillWake, EventOnItsWay, WillVisit
<1>5. CASE StartConsumer
  BY <1>5 DEF StartConsumer, NextStep, StepAfter, InLaunch, configVars, stopVars, Consumer,
              IInv, TypeOK, StartedWhenListed, BlockedWillWake, EventOnItsWay, WillVisit
<1>6. CASE StartProducer \/ ConsumersJoined
  BY <1>6 DEF StartProducer, ConsumersJoined, InLaunch, configVars, stopVars,
              IInv, TypeOK, StartedWhenListed, BlockedWillWake, EventOnItsWay, WillVisit
<1>7. CASE Signal
  <2>1. BlockedWillWake' /\ handlers' \in Seq(Handler)
    BY <1>7, PushBlocked DEF Signal
  <2> QED
    BY <1>7, <2>1 DEF Signal, configVars, mainVars, Handler, IInv, TypeOK, StartedWhenListed
<1>8. CASE TermHandler
  <2>1. UNCHANGED <<configVars, mainVars, listed, consumer>>
    BY <1>8 DEF TermHandler, TestFlag, AcquireEvent, SetFlag, ReleaseEvent, PutEvent, HandlerReturns
  <2>2. StartedWhenListed'
    BY <2>1 DEF configVars, mainVars, IInv, StartedWhenListed
  <2> QED
    BY <1>8, <2>2, TermHandlerTypeOK, TermHandlerBlocked DEF IInv
<1>9. ASSUME NEW c \in Consumer, RunConsumer(c) PROVE IInv'
  <2> USE DEF ConsumerMoves, configVars, mainVars
  <2>1. /\ UNCHANGED <<configVars, mainVars, handlers, signals, mustStop, eventLock, listed, producer>>
        /\ marks' \in [Consumer -> Nat]
        /\ \E to \in {"loop", "blocked", "done"} : consumer' = [consumer EXCEPT ![c] = to]
        /\ consumer[c] # "absent"
        /\ \A d \in Consumer : marks'[d] # marks[d] => d = c
        /\ consumer'[c] = "blocked" => kind[c] = "queued" /\ ~ mustStop
    <3>0. marks \in [Consumer -> Nat] /\ consumer \in [Consumer -> {"absent", "loop", "blocked", "done"}]
      BY DEF IInv, TypeOK
    <3>1. CASE ConsumerStops(c)
      BY <3>0, <3>1 DEF ConsumerStops
    <3>2. CASE ConsumerBlocks(c)
      BY <3>0, <3>2 DEF ConsumerBlocks, MayBlock
    <3>3. CASE ConsumerGetsEvent(c)
      <4>1. marks' \in [Consumer -> Nat]
        BY <3>0, <3>3 DEF ConsumerGetsEvent
      <4> QED
        BY <3>0, <3>3, <4>1 DEF ConsumerGetsEvent
    <3>4. CASE ConsumerGetsCheck(c)
      BY <3>0, <3>4 DEF ConsumerGetsCheck
    <3>5. CASE ServerFails(c)
      BY <3>0, <3>5 DEF ServerFails
    <3> QED
      BY <1>9, <3>1, <3>2, <3>3, <3>4, <3>5 DEF RunConsumer
  <2>2. TypeOK'
    BY <2>1 DEF IInv, TypeOK
  <2>3. StartedWhenListed'
    BY <2>1 DEF IInv, TypeOK, StartedWhenListed
  <2>4. \A d \in Consumer : EventOnItsWay(d)' <=> EventOnItsWay(d)
    BY <2>1 DEF EventOnItsWay
  <2>5. BlockedWillWake'
    BY <2>1, <2>4 DEF IInv, TypeOK, BlockedWillWake
  <2> QED
    BY <2>2, <2>3, <2>5 DEF IInv
<1>10. CASE RunProducer
  <2>1. /\ UNCHANGED <<configVars, mainVars, stopVars, listed, consumer>>
        /\ producer' \in {"absent", "working", "waiting", "done"}
    BY <1>10 DEF RunProducer, ProducerWaits, ProducerWakes, ProducerStops, ProducerFails, ProducerMoves
  <2> QED
    BY <2>1 DEF configVars, mainVars, stopVars, IInv, TypeOK, StartedWhenListed, BlockedWillWake,
                EventOnItsWay, WillVisit
<1>11. CASE UNCHANGED vars
  BY <1>11 DEF vars, configVars, mainVars, stopVars, IInv, TypeOK, StartedWhenListed, BlockedWillWake,
               EventOnItsWay, WillVisit
<1> QED
  BY <1>1, <1>2, <1>3, <1>4, <1>5, <1>6, <1>7, <1>8, <1>9, <1>10, <1>11 DEF Next, Launch

-----------------------------------------------------------------------------
\* IInv holds in every reachable state.
THEOREM InductiveInvariant == Spec => []IInv
BY InitIInv, NextIInv, PTL DEF Spec

\* The types of the variables, for every number of consumers and signals.
THEOREM TypeCorrect == Spec => []TypeOK
BY InductiveInvariant, PTL DEF IInv

\* When the program stops, every consumer that is blocked on its queue has the Event
\* in it, whatever the signals interrupted: no wake-up is lost.
THEOREM NoLostWakeup == Spec => []NobodyLeftBlocked
<1>1. IInv => NobodyLeftBlocked
  BY DEF IInv, BlockedWillWake, EventOnItsWay, NobodyLeftBlocked
<1> QED
  BY <1>1, InductiveInvariant, PTL
=============================================================================
