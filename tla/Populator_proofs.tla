--------------------------- MODULE Populator_proofs ----------------------------
(***************************************************************************)
(* Proofs about the population of the database, for any number of entities *)
(* and any references among them: a file is stored as a whole or not at    *)
(* all, and a population that ends well has stored what it was asked for.  *)
(***************************************************************************)
EXTENDS Populator, FiniteSetTheorems, TLAPS

File == {"initial", "sample"}

LEMMA FileFacts ==
  /\ \A f \in File : Length(f) \in Nat /\ Contents(f) \subseteq Entity
  /\ Contents("initial") = Initial /\ Contents("sample") = Sample
<1>1. \A f \in File : Contents(f) \subseteq Entity /\ IsFiniteSet(Contents(f))
  BY PopulatorAssumption DEF File, Contents, Entity
<1>2. \A f \in File : Length(f) \in Nat
  BY <1>1, FS_CardinalityType DEF Length
<1>3. QED BY <1>1, <1>2 DEF Contents

\* When every entity of the list has been persisted, the file has been.
LEMMA AllIsStored ==
  ASSUME TypeOK, Listed, persisted = Length(file)
  PROVE  Stored = Contents(file)
BY DEF TypeOK, Listed, Stored

\* An order in which a file may be read lists it.
LEMMA OrderFacts ==
  ASSUME NEW f \in File, NEW l \in Orders(f)
  PROVE  /\ l \in [1 .. Length(f) -> Contents(f)]
         /\ \A e \in Contents(f) : \E i \in 1 .. Length(f) : l[i] = e
BY DEF Orders

-----------------------------------------------------------------------------
(***************************************************************************)
(* The invariant is inductive.                                             *)
(***************************************************************************)

LEMMA InitHolds == Init => IInv
<1> SUFFICES ASSUME Init PROVE IInv
  OBVIOUS
<1>1. TypeOK
  <2>1. needs \in [Entity -> SUBSET Entity]
    BY DEF Init, Entity
  <2>2. list \in [1 .. Length("initial") -> Contents("initial")]
    BY OrderFacts DEF Init, File
  <2>3. Length("initial") \in Nat
    BY FileFacts DEF File
  <2>4. /\ database \subseteq Entity /\ sample \in BOOLEAN /\ swallowed \in BOOLEAN
        /\ file = "initial" /\ at = "idle" /\ outcome = "none"
        /\ attempts = 0 /\ persisted = 0
    BY DEF Init
  <2>5. QED BY <2>1, <2>2, <2>3, <2>4 DEF TypeOK
<1>2. Listed
  BY OrderFacts DEF Init, Listed, File
<1>3. QED
  BY <1>1, <1>2 DEF Init, IInv, AllOrNothing, DoneMeansStored, Rest

LEMMA PopulateKeeps ==
  ASSUME IInv, NEW all \in BOOLEAN, Populate(all)
  PROVE  IInv'
<1>1. TypeOK'
  <2>1. list' \in [1 .. Length("initial") -> Contents("initial")]
    BY OrderFacts DEF Populate, File
  <2>2. Length("initial") \in Nat
    BY FileFacts DEF File
  <2>3. /\ database' = {} /\ sample' \in BOOLEAN /\ swallowed' \in BOOLEAN
        /\ file' = "initial" /\ at' = "open" /\ outcome' = "none"
        /\ attempts' = 0 /\ persisted' = 0 /\ needs' = needs
    BY DEF Populate
  <2>4. needs \in [Entity -> SUBSET Entity]
    BY DEF IInv, TypeOK
  <2>5. QED BY <2>1, <2>2, <2>3, <2>4 DEF TypeOK
<1>2. Listed'
  BY OrderFacts DEF Populate, Listed, File
<1>3. QED
  BY <1>1, <1>2 DEF Populate, IInv, AllOrNothing, DoneMeansStored, Rest

LEMMA NextFileKeeps ==
  ASSUME IInv, NextFile
  PROVE  IInv'
<1>1. TypeOK'
  BY FileFacts, OrderFacts DEF NextFile, IInv, TypeOK, File
<1>2. Listed'
  BY OrderFacts DEF NextFile, Listed, File
<1>3. AllOrNothing' /\ DoneMeansStored'
  BY DEF NextFile, IInv, AllOrNothing, DoneMeansStored, Rest
<1>4. Rest'
  BY FileFacts DEF NextFile, IInv, Rest, File
<1>5. QED BY <1>1, <1>2, <1>3, <1>4 DEF IInv

LEMMA DeferKeeps ==
  ASSUME IInv, Defer
  PROVE  IInv'
<1>1. /\ Length(file) \in Nat /\ persisted + 1 \in 1 .. Length(file)
      /\ list \in [1 .. Length(file) -> Contents(file)]
  BY FileFacts DEF IInv, TypeOK, Defer, File
<1>2. list' = Deferred(list, persisted + 1) /\ UNCHANGED file
  BY DEF Defer
<1>3. list' \in [1 .. Length(file) -> Contents(file)]
  BY <1>1, <1>2 DEF Deferred
<1>4. TypeOK'
  BY <1>2, <1>3 DEF Defer, IInv, TypeOK
<1>5. Listed'
  <2> SUFFICES ASSUME NEW e \in Contents(file)
               PROVE  \E j \in 1 .. Length(file) : list'[j] = e
    BY <1>2 DEF Listed
  <2>1. PICK i \in 1 .. Length(file) : list[i] = e
    BY DEF IInv, Listed
  <2>2. PICK n \in Nat : n = Length(file)
    BY <1>1
  <2>3. PICK k \in 1 .. n : k = persisted + 1
    BY <1>1, <2>2
  <2>4. DOMAIN list = 1 .. n /\ i \in 1 .. n
    BY <1>1, <2>2
  <2>5. list' = [j \in 1 .. n |->
                   IF j < k THEN list[j]
                   ELSE IF j + 1 \in 1 .. n THEN list[j + 1] ELSE list[k]]
    BY <1>2, <2>3, <2>4 DEF Deferred
  <2>6. \E j \in 1 .. n : list'[j] = e
    <3>1. CASE i < k
      BY <2>1, <2>4, <2>5, <3>1
    <3>2. CASE i = k
      <4>1. n \in 1 .. n /\ n + 1 \notin 1 .. n /\ ~(n < k)
        BY <2>3
      <4>2. list'[n] = list[k]
        BY <2>5, <4>1
      <4>3. QED BY <2>1, <3>2, <4>1, <4>2
    <3>3. CASE i > k
      <4>1. PICK m \in 1 .. n : ~(m < k) /\ m + 1 = i
        BY <2>4, <3>3
      <4>2. list'[m] = list[i]
        BY <2>4, <2>5, <4>1
      <4>3. QED BY <2>1, <4>2
    <3>4. QED BY <2>4, <3>1, <3>2, <3>3
  <2>7. QED BY <2>2, <2>6
<1>6. AllOrNothing' /\ DoneMeansStored' /\ Rest'
  BY DEF Defer, IInv, AllOrNothing, DoneMeansStored, Rest
<1>7. QED BY <1>4, <1>5, <1>6 DEF IInv

LEMMA CommitKeeps ==
  ASSUME IInv, Commit
  PROVE  IInv'
<1>1. Stored = Contents(file) /\ file \in File /\ outcome = "none"
  BY AllIsStored DEF IInv, Commit, TypeOK, Rest, File
<1>2. /\ \/ database' = database \cup Contents(file) /\ UNCHANGED swallowed
         \/ swallowed' = TRUE /\ UNCHANGED database
      /\ at' = "next"
      /\ UNCHANGED <<needs, sample, file, list, attempts, persisted, outcome>>
  BY <1>1 DEF Commit
<1>3. TypeOK' /\ Listed'
  BY <1>1, <1>2, FileFacts DEF IInv, TypeOK, Listed
<1>4. AllOrNothing'
  BY <1>1, <1>2, FileFacts, PopulatorAssumption DEF IInv, AllOrNothing, File
<1>5. DoneMeansStored'
  BY <1>1, <1>2 DEF DoneMeansStored
<1>6. Rest'
  BY <1>1, <1>2, FileFacts, PopulatorAssumption DEF IInv, Rest, File
<1>7. QED BY <1>3, <1>4, <1>5, <1>6 DEF IInv

LEMMA DoneKeeps ==
  ASSUME IInv, Done
  PROVE  IInv'
<1>1. TypeOK' /\ Listed' /\ AllOrNothing' /\ Rest'
  BY DEF Done, Ended, IInv, TypeOK, Listed, AllOrNothing, Rest
<1>2. DoneMeansStored'
  BY FileFacts
  DEF Done, Ended, IInv, TypeOK, Rest, DoneMeansStored, Entity, File
<1>3. QED BY <1>1, <1>2 DEF IInv

\* The other steps change neither the database nor the file.
LEMMA OthersKeep ==
  ASSUME IInv, Open \/ Try \/ GiveUp \/ Persist \/ Rollback \/ Fail
  PROVE  IInv'
<1>1. UNCHANGED <<needs, database, sample, file, list, swallowed>>
  BY DEF Open, Try, GiveUp, Persist, Rollback, Fail
<1>2. /\ attempts' \in 0 .. Length(file) /\ persisted' \in 0 .. Length(file)
      /\ outcome' \in {"none", "unsorted", "thrown"}
      /\ at' \in {"idle", "try", "persist", "next"}
  BY FileFacts
  DEF Open, Try, MayTry, GiveUp, Persist, Rollback, Fail, Ended, IInv, TypeOK,
      Rest, File
<1>3. TypeOK' /\ Listed' /\ AllOrNothing' /\ DoneMeansStored'
  BY <1>1, <1>2 DEF IInv, TypeOK, Listed, AllOrNothing, DoneMeansStored
<1>4. Rest'
  BY <1>1
  DEF Open, Try, GiveUp, Persist, Rollback, Fail, Ended, IInv, Rest, TypeOK
<1>5. QED BY <1>3, <1>4 DEF IInv

THEOREM Inductive == Spec => []IInv
<1>1. IInv /\ [Next]_vars => IInv'
  <2>1. IInv /\ UNCHANGED vars => IInv'
    BY DEF vars, IInv, TypeOK, Listed, AllOrNothing, DoneMeansStored, Rest
  <2>2. QED
    BY <2>1, PopulateKeeps, NextFileKeeps, DeferKeeps, CommitKeeps, DoneKeeps,
       OthersKeep
    DEF Next, Step
<1>2. QED BY <1>1, InitHolds, PTL DEF Spec

\* Every variable keeps its type; the attempts are bounded by the entities.
THEOREM TypeCorrect == Spec => []TypeOK
<1>1. IInv => TypeOK
  BY DEF IInv
<1>2. QED BY <1>1, Inductive, PTL

\* No file is stored in part, whatever throws and whenever.
THEOREM FilesAreAtomic == Spec => []AllOrNothing
<1>1. IInv => AllOrNothing
  BY DEF IInv
<1>2. QED BY <1>1, Inductive, PTL

\* A population that ends well has stored every entity.
THEOREM DoneIsStored == Spec => []DoneMeansStored
<1>1. IInv => DoneMeansStored
  BY DEF IInv
<1>2. QED BY <1>1, Inductive, PTL

\* Sample data are never stored without the initial data.
THEOREM SampleComesSecond == Spec => []SampleNeedsInitial
<1>1. IInv => SampleNeedsInitial
  BY DEF IInv, TypeOK, Rest, SampleNeedsInitial
<1>2. QED BY <1>1, Inductive, PTL

-----------------------------------------------------------------------------
(***************************************************************************)
(* One level of references is always sorted.                               *)
(***************************************************************************)

\* What a file lists is in the file, and so is what its entities refer to.
LEMMA OwnReferences ==
  ASSUME IInv, Sorting, NEW i \in 1 .. Length(file), NEW d \in needs[list[i]]
  PROVE  \E k \in 1 .. Length(file) : list[k] = d
<1>1. file \in File /\ list[i] \in Contents(file)
  BY DEF IInv, TypeOK, File
<1>2. d \in Contents(file)
  BY <1>1 DEF Sorting, Contents
<1>3. QED BY <1>2 DEF IInv, Listed

\* When as many attempts have failed as there are entities, all of them refer
\* to others, and those they refer to do not: there are none.
LEMMA AttemptsSuffice ==
  ASSUME IInv, Sorting, OneLevel, GiveUp
  PROVE  FALSE
<1>1. PICK n \in Nat : n = Length(file)
  BY FileFacts DEF IInv, TypeOK, File
<1>2. attempts = n /\ LastRefer(n)
  <2>1. attempts \in 0 .. n /\ ~(attempts < n)
    BY <1>1 DEF IInv, TypeOK, GiveUp, MayTry
  <2>2. attempts = n
    BY <2>1
  <2>3. QED BY <2>2 DEF Sorting, GiveUp
<1>3. \A j \in 1 .. n : needs[list[j]] # {}
  BY <1>1, <1>2 DEF LastRefer
<1>4. PICK i \in 1 .. n : TRUE
  <2>1. PICK e \in Contents(file) : TRUE
    BY DEF Sorting, GiveUp
  <2>2. QED BY <1>1, <2>1 DEF IInv, Listed
<1>5. PICK d \in needs[list[i]] : TRUE
  BY <1>3
<1>6. PICK k \in 1 .. n : list[k] = d
  BY <1>1, OwnReferences
<1>7. list[i] \in Contents(file)
  BY <1>1 DEF IInv, TypeOK
<1>8. needs[d] = {}
  BY <1>7 DEF OneLevel
<1>9. QED BY <1>3, <1>6, <1>8

\* An entity that is refused stands before one without references, so that it
\* moves behind all of these.
LEMMA DeferSorts ==
  ASSUME IInv, Sorting, OneLevel, Defer
  PROVE  LastRefer(attempts)'
<1>1. PICK n \in Nat : n = Length(file)
  BY FileFacts DEF IInv, TypeOK, File
<1>2. PICK p \in 1 .. n : p = persisted + 1
  BY <1>1 DEF IInv, TypeOK, Defer
<1>3. PICK a \in Nat : attempts = a + 1
  <2>1. attempts \in Nat /\ attempts > 0
    BY <1>1 DEF IInv, TypeOK, Sorting, Defer
  <2>2. attempts - 1 \in Nat /\ attempts = (attempts - 1) + 1
    BY <2>1
  <2>3. QED BY <2>2
<1>4. list \in [1 .. n -> Contents(file)]
  BY <1>1 DEF IInv, TypeOK
<1>5. \A j \in 1 .. n : j > n - a => needs[list[j]] # {}
  <2>1. LastRefer(attempts - 1) /\ attempts - 1 = a
    BY <1>3 DEF Sorting, Defer
  <2>2. QED BY <1>1, <2>1 DEF LastRefer
<1>6. PICK d \in needs[list[p]] : d \notin Stored
  BY <1>2 DEF Defer, Refused
<1>7. needs[d] = {}
  BY <1>4, <1>6 DEF OneLevel
<1>8. PICK i \in 1 .. n : list[i] = d
  BY <1>1, <1>6, OwnReferences
<1>9. i =< n - a
  BY <1>5, <1>7, <1>8
<1>10. p < i
  <2>1. ~(i =< persisted)
    BY <1>6, <1>8, <1>2, <1>1 DEF Stored, IInv, TypeOK
  <2>2. i # p
    BY <1>6, <1>7, <1>8
  <2>3. QED BY <1>1, <1>2, <2>1, <2>2 DEF IInv, TypeOK
<1>11. list' = [j \in 1 .. n |->
                  IF j < p THEN list[j]
                  ELSE IF j + 1 \in 1 .. n THEN list[j + 1] ELSE list[p]]
  BY <1>2, <1>4 DEF Defer, Deferred
<1>12. \A j \in 1 .. n : j > n - (a + 1) => needs[list'[j]] # {}
  <2> SUFFICES ASSUME NEW j \in 1 .. n, j > n - (a + 1)
               PROVE  needs[list'[j]] # {}
    OBVIOUS
  <2>1. ~(j < p)
    BY <1>9, <1>10
  <2>2. CASE j + 1 \in 1 .. n
    <3>1. needs[list[j + 1]] # {}
      BY <2>2, <1>5
    <3>2. QED BY <1>11, <2>1, <2>2, <3>1
  <2>3. CASE j + 1 \notin 1 .. n
    BY <1>11, <2>1, <2>3, <1>6
  <2>4. QED BY <2>2, <2>3
<1>13. needs' = needs /\ Length(file)' = n /\ attempts' = a + 1
  BY <1>1, <1>3 DEF Defer
<1>14. QED BY <1>12, <1>13 DEF LastRefer

LEMMA SortingKept ==
  ASSUME IInv, Sorting, [Next]_vars
  PROVE  Sorting'
<1>1. CASE UNCHANGED vars
  BY <1>1 DEF vars, Sorting, OneLevel, LastRefer
<1>2. ASSUME NEW all \in BOOLEAN, Populate(all) PROVE Sorting'
  BY <1>2 DEF Populate, Sorting
<1>3. CASE Open
  <2>1. Length(file) \in Nat
    BY FileFacts DEF IInv, TypeOK, File
  <2>2. LastRefer(0)
    BY <2>1 DEF LastRefer
  <2>3. attempts = 0 /\ outcome = "none"
    BY <1>3 DEF Open, Sorting, IInv, Rest
  <2>4. QED BY <1>3, <2>2, <2>3 DEF Open, Sorting, OneLevel, LastRefer
<1>4. CASE Try
  <2>1. attempts \in Nat /\ attempts' = attempts + 1 /\ attempts' - 1 = attempts
    BY <1>4, FileFacts DEF Try, IInv, TypeOK, File
  <2>2. OneLevel => LastRefer(attempts) /\ outcome # "unsorted"
    BY <1>4 DEF Try, Sorting
  <2>3. attempts' > 0
    BY <2>1
  <2>4. OneLevel' => LastRefer(attempts - 1)' /\ attempts' > 0 /\ outcome' # "unsorted"
    BY <1>4, <2>1, <2>2, <2>3 DEF Try, OneLevel, LastRefer
  <2>5. QED BY <1>4, <2>4 DEF Try, Sorting
<1>5. CASE GiveUp
  BY <1>5, AttemptsSuffice DEF GiveUp, Ended, Sorting, OneLevel
<1>6. CASE Persist
  BY <1>6 DEF Persist, Sorting, OneLevel, LastRefer
<1>7. CASE Defer
  BY <1>7, DeferSorts DEF Defer, Sorting, OneLevel
<1>8. CASE Rollback
  BY <1>8 DEF Rollback, Sorting, OneLevel, LastRefer
<1>9. CASE Commit
  BY <1>9 DEF Commit, Sorting, OneLevel
<1>10. CASE NextFile
  BY <1>10 DEF NextFile, Sorting, IInv, Rest
<1>11. CASE Done
  BY <1>11 DEF Done, Ended, Sorting
<1>12. CASE Fail
  BY <1>12 DEF Fail, Ended, Sorting
<1>13. QED
  BY <1>1, <1>2, <1>3, <1>4, <1>5, <1>6, <1>7, <1>8, <1>9, <1>10, <1>11, <1>12
  DEF Next, Step

\* Entities that refer only to entities without references are sorted, however
\* many there are and in whatever order the file lists them.
THEOREM OneLevelSorts == Spec => []OneLevelIsSorted
<1>1. Init => Sorting
  BY PopulatorAssumption DEF Init, Sorting, Entity
<1>2. Sorting => OneLevelIsSorted
  BY DEF Sorting, OneLevelIsSorted
<1>3. IInv /\ Sorting /\ [Next]_vars => Sorting'
  BY SortingKept
<1>4. QED BY <1>1, <1>2, <1>3, Inductive, PTL DEF Spec

-----------------------------------------------------------------------------
(***************************************************************************)
(* A population can do only so many statements.                            *)
(***************************************************************************)

LEMMA Phases ==
  /\ Phase["idle"] = 0 /\ Phase["next"] = 1 /\ Phase["try"] = 2
  /\ Phase["rollback"] = 3 /\ Phase["persist"] = 4 /\ Phase["open"] = 5
BY DEF Phase

\* What remains is counted in naturals.
LEMMA RemainingIsNatural ==
  ASSUME TypeOK
  PROVE  Remaining \in Nat \X Nat \X Nat \X Nat
<1>1. PICK n \in Nat : n = Length(file)
  BY FileFacts DEF TypeOK, File
<1>2. Length(file) - attempts \in Nat /\ Length(file) - persisted \in Nat
  BY <1>1 DEF TypeOK
<1>3. Phase[at] \in Nat
  BY Phases DEF TypeOK
<1>4. QED BY <1>2, <1>3 DEF Remaining

\* The ways to go down.
LEMMA GoingDown ==
  ASSUME NEW a, NEW b, NEW c, NEW d, NEW e, NEW f, NEW g, NEW h,
         \/ a < e
         \/ a = e /\ b < f
         \/ a = e /\ b = f /\ c < g
         \/ a = e /\ b = f /\ c = g /\ d < h
  PROVE  Lower(<<a, b, c, d>>, <<e, f, g, h>>)
<1> DEFINE v == <<a, b, c, d>>
           w == <<e, f, g, h>>
<1>1. /\ v[1] = a /\ v[2] = b /\ v[3] = c /\ v[4] = d
      /\ w[1] = e /\ w[2] = f /\ w[3] = g /\ w[4] = h
  OBVIOUS
<1> HIDE DEF v, w
<1> SUFFICES Lower(v, w)
  BY DEF v, w
<1>2. CASE v[1] < w[1]
  <2>1. 1 \in 1 .. 4 /\ \A j \in 1 .. 1 - 1 : v[j] = w[j]
    OBVIOUS
  <2>2. QED BY <1>2, <2>1 DEF Lower
<1>3. CASE v[1] = w[1] /\ v[2] < w[2]
  <2>1. 2 \in 1 .. 4 /\ \A j \in 1 .. 2 - 1 : j = 1
    OBVIOUS
  <2>2. QED BY <1>3, <2>1 DEF Lower
<1>4. CASE v[1] = w[1] /\ v[2] = w[2] /\ v[3] < w[3]
  <2>1. 3 \in 1 .. 4 /\ \A j \in 1 .. 3 - 1 : j = 1 \/ j = 2
    OBVIOUS
  <2>2. QED BY <1>4, <2>1 DEF Lower
<1>5. CASE v[1] = w[1] /\ v[2] = w[2] /\ v[3] = w[3] /\ v[4] < w[4]
  <2>1. 4 \in 1 .. 4 /\ \A j \in 1 .. 4 - 1 : j = 1 \/ j = 2 \/ j = 3
    OBVIOUS
  <2>2. QED BY <1>5, <2>1 DEF Lower
<1>6. \/ v[1] < w[1]
      \/ v[1] = w[1] /\ v[2] < w[2]
      \/ v[1] = w[1] /\ v[2] = w[2] /\ v[3] < w[3]
      \/ v[1] = w[1] /\ v[2] = w[2] /\ v[3] = w[3] /\ v[4] < w[4]
  BY <1>1
<1>7. QED BY <1>2, <1>3, <1>4, <1>5, <1>6

\* A statement of a file goes to an earlier phase, takes an attempt or stores
\* an entity.
LEMMA WithinAFile ==
  ASSUME TypeOK, UNCHANGED <<file, sample>>,
         \/ UNCHANGED attempts /\ Phase[at'] < Phase[at]
         \/ UNCHANGED <<attempts, at>> /\ persisted' = persisted + 1
         \/ attempts' = attempts + 1
  PROVE  Lower(Remaining', Remaining)
<1>1. PICK n \in Nat : n = Length(file)
  BY FileFacts DEF TypeOK, File
<1>2. Length(file)' = n /\ attempts \in Nat /\ persisted \in Nat
  BY <1>1 DEF TypeOK
<1>3. /\ attempts' = attempts + 1 => n - attempts' < n - attempts
      /\ persisted' = persisted + 1 => n - persisted' < n - persisted
  BY <1>2
<1>4. /\ Remaining = <<IF file = "initial" /\ sample THEN 1 ELSE 0,
                       n - attempts, Phase[at], n - persisted>>
      /\ Remaining' = <<IF file = "initial" /\ sample THEN 1 ELSE 0,
                        n - attempts', Phase[at'], n - persisted'>>
  BY <1>1, <1>2 DEF Remaining, Phase
<1>5. QED BY <1>3, <1>4, GoingDown

LEMMA StepsGoDown ==
  ASSUME TypeOK, Step \/ Fail
  PROVE  Lower(Remaining', Remaining)
<1>1. CASE Open
  BY <1>1, Phases, WithinAFile DEF Open
<1>2. CASE Try
  BY <1>2, WithinAFile DEF Try
<1>3. CASE GiveUp
  BY <1>3, Phases, WithinAFile DEF GiveUp, Ended
<1>4. CASE Persist
  BY <1>4, WithinAFile DEF Persist
<1>5. CASE Defer
  BY <1>5, Phases, WithinAFile DEF Defer
<1>6. CASE Rollback
  BY <1>6, Phases, WithinAFile DEF Rollback
<1>7. CASE Commit
  BY <1>7, Phases, WithinAFile DEF Commit
<1>8. CASE NextFile
  BY <1>8, GoingDown DEF NextFile, Remaining
<1>9. CASE Done
  BY <1>9, Phases, WithinAFile DEF Done, Ended
<1>10. CASE Fail
  <2>1. Phase[at'] < Phase[at]
    BY <1>10, Phases DEF Fail, Ended, TypeOK
  <2>2. QED BY <1>10, <2>1, WithinAFile DEF Fail
<1>11. QED
  BY <1>1, <1>2, <1>3, <1>4, <1>5, <1>6, <1>7, <1>8, <1>9, <1>10 DEF Step

\* Every statement of a population lowers what remains, which four naturals
\* count: no choice of references makes it go on for ever.
THEOREM StatementsAreBounded ==
  Spec => StatementsDescend /\ [](Remaining \in Nat \X Nat \X Nat \X Nat)
<1>1. TypeOK /\ [Next]_vars => [Step \/ Fail => Lower(Remaining', Remaining)]_vars
  BY StepsGoDown
<1>2. TypeOK => Remaining \in Nat \X Nat \X Nat \X Nat
  BY RemainingIsNatural
<1>3. QED BY <1>1, <1>2, TypeCorrect, PTL DEF Spec, StatementsDescend
===============================================================================
