------------------------------ MODULE Populator -------------------------------
(***************************************************************************)
(* DatabasePopulator: the schema is created again and the entities of one  *)
(* or two files are stored, each file in a transaction of its own.  The    *)
(* order in which a file's entities can be stored is found by trial: an    *)
(* attempt persists them one by one, the first that fails is deferred to   *)
(* the end of the list, the attempt is rolled back and the next one begins *)
(* anew, as many times as there are entities.                              *)
(***************************************************************************)
EXTENDS Naturals, FiniteSets

CONSTANTS
  Initial,    \* the entities of initial-data.xml
  Sample      \* the entities of sample-data.xml

ASSUME PopulatorAssumption ==
  /\ IsFiniteSet(Initial) /\ IsFiniteSet(Sample)
  /\ Initial \cap Sample = {}

Entity == Initial \cup Sample

Contents(f) == IF f = "initial" THEN Initial ELSE Sample
Length(f) == Cardinality(Contents(f))

\* The orders in which getBeansOfType may return the entities of a file.
Orders(f) ==
  {l \in [1 .. Length(f) -> Contents(f)] :
     \A e \in Contents(f) : \E i \in 1 .. Length(f) : l[i] = e}

VARIABLES
  needs,      \* the entities that each entity refers to, in its own file
  database,   \* the entities that are stored
  sample,     \* whether the sample file is asked for, too
  file,       \* the file being populated
  list,       \* its entities, in the order that is being tried
  attempts,   \* attemptCounter
  persisted,  \* result of tryPersist: how many entities the attempt has stored
  at,         \* the next statement
  outcome,    \* how the last population ended
  swallowed   \* history: a commit of this population threw

vars == <<needs, database, sample, file, list, attempts, persisted, at,
          outcome, swallowed>>

TypeOK ==
  /\ needs \in [Entity -> SUBSET Entity]
  /\ database \subseteq Entity
  /\ sample \in BOOLEAN
  /\ file \in {"initial", "sample"}
  /\ list \in [1 .. Length(file) -> Contents(file)]
  /\ attempts \in 0 .. Length(file)
  /\ persisted \in 0 .. Length(file)
  /\ at \in {"idle", "open", "try", "persist", "rollback", "next"}
  /\ outcome \in {"none", "done", "unsorted", "thrown"}
  /\ swallowed \in BOOLEAN

\* A bean can only refer to the beans of its file.
Init ==
  /\ \E n \in [Initial -> SUBSET Initial], m \in [Sample -> SUBSET Sample] :
       /\ \A e \in Initial : e \notin n[e]
       /\ \A e \in Sample : e \notin m[e]
       /\ needs = [e \in Entity |-> IF e \in Initial THEN n[e] ELSE m[e]]
  /\ database = {}
  /\ sample = FALSE
  /\ file = "initial"
  /\ list \in Orders("initial")
  /\ attempts = 0
  /\ persisted = 0
  /\ at = "idle"
  /\ outcome = "none"
  /\ swallowed = FALSE

-----------------------------------------------------------------------------
(***************************************************************************)
(* Populating.                                                             *)
(***************************************************************************)

\* populateInitial, populateSample: the schema is created again.
Populate(all) ==
  /\ at = "idle"
  /\ database' = {}
  /\ sample' = all
  /\ file' = "initial"
  /\ list' \in Orders("initial")
  /\ attempts' = 0
  /\ persisted' = 0
  /\ at' = "open"
  /\ outcome' = "none"
  /\ swallowed' = FALSE
  /\ UNCHANGED needs

Ended(result) ==
  /\ at' = "idle"
  /\ outcome' = result

\* Something is thrown, an entity is not valid, or the process ends: what was
\* not committed is gone.
Fail ==
  /\ at # "idle"
  /\ Ended("thrown")
  /\ UNCHANGED <<needs, database, sample, file, list, attempts, persisted,
                 swallowed>>

\* The file is read; a file without entities is done.
Open ==
  /\ at = "open"
  /\ at' = IF Contents(file) = {} THEN "next" ELSE "try"
  /\ UNCHANGED <<needs, database, sample, file, list, attempts, persisted,
                 outcome, swallowed>>

\* Mutant: one attempt more than there are entities.
MutMayTry == attempts =< Length(file)

MayTry == attempts < Length(file)

\* Mutant: the attempts are not counted.
MutTry ==
  /\ at = "try"
  /\ MayTry
  /\ persisted' = 0
  /\ at' = "persist"
  /\ UNCHANGED <<needs, database, sample, file, list, attempts, outcome,
                 swallowed>>

\* tryPersist begins: startTransaction, resetEntities.
Try ==
  /\ at = "try"
  /\ MayTry
  /\ attempts' = attempts + 1
  /\ persisted' = 0
  /\ at' = "persist"
  /\ UNCHANGED <<needs, database, sample, file, list, outcome, swallowed>>

\* Mutant: the list that could not be sorted is logged, and that is all.
MutGiveUp ==
  /\ at = "try"
  /\ ~MayTry
  /\ at' = "next"
  /\ UNCHANGED <<needs, database, sample, file, list, attempts, persisted,
                 outcome, swallowed>>

\* "Could not sort the entities in %s topologically!"
GiveUp ==
  /\ at = "try"
  /\ ~MayTry
  /\ Ended("unsorted")
  /\ UNCHANGED <<needs, database, sample, file, list, attempts, persisted,
                 swallowed>>

Stored == {list[i] : i \in 1 .. persisted}

\* EntityManager.persist refuses an entity that refers to one that has not been
\* persisted in the transaction.
Refused(e) == ~(needs[e] \subseteq Stored)

Persist ==
  /\ at = "persist"
  /\ persisted < Length(file)
  /\ ~Refused(list[persisted + 1])
  /\ persisted' = persisted + 1
  /\ UNCHANGED <<needs, database, sample, file, list, attempts, at, outcome,
                 swallowed>>

\* Mutant: the entity is moved behind the one that follows.
MutDeferred(l, i) ==
  [j \in DOMAIN l |->
     IF i + 1 \notin DOMAIN l THEN l[j]
     ELSE IF j = i THEN l[i + 1] ELSE IF j = i + 1 THEN l[i] ELSE l[j]]

\* The list with its i-th entity moved to the end.
Deferred(l, i) ==
  [j \in DOMAIN l |->
     IF j < i THEN l[j] ELSE IF j + 1 \in DOMAIN l THEN l[j + 1] ELSE l[i]]

Defer ==
  /\ at = "persist"
  /\ persisted < Length(file)
  /\ Refused(list[persisted + 1])
  /\ list' = Deferred(list, persisted + 1)
  /\ at' = "rollback"
  /\ UNCHANGED <<needs, database, sample, file, attempts, persisted, outcome,
                 swallowed>>

\* Mutant: what the attempt has persisted is committed.
MutRollback ==
  /\ at = "rollback"
  /\ database' = database \cup Stored
  /\ at' = "try"
  /\ UNCHANGED <<needs, sample, file, list, attempts, persisted, outcome,
                 swallowed>>

\* tryPersist ends with rollbackTransaction.
Rollback ==
  /\ at = "rollback"
  /\ at' = "try"
  /\ UNCHANGED <<needs, database, sample, file, list, attempts, persisted,
                 outcome, swallowed>>

\* tryPersist ends with commitTransaction, which prints an exception and goes
\* on as if nothing had been thrown.
Commit ==
  /\ at = "persist"
  /\ persisted = Length(file)
  /\ \/ database' = database \cup Stored /\ UNCHANGED swallowed
     \/ swallowed' = TRUE /\ UNCHANGED database
  /\ at' = "next"
  /\ UNCHANGED <<needs, sample, file, list, attempts, persisted, outcome>>

\* The next file, if any.
NextFile ==
  /\ at = "next"
  /\ file = "initial" /\ sample
  /\ file' = "sample"
  /\ list' \in Orders("sample")
  /\ attempts' = 0
  /\ persisted' = 0
  /\ at' = "open"
  /\ UNCHANGED <<needs, database, sample, outcome, swallowed>>

Done ==
  /\ at = "next"
  /\ file = "sample" \/ ~sample
  /\ Ended("done")
  /\ UNCHANGED <<needs, database, sample, file, list, attempts, persisted,
                 swallowed>>

Step ==
  \/ Open \/ Try \/ GiveUp \/ Persist \/ Defer \/ Rollback \/ Commit
  \/ NextFile \/ Done

Next == (\E all \in BOOLEAN : Populate(all)) \/ Step \/ Fail

Spec == Init /\ [][Next]_vars

\* Nothing in the populator waits for anything.
FairSpec == Spec /\ WF_vars(Step)

-----------------------------------------------------------------------------
(***************************************************************************)
(* Properties.                                                             *)
(***************************************************************************)

\* A file is stored as a whole or not at all, whenever the population fails and
\* however many attempts were rolled back.
AllOrNothing ==
  \A f \in {"initial", "sample"} :
    Contents(f) \subseteq database \/ Contents(f) \cap database = {}

\* A population that ends well has stored every entity it was asked for, the
\* deferred ones included, unless a commit failed unnoticed.
DoneMeansStored ==
  outcome = "done" /\ ~swallowed =>
    database = Initial \cup (IF sample THEN Sample ELSE {})

\* "populating the database with sample data requires populating it with the
\* initial data, which is also performed automatically" (Launcher.showUsage):
\* sample data are never stored alone, unless a commit failed unnoticed.
SampleNeedsInitial ==
  Sample \cap database # {} /\ ~swallowed => Initial \subseteq database

\* Entities that refer only to entities without references, as roles refer to
\* accounts, are sorted whichever order they come in.  (Longer chains may run
\* out of attempts.)
OneLevel == \A e \in Contents(file) : \A d \in needs[e] : needs[d] = {}

OneLevelIsSorted == OneLevel => outcome # "unsorted"

\* The inductive invariant behind the safety properties.
Listed == \A e \in Contents(file) : \E i \in 1 .. Length(file) : list[i] = e

Rest ==
  /\ Contents(file) \cap database = {} \/ at \in {"next", "idle"}
  /\ file = "initial" => Sample \cap database = {}
  /\ file = "sample" => sample /\ (swallowed \/ Initial \subseteq database)
  /\ at \in {"open", "try", "persist", "rollback"} =>
       outcome = "none"
  /\ at = "next" => outcome = "none" /\ (swallowed \/ Contents(file) \subseteq database)

IInv ==
  /\ TypeOK
  /\ Listed
  /\ AllOrNothing
  /\ DoneMeansStored
  /\ Rest

\* The invariant behind OneLevelIsSorted: each attempt that failed has put one
\* more entity with references behind all those without.
LastRefer(k) ==
  \A j \in 1 .. Length(file) : j > Length(file) - k => needs[list[j]] # {}

Sorting ==
  /\ \A e \in Initial : needs[e] \subseteq Initial
  /\ \A e \in Sample : needs[e] \subseteq Sample
  /\ at = "open" => attempts = 0
  /\ at \in {"try", "persist", "rollback"} => Contents(file) # {}
  /\ OneLevel =>
       /\ at \in {"try", "rollback"} => LastRefer(attempts)
       /\ at = "persist" => attempts > 0 /\ LastRefer(attempts - 1)
       /\ outcome # "unsorted"

\* What a population has still to do, the weightiest first: files, attempts,
\* statements of the attempt, entities of the statement.
Phase ==
  [idle |-> 0, next |-> 1, try |-> 2, rollback |-> 3, persist |-> 4, open |-> 5]

Remaining ==
  <<IF file = "initial" /\ sample THEN 1 ELSE 0, Length(file) - attempts,
    Phase[at], Length(file) - persisted>>

Lower(v, w) ==
  \E i \in 1 .. 4 : v[i] < w[i] /\ \A j \in 1 .. i - 1 : v[j] = w[j]

\* A population gets nearer to its end with every statement, however often an
\* attempt starts anew: it can do only so many, whatever the references.
StatementsDescend == [][Step \/ Fail => Lower(Remaining', Remaining)]_vars

\* Every population ends, also when the references of its entities are cyclic.
PopulationEnds == at # "idle" ~> at = "idle"
===============================================================================
