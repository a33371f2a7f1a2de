# Acme Work Plans in TLA+

A verification project for Acme Work Plans, a Spring Boot / Hibernate web
application in which *managers* keep *tasks* and group them into *work plans*.
It models the program's own logic: what the request handlers accept and write,
how two pages or two requests interfere, how the framework's controller drives its transactions, what
the simultaneous requests of a session do to its principal, how the list of
spam words is edited and applied, and how the database is populated. Source paths below are relative to
`src/main/java/acme/`.

## 1. The system

A request arrives at a controller bean, one per entity and role
(`framework/controllers/AbstractController.java`). `handleRequest` opens a
transaction, looks the command up, checks the role, asks the service to
`authorise`, and runs `doGet` or `doPost`, which call the service's `findOne` /
`instantiate`, `bind`, `validate` and `create` / `update` / `delete` /
`perform`. A response with errors is rolled back, any other committed; then
`onSuccess` or `onFailure` runs in a transaction of its own. Entities carry a
`@Version` (`framework/entities/DomainEntity.java`) that the form returns in a
hidden field.

| Component | State | Operations | Interacts with | Hard behaviour | What makes it correct |
|---|---|---|---|---|---|
| Tasks (`features/manager/task`, `framework/entities/Task.java`) | table Task and the join table (the owning side) | create, update, delete, show, list | work plans (rules between both), spam filter, clock | each side validated against a copy of the other; an exception inside `validate` is swallowed | a task suits every plan it is assigned to; workload in range; only own rows change |
| Work plans (`features/manager/workplan`, `framework/entities/WorkPlan.java`) | table WorkPlan | create, update, delete, show, list, add a task, remove a task | tasks, spam filter, clock | deleting a plan rewrites its tasks; joining changes the version of the task and not of the plan | no dangling assignment; no public plan with a private task or a spam title; the selector offers what the handler takes |
| Request handling (`AbstractController`, `ServiceWrapper`) | field `transactionStatus` of a singleton; transactions bound to threads; pool of 4 connections | start, commit, roll back, notify, panic | Spring's transaction manager, every service | failure at every statement; requests that share the field | replies are true; nothing leaks; notifications in fresh transactions |
| Forms (`Request`, `LocalisedDoubleFormatter`, `LocalisedDataBinder`) | none | bind, unbind | pages, entities | the same text read twice, by the binder and by `validate`; id and version bound by every request, creates included | both read the same value |
| Versions (`DomainEntity`) | version of each row and page | compare, increment | all entities | stale pages, overlapping transactions | no lost update |
| Accounts and sessions (`Principal`, `UserAccount`, `PrincipalHelper`, `AuthenticationService`, `features/**/userAccount`, `features/authenticated/manager`) | accounts, roles, enabled flag; a principal per session, shared by its requests | sign up, sign in and out, become a manager, edit, disable | controllers (role checks) | stale authorities; simultaneous requests of one session; the same form posted twice | one role of a kind per account; no request gets at a row of another account; a new role is usable at once |
| Spam filter (`utilities/ValidateSpam.java`, `features/administrator/spam`) | threshold and list of words | check a text, edit the list | tasks, plans, shouts | counts by splitting, division, first eleven words fixed by position | the fixed words survive every edit and are shouted only when entries that overlap are discounted twice; no update hides another |
| Shouts (`features/anonymous/shout`) | table Shout | create, list the last month | spam filter, clock | none of its own | nothing rejected is stored |
| Public listings (`features/anonymous/task`, `.../workPlan`, `features/authenticated/task`) | none | list, show | tasks, plans, clock | lists and pages look at the privacy and the dates of different rows | what is listed can be opened; no plan leaves its list before its tasks |
| Dashboard (`features/administrator/task/dashboard`) | none | show | tasks | averages and deviations of nothing | equal to the definitions |
| Workload of a plan (`WorkPlan.getWorkload`) | none | sum | tasks | hours.minutes added as decimals, carry at 0.60 | equal to the sum in minutes |
| Populator (`framework/utilities/DatabasePopulator.java`, `DatabaseUtil`) | the set of entities still to be persisted | load, sort, persist | database | references between entities, bounded attempts, a commit that swallows its exception | a file is stored whole or not at all; every population ends |
| Helpers, formatters, JSP support, configuration, launcher, test drivers | none | rendering and wiring | | | not modelled |

`PROJECT.json` lists the components with their files, the hazards with the line
at which each bites, and the source lines of every definition.

## 2. The modules

| Module | Models |
|---|---|
| `WorkPlans` | the tables, the open pages, and every POST handler of tasks and plans as one serial action |
| `PublicListings` | the public lists and pages as operators over the tables of `WorkPlans`, which it extends |
| `ConcurrentWorkPlans` | the same handlers as snapshot transactions of two controllers; uses the rules of `WorkPlans` through `INSTANCE` |
| `RequestTransactions` | `handleRequest`: the shared field, the transactions of the threads, the pool, every failure |
| `RequestContract` | what a request promises, without transactions; `RequestTransactions` implements it when requests are serial |
| `Accounts` | roles, sessions, the principal that the requests of a session share |
| `SpamFilter` | the list of spam words, its page, the verdict on a text, the shouts |
| `Populator` | `DatabasePopulator`: two files, their attempts and transactions |
| `X_proofs` | the theorems of `X`, for every module above |
| `MCX` | instances of `X` for TLC; `MCWorkPlans` extends `PublicListings` |

### WorkPlans

`task` and `plan` are the tables (a function from ids to a row, `Unborn` or
`Deleted`; ids are never given again). The association lives in the task row
(`Task.workPlans`); `WorkPlan.tasks` is the inverse side and is computed
(`TasksOf`). `taskForm` and `planForm` are the pages each browser tab has open:
the row as it was rendered, hidden version included. `now` is the clock.

A page is opened by `ShowTask` / `ShowPlan`. `UpdateTask`, `UpdatePlan` and
`AddTask` are base command UPDATE: they bind the form, so its version must be
that of the row (`FreshTaskForm`, `FreshPlanForm`). `DeleteTask`, `DeletePlan`
and `RemoveTask` are base command DELETE, which binds nothing and so compares no
version. What `authorise` and `validate` check is the guard; a refused request
is rolled back and is a stuttering step. `SavedTask` and `SavedPlan` merge: a
row that does not change keeps its version.

The two creates bind what every request binds, id and version included
(`Request.bind`), `authorise` every manager, and `save`, which merges an entity
that has an id. So there are two actions for each. `CreateTask` and `CreatePlan`
store a new row: the request carries the id 0 of the form, or one of no stored
row. `OverwriteTask` and `OverwritePlan` are the same requests with the id and the
current version of a stored row, whoever owns it: it takes the posted values and
the manager in session (`MergedTask`, `MergedPlan`), a task leaves all its plans
(its collection is bound from nothing), and the tasks of a plan stay assigned,
since a plan does not own the association. No form of the application posts such
a create. `WriteBy(m)` is what the forms of the application send, `OverwriteBy(m)`
the rest. `replaced` is a history variable: the plans overwritten while tasks were
assigned, whose rules nobody has checked against those tasks. `MembershipSound`
(its half about owners), `MembersSuitTheirPlans`, the two properties of the public
pages and `OnlyOwnRowsChange` name it; everything else holds with these creates as
it does without. A new row is given version 0 (with a posted version Hibernate
may begin higher; versions are only compared with those of the same row).

A title is spam or not (`SpamTitle`), workloads are in minutes and dates are
instants. `separators` counts the thousands separators a workload was typed
with. The binder drops them (`LocalisedDoubleFormatter`, lines 47-60), while
`validate` replaces every comma by a dot and hands `1.000.30` to
`Double.valueOf`, which throws in the middle of the checks; the exception is
swallowed and what follows is never checked. With two separators it throws on
the decimals already, before the dates are checked. `unchecked` is a history
variable: the tasks whose last write went that way. `MembersSuitTheirPlans` excludes them
and the violation runs are about them.

### ConcurrentWorkPlans

`tx[c]` is the transaction that controller `c` has open: the tables it has read
(InnoDB's default, repeatable read: no isolation is configured) and what it
makes of them. `Begin...` is the request up to the service's save, validated on
the snapshot. `Commit` is the flush: each UPDATE or DELETE names the version
that was read, and only the rows that changed are written. `Rollback` may come
at any time. Two requests to the same controller are not overlapped here, since
they share the transaction field, which is the subject of `RequestTransactions`;
what overlaps is a request about a task and one about a plan. Creates carry no id
here (`replaced` is empty in its instances of `WorkPlans`). Foreign keys are
left out: `NoDanglingAssignment` shows that they never have anything to refuse.

`skewed` is a history variable: the pairs of a task and a plan of which one was
written by a transaction that had read the other before it changed.

`Alone(taskPage, planPage)` is `WorkPlans` over the same tables, instantiated
with the pages its managers have open as parameters; `ServedAlone` says that a
step is one of its requests for some pages that show the stored rows.
`SerialButForSkew` compares every commit with it, so the transactions are
checked against the serial handlers themselves and not against a copy of their
rules.

### RequestTransactions

Each thread runs one request at a time through the phases `main`, `after`,
`undo` and `recover`, statement by statement: `Start` (line 88), `Serve`, `End`
(the assertion and the commit or rollback of the *field*, lines 92-94), `Clear`
(line 95), `Notify`, `Check` and `Rollback` (the catch block, 264-266). The
requested view is built after the last commit and still inside the `try`: when
that throws, `Clear` leads to the catch block, with nothing left to undo, and the
reply is a panic view although the writes are kept. `doGet`
and `doPost` are the one step `Serve`, which ends in success, errors or a
throwable. What is external is Spring's transaction manager: `Began` (a thread
with a bound transaction takes part in it, otherwise it takes a connection) and
`Ended` (only a status that began the transaction ends it; the entity manager is
closed and the *current* thread loses what is bound to it). A thread whose entity
manager was closed by another is `Stale`. A rollback by a request that only
takes part in a transaction marks it rollback-only in Spring; that mark is left
out, because the requests that could see it already fail the properties.

`Serial` restricts arrivals to one request at a time. It is `TRUE` in the run
and the theorems that show what holds, `FALSE` in those that show what two
requests do to each other.

`RequestContract` is the abstract specification: the fate of what a request
writes (`effect`) is decided once and before the reply leaves, and the reply is
true to it. The refinement mapping is in `RequestTransactions` (`Effect`,
`Answered`): the writes of a request are pending until the transaction they went
into is committed or rolled back.

### PublicListings

The anonymous and authenticated handlers about tasks and plans only read, so
each is an operator over the state of `WorkPlans` and the clock: what a list
contains (`ActivePublicTasks`, `UnfinishedPublicPlans`, `TasksListedOf`,
`FinishedPublicTasks`) and which row a page shows (`AnonymousMayShow`,
`AnonymousMayShowPlan`, `AuthenticatedMayShow`). The properties relate what one
handler shows to what another accepts.

### Accounts

`role` are the tables of roles (an id to an account and a kind), `principal` the
`Principal` objects, `session` the reference that each HTTP session holds and
`req` the requests being served. References are explicit because the sharing is
the point: a request takes the reference of its session when it is created
(`Receive`), so requests of a session write the active role of one object, and
`Install` replaces the object of the session while older requests keep theirs.
An object that nothing refers to any more is garbage and is forgotten
(`Collected`).

A request is `Enter` (`checkRole`, then `setActiveRole`), `Permit` or `Refuse`
(`authorise`, which reads the active role *again*), one action per kind of
service, and for services of the authenticated area `Reload` and `Install`
(`PrincipalHelper.handleUpdate` in `onSuccess`). `Fail` may come at any statement.
Of tasks and plans only the Manager role that owns the row is kept. Rows are
found in two ways by the code, by the active role id (`authorise`) and by user
name (lists and creation), and the properties are about their agreement. When an
account has two roles of a kind, `Loaded` lets the principal keep either. Only
Spring Security reads the enabled flag, at sign in; it is left out with the
update that sets it.

### SpamFilter

`words` is the list in the order in which it is stored. An entry and a text are
sequences of *characters*, because `contains` and `split` look at the raw text:
an entry is found inside a token, across several, and more than once in one
(`OccursAt`, `Has`). `Tokens` is what `split(" ")` makes of a text, without the
empty pieces at its end. `ValidateSpam` follows the Java: each entry found
*overwrites* `textCounter` (`OccurrencesFrom` counts from the left and without
overlaps, as `split` does), every space inside a compound entry found
(`SpacesOf`) reduces the divisor, which becomes zero or negative when compound
entries found in the same place overlap; over zero the quotient is infinite or not
a number, and a negative one is below every threshold.

`split` takes an entry for a regular expression. One made of characters that mean
themselves (`Plain`) matches itself and nothing else; what the others match is the
constant `Pieces`, and those that do not compile are `Broken`. `WordsAssumption` is
about the eleven entries that `initial-data.xml` populates the list with: none is
there twice and all are letters and spaces. Comparing products instead of a
quotient of doubles times 100 leaves rounding out: a share that equals the
threshold exactly may be rounded below it (29 of 100 tokens against 29), and then
the code lets pass what the model rejects. Neither property of the verdict depends
on that: the quotients of `FixedWordsPassOnlyInOverlaps` are whole, and
`NoFalsePositives` is about what is called spam. Whitespace other than
spaces is not modelled.
`Show` and `Update` are the form: only the words
behind the eleven fixed ones (`Len(Fixed)`) are shown, and what is posted
replaces them in the order typed, without blanks and repetitions (`Edited`,
`NthAdded`), under the hidden version.
`Shout` is `AnonymousShoutCreateService`; its author is filtered like its text,
so one text stands for both.

### Populator

`needs` is chosen at the start: which entities of its file each refers to.
`Populate` creates the schema again; then for each file `Open`, and `Try`,
`Persist` ... until one entity is refused: `Defer` moves it to the end of the
list and `Rollback` ends the attempt. After as many attempts as entities comes
`GiveUp`. `Commit` either stores or throws, and in the second case
`DatabaseUtil.commitTransaction` prints the exception and the populator goes on:
`swallowed` remembers it. `Fail` is anything thrown, or the end of the process.

## 3. Runs

| Run | Module, bounds | Shows |
|---|---|---|
| `rules` | `WorkPlans`: 1 task, 1 plan, 1 tab, instants 0..3, versions 0..2, separators 0 and 1 | `TypeOK`; `MembersSuitTheirPlans` over every order of edits, overwriting creates, joins, removals and deletions; `ListedRowsCanBeShown`, `PlansOutlastTheirTasks` of the public pages in all those states |
| `rows` | 2 managers, 2 tasks, 1 plan, 1 tab, a clean and a spam title, no separators, instants 0..2, versions 0..2 | `MembershipSound`, `OffersAreAcceptable`, `VersionIdentifiesRow`, `PublicTitlesClean`, `NoLostUpdate`, `OnlyOwnRowsChange`, with creates of either manager that overwrite rows of the other |
| `private_task` | 1 task, 1 plan; **violation** | the privacy rule that the message states, broken by `0,001.50` |
| `concurrent` | 1 task, 1 plan, 2 controllers, instants 0..3, versions 0..2 | `OnlySkewBreaksTheRules`: a pair that breaks a rule comes from a simultaneous edit of both and from nothing else; `NoDanglingAssignment`, `CommitsReplaceWhatTheyRead`: the version column alone is enough; `SerialButForSkew`: a commit that overlooks no change is a request of `WorkPlans` served alone |
| `concurrent_publish` | instants 0..2; **violation** | a task made private while its plan is published |
| `transactions_serial` | 2 threads, 2 connections, one request at a time | `NothingLeaks`, `RepliesAreTrue`, `ActiveAtCommit`, `FreshTransactions`; `KeepsTheContract`: serial requests implement `RequestContract` |
| `transactions_answered` | 2 threads, 1 connection, 2 requests at a time | `EveryRequestIsAnswered` |
| `transactions_replies` | 2 threads, 2 connections, 2 requests at a time; **violation** | a success that is never committed |
| `accounts` | `Accounts`: 2 accounts, 1 session, 2 requests at a time, 4 roles, 4 objects | `TypeOK`, `ActiveRoleIsHeld`; `OnlyOwnRowsArePermitted`: the shared active role never opens a row of another account; `OwnRowsAreNotRefused`, `NewRolesAreUsable`: what goes wrong takes overlapping requests or two Manager roles |
| `accounts_roles` | 1 account, 3 roles; **violation** | two Manager roles from a form posted twice |
| `populator` | `Populator`: 2 initial and 3 sample entities, all references and orders | `TypeOK`, `AllOrNothing`, `DoneMeansStored`, `SampleNeedsInitial`, `OneLevelIsSorted`, `PopulationEnds`; `StatementsDescend`: every statement brings the population nearer to its end |
| `spam` | `SpamFilter`: 3 fixed entries, 2 tabs, 2 updates, 1 shout | `TypeOK`, `FixedWordsSurvive`, `PagesRoundTrip`, `UpdatesReplaceWhatWasShown` of the page; `FixedWordsPassOnlyInOverlaps`, `NoFalsePositives` of the verdict |

**Bounds.** `Separators` is {0, 1} in `rules`, {0, 1, 2} in `private_task` and {0} in
`rows`, whose properties do not depend on it: with two any pair of dates may be
stored, which multiplies the states; the theorems are about all three. The rules relate one task and one plan: a second of each adds no new
comparison, and owners are told apart by two managers with a task each. One tab
is enough for old pages: a page outlives the update posted from it, and what
other tabs do to the row (join, leave, delete) needs no page.
`MaxInstant` 3 is the least that has a window inside another after the clock has
moved, and 2 the least with a window at all. `MaxVersion` 2 lets a page become
stale twice, and one transaction overlap two others. `WorkloadLimit` is
scaled to the clock. Ids are used up and the clock stops at its bound, hence
`CHECK_DEADLOCK FALSE` for `WorkPlans` and `ConcurrentWorkPlans`; the others are
checked for deadlock. Two threads are enough for
one to take the other's transaction, and one or two connections for a leak to
exhaust the pool.

In `accounts` two requests are the least that share an object; sharing needs one
session, and what two sessions of an account have in common is only the tables,
which sign out and in again also shows to a session. Four ids hold the roles of
two accounts or three of one, and four objects the session's and those of two
requests. Accounts, sessions and requests are symmetric, as are the two
tasks of `rows` and the two tabs of `spam`. In `spam` the fixed entries are like
*sex*, *sexo* and *hard core*, one letter for several; the typed lists have the two
parts of the compound entry that overlap (like *hard c* and *rd core*), together and
alone, an entry inside another, one that is never found (a capital: texts are put
in lower case and entries are not), a full stop, an end-of-text mark and a bracket
that is no regular expression, each behind or before another; the texts have
entries twice in a token, across tokens, with doubled spaces and with spaces around
them. 34 and 100 are thresholds that a third of a text misses by less than one per
cent and that only a whole text reaches. In `populator` three entities are
the fewest with a chain that runs out of attempts, and all references among
them, cyclic ones included, are tried.

**Fairness.** Two runs assume any. `populator`: weak fairness of the next
statement, since the populator is one thread that waits for nothing.
`transactions_answered`: weak fairness of each thread that serves a request. Nothing in `handleRequest` waits for another
request, except `getConnection`, which gives up after the pool's timeout
(`StartFails`).

## 4. Findings

1. A workload with a thousands separator passes `validate` unchecked
   (`ManagerTaskCreateService.java:137`, `ManagerTaskUpdateService.java:131`),
   so a workload over the limit is stored, and after an update a public plan may
   hold a private task (`private_task`) or one outside its window.
2. Publishing a plan while one of its tasks is being made private leaves both
   done (write skew): each request validates before the other commits and
   neither writes the other's row.
3. `transactionStatus` is a field of a singleton. Two requests to one controller
   end each other's transactions: the assertion of line 92 fails, a success may
   never be committed, a connection leaks, and a thread is left with a closed
   entity manager.
4. `AuthenticatedManagerCreateService.authorise` is always true and `create`
   saves the role without `UserAccount.addRole` and its assertion: a form posted
   twice gives an account two Manager roles, after which
   `findManagerByUserName`, a query with one result, throws and the account can
   create nothing any more. Becoming a provider or a consumer is the same code.

## 5. What is proved

For every set of managers, tabs, ids, titles and workloads and every bound, from
the named assumptions of `WorkPlans` (bounds are naturals, tabs have managers,
the special values are no rows and no pages):

* `TypeCorrect`; `Inductive`: `IInv`, the conjunction of `TypeOK`,
  `MembershipSound`, `MembersSuitTheirPlans`, `PublicTitlesClean` and
  `VersionIdentifiesRow`, is inductive.
  All of it is about the creates that overwrite a row, too.
* From it `MembershipIsSound`, `MembersSuit`, `PublishedTitlesAreClean`,
  `VersionsIdentifyRows`, `OffersAreAccepted`, and the action properties
  `UpdatesSeeWhatTheyReplace` and `OthersRowsAreSafe`.

The parts need each other. `OnlyOwnRowsChange`, about what the forms of the
application send (`WriteBy`), holds of `RemoveTask` and `DeletePlan`, which look
only at the owner of the plan, because of `MembershipSound`; that in turn needs the
owner checks of `AddTask`, and that a deleted plan leaves its tasks. Two managers
meet in a plan only when a create has overwritten it, so tasks of such plans are
the exception that both state. `VersionIdentifiesRow` rests on `RowsAdvance`: a
row that changes is deleted or moves to the next version, so an equal version
means an equal row, and `NoLostUpdate` follows.

For every number of threads and connections, when `Serial` holds:
`SerialInductive`, and from it `SerialRequestsLeakNothing`,
`SerialRepliesAreTrue`, `SerialActiveAtCommit` and
`SerialTransactionsAreFresh`. The invariant says for each statement whether the
serving thread *holds* the only open transaction or all is *quiet*; the catch
block is right because the field is active exactly when the thread holds one.

What is left when requests overlap (no `Serial`): `OverlapInductive`, with
`TypeCorrect` from it, says that no thread stays bound to a connection that is
back in the pool and that a status in the field which can still end a
transaction is that of an open one, so no connection is returned twice.
`RequestsAreBounded` says that `handleRequest` never goes back, whatever fails
and whatever others do to its transaction: each step lowers `StatementsLeft` of
its thread (five for each phase to come and the rest of its own, at most 19) and
of no other. The only invariant this needs besides is that the catch block alone
checks and rolls back.

`SerialKeepsContract` (`RequestContract_proofs`) is the refinement: every step of
serial `RequestTransactions` is a step of `RequestContract` or a stutter. It needs
`SerialInductive` and one invariant more, that what a request wrote is in the
transaction its thread holds or accounted for in its reply.

For every number of rows and every bound (`ConcurrentWorkPlans_proofs`), assuming
that the two controllers differ and the special values are no rows: `Inductive`,
`TypeCorrect`, `NothingDangles`, `SkewAlone` and `NothingUnreadIsReplaced`. A
stored row *follows* the row of an open snapshot (`Follows`): it is the same, or
has been deleted, or has a later version; so a commit that finds the version it
read replaces what it read. The other half is what only one controller can do:
while the work plan controller has a snapshot no plan changes and no task is
assigned, so what it writes is still sound at its commit, and every pair that a
transaction writes was validated on its own snapshot (`Validated`), so a pair
that does not suit had its far end changed meanwhile and is in `skewed`.

`SerialOrSkewed` is serializability, up to that skew: a commit that overlooks
nothing is a request of `WorkPlans` on the tables as they are by then. Its
invariant (`Asked`) is that what an open transaction has made of the tables is
what one validated request makes of its snapshot. At the commit the row that it
replaces is the one it read; the plan controller's snapshot of the plans is
still current; and the far ends of the assignments validated are unchanged, or
the commit would overlook them. So the same request is valid on the current
tables (`...Alone`, one lemma per request), with pages that show them.

`ListedRowsOpen` and `PlansOutlastTasks` (`PublicListings_proofs`) follow from
the invariants of `WorkPlans`: a task that suits a public plan is public and
inside its window.

For every set of accounts, roles, sessions, requests and objects
(`Accounts_proofs`): `Inductive`, `TypeCorrect`, `ActiveRolesAreHeld` and
`OthersRowsAreRefused`. The invariant says that the roles a principal knows are
rows of its account (rows are only added, so an old copy stays true), that every
principal has the role Authenticated (so a freshly loaded one has an active
role), and that sessions and requests refer to live objects. Nothing in it is
about which request set the active role, which is why no interleaving matters.
`SessionsAreSound` is the second invariant, about sessions whose requests have
not overlapped (`SInv`): no two sessions share an object, the one request runs on
the object of its session, the active role it reads is the one its controller
set, and what `handleUpdate` loads knows every role that the object it replaces
knew and the one just stored. `NewRolesWork` and `OwnRowsOpen` follow.

For every pair of finite disjoint files and any references (`Populator_proofs`):
`Inductive`, `TypeCorrect`, `FilesAreAtomic`, `DoneIsStored` and
`SampleComesSecond`. The invariant says that the list being tried still has every
entity of the file, which moving one to the end must preserve, and what is
stored at each statement. `OneLevelSorts` says that entities which refer only to
entities without references are sorted within the attempts there are: each
failed attempt leaves one more entity with references behind all those without
(`Sorting`), and those without are never refused. `StatementsAreBounded` is the
safety half of `PopulationEnds`: every statement lowers a measure of four
naturals in lexicographic order (`Remaining`: the file to come, the attempts
left, the statements of the attempt, the entities to be persisted), cyclic references
included.

For every list of fixed words, typed words, texts and tabs
(`SpamFilter_proofs`), from `FilterAssumption` (what the sets contain) and
`WordsAssumption` (section 2): `Inductive` and `TypeCorrect`; `FixedWordsStay`
and `UpdatesSeeTheList`, from the invariant that a page with the current version
shows the current list; `RoundTrips`, because nothing behind the fixed words is
blank or there twice, so the k-th word that `Edited` keeps is the k-th shown.
`OccurrencesCount` is about the recursion that counts a plain entry in the
characters of a text: it has a value, at least one exactly when the text contains
the entry, at most the number of places where the entry begins, and as many
entries as it counts fit into the text. From it `VerdictsAreFounded` (a text in
which only plain entries without spaces are found is called spam only when the
places where one of them begins, as a share of its tokens, reach the threshold),
`SingleWordsAreNotShouted` (a fixed entry without spaces: one token, a count of at
least one, and nothing found in it that could be discounted) and `FixedWordsPass`:
any fixed entry passes only when the other entries found in it have two spaces or
more between them. Its own spaces leave a divisor of one, one space more leaves
zero and an infinite quotient, and only the second makes the divisor negative. So
an entry of two tokens is found out as long as no two compound entries that overlap
in it are added; with them the code lets it pass, and the property says so.
Where these need induction over a
length, the least counterexample takes its place (`Least`).

Only model-checked: `EveryRequestIsAnswered` and `PopulationEnds`. They are
liveness, which is beyond the proof system, as ENABLED is; what is proved of
them is that each statement brings the end nearer (`RequestsAreBounded`,
`StatementsAreBounded`), and TLC adds that there always is one to run until it
is reached. RECURSIVE operators would be out of its reach too and are not used:
recursion is written as functions.

## 6. Plan

1. `doGet` and `doPost` by base command, as steps of their own inside `Serve`.
2. Two populations at a time, from the launcher and the master controller: they
   share `DatabaseUtil.transactionStatus` as requests share that of a controller.
3. The enabled flag, and signing in of an account that is being disabled.
4. Of overlapping requests, which reply is still true: that a reply is false only
   when the transaction of its request was ended by another thread.

## 7. Not modelled

* The dashboard and `WorkPlan.getWorkload`: read only, averages, deviations and
  sums of decimals in floating point, about which a model in exact arithmetic
  would say nothing. (A sum of hours and minutes misses a carry by rounding, but
  then its minutes are over 60 and the total is right.)
* Formatting, JSP rendering, message files, i18n beyond the decimal separators,
  Spring Security's filters, the configuration classes, the launcher, the
  inquirer, the pages of the master controller, the list of recent shouts and
  the test drivers keep no state of the program.
* The JavaScript under `src/main/webapp/META-INF/resources/libraries` (jQuery,
  Bootstrap, Chart.js, DataTables, Font Awesome, Popper ...) is third-party code
  in released versions, not the program's.
* The tables of `WorkPlans` start empty. `sample-data.xml` does not respect the
  rules of the handlers everywhere (it puts task09 into workPlan08, outside its
  window), so what is shown is what the handlers preserve, and nothing about rows
  that were populated.
* The description and link of a task and the spam check of the description
  follow the title and are left out; so is the check that a year has four
  digits. The two text fields of providers and consumers change no other state.
* Isolation, binding and versioning are those of InnoDB, Spring and Hibernate as
  this code uses them.
