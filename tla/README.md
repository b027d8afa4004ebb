# Verification of the meta-org backend

TLA+ specifications of the Go backend in this repository, the TLC runs that
check them on small instances and the TLAPS proofs of what holds for every
instance. Paths below are relative to `src/`; *B* stands for
`backend/internal/domain`.

## 1. The system

One Go process (`backend/cmd/server/main.go`) reads its configuration, connects
to PostgreSQL, applies the files of `migrations/` and serves a REST API for nine
domains. Every domain has a handler (chi routes), a service and a repository.

Three facts shape every model:

* **One goroutine per request.** `net/http` serves requests concurrently; no
  mutex, no channel and no in-memory state is shared. Requests meet only in the
  tables.
* **One statement, one transaction.** A repository method is one SQL statement
  on the pool, which commits by itself (READ COMMITTED). Only the migration
  runner opens transactions. A service method with *n* statements is therefore
  *n* steps between which anything may happen.
* **Any statement may fail.** The context of a request is cancelled when its
  client disconnects, the pool's connections may break and the process may end
  (crash, or `Shutdown` giving up after 10 s while handlers may take 15 s).
  What was committed stays; nothing is ever undone and nothing resumes.

### Inventory

| component | state (tables) | operations that change it | talks to | hard behaviour | what makes it correct |
|---|---|---|---|---|---|
| workflow (*B*/workflow) | `workflow_templates`, `workflow_instances`, `tasks`, `decisions`, `workflow_context` | CreateTemplate, StartWorkflow, CompleteTask, PATCH status, recordDecision, updateContext | ids of other domains only | 2+n and up to 6 statements per request without a transaction; read-modify-write of `current_stage`; retries | nobody is told of half an instance; the stage never exceeds the completions; an instance completes when, and only when, its stages were completed |
| migrations and startup (pkg/database, cmd/server) | `schema_migrations`, the whole schema | RunMigrations, Listen, Shutdown | every domain (its schema) | several processes on one database; stale check; lost commit acknowledgement; restart | each file once, in order, recorded iff effective; serve only on the whole schema |
| evolution: weights (*B*/evolution) | `weight_scores`, `weight_alphas` | ComputeWeight, RecordOutcome, UpdateAlpha | - | read-modify-write of whole rows; an error of the read taken for a missing row; version = MAX+1 | a stored score is the score of the stored components; the record of an actor comes from outcomes that were reported |
| evolution: experiments, knowledge, signals | `experiments`, `knowledge_entries`, `signals` | create, update status, acknowledge | - | a NULL column scanned into a string: the row exists, its creation and every list fail | an acknowledged signal stays so; an update touches one row |
| verification (*B*/verification) | `verification_reports`, `review_assignments` | CreateReport (insert, then score), AssignReview, CompleteReview | ids of workflow | two statements without a transaction, to write and to read; completed reviews are completed again | a report that was announced has its score; a review never goes back to pending; a read is of one report |
| organization (*B*/organization) | `organizations`, `muvrs`, `mvru_members`, `mvru_relationships` | create organization and MVRU, status, add and remove member, relationship | identity's ids | member key over two nullable columns; parents in other organizations; the chart takes two reads | MVRUs are a forest; the chart misses nothing showable and shows nothing else |
| capability (*B*/capability) | `capabilities`, `capability_bindings` | create, bind, unbind; MatchTask | organization's ids | the exchange sort and its cut; unbinding that is retried | the best matches are answered; an unbind takes one binding |
| layer (*B*/layer) | `layer_configs` | SetLayerConfig; Classify | organization's ids | thresholds on floating-point sums; zero means "not given" | the layer is monotone in the scores |
| governance (*B*/governance) | `permissions`, `principles`, `control_rules` | creates; CheckPermission | - | the first row of a sorted list answers for everyone | the answer changes only when a permission sorts first |
| observability (*B*/observability) | `traces`, `spans`, `metrics` | StartTrace, RecordSpan, CompleteTrace, RecordMetric | ids of workflow | spans after the end; a trace ended more than once; two reads | an ended trace stays ended; a read shows a trace's own spans |
| identity (*B*/identity) | `users`, `ai_agents` | register, login, register and authenticate agent | - | NULL `avatar_url`; an API key that only one answer shows | a token only for who holds the secret |
| gateway, server, middleware | none | - | all | `AuthMiddleware` is not wired to any route | - |
| configuration, frontend | none / token in local storage | - | gateway | - | - |

`PROJECT.json` lists every component with its status, and the hazards of the
code line by line.

## 2. Plan

Order of work, most important behaviour first.

1. **WorkflowLedger, Workflow, MCWorkflow, MCWorkflowLive, WorkflowProofs** (done). The P-E-R
   engine is what the program is for, and its requests are the longest.
2. **SchemaHistory, Migrations, MCMigrations, MigrationsProofs** (done). The
   only code several processes run against each other, and the only
   transactions.
3. **Weights, MCWeights, Sums, WeightsProofs** (done): the read-modify-write of
   decision weights and the versions of the alpha configuration. Promise: a row
   is explained by a part of the outcomes reported for the actor.
4. **Matching, MatchingProofs** (done): the ranking of MatchTask, an exchange
   sort that is cut off.
5. **Rows, Pages, Verification, EvolutionRecords, Traces, Records, MCRecords,
   RecordsProofs** (done): the domains that write things down. They share one
   shape, a statement that commits and an answer that fails or is lost after it.
6. **Layering** (done): Classify, a pure function, settled by theorems.
7. **Identity, Organization, Bindings, Governance, Directory, MCDirectory,
   DirectoryProofs** (done): who exists, where they belong and what they may do.
8. Left: `recordDecision` and `updateContext` of the workflow domain; the end of
   the process as one event for the handlers of several domains (each module has
   it for its own).

`Records` composes Verification, EvolutionRecords and Traces; `Directory`
composes Identity, Organization, Bindings (capability and layer) and Governance.
Both rest on `Rows`. Workflow, Weights and Migrations stand alone: they share
no table with another domain that either side reads.

Abstract specifications worth stating: the ledger of the workflow tables (1),
the history of the schema (2), the row explained by outcomes (3), the best
answer (4). Theorems worth proving: type correctness and the safety invariants
of 1 to 7, the refinements of 1 and 2, and what safety can say of their
liveness: who is about to do what must happen, and in how many steps (done;
section 6 names what is left to TLC).

## 3. The modules

### Workflow

`pc[h]` names the statement handler `h` executes next; the other variables of a
handler are the Go locals that survive from one statement to a later one.

| code | action |
|---|---|
| a request is routed and parsed | `BeginStart`, `BeginComplete`, `BeginGet` |
| StartWorkflow: template read, instance insert, one task insert per stage | `StartGetTemplate`, `CreateInstance`, `CreateTask` (`InsertTask` or `RejectTask`) |
| CompleteTask: GetTaskByID, UpdateTaskStatus, GetInstance, UpdateInstanceStage, GetTemplate, UpdateInstanceStatus | `GetTask`, `UpdateTaskStatus`, `GetInstance`, `UpdateInstanceStage`, `GetTemplate`, `UpdateInstanceStatus` |
| GetWorkflow: instance read, task read | `ReadInstance`, `ReadTasks` |
| CreateTemplate, PATCH status (one statement each) | `CreateTemplate`, `UpdateStatus` |
| the response is written | `Respond` |
| a statement fails, its result is lost, the process ends | `StatementFails`, `Crash` |

Abstractions. Ids are model values; a task is addressed by its instance and
stage, because the code creates one task per stage and reads nothing else of
it. A stage is its type (name and agent are copied, never examined). A client
completes tasks only of instances it was told of: ids are random UUIDs. A
statement whose context was cancelled either took effect before the failure or
did not; PostgreSQL executing it still later than that is not modelled.
`completions` and `announced` are history variables: nothing in a guard of the
code's own steps depends on them except which ids a client can name.

`WorkflowLedger` says what the tables promise with no handler in sight: tasks
appear in stage order while the instance is unknown, an instance is announced
only when whole, the stage moves only to values between 1 and the committed
completions, and "completed" is written by a client or when enough tasks were
completed. `Workflow` implements it with the tables mapped to themselves.

### Migrations

`next[s]` is the file process `s` looks at and `pc[s]` where it is in
RunMigrations or main. The questions "does the tracking table exist" and "is
this file applied" are steps of their own, outside the transaction that
follows. Between `Execute` and `Commit` a process holds the names its file
creates; a second process that executes the same file waits (`wait`) and, when
the first commits, fails unless the file only inserts with `ON CONFLICT DO
NOTHING` (`Resume`). PostgreSQL's part (`Holders`, `Resume`) is marked external
in the map. `Rerunnable` and `Seeds` describe the files: 001 to 004 use `IF NOT
EXISTS` or `ON CONFLICT` throughout, 005 to 010 contain a bare `CREATE TYPE`.
Waits between *different* files (through foreign keys) only delay a process
and are left out. `CommitUnheard` is a commit whose acknowledgement is lost,
`Die` the `log.Fatalf` of main or a kill; PostgreSQL rolls back what was open.

`SchemaHistory` is the promise: files take effect in order, each once, and no
process is up before the last.

### Weights

Same conventions as Workflow. The only components of a score that ever change
are the track record and the count: everything else keeps the value
ComputeWeight gives a new row (RecordOutcome sets recency to 1 and moves the
context fit half-way to 0.5, where it already is).

| code | action |
|---|---|
| a request is routed and parsed; UpdateAlpha checks the sum | `BeginCompute`, `BeginOutcome`, `BeginAlpha` |
| ComputeWeight: GetWeight; **any** error of it means the default row | `ReadOrDefault` |
| RecordOutcome: GetWeight (an error is returned), the running mean | `ReadAndAdd` |
| both: GetAlpha, whose error means the default coefficients; the score | `GetAlpha` |
| both: the row is written whole, ON CONFLICT DO UPDATE | `UpsertWeight` |
| UpdateAlpha: `INSERT ... (SELECT MAX(version) + 1)` | `AlphaMax`, `AlphaInsert` |
| the response, failures, the end of the process | `Respond`, `StatementFails`, `Crash` |

The INSERT of UpdateAlpha is one statement and still two steps: its subquery
reads a snapshot, and no unique constraint stops a second insert of the same
version. Scores are exact: integers in units of 1/`Unit`, the track record a
fraction. The code uses floats, so properties about sums say what it computes
up to rounding. `recorded` is a history variable that counts, for each outcome,
the writes that carried it. `Sums` holds the lemmas about sums over finite sets
that the proofs about it need; it models nothing.

### Matching

One goroutine, one statement, then loops over a slice: `Filter` is an iteration
of the first loop, `Filtered` its end, `Compare` an iteration of the inner
sorting loop, `NextPlace` its end, `Truncate` the cut at ten (`Limit`). Slices
start at 1 here. A row's text is abstracted to what `scoreCapability` finds out:
whether the task mentions the name and how many of its words the description
holds. Scores are multiples of 1/(2 words), so comparisons are exact; the code
compares quotients of the same integers with the same denominator, and 0.5 plus
such a quotient, which floats order the same way up to ties. `required_level`
"any" stands for the empty string and for every string that is no level.

### Rows, Directory and Records

Most routes of the remaining seven domains execute one statement each. What is
hard about them is not the statement but what happens around it, and that is
what `Rows` models once for all of them:

* `Insert` is an INSERT that no constraint refuses; `rows` counts them, up to
  `MaxRows`. Requests that are refused before their first statement, and
  statements that fail, change nothing and are no actions.
* `Answered(shown)` is the answer that shows the rows `shown`, *or its loss*:
  the client timed out, the connection broke, the process ended after the
  commit. `told` is the set of rows clients were told of. Ids are random UUIDs,
  so a request names only rows in `told`; a client that repeats a create whose
  answer was lost simply makes another request.
* `Scans(column)`: `Scan` cannot store a NULL in a Go string. The statement has
  committed by then.

A table is a sequence of rows in the order of their INSERTs; tables from which
rows go (`members`, `bindings`) and tables that are never shown (`permissions`,
`relationships`, `layerConfigs`) are sets. A handler that executes one statement
is one action, named as the handler; it calls the operator named as the
repository's method, which holds the constraints of the table (UNIQUE, foreign
keys, CHECK, ON CONFLICT). Handlers with two statements are two actions:

| code | actions |
|---|---|
| CreateReport: INSERT, UPDATE of the score, answer | `CreateReport`, `UpdateOverallScore`, `createReport`; cut short: `CreateReportFails` |
| GET /reports/{id}: the report, its reviews | `GetReport`, `getReport` |
| GET /traces/{id}: the trace, its spans | `GetTrace`, `getTrace` |
| GET /organizations/{id}: the organization, its MVRUs | `GetOrganizationByID`, `getOrganization` |

A report carries the state of the request that creates it (`request`), so any
number of creations may be under way; of each two-statement read one is under
way at a time, since reads do not disturb each other. `since` is a history
variable: what was there when the first statement read.

Data that no property tells apart is left out: names, descriptions, JSON
columns, roles' meaning, timestamps (a sequence number orders rows), the time a
token expires. An agent's number stands for its API key: the key is shown only
by the answer that shows the agent. Permission names are numbers in their sort
order. Scores of a report are integers in units in which its weights are 8, 7
and 5 twentieths. `Pages` has the two ways the code bounds the length of a list.

`GetOrgChart` is modelled by what its loops do to slices of structs: `roots`
copies a row before its children are attached, so the answer has two levels.
`CheckPermission` reads the whole list and lets its first row decide; of its
inputs the model has the action asked about, which changes nothing in the
answer, and leaves out the rest, which changes nothing either.

### Layering

Classify has no state. Scores count in hundredths, the weighted sum in
thousandths, exactly. A description is its length and the number of the listed
words of each kind that it contains.

## 4. Runs

| run | question | instance |
|---|---|---|
| `wf_safety` | do concurrent, failing and repeated requests keep the tables as the ledger promises? | 3 handlers, 2 instances, 1 template of two stages (or one the database refuses at its second stage), 5 requests, failures, crashes, PATCH back to active |
| `wf_live` | does every started instance get announced, and every one at its end completed; is there at every moment a handler about to do it; and is the count exact when requests come one at a time? | 2 handlers, 2 instances, a template of one or two stages, 5 requests, no failures, weak fairness; calm behaviours and others |
| `wf_order` | does the code keep the order Planner, Executor, Reviewer? (violated) | 1 handler, the default template, 4 requests |
| `mg_safety` | is each file applied in order, once, iff recorded, and nobody up too early? | 3 processes, 4 files (two `IF NOT EXISTS`, one seed, one bare), none refused or the third, 5 starts, failures |
| `mg_live` | do racing processes leave one that serves, and never all wait or stop before? | 3 processes, 3 files, 4 starts, no failures, weak fairness |
| `mg_compose` | does the backend come up on the ten files of the repository? (violated) | 1 process, 10 files, 3 starts |
| `we_safety` | is every stored row the mean of reported outcomes, with the score that fits it; and is nothing lost and no version shared when requests come one at a time and nothing fails? | 3 handlers, 1 actor, outcomes 0 and 1.0, coefficients that sum to 1.05, 0.95 and 1.5 (refused), 5 requests, failures, crashes; calm behaviours and others |
| `di_safety` | does what nobody was told of stay inert, and do charts, unbinding and the permission gate do what the code can keep? | 5 INSERTs over all tables of four domains, any answer lost; 1 email and password, 2 roles, 1 capability name, 1 layer, 2 permission names, levels 0 (refused), 1, 2, behaviors "deny" and an unknown one |
| `re_safety` | do scores, reviews, traces and signals stay what they were reported to be, through retries, cut-off requests and two-statement reads? | 3 INSERTs over all tables of three domains, any answer lost; reports without scores or with the score zero, of one workflow or none; 2 results, 2 priorities, limits 0, 1 and 101 |
| `di_humans` | is whoever registers let in with its own credential, human or agent? (violated) | as `di_safety`, 2 INSERTs |
| `re_experiments` | does the list of experiments show them? (violated) | as `re_safety` |
| `ma_rank` | does the sort end with the best matches? | all tables of up to 3 rows, tasks of up to 2 words, all levels, limit 2 |

Why these bounds are enough for the interesting cases. Losing an advance takes
two handlers in CompleteTask on one instance and two stages; that the third
handler meanwhile reads, starts or is patched over takes a third. Five requests
are one start, three overlapping completions (one more than there are stages,
so a repeated one is among them) and a read. A race for a file takes two
processes; the third arrives after the first has committed and while the second
still waits. Five starts let every process start and two start again. One
actor suffices for `we_safety` because requests about different actors touch
different rows; losing an outcome takes two handlers between read and write, a
third changes the coefficients or makes the actor known again meanwhile. Five
requests are that and the one that made the actor known. In `ma_rank` three rows
with a limit of two have a row to lose at the cut, and every order of three
scores, ties included, meets the sort.

A *calm* behaviour is one in which no two requests overlap and, in `we_safety`,
nothing fails: the MC modules pick `calm` in the initial state and leave out the
other steps. What is exact then (`CalmExact`, `CalmVersions`) is checked beside
what holds always, on the same instance.

`CHECK_DEADLOCK FALSE` where requests, process starts or the steps of a loop are
bounded: when the bound is reached the system rests in an idle state. The
runs over `Rows` need it not: a list can always be asked for.

Five INSERTs in `di_safety` are an organization, an MVRU, a capability, a
binding and, after an unbind, another binding of the same two; or two
organizations with an MVRU below an MVRU of the other and one below that; or an
agent who is made a member, and again with another role, beside one whose
answer was lost. Three in `re_safety` are a report and two of its reviews, or a
trace with a span and a span below it, or two reports of which one is cut off
and a review of it. Requests that insert nothing are not bounded: the states
they reach are finite without it, so every one may be repeated at any time.

**Fairness.** `WF_vars(Step(h))`: the Go scheduler runs every goroutine and the
database answers, so a statement that can be executed is. In
Matching `WF_vars(Next)`: nothing blocks a loop over a slice. No fairness is
assumed of clients (they need not call), of failures, or of process starts
(`docker-compose.yml` has no restart policy). The liveness runs have no failures
because a failed request simply ends; the code promises nothing after it.

## 5. What the runs show

Everything the two abstract specifications promise holds, under all
interleavings and failures of the instances above. Concurrent RecordOutcome and
ComputeWeight calls do lose outcomes - a whole row is written back - and a read
that fails makes ComputeWeight start over; what `we_safety` shows is the limit
of the damage: no outcome is counted twice, no row mixes two writes, no score
leaves its range, and only ComputeWeight makes an actor known. Updates of
the coefficients that run at the same time may share a version
(`VersionsShared`, section 6, bounds how many), but the versions have no gap; and
when requests come one at a time and nothing fails, nothing is lost and no
version is shared (`CalmExact`, `CalmVersions`).

What `di_safety` and `re_safety` show of the other domains, in the terms of a
reader of the API:

* A create whose answer is lost leaves a row behind that nothing ever refers to
  (`UntoldIsInert`, `UntoldIsUntouched`); repeating the create is safe, except
  where a name or an email is unique.
* The chart of an organization shows every MVRU that was there when the request
  began *if* it is a root or directly below a root of the same organization
  (`ChartIsHonest`); deeper ones, and those below a foreign MVRU, never appear.
* A report may stay without its score when the request that creates it is cut
  off, and is listed and reviewed nonetheless; but a creation that was answered
  has its score, and no report ever shows another one (`AnnouncedIsScored`).
* One permission of the lowest level decides every question (`DecisionKept`):
  adding permissions that sort later never changes any answer. That the answer
  ignores the question is in the model as it is in the code; no property says
  it, for in the model it would hold by construction.
* Nothing written down is lost or undone (`RecordsKept`): of the seven tables of
  rows in `Records` no row goes, what is settled in a row stays, and a statement
  touches at most one row that was there.

Four runs end in a counterexample, each to a statement of the repository:

* **`wf_order` (README.md:9 against *B*/workflow/service.go:93).** The README
  describes three stages one after the other. CompleteTask looks neither at the
  stage nor at the status of the task it is given: the review can be completed
  first, and the instance counts that as progress. Completing one task three
  times completes a three-stage workflow; `CompletedIsEarned` therefore counts
  completions, not tasks.
* **`mg_compose` (README.md:42-44 against migrations/003_organization.sql:47).**
  `PRIMARY KEY (mvru_id, COALESCE(user_id, agent_id))` is not accepted by
  PostgreSQL, where a key constraint lists columns. RunMigrations returns the
  error, main exits, and no later start fares better. `RefusedStops` shows the
  good side of it: nothing after the file is ever applied.
* **`di_humans` (README.md:3, :7 and :65 against *B*/identity/repository.go:21).**
  The README is about a mixed workforce in which agents and humans are treated
  alike, all nine domains are said to be complete, and the frontend offers
  humans to sign in and to register. `avatar_url` is NULL in every row of
  `users` and is scanned into a string. Registration commits the row and
  reports an error, repeating it meets the unique email, and the login cannot
  read the row. `HumansShutOut` (section 6) says how far this goes: no human
  ever gets an id, a token or a membership. Agents work.
* **`re_experiments` (README.md:11 and :65 against
  *B*/evolution/repository.go:119 and :141).** The loop the README describes
  goes through experiments. `conclusion` is NULL in a new row and is scanned
  into a string: each creation reports an error and the list fails from the
  first row on, so that no client can name an experiment to update it
  (`ExperimentsUnreachable`, section 6).

The domain modules take the schema of all ten files as given, as it is once
that line is repaired.

## 6. Proofs

All theorems are proved for any constants that satisfy the assumption of their module:
`ConstantsAssumption`, `MigrationAssumption`, `WeightsAssumption`, `MatchingAssumption`,
`RowsAssumption`, `NullAssumption`, `PagesAssumption`, `VerificationAssumption`,
`EvolutionAssumption`, `GovernanceAssumption` (finitely many handlers; the bounds are natural
numbers; posted lists have at most `MaxStages` stages; ids and values are distinct from the null
values; scores, limits and priorities are integers; the outcomes a run posts are finitely many, so
that they can be summed). The bounds on requests and starts play no role in them.

A property of a liveness run has two parts that are safety, and both are proved:
at every moment some process is about to do what must happen, and every step of
a process lowers a count of the steps it has left, so that it gets there if it
goes on. The last part, that it goes on, is fairness and stays with TLC.

**WorkflowProofs.** `StageIsBacked` is not inductive: a handler about to write
the stage holds a value read earlier, so the invariant must say that this value
is itself backed, counting the handlers on their way without it. `IInv`
conjoins, per handler, what its position implies: `StartOK` (the tasks of
stages below `at[h]` exist, the instance is not announced and no other handler
creates it - `CreatorsDiffer`), `AdvanceOK` (the stage to be written is at least
1 and at most the completions; it has reached the end when the status is to be
written) and `ServeOK` (the instance named by a request is announced; the stage
read earlier is backed by a completed task in the rows read later). `RowsOK`
relates the tables to each other. The step theorem has one case per action and
under it one step per conjunct the action disturbs; counting arguments on
`Pending` use the library's facts on cardinality. `LedgerImplemented` maps
every action to an action of `WorkflowLedger` or a stutter.

`SerialExact` says of instances with one request at a time what `CalmExact` says
of calm behaviours. It speaks of moments when no request is under way; `SerialInv` adds
what holds in between: at most one handler is busy, an instance nobody is
advancing is settled, and for the one that is (`MidwayOK`) it says, statement by
statement, how far stage and status lag behind the completions. `EndHasFinisher`
is inductive as it is: only the handler that writes the last stage makes it
apply, and that handler goes on to read the template and write the status.
`StartedHasStarter` needs `GoodTemplates`, that the templates hold no type a
task insert could be refused for. `Bounded`: a handler has at most
`MaxStages + 7` statements left and each of its steps lowers the number.

**MigrationsProofs.** `RecordedOnce` holds because a file that fails does so
inside its transaction, but that is no help after the check: two processes may
both be between check and commit of one file. The invariant says that at most
one process is beyond `Execute` on a file without effects, that a process
beyond it on a file *with* effects has nothing recorded to add unless its
`Record` will find the row and fail, and that every process has all files
before `next[s]` applied. From it follow uniqueness, `RefusedStops` and the
refinement of `SchemaHistory`, whose order (`AppliedIsPrefix`) and whose promise
about servers (`ServingIsMigrated`) are theorems of their own.

`RestIsServing` rests on `SomeoneSurvives` - processes that were started are
never all down - and that needs a witness that changes: once the tracking table
exists, some process *leads*, which means that it has not stopped and that its
file is not applied (`Leads`). A commit by another process that ends the lead of
one makes the committer the leader, for it goes on to a file nobody has applied
(`LeaderGoesOn`). And whoever waits, waits for a transaction whose process can
take a step. `Bounded`: a start takes at most `5N + 4` steps, five for each file.

**WeightsProofs.** The invariant carries a row through a handler: the row in
memory has a score under known coefficients once it is about to be written
(`HandlerOK`), and if the actor is unknown at that moment it is neutral, because
only ComputeWeight goes on without a row and rows are never deleted. `RowsOK`
says the same of the table. `VersionsOK` says that the versions are 1 to n and
that what an insert saw is at most n. The bound on a score is arithmetic on
fractions (`ScoreType`, `AddOutcomeType`): the cap gives the upper bound for
any outcomes and coefficients.

`VersionsShared` says that a version stands for no more coefficients than
requests are in flight together; with one at a time, for one. It is not
inductive: an insert under way may be about to add another row. `SharedInv`
counts both, the rows of a version (`OfVersion`) and the inserts about to add one
(`Inserting`). A new insert aims beyond the newest version, where there are no
rows and at most `MaxInFlight` requests; once a row is there, no insert joins,
and one that ends gives its place to its row.

`RowExplained` says that a row is the mean of *some* of the outcomes recorded for
its actor. The invariant, `MeansInv`, says it of the rows in memory too, where
the outcome a handler has just added is not recorded before the row is written;
a write that overwrites others takes its smaller part of the outcomes with it.
`SerialInv` replaces "some" by "all" when requests come one at a time. The sums
over the outcomes come from a recursion on their subsets, which the library's
induction theorems do not reach (they take a predicate as a parameter). `Sums`
proves what is needed by a least counterexample instead: the strict subset
ordering of a finite set is well founded, so a set of subsets on which a claim
fails has a least member (`Least`), and the recursion takes one element from it.

**MatchingProofs.** The invariant of the exchange sort is `Ordered`: the places
before i are settled against everything after them, and place i against those
before j. `ExchangeOrders` shows that putting the better of i and j first
settles i against j and disturbs nothing settled; `ExchangeAccounts` that an
exchange keeps the list's elements, each once. At the end everything is settled,
so what the cut drops is no better than what it keeps. `Bounded`: the loops over
n capabilities end within (n + 3)(n + 4) iterations.

**DirectoryProofs and RecordsProofs.** Both have the same shape. The inductive
invariant has a part per domain, over the domain's own tables and `told`. A step
of a domain is shown to keep its own part, to *keep* its tables (none loses a
row others refer to) and to *tell* only rows of its own tables; a frame lemma
per domain then says that a step of another domain, which keeps and tells,
leaves the part alone. So the proof has one step per action, not one per action
and domain. The parts are stronger than the properties where these only forbid:
`UntoldIsInert` denies references to rows nobody was told of, `Referred` and its
like say that whatever is referred to was told of, which is what a step can use
and what `told`, growing, preserves.
`ChartIsShowable` shows that the loops of GetOrgChart compute the set `Showable`
that the property is stated with. `FirstStays` is `DecisionKept` by
transitivity of the sort order. In Records, the score of an open report is none
or the right one, and a report is answered only in the latter case. `Kept` goes
through the actions once: `Touched` names the rows of a table that a step
changes, each lemma says that one form of statement (an append, an update of one
place, none) touches none or one, and since a statement is about one table the
union over all tables is none or one as well.

Two theorems say how far a finding goes, of which its counterexample is one
example only. `ShutOut` proves `HumansShutOut`: no order of requests gets a
human an id, a token or a membership. It needs that `told` holds no user at all
(`ToldInv`) and that the login's read fails (`NoSubjects`). `Unreachable` proves
`ExperimentsUnreachable`: every experiment stays as its INSERT left it, and no
client learns its id.

**Layering.** Four theorems for every score and description: the layer is
monotone in the scores; one score alone reaches tactical only by risk and
strategic never; an estimate without words of both kinds is never strategic;
and three zeros are not the limit of small scores (`ZeroesAreEstimated`).

Only model-checked: the four liveness properties (`StartedIsAnnounced`,
`EndReachedIsCompleted`, `ServesEventually`, `Answers`), because fairness is
about ENABLED, which the prover does not reason about. Every other property of
a run that passes is stated by a theorem, except that `SerialExact` and
`VersionsShared` stand for the properties of calm behaviours, which are the
behaviours of instances with `MaxInFlight = 1` and without failures. The
properties of the findings are violated and have none.

## 7. Not modelled

Each component's status and reason is in `PROJECT.json`. Left out:

* `recordDecision` and `updateContext` of the workflow domain: one statement
  each, on tables that nothing else reads or refers to.
* Code without a caller: ValidateToken and `AuthMiddleware` (no route verifies a
  token), RecordInvocation; and `layer_routing_rules`, which no code writes.
* Reads of one statement that tell their caller no id it did not have, and lists
  nobody's requests depend on (templates, knowledge, permissions, rules,
  metrics, layer configurations).
* The rounding of floating-point sums: scores, coefficients and estimates are
  exact here, so a sum that meets a threshold exactly may fall on the other side
  in the code. Two hazards in `PROJECT.json` say where.
* Statements whose connection is cut and that PostgreSQL executes later than
  their request ends.
* Tokens beyond their subject, password hashing and request formats; the
  frontend, configuration and gateway, which keep no state.
