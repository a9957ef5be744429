# Verification of mysql-schema-sync

The tool compares the schemas of two MySQL databases and makes the destination's tables look like
the source's, by executing (`-sync`) or printing `ALTER TABLE` and `CREATE TABLE` statements.  This
directory holds TLA+ models of it, their TLC configurations, and proofs checked by TLAPS.

    tlc -config MCExecutePlan.cfg MCExecute.tla      # one run
    tlapm ExecuteProofs.tla                           # the proofs about it

A definition that a comment calls a mutant is one no specification uses: it is a plausible bug in
the definition after it, kept to see that a property notices it (`mutants` in `PROJECT.json`).

## 1. The system

| Part | Where | State it keeps | Operations |
|---|---|---|---|
| Command line, configuration | `main.go`, `config.go` | `Config` | load, override by flags, match tables and ignore lists |
| Reading of a database | `db.go` | a connection pool | list tables, `HasTable`, `SHOW CREATE TABLE`, `INFORMATION_SCHEMA.COLUMNS`, `Exec` with a timeout |
| Parser | `schema.go`, `index.go` | `MySchema` of one table | fields, indexes, checks, foreign keys from the text of a table |
| Comparison | `sync.go` | `TableAlterData` of one table | clauses, their order, their grouping into statements |
| Planning | `execute.go` | list of execution items | order of tables, phases, temporary removal of foreign keys, refusal |
| Execution | `execute.go` | `detachedFKs`, first error, `runErrors` | verify, execute, compensate, report what stays detached, compare again |
| Report, mail | `statics.go`, `email.go`, `timer.go` | one record per statement | HTML file, mail |
| Report web server | `statics.go` | listener, signal goroutine | serve the file, shut down |
| Texts | `schema.go`, `index.go`, `alter.go`, `execute.go`, `util.go` | none | quote, find where a name, a list or the definitions of a table end |
| Batch script | `check.sh` | lock file or directory | one run per configuration |

A run is sequential: `main` calls `Execute`, which lists the tables of both databases, reads each
by up to six queries, plans, reads the tables to be altered again, sends one statement after the
other, and compares again.  What makes it hard is the world around it.  Nothing spans two calls: no
transaction, no lock.  Between any two of them another session may change either database, the
process may die, and any call may fail, or fail and yet have been executed.  And the statements
depend on each other: MySQL refuses to retype a column, or to drop the index, that a foreign key of
any table uses.  The tool therefore orders its statements in three phases (foreign keys go first,
come last) and takes foreign keys of *unchanged* tables out of the way for the time between.  Those
are the ones it must never lose.

What makes each part correct:

- comparison: executing its clauses makes the tables equal; without `-drop` nothing is removed;
  ignored things are not touched; columns land where the source has them;
- planning: every statement is acceptable when its turn comes; nothing protected is touched even
  for a moment;
- execution: no statement after a failure but the restores of what this run took away; success
  means convergence; every constraint taken away is back or named in the error; no plan from an
  incomplete or outdated view; after a crash the next run repairs what is missing;
- batch script: no two runs at once; the lock of a dead invocation does not block for ever;
- report and web server: a reader sees a whole report, never an older one after a newer one;
  whatever fails, the run gets to its end or to its page; a server told to stop stops;
- texts: whatever characters a name or a comment has, what was written is what is read back.

Two things share state across runs.  The report file is by default the same for all of them, and
every run that serves a page serves that file.  And the batch script's invocations share its lock.

## 2. The modules

| Module | Models | From |
|---|---|---|
| `Selections` | the elements of a sequence that pass a test, a set in order | loops with `append`, `sort` |
| `SchemaDiff` | comparison of one table, as operators | `sync.go` 55-609, `index.go`, `schema.go`, `db.go` |
| `DestServer` | the destination server (external): what it accepts, what a statement does | how `sync.go` and `execute.go` use it |
| `ExecutionPlan` | from the differences to the ordered items, as operators | `execute.go` 316-688 |
| `Execute` | runs, as a state machine, with everything that can happen to them | `execute.go` 29-314, `main.go` |
| `SyncContract` | what a run promises about the foreign keys it takes away (abstract) | |
| `MCExecute` | small databases and configurations for TLC | |
| `ExecuteProofs` | theorems about `Execute` | |
| `WayProofs` | the theorems that a plan of `Execute` knows all tables, and that nothing stands in the way of a statement | |
| `DiffProofs` | lemmas about `SchemaDiff`, `DestServer` and `ExecutionPlan` | |
| `Recursion` | functions defined by recursion, for the other proofs | |
| `SequenceFacts` | induction, and lemmas about the operators on sequences that the models are built from | |
| `SchemaText` | the scanners of quoted names, lists, definitions and clauses, over tokens | `schema.go`, `index.go`, `alter.go`, `execute.go`, `util.go` |
| `MCSchemaText` | names and comments for TLC | |
| `TextProofs` | theorems about `SchemaText` | |
| `Report` | the end of a run: report file, mail, web server, signal, readers | `statics.go` 218-290, 367-551, `email.go` |
| `ReportRegister` | what a reader may expect of the page (abstract) | |
| `MCReport` | runs and addresses for TLC | |
| `ReportProofs` | theorems about `Report` | |
| `CheckLock` | invocations of the batch script and their lock, as a state machine | `check.sh` |
| `MCCheckLock` | a few invocations for TLC | |
| `CheckLockProofs` | theorems about `CheckLock` | |

`Execute` extends `ExecutionPlan` and `DestServer`, which extend `SchemaDiff`, and implements
`SyncContract`.  `SchemaDiff` and `SchemaText` extend `Selections`, whose `Only` and `InOrder` are
`SelectSeq` and `SortSeq` in terms the provers can unfold.  `Report` implements
`ReportRegister`.  `SchemaText` and `CheckLock` stand by themselves.  `Report` begins where `Execute` ends: `RunOver` is the deferred call that writes the
report, and `RunEnds` of `Execute` is why it happens.

### How state corresponds to the code

A table is a record of `cols`, its default `charset`, `idx`, `checks` and `fks`.  A column is a
record: `type` stands for what `INFORMATION_SCHEMA` reports of it except its character set and comment, which are
fields of their own, and `spelling` for how `SHOW CREATE TABLE` writes it, so that two columns can
differ in text and be equal (`FieldInfo.Equals`, `SameField`), or have one text and differ in
character set because the line leaves out the table's default (`Line`).  `Parse` is
`ParseSchema(RemoveTableSchemaConfig(text))`: it loses the default and, if the comment of a column
says `) ENGINE`, everything from that column on.  It also puts indexes and CHECKs into one
map, though the server gives each names of their own.  A missing table is `NoSchema`, as the code's
empty text.  Table options and partitions, which the code cuts off, do not exist.  Tables and
foreign keys are numbers, in the order in which their names sort.

A clause is a record with its operation; a statement has a table and a sequence of clauses, or, for
`CREATE`, the schema to create.  The code sorts a list of execution items; the model keeps them as a
set in which each carries what decides its place, and `Precedes` is the order the stable sort gives.

| Variable | In `Execute` (the function) |
|---|---|
| `queue`, `call`, `rd` | the loop over tables and the local variables of `getAlterDataByTable` |
| `snap` | `allTableSchemas` |
| `alters`, `items` | `alters`, `items` |
| `todo`, `failed`, `skipped` | the position in `items`, `alterRet`, `st.skipped` |
| `detached` | `detachedFKs` |
| `errs` | `runErrors` and the returned error, by kind |
| `src`, `dst`, `drift`, `faults`, `runs` | the world: databases, whether another session acted, faults and runs so far |

Each query is a step (`QueryTable`), so other sessions act between any two.  `ListTables` is one
step: its two lists come from different servers, one read of each.  A statement and what the server
does with it are one step (`ExecuteItem`); MySQL's DDL is atomic.  A call may fail before or after
it took effect (`StatementFails`).  `MakePlan` is one step because planning makes no call.

`CheckLock` stands by itself: one step is one command of the script, because other invocations and
`SIGKILL` come between any two.  `at` is the place of each invocation, `held` the open file `flock`
locks, `dir` the lock directory, `file`, `open` and `pid` its file, who has it open and what is in it, `seen` is `old_pid`.  `rm -rf` is two steps
(`Unlink`, `RemoveDirectory`), as it is two calls to the kernel, and `echo $$ >` creates the file
before it writes it (`CreatePid`, `WritePid`), so that another invocation may read an empty one.  A tool whose script is killed goes
on and, having inherited file descriptor 9, keeps the lock.  `Configs` bounds the configuration
files and `MaxKills` the deaths; a pid is never used again.

In `Report` one step is one call.  `pc` is where a run's main thread is, `temp` its temporary file,
`report` the file they rename over, `address` the flag `-http`, `handler` the goroutine that waits
for a signal, `conn` the request of each reader.  `published`, `seen` and `unremoved` are history.
Which temporary files are an hour old is left open: a process may be stopped for as long as it likes,
so `CleanTemps` removes any of those there are.  A file that was removed while it is written is
written all the same (`WriteTemp`), but its rename fails; `os.ReadFile` opens the file there is and
reads that one to the end (`Open`, `Answer`).  Every call may fail, also `os.Remove`, whose error the
code does not look at: a run that removes its temporary file in vain goes on without it
(`RemoveTemp`, `unremoved`), and `CleanTemps` need not remove all it finds.  Every process may die at
any step.  A mail is on its way (`sending`) until its server answers, which it may never do
(`MailAnswers`), or until the minute is over that its context gives it (`MailExpires`).

In `SchemaText` a text is a sequence of tokens: a character one of the scanners looks at, a keyword,
or `a` for any other character.  The state is a name and a comment that are typed token by token, so
that TLC meets every pair up to the bound; each property writes them into a text as MySQL or the tool
does (`QuoteIdentifier`, `Literal`) and reads them back as the tool does.

## 3. The runs

| Run | Question | Starts and bounds | States |
|---|---|---|---|
| `plan` | `PlanAccepted`, `OkMeansConverged`, `UnplannedConstraintsSurvive`, `AnchorsPresent`, `NothingInTheWay`, `ScopeRespected` | nobody interferes; see below | 449,924 |
| `faults` | `DetachedOnlyIfRestoreFailed`, `UnplannedConstraintsSurvive`, `PlanFromAllTables`, `StalePlanRefused`, `FailFast`, `ImplementsContract`, `RunEnds` | up to two failing calls (`MaxFaults`) and one change by another session, in either database, between any two calls | 50,646 |
| `crash` | `TypeOK`, `CrashHeals`, `LossesUnanswered`, `NothingDroppedUnasked` | a crash anywhere or one failed statement, executed or not, then a second run (`MaxRuns`) | 7,765 |
| `text` | `NamesReadBack`, `ColumnsNeverCutShort`, `OnlyCounterRemoved`, `ForeignKeysReadBack` | all names and comments of together up to four of nine tokens (`MaxTokens`) | 35,983 |
| `lock` | `LockTypeOK`, `FlockExcludes`, `LockLetGo`, `FlockNeverStale`, `LockComesFree` | three invocations, with `flock` and without, two configurations each, two deaths | 87,575 |
| `report` | `ReportTypeOK`, `ReportIntact`, `LeftoversExplained`, `ImplementsRegister`, `RunsEnd`, `SignalStops` | two runs and a reader; one address, two, none, or one that is refused; any deaths and failures, also of removals, and a mail server that may never answer | 271,006 |

The starts of `plan` are: all pairs of valid two-table databases from six parents and eight children
under six configurations; three tables, each of which may reference the next, the last one the first
or itself; a table with more constraints than the database has tables; 72 configurations of
whitelist, ignored tables, columns and constraints; tables whose columns differ in comment,
character set, type or only in spelling; and tables whose indexes and CHECKs are added, replaced or
dropped together with their columns.

Two tables are enough for everything between a parent and a child; three give every shape of
references that matters to an ordering by phases: a chain, a cycle, a self-reference.  Parents
differ in type, spelling, order and number of columns and in the primary key; children in type, in
the name of the index that serves the constraint, in the rule of the constraint and in how many
there are.  Two faults are one statement that fails and one restore that fails.  One outside change
is enough because a run verifies every table once.  Three invocations are what a race for a stale
lock takes: the one that left it, and two that find it.  Two runs are one that stands still and one
that cleans up after it, or one that serves and one that publishes; a reader's requests are
independent of another's.  Four tokens are two quotes to imitate an end and its escape, or three
after one that misleads.

What they show beyond single functions:

- `PlanAccepted`: no statement of a plan is ever rejected, provided nothing is ignored and nobody
  interferes.  It does not hold when the destination has constraints of its own that are kept
  (`NothingForeignKept`): those are the user's.
- `NothingInTheWay` is the half of `PlanAccepted` that is the tool's own business: whatever is ignored
  or kept, and whoever owns a constraint, none references a column or key that the next statement
  changes or drops.
- `OkMeansConverged` uses `Converged`, which states the goal without the comparison, and covers
  child tables, which are not in the recheck.
- `CrashHeals`: detached constraints need no journal; to the next run they are ordinary differences.
- `UnplannedConstraintsSurvive` in `faults` assumes that a statement whose call failed was not
  executed.  Without it the property is false, which is the run `lost_detach`.
- `LossesUnanswered`, checked among such statements and crashes, is what is left of it then: a run
  that ends has lost a constraint without naming it only if that constraint's own detach came back
  with an error.  So `lost_detach` is the one way to lose one.
- `NothingDroppedUnasked`: an index or CHECK that is to change is dropped and added, also without
  `-drop`; what must not happen is that one goes and nothing of its name takes its place.
- `StalePlanRefused` is checked among failing calls: neither a failed verification nor a restore
  lets a plan made from a mixture of states reach the server.
- `PlanFromAllTables`: whichever of up to six queries about a table failed, a plan that reaches the
  server was made with every table known as it is; a table that could not be read cannot hide the
  constraints it has.
- `ScopeRespected` speaks of every table that is there when a statement is sent, those without a
  difference of their own included: their ignored constraints are the ones that the temporary removal
  could touch.  A table that this run creates gets its ignored constraints once, when it is created.
- `FailFast` names all that may change after a failure: a constraint this run took away comes back as
  it was read, and the server may make an index for it.
- `OkMeansConverged` claims the character set of columns only between tables with one default, since
  the default itself is cut off and never synchronised.
- `ReportIntact`: the rename publishes the run's own whole text, also when another run took its
  temporary file for a dead one's in the middle of writing.
- `LeftoversExplained`: the code calls whatever it finds "a crash artifact" (`statics.go` 501).  It may
  also be the file of a run that lives and could not remove it (527, 543, 548), and there is no third.
- `RunsEnd`: a mail server that takes the connection and never answers keeps no run from its end or
  its page.
- `SignalStops`: a signal stops the server also when it comes before the listener is open, or while
  opening it fails.  A signal before the goroutine waits for it ends the process (`Die`).
- `ColumnsNeverCutShort`: a parenthesis in a referenced column's name makes the list unknown, and
  unknown means that every change of the parent counts as a change of these columns.
- `FlockExcludes` and `FlockNeverStale`: it is the inherited file descriptor that makes both true.
  If the tool closed it, a dead script's tool would run beside the next one.  `LockLetGo` says that
  without `flock` even invocations that remove each other's directories leave none behind.

Deadlock is checked wherever there are steps to be stuck between: runs stop only in `Stopped`, the
end of the last run, invocations of the script only in `Finished`, the processes of `Report` only in
`Over`.  In `text` it is off, because typing ends at the bound.

Fairness:

- `Execute`: weak fairness of `ToolStep`, for `RunEnds`.  The tool is one thread, and every call it
  makes has a deadline (`dbMetadataTimeout`, `dbDDLTimeout`), so a step that can be taken is taken.
  It is written out: a run that is not over always has a step (otherwise it would deadlock, which
  the runs check), so either it is over again and again or steps are taken again and again.  Nothing
  is assumed of other sessions, crashes or further runs.
- `Report`: `WF_vars(MainStep(r))` and `WF_vars(HandlerStep(r))`, for `RunsEnd` and `SignalStops`.
  They are the main thread and the goroutine of a process: its calls on files and on the listener
  return, and `Shutdown` waits five seconds at most.  Of the mail only its deadline is fair
  (`MailExpires`, a part of `MainStep`): `SendMail` sends under a context that ends after a minute, and
  that `Send` heeds it is the one thing assumed of the library.  The answer of the mail server is not
  (`MailAnswers` is outside of `MainStep`), so without the deadline `RunsEnd` fails, which its mutant
  shows.  Nothing is assumed of readers, signals or deaths.
- `CheckLock`: `WF_vars(Step(i))` of each invocation, for `LockComesFree`.  A process the kernel can
  schedule goes on, and a tool ends because every run does.  Nobody has to launch an invocation.

### Disagreements

Six runs end in a violation, each of a sentence in the repository (`findings` in `PROJECT.json`):

- `stale_child`: the verification of the plan leaves out the child tables whose constraints are
  taken away, so a constraint another session redefined meanwhile gets its old definition back.
- `foreign_in_comment`: a new column whose comment says ` FOREIGN KEY ` pulls the table's constraints
  into the phase of ordinary changes, and the server may reject the plan (`PlanAccepted` fails too).
- `engine_in_comment`: a column of the source whose comment says `) ENGINE` ends the table for the
  parser; with `-drop` the destination loses this column and all that follow.
- `lost_detach`: a detach the server executed but whose answer is lost is neither undone nor named.
- `lock_stuck`: without `flock`, an invocation killed between `mkdir` and the writing of its pid
  leaves a lock that is never recognised as stale.
- `shutdown`: `ListenAndServe` returns as soon as `Shutdown` begins, nobody waits for `Shutdown`, and
  `Close` and the exit cut off the answers it was waiting for.

Known as well, without a run of their own:

- With `-drop` and single changes, the index that serves a foreign key cannot be renamed: its drop
  is sent before its successor is added, and refused, in every run.  Nor can an index or a CHECK be
  replaced whose only column is dropped: it is gone when the statement that replaces it comes, which
  fails; the next run adds it.  `PlanStarts` has no single changes together with `-drop`.
- An index and a CHECK of one name hide each other in the map: the index is never compared, and the
  run that leaves it out reports success (`OkMeansConverged` fails; `KeyedStarts` has no such table).
- Without `flock`, an invocation that is about to remove a stale lock may remove the one another has
  just taken, and two tools run at once.  The script warns of it (`check.sh` 40).
- Columns of one text mean different character sets in tables with different defaults, and count as
  equal; the default of a table may also change unnoticed between plan and execution.
- With `skipTs` and `fieldOrder` together, two columns that are left a `datetime` and have changed
  places stay where they are: the comparison goes on to the next column before it looks at the place
  (`sync.go` 341), and the run reports success.  No start has two such columns.
- A parenthesis in the table's own name misleads the search for the end of its definitions
  (`OnlyCounterRemoved` leaves it out).

## 4. The proofs

`ExecuteProofs`, and `WayProofs` for the last two of them, prove for all tables, databases,
configurations, outside changes, faults and numbers of runs, from `ConstantsAssumption` alone:

| Theorem | States |
|---|---|
| `TypeCorrect` | `Spec => []TypeOK` |
| `DetachedCorrect` | `Spec => []DetachedOnlyIfRestoreFailed` |
| `ContractImplemented` | `Spec => ImplementsContract`, that is, `Execute` implements `SyncContract` |
| `PromiseKept` | `Spec => []Contract!KeptPromise` |
| `StalePlansRefused` | `Spec => []StalePlanRefused` |
| `ScopeKept` | `Spec => ScopeRespected` |
| `NothingIsDroppedUnasked` | `Spec => NothingDroppedUnasked` |
| `FailsFast` | `Spec => FailFast` |
| `UnplannedSurvive` | `Spec => []UnplannedConstraintsSurvive`, if no statement that fails was executed |
| `OnlyUnansweredDetachesLose` | `Spec => []LossesUnanswered` |
| `OkIsConverged` | `Spec => [](PlainTables => OkMeansConverged)` |
| `AnchorsAreThere` | `Spec => [](NoneMistaken => AnchorsPresent)` |
| `WayIsClear` | `Spec => [](NoneMistaken /\ NoneCut => NothingInTheWay)` |
| `PlansKnowAll` | `Spec => []PlanFromAllTables` |

The hypothesis of `UnplannedSurvive` is the one under which the run `faults` checks it, and
`lost_detach` shows that it is needed.  The other three are about what the tables say:

- `PlainTables`: no comment cuts the text of a table short, no index and CHECK share a name, whether
  a column has a character set follows from its type, and not `skipTs` together with `fieldOrder`.
  Section 3, "known as well", and `hazards` say what goes wrong without each; all starts of `plan`
  satisfy it.
- `NoneMistaken`: no comment of the source that passes a column off as a foreign key
  (`foreign_in_comment`): the clause that adds it goes last, behind those that refer to the column.
  And in the same group go constraints that are added: where two tables reference each other, one
  then adds its constraint before the other has changed the column it references.
- `NoneCut`: no text of the destination is cut short by a comment.  A constraint after the cut is not
  read, so it is not taken away before the column it references changes.  TLC finds a counterexample
  to `NothingInTheWay` without either of the two; both are the tool's limits, not the proof's.

### The state of a run

`TypeOK` is not inductive by itself: that what failed belongs to the current plan needs `Idle`, that
nothing has failed before there is a plan.  `DetachedOnlyIfRestoreFailed` speaks of the end of a run;
the invariant behind it, `Kept`, speaks of its middle:

1. `Paired`: what takes a constraint away is in phase 0 and has a restore in the same plan; restores
   are in phase 2 (`PlanPaired`, a lemma about the plan itself);
2. `RestoresAhead`: while a detach is to come, all restores are (they are in a later phase and the
   items are taken in order: `RestoreIsLast`);
3. `Accounted`: each detached constraint has its restore ahead or among the failed statements: by 1
   and 2 when it is detached, and afterwards because `SkipItem` skips no restore of it;
4. `Ended`: a run that ended has nothing ahead, or has detached nothing.

The refinement maps `status` to how the run stands, `gone` to `detached` and `tried` to the
constraints whose restore failed.  Every action is a step of the contract or leaves these alone.

`StalePlansRefused` needs `Verified`: unless another session acted during verification or later,
every table verified so far is as it was read, and with all of them verified, so is every table the
plan changes.

### From two texts to what a server is told

From `ScopeKept` on they say what a statement does, and that depends on everything before it: what was read,
what the comparison made of it, what the plan made of that.  `Orderly`, the invariant behind them,
holds each of these in relation to the one before:

1. `Databases`: both databases are well formed; statements and other sessions keep them so;
2. `Reading`: what the queries so far have answered is the parsed text of a well-formed table;
3. `Snapshots`: a snapshot is what `AlterData` says of two such readings;
4. `Planned`: the items are the plan of the snapshots, under the configuration of the run.

So an item is known by the functions it came from.  `AlterDataSays` and `PlanSays` (`DiffProofs`)
turn that into what an item may be, `LawfulItem`: one of the table's own statements, whose clauses
are `Permitted` by the configuration and belong to no table or column that is ignored; or the
temporary removal of a constraint that is not ignored and that no statement of the plan is about, or
its restore, with the source's definition.  The other half is what a server makes of a list of
clauses: `Keeps` is what one clause leaves alone, by cases on its operation; `Leaves` what a list of
them does, by induction on its length (`AlteredLeaves`); `ToolStatement` joins the two.  From there
`ScopeKept` and `NothingIsDroppedUnasked` are a matter of reading.  `FailsFast` adds that after a
failure only restores are sent, which are one clause each (`RestoreOutcome`), of a constraint that is
detached and with the definition that was read (`RestoreSame`); that the indexes stay is
`IndexesKept`, from a rule of the server: it refuses a constraint whose index would take the name of
another (`Applicable`).

`AllSurvive` carries `UnplannedSurvive` and `OnlyUnansweredDetachesLose`: while statements are sent,
each constraint of a snapshot is in place as it was read, or one the plan itself changes, or recorded
as detached, or its own detach came back with an error.  A detach moves it from the first to the
third, or to the fourth; a restore from the third to the first.  A constraint no
statement is about has one definition on both sides, so the restore brings back the very one that was
read (`RestoreSame`).  Without lost answers a detach that failed left the constraint in place.

### Converging

`OkIsConverged` is about the end of a run and carries four invariants to it, each while nobody else
changes a database (`Converging`):

1. `ReadExactly`: what the queries about a table have answered so far is what the table is
   (`Told`), and which query is next says what the answers were, since each is asked only if it is
   needed (`NextCallIs`);
2. `SnapExact`: the snapshot of a table without a difference came from such answers, and the table is
   still what it was, constraints that a detach took away apart (`Kin`);
3. `Covered`: every table in scope is in the queue or in the snapshots;
4. `Rechecked`: every table the plan changed is in the queue of the recheck, or was read exactly and
   found without a difference (`Settled`).

At the end `AllSurvive` puts the constraints back that only went for a while
(`UnchangedKeepsForeign`), so every table has the text of one for which the comparison had nothing to
say; and `NoDifference` turns a comparison that has nothing to say into equality, clause by clause:
a list of clauses is empty only if each of its seven parts is (`NoLines`), and each part says what
its emptiness means.

### Columns to come after

`AnchorsAreThere` follows a list of clauses from left to right.  `Led(D, q)` says that each clause of
`q` that puts a column behind another names one of `D` or one that an earlier clause of `q` adds.  A
concatenation is led if its parts are, the later ones with what the earlier ones add (`LedConcat`,
`FlattenLed`).  The clauses of columns are led by what both sides have, because `Anchor` is the last
column before that is not ignored or that the destination has (`AnchorThere`); taking the groups of
a list apart keeps it led as long as no clause that adds a column changes its group (`GroupsLed`),
which is where `NoneMistaken` is needed; and the clauses of the drops name no column of `D`.

### Nothing in the way

`WayIsClear` compares what a constraint in the destination would forbid with what has been sent.
Three more invariants lead to it, each while nobody else changes a database:

1. `SeenExactly`: a reading of the destination says which constraints the table has (`SeenNext`);
2. `DestKnown`: a table the destination has is in the queue, or its snapshot holds what it is; so no
   constraint is outside what the plan knows;
3. `Cleared`: until the last phase, every constraint in place is one of those that were read, and no
   statement sent so far was about dropping it (`Standing`).

The third holds because statements before the last phase only remove constraints
(`EarlyOnlyRemoves`): `Groups` puts drops, adds and the rest of a table's clauses into statements of
their own (`AlterStatementsUniform`), and what the server makes of a list of drops is the table less
what they name (`DropsRemove`).  The other half is the plan.  A constraint that a changed column or
dropped key concerns is either one its own table's comparison drops anyway (`ForeignDropped`) or one
that `addInboundForeignKeyItems` takes away, in phase 0 both times (`RemovedFirst`), and a statement that can
disturb a constraint is in phase 1 (`DisturbingItem`).  When its turn comes phase 0 is over, and what
`Standing` says of the constraint contradicts its being there.

`PlansKnowAll` needs the source half of `DestKnown` as well (`SourceKnown`, from `ReadExactly`).  When
a plan is made the queue is empty and no query has failed, so both halves leave only the snapshots;
`PlanFromAllTables` speaks of a plan before its first statement, and nothing but that statement and
other sessions changes what it is about.

### Induction

Much of this is recursive functions and folds over data, and TLAPS has no rule that takes a
predicate.  But it can be told about sets: `Induct` (`SequenceFacts`) says that a set which has 0 and
with every number its successor has all numbers; for below one it lacked, the successor would be an
injection from a finite set into a smaller one (`FS_PigeonHole`).  A proof by induction names the set
of numbers for which its claim holds and cites it.  `Recursion` builds on it: a function whose
definition refers only to arguments of smaller rank exists and satisfies its definition.  Each use is
an `INSTANCE` with the definition in question put in the place of the module's parameter
(`PrefixIs`, `FlattenMembers`, `ExtractAcross`), and `Induct` discharges its hypothesis
(`Inductive`), so nothing is assumed.

### Texts

`TextProofs` proves, for any `Tokens` whatever and names and comments of any length:

| Theorem | States |
|---|---|
| `NamesAlwaysReadBack` | `Spec => []NamesReadBack` |
| `OnlyCounterEverRemoved` | `Spec => []OnlyCounterRemoved` |
| `ColumnsAreNeverCutShort` | `Spec => []ColumnsNeverCutShort` |
| `ForeignKeysAlwaysReadBack` | `Spec => []ForeignKeysReadBack`, if `Break \notin Tokens` |

`Follows(text, i, w)` says that from place `i` on the text is `w`.  Each reader is a recursive
function over places, and one lemma about each says that it crosses a text with its quotes doubled
without finding an end there, by induction on the length of what is crossed (`ExtractAcross`,
`EndAcross`, `ScanAcross`); the one of the scanner also crosses doubled backslashes inside
apostrophes and comes out at the same depth.  `NamesAlwaysReadBack` needs one more: `StripFieldNamePrefix` has a loop of its
own, and `StripEnds` shows that it ends where `QuotedIdentifierEnd` does, on every text.  For
`OnlyCounterEverRemoved` the scan is followed through the whole statement (`Comes`): its head, the
quoted name, a pair of parentheses, the comment, the closing parenthesis, where depth 1 ends
(`CreatedScanned`).

`ColumnsAreNeverCutShort` is about a reader that looks for a parenthesis without minding quotes.
`BeforeAcross` says what it may cut out of a doubled name, by induction on the name: all of it, or a
part that is itself a doubled name without its closing quote.  So the list is two names, or a name
and a cut one, or a cut one; and a cut name has no end (`UnclosedUnknown`), which makes the list
unknown, whatever was read before.  That the loop over the names ends is `ReadEnds`: what was read
has an end behind its beginning.

`ForeignKeysAlwaysReadBack` is about statements that are taken apart into lines again.  SHOW CREATE
TABLE writes a line break in a comment as two characters, so no name or comment the tool sees has one,
which is the hypothesis; a name with a break in it would be read as two clauses.  `ClausesReadBack`
says that from any list of clauses that are one line each (`Whole`), `AlterTable` makes a text from
which `AlterOperationClauses` makes that list: one more line at each break (`LinesOneMore`), the
first one with the head of the statement before the first clause, a comma or semicolon trimmed off
each (`TrimmedClause`).  The rest is what each clause is taken for (`ClauseWhole`).

### The batch script

`CheckLockProofs` proves, for any number of invocations, configurations and deaths, from
`LockAssumption` alone:

| Theorem | States |
|---|---|
| `LockTypeCorrect` | `Spec => []LockTypeOK` |
| `FlockExclusive` | `Spec => []FlockExcludes` |
| `FlockNotStale` | `Spec => FlockNeverStale` |
| `LockFreeInTheEnd` | `Spec => []LockLetGo` |

The first invariant is `Holding`, for hosts with `flock`: an invocation past the lock, and one whose
tool runs, is the one that holds it, and the lock is held by nobody else.  The second half is what
makes a refusal justified.  The second invariant is `LettingGo`, for hosts without: as long as nobody
was killed, a directory has an invocation that is going to empty it, or is empty and has one that is
about to remove it.  That nobody then writes a pid into it and leaves is the point: who writes one is
itself going to empty it.

### The report

`ReportProofs` proves, for any number of runs, readers and addresses, from `ReportAssumption` alone:

| Theorem | States |
|---|---|
| `ReportTypeCorrect` | `Spec => []ReportTypeOK` |
| `ReportAlwaysIntact` | `Spec => []ReportIntact` |
| `LeftoversAlwaysExplained` | `Spec => []LeftoversExplained` |
| `RegisterImplemented` | `Spec => ImplementsRegister`, that is, `Report` implements `ReportRegister` |

`ReportIntact` needs `WriteOrder`: a run about to rename has either its whole text or no file any
more, whoever removed it.  The refinement needs two more.  `PublishedOnce`: no run is published
twice, and one that is published is past its rename, so the number of a page (`Version`) is unique.
`AnswersFresh`: a page that is open is at least as new as the newest when the request was sent, and
that one at least as new as what the reader saw before.

### Only model-checked

- `PlanAccepted`, `CrashHeals`: they say that the server accepts a whole list of clauses, and hold
  under what `PlanStarts` and `KeyedStarts` say of the tables (section 3, "known as well", names
  starts where they fail).  A theorem would need that as a hypothesis on the databases, kept through
  outside changes, and an invariant that follows the indexes that serve each constraint through each
  list.  `OkIsConverged` proves what of `CrashHeals` is not about acceptance: a run after a crash is
  a run, and if it returns no error it has converged.
- liveness, which TLAPS 1.4.5 cannot do: `RunEnds`, `RunsEnd`, `SignalStops`, `LockComesFree`.

## 5. What could follow

In order of use: two runs of `Execute` on one destination at once (to each, the other is a session
that changes things, of which `faults` has one change only); attributes of columns one by one
(`type` taken apart), with generated columns and their dependence on others.

## 6. Not modelled

- The comparison of column texts alone (`sync.go` 383-433): production code always has metadata.
- The text of HTML, mail, logs and DSNs, and the look at each table after its statement
  (`execute.go` 201-211), which only feeds the report.
- Attributes of columns one by one, partitions, table options, triggers, views, data.
- The regular expressions that tell a column's line from an index's or a constraint's, and that
  match a pattern with wildcards to a name: they are their own definition, and a model of them would
  repeat it.  Where a test of a text misleads, it is modelled (`SaysForeignKey`, `SaysEngine`).
- Names in double quotes (ANSI_QUOTES), and letters whose upper case has another length.
- Requests other than `GET /`, which are answered without the file; a power failure after the
  rename, before which nothing is synced.
- The rotation of the log and the exit code of `check.sh`; a pid the kernel gives out again.
- Reading of JSON and flags; the connection pool of `database/sql`.
- A server that executes part of an `ALTER`: MySQL 8 does not.
