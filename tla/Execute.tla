------------------------------ MODULE Execute ------------------------------
(***************************************************************************)
(* One run of the tool (internal/execute.go, Execute): list the tables of  *)
(* both databases, read each table by separate metadata queries, plan,     *)
(* re-read what is to be altered, execute the plan statement by statement, *)
(* put temporarily removed foreign keys back, and compare again.  Between  *)
(* any two calls another session may change a database, the process may    *)
(* die, and any call may fail; the destination is all that outlives a run. *)
(***************************************************************************)
EXTENDS ExecutionPlan, DestServer

CONSTANTS
  Tables,       \* the tables that may exist in either database
  Starts,       \* [cfg, src, dst]: the configurations and databases to start from
  Edits,        \* [side, table, schema]: what another session may do, once
  FaultyCalls,  \* the kinds of calls that may fail: subset of {"read", "ddl"}
  LostOutcomes, \* what the server did when a statement's answer is lost
  MaxFaults,    \* bound: failed calls in one run
  MaxRuns       \* bound: runs one after another

Phases == {"list", "inspect", "verify", "execute", "recheck", "done", "crashed"}

ErrorKinds == {"list", "inspect", "refused", "stale", "ddl", "restore", "detached",
               "unverified", "diverged"}

ASSUME ConstantsAssumption ==
  /\ Tables \subseteq Nat /\ IsFiniteSet(Tables)
  /\ \A s \in Starts : \A db \in {s.src, s.dst} :
       DOMAIN db = Tables /\ (\A t \in Tables : IsSchema(db[t])) /\ ValidDatabase(db)
  /\ \A e \in Edits : e.side \in {"source", "dest"} /\ e.table \in Tables /\ IsSchema(e.schema)
  /\ FaultyCalls \subseteq {"read", "ddl"}
  /\ LostOutcomes \subseteq {"applied", "not applied"}
  /\ MaxFaults \in Nat /\ MaxRuns \in Nat

VARIABLES
  cfg,       \* the configuration, fixed during a behaviour
  src, dst,  \* the two databases
  pc,        \* where the run is
  queue,     \* the tables still to inspect, verify or compare again
  call,      \* the number, in Calls, of the next query about the first of them
  rd,        \* what the earlier queries about it answered
  snap,      \* allTableSchemas
  alters,    \* the changed tables, in execution order
  items,     \* the planned and temporary items
  todo,      \* those not reached yet
  failed,    \* those whose statement returned an error
  skipped,   \* those skipped after a failure
  detached,  \* detachedFKs: the constraints recorded as temporarily removed
  errs,      \* runErrors, by kind
  drift,     \* the phase in which another session changed something, or "none"
  faults,    \* failed calls of this run
  runs       \* runs started

databases == <<src, dst>>
reading == <<queue, call, rd>>
plan == <<snap, alters, items>>
progress == <<todo, failed, skipped, detached>>
world == <<cfg, drift, runs>>
vars == <<databases, pc, reading, plan, progress, errs, faults, world>>

-----------------------------------------------------------------------------
(* The queries about one table                                             *)

Calls == <<"has source", "has dest", "show source", "show dest", "fields source", "fields dest">>

NothingRead == [hasS |-> FALSE, hasD |-> FALSE, src |-> NoSchema, dst |-> NoSchema,
                sf |-> <<>>, df |-> <<>>]

\* A table outside the configured scope is only looked up in the destination;
\* field metadata is read only when the two texts differ.
Needed(t, r, n) ==
  CASE n = 1 -> InScope(cfg, t)
    [] n = 2 -> TRUE
    [] n = 3 -> r.hasS
    [] n = 4 -> r.hasD
    [] OTHER -> r.hasS /\ r.hasD /\ r.src # r.dst

\* The next query about t after query n, or one more than there are queries.
NextCall(t, r, n) ==
  Min({m \in (n + 1)..Len(Calls) : Needed(t, r, m)} \cup {Len(Calls) + 1})

Answer(t, r, n) ==
  CASE n = 1 -> [r EXCEPT !.hasS = Exists(src[t])]
    [] n = 2 -> [r EXCEPT !.hasD = Exists(dst[t])]
    [] n = 3 -> [r EXCEPT !.src = src[t]]
    [] n = 4 -> [r EXCEPT !.dst = dst[t]]
    [] n = 5 -> [r EXCEPT !.sf = FieldInfos(src[t])]
    [] OTHER -> [r EXCEPT !.df = FieldInfos(dst[t])]

\* SHOW CREATE TABLE and the field query fail for a table that is gone.
Gone(t, n) ==
  \/ n \in {3, 5} /\ ~Exists(src[t])
  \/ n \in {4, 6} /\ ~Exists(dst[t])

StartQueue(tables) ==
  /\ queue' = tables
  /\ rd' = NothingRead
  /\ call' = IF tables = <<>> THEN 1 ELSE NextCall(Head(tables), NothingRead, 0)

MayFail(kind) == kind \in FaultyCalls /\ faults < MaxFaults

\* A call fails because it must, or because of a fault.
Fails(must, kind) ==
  \/ must /\ UNCHANGED faults
  \/ MayFail(kind) /\ faults' = faults + 1

-----------------------------------------------------------------------------
(* Listing and inspecting                                                  *)

\* AllDBTables.  The two lists come from different databases, so reading them
\* in one step loses no interleaving.
ListTables ==
  /\ pc = "list"
  /\ pc' = "inspect"
  /\ StartQueue(InOrder({t \in Tables : Exists(src[t]) \/ Exists(dst[t])}))
  /\ UNCHANGED <<databases, plan, progress, errs, faults, world>>

\* NewSchemaSync or AllDBTables returns an error.
ListFails ==
  /\ pc = "list"
  /\ Fails(FALSE, "read")
  /\ pc' = "done"
  /\ errs' = {"list"}
  /\ UNCHANGED <<databases, reading, plan, progress, world>>

\* getAlterDataByTable or getDestOnlySchemaSnapshot, one query at a time.
QueryTable ==
  /\ pc \in {"inspect", "recheck"} /\ queue # <<>>
  /\ LET t == Head(queue)
         r == Answer(t, rd, call)
         data == AlterData(cfg, t, r)
     IN  /\ ~Gone(t, call)
         /\ \/ /\ NextCall(t, r, call) \in DOMAIN Calls
               /\ call' = NextCall(t, r, call)
               /\ rd' = r
               /\ UNCHANGED <<queue, snap, errs>>
            \/ /\ NextCall(t, r, call) \notin DOMAIN Calls
               /\ StartQueue(Tail(queue))
               /\ snap' = IF pc = "inspect" /\ (InScope(cfg, t) \/ r.hasD)
                          THEN With(snap, t, data) ELSE snap
               /\ errs' = IF pc = "recheck" /\ data.type \in {"create", "alter"}
                          THEN errs \cup {"diverged"} ELSE errs
  /\ UNCHANGED <<databases, pc, alters, items, progress, faults, world>>

\* Mutant: a table that cannot be read is left out, with no more than a message.
QueryFailsUnreported ==
  /\ pc \in {"inspect", "recheck"} /\ queue # <<>>
  /\ Fails(Gone(Head(queue), call), "read")
  /\ StartQueue(Tail(queue))
  /\ UNCHANGED <<databases, pc, plan, progress, errs, world>>

\* The error is collected and the next table is inspected.
QueryFails ==
  /\ pc \in {"inspect", "recheck"} /\ queue # <<>>
  /\ Fails(Gone(Head(queue), call), "read")
  /\ errs' = errs \cup {IF pc = "inspect" THEN "inspect" ELSE "unverified"}
  /\ StartQueue(Tail(queue))
  /\ UNCHANGED <<databases, pc, plan, progress, world>>

-----------------------------------------------------------------------------
(* Planning                                                                *)

\* A plan is never made from an incomplete snapshot.
GiveUp ==
  /\ pc = "inspect" /\ queue = <<>> /\ errs # {}
  /\ pc' = "done"
  /\ UNCHANGED <<databases, reading, plan, progress, errs, faults, world>>

RefusePlan ==
  /\ pc = "inspect" /\ queue = <<>> /\ errs = {}
  /\ Plan(cfg, snap).refused
  /\ pc' = "done"
  /\ errs' = {"refused"}
  /\ UNCHANGED <<databases, reading, plan, progress, faults, world>>

MakePlan ==
  /\ pc = "inspect" /\ queue = <<>> /\ errs = {}
  /\ ~Plan(cfg, snap).refused
  /\ alters' = OrderTableAlters(snap)
  /\ items' = Plan(cfg, snap).items
  /\ todo' = items'
  /\ pc' = IF cfg.sync THEN "verify" ELSE "execute"
  /\ queue' = IF cfg.sync THEN alters' ELSE <<>>
  /\ call' = 1
  /\ UNCHANGED <<databases, rd, snap, failed, skipped, detached, errs, faults, world>>

-----------------------------------------------------------------------------
(* verifyPlanSnapshots: the source, then the destination, of each table    *)
(* that changes.  HasTable and SHOW CREATE TABLE ask one server about one  *)
(* table, and together answer as of one of the two moments.                *)

\* Mutant: only the source is read again.
UnchangedSource(t) == call = 1 => Parse(src[t]) = snap[t].src

Unchanged(t) ==
  IF call = 1 THEN Parse(src[t]) = snap[t].src ELSE Parse(dst[t]) = snap[t].dst

VerifyTable ==
  /\ pc = "verify" /\ queue # <<>>
  /\ Unchanged(Head(queue))
  /\ call' = 3 - call
  /\ queue' = IF call = 1 THEN queue ELSE Tail(queue)
  /\ UNCHANGED <<databases, pc, rd, plan, progress, errs, faults, world>>

VerifyFails ==
  /\ pc = "verify" /\ queue # <<>>
  /\ Fails(~Unchanged(Head(queue)), "read")
  /\ pc' = "done"
  /\ errs' = {"stale"}
  /\ UNCHANGED <<databases, reading, plan, progress, world>>

StartExecution ==
  /\ pc = "verify" /\ queue = <<>>
  /\ pc' = "execute"
  /\ UNCHANGED <<databases, reading, plan, progress, errs, faults, world>>

-----------------------------------------------------------------------------
(* Executing                                                               *)

IsDetach(i) == i.temporary /\ ~i.restore

IsNext(i) == i \in todo /\ \A j \in todo \ {i} : Precedes(i, j)

\* Mutant: nothing is put back after a failure.
CompensatesNothing(i) == FALSE

\* After a failure, only the restore of a constraint this run took away runs.
Compensates(i) == i.restore /\ i.key \in detached

\* Mutant: the run goes on after a failure.
SendsAlways(i) == pc = "execute" /\ cfg.sync /\ IsNext(i)

\* Mutant: every temporary statement is sent after a failure.
SendsTemporary(i) ==
  /\ pc = "execute" /\ cfg.sync
  /\ IsNext(i)
  /\ failed = {} \/ i.temporary

Sends(i) ==
  /\ pc = "execute" /\ cfg.sync
  /\ IsNext(i)
  /\ failed = {} \/ Compensates(i)

Passed(i) == todo' = todo \ {i}

PreviewItem(i) ==
  /\ pc = "execute" /\ ~cfg.sync
  /\ IsNext(i)
  /\ Passed(i)
  /\ UNCHANGED <<databases, pc, reading, plan, failed, skipped, detached, errs, faults, world>>

SkipItem(i) ==
  /\ pc = "execute" /\ failed # {} /\ ~Compensates(i)
  /\ IsNext(i)
  /\ Passed(i)
  /\ skipped' = skipped \cup {i}
  /\ UNCHANGED <<databases, pc, reading, plan, failed, detached, errs, faults, world>>

\* Mutant: that a constraint was taken away is not recorded.
ExecuteItemUnrecorded(i) ==
  /\ Sends(i)
  /\ Accepts(dst, i.stmt)
  /\ dst' = After(dst, i.stmt)
  /\ Passed(i)
  /\ detached' = IF i.restore THEN detached \ {i.key} ELSE detached
  /\ UNCHANGED <<src, pc, reading, plan, failed, skipped, errs, faults, world>>

ExecuteItem(i) ==
  /\ Sends(i)
  /\ Accepts(dst, i.stmt)
  /\ dst' = After(dst, i.stmt)
  /\ Passed(i)
  /\ detached' = IF ~i.temporary THEN detached
                 ELSE IF i.restore THEN detached \ {i.key} ELSE detached \cup {i.key}
  /\ UNCHANGED <<src, pc, reading, plan, failed, skipped, errs, faults, world>>

\* The server rejects the statement, or its answer is lost (DDL timeout, broken
\* connection) and the server may have executed it all the same.
StatementFails(i) ==
  /\ Sends(i)
  /\ \/ ~Accepts(dst, i.stmt) /\ UNCHANGED <<dst, faults>>
     \/ /\ Fails(FALSE, "ddl")
        /\ \/ "not applied" \in LostOutcomes /\ dst' = dst
           \/ /\ "applied" \in LostOutcomes /\ Accepts(dst, i.stmt)
              /\ dst' = After(dst, i.stmt)
  /\ Passed(i)
  /\ failed' = failed \cup {i}
  /\ errs' = errs \cup {IF failed = {} THEN "ddl" ELSE "restore"}
  /\ UNCHANGED <<src, pc, reading, plan, skipped, detached, world>>

\* Constraints still detached are errors; a run without errors compares again.
EndExecution ==
  /\ pc = "execute" /\ todo = {}
  /\ errs' = IF detached = {} THEN errs ELSE errs \cup {"detached"}
  /\ pc' = IF cfg.sync /\ errs' = {} THEN "recheck" ELSE "done"
  /\ StartQueue(IF pc' = "recheck" THEN alters ELSE <<>>)
  /\ UNCHANGED <<databases, plan, progress, faults, world>>

\* Mutant: the comparison is repeated until it finds nothing.
EndRecheckRepeated ==
  /\ pc = "recheck" /\ queue = <<>>
  /\ pc' = IF errs = {} THEN "done" ELSE "recheck"
  /\ StartQueue(IF errs = {} THEN <<>> ELSE alters)
  /\ UNCHANGED <<databases, plan, progress, errs, faults, world>>

EndRecheck ==
  /\ pc = "recheck" /\ queue = <<>>
  /\ pc' = "done"
  /\ UNCHANGED <<databases, reading, plan, progress, errs, faults, world>>

-----------------------------------------------------------------------------
(* Other sessions, crashes, the next run                                   *)

OutsideChange ==
  /\ drift = "none" /\ pc \notin {"done", "crashed"}
  /\ \E e \in Edits :
       \/ /\ e.side = "source" /\ src[e.table] # e.schema
          /\ src' = [src EXCEPT ![e.table] = e.schema]
          /\ ValidDatabase(src')
          /\ UNCHANGED dst
       \/ /\ e.side = "dest" /\ dst[e.table] # e.schema
          /\ dst' = [dst EXCEPT ![e.table] = e.schema]
          /\ ValidDatabase(dst')
          /\ UNCHANGED src
  /\ drift' = pc
  /\ UNCHANGED <<cfg, runs, pc, reading, plan, progress, errs, faults>>

\* Mutant: what failed and what is detached outlives the run.
ForgetLess ==
  /\ queue' = <<>> /\ call' = 1 /\ rd' = NothingRead
  /\ snap' = <<>> /\ alters' = <<>> /\ items' = {}
  /\ todo' = {} /\ skipped' = {} /\ UNCHANGED <<failed, detached>>
  /\ errs' = {} /\ faults' = 0

\* A new run knows nothing of the last one.
Forget ==
  /\ queue' = <<>> /\ call' = 1 /\ rd' = NothingRead
  /\ snap' = <<>> /\ alters' = <<>> /\ items' = {}
  /\ todo' = {} /\ failed' = {} /\ skipped' = {} /\ detached' = {}
  /\ errs' = {} /\ faults' = 0

\* The process dies, and with it all that is not in a database.
Crash ==
  /\ pc \notin {"done", "crashed"} /\ runs < MaxRuns
  /\ pc' = "crashed"
  /\ Forget
  /\ UNCHANGED <<databases, world>>

\* The tool is started again, after a crash or after a run that ended.
RunAgain ==
  /\ pc \in {"done", "crashed"} /\ runs < MaxRuns
  /\ pc' = "list"
  /\ runs' = runs + 1
  /\ Forget
  /\ UNCHANGED <<databases, cfg, drift>>

Stopped == pc = "done" /\ runs = MaxRuns /\ UNCHANGED vars

-----------------------------------------------------------------------------
Init ==
  /\ \E s \in Starts : cfg = s.cfg /\ src = s.src /\ dst = s.dst
  /\ pc = "list" /\ drift = "none" /\ runs = 1
  /\ queue = <<>> /\ call = 1 /\ rd = NothingRead
  /\ snap = <<>> /\ alters = <<>> /\ items = {}
  /\ todo = {} /\ failed = {} /\ skipped = {} /\ detached = {}
  /\ errs = {} /\ faults = 0

\* The steps of the tool itself; none of its calls blocks for ever.
ToolStep ==
  \/ ListTables \/ ListFails \/ QueryTable \/ QueryFails
  \/ GiveUp \/ RefusePlan \/ MakePlan
  \/ VerifyTable \/ VerifyFails \/ StartExecution
  \/ \E i \in todo : PreviewItem(i) \/ SkipItem(i) \/ ExecuteItem(i) \/ StatementFails(i)
  \/ EndExecution \/ EndRecheck

Next == ToolStep \/ OutsideChange \/ Crash \/ RunAgain \/ Stopped

Spec == Init /\ [][Next]_vars

\* Weak fairness of ToolStep, written out: a run that is not over has a next step
\* (the runs check that nothing deadlocks), and ENABLED ToolStep is slow to compute.
Over == pc \in {"done", "crashed"}

FairSpec == Spec /\ ([]<>Over \/ []<><<ToolStep>>_vars)
-----------------------------------------------------------------------------
(* Properties                                                              *)

\* Every variable holds a value the program could hold.
TypeOK ==
  /\ pc \in Phases /\ errs \subseteq ErrorKinds
  /\ DOMAIN src = Tables /\ DOMAIN dst = Tables
  /\ todo \subseteq items /\ failed \subseteq items /\ skipped \subseteq items
  /\ detached \subseteq {i.key : i \in items}
  /\ drift \in Phases \cup {"none"}
  /\ faults \in Nat /\ runs \in Nat

\* The configuration leaves nothing out of the comparison.
Unrestricted ==
  /\ \A t \in Tables : Exists(src[t]) \/ Exists(dst[t]) => InScope(cfg, t)
  /\ cfg.ignoreCols = {} /\ cfg.ignoreIdx = {} /\ cfg.ignoreFks = {}

\* No constraint of the destination is foreign to the source and kept all the
\* same: such a constraint can stand in the way of its own table's changes.
NothingForeignKept ==
  \A t \in DOMAIN snap : cfg.drop \/ DOMAIN snap[t].dst.fks \subseteq DOMAIN snap[t].src.fks

\* The order of the plan is one the server accepts: as long as nobody else
\* changes the databases and no answer is lost, no statement is rejected,
\* whatever the references between the tables that change
\* (addInboundForeignKeyItems, ddlExecutionPhase, orderTableAlters, getSchemaDiff).
PlanAccepted ==
  Unrestricted /\ NothingForeignKept /\ drift = "none" /\ "ddl" \notin FaultyCalls =>
    failed = {}

\* What the comparison is for, stated without it: the destination has all the
\* source has and, with -drop, nothing else, ignored things apart.
Converged(t) ==
  Exists(src[t]) =>
    /\ Exists(dst[t])
    /\ \A n \in ColNames(src[t]) : <<t, n>> \notin cfg.ignoreCols =>
         /\ n \in ColNames(dst[t])
         /\ \/ Column(dst[t], n).type = Column(src[t], n).type
            \/ cfg.skipTs /\ TimestampDatetime(Column(src[t], n), Column(dst[t], n))
         /\ Column(dst[t], n).comment = Column(src[t], n).comment
         /\ src[t].charset = dst[t].charset =>
              Column(dst[t], n).charset = Column(src[t], n).charset
         /\ cfg.fieldOrder => Position(dst[t], n) = Position(src[t], n)
    /\ \A f \in {"idx", "checks"} : \A n \in DOMAIN src[t][f] : <<t, n>> \notin cfg.ignoreIdx =>
         n \in DOMAIN dst[t][f] /\ dst[t][f][n] = src[t][f][n]
    /\ \A k \in DOMAIN src[t].fks : <<t, k>> \notin cfg.ignoreFks =>
         k \in DOMAIN dst[t].fks /\ dst[t].fks[k] = src[t].fks[k]
    /\ cfg.drop =>
         /\ \A n \in ColNames(dst[t]) \ ColNames(src[t]) : <<t, n>> \in cfg.ignoreCols
         /\ \A f \in {"idx", "checks"} :
              \A n \in DOMAIN dst[t][f] \ DOMAIN src[t][f] : <<t, n>> \in cfg.ignoreIdx
         /\ \A k \in DOMAIN dst[t].fks \ DOMAIN src[t].fks : <<t, k>> \in cfg.ignoreFks

\* Every clause that names the column it comes after names one that is there when
\* its turn comes: not one that is ignored and missing, one that was dropped before,
\* or one that is added later (getSchemaDiff).
AnchorsPresent ==
  \A t \in Changes(snap) :
    LET lines == FlattenSeq([j \in DOMAIN snap[t].sql |-> snap[t].sql[j].clauses])
        named(op, n) == {lines[i].col.name : i \in {x \in 1..(n - 1) : lines[x].op = op}}
        dropped(n) == {lines[i].name : i \in {x \in 1..(n - 1) : lines[x].op = "DROP COLUMN"}}
    IN  \A n \in DOMAIN lines :
          lines[n].op \in {"ADD", "MODIFY"} /\ lines[n].after # AtFront =>
            \/ lines[n].after \in ColNames(snap[t].dst) \ dropped(n)
            \/ lines[n].after \in named("ADD", n)

\* A clause that a constraint on these columns of the altered table stands in the
\* way of, or would be left without an index by.
Disturbs(c, columns) ==
  \/ c.op \in {"CHANGE", "MODIFY"} /\ c.col.name \in columns
  \/ c.op = "DROP COLUMN" /\ c.name \in columns
  \/ c.op \in {"DROP INDEX", "REPLACE INDEX"} /\ c.kind # "CHECK"

\* When a statement is sent, no constraint is in place, in whatever table, that
\* references a column it changes or drops or a table of which it drops a key: each
\* was taken away before, by the plan or for the time being, whatever is ignored
\* (parentInboundImpact, addInboundForeignKeyItems).
NothingInTheWay ==
  pc = "execute" /\ cfg.sync /\ failed = {} /\ drift = "none" =>
    \A i \in todo : IsNext(i) =>
      \A x \in Constraints(dst) :
        LET fk == dst[x[1]].fks[x[2]]
        IN  fk.parent = i.stmt.table =>
              \A c \in ToSet(i.stmt.clauses) : ~Disturbs(c, ToSet(fk.refs))

\* A run that returns no error has made every table in scope converge, also
\* those it did not compare again because they had no difference of their own
\* and only lost and regained a foreign key.
OkMeansConverged ==
  pc = "done" /\ errs = {} /\ cfg.sync /\ drift = "none" =>
    \A t \in Tables : InScope(cfg, t) => Converged(t)

\* A foreign key still recorded as detached when the statements are over is one
\* whose own restore was sent and failed: no failure elsewhere makes the run
\* skip the restore of a constraint it took away.
DetachedOnlyIfRestoreFailed ==
  pc \in {"recheck", "done"} =>
    \A k \in detached : \E i \in failed : i.restore /\ i.key = k

\* A constraint of a snapshot is one the plan is about, or it is in the destination
\* as it was read, or it is named in an error as still detached.
NotLost(t, k) ==
  \/ <<t, k>> \in PlannedKeys({i \in items : ~i.temporary})
  \/ k \in DOMAIN dst[t].fks /\ dst[t].fks[k] = snap[t].dst.fks[k]
  \/ <<t, k>> \in detached

\* Every constraint the plan had no business with is in the destination when
\* the run ends, defined as it was when the run began, or is named in an error
\* as still detached.
UnplannedConstraintsSurvive ==
  pc = "done" /\ drift = "none" =>
    \A t \in DOMAIN snap : \A k \in DOMAIN snap[t].dst.fks : NotLost(t, k)

\* Whatever answers are lost, a constraint goes missing without a word only if its
\* own removal was sent and came back with an error (executionItem, detachedFKs).
LossesUnanswered ==
  pc = "done" /\ drift = "none" =>
    \A t \in DOMAIN snap : \A k \in DOMAIN snap[t].dst.fks :
      NotLost(t, k) \/ \E i \in failed : IsDetach(i) /\ i.key = <<t, k>>

\* "Never execute a plan built from an incomplete schema snapshot" (Execute): whatever
\* queries failed, a plan that is executed knows every table of the destination, whose
\* foreign keys may stand in its way, and every table of the source in scope, as they are.
PlanFromAllTables ==
  pc \in {"verify", "execute"} /\ todo = items /\ drift = "none" =>
    \A t \in Tables :
      /\ Exists(dst[t]) => t \in DOMAIN snap /\ snap[t].dst = Parse(dst[t])
      /\ Exists(src[t]) /\ InScope(cfg, t) => t \in DOMAIN snap /\ snap[t].src = Parse(src[t])

\* A change made by another session before the plan is verified, to a table the
\* plan alters, stops the run before its first statement: when execution starts,
\* each such table is as it was when the plan was made (verifyPlanSnapshots).
StalePlanRefused ==
  pc = "execute" /\ cfg.sync /\ todo = items /\ drift \notin {"verify", "execute"} =>
    \A t \in Changes(snap) : Parse(src[t]) = snap[t].src /\ Parse(dst[t]) = snap[t].dst

\* Wherever a run died, and whatever a lost statement did, the next run that
\* meets no fault converges, unless the configuration forbids its plan: what a
\* dead run took away is an ordinary difference.
CrashHeals ==
  pc = "done" /\ runs > 1 /\ Unrestricted /\ NothingForeignKept /\ faults = 0 /\ drift = "none" =>
    errs = {"refused"} \/ (errs = {} /\ \A t \in Tables : Converged(t))

\* Steps of the tool, as opposed to those of other sessions.
ByTheTool == drift' = drift

\* Without -drop, no statement removes a column or leaves a table without an
\* index or CHECK it had, not even between two statements: the replacement of an
\* index is one statement in every mode.  (Where an index and a CHECK share a
\* name, the one may be replaced by the other; the name stays.)
NothingDroppedUnasked ==
  [][ByTheTool /\ ~cfg.drop =>
       \A t \in Tables : /\ ColNames(dst[t]) \subseteq ColNames(dst'[t])
                         /\ IndexNames(dst[t]) \subseteq IndexNames(dst'[t])]_vars

\* What the configuration takes out of scope is never touched, not even for a moment:
\* whole tables, single columns, and foreign keys, also those of tables that have no
\* difference of their own and reference one that changes (addInboundForeignKeyItems).
\* Only a table this run creates is created complete, with the ignored constraints.
ScopeRespected ==
  [][ByTheTool =>
       \A t \in {x \in Tables : Exists(dst[x])} :
         /\ ~InScope(cfg, t) => dst'[t] = dst[t]
         /\ \A n \in ColNames(dst[t]) :
              <<t, n>> \in cfg.ignoreCols =>
                n \in ColNames(dst'[t]) /\ Column(dst'[t], n) = Column(dst[t], n)
         /\ \A k \in DOMAIN dst[t].fks \cup DOMAIN dst'[t].fks :
              <<t, k>> \in cfg.ignoreFks /\ dst'[t] # dst[t] /\ snap[t].type # "create" =>
                /\ k \in DOMAIN dst[t].fks /\ k \in DOMAIN dst'[t].fks
                /\ dst'[t].fks[k] = dst[t].fks[k]]_vars

\* Once a statement has failed, the destination only gets back constraints that this
\* run took away, as they were when they were read, and with one at most the index the
\* server makes for it: all else stays, of every table (executionItem, detachedFKs).
FailFast ==
  [][ByTheTool /\ failed # {} =>
       \A t \in Tables :
         LET gained == DOMAIN dst'[t].fks \ DOMAIN dst[t].fks
             made == DOMAIN dst'[t].idx \ DOMAIN dst[t].idx
         IN  /\ \A f \in {"cols", "charset", "checks"} : dst'[t][f] = dst[t][f]
             /\ \A n \in DOMAIN dst[t].idx :
                  n \in DOMAIN dst'[t].idx /\ dst'[t].idx[n] = dst[t].idx[n]
             /\ \A k \in DOMAIN dst[t].fks :
                  k \in DOMAIN dst'[t].fks /\ dst'[t].fks[k] = dst[t].fks[k]
             /\ \A k \in gained :
                  <<t, k>> \in detached /\ dst'[t].fks[k] = snap[t].dst.fks[k]
             /\ \A n \in made : \E k \in gained : dst'[t].idx[n].cols = dst'[t].fks[k].cols]_vars

\* Every run that is started comes to an end.
RunEnds == (pc = "list") ~> (pc \in {"done", "crashed"})

-----------------------------------------------------------------------------
(* What comments, tests and the README say, and the code does not keep     *)

\* "foreign keys are removed first and installed only after all table/column/index
\* changes have completed" (ddlExecutionPhase).
ForeignKeysLast ==
  \A i, j \in items : \A c \in ToSet(i.stmt.clauses) :
    c.op = "ADD CONSTRAINT" /\ Precedes(i, j) =>
      j.stmt.clauses # <<>> /\ j.stmt.clauses[1].op = "ADD CONSTRAINT"

\* "refuses to execute DDL generated from stale schemas" (verifyPlanSnapshots):
\* at the first statement, every table a statement is about is as it was read.
StatementsFresh ==
  pc = "execute" /\ cfg.sync /\ todo = items /\ drift \notin {"verify", "execute"} =>
    \A i \in items : LET t == i.stmt.table
                     IN  Parse(src[t]) = snap[t].src /\ Parse(dst[t]) = snap[t].dst

\* "drop columns, indexes, and foreign keys that exist only in destination" (-drop):
\* no column is dropped that the source has.
DropsOnlyExtra ==
  [][ByTheTool /\ drift = "none" =>
       \A t \in Tables : ColNames(dst[t]) \cap ColNames(src[t]) \subseteq ColNames(dst'[t])]_vars

-----------------------------------------------------------------------------
(* The contract of a run, and how this specification implements it         *)

RunStatus ==
  CASE pc = "crashed" -> "dead"
    [] pc = "done" -> IF errs = {} THEN "ok" ELSE "failed"
    [] OTHER -> IF failed = {} THEN "running" ELSE "failing"

RestoresFailed == {i.key : i \in {x \in failed : x.restore}}

Contract ==
  INSTANCE SyncContract WITH status <- RunStatus, gone <- detached, tried <- RestoresFailed

\* Every step of a run is one its contract allows.
ImplementsContract == Contract!Spec
=============================================================================
