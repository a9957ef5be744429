--------------------------- MODULE ExecuteProofs ---------------------------
(***************************************************************************)
(* Proofs about Execute, for every choice of tables, databases,            *)
(* configurations, changes by others, faults and runs: the foreign keys a  *)
(* run takes out of the way are put back or reported, and a run keeps the  *)
(* contract of SyncContract.                                               *)
(***************************************************************************)
EXTENDS Execute, DiffProofs

(* The plan: what takes a constraint away is in phase 0, what puts one     *)
(* back is in phase 2, and nothing is taken away without its restore.      *)
Paired(its) ==
  \A i \in its :
    /\ i.restore => i.temporary /\ i.phase = 2
    /\ IsDetach(i) => i.phase = 0 /\ \E r \in its : r.restore /\ r.key = i.key

LEMMA PlanPaired ==
  ASSUME NEW c, NEW s
  PROVE  Paired(Plan(c, s).items)
<1> DEFINE ordered == OrderTableAlters(s)
           planned == PlannedItems(s, ordered)
           inbound == InboundKeys(s, planned)
           temps == TemporaryItems(s, Len(ordered), inbound)
<1>1. \A i \in planned : ~i.temporary /\ ~i.restore
  BY DEF PlannedItems, PlannedItem
<1>2. Paired(temps)
  <2> DEFINE rank(key) == Cardinality({k \in inbound : Before(k, key)})
             D(key) == DetachItem(key, rank(key) - 1 - Cardinality(DOMAIN s))
             R(key) == RestoreItem(s, key, Len(ordered) + rank(key))
  <2>1. temps = {D(key) : key \in inbound} \cup {R(key) : key \in inbound}
    BY DEF TemporaryItems
  <2>2. \A key : IsDetach(D(key)) /\ D(key).phase = 0 /\ D(key).key = key /\ ~D(key).restore
    BY DEF DetachItem, IsDetach
  <2>3. \A key : R(key).restore /\ R(key).temporary /\ R(key).phase = 2 /\ R(key).key = key
    BY DEF RestoreItem
  <2> HIDE DEF D, R
  <2>4. ASSUME NEW i \in temps
        PROVE  /\ i.restore => i.temporary /\ i.phase = 2
               /\ IsDetach(i) => i.phase = 0 /\ \E r \in temps : r.restore /\ r.key = i.key
    <3>1. CASE \E key \in inbound : i = D(key)
      BY <3>1, <2>1, <2>2, <2>3
    <3>2. CASE \E key \in inbound : i = R(key)
      BY <3>2, <2>3 DEF IsDetach
    <3> QED BY <3>1, <3>2, <2>1, <2>4
  <2> QED BY <2>4 DEF Paired
<1>3. Plan(c, s).items = {} \/ Plan(c, s).items = planned \cup temps
  BY DEF Plan
<1> HIDE DEF ordered, planned, inbound, temps
<1> QED BY <1>1, <1>2, <1>3 DEF Paired, IsDetach

LEMMA AfterDomain ==
  ASSUME NEW db, NEW st
  PROVE  DOMAIN After(db, st) = DOMAIN db
BY DEF After

-----------------------------------------------------------------------------
(* Types.  That what failed, was skipped or is detached belongs to the     *)
(* current plan needs that nothing of the kind exists before there is one. *)

Idle ==
  pc \in {"list", "inspect", "verify", "crashed"} => failed = {} /\ skipped = {} /\ detached = {}

LEMMA TypeInductive ==
  TypeOK /\ Idle /\ [Next]_vars => TypeOK' /\ Idle'
<1> SUFFICES ASSUME TypeOK, Idle, [Next]_vars PROVE TypeOK' /\ Idle'
  OBVIOUS
<1> USE DEF TypeOK, Idle, Phases, ErrorKinds, databases, reading, plan, progress, world
<1>1. CASE ListTables BY <1>1 DEF ListTables, StartQueue
<1>2. CASE ListFails BY <1>2 DEF ListFails, Fails
<1>3. CASE QueryTable BY <1>3 DEF QueryTable
<1>4. CASE QueryFails BY <1>4 DEF QueryFails, Fails
<1>5. CASE GiveUp BY <1>5 DEF GiveUp
<1>6. CASE RefusePlan BY <1>6 DEF RefusePlan
<1>7. CASE MakePlan BY <1>7 DEF MakePlan
<1>8. CASE VerifyTable BY <1>8 DEF VerifyTable
<1>9. CASE VerifyFails BY <1>9 DEF VerifyFails, Fails
<1>10. CASE StartExecution BY <1>10 DEF StartExecution
<1>11. ASSUME NEW i \in todo, PreviewItem(i) PROVE TypeOK' /\ Idle'
  BY <1>11 DEF PreviewItem, Passed
<1>12. ASSUME NEW i \in todo, SkipItem(i) PROVE TypeOK' /\ Idle'
  BY <1>12 DEF SkipItem, Passed
<1>13. ASSUME NEW i \in todo, ExecuteItem(i) PROVE TypeOK' /\ Idle'
  BY <1>13, AfterDomain DEF ExecuteItem, Sends, Passed
<1>14. ASSUME NEW i \in todo, StatementFails(i) PROVE TypeOK' /\ Idle'
  <2>1. DOMAIN dst' = DOMAIN dst
    BY <1>14, AfterDomain DEF StatementFails
  <2>2. faults' \in Nat
    <3>1. faults' = faults \/ faults' = faults + 1
      BY <1>14 DEF StatementFails, Fails
    <3> QED BY <3>1
  <2>3. errs' \subseteq ErrorKinds
    BY <1>14 DEF StatementFails
  <2>4. failed' \subseteq items /\ todo' \subseteq items
    BY <1>14 DEF StatementFails, Passed
  <2>5. pc = "execute" /\ UNCHANGED <<src, pc, reading, plan, skipped, detached, world>>
    BY <1>14 DEF StatementFails, Sends
  <2> QED BY <2>1, <2>2, <2>3, <2>4, <2>5
<1>15. CASE EndExecution BY <1>15 DEF EndExecution
<1>16. CASE EndRecheck BY <1>16 DEF EndRecheck
<1>17. CASE OutsideChange BY <1>17 DEF OutsideChange
<1>18. CASE Crash BY <1>18 DEF Crash, Forget
<1>19. CASE RunAgain BY <1>19 DEF RunAgain, Forget
<1>20. CASE UNCHANGED vars BY <1>20 DEF vars
<1> QED BY <1>1, <1>2, <1>3, <1>4, <1>5, <1>6, <1>7, <1>8, <1>9, <1>10, <1>11, <1>12, <1>13,
           <1>14, <1>15, <1>16, <1>17, <1>18, <1>19, <1>20 DEF Next, ToolStep, Stopped

LEMMA TypeInit ==
  Init => TypeOK /\ Idle
<1> SUFFICES ASSUME Init PROVE TypeOK /\ Idle
  OBVIOUS
<1>1. DOMAIN src = Tables /\ DOMAIN dst = Tables
  BY ConstantsAssumption DEF Init, ConstantsAssumption
<1> QED BY <1>1 DEF Init, TypeOK, Idle, Phases, ErrorKinds

\* The variables hold what the program could hold, in every run.
THEOREM TypeCorrect == Spec => []TypeOK
BY TypeInit, TypeInductive, PTL DEF Spec

-----------------------------------------------------------------------------
(* Detached constraints.  A detach is executed only while all restores are *)
(* still to come, and a restore that is passed over or fails leaves a      *)
(* trace; so what is detached has its restore either ahead or among the    *)
(* statements that failed.                                                 *)

RestoresAhead ==
  \A i \in todo : IsDetach(i) => \A r \in items : r.restore => r \in todo

Accounted ==
  \A k \in detached : \E r \in todo \cup failed : r.restore /\ r.key = k

Ended ==
  /\ pc = "recheck" => failed = {} /\ detached = {}
  /\ pc = "done" => todo = {} \/ detached = {}
  /\ pc = "done" /\ errs = {} => detached = {}
  /\ failed # {} => errs # {}

Kept ==
  /\ Paired(items)
  /\ RestoresAhead
  /\ Accounted
  /\ ~cfg.sync => detached = {}
  /\ Ended

\* The statement that comes next is no restore while a detach is to come.
LEMMA RestoreIsLast ==
  ASSUME Paired(items), TypeOK, RestoresAhead,
         NEW i \in todo, IsNext(i), todo' = todo \ {i}, items' = items
  PROVE  RestoresAhead'
<1> SUFFICES ASSUME NEW j \in todo', IsDetach(j), NEW r \in items, r.restore
             PROVE  r \in todo'
  BY DEF RestoresAhead
<1>1. r \in todo /\ j \in todo \ {i} /\ j \in items
  BY DEF RestoresAhead, TypeOK, progress
<1>2. r.phase = 2 /\ j.phase = 0
  BY <1>1 DEF Paired
<1>3. r # i
  BY <1>1, <1>2 DEF IsNext, Precedes
<1> QED BY <1>1, <1>3

LEMMA KeptInductive ==
  TypeOK /\ Idle /\ Kept /\ [Next]_vars => Kept'
<1> SUFFICES ASSUME TypeOK, Idle, Kept, [Next]_vars PROVE Kept'
  OBVIOUS
<1> USE DEF Kept, Idle, databases, reading, plan, progress, world
<1> DEFINE Still == UNCHANGED <<items, todo, failed, detached, cfg>>
<1>a. ASSUME Still PROVE Paired(items)' /\ RestoresAhead' /\ Accounted' /\ (~cfg.sync => detached = {})'
  BY <1>a DEF Paired, RestoresAhead, Accounted
<1> HIDE DEF Kept
<1>1. CASE ListTables
  <2>1. Still /\ UNCHANGED errs /\ pc' = "inspect"
    BY <1>1 DEF ListTables
  <2> QED BY <1>a, <2>1 DEF Kept, Ended
<1>2. CASE ListFails
  <2>1. Still /\ errs' = {"list"} /\ pc = "list" /\ pc' = "done"
    BY <1>2 DEF ListFails
  <2> QED BY <1>a, <2>1 DEF Kept, Ended
<1>3. CASE QueryTable
  <2>1. Still /\ UNCHANGED pc /\ pc \in {"inspect", "recheck"} /\ errs \subseteq errs'
    BY <1>3 DEF QueryTable
  <2> QED BY <1>a, <2>1 DEF Kept, Ended
<1>4. CASE QueryFails
  <2>1. Still /\ UNCHANGED pc /\ pc \in {"inspect", "recheck"} /\ errs \subseteq errs'
    BY <1>4 DEF QueryFails
  <2> QED BY <1>a, <2>1 DEF Kept, Ended
<1>5. CASE GiveUp \/ RefusePlan
  <2>1. Still /\ pc = "inspect" /\ pc' = "done" /\ errs' # {}
    BY <1>5 DEF GiveUp, RefusePlan
  <2> QED BY <1>a, <2>1 DEF Kept, Ended
<1>7. CASE MakePlan
  <2>1. /\ items' = Plan(cfg, snap).items /\ todo' = items' /\ cfg' = cfg
        /\ pc = "inspect" /\ pc' \in {"verify", "execute"} /\ UNCHANGED <<failed, detached>>
    BY <1>7 DEF MakePlan
  <2>2. failed' = {} /\ detached' = {}
    BY <2>1
  <2>3. Paired(items)'
    BY <2>1, PlanPaired DEF Paired
  <2> QED BY <2>1, <2>2, <2>3 DEF Kept, RestoresAhead, Accounted, Ended
<1>8. CASE VerifyTable \/ StartExecution
  <2>1. Still /\ UNCHANGED errs /\ pc' \in {"verify", "execute"}
    BY <1>8 DEF VerifyTable, StartExecution
  <2> QED BY <1>a, <2>1 DEF Kept, Ended
<1>9. CASE VerifyFails
  <2>1. Still /\ pc = "verify" /\ pc' = "done" /\ errs' = {"stale"}
    BY <1>9 DEF VerifyFails
  <2> QED BY <1>a, <2>1 DEF Kept, Ended
<1>11. ASSUME NEW i \in todo, PreviewItem(i) PROVE Kept'
  <2>1. /\ todo' = todo \ {i} /\ IsNext(i) /\ ~cfg.sync /\ pc' = "execute"
        /\ UNCHANGED <<items, failed, detached, cfg, errs>>
    BY <1>11 DEF PreviewItem, Passed
  <2>2. RestoresAhead'
    BY <2>1, RestoreIsLast DEF Kept
  <2> QED BY <2>1, <2>2 DEF Kept, Paired, Accounted, Ended
<1>12. ASSUME NEW i \in todo, SkipItem(i) PROVE Kept'
  <2>1. /\ todo' = todo \ {i} /\ IsNext(i) /\ ~Compensates(i) /\ pc' = "execute"
        /\ UNCHANGED <<items, failed, detached, cfg, errs>>
    BY <1>12 DEF SkipItem, Passed
  <2>2. RestoresAhead'
    BY <2>1, RestoreIsLast DEF Kept
  <2>3. Accounted'
    BY <2>1 DEF Kept, Accounted, Compensates
  <2> QED BY <2>1, <2>2, <2>3 DEF Kept, Paired, Ended
<1>13. ASSUME NEW i \in todo, ExecuteItem(i) PROVE Kept'
  <2>1. /\ todo' = todo \ {i} /\ IsNext(i) /\ cfg.sync /\ pc' = "execute"
        /\ UNCHANGED <<items, failed, cfg, errs>>
    BY <1>13 DEF ExecuteItem, Sends, Passed
  <2>2. detached' = IF ~i.temporary THEN detached
                    ELSE IF i.restore THEN detached \ {i.key} ELSE detached \cup {i.key}
    BY <1>13 DEF ExecuteItem
  <2>3. RestoresAhead'
    BY <2>1, RestoreIsLast DEF Kept
  <2>4. i \in items /\ (i.restore => i.temporary)
    BY DEF TypeOK, Kept, Paired
  <2>5. Accounted'
    <3> SUFFICES ASSUME NEW k \in detached' PROVE \E r \in (todo \ {i}) \cup failed : r.restore /\ r.key = k
      BY <2>1 DEF Accounted
    <3>1. CASE k \in detached
      <4>1. PICK r \in todo \cup failed : r.restore /\ r.key = k
        BY <3>1 DEF Kept, Accounted
      <4>2. r # i
        BY <4>1, <2>2, <2>4, <3>1
      <4> QED BY <4>1, <4>2
    <3>2. CASE k \notin detached
      <4>1. IsDetach(i) /\ k = i.key
        BY <3>2, <2>2 DEF IsDetach
      <4>2. PICK r \in items : r.restore /\ r.key = k
        BY <4>1, <2>4 DEF Kept, Paired
      <4>3. r \in todo /\ r # i
        BY <4>1, <4>2 DEF Kept, RestoresAhead, IsDetach
      <4> QED BY <4>2, <4>3
    <3> QED BY <3>1, <3>2
  <2> QED BY <2>1, <2>3, <2>5 DEF Kept, Paired, Ended
<1>14. ASSUME NEW i \in todo, StatementFails(i) PROVE Kept'
  <2>1. /\ todo' = todo \ {i} /\ IsNext(i) /\ cfg.sync /\ pc' = "execute"
        /\ failed' = failed \cup {i} /\ errs' # {}
        /\ UNCHANGED <<items, detached, cfg>>
    BY <1>14 DEF StatementFails, Sends, Passed
  <2>2. RestoresAhead'
    BY <2>1, RestoreIsLast DEF Kept
  <2>3. Accounted'
    BY <2>1 DEF Kept, Accounted
  <2> QED BY <2>1, <2>2, <2>3 DEF Kept, Paired, Ended
<1>15. CASE EndExecution
  <2>1. /\ Still /\ todo = {}
        /\ errs' = IF detached = {} THEN errs ELSE errs \cup {"detached"}
        /\ pc' = IF cfg.sync /\ errs' = {} THEN "recheck" ELSE "done"
    BY <1>15 DEF EndExecution
  <2>2. Ended'
    BY <2>1 DEF Kept, Ended
  <2> QED BY <1>a, <2>1, <2>2 DEF Kept
<1>16. CASE EndRecheck
  <2>1. Still /\ UNCHANGED errs /\ pc = "recheck" /\ pc' = "done"
    BY <1>16 DEF EndRecheck
  <2> QED BY <1>a, <2>1 DEF Kept, Ended
<1>17. CASE OutsideChange
  <2>1. Still /\ UNCHANGED <<errs, pc>>
    BY <1>17 DEF OutsideChange
  <2> QED BY <1>a, <2>1 DEF Kept, Ended
<1>18. CASE Crash \/ RunAgain
  <2>1. items' = {} /\ todo' = {} /\ failed' = {} /\ detached' = {}
    BY <1>18 DEF Crash, RunAgain, Forget
  <2> QED BY <2>1 DEF Kept, Paired, RestoresAhead, Accounted, Ended
<1>20. CASE UNCHANGED vars
  <2>1. Still /\ UNCHANGED <<errs, pc>>
    BY <1>20 DEF vars
  <2> QED BY <1>a, <2>1 DEF Kept, Ended
<1> QED BY <1>1, <1>2, <1>3, <1>4, <1>5, <1>7, <1>8, <1>9, <1>11, <1>12, <1>13,
           <1>14, <1>15, <1>16, <1>17, <1>18, <1>20 DEF Next, ToolStep, Stopped

LEMMA KeptInit ==
  Init => Kept
BY DEF Init, Kept, Paired, RestoresAhead, Accounted, Ended

LEMMA KeptAlways == Spec => [](TypeOK /\ Idle /\ Kept)
BY TypeInit, TypeInductive, KeptInit, KeptInductive, PTL DEF Spec

\* When the statements are over, every constraint still recorded as detached is
\* one whose own restore was sent and failed (execute.go's compensation).
THEOREM DetachedCorrect == Spec => []DetachedOnlyIfRestoreFailed
<1>1. TypeOK /\ Idle /\ Kept => DetachedOnlyIfRestoreFailed
  BY DEF Kept, Ended, Accounted, DetachedOnlyIfRestoreFailed
<1> QED BY <1>1, KeptAlways, PTL

-----------------------------------------------------------------------------
(* The refinement: every step of a run is a step of its contract or leaves *)
(* status, gone and tried as they are.                                     *)

LEMMA ContractInit == Init => Contract!Init
BY DEF Init, Contract!Init, RunStatus, RestoresFailed

LEMMA ContractStep ==
  TypeOK /\ Idle /\ Kept /\ [Next]_vars => [Contract!Next]_Contract!cvars
<1> SUFFICES ASSUME TypeOK, Idle, Kept, [Next]_vars PROVE [Contract!Next]_Contract!cvars
  OBVIOUS
<1> USE DEF Idle, databases, reading, plan, progress, world
<1> DEFINE Same == UNCHANGED <<RunStatus, detached, RestoresFailed>>
<1>same. ASSUME Same PROVE [Contract!Next]_Contract!cvars
  BY <1>same DEF Contract!cvars
\* A run that ends before execution began.
<1>early. ASSUME pc \in {"list", "inspect", "verify"}, pc' = "done", errs' # {},
                 UNCHANGED <<failed, detached>>
          PROVE  Contract!EndBadly
  BY <1>early DEF Contract!EndBadly, RunStatus, RestoresFailed
<1>1. CASE ListTables \/ QueryTable \/ QueryFails \/ MakePlan \/ VerifyTable \/ StartExecution
  <2>1. /\ UNCHANGED <<failed, detached>>
        /\ pc \in {"list", "inspect", "verify", "recheck"}
        /\ pc' \in {"inspect", "verify", "execute", "recheck"}
    BY <1>1 DEF ListTables, QueryTable, QueryFails, MakePlan, VerifyTable, StartExecution
  <2> QED BY <1>same, <2>1 DEF RunStatus, RestoresFailed
<1>2. CASE ListFails \/ GiveUp \/ RefusePlan \/ VerifyFails
  <2>1. Contract!EndBadly
    BY <1>early, <1>2 DEF ListFails, GiveUp, RefusePlan, VerifyFails
  <2> QED BY <2>1 DEF Contract!Next
<1>3. ASSUME NEW i \in todo, PreviewItem(i) \/ SkipItem(i) PROVE [Contract!Next]_Contract!cvars
  <2>1. UNCHANGED <<pc, errs, failed, detached>>
    BY <1>3 DEF PreviewItem, SkipItem
  <2> QED BY <1>same, <2>1 DEF RunStatus, RestoresFailed
<1>4. ASSUME NEW i \in todo, ExecuteItem(i) PROVE [Contract!Next]_Contract!cvars
  <2>1. /\ pc = "execute" /\ pc' = "execute" /\ failed' = failed
        /\ failed = {} \/ i.restore
        /\ detached' = IF ~i.temporary THEN detached
                       ELSE IF i.restore THEN detached \ {i.key} ELSE detached \cup {i.key}
    BY <1>4 DEF ExecuteItem, Sends, Compensates
  <2>2. UNCHANGED <<RunStatus, RestoresFailed>> /\ RunStatus \in {"running", "failing"}
    BY <2>1 DEF RunStatus, RestoresFailed
  <2>3. CASE detached' = detached
    BY <1>same, <2>2, <2>3
  <2>4. CASE i.restore /\ i.key \in detached /\ detached' = detached \ {i.key}
    BY <2>2, <2>4 DEF Contract!PutBack, Contract!Next
  <2>5. CASE ~i.restore /\ detached' = detached \cup {i.key}
    <3>1. RunStatus = "running"
      BY <2>1, <2>5 DEF RunStatus
    <3> QED BY <3>1, <2>2, <2>5 DEF Contract!Remove, Contract!Next
  <2> QED BY <2>1, <2>3, <2>4, <2>5
<1>5. ASSUME NEW i \in todo, StatementFails(i) PROVE [Contract!Next]_Contract!cvars
  <2>1. /\ pc = "execute" /\ pc' = "execute" /\ failed' = failed \cup {i}
        /\ failed = {} \/ i.restore
        /\ detached' = detached
    BY <1>5 DEF StatementFails, Sends, Compensates
  <2>2. RunStatus \in {"running", "failing"} /\ RunStatus' = "failing"
    BY <2>1 DEF RunStatus
  <2>3. CASE i.restore
    <3>1. RestoresFailed' = RestoresFailed \cup {i.key}
      BY <2>1, <2>3 DEF RestoresFailed
    <3> QED BY <3>1, <2>1, <2>2 DEF Contract!PutBackFails, Contract!Next
  <2>4. CASE ~i.restore
    <3>1. RestoresFailed' = RestoresFailed /\ RunStatus = "running"
      BY <2>1, <2>4 DEF RestoresFailed, RunStatus
    <3> QED BY <3>1, <2>1, <2>2 DEF Contract!OtherFails, Contract!Next
  <2> QED BY <2>3, <2>4
<1>6. CASE EndExecution
  <2>1. /\ pc = "execute" /\ todo = {} /\ UNCHANGED <<failed, detached>>
        /\ errs' = IF detached = {} THEN errs ELSE errs \cup {"detached"}
        /\ pc' = IF cfg.sync /\ errs' = {} THEN "recheck" ELSE "done"
    BY <1>6 DEF EndExecution
  <2>2. failed # {} => errs' # {}
    BY <2>1 DEF Kept, Ended
  <2>3. detached \subseteq RestoresFailed
    BY <2>1 DEF Kept, Accounted, RestoresFailed
  <2>4. UNCHANGED RestoresFailed
    BY <2>1 DEF RestoresFailed
  <2>5. CASE pc' = "recheck"
    <3>1. failed = {}
      BY <2>1, <2>2, <2>5
    <3> QED BY <3>1, <1>same, <2>1, <2>4, <2>5 DEF RunStatus
  <2>6. CASE pc' = "done" /\ errs' = {}
    <3>1. failed = {} /\ detached = {}
      BY <2>1, <2>2, <2>6
    <3> QED BY <3>1, <2>1, <2>4, <2>6 DEF RunStatus, Contract!EndWell, Contract!Next
  <2>7. CASE pc' = "done" /\ errs' # {}
    BY <2>1, <2>3, <2>4, <2>7 DEF RunStatus, Contract!EndBadly, Contract!Next
  <2> QED BY <2>1, <2>5, <2>6, <2>7
<1>7. CASE EndRecheck
  <2>1. /\ pc = "recheck" /\ pc' = "done" /\ UNCHANGED <<failed, detached, errs>>
        /\ failed = {} /\ detached = {}
    BY <1>7 DEF EndRecheck, Kept, Ended
  <2>2. RunStatus = "running" /\ RunStatus' \in {"ok", "failed"} /\ UNCHANGED RestoresFailed
    BY <2>1 DEF RunStatus, RestoresFailed
  <2> QED BY <2>1, <2>2 DEF Contract!EndWell, Contract!EndBadly, Contract!Next
<1>8. CASE OutsideChange
  <2>1. UNCHANGED <<pc, errs, failed, detached>>
    BY <1>8 DEF OutsideChange
  <2> QED BY <1>same, <2>1 DEF RunStatus, RestoresFailed
<1>9. CASE Crash
  <2>1. pc \notin {"done", "crashed"} /\ pc' = "crashed" /\ failed' = {} /\ detached' = {}
    BY <1>9 DEF Crash, Forget
  <2> QED BY <2>1 DEF RunStatus, RestoresFailed, Contract!Die, Contract!Next
<1>10. CASE RunAgain
  <2>1. pc \in {"done", "crashed"} /\ pc' = "list" /\ failed' = {} /\ detached' = {}
    BY <1>10 DEF RunAgain, Forget
  <2> QED BY <2>1 DEF RunStatus, RestoresFailed, Contract!NewRun, Contract!Next
<1>11. CASE UNCHANGED vars
  BY <1>same, <1>11 DEF vars, RunStatus, RestoresFailed
<1> QED BY <1>1, <1>2, <1>3, <1>4, <1>5, <1>6, <1>7, <1>8, <1>9, <1>10, <1>11
        DEF Next, ToolStep, Stopped

\* A run of the tool keeps the contract of SyncContract: it removes no foreign
\* key after its first failure, ends well only with all of them back, and ends
\* badly only when the restore of each missing one was tried and failed.
THEOREM ContractImplemented == Spec => ImplementsContract
BY ContractInit, ContractStep, KeptAlways, PTL DEF Spec, Contract!Spec, ImplementsContract

\* So a run that reports success has left no constraint detached.
THEOREM PromiseKept == Spec => []Contract!KeptPromise
<1>1. TypeOK /\ Idle /\ Kept => Contract!KeptPromise
  BY DEF Kept, Ended, Accounted, Idle, Contract!KeptPromise, RunStatus, RestoresFailed
<1> QED BY <1>1, KeptAlways, PTL

-----------------------------------------------------------------------------
(* A stale plan is refused.  While the plan is verified, a table that      *)
(* changes is still in the queue or both its sides have been found as they *)
(* were read, the source of the first one when its destination comes next; *)
(* a change made from then on is one made during the verification.         *)

Shapes ==
  /\ queue \in Seq(Tables) /\ alters \in Seq(Tables)
  /\ DOMAIN snap \subseteq Tables

FreshSource(t) == Parse(src[t]) = snap[t].src
FreshDest(t) == Parse(dst[t]) = snap[t].dst

VerifiedSoFar ==
  /\ pc = "verify" =>
       /\ call \in {1, 2}
       /\ call = 2 /\ queue # <<>> => FreshSource(Head(queue))
       /\ \A t \in Changes(snap) : t \in ToSet(queue) \/ (FreshSource(t) /\ FreshDest(t))
  /\ pc = "execute" /\ cfg.sync /\ todo = items =>
       \A t \in Changes(snap) : FreshSource(t) /\ FreshDest(t)

Verified == drift \notin {"verify", "execute"} => VerifiedSoFar

LEMMA ChangesTables ==
  ASSUME DOMAIN snap \subseteq Tables
  PROVE  /\ Changes(snap) \in SUBSET Nat /\ IsFiniteSet(Changes(snap))
         /\ OrderTableAlters(snap) \in Seq(Tables)
         /\ ToSet(OrderTableAlters(snap)) = Changes(snap)
<1>1. Changes(snap) \subseteq Tables
  BY DEF Changes
<1>2. Changes(snap) \in SUBSET Nat /\ IsFiniteSet(Changes(snap))
  BY <1>1, ConstantsAssumption, FS_Subset DEF ConstantsAssumption
<1>3. /\ OrderTableAlters(snap) \in Seq(Changes(snap))
      /\ ToSet(OrderTableAlters(snap)) = Changes(snap)
  BY <1>2, AltersMembers
<1>4. OrderTableAlters(snap) \in Seq(Tables)
  BY <1>1, <1>3, SeqMonotonic
<1> QED BY <1>2, <1>3, <1>4

LEMMA ShapesInductive ==
  Shapes /\ [Next]_vars => Shapes'
<1> SUFFICES ASSUME Shapes, [Next]_vars PROVE Shapes'
  OBVIOUS
<1> USE DEF Shapes, databases, reading, plan, progress, world
<1>a. <<>> \in Seq(Tables)
  OBVIOUS
<1>b. queue # <<>> => Tail(queue) \in Seq(Tables) /\ Head(queue) \in Tables
  OBVIOUS
<1>1. CASE ListTables
  <2> DEFINE there == {t \in Tables : Exists(src[t]) \/ Exists(dst[t])}
  <2>1. there \in SUBSET Nat /\ IsFiniteSet(there) /\ there \subseteq Tables
    BY ConstantsAssumption, FS_Subset DEF ConstantsAssumption
  <2>2. queue' = InOrder(there) /\ UNCHANGED <<snap, alters>>
    BY <1>1 DEF ListTables, StartQueue
  <2> HIDE DEF there
  <2>3. InOrder(there) \in Seq(there)
    BY <2>1, InOrderMembers
  <2>4. InOrder(there) \in Seq(Tables)
    BY <2>1, <2>3, SeqMonotonic
  <2> QED BY <2>2, <2>4
<1>2. CASE QueryTable
  <2>1. queue # <<>> /\ UNCHANGED alters /\ queue' \in {queue, Tail(queue)}
    BY <1>2 DEF QueryTable, StartQueue
  <2>2. snap' = snap \/ \E v : snap' = With(snap, Head(queue), v)
    BY <1>2 DEF QueryTable
  <2>3. DOMAIN snap' \subseteq DOMAIN snap \cup {Head(queue)}
    BY <2>2 DEF With
  <2> QED BY <1>b, <2>1, <2>3
<1>3. CASE QueryFails
  BY <1>3, <1>b DEF QueryFails, StartQueue
<1>4. CASE MakePlan
  <2>1. /\ alters' = OrderTableAlters(snap) /\ UNCHANGED snap
        /\ queue' = IF cfg.sync THEN alters' ELSE <<>>
    BY <1>4 DEF MakePlan
  <2> QED BY <1>a, <2>1, ChangesTables
<1>5. CASE VerifyTable
  BY <1>5, <1>b DEF VerifyTable
<1>6. CASE EndExecution
  <2>1. queue' \in {alters, <<>>} /\ UNCHANGED <<snap, alters>>
    BY <1>6 DEF EndExecution, StartQueue
  <2> QED BY <1>a, <2>1
<1>7. CASE Crash \/ RunAgain
  <2>1. queue' = <<>> /\ alters' = <<>> /\ snap' = <<>>
    BY <1>7 DEF Crash, RunAgain, Forget
  <2> QED BY <1>a, <2>1
<1>8. CASE ListFails \/ GiveUp \/ RefusePlan \/ VerifyFails \/ StartExecution \/ EndRecheck
  BY <1>8 DEF ListFails, GiveUp, RefusePlan, VerifyFails, StartExecution, EndRecheck
<1>9. ASSUME NEW i \in todo, PreviewItem(i) \/ SkipItem(i) \/ ExecuteItem(i) \/ StatementFails(i)
      PROVE  Shapes'
  BY <1>9 DEF PreviewItem, SkipItem, ExecuteItem, StatementFails
<1>10. CASE OutsideChange \/ UNCHANGED vars
  BY <1>10 DEF OutsideChange, vars
<1> QED BY <1>1, <1>2, <1>3, <1>4, <1>5, <1>6, <1>7, <1>8, <1>9, <1>10
        DEF Next, ToolStep, Stopped

LEMMA VerifiedInductive ==
  TypeOK /\ Shapes /\ Verified /\ [Next]_vars => Verified'
<1> SUFFICES ASSUME TypeOK, Shapes, Verified, [Next]_vars PROVE Verified'
  OBVIOUS
<1> USE DEF databases, reading, plan, progress, world
<1>1. CASE ListTables \/ ListFails \/ GiveUp \/ RefusePlan \/ VerifyFails \/ EndRecheck
           \/ QueryTable \/ QueryFails \/ EndExecution \/ Crash \/ RunAgain
  <2>1. pc' \notin {"verify", "execute"}
    BY <1>1 DEF ListTables, ListFails, GiveUp, RefusePlan, VerifyFails, EndRecheck, QueryTable,
                QueryFails, EndExecution, Crash, RunAgain
  <2> QED BY <2>1 DEF Verified, VerifiedSoFar
<1>2. CASE MakePlan
  <2>1. /\ pc' = IF cfg.sync THEN "verify" ELSE "execute"
        /\ call' = 1 /\ (cfg.sync => queue' = OrderTableAlters(snap))
        /\ UNCHANGED <<cfg, snap>>
    BY <1>2 DEF MakePlan
  <2>2. ToSet(OrderTableAlters(snap)) = Changes(snap)
    BY ChangesTables DEF Shapes
  <2>3. VerifiedSoFar'
    BY <2>1, <2>2 DEF VerifiedSoFar
  <2> QED BY <2>3 DEF Verified
<1>3. CASE VerifyTable
  <2> SUFFICES ASSUME drift \notin {"verify", "execute"} PROVE VerifiedSoFar'
    BY <1>3 DEF Verified, VerifyTable
  <2> DEFINE t == Head(queue)
             rest == Tail(queue)
  <2>1. /\ pc = "verify" /\ pc' = "verify" /\ queue # <<>>
        /\ call' = 3 - call /\ queue' = IF call = 1 THEN queue ELSE rest
        /\ UNCHANGED <<src, dst, snap>>
    BY <1>3 DEF VerifyTable
  <2>2. IF call = 1 THEN FreshSource(t) ELSE FreshDest(t)
    BY <1>3 DEF VerifyTable, Unchanged, FreshSource, FreshDest
  <2>3. /\ call \in {1, 2}
        /\ call = 2 => FreshSource(t)
        /\ \A u \in Changes(snap) : u \in ToSet(queue) \/ (FreshSource(u) /\ FreshDest(u))
    BY <2>1 DEF Verified, VerifiedSoFar
  <2>4. ToSet(queue) = {t} \cup ToSet(rest)
    BY <2>1, ToSetHeadTail DEF Shapes
  <2>5. \A u : FreshSource(u)' = FreshSource(u) /\ FreshDest(u)' = FreshDest(u)
    BY <2>1 DEF FreshSource, FreshDest
  <2>6. CASE call = 1
    <3>1. call' = 2 /\ queue' = queue
      BY <2>1, <2>6
    <3> QED BY <2>1, <2>2, <2>3, <2>6, <3>1 DEF VerifiedSoFar, FreshSource, FreshDest
  <2>7. CASE call = 2
    <3>1. call' = 1 /\ queue' = rest
      BY <2>1, <2>7
    <3>2. \A u \in Changes(snap) : u \in ToSet(rest) \/ (FreshSource(u) /\ FreshDest(u))
      BY <2>2, <2>3, <2>4, <2>7
    <3> QED BY <2>1, <3>1, <3>2 DEF VerifiedSoFar, FreshSource, FreshDest
  <2> QED BY <2>3, <2>6, <2>7
<1>4. CASE StartExecution
  <2> SUFFICES ASSUME drift \notin {"verify", "execute"} PROVE VerifiedSoFar'
    BY <1>4 DEF Verified, StartExecution
  <2>1. pc = "verify" /\ queue = <<>> /\ pc' = "execute" /\ UNCHANGED <<src, dst, snap>>
    BY <1>4 DEF StartExecution
  <2>2. \A t \in Changes(snap) : FreshSource(t) /\ FreshDest(t)
    BY <2>1, ToSetEmpty DEF Verified, VerifiedSoFar
  <2> QED BY <2>1, <2>2 DEF VerifiedSoFar, FreshSource, FreshDest
<1>5. ASSUME NEW i \in todo, PreviewItem(i) \/ SkipItem(i) \/ ExecuteItem(i) \/ StatementFails(i)
      PROVE  Verified'
  <2>1. pc' = "execute" /\ todo' = todo \ {i} /\ UNCHANGED items
    BY <1>5 DEF PreviewItem, SkipItem, ExecuteItem, StatementFails, Sends, Passed
  <2>2. todo' # items'
    BY <2>1 DEF TypeOK
  <2> QED BY <2>1, <2>2 DEF Verified, VerifiedSoFar
<1>6. CASE OutsideChange
  <2>1. drift' = pc /\ UNCHANGED pc
    BY <1>6 DEF OutsideChange
  <2> QED BY <2>1 DEF Verified, VerifiedSoFar
<1>7. CASE UNCHANGED vars
  BY <1>7 DEF vars, Verified, VerifiedSoFar, FreshSource, FreshDest
<1> QED BY <1>1, <1>2, <1>3, <1>4, <1>5, <1>6, <1>7 DEF Next, ToolStep, Stopped

LEMMA VerifiedInit == Init => Shapes /\ Verified
<1> SUFFICES ASSUME Init PROVE Shapes /\ Verified
  OBVIOUS
<1>1. queue = <<>> /\ alters = <<>> /\ snap = <<>> /\ pc = "list"
  BY DEF Init
<1> QED BY <1>1 DEF Shapes, Verified, VerifiedSoFar

LEMMA ShapesAlways == Spec => [](TypeOK /\ Idle /\ Shapes /\ Verified)
BY TypeInit, TypeInductive, VerifiedInit, ShapesInductive, VerifiedInductive, PTL DEF Spec

\* Execution starts only if every table the plan changes is as it was when the
\* plan was made, unless somebody changed it after the verification began.
THEOREM StalePlansRefused == Spec => []StalePlanRefused
<1>1. Verified => StalePlanRefused
  BY DEF Verified, VerifiedSoFar, FreshSource, FreshDest, StalePlanRefused
<1> QED BY <1>1, ShapesAlways, PTL

-----------------------------------------------------------------------------
(* What a run knows: each reading holds one answer per side, about a table *)
(* in scope if the source has it; each snapshot is the comparison of such  *)
(* a reading; the items are those of the plan of the snapshots.            *)

GoodReading(c, t, r) ==
  /\ DOMAIN r = {"hasS", "hasD", "src", "dst", "sf", "df"}
  /\ IsSchema(r.src) /\ IsSchema(r.dst)
  /\ r.hasS \/ Exists(r.src) => InScope(c, t)

Databases ==
  /\ \A t \in Tables : IsSchema(src[t]) /\ IsSchema(dst[t])
  /\ ValidDatabase(dst)

Reading ==
  pc \in {"inspect", "recheck"} /\ queue # <<>> =>
    /\ GoodReading(cfg, Head(queue), rd)
    /\ call \in Nat
    /\ call = 1 => InScope(cfg, Head(queue))
    /\ call = 3 => rd.hasS
    /\ drift = "none" => rd.dst \in {NoSchema, dst[Head(queue)]}

Snapshots ==
  \A t \in DOMAIN snap : \E r : GoodReading(cfg, t, r) /\ snap[t] = AlterData(cfg, t, r)

Planned ==
  /\ items # {} => ~Plan(cfg, snap).refused /\ items = Plan(cfg, snap).items
  /\ pc \in {"list", "inspect", "crashed"} => items = {}

Informed == Databases /\ Reading /\ Snapshots /\ Planned

LEMMA NextCallNeeded ==
  ASSUME NEW t, NEW r, NEW n \in Nat
  PROVE  /\ NextCall(t, r, n) \in Nat
         /\ NextCall(t, r, n) = 1 => InScope(cfg, t)
         /\ NextCall(t, r, n) = 3 => r.hasS
<1> DEFINE S == {m \in (n + 1)..Len(Calls) : Needed(t, r, m)} \cup {Len(Calls) + 1}
           next == NextCall(t, r, n)
<1>1. Len(Calls) = 6
  BY DEF Calls
<1>2. S \in SUBSET Nat /\ S # {}
  BY <1>1
<1>3. \A m \in S : m = 7 \/ Needed(t, r, m)
  BY <1>1
<1>4. next = Min(S)
  BY DEF NextCall
<1> HIDE DEF S, next
<1>5. next \in S
  BY <1>2, <1>4, LeastMember
<1>6. next \in Nat /\ (next = 7 \/ Needed(t, r, next))
  BY <1>2, <1>3, <1>5
<1>7. next = 1 => InScope(cfg, t)
  BY <1>6 DEF Needed
<1>8. next = 3 => r.hasS
  BY <1>6 DEF Needed
<1> QED BY <1>6, <1>7, <1>8 DEF next

LEMMA NothingReadGood ==
  ASSUME NEW t
  PROVE  GoodReading(cfg, t, NothingRead) /\ ~NothingRead.hasS /\ NothingRead.dst = NoSchema
<1>1. /\ DOMAIN NothingRead = {"hasS", "hasD", "src", "dst", "sf", "df"}
      /\ NothingRead.src = NoSchema /\ NothingRead.dst = NoSchema /\ NothingRead.hasS = FALSE
  BY DEF NothingRead
<1>2. IsSchema(NoSchema)
  BY NoSchemaWellFormed DEF IsSchema
<1>3. ~Exists(NoSchema)
  BY DEF Exists, NoSchema
<1> QED BY <1>1, <1>2, <1>3 DEF GoodReading

\* A queue that is started anew.
LEMMA QueueStarted ==
  ASSUME NEW q, StartQueue(q), UNCHANGED cfg
  PROVE  Reading'
<1> SUFFICES ASSUME queue' # <<>> PROVE Reading'
  BY DEF Reading
<1> DEFINE t == Head(queue')
<1>1. queue' = q /\ rd' = NothingRead /\ call' = NextCall(t, NothingRead, 0)
  BY DEF StartQueue
<1>2. GoodReading(cfg, t, NothingRead) /\ ~NothingRead.hasS /\ NothingRead.dst = NoSchema
  BY NothingReadGood
<1> HIDE DEF t
<1>3. /\ call' \in Nat
      /\ call' = 1 => InScope(cfg, t)
      /\ call' = 3 => NothingRead.hasS
  BY <1>1, NextCallNeeded
<1>4. GoodReading(cfg', t, rd') /\ (call' = 1 => InScope(cfg', t)) /\ (call' = 3 => rd'.hasS)
      /\ rd'.dst = NoSchema /\ call' \in Nat
  BY <1>1, <1>2, <1>3
<1> QED BY <1>4 DEF Reading, t

\* One more answer about the first table of the queue.
LEMMA AnswerGood ==
  ASSUME NEW t \in Tables, NEW r, NEW n, GoodReading(cfg, t, r), Databases,
         n = 1 => InScope(cfg, t), n = 3 => r.hasS
  PROVE  /\ GoodReading(cfg, t, Answer(t, r, n))
         /\ r.dst \in {NoSchema, dst[t]} => Answer(t, r, n).dst \in {NoSchema, dst[t]}
<1> DEFINE u == Answer(t, r, n)
           found == Exists(src[t])
           foundD == Exists(dst[t])
<1>1. \/ n = 1 /\ u = [r EXCEPT !.hasS = found]
      \/ u = [r EXCEPT !.hasD = foundD]
      \/ n = 3 /\ u = [r EXCEPT !.src = src[t]]
      \/ u = [r EXCEPT !.dst = dst[t]]
      \/ u = [r EXCEPT !.sf = FieldInfos(src[t])]
      \/ u = [r EXCEPT !.df = FieldInfos(dst[t])]
  BY DEF Answer
<1>2. DOMAIN r = {"hasS", "hasD", "src", "dst", "sf", "df"}
  BY DEF GoodReading
<1> HIDE DEF u, found, foundD
<1>3. DOMAIN u = DOMAIN r
  BY <1>1
<1>4. u.src = r.src \/ (u.src = src[t] /\ n = 3)
  BY <1>1, <1>2
<1>5. u.dst = r.dst \/ u.dst = dst[t]
  BY <1>1, <1>2
<1>6. u.hasS = r.hasS \/ n = 1
  BY <1>1, <1>2
<1>7. u.hasS \/ Exists(u.src) => InScope(cfg, t)
  BY <1>4, <1>6 DEF GoodReading
<1>8. IsSchema(u.src) /\ IsSchema(u.dst)
  BY <1>4, <1>5 DEF GoodReading, Databases
<1> QED BY <1>2, <1>3, <1>5, <1>7, <1>8 DEF GoodReading, u

-----------------------------------------------------------------------------
(* What a snapshot says, and what an item may do.                          *)

LEMMA SnapshotSays ==
  ASSUME Snapshots, NEW t \in DOMAIN snap
  PROVE  /\ snap[t].type \in {"create", "alter"} => InScope(cfg, t)
         /\ snap[t].type = "create" =>
              \A j \in DOMAIN snap[t].sql : CreatesOf(t, snap[t].sql[j])
         /\ snap[t].type = "alter" =>
              \A j \in DOMAIN snap[t].sql : AltersOf(cfg, t, snap[t].sql[j])
         /\ \A k \in DOMAIN snap[t].dst.fks \cap DOMAIN snap[t].src.fks :
              \/ <<t, k>> \in cfg.ignoreFks
              \/ snap[t].src.fks[k] = snap[t].dst.fks[k]
              \/ /\ snap[t].type = "alter"
                 /\ \E j \in DOMAIN snap[t].sql :
                      AddForeign(k, snap[t].src.fks[k]) \in ToSet(snap[t].sql[j].clauses)
<1>1. PICK r : GoodReading(cfg, t, r) /\ snap[t] = AlterData(cfg, t, r)
  BY DEF Snapshots
<1>2. {"src", "dst"} \subseteq DOMAIN r /\ IsSchema(r.src) /\ IsSchema(r.dst)
  BY <1>1 DEF GoodReading
<1>3. Exists(r.src) => InScope(cfg, t)
  BY <1>1 DEF GoodReading
<1>4. snap[t].src = Parse(r.src) /\ snap[t].dst = Parse(r.dst)
  BY <1>1, <1>2, AlterDataSays
<1> DEFINE d == AlterData(cfg, t, r)
<1>5. /\ d.type \in {"create", "alter"} => Exists(r.src)
      /\ d.type = "create" => \A j \in DOMAIN d.sql : CreatesOf(t, d.sql[j])
      /\ d.type = "alter" => \A j \in DOMAIN d.sql : AltersOf(cfg, t, d.sql[j])
      /\ \A k \in DOMAIN Parse(r.dst).fks \cap DOMAIN Parse(r.src).fks :
              \/ <<t, k>> \in cfg.ignoreFks
              \/ Parse(r.src).fks[k] = Parse(r.dst).fks[k]
              \/ /\ d.type = "alter"
                 /\ \E j \in DOMAIN d.sql :
                      AddForeign(k, Parse(r.src).fks[k]) \in ToSet(d.sql[j].clauses)
  BY <1>2, AlterDataSays
<1> HIDE DEF d
<1>6. snap[t] = d
  BY <1>1 DEF d
<1> QED BY <1>3, <1>4, <1>5, <1>6

\* A clause for table t that keeps to the configuration.
Obedient(t, c) ==
  /\ \A n \in TouchedColumns(c) : <<t, n>> \notin cfg.ignoreCols
  /\ c.op \in {"DROP COLUMN", "DROP INDEX"} => cfg.drop
  /\ snap[t].type # "create" => \A k \in TouchedForeign(c) : <<t, k>> \notin cfg.ignoreFks

\* An item of the plan: a statement about t, or the removal or the restore of the
\* constraint k of t, which no statement of the plan is about.
OwnItem(i, t) ==
  /\ ~i.temporary /\ ~i.restore
  /\ t \in Changes(snap) /\ \E j \in DOMAIN snap[t].sql : i.stmt = snap[t].sql[j]

TemporaryItem(i, t) ==
  /\ i.temporary
  /\ t \in DOMAIN snap
  /\ \E k \in DOMAIN snap[t].dst.fks \cap DOMAIN snap[t].src.fks :
       /\ Temporary(snap, i, t, k)
       /\ <<t, k>> \notin cfg.ignoreFks
       /\ <<t, k>> \notin PlannedKeys(OwnItems(items))

LawfulItem(i, t) ==
  /\ t \in Tables /\ InScope(cfg, t)
  /\ i.stmt.table = t /\ ProperStatement(i.stmt)
  /\ \A c \in ToSet(i.stmt.clauses) : Obedient(t, c)
  /\ OwnItem(i, t) \/ TemporaryItem(i, t)

LEMMA ItemLawful ==
  ASSUME Shapes, Snapshots, Planned, NEW i \in items
  PROVE  \E t : LawfulItem(i, t)
<1>1. ~Plan(cfg, snap).refused /\ items = Plan(cfg, snap).items
  BY DEF Planned
<1>2. \/ /\ ~i.temporary /\ ~i.restore
         /\ \E t \in ToSet(OrderTableAlters(snap)) :
              \E j \in DOMAIN snap[t].sql : i.stmt = snap[t].sql[j]
      \/ /\ i.temporary
         /\ \E t \in DOMAIN snap : \E k \in DOMAIN snap[t].dst.fks \cap DOMAIN snap[t].src.fks :
              /\ Temporary(snap, i, t, k)
              /\ InScope(cfg, t) /\ <<t, k>> \notin cfg.ignoreFks
              /\ <<t, k>> \notin PlannedKeys(OwnItems(items))
  BY <1>1, PlanSays
<1>3. CASE ~i.temporary
  <2>1. PICK t \in ToSet(OrderTableAlters(snap)) :
          \E j \in DOMAIN snap[t].sql : i.stmt = snap[t].sql[j]
    BY <1>2, <1>3
  <2>2. PICK j \in DOMAIN snap[t].sql : i.stmt = snap[t].sql[j]
    BY <2>1
  <2>3. t \in Changes(snap)
    BY ChangesTables DEF Shapes
  <2>4. t \in DOMAIN snap /\ t \in Tables /\ snap[t].type \in {"create", "alter"}
    BY <2>3 DEF Changes, Shapes
  <2>5. InScope(cfg, t)
    BY <2>4, SnapshotSays
  <2>6. OwnItem(i, t)
    BY <1>2, <1>3, <2>2, <2>3 DEF OwnItem
  <2>7. CASE snap[t].type = "create"
    <3>1. CreatesOf(t, i.stmt)
      BY <2>2, <2>4, <2>7, SnapshotSays
    <3>2. \A c \in ToSet(i.stmt.clauses) : Obedient(t, c)
      BY <3>1, <2>7 DEF CreatesOf, Obedient, TouchedColumns
    <3> QED BY <2>4, <2>5, <2>6, <3>1, <3>2 DEF CreatesOf, LawfulItem
  <2>8. CASE snap[t].type = "alter"
    <3>1. AltersOf(cfg, t, i.stmt)
      BY <2>2, <2>4, <2>8, SnapshotSays
    <3>2. \A c \in ToSet(i.stmt.clauses) : Obedient(t, c)
      BY <3>1 DEF AltersOf, Obedient, Permitted
    <3> QED BY <2>4, <2>5, <2>6, <3>1, <3>2 DEF AltersOf, LawfulItem
  <2> QED BY <2>4, <2>7, <2>8
<1>4. CASE i.temporary
  <2>1. PICK t \in DOMAIN snap : \E k \in DOMAIN snap[t].dst.fks \cap DOMAIN snap[t].src.fks :
              /\ Temporary(snap, i, t, k)
              /\ InScope(cfg, t) /\ <<t, k>> \notin cfg.ignoreFks
              /\ <<t, k>> \notin PlannedKeys(OwnItems(items))
    BY <1>2, <1>4
  <2>2. PICK k \in DOMAIN snap[t].dst.fks \cap DOMAIN snap[t].src.fks :
              /\ Temporary(snap, i, t, k)
              /\ InScope(cfg, t) /\ <<t, k>> \notin cfg.ignoreFks
              /\ <<t, k>> \notin PlannedKeys(OwnItems(items))
    BY <2>1
  <2>3. TemporaryItem(i, t)
    BY <1>4, <2>1 DEF TemporaryItem
  <2>4. \E c : i.stmt = Alter(t, <<c>>) /\ AboutForeign(c) /\ c.constraint = k
    <3>1. CASE i.restore
      <4> DEFINE c == AddForeign(k, snap[t].src.fks[k])
      <4>1. i.stmt = Alter(t, <<c>>)
        BY <2>2, <3>1 DEF Temporary
      <4>2. AboutForeign(c) /\ c.constraint = k
        BY DEF AboutForeign, AddForeign
      <4> QED BY <4>1, <4>2
    <3>2. CASE ~i.restore
      <4> DEFINE c == DropForeign(k)
      <4>1. i.stmt = Alter(t, <<c>>)
        BY <2>2, <3>2 DEF Temporary
      <4>2. AboutForeign(c) /\ c.constraint = k
        BY DEF AboutForeign, DropForeign
      <4> QED BY <4>1, <4>2
    <3> QED BY <3>1, <3>2
  <2>5. PICK c : i.stmt = Alter(t, <<c>>) /\ AboutForeign(c) /\ c.constraint = k
    BY <2>4
  <2> DEFINE cs == <<c>>
             C == {c}
  <2>a. ProperClause(c)
    BY <2>5 DEF AboutForeign, ProperClause
  <2>6. cs \in Seq(C) /\ ToSet(cs) = {c} /\ \A x \in C : ProperClause(x)
    BY <2>a, ToSetSingle
  <2>7. i.stmt = Alter(t, cs)
    BY <2>5
  <2> HIDE DEF cs, C
  <2>8. ProperStatement(i.stmt) /\ i.stmt.table = t /\ i.stmt.clauses = cs
    BY <2>6, <2>7, AlterProper
  <2>9. Obedient(t, c)
    BY <2>2, <2>5 DEF Obedient, AboutForeign, TouchedColumns, TouchedForeign
  <2>10. t \in Tables
    BY DEF Shapes
  <2> QED BY <2>2, <2>3, <2>6, <2>8, <2>9, <2>10 DEF LawfulItem
<1> QED BY <1>3, <1>4

\* The statement of item i is sent and executed.
Executed(i) ==
  /\ i \in todo /\ Sends(i)
  /\ Accepts(dst, i.stmt) /\ dst' = After(dst, i.stmt)
  /\ UNCHANGED <<src, pc, reading, plan, world>>

LEMMA DestStep ==
  ASSUME [Next]_vars
  PROVE  \/ dst' = dst
         \/ \E i \in todo : Executed(i)
         \/ OutsideChange
<1> USE DEF databases
<1>1. ASSUME NEW i \in todo, ExecuteItem(i) PROVE Executed(i)
  BY <1>1 DEF ExecuteItem, Executed
<1>2. ASSUME NEW i \in todo, StatementFails(i) PROVE dst' = dst \/ Executed(i)
  BY <1>2 DEF StatementFails, Executed
<1>3. ASSUME NEW i \in todo, PreviewItem(i) \/ SkipItem(i) PROVE dst' = dst
  BY <1>3 DEF PreviewItem, SkipItem
<1>4. CASE ListTables \/ ListFails \/ GiveUp \/ RefusePlan \/ VerifyFails \/ EndRecheck
           \/ QueryTable \/ QueryFails \/ EndExecution \/ Crash \/ RunAgain \/ MakePlan
           \/ VerifyTable \/ StartExecution
  BY <1>4 DEF ListTables, ListFails, GiveUp, RefusePlan, VerifyFails, EndRecheck, QueryTable,
              QueryFails, EndExecution, Crash, RunAgain, MakePlan, VerifyTable, StartExecution
<1>5. CASE UNCHANGED vars
  BY <1>5 DEF vars
<1> QED BY <1>1, <1>2, <1>3, <1>4, <1>5 DEF Next, ToolStep, Stopped

\* What becomes of the destination by it.
LEMMA ExecutedOutcome ==
  ASSUME TypeOK, Databases, NEW i, NEW t, LawfulItem(i, t), Executed(i)
  PROVE  /\ \A u \in Tables \ {t} : dst'[u] = dst[u]
         /\ IsSchema(dst'[t]) /\ ValidDatabase(dst')
         /\ \/ Exists(dst[t]) /\ Leaves(dst[t], dst'[t], ToSet(i.stmt.clauses))
            \/ ~Exists(dst[t]) /\ i.stmt.clauses = <<>>
<1>1. t \in DOMAIN dst /\ DOMAIN dst = Tables /\ i.stmt.table = t
  BY DEF TypeOK, LawfulItem
<1>2. WellFormed(dst[t])
  BY <1>1 DEF Databases, IsSchema
<1>3. /\ Len(i.stmt.clauses) \in Nat /\ DOMAIN i.stmt.clauses = 1..Len(i.stmt.clauses)
      /\ \A c \in ToSet(i.stmt.clauses) : ProperClause(c)
      /\ WellFormed(i.stmt.create)
  BY DEF LawfulItem, ProperStatement
<1>4. Accepts(dst, i.stmt) /\ dst' = After(dst, i.stmt)
  BY DEF Executed
<1>5. /\ \A u \in DOMAIN dst \ {t} : After(dst, i.stmt)[u] = dst[u]
      /\ WellFormed(After(dst, i.stmt)[t]) /\ Exists(After(dst, i.stmt)[t])
      /\ \/ Exists(dst[t]) /\ Leaves(dst[t], After(dst, i.stmt)[t], ToSet(i.stmt.clauses))
         \/ ~Exists(dst[t]) /\ i.stmt.clauses = <<>>
  BY <1>1, <1>2, <1>3, <1>4, AcceptedStatement
<1>6. ValidDatabase(dst')
  BY <1>4 DEF Accepts
<1> QED BY <1>1, <1>4, <1>5, <1>6 DEF IsSchema

LEMMA DatabasesInductive ==
  TypeOK /\ Shapes /\ Databases /\ Snapshots /\ Planned /\ [Next]_vars => Databases'
<1> SUFFICES ASSUME TypeOK, Shapes, Databases, Snapshots, Planned, [Next]_vars PROVE Databases'
  OBVIOUS
<1>1. CASE OutsideChange
  <2>1. PICK e \in Edits :
       \/ /\ src' = [src EXCEPT ![e.table] = e.schema] /\ UNCHANGED dst
       \/ /\ dst' = [dst EXCEPT ![e.table] = e.schema] /\ ValidDatabase(dst') /\ UNCHANGED src
    BY <1>1 DEF OutsideChange
  <2>2. e.table \in Tables /\ IsSchema(e.schema)
    BY ConstantsAssumption DEF ConstantsAssumption
  <2>3. DOMAIN src = Tables /\ DOMAIN dst = Tables
    BY DEF TypeOK
  <2>4. \A t \in Tables : IsSchema(src'[t]) /\ IsSchema(dst'[t])
    BY <2>1, <2>2, <2>3 DEF Databases
  <2>5. ValidDatabase(dst')
    BY <2>1 DEF Databases
  <2> QED BY <2>4, <2>5 DEF Databases
<1>2. CASE ~OutsideChange
  <2>1. src' = src
    BY <1>2 DEF Next, ToolStep, Stopped, vars, databases, ListTables, ListFails, GiveUp, RefusePlan,
                VerifyFails, EndRecheck, QueryTable, QueryFails, EndExecution, Crash, RunAgain,
                MakePlan, VerifyTable, StartExecution, PreviewItem, SkipItem, ExecuteItem, StatementFails
  <2>2. CASE dst' = dst
    BY <2>1, <2>2 DEF Databases
  <2>3. CASE \E i \in todo : Executed(i)
    <3>1. PICK i \in todo : Executed(i)
      BY <2>3
    <3>2. i \in items
      BY DEF TypeOK
    <3>3. PICK t : LawfulItem(i, t)
      BY <3>2, ItemLawful
    <3>4. /\ \A u \in Tables \ {t} : dst'[u] = dst[u]
          /\ IsSchema(dst'[t]) /\ ValidDatabase(dst')
      BY <3>1, <3>3, ExecutedOutcome
    <3> QED BY <2>1, <3>4 DEF Databases
  <2> QED BY <1>2, <2>2, <2>3, DestStep
<1> QED BY <1>1, <1>2

LEMMA PlannedInductive ==
  TypeOK /\ Planned /\ [Next]_vars => Planned'
<1> SUFFICES ASSUME TypeOK, Planned, [Next]_vars PROVE Planned'
  OBVIOUS
<1> USE DEF databases, reading, plan, progress, world
<1>1. CASE MakePlan
  <2>1. /\ ~Plan(cfg, snap).refused /\ items' = Plan(cfg, snap).items
        /\ pc' \in {"verify", "execute"} /\ UNCHANGED <<cfg, snap>>
    BY <1>1 DEF MakePlan
  <2> QED BY <2>1 DEF Planned
<1>2. CASE QueryTable
  <2>1. UNCHANGED <<pc, items, cfg>> /\ (pc # "inspect" => UNCHANGED snap)
    BY <1>2 DEF QueryTable
  <2> QED BY <2>1 DEF Planned
<1>3. CASE Crash \/ RunAgain
  <2>1. items' = {}
    BY <1>3 DEF Crash, RunAgain, Forget
  <2> QED BY <2>1 DEF Planned
<1>4. CASE UNCHANGED <<cfg, snap, items>> /\ (pc' = pc \/ pc' \notin {"list", "inspect", "crashed"} \/ pc = "list")
  <2>1. Plan(cfg, snap)' = Plan(cfg, snap)
    BY <1>4
  <2> QED BY <1>4, <2>1 DEF Planned
<1>5. CASE ListTables \/ ListFails \/ GiveUp \/ RefusePlan \/ VerifyFails \/ EndRecheck
           \/ QueryFails \/ EndExecution \/ VerifyTable \/ StartExecution \/ OutsideChange \/ UNCHANGED vars
  BY <1>4, <1>5 DEF ListTables, ListFails, GiveUp, RefusePlan, VerifyFails, EndRecheck,
              QueryFails, EndExecution, VerifyTable, StartExecution, OutsideChange, vars
<1>6. ASSUME NEW i \in todo, PreviewItem(i) \/ SkipItem(i) \/ ExecuteItem(i) \/ StatementFails(i)
      PROVE  Planned'
  BY <1>4, <1>6 DEF PreviewItem, SkipItem, ExecuteItem, StatementFails
<1> QED BY <1>1, <1>2, <1>3, <1>5, <1>6 DEF Next, ToolStep, Stopped

LEMMA ReadingInductive ==
  Shapes /\ Databases /\ Reading /\ [Next]_vars => Reading'
<1> SUFFICES ASSUME Shapes, Databases, Reading, [Next]_vars PROVE Reading'
  OBVIOUS
<1> USE DEF databases, reading, plan, progress, world
<1>1. CASE ListTables \/ QueryFails \/ EndExecution
  <2>1. UNCHANGED cfg /\ \E q : StartQueue(q)
    BY <1>1 DEF ListTables, QueryFails, EndExecution
  <2> QED BY <2>1, QueueStarted
<1>2. CASE QueryTable
  <2> DEFINE t == Head(queue)
             r == Answer(t, rd, call)
             next == NextCall(t, r, call)
  <2>1. /\ pc \in {"inspect", "recheck"} /\ queue # <<>>
        /\ UNCHANGED <<dst, cfg, drift>>
        /\ \/ call' = next /\ rd' = r /\ UNCHANGED queue
           \/ StartQueue(Tail(queue))
    BY <1>2 DEF QueryTable
  <2>2. t \in Tables
    BY <2>1 DEF Shapes
  <2>3. CASE StartQueue(Tail(queue))
    BY <2>1, <2>3, QueueStarted
  <2>4. CASE call' = next /\ rd' = r /\ UNCHANGED queue
    <3>1. /\ GoodReading(cfg, t, rd) /\ call \in Nat
          /\ call = 1 => InScope(cfg, t)
          /\ call = 3 => rd.hasS
          /\ drift = "none" => rd.dst \in {NoSchema, dst[t]}
      BY <2>1 DEF Reading
    <3>2. /\ GoodReading(cfg, t, r)
          /\ rd.dst \in {NoSchema, dst[t]} => r.dst \in {NoSchema, dst[t]}
      BY <2>2, <3>1, AnswerGood
    <3>3. /\ next \in Nat
          /\ next = 1 => InScope(cfg, t)
          /\ next = 3 => r.hasS
      BY <3>1, NextCallNeeded
    <3> HIDE DEF r, next
    <3>4. /\ Head(queue') = t
          /\ GoodReading(cfg', t, rd') /\ call' \in Nat
          /\ call' = 1 => InScope(cfg', t)
          /\ call' = 3 => rd'.hasS
          /\ drift' = "none" => rd'.dst \in {NoSchema, dst'[t]}
      BY <2>1, <2>4, <3>1, <3>2, <3>3
    <3> HIDE DEF t
    <3> QED BY <3>4 DEF Reading
  <2> QED BY <2>1, <2>3, <2>4
<1>3. CASE pc' \notin {"inspect", "recheck"}
  BY <1>3 DEF Reading
<1>4. CASE ListFails \/ GiveUp \/ RefusePlan \/ MakePlan \/ VerifyTable \/ VerifyFails
           \/ StartExecution \/ EndRecheck \/ Crash \/ RunAgain
  BY <1>3, <1>4 DEF ListFails, GiveUp, RefusePlan, MakePlan, VerifyTable, VerifyFails,
              StartExecution, EndRecheck, Crash, RunAgain
<1>5. ASSUME NEW i \in todo, PreviewItem(i) \/ SkipItem(i) \/ ExecuteItem(i) \/ StatementFails(i)
      PROVE  Reading'
  BY <1>3, <1>5 DEF PreviewItem, SkipItem, ExecuteItem, StatementFails, Sends
<1>6. CASE OutsideChange
  <2>1. UNCHANGED <<cfg, pc, queue, call, rd>> /\ drift' = pc
    BY <1>6 DEF OutsideChange
  <2>2. CASE pc' \in {"inspect", "recheck"}
    <3>1. drift' # "none"
      BY <2>1, <2>2
    <3> QED BY <2>1, <3>1 DEF Reading
  <2> QED BY <1>3, <2>2
<1>7. CASE UNCHANGED vars
  BY <1>7 DEF vars, Reading
<1> QED BY <1>1, <1>2, <1>4, <1>5, <1>6, <1>7 DEF Next, ToolStep, Stopped

LEMMA SnapshotsInductive ==
  Shapes /\ Databases /\ Reading /\ Snapshots /\ [Next]_vars => Snapshots'
<1> SUFFICES ASSUME Shapes, Databases, Reading, Snapshots, [Next]_vars PROVE Snapshots'
  OBVIOUS
<1> USE DEF databases, reading, plan, progress, world
<1>1. CASE UNCHANGED <<cfg, snap>>
  BY <1>1 DEF Snapshots
<1>2. CASE QueryTable
  <2> DEFINE t == Head(queue)
             r == Answer(t, rd, call)
             data == AlterData(cfg, t, r)
  <2>1. /\ pc \in {"inspect", "recheck"} /\ queue # <<>> /\ UNCHANGED cfg
        /\ UNCHANGED snap \/ snap' = With(snap, t, data)
    BY <1>2 DEF QueryTable
  <2>2. CASE snap' = With(snap, t, data)
    <3>1. t \in Tables
      BY <2>1 DEF Shapes
    <3>2. /\ GoodReading(cfg, t, rd)
          /\ call = 1 => InScope(cfg, t)
          /\ call = 3 => rd.hasS
      BY <2>1 DEF Reading
    <3>3. GoodReading(cfg, t, r)
      BY <3>1, <3>2, AnswerGood
    <3>a. data = AlterData(cfg, t, r)
      OBVIOUS
    <3> HIDE DEF data, r, t
    <3>4. ASSUME NEW u \in DOMAIN snap'
          PROVE  \E x : GoodReading(cfg, u, x) /\ snap'[u] = AlterData(cfg, u, x)
      <4>1. CASE u = t
        <5>1. snap'[u] = data
          BY <2>2, <4>1 DEF With
        <5> QED BY <3>3, <3>a, <4>1, <5>1
      <4>2. CASE u # t
        <5>1. u \in DOMAIN snap /\ snap'[u] = snap[u]
          BY <2>2, <3>4, <4>2 DEF With
        <5> QED BY <5>1 DEF Snapshots
      <4> QED BY <4>1, <4>2
    <3>5. cfg' = cfg
      BY <2>1
    <3> QED BY <3>4, <3>5 DEF Snapshots
  <2> QED BY <1>1, <2>1, <2>2
<1>3. CASE Crash \/ RunAgain
  <2>1. snap' = <<>>
    BY <1>3 DEF Crash, RunAgain, Forget
  <2> QED BY <2>1 DEF Snapshots
<1>4. CASE ListTables \/ ListFails \/ GiveUp \/ RefusePlan \/ MakePlan \/ VerifyTable \/ VerifyFails
           \/ StartExecution \/ EndRecheck \/ QueryFails \/ EndExecution \/ OutsideChange \/ UNCHANGED vars
  BY <1>1, <1>4 DEF ListTables, ListFails, GiveUp, RefusePlan, MakePlan, VerifyTable, VerifyFails,
              StartExecution, EndRecheck, QueryFails, EndExecution, OutsideChange, vars
<1>5. ASSUME NEW i \in todo, PreviewItem(i) \/ SkipItem(i) \/ ExecuteItem(i) \/ StatementFails(i)
      PROVE  Snapshots'
  BY <1>1, <1>5 DEF PreviewItem, SkipItem, ExecuteItem, StatementFails
<1> QED BY <1>2, <1>3, <1>4, <1>5 DEF Next, ToolStep, Stopped

LEMMA InformedInit == Init => Informed
<1> SUFFICES ASSUME Init PROVE Informed
  OBVIOUS
<1>1. PICK s \in Starts : cfg = s.cfg /\ src = s.src /\ dst = s.dst
  BY DEF Init
<1>2. Databases
  BY <1>1, ConstantsAssumption DEF ConstantsAssumption, Databases
<1>3. queue = <<>> /\ items = {} /\ snap = <<>>
  BY DEF Init
<1> QED BY <1>2, <1>3 DEF Informed, Reading, Snapshots, Planned

\* What every run keeps to, at every moment.
Orderly == TypeOK /\ Idle /\ Shapes /\ Informed

LEMMA OrderlyAlways == Spec => []Orderly
<1>1. Init => Orderly
  BY TypeInit, VerifiedInit, InformedInit DEF Orderly
<1>2. Orderly /\ [Next]_vars => Orderly'
  BY TypeInductive, ShapesInductive, DatabasesInductive, ReadingInductive, SnapshotsInductive,
     PlannedInductive DEF Orderly, Informed
<1> QED BY <1>1, <1>2, PTL DEF Spec

-----------------------------------------------------------------------------
(* What no step of the tool does to the destination.                       *)

\* A statement of the tool, seen from one table: either it is about another one,
\* or it is lawful there and leaves of the table what its clauses do not touch.
LEMMA ToolStatement ==
  ASSUME Orderly, [Next]_vars, ByTheTool, NEW t \in Tables
  PROVE  \/ dst'[t] = dst[t]
         \/ \E i \in todo :
              /\ Executed(i) /\ i \in items /\ LawfulItem(i, t) /\ IsSchema(dst'[t]) /\ ValidDatabase(dst')
              /\ \/ Exists(dst[t]) /\ Leaves(dst[t], dst'[t], ToSet(i.stmt.clauses))
                 \/ ~Exists(dst[t]) /\ i.stmt.clauses = <<>>
<1>1. ~OutsideChange
  BY DEF OutsideChange, ByTheTool, Orderly, TypeOK, Phases
<1>2. CASE dst' = dst
  BY <1>2
<1>3. CASE \E i \in todo : Executed(i)
  <2>1. PICK i \in todo : Executed(i)
    BY <1>3
  <2>2. i \in items
    BY DEF Orderly, TypeOK
  <2>3. PICK u : LawfulItem(i, u)
    BY <2>2, ItemLawful DEF Orderly, Informed
  <2>4. /\ \A x \in Tables \ {u} : dst'[x] = dst[x]
        /\ IsSchema(dst'[u]) /\ ValidDatabase(dst')
        /\ \/ Exists(dst[u]) /\ Leaves(dst[u], dst'[u], ToSet(i.stmt.clauses))
           \/ ~Exists(dst[u]) /\ i.stmt.clauses = <<>>
    BY <2>1, <2>3, ExecutedOutcome DEF Orderly, Informed
  <2> QED BY <2>1, <2>2, <2>3, <2>4
<1> QED BY <1>1, <1>2, <1>3, DestStep

\* The tables, columns and foreign keys the configuration excludes stay as they are,
\* in every table that was not created by the run.
THEOREM ScopeKept == Spec => ScopeRespected
<1> DEFINE Unharmed(t) ==
      /\ ~InScope(cfg, t) => dst'[t] = dst[t]
      /\ \A n \in ColNames(dst[t]) :
           <<t, n>> \in cfg.ignoreCols =>
             n \in ColNames(dst'[t]) /\ Column(dst'[t], n) = Column(dst[t], n)
      /\ \A k \in DOMAIN dst[t].fks \cup DOMAIN dst'[t].fks :
           <<t, k>> \in cfg.ignoreFks /\ dst'[t] # dst[t] /\ snap[t].type # "create" =>
             /\ k \in DOMAIN dst[t].fks /\ k \in DOMAIN dst'[t].fks
             /\ dst'[t].fks[k] = dst[t].fks[k]
<1>1. ASSUME Orderly, [Next]_vars, ByTheTool, NEW t \in Tables, Exists(dst[t])
      PROVE  Unharmed(t)
  <2>1. CASE dst'[t] = dst[t]
    BY <2>1
  <2>2. CASE dst'[t] # dst[t]
    <3>1. PICK i \in todo :
              /\ LawfulItem(i, t) /\ IsSchema(dst'[t]) /\ ValidDatabase(dst')
              /\ Leaves(dst[t], dst'[t], ToSet(i.stmt.clauses))
      BY <1>1, <2>2, ToolStatement
    <3> DEFINE C == ToSet(i.stmt.clauses)
               s == dst[t]
               u == dst'[t]
    <3>2. Leaves(s, u, C)
      BY <3>1
    <3>3. \A c \in C : Obedient(t, c)
      BY <3>1 DEF LawfulItem
    <3>4. InScope(cfg, t)
      BY <3>1 DEF LawfulItem
    <3>5. /\ WellFormed(s) /\ WellFormed(u)
          /\ ValidTable(s) /\ ValidTable(u)
      <4>1. t \in DOMAIN dst
        BY <1>1 DEF Orderly, TypeOK
      <4>2. t \in DOMAIN dst'
        <5>1. DOMAIN dst' = DOMAIN dst
          BY <1>1, TypeInductive DEF Orderly, TypeOK
        <5> QED BY <4>1, <5>1
      <4>3. IsSchema(s) /\ ValidDatabase(dst)
        BY <1>1 DEF Orderly, Informed, Databases
      <4>4. ValidTable(s) /\ ValidTable(u)
        BY <3>1, <4>1, <4>2, <4>3 DEF ValidDatabase
      <4> QED BY <3>1, <4>3, <4>4 DEF IsSchema
    <3> HIDE DEF C, s, u
    <3>6. ASSUME NEW n \in ColNames(s), <<t, n>> \in cfg.ignoreCols
          PROVE  n \in ColNames(u) /\ Column(u, n) = Column(s, n)
      <4>1. \A c \in C : n \notin TouchedColumns(c)
        BY <3>3, <3>6 DEF Obedient
      <4>2. Called(u, n) = Called(s, n)
        BY <3>2, <4>1 DEF Leaves
      <4> QED BY <3>5, <4>2, SameColumn
    <3>7. ASSUME NEW k \in DOMAIN s.fks \cup DOMAIN u.fks, <<t, k>> \in cfg.ignoreFks,
                 snap[t].type # "create"
          PROVE  k \in DOMAIN s.fks /\ k \in DOMAIN u.fks /\ u.fks[k] = s.fks[k]
      <4>1. \A c \in C : k \notin TouchedForeign(c)
        BY <3>3, <3>7 DEF Obedient
      <4> QED BY <3>2, <4>1 DEF Leaves
    <3> QED BY <3>4, <3>6, <3>7 DEF s, u
  <2> QED BY <2>1, <2>2
<1>2. Orderly /\ [Next]_vars =>
        (ByTheTool => \A t \in {x \in Tables : Exists(dst[x])} : Unharmed(t))
  BY <1>1
<1>3. Orderly /\ [Next]_vars =>
        [ByTheTool => \A t \in {x \in Tables : Exists(dst[x])} : Unharmed(t)]_vars
  BY <1>2
<1> HIDE DEF Unharmed
<1>4. Spec => [][ByTheTool => \A t \in {x \in Tables : Exists(dst[x])} : Unharmed(t)]_vars
  BY <1>3, OrderlyAlways, PTL DEF Spec
<1> QED BY <1>4, PTL DEF ScopeRespected, Unharmed

\* Without -drop every statement keeps the columns and the indexes there are.
THEOREM NothingIsDroppedUnasked == Spec => NothingDroppedUnasked
<1> DEFINE Unharmed(t) ==
      /\ ColNames(dst[t]) \subseteq ColNames(dst'[t])
      /\ IndexNames(dst[t]) \subseteq IndexNames(dst'[t])
<1>1. ASSUME Orderly, [Next]_vars, ByTheTool, ~cfg.drop, NEW t \in Tables
      PROVE  Unharmed(t)
  <2>1. CASE dst'[t] = dst[t]
    BY <2>1
  <2>2. CASE dst'[t] # dst[t]
    <3>1. PICK i \in todo :
              /\ LawfulItem(i, t)
              /\ \/ Exists(dst[t]) /\ Leaves(dst[t], dst'[t], ToSet(i.stmt.clauses))
                 \/ ~Exists(dst[t])
      BY <1>1, <2>2, ToolStatement
    <3>2. CASE ~Exists(dst[t])
      <4>1. dst[t] = NoSchema
        BY <1>1, <3>2 DEF Orderly, Informed, Databases, IsSchema
      <4>2. ColNames(NoSchema) = {} /\ IndexNames(NoSchema) = {}
        BY NoSchemaWellFormed DEF NoSchema, IndexNames
      <4> QED BY <4>1, <4>2
    <3>3. CASE Leaves(dst[t], dst'[t], ToSet(i.stmt.clauses))
      <4>1. \A c \in ToSet(i.stmt.clauses) : c.op \notin {"DROP COLUMN", "DROP INDEX"}
        BY <1>1, <3>1 DEF LawfulItem, Obedient
      <4> QED BY <3>3, <4>1 DEF Leaves
    <3> QED BY <3>1, <3>2, <3>3
  <2> QED BY <2>1, <2>2
<1>2. Orderly /\ [Next]_vars => [ByTheTool /\ ~cfg.drop => \A t \in Tables : Unharmed(t)]_vars
  BY <1>1
<1> HIDE DEF Unharmed
<1>3. Spec => [][ByTheTool /\ ~cfg.drop => \A t \in Tables : Unharmed(t)]_vars
  BY <1>2, OrderlyAlways, PTL DEF Spec
<1> QED BY <1>3 DEF NothingDroppedUnasked, Unharmed

\* A statement that puts the constraint k of t back.
LEMMA RestoreOutcome ==
  ASSUME Orderly, NEW i, NEW t, i.restore, LawfulItem(i, t), Executed(i)
  PROVE  \E k \in DOMAIN snap[t].dst.fks \cap DOMAIN snap[t].src.fks :
           /\ i.key = <<t, k>> /\ <<t, k>> \notin PlannedKeys(OwnItems(items))
           /\ <<t, k>> \notin cfg.ignoreFks
           /\ Reinstalled(dst[t], dst'[t], k, snap[t].src.fks[k])
<1>1. TemporaryItem(i, t)
  BY DEF LawfulItem, OwnItem
<1>2. PICK k \in DOMAIN snap[t].dst.fks \cap DOMAIN snap[t].src.fks :
        /\ Temporary(snap, i, t, k) /\ <<t, k>> \notin PlannedKeys(OwnItems(items))
        /\ <<t, k>> \notin cfg.ignoreFks
  BY <1>1 DEF TemporaryItem
<1> DEFINE fk == snap[t].src.fks[k]
           st == Alter(t, <<AddForeign(k, fk)>>)
<1>3. i.key = <<t, k>> /\ i.stmt = st
  BY <1>2 DEF Temporary
<1>4. Accepts(dst, st) /\ dst' = After(dst, st)
  BY <1>3 DEF Executed
<1>5. t \in DOMAIN dst /\ WellFormed(dst[t])
  BY DEF LawfulItem, Orderly, TypeOK, Informed, Databases, IsSchema
<1> HIDE DEF fk
<1>6. Reinstalled(dst[t], After(dst, st)[t], k, fk)
  BY <1>4, <1>5, ForeignInstalled
<1> HIDE DEF st
<1> QED BY <1>2, <1>3, <1>4, <1>6 DEF fk

-----------------------------------------------------------------------------
(* The constraints a plan has no business with survive its run, unless the *)
(* answer to their removal was lost and the server had done it.            *)

InPlace(t, k) == k \in DOMAIN dst[t].fks /\ dst[t].fks[k] = snap[t].dst.fks[k]

PlannedKey(t, k) == <<t, k>> \in PlannedKeys(OwnItems(items))

DetachFailed(t, k) == \E i \in failed : IsDetach(i) /\ i.key = <<t, k>>

Survives(t, k) ==
  \/ InPlace(t, k) \/ PlannedKey(t, k) \/ <<t, k>> \in detached
  \/ "applied" \in LostOutcomes /\ DetachFailed(t, k)

AllSurvive ==
  drift = "none" => \A t \in DOMAIN snap : \A k \in DOMAIN snap[t].dst.fks : Survives(t, k)

\* A statement of the plan itself touches only constraints the plan names.
LEMMA OwnItemKeys ==
  ASSUME NEW i \in items, ~i.temporary, NEW c \in ToSet(i.stmt.clauses), NEW k \in TouchedForeign(c)
  PROVE  <<i.stmt.table, k>> \in PlannedKeys(OwnItems(items))
<1>1. i \in OwnItems(items)
  BY DEF OwnItems
<1>2. c.op \in {"DROP FOREIGN KEY", "ADD CONSTRAINT"} /\ k = c.constraint
  BY DEF TouchedForeign
<1> DEFINE keys(x) == {<<x.stmt.table, d.constraint>> :
                        d \in {y \in ToSet(x.stmt.clauses) : y.op \in {"DROP FOREIGN KEY", "ADD CONSTRAINT"}}}
<1>3. <<i.stmt.table, k>> \in keys(i)
  BY <1>2
<1>4. PlannedKeys(OwnItems(items)) = UNION {keys(x) : x \in OwnItems(items)}
  BY DEF PlannedKeys
<1> HIDE DEF keys
<1> QED BY <1>1, <1>3, <1>4

\* What an unplanned constraint is in the source it is in the destination.
LEMMA RestoreSame ==
  ASSUME Orderly, items # {}, NEW t \in DOMAIN snap,
         NEW k \in DOMAIN snap[t].dst.fks \cap DOMAIN snap[t].src.fks,
         <<t, k>> \notin cfg.ignoreFks, ~PlannedKey(t, k)
  PROVE  snap[t].src.fks[k] = snap[t].dst.fks[k]
<1> SUFFICES ASSUME snap[t].src.fks[k] # snap[t].dst.fks[k] PROVE FALSE
  OBVIOUS
<1> DEFINE c == AddForeign(k, snap[t].src.fks[k])
<1>1. /\ snap[t].type = "alter"
      /\ \E j \in DOMAIN snap[t].sql : c \in ToSet(snap[t].sql[j].clauses)
      /\ \A j \in DOMAIN snap[t].sql : AltersOf(cfg, t, snap[t].sql[j])
  BY SnapshotSays DEF Orderly, Informed
<1>2. k \in TouchedForeign(c)
  BY DEF TouchedForeign, AddForeign
<1> HIDE DEF c
<1>3. PICK j \in DOMAIN snap[t].sql : c \in ToSet(snap[t].sql[j].clauses)
  BY <1>1
<1>4. snap[t].sql[j].table = t
  BY <1>1 DEF AltersOf
<1>5. t \in ToSet(OrderTableAlters(snap))
  <2>1. t \in Changes(snap)
    BY <1>1 DEF Changes
  <2> QED BY <2>1, ChangesTables DEF Orderly, Shapes
<1>6. ~Plan(cfg, snap).refused /\ items = Plan(cfg, snap).items
  BY DEF Orderly, Informed, Planned
<1>7. PICK i \in items : ~i.temporary /\ i.stmt = snap[t].sql[j]
  BY <1>5, <1>6, PlanSays
<1>8. PlannedKey(t, k)
  BY <1>2, <1>3, <1>4, <1>7, OwnItemKeys DEF PlannedKey
<1> QED BY <1>8

\* What a restored constraint brings along: at most an index on its own columns.
LEMMA IndexesKept ==
  ASSUME NEW s, NEW u, NEW k, NEW fk, Reinstalled(s, u, k, fk)
  PROVE  /\ \A n \in DOMAIN s.idx : n \in DOMAIN u.idx /\ u.idx[n] = s.idx[n]
         /\ \A n \in DOMAIN u.idx \ DOMAIN s.idx : u.idx[n].cols = fk.cols
<1>1. u.idx = ForeignIndexed(s, k, fk)
  BY DEF Reinstalled
<1>2. CASE Serves(s, fk.cols)
  BY <1>1, <1>2 DEF ForeignIndexed
<1>3. CASE ~Serves(s, fk.cols)
  <2> DEFINE x == ToString(k)
             index == [kind |-> "INDEX", cols |-> fk.cols]
  <2>1. u.idx = With(s.idx, x, index) /\ x \notin DOMAIN s.idx
    BY <1>1, <1>3 DEF ForeignIndexed, Reinstalled
  <2>2. index.cols = fk.cols
    OBVIOUS
  <2> HIDE DEF x, index
  <2> QED BY <2>1, <2>2 DEF With
<1> QED BY <1>2, <1>3

\* After a failure the destination only gets back constraints this run took away, as
\* they were read, and the indexes the server makes for them.
THEOREM FailsFast == Spec => FailFast
<1> DEFINE gained(t) == DOMAIN dst'[t].fks \ DOMAIN dst[t].fks
           made(t) == DOMAIN dst'[t].idx \ DOMAIN dst[t].idx
           Unharmed(t) ==
             /\ \A f \in {"cols", "charset", "checks"} : dst'[t][f] = dst[t][f]
             /\ \A n \in DOMAIN dst[t].idx :
                  n \in DOMAIN dst'[t].idx /\ dst'[t].idx[n] = dst[t].idx[n]
             /\ \A k \in DOMAIN dst[t].fks :
                  k \in DOMAIN dst'[t].fks /\ dst'[t].fks[k] = dst[t].fks[k]
             /\ \A k \in gained(t) :
                  <<t, k>> \in detached /\ dst'[t].fks[k] = snap[t].dst.fks[k]
             /\ \A n \in made(t) : \E k \in gained(t) : dst'[t].idx[n].cols = dst'[t].fks[k].cols
<1>1. ASSUME Orderly, [Next]_vars, ByTheTool, failed # {}, NEW t \in Tables
      PROVE  Unharmed(t)
  <2>1. CASE dst'[t] = dst[t]
    BY <2>1
  <2>2. CASE dst'[t] # dst[t]
    <3>1. PICK i \in todo : Executed(i) /\ i \in items /\ LawfulItem(i, t)
      BY <1>1, <2>2, ToolStatement
    <3>2. i.restore /\ i.key \in detached
      BY <1>1, <3>1 DEF Executed, Sends, Compensates
    <3>3. PICK k \in DOMAIN snap[t].dst.fks \cap DOMAIN snap[t].src.fks :
            /\ i.key = <<t, k>> /\ <<t, k>> \notin PlannedKeys(OwnItems(items))
            /\ <<t, k>> \notin cfg.ignoreFks
            /\ Reinstalled(dst[t], dst'[t], k, snap[t].src.fks[k])
      BY <1>1, <3>1, <3>2, RestoreOutcome
    <3>4. snap[t].src.fks[k] = snap[t].dst.fks[k]
      <4>1. t \in DOMAIN snap
        BY <3>1, <3>2 DEF LawfulItem, OwnItem, TemporaryItem
      <4> QED BY <1>1, <3>1, <3>3, <4>1, RestoreSame DEF PlannedKey
    <3> DEFINE s == dst[t]
               u == dst'[t]
               fk == snap[t].dst.fks[k]
    <3>5. Reinstalled(s, u, k, fk)
      BY <3>3, <3>4
    <3> HIDE DEF s, u, fk
    <3>6. /\ u.cols = s.cols /\ u.charset = s.charset /\ u.checks = s.checks
          /\ k \notin DOMAIN s.fks /\ u.fks = With(s.fks, k, fk)
      BY <3>5 DEF Reinstalled
    <3>7. /\ \A n \in DOMAIN s.fks : n \in DOMAIN u.fks /\ u.fks[n] = s.fks[n]
          /\ DOMAIN u.fks \ DOMAIN s.fks = {k} /\ u.fks[k] = fk
      BY <3>6 DEF With
    <3>8. /\ \A n \in DOMAIN s.idx : n \in DOMAIN u.idx /\ u.idx[n] = s.idx[n]
          /\ \A n \in DOMAIN u.idx \ DOMAIN s.idx : u.idx[n].cols = fk.cols
      BY <3>5, IndexesKept
    <3>9. /\ \A f \in {"cols", "charset", "checks"} : u[f] = s[f]
          /\ \A n \in DOMAIN u.fks \ DOMAIN s.fks :
               <<t, n>> \in detached /\ u.fks[n] = snap[t].dst.fks[n]
          /\ \A n \in DOMAIN u.idx \ DOMAIN s.idx :
               \E x \in DOMAIN u.fks \ DOMAIN s.fks : u.idx[n].cols = u.fks[x].cols
      <4>1. \A f \in {"cols", "charset", "checks"} : u[f] = s[f]
        BY <3>6
      <4>2. <<t, k>> \in detached
        BY <3>2, <3>3
      <4>3. \A n \in DOMAIN u.fks \ DOMAIN s.fks :
               <<t, n>> \in detached /\ u.fks[n] = snap[t].dst.fks[n]
        BY <3>7, <4>2 DEF fk
      <4> QED BY <3>7, <3>8, <4>1, <4>3
    <3> QED BY <3>7, <3>8, <3>9 DEF s, u
  <2> QED BY <2>1, <2>2
<1>2. Orderly /\ [Next]_vars =>
        [ByTheTool /\ failed # {} => \A t \in Tables : Unharmed(t)]_vars
  BY <1>1
<1> HIDE DEF Unharmed
<1>3. Spec => [][ByTheTool /\ failed # {} => \A t \in Tables : Unharmed(t)]_vars
  BY <1>2, OrderlyAlways, PTL DEF Spec
<1> QED BY <1>3, PTL DEF FailFast, Unharmed

\* A reading of the destination nobody has changed.
LEMMA ReadInPlace ==
  ASSUME NEW t \in Tables, Databases, NEW r, r.dst \in {NoSchema, dst[t]},
         NEW k \in DOMAIN Parse(r.dst).fks
  PROVE  k \in DOMAIN dst[t].fks /\ dst[t].fks[k] = Parse(r.dst).fks[k]
<1>1. WellFormed(NoSchema) /\ DOMAIN NoSchema.fks = {}
  BY NoSchemaWellFormed
<1>2. WellFormed(r.dst)
  BY <1>1 DEF Databases, IsSchema
<1>3. k \in DOMAIN r.dst.fks /\ Parse(r.dst).fks[k] = r.dst.fks[k]
  BY <1>2, ParseProper
<1>4. r.dst = dst[t]
  BY <1>1, <1>3
<1> QED BY <1>3, <1>4

LEMMA StatementSurvives ==
  ASSUME Orderly, NEW t \in DOMAIN snap, NEW k \in DOMAIN snap[t].dst.fks, Survives(t, k),
         NEW i \in todo, ExecuteItem(i) \/ StatementFails(i)
  PROVE  Survives(t, k)'
<1> USE DEF databases, reading, plan, progress, world
<1>1. /\ i \in items /\ UNCHANGED <<snap, items, cfg>>
      /\ failed \subseteq failed'
      /\ StatementFails(i) => detached' = detached /\ i \in failed'
      /\ ExecuteItem(i) => detached' = IF ~i.temporary THEN detached
                             ELSE IF i.restore THEN detached \ {i.key} ELSE detached \cup {i.key}
  BY DEF ExecuteItem, StatementFails, Orderly, TypeOK
<1>2. \/ dst' = dst /\ detached' = detached
      \/ Executed(i) /\ (ExecuteItem(i) \/ "applied" \in LostOutcomes)
  BY DEF ExecuteItem, StatementFails, Executed
<1>3. PlannedKey(t, k)' = PlannedKey(t, k) /\ (DetachFailed(t, k) => DetachFailed(t, k)')
  BY <1>1 DEF PlannedKey, DetachFailed
<1>4. CASE dst' = dst /\ detached' = detached
  BY <1>1, <1>3, <1>4 DEF Survives, InPlace
<1>5. CASE Executed(i) /\ (ExecuteItem(i) \/ "applied" \in LostOutcomes)
  <2> SUFFICES ASSUME ~PlannedKey(t, k),
                      "applied" \notin LostOutcomes \/ ~DetachFailed(t, k)
               PROVE  \/ InPlace(t, k)' \/ <<t, k>> \in detached'
                      \/ "applied" \in LostOutcomes /\ DetachFailed(t, k)'
    BY <1>3 DEF Survives
  <2>1. InPlace(t, k) \/ <<t, k>> \in detached
    BY DEF Survives
  <2>2. PICK u : LawfulItem(i, u)
    BY <1>1, ItemLawful DEF Orderly, Informed
  <2>3. /\ \A x \in Tables \ {u} : dst'[x] = dst[x]
        /\ \/ Exists(dst[u]) /\ Leaves(dst[u], dst'[u], ToSet(i.stmt.clauses))
           \/ ~Exists(dst[u])
    BY <1>5, <2>2, ExecutedOutcome DEF Orderly, Informed
  <2>4. t \in Tables
    BY DEF Orderly, Shapes
  <2>5. i.temporary => i.key \in {<<u, n>> : n \in DOMAIN snap[u].dst.fks}
    BY <2>2 DEF LawfulItem, OwnItem, TemporaryItem, Temporary
  <2>6. CASE t # u
    <3>1. i.temporary => i.key # <<t, k>>
      BY <2>5, <2>6
    <3>2. <<t, k>> \in detached' <=> <<t, k>> \in detached
      BY <1>1, <3>1
    <3>3. InPlace(t, k)' = InPlace(t, k)
      BY <1>1, <2>3, <2>4, <2>6 DEF InPlace
    <3> QED BY <2>1, <3>2, <3>3
  <2>7. CASE t = u /\ OwnItem(i, t)
    <3>1. detached' = detached /\ ~i.temporary
      BY <1>1, <2>7 DEF OwnItem
    <3>2. ASSUME InPlace(t, k) PROVE InPlace(t, k)'
      <4>1. i.stmt.table = t
        BY <2>2, <2>7 DEF LawfulItem
      <4>2. \A c \in ToSet(i.stmt.clauses) : k \notin TouchedForeign(c)
        BY <1>1, <3>1, <4>1, OwnItemKeys DEF PlannedKey
      <4>3. Exists(dst[t])
        <5> SUFFICES ASSUME ~Exists(dst[t]) PROVE FALSE
          OBVIOUS
        <5>1. dst[t] = NoSchema
          BY <2>4 DEF Orderly, Informed, Databases, IsSchema
        <5> QED BY <3>2, <5>1, NoSchemaWellFormed DEF InPlace
      <4>4. Leaves(dst[t], dst'[t], ToSet(i.stmt.clauses))
        BY <2>3, <2>7, <4>3
      <4>5. k \in DOMAIN dst'[t].fks /\ dst'[t].fks[k] = dst[t].fks[k]
        BY <3>2, <4>2, <4>4 DEF Leaves, InPlace
      <4> QED BY <1>1, <3>2, <4>5 DEF InPlace
    <3> QED BY <2>1, <3>1, <3>2
  <2>8. CASE t = u /\ TemporaryItem(i, t) /\ i.restore
    <3>0. PICK n \in DOMAIN snap[t].dst.fks \cap DOMAIN snap[t].src.fks :
           /\ i.key = <<t, n>> /\ <<t, n>> \notin PlannedKeys(OwnItems(items))
           /\ <<t, n>> \notin cfg.ignoreFks
           /\ Reinstalled(dst[t], dst'[t], n, snap[t].src.fks[n])
      BY <1>5, <2>2, <2>8, RestoreOutcome
    <3>1. /\ i.key = <<t, n>> /\ ~PlannedKey(t, n) /\ <<t, n>> \notin cfg.ignoreFks
          /\ n \notin DOMAIN dst[t].fks /\ dst'[t].fks = With(dst[t].fks, n, snap[t].src.fks[n])
      BY <3>0 DEF PlannedKey, Reinstalled
    <3>2. snap[t].src.fks[n] = snap[t].dst.fks[n]
      BY <1>1, <3>1, RestoreSame
    <3>3. CASE n = k
      <4>1. k \in DOMAIN dst'[t].fks /\ dst'[t].fks[k] = snap[t].dst.fks[k]
        BY <3>1, <3>2, <3>3 DEF With
      <4> QED BY <1>1, <4>1 DEF InPlace
    <3>4. CASE n # k
      <4>1. i.key # <<t, k>>
        BY <3>1, <3>4
      <4>2. <<t, k>> \in detached' <=> <<t, k>> \in detached
        BY <1>1, <4>1
      <4>3. ASSUME InPlace(t, k) PROVE InPlace(t, k)'
        BY <1>1, <3>1, <3>4, <4>3 DEF InPlace, With
      <4> QED BY <2>1, <4>2, <4>3
    <3> QED BY <3>3, <3>4
  <2>9. CASE t = u /\ TemporaryItem(i, t) /\ ~i.restore
    <3>1. PICK n \in DOMAIN snap[t].dst.fks : Temporary(snap, i, t, n)
      BY <2>9 DEF TemporaryItem
    <3>2. i.temporary /\ i.key = <<t, n>> /\ i.stmt = Alter(t, <<DropForeign(n)>>)
      BY <2>9, <3>1 DEF Temporary, TemporaryItem
    <3>3. CASE n = k
      <4>1. ExecuteItem(i) => <<t, k>> \in detached'
        BY <1>1, <2>9, <3>2, <3>3
      <4>2. StatementFails(i) => DetachFailed(t, k)'
        BY <1>1, <2>9, <3>2, <3>3 DEF DetachFailed, IsDetach
      <4> QED BY <1>5, <4>1, <4>2
    <3>4. CASE n # k
      <4>1. i.key # <<t, k>>
        BY <3>2, <3>4
      <4>2. <<t, k>> \in detached => <<t, k>> \in detached'
        BY <1>1, <4>1
      <4>3. ASSUME InPlace(t, k) PROVE InPlace(t, k)'
        <5> DEFINE c == DropForeign(n)
                   cs == <<c>>
        <5>1. i.stmt.clauses = cs
          BY <3>2 DEF Alter
        <5>2. ToSet(cs) = {c}
          BY ToSetSingle
        <5>3. k \notin TouchedForeign(c)
          BY <3>4 DEF DropForeign, TouchedForeign
        <5>4. k \in DOMAIN dst[t].fks /\ dst[t].fks[k] = snap[t].dst.fks[k]
          BY <4>3 DEF InPlace
        <5>5. Exists(dst[t])
          <6> SUFFICES ASSUME ~Exists(dst[t]) PROVE FALSE
            OBVIOUS
          <6>1. dst[t] = NoSchema
            BY <2>4 DEF Orderly, Informed, Databases, IsSchema
          <6> QED BY <5>4, <6>1, NoSchemaWellFormed
        <5> HIDE DEF c, cs
        <5>6. Leaves(dst[t], dst'[t], {c})
          BY <2>3, <2>9, <5>1, <5>2, <5>5
        <5>7. k \in DOMAIN dst'[t].fks /\ dst'[t].fks[k] = dst[t].fks[k]
          BY <5>3, <5>4, <5>6 DEF Leaves
        <5> QED BY <1>1, <5>4, <5>7 DEF InPlace
      <4> QED BY <2>1, <4>2, <4>3
    <3> QED BY <3>3, <3>4
  <2>10. OwnItem(i, u) \/ TemporaryItem(i, u)
    BY <2>2 DEF LawfulItem
  <2> QED BY <2>6, <2>7, <2>8, <2>9, <2>10
<1> QED BY <1>2, <1>4, <1>5

LEMMA AllSurviveInductive ==
  Orderly /\ AllSurvive /\ [Next]_vars => AllSurvive'
<1> SUFFICES ASSUME Orderly, AllSurvive, [Next]_vars, drift' = "none",
                    NEW t \in DOMAIN snap', NEW k \in DOMAIN snap'[t].dst.fks
             PROVE  Survives(t, k)'
  BY DEF AllSurvive
<1> USE DEF databases, reading, plan, progress, world
<1>1. CASE OutsideChange
  <2>1. drift' = pc
    BY <1>1 DEF OutsideChange
  <2> QED BY <2>1 DEF Orderly, TypeOK, Phases
<1>2. CASE drift = "none" /\ UNCHANGED <<snap, items, dst, detached, failed>>
  <2>1. Survives(t, k)
    BY <1>2 DEF AllSurvive
  <2> QED BY <1>2, <2>1 DEF Survives, InPlace, PlannedKey, DetachFailed
<1>3. CASE ListTables \/ ListFails \/ GiveUp \/ RefusePlan \/ VerifyTable \/ VerifyFails
           \/ StartExecution \/ EndRecheck \/ QueryFails \/ EndExecution \/ UNCHANGED vars
  <2>1. UNCHANGED <<snap, items, dst, detached, failed, drift>>
    BY <1>3 DEF ListTables, ListFails, GiveUp, RefusePlan, VerifyTable, VerifyFails,
              StartExecution, EndRecheck, QueryFails, EndExecution, vars
  <2> QED BY <1>2, <2>1
<1>4. CASE MakePlan
  <2>1. items = {}
    BY <1>4 DEF MakePlan, Orderly, Informed, Planned
  <2>2. drift = "none" /\ UNCHANGED <<snap, dst, detached, failed>>
    BY <1>4 DEF MakePlan
  <2>3. ~PlannedKey(t, k)
    BY <2>1 DEF PlannedKey, PlannedKeys, OwnItems
  <2>4. Survives(t, k)
    BY <2>2 DEF AllSurvive
  <2> QED BY <2>2, <2>3, <2>4 DEF Survives, InPlace, DetachFailed
<1>5. CASE Crash \/ RunAgain
  <2>1. snap' = <<>>
    BY <1>5 DEF Crash, RunAgain, Forget
  <2> QED BY <2>1
<1>6. ASSUME NEW i \in todo, PreviewItem(i) \/ SkipItem(i)
      PROVE  Survives(t, k)'
  BY <1>2, <1>6 DEF PreviewItem, SkipItem
<1>7. ASSUME NEW i \in todo, ExecuteItem(i) \/ StatementFails(i)
      PROVE  Survives(t, k)'
  <2>1. drift = "none" /\ UNCHANGED snap
    BY <1>7 DEF ExecuteItem, StatementFails
  <2>2. Survives(t, k)
    BY <2>1 DEF AllSurvive
  <2> QED BY <1>7, <2>1, <2>2, StatementSurvives
<1>8. CASE QueryTable
  <2> DEFINE u == Head(queue)
             r == Answer(u, rd, call)
             data == AlterData(cfg, u, r)
  <2>1. /\ pc \in {"inspect", "recheck"} /\ queue # <<>> /\ drift = "none"
        /\ UNCHANGED <<cfg, items, dst, detached, failed>>
        /\ UNCHANGED snap \/ snap' = With(snap, u, data)
    BY <1>8 DEF QueryTable
  <2>2. CASE UNCHANGED snap
    BY <1>2, <2>1, <2>2
  <2>3. CASE snap' = With(snap, u, data)
    <3>1. u \in Tables
      BY <2>1 DEF Orderly, Shapes
    <3>2. /\ GoodReading(cfg, u, rd)
          /\ call = 1 => InScope(cfg, u)
          /\ call = 3 => rd.hasS
          /\ rd.dst \in {NoSchema, dst[u]}
      BY <2>1 DEF Orderly, Informed, Reading
    <3>3. GoodReading(cfg, u, r) /\ r.dst \in {NoSchema, dst[u]}
      BY <3>1, <3>2, AnswerGood DEF Orderly, Informed
    <3>4. data.dst = Parse(r.dst)
      <4> HIDE DEF r
      <4>1. {"src", "dst"} \subseteq DOMAIN r /\ IsSchema(r.src) /\ IsSchema(r.dst)
        BY <3>3 DEF GoodReading
      <4> QED BY <4>1, AlterDataSays
    <3> HIDE DEF data, r, u
    <3>5. CASE t = u
      <4>1. snap'[t] = data
        BY <2>3, <3>5 DEF With
      <4>2. k \in DOMAIN Parse(r.dst).fks
        BY <3>4, <4>1
      <4>3. k \in DOMAIN dst[t].fks /\ dst[t].fks[k] = Parse(r.dst).fks[k]
        BY <3>1, <3>3, <3>5, <4>2, ReadInPlace DEF Orderly, Informed
      <4>4. InPlace(t, k)'
        BY <2>1, <3>4, <4>1, <4>3 DEF InPlace
      <4> QED BY <4>4 DEF Survives
    <3>6. CASE t # u
      <4>1. t \in DOMAIN snap /\ snap'[t] = snap[t]
        BY <2>3, <3>6 DEF With
      <4>2. Survives(t, k)
        BY <2>1, <4>1 DEF AllSurvive
      <4> QED BY <2>1, <4>1, <4>2 DEF Survives, InPlace, PlannedKey, DetachFailed
    <3> QED BY <3>5, <3>6
  <2> QED BY <2>1, <2>2, <2>3
<1> QED BY <1>1, <1>3, <1>4, <1>5, <1>6, <1>7, <1>8 DEF Next, ToolStep, Stopped

LEMMA AllSurviveAlways == Spec => []AllSurvive
<1>1. Init => AllSurvive
  <2> SUFFICES ASSUME Init PROVE AllSurvive
    OBVIOUS
  <2>1. snap = <<>>
    BY DEF Init
  <2> QED BY <2>1 DEF AllSurvive
<1> QED BY <1>1, AllSurviveInductive, OrderlyAlways, PTL DEF Spec

LEMMA SurvivesNotLost ==
  ASSUME NEW t, NEW k, Survives(t, k)
  PROVE  NotLost(t, k) \/ ("applied" \in LostOutcomes /\ DetachFailed(t, k))
<1>1. PlannedKey(t, k) => NotLost(t, k)
  BY Zenon DEF PlannedKey, OwnItems, NotLost
<1>2. InPlace(t, k) \/ <<t, k>> \in detached => NotLost(t, k)
  BY Zenon DEF InPlace, NotLost
<1> QED BY <1>1, <1>2 DEF Survives

\* If no statement is executed whose answer is lost, every constraint the plan has
\* no business with is in place when the run ends, or its loss is reported.
THEOREM UnplannedSurvive ==
  ASSUME "applied" \notin LostOutcomes PROVE Spec => []UnplannedConstraintsSurvive
<1>1. AllSurvive => UnplannedConstraintsSurvive
  BY SurvivesNotLost DEF AllSurvive, UnplannedConstraintsSurvive
<1> QED BY <1>1, AllSurviveAlways, PTL

\* Whatever answers are lost: a constraint that is missing and not reported is one
\* whose own removal was sent and came back with an error.
THEOREM OnlyUnansweredDetachesLose == Spec => []LossesUnanswered
<1>1. AllSurvive => LossesUnanswered
  BY SurvivesNotLost DEF AllSurvive, LossesUnanswered, DetachFailed
<1> QED BY <1>1, AllSurviveAlways, PTL

-----------------------------------------------------------------------------
(* A run that ends well has made the tables converge.  While nobody else   *)
(* changes a database, what is read of a table in scope is one moment's    *)
(* truth: the table of the source and a table of the destination of which  *)
(* every part a statement of the plan does not touch is still in place.    *)

Relevant(t) == InScope(cfg, t) /\ Exists(src[t])

\* What a reading says of tables s and d, s not missing, when query n comes next.
Told(s, d, n, r) ==
  /\ n > 1 => r.hasS
  /\ n > 2 => (r.hasD <=> Exists(d))
  /\ n > 3 => r.src = s
  /\ r.dst = IF n > 4 THEN d ELSE NoSchema
  /\ n \in 4..6 => Exists(d)
  /\ n \in 5..6 => s # d
  /\ n \in 6..7 /\ Exists(d) /\ s # d => r.sf = FieldInfos(s)
  /\ n = 7 /\ Exists(d) /\ s # d => r.df = FieldInfos(d)

ReadExactly ==
  pc \in {"inspect", "recheck"} /\ queue # <<>> /\ Relevant(Head(queue)) =>
    call \in 1..6 /\ Told(src[Head(queue)], dst[Head(queue)], call, rd)

\* The number of the next query.
LEMMA NextCallIs ==
  ASSUME NEW t, NEW r, NEW n \in 0..6, NEW m \in (n + 1)..7,
         m = 7 \/ Needed(t, r, m), \A x \in (n + 1)..(m - 1) : ~Needed(t, r, x)
  PROVE  NextCall(t, r, n) = m
<1> DEFINE S == {x \in (n + 1)..Len(Calls) : Needed(t, r, x)} \cup {Len(Calls) + 1}
<1>1. Len(Calls) = 6
  BY DEF Calls
<1>2. /\ S \in SUBSET Nat /\ m \in S
      /\ \A x \in S : x = 7 \/ (x \in (n + 1)..6 /\ Needed(t, r, x))
  BY <1>1
<1>3. NextCall(t, r, n) = Min(S)
  BY DEF NextCall
<1> HIDE DEF S
<1>4. Min(S) \in S /\ Min(S) <= m
  BY <1>2, LeastMember
<1>5. \A x \in S : x <= m => x = m
  <2> SUFFICES ASSUME NEW x \in S, x < m PROVE FALSE
    BY <1>2
  <2>1. x \in (n + 1)..6 /\ Needed(t, r, x)
    BY <1>2
  <2>2. x \in (n + 1)..(m - 1)
    BY <2>1
  <2> QED BY <2>1, <2>2
<1> QED BY <1>3, <1>4, <1>5

LEMMA NothingTold ==
  ASSUME NEW s, NEW d
  PROVE  Told(s, d, 1, NothingRead)
BY DEF Told, NothingRead

\* One more answer about a table nobody changes.
LEMMA ToldNext ==
  ASSUME NEW t, NEW r, NEW n \in 1..6, InScope(cfg, t), Exists(src[t]), IsSchema(dst[t]),
         DOMAIN r = {"hasS", "hasD", "src", "dst", "sf", "df"}, Told(src[t], dst[t], n, r)
  PROVE  /\ NextCall(t, Answer(t, r, n), n) \in 1..7
         /\ Told(src[t], dst[t], NextCall(t, Answer(t, r, n), n), Answer(t, r, n))
<1> DEFINE s == src[t]
           d == dst[t]
           u == Answer(t, r, n)
           there == Exists(d)
           next == NextCall(t, u, n)
           sf == FieldInfos(s)
           df == FieldInfos(d)
<1>0. ~there => d = NoSchema
  BY DEF IsSchema
<1>a. NoSchema = NoSchema /\ there \in BOOLEAN
  BY DEF Exists
<1>1. CASE n = 1
  <2>1. u = [r EXCEPT !.hasS = TRUE]
    BY <1>1 DEF Answer
  <2>2. Needed(t, u, 2)
    BY DEF Needed
  <2>3. next = 2
    BY <1>1, <2>2, NextCallIs
  <2>4. Told(s, d, 2, u)
    BY <1>1, <2>1 DEF Told
  <2> QED BY <2>3, <2>4
<1>2. CASE n = 2
  <2>1. u = [r EXCEPT !.hasD = there]
    BY <1>2 DEF Answer
  <2>2. Needed(t, u, 3)
    BY <1>2, <2>1 DEF Needed, Told
  <2>3. next = 3
    BY <1>2, <2>2, NextCallIs
  <2> HIDE DEF u, there
  <2>4. Told(s, d, 3, u)
    BY <1>2, <1>a, <2>1 DEF Told, there
  <2> QED BY <2>3, <2>4 DEF u
<1>3. CASE n = 3
  <2>1. u = [r EXCEPT !.src = s]
    BY <1>3 DEF Answer
  <2>2. u.hasS /\ (u.hasD <=> there) /\ u.src = s /\ u.dst = NoSchema
    BY <1>3, <2>1 DEF Told
  <2>3. CASE there
    <3>1. Needed(t, u, 4)
      BY <2>2, <2>3 DEF Needed
    <3>2. next = 4
      BY <1>3, <3>1, NextCallIs
    <3>3. Told(s, d, 4, u)
      BY <2>2, <2>3 DEF Told
    <3> QED BY <3>2, <3>3
  <2>4. CASE ~there
    <3>1. ~Needed(t, u, 4) /\ ~Needed(t, u, 5) /\ ~Needed(t, u, 6)
      BY <2>2, <2>4 DEF Needed
    <3>2. next = 7
      BY <1>3, <3>1, NextCallIs
    <3>3. Told(s, d, 7, u)
      BY <1>0, <2>2, <2>4 DEF Told
    <3> QED BY <3>2, <3>3
  <2> QED BY <2>3, <2>4
<1>4. CASE n = 4
  <2>1. u = [r EXCEPT !.dst = d]
    BY <1>4 DEF Answer
  <2>2. u.hasS /\ (u.hasD <=> there) /\ u.src = s /\ u.dst = d /\ there
    BY <1>4, <2>1 DEF Told
  <2>3. CASE s # d
    <3>1. Needed(t, u, 5)
      BY <2>2, <2>3 DEF Needed
    <3>2. next = 5
      BY <1>4, <3>1, NextCallIs
    <3>3. Told(s, d, 5, u)
      BY <2>2, <2>3 DEF Told
    <3> QED BY <3>2, <3>3
  <2>4. CASE s = d
    <3>1. ~Needed(t, u, 5) /\ ~Needed(t, u, 6)
      BY <2>2, <2>4 DEF Needed
    <3>2. next = 7
      BY <1>4, <3>1, NextCallIs
    <3>3. Told(s, d, 7, u)
      BY <2>2, <2>4 DEF Told
    <3> QED BY <3>2, <3>3
  <2> QED BY <2>3, <2>4
<1>5. CASE n = 5
  <2>1. u = [r EXCEPT !.sf = sf]
    BY <1>5 DEF Answer
  <2>2. u.hasS /\ (u.hasD <=> there) /\ u.src = s /\ u.dst = d /\ there /\ s # d /\ u.sf = sf
    BY <1>5, <2>1 DEF Told
  <2>3. Needed(t, u, 6)
    BY <2>2 DEF Needed
  <2>4. next = 6
    BY <1>5, <2>3, NextCallIs
  <2>5. Told(s, d, 6, u)
    BY <2>2 DEF Told
  <2> QED BY <2>4, <2>5
<1>6. CASE n = 6
  <2>1. u = [r EXCEPT !.df = df]
    BY <1>6 DEF Answer
  <2>2. /\ u.hasS /\ (u.hasD <=> there) /\ u.src = s /\ u.dst = d /\ there /\ s # d
        /\ u.sf = sf /\ u.df = df
    BY <1>6, <2>1 DEF Told
  <2>4. next = 7
    BY <1>6, NextCallIs
  <2>5. Told(s, d, 7, u)
    BY <2>2 DEF Told
  <2> QED BY <2>4, <2>5
<1> QED BY <1>1, <1>2, <1>3, <1>4, <1>5, <1>6

\* As long as nobody has changed a database, the source is as it was and the
\* destination changes only by statements of the tool.
LEMMA Undisturbed ==
  ASSUME TypeOK, [Next]_vars, drift' = "none"
  PROVE  /\ drift = "none" /\ UNCHANGED <<cfg, src>> /\ ~OutsideChange
         /\ UNCHANGED dst \/ \E i \in todo : Executed(i)
<1>1. ~OutsideChange
  BY DEF OutsideChange, TypeOK, Phases
<1>2. drift = "none" /\ UNCHANGED <<cfg, src>>
  BY <1>1 DEF Next, ToolStep, Stopped, vars, databases, world, ListTables, ListFails, GiveUp, RefusePlan,
              VerifyFails, EndRecheck, QueryTable, QueryFails, EndExecution, Crash, RunAgain,
              MakePlan, VerifyTable, StartExecution, PreviewItem, SkipItem, ExecuteItem, StatementFails
<1> QED BY <1>1, <1>2, DestStep

LEMMA QueueExact ==
  ASSUME NEW q, StartQueue(q), UNCHANGED cfg
  PROVE  ReadExactly'
<1> SUFFICES ASSUME queue' # <<>>, Relevant(Head(queue))'
             PROVE  call' \in 1..6 /\ Told(src[Head(queue)], dst[Head(queue)], call, rd)'
  BY DEF ReadExactly
<1> DEFINE t == Head(queue')
<1>1. queue' = q /\ rd' = NothingRead /\ call' = NextCall(t, NothingRead, 0)
  BY DEF StartQueue
<1>2. InScope(cfg, t)
  BY DEF Relevant, InScope
<1> HIDE DEF t
<1>3. Needed(t, NothingRead, 1)
  BY <1>2 DEF Needed
<1>4. NextCall(t, NothingRead, 0) = 1
  BY <1>3, NextCallIs
<1>5. Told(src'[t], dst'[t], 1, NothingRead)
  BY NothingTold
<1> QED BY <1>1, <1>4, <1>5 DEF t

\* Where the last query has been answered, everything is told.
LEMMA AllTold ==
  ASSUME Orderly, ReadExactly, pc \in {"inspect", "recheck"}, queue # <<>>, Relevant(Head(queue))
  PROVE  LET t == Head(queue)
             r == Answer(t, rd, call)
             next == NextCall(t, r, call)
         IN  /\ GoodReading(cfg, t, r)
             /\ next \in 1..7 /\ Told(src[t], dst[t], next, r)
             /\ next \in DOMAIN Calls <=> next # 7
<1> DEFINE t == Head(queue)
           r == Answer(t, rd, call)
           next == NextCall(t, r, call)
<1>1. call \in 1..6 /\ Told(src[t], dst[t], call, rd)
  BY DEF ReadExactly
<1>2. t \in Tables
  BY DEF Orderly, Shapes
<1>3. /\ GoodReading(cfg, t, rd)
      /\ call = 1 => InScope(cfg, t)
      /\ call = 3 => rd.hasS
  BY DEF Orderly, Informed, Reading
<1>4. GoodReading(cfg, t, r)
  BY <1>2, <1>3, AnswerGood DEF Orderly, Informed
<1>5. InScope(cfg, t) /\ Exists(src[t]) /\ IsSchema(dst[t])
  BY <1>2 DEF Relevant, Orderly, Informed, Databases
<1>6. DOMAIN rd = {"hasS", "hasD", "src", "dst", "sf", "df"}
  BY <1>3 DEF GoodReading
<1> HIDE DEF t
<1>7. next \in 1..7 /\ Told(src[t], dst[t], next, r)
  BY <1>1, <1>5, <1>6, ToldNext
<1>8. DOMAIN Calls = 1..6
  BY DEF Calls
<1> HIDE DEF next, r
<1>9. next \in DOMAIN Calls <=> next # 7
  BY <1>7, <1>8
<1> QED BY <1>4, <1>7, <1>9 DEF t, r, next

LEMMA ReadExactlyInductive ==
  Orderly /\ ReadExactly /\ [Next]_vars /\ drift' = "none" => ReadExactly'
<1> SUFFICES ASSUME Orderly, ReadExactly, [Next]_vars, drift' = "none" PROVE ReadExactly'
  OBVIOUS
<1> USE DEF databases, reading, plan, progress, world
<1>0. UNCHANGED <<cfg, src>> /\ ~OutsideChange
  BY Undisturbed DEF Orderly
<1>1. CASE ListTables \/ QueryFails \/ EndExecution
  <2>1. \E q : StartQueue(q)
    BY <1>1 DEF ListTables, QueryFails, EndExecution
  <2> QED BY <1>0, <2>1, QueueExact
<1>2. CASE QueryTable
  <2> DEFINE t == Head(queue)
             r == Answer(t, rd, call)
             next == NextCall(t, r, call)
  <2>1. /\ pc \in {"inspect", "recheck"} /\ queue # <<>>
        /\ UNCHANGED dst
        /\ \/ next \in DOMAIN Calls /\ call' = next /\ rd' = r /\ UNCHANGED queue
           \/ StartQueue(Tail(queue))
    BY <1>2 DEF QueryTable
  <2>2. CASE StartQueue(Tail(queue))
    BY <1>0, <2>2, QueueExact
  <2>3. CASE next \in DOMAIN Calls /\ call' = next /\ rd' = r /\ UNCHANGED queue
    <3>1. ASSUME Relevant(t)
          PROVE  next \in 1..7 /\ Told(src[t], dst[t], next, r) /\ next # 7
      BY <2>1, <2>3, <3>1, AllTold
    <3> HIDE DEF r, next
    <3>2. ASSUME Relevant(t) PROVE call' \in 1..6 /\ Told(src'[t], dst'[t], call', rd')
      BY <1>0, <2>1, <2>3, <3>1, <3>2
    <3>3. ASSUME Relevant(Head(queue))' PROVE Relevant(t) /\ Head(queue') = t
      BY <1>0, <2>3, <3>3 DEF Relevant
    <3> HIDE DEF t
    <3> QED BY <3>2, <3>3 DEF ReadExactly
  <2> QED BY <2>1, <2>2, <2>3
<1>3. CASE pc' \notin {"inspect", "recheck"}
  BY <1>3 DEF ReadExactly
<1>4. CASE ListFails \/ GiveUp \/ RefusePlan \/ MakePlan \/ VerifyTable \/ VerifyFails
           \/ StartExecution \/ EndRecheck \/ Crash \/ RunAgain
  BY <1>3, <1>4 DEF ListFails, GiveUp, RefusePlan, MakePlan, VerifyTable, VerifyFails,
              StartExecution, EndRecheck, Crash, RunAgain
<1>5. ASSUME NEW i \in todo, PreviewItem(i) \/ SkipItem(i) \/ ExecuteItem(i) \/ StatementFails(i)
      PROVE  ReadExactly'
  BY <1>3, <1>5 DEF PreviewItem, SkipItem, ExecuteItem, StatementFails, Sends
<1>6. CASE UNCHANGED vars
  BY <1>6 DEF vars, ReadExactly, Relevant
<1> QED BY <1>0, <1>1, <1>2, <1>4, <1>5, <1>6 DEF Next, ToolStep, Stopped

\* Of a table d that was read, the destination still has all a statement of the plan
\* would be needed to change, and no constraint that d had not.
Kin(t, d) ==
  /\ dst[t].cols = d.cols /\ dst[t].charset = d.charset
  /\ dst[t].idx = d.idx /\ dst[t].checks = d.checks
  /\ \A k \in DOMAIN dst[t].fks : k \in DOMAIN d.fks /\ dst[t].fks[k] = d.fks[k]

\* A table whose foreign keys have the indexes they need.
Sound(d) ==
  /\ IsSchema(d) /\ ValidTable(d)
  /\ \A k \in DOMAIN d.fks : Serves(d, d.fks[k].cols)

Snapped(t) ==
  \E r, d : /\ Sound(d) /\ Kin(t, d)
            /\ GoodReading(cfg, t, r) /\ Told(src[t], d, 7, r)
            /\ snap[t] = AlterData(cfg, t, r)

SnapExact ==
  \A t \in DOMAIN snap \ Changes(snap) : Relevant(t) => Snapped(t)

LEMMA DestinationSound ==
  ASSUME TypeOK, Databases, NEW t \in Tables
  PROVE  Sound(dst[t]) /\ Kin(t, dst[t])
<1> DEFINE d == dst[t]
<1>1. t \in DOMAIN dst
  BY DEF TypeOK
<1>2. IsSchema(d) /\ ValidTable(d)
  BY <1>1 DEF Databases, ValidDatabase
<1>3. ASSUME NEW k \in DOMAIN d.fks PROVE Serves(d, d.fks[k].cols)
  <2> DEFINE c == <<t, k>>
  <2>1. c \in Constraints(dst)
    BY <1>1, <1>3 DEF Constraints
  <2>2. ValidForeign(dst, c[1], dst[c[1]].fks[c[2]])
    BY <2>1 DEF Databases, ValidDatabase
  <2>3. c[1] = t /\ c[2] = k
    OBVIOUS
  <2> HIDE DEF c
  <2> QED BY <2>2, <2>3 DEF ValidForeign
<1> QED BY <1>2, <1>3 DEF Sound, Kin

\* A foreign key that comes or goes takes no other part of the table with it.
LEMMA TemporaryKin ==
  ASSUME Orderly, NEW i, NEW t \in DOMAIN snap, LawfulItem(i, t), ~OwnItem(i, t), i \in items,
         Executed(i), NEW d, Sound(d), Kin(t, d),
         NEW r, GoodReading(cfg, t, r), r.dst = d, snap[t] = AlterData(cfg, t, r)
  PROVE  Kin(t, d)'
<1>1. TemporaryItem(i, t)
  BY DEF LawfulItem
<1>2. t \in DOMAIN dst /\ WellFormed(dst[t])
  BY DEF LawfulItem, Orderly, TypeOK, Informed, Databases, IsSchema
<1>3. \A k \in DOMAIN snap[t].dst.fks : k \in DOMAIN d.fks /\ snap[t].dst.fks[k] = d.fks[k]
  <2>1. {"src", "dst"} \subseteq DOMAIN r /\ IsSchema(r.src) /\ IsSchema(r.dst)
    BY DEF GoodReading
  <2>2. snap[t].dst = Parse(d)
    BY <2>1, AlterDataSays
  <2>3. WellFormed(d)
    BY DEF Sound, IsSchema
  <2> QED BY <2>2, <2>3, ParseProper
<1>4. CASE i.restore
  <2>0. PICK k \in DOMAIN snap[t].dst.fks \cap DOMAIN snap[t].src.fks :
           /\ i.key = <<t, k>> /\ <<t, k>> \notin PlannedKeys(OwnItems(items))
           /\ <<t, k>> \notin cfg.ignoreFks
           /\ Reinstalled(dst[t], dst'[t], k, snap[t].src.fks[k])
    BY <1>4, RestoreOutcome
  <2>1. /\ <<t, k>> \notin PlannedKeys(OwnItems(items)) /\ <<t, k>> \notin cfg.ignoreFks
        /\ dst'[t].cols = dst[t].cols
        /\ dst'[t].fks = With(dst[t].fks, k, snap[t].src.fks[k])
        /\ dst'[t].idx = ForeignIndexed(dst[t], k, snap[t].src.fks[k])
        /\ dst'[t].charset = dst[t].charset /\ dst'[t].checks = dst[t].checks
    BY <2>0 DEF Reinstalled
  <2> DEFINE fk == snap[t].src.fks[k]
  <2>2. fk = snap[t].dst.fks[k]
    BY <2>1, RestoreSame DEF PlannedKey
  <2>3. k \in DOMAIN d.fks /\ fk = d.fks[k]
    BY <1>3, <2>1, <2>2
  <2>4. Serves(dst[t], fk.cols)
    BY <2>3 DEF Sound, Kin, Serves
  <2>5. dst'[t].idx = dst[t].idx
    BY <2>1, <2>4 DEF ForeignIndexed
  <2> HIDE DEF fk
  <2>6. dst'[t].fks = With(dst[t].fks, k, fk)
    BY <2>1 DEF fk
  <2>7. \A x \in DOMAIN dst'[t].fks : x \in DOMAIN d.fks /\ dst'[t].fks[x] = d.fks[x]
    BY <2>3, <2>6 DEF With, Kin
  <2> QED BY <2>1, <2>5, <2>7 DEF Kin
<1>5. CASE ~i.restore
  <2>1. PICK k \in DOMAIN snap[t].dst.fks \cap DOMAIN snap[t].src.fks : Temporary(snap, i, t, k)
    BY <1>1 DEF TemporaryItem
  <2> DEFINE st == Alter(t, <<DropForeign(k)>>)
  <2>2. i.stmt = st
    BY <1>5, <2>1 DEF Temporary
  <2>3. Accepts(dst, st) /\ dst' = After(dst, st)
    BY <2>2 DEF Executed
  <2>4. /\ dst'[t].cols = dst[t].cols /\ dst'[t].idx = dst[t].idx
        /\ dst'[t].charset = dst[t].charset /\ dst'[t].checks = dst[t].checks
        /\ dst'[t].fks = Without(dst[t].fks, k)
    BY <1>2, <2>3, ForeignRemoved
  <2> QED BY <2>4 DEF Kin, Without
<1> QED BY <1>4, <1>5

LEMMA SnapExactInductive ==
  Orderly /\ ReadExactly /\ SnapExact /\ [Next]_vars /\ drift' = "none" => SnapExact'
<1> SUFFICES ASSUME Orderly, ReadExactly, SnapExact, [Next]_vars, drift' = "none",
                    NEW t \in DOMAIN snap' \ Changes(snap'), Relevant(t)'
             PROVE  Snapped(t)'
  BY DEF SnapExact
<1> USE DEF databases, reading, plan, progress, world
<1>0. /\ UNCHANGED <<cfg, src>> /\ ~OutsideChange
      /\ UNCHANGED dst \/ \E i \in todo : Executed(i)
      /\ Relevant(t)
  <2>1. /\ UNCHANGED <<cfg, src>> /\ ~OutsideChange
        /\ UNCHANGED dst \/ \E i \in todo : Executed(i)
    BY Undisturbed DEF Orderly
  <2> QED BY <2>1 DEF Relevant, InScope
<1>1. ASSUME t \in DOMAIN snap, snap'[t] = snap[t], UNCHANGED dst PROVE Snapped(t)'
  <2>1. t \notin Changes(snap)
    BY <1>1 DEF Changes
  <2>2. Snapped(t)
    BY <1>0, <1>1, <2>1 DEF SnapExact
  <2> QED BY <1>0, <1>1, <2>2 DEF Snapped, Kin
<1>2. CASE \E i \in todo : Executed(i)
  <2>1. PICK i \in todo : Executed(i)
    BY <1>2
  <2>2. i \in items /\ UNCHANGED <<snap, items>>
    BY <2>1 DEF Executed, Orderly, TypeOK
  <2>3. t \in DOMAIN snap /\ t \notin Changes(snap) /\ Snapped(t)
    <3>1. t \in DOMAIN snap /\ t \notin Changes(snap)
      BY <2>2
    <3> QED BY <1>0, <3>1 DEF SnapExact
  <2>4. PICK r, d : /\ Sound(d) /\ Kin(t, d)
                    /\ GoodReading(cfg, t, r) /\ Told(src[t], d, 7, r)
                    /\ snap[t] = AlterData(cfg, t, r)
    BY <2>3 DEF Snapped
  <2>5. PICK u : LawfulItem(i, u)
    BY <2>2, ItemLawful DEF Orderly, Informed
  <2>6. t \in Tables
    BY <2>3 DEF Orderly, Shapes
  <2>7. Kin(t, d)'
    <3>1. CASE t # u
      <4>1. dst'[t] = dst[t]
        BY <2>1, <2>5, <2>6, <3>1, ExecutedOutcome DEF Orderly, Informed
      <4> QED BY <2>4, <4>1 DEF Kin
    <3>2. CASE t = u
      <4>1. ~OwnItem(i, t)
        BY <2>3 DEF OwnItem
      <4>2. r.dst = d
        BY <2>4 DEF Told
      <4> QED BY <2>1, <2>2, <2>3, <2>4, <2>5, <3>2, <4>1, <4>2, TemporaryKin
    <3> QED BY <3>1, <3>2
  <2> QED BY <1>0, <2>2, <2>4, <2>7 DEF Snapped
<1>3. CASE QueryTable
  <2> DEFINE u == Head(queue)
             r == Answer(u, rd, call)
             next == NextCall(u, r, call)
             data == AlterData(cfg, u, r)
  <2>1. /\ pc \in {"inspect", "recheck"} /\ queue # <<>> /\ UNCHANGED dst
        /\ UNCHANGED snap \/ (snap' = With(snap, u, data) /\ next \notin DOMAIN Calls)
    BY <1>3 DEF QueryTable
  <2>2. CASE t = u /\ snap' = With(snap, u, data) /\ next \notin DOMAIN Calls
    <3>1. Relevant(u)
      BY <1>0, <2>2
    <3>2. GoodReading(cfg, u, r) /\ next \in 1..7 /\ Told(src[u], dst[u], next, r) /\ next = 7
      BY <2>1, <2>2, <3>1, AllTold
    <3>3. u \in Tables
      BY <2>1 DEF Orderly, Shapes
    <3>4. Sound(dst[u]) /\ Kin(u, dst[u])
      BY <3>3, DestinationSound DEF Orderly, Informed
    <3>5. data = AlterData(cfg, u, r)
      OBVIOUS
    <3>6. snap'[t] = data
      BY <2>2 DEF With
    <3> HIDE DEF data, r, next, u
    <3>7. Sound(dst[t]) /\ GoodReading(cfg', t, r) /\ Told(src'[t], dst[t], 7, r)
          /\ snap'[t] = AlterData(cfg', t, r)
      BY <1>0, <2>2, <3>2, <3>4, <3>5, <3>6
    <3>8. Kin(t, dst[t])
      BY <2>2, <3>4
    <3> QED BY <2>1, <3>7, <3>8 DEF Snapped, Kin
  <2>3. CASE UNCHANGED snap
    BY <1>1, <2>1, <2>3
  <2>4. CASE t # u /\ snap' = With(snap, u, data)
    <3> HIDE DEF u, data
    <3>1. t \in DOMAIN snap /\ snap'[t] = snap[t]
      BY <2>4 DEF With
    <3> QED BY <1>1, <2>1, <3>1
  <2> QED BY <2>1, <2>2, <2>3, <2>4
<1>4. CASE UNCHANGED <<snap, dst>>
  BY <1>1, <1>4
<1>5. CASE ListTables \/ ListFails \/ GiveUp \/ RefusePlan \/ MakePlan \/ VerifyTable \/ VerifyFails
           \/ StartExecution \/ EndRecheck \/ QueryFails \/ EndExecution \/ UNCHANGED vars
  BY <1>4, <1>5 DEF ListTables, ListFails, GiveUp, RefusePlan, MakePlan, VerifyTable, VerifyFails,
              StartExecution, EndRecheck, QueryFails, EndExecution, vars
<1>6. CASE Crash \/ RunAgain
  <2>1. snap' = <<>>
    BY <1>6 DEF Crash, RunAgain, Forget
  <2> QED BY <2>1
<1>7. ASSUME NEW i \in todo, PreviewItem(i) \/ SkipItem(i) \/ ExecuteItem(i) \/ StatementFails(i)
      PROVE  Snapped(t)'
  <2>1. UNCHANGED snap
    BY <1>7 DEF PreviewItem, SkipItem, ExecuteItem, StatementFails
  <2> QED BY <1>0, <1>2, <1>4, <2>1
<1> QED BY <1>0, <1>3, <1>5, <1>6, <1>7 DEF Next, ToolStep, Stopped

\* No table in scope is left out: what is not in the snapshots is still in the queue.
Covered ==
  /\ pc = "inspect" /\ errs = {} =>
       \A t \in Tables : Relevant(t) => t \in ToSet(queue) \cup DOMAIN snap
  /\ pc \in {"verify", "execute", "recheck"} \/ (pc = "done" /\ errs = {}) =>
       \A t \in Tables : Relevant(t) => t \in DOMAIN snap

LEMMA CoveredInductive ==
  Orderly /\ Covered /\ [Next]_vars /\ drift' = "none" => Covered'
<1> SUFFICES ASSUME Orderly, Covered, [Next]_vars, drift' = "none" PROVE Covered'
  OBVIOUS
<1> USE DEF databases, reading, plan, progress, world
<1>0. UNCHANGED <<cfg, src>> /\ ~OutsideChange
  BY Undisturbed DEF Orderly
<1>a. \A t \in Tables : Relevant(t)' <=> Relevant(t)
  BY <1>0 DEF Relevant, InScope
<1>1. CASE ListTables
  <2> DEFINE there == {t \in Tables : Exists(src[t]) \/ Exists(dst[t])}
  <2>1. there \in SUBSET Nat /\ IsFiniteSet(there)
    BY ConstantsAssumption, FS_Subset DEF ConstantsAssumption
  <2>2. queue' = InOrder(there) /\ pc' = "inspect"
    BY <1>1 DEF ListTables, StartQueue
  <2>3. \A t \in Tables : Relevant(t) => t \in there
    BY DEF Relevant
  <2> HIDE DEF there
  <2>4. ToSet(InOrder(there)) = there
    BY <2>1, InOrderMembers
  <2> QED BY <1>a, <2>2, <2>3, <2>4 DEF Covered
<1>2. CASE QueryTable
  <2> DEFINE u == Head(queue)
             r == Answer(u, rd, call)
             rest == Tail(queue)
  <2>1. /\ pc \in {"inspect", "recheck"} /\ queue # <<>> /\ pc' = pc
        /\ \/ UNCHANGED <<queue, snap, errs>>
           \/ /\ queue' = rest
              /\ \E v : snap' = IF pc = "inspect" /\ (InScope(cfg, u) \/ r.hasD)
                                THEN With(snap, u, v) ELSE snap
              /\ pc = "inspect" => errs' = errs
    BY <1>2 DEF QueryTable, StartQueue
  <2>2. CASE UNCHANGED <<queue, snap, errs>>
    BY <1>a, <2>1, <2>2 DEF Covered
  <2>3. CASE pc = "inspect" /\ queue' = rest /\ errs' = errs
             /\ \E v : snap' = IF InScope(cfg, u) \/ r.hasD THEN With(snap, u, v) ELSE snap
    <3>1. ToSet(queue) = {u} \cup ToSet(rest)
      BY <2>1, ToSetHeadTail DEF Orderly, Shapes
    <3>2. DOMAIN snap \subseteq DOMAIN snap' /\ (InScope(cfg, u) => u \in DOMAIN snap')
      BY <2>3 DEF With
    <3> HIDE DEF r, rest, u
    <3>3. ASSUME errs = {}, NEW t \in Tables, Relevant(t) PROVE t \in ToSet(queue') \cup DOMAIN snap'
      <4>1. t \in ToSet(queue) \cup DOMAIN snap
        BY <2>3, <3>3 DEF Covered
      <4>2. InScope(cfg, t)
        BY <3>3 DEF Relevant
      <4> QED BY <2>3, <3>1, <3>2, <4>1, <4>2
    <3> QED BY <1>a, <2>1, <2>3, <3>3 DEF Covered
  <2>4. CASE pc = "recheck" /\ snap' = snap
    BY <1>a, <2>1, <2>4 DEF Covered
  <2> QED BY <2>1, <2>2, <2>3, <2>4
<1>3. CASE QueryFails
  <2>1. errs' # {} /\ UNCHANGED <<pc, snap>> /\ pc \in {"inspect", "recheck"}
    BY <1>3 DEF QueryFails
  <2> QED BY <1>a, <2>1 DEF Covered
<1>4. CASE MakePlan
  <2>1. pc = "inspect" /\ errs = {} /\ queue = <<>> /\ UNCHANGED snap /\ pc' \in {"verify", "execute"}
    BY <1>4 DEF MakePlan
  <2>2. \A t \in Tables : Relevant(t) => t \in DOMAIN snap
    BY <2>1, ToSetEmpty DEF Covered
  <2> QED BY <1>a, <2>1, <2>2 DEF Covered
<1>5. CASE ListFails \/ GiveUp \/ RefusePlan \/ VerifyFails \/ Crash \/ RunAgain
  <2>1. pc' \in {"crashed", "list"} \/ (pc' = "done" /\ errs' # {})
    BY <1>5 DEF ListFails, GiveUp, RefusePlan, VerifyFails, Crash, RunAgain
  <2> QED BY <2>1 DEF Covered
<1>6. CASE /\ pc \in {"verify", "execute", "recheck"} /\ UNCHANGED snap
           /\ pc' \in {"verify", "execute", "recheck", "done"}
  BY <1>a, <1>6 DEF Covered
<1>7. CASE VerifyTable \/ StartExecution \/ EndExecution \/ EndRecheck
  BY <1>6, <1>7 DEF VerifyTable, StartExecution, EndExecution, EndRecheck
<1>8. ASSUME NEW i \in todo, PreviewItem(i) \/ SkipItem(i) \/ ExecuteItem(i) \/ StatementFails(i)
      PROVE  Covered'
  BY <1>6, <1>8 DEF PreviewItem, SkipItem, ExecuteItem, StatementFails, Sends
<1>9. CASE UNCHANGED vars
  BY <1>a, <1>9 DEF vars, Covered
<1> QED BY <1>0, <1>1, <1>2, <1>3, <1>4, <1>5, <1>7, <1>8, <1>9 DEF Next, ToolStep, Stopped

\* The tables that change are the ones a run compares again, and at the end of a run
\* without errors each has been read once more and asked for no change.
Settled(t) ==
  \E r : /\ GoodReading(cfg, t, r) /\ Told(src[t], dst[t], 7, r)
         /\ AlterData(cfg, t, r).type \notin {"create", "alter"}

Rechecked ==
  /\ pc \in {"verify", "execute", "recheck"} => ToSet(alters) = Changes(snap)
  /\ pc = "recheck" /\ errs = {} =>
       \A t \in Changes(snap) : Relevant(t) => t \in ToSet(queue) \/ Settled(t)
  /\ pc = "done" /\ errs = {} /\ cfg.sync =>
       \A t \in Changes(snap) : Relevant(t) => Settled(t)

LEMMA RecheckedInductive ==
  Orderly /\ ReadExactly /\ Rechecked /\ [Next]_vars /\ drift' = "none" => Rechecked'
<1> SUFFICES ASSUME Orderly, ReadExactly, Rechecked, [Next]_vars, drift' = "none" PROVE Rechecked'
  OBVIOUS
<1> USE DEF databases, reading, plan, progress, world
<1>0. UNCHANGED <<cfg, src>> /\ ~OutsideChange
  BY Undisturbed DEF Orderly
<1>a. \A t : Relevant(t)' <=> Relevant(t)
  BY <1>0 DEF Relevant, InScope
<1>b. ASSUME UNCHANGED dst PROVE \A t : Settled(t) => Settled(t)'
  BY <1>0, <1>b DEF Settled
<1>1. CASE QueryTable
  <2> DEFINE u == Head(queue)
             r == Answer(u, rd, call)
             rest == Tail(queue)
             next == NextCall(u, r, call)
             data == AlterData(cfg, u, r)
  <2>1. /\ pc \in {"inspect", "recheck"} /\ queue # <<>> /\ UNCHANGED <<pc, dst, alters>>
        /\ pc = "recheck" => UNCHANGED snap
        /\ \/ UNCHANGED <<queue, errs>>
           \/ /\ queue' = rest /\ next \notin DOMAIN Calls
              /\ errs' = IF pc = "recheck" /\ data.type \in {"create", "alter"}
                         THEN errs \cup {"diverged"} ELSE errs
    BY <1>1 DEF QueryTable, StartQueue
  <2> SUFFICES ASSUME pc = "recheck" PROVE Rechecked'
    BY <2>1 DEF Rechecked
  <2>2. CASE UNCHANGED <<queue, errs>>
    BY <1>a, <1>b, <2>1, <2>2 DEF Rechecked
  <2>3. CASE queue' = rest /\ next \notin DOMAIN Calls
             /\ errs' = IF data.type \in {"create", "alter"} THEN errs \cup {"diverged"} ELSE errs
    <3>1. ToSet(queue) = {u} \cup ToSet(rest)
      BY <2>1, ToSetHeadTail DEF Orderly, Shapes
    <3>2. ASSUME errs' = {}, Relevant(u) PROVE Settled(u)
      <4>1. GoodReading(cfg, u, r) /\ next \in 1..7 /\ Told(src[u], dst[u], next, r) /\ next = 7
        BY <2>1, <2>3, <3>2, AllTold
      <4>2. data.type \notin {"create", "alter"}
        BY <2>3, <3>2
      <4>3. AlterData(cfg, u, r).type \notin {"create", "alter"}
        BY <4>2
      <4> HIDE DEF data, r, next, u
      <4> QED BY <4>1, <4>3 DEF Settled
    <3> HIDE DEF data, r, next, u, rest
    <3>3. errs' = {} => errs = {}
      BY <2>3
    <3>4. ASSUME errs' = {}, NEW t \in Changes(snap), Relevant(t)
          PROVE  t \in ToSet(queue') \/ Settled(t)'
      <4>1. t \in ToSet(queue) \/ Settled(t)
        BY <3>3, <3>4 DEF Rechecked
      <4> QED BY <1>b, <2>1, <2>3, <3>1, <3>2, <3>4, <4>1
    <3> QED BY <1>a, <2>1, <3>4 DEF Rechecked
  <2> QED BY <2>1, <2>2, <2>3
<1>2. CASE QueryFails
  <2>1. errs' # {} /\ UNCHANGED <<pc, snap, alters>> /\ pc \in {"inspect", "recheck"}
    BY <1>2 DEF QueryFails
  <2> QED BY <2>1 DEF Rechecked
<1>3. CASE MakePlan
  <2>1. alters' = OrderTableAlters(snap) /\ UNCHANGED snap /\ pc' \in {"verify", "execute"}
    BY <1>3 DEF MakePlan
  <2>2. ToSet(OrderTableAlters(snap)) = Changes(snap)
    BY ChangesTables DEF Orderly, Shapes
  <2> QED BY <2>1, <2>2 DEF Rechecked
<1>4. CASE ListTables \/ ListFails \/ GiveUp \/ RefusePlan \/ VerifyFails \/ Crash \/ RunAgain
  <2>1. pc' \in {"crashed", "list", "inspect"} \/ (pc' = "done" /\ errs' # {})
    BY <1>4 DEF ListTables, ListFails, GiveUp, RefusePlan, VerifyFails, Crash, RunAgain
  <2> QED BY <2>1 DEF Rechecked
<1>5. CASE VerifyTable \/ StartExecution
  <2>1. pc \in {"verify"} /\ pc' \in {"verify", "execute"} /\ UNCHANGED <<alters, snap>>
    BY <1>5 DEF VerifyTable, StartExecution
  <2> QED BY <2>1 DEF Rechecked
<1>6. CASE EndExecution
  <2>1. /\ pc = "execute" /\ UNCHANGED <<alters, snap>>
        /\ pc' = IF cfg.sync /\ errs' = {} THEN "recheck" ELSE "done"
        /\ queue' = IF pc' = "recheck" THEN alters ELSE <<>>
    BY <1>6 DEF EndExecution, StartQueue
  <2>2. ToSet(alters) = Changes(snap)
    BY <2>1 DEF Rechecked
  <2> QED BY <1>0, <2>1, <2>2 DEF Rechecked
<1>7. CASE EndRecheck
  <2>1. pc = "recheck" /\ queue = <<>> /\ pc' = "done" /\ UNCHANGED <<snap, errs, dst>>
    BY <1>7 DEF EndRecheck
  <2>2. errs = {} => \A t \in Changes(snap) : Relevant(t) => Settled(t)
    BY <2>1, ToSetEmpty DEF Rechecked
  <2> QED BY <1>a, <1>b, <2>1, <2>2 DEF Rechecked
<1>8. ASSUME NEW i \in todo, PreviewItem(i) \/ SkipItem(i) \/ ExecuteItem(i) \/ StatementFails(i)
      PROVE  Rechecked'
  <2>1. pc = "execute" /\ pc' = "execute" /\ UNCHANGED <<alters, snap>>
    BY <1>8 DEF PreviewItem, SkipItem, ExecuteItem, StatementFails, Sends
  <2> QED BY <2>1 DEF Rechecked
<1>9. CASE UNCHANGED vars
  <2>1. UNCHANGED <<pc, alters, snap, errs, queue, dst, cfg>>
    BY <1>9 DEF vars
  <2> QED BY <1>a, <1>b, <2>1 DEF Rechecked
<1> QED BY <1>0, <1>1, <1>2, <1>3, <1>4, <1>5, <1>6, <1>7, <1>8, <1>9 DEF Next, ToolStep, Stopped

SourceValid == ValidDatabase(src)

Converging == drift = "none" => ReadExactly /\ SnapExact /\ Covered /\ Rechecked

LEMMA SourceValidInductive ==
  TypeOK /\ SourceValid /\ [Next]_vars => SourceValid'
<1> SUFFICES ASSUME TypeOK, SourceValid, [Next]_vars PROVE SourceValid'
  OBVIOUS
<1>1. CASE OutsideChange
  <2>1. UNCHANGED src \/ ValidDatabase(src')
    BY <1>1 DEF OutsideChange
  <2> QED BY <2>1 DEF SourceValid
<1>2. CASE ~OutsideChange
  <2>1. src' = src
    BY <1>2 DEF Next, ToolStep, Stopped, vars, databases, ListTables, ListFails, GiveUp, RefusePlan,
                VerifyFails, EndRecheck, QueryTable, QueryFails, EndExecution, Crash, RunAgain,
                MakePlan, VerifyTable, StartExecution, PreviewItem, SkipItem, ExecuteItem, StatementFails
  <2> QED BY <2>1 DEF SourceValid
<1> QED BY <1>1, <1>2

LEMMA ConvergingAlways == Spec => [](Orderly /\ SourceValid /\ Converging)
<1>1. Init => SourceValid /\ Converging
  <2> SUFFICES ASSUME Init PROVE SourceValid /\ Converging
    OBVIOUS
  <2>1. SourceValid
    BY ConstantsAssumption DEF ConstantsAssumption, Init, SourceValid
  <2>2. pc = "list" /\ snap = <<>>
    BY DEF Init
  <2>3. DOMAIN snap = {}
    BY <2>2
  <2>4. ReadExactly /\ Covered /\ Rechecked
    BY <2>2 DEF ReadExactly, Covered, Rechecked
  <2>5. SnapExact
    BY <2>3 DEF SnapExact
  <2> QED BY <2>1, <2>4, <2>5 DEF Converging
<1>2. Orderly /\ SourceValid /\ Converging /\ [Next]_vars => SourceValid' /\ Converging'
  <2> SUFFICES ASSUME Orderly, SourceValid, Converging, [Next]_vars PROVE SourceValid' /\ Converging'
    OBVIOUS
  <2>1. SourceValid'
    BY SourceValidInductive DEF Orderly
  <2>2. ASSUME drift' = "none" PROVE (ReadExactly /\ SnapExact /\ Covered /\ Rechecked)'
    <3>1. ReadExactly /\ SnapExact /\ Covered /\ Rechecked
      BY <2>2, Undisturbed DEF Orderly, Converging
    <3> QED BY <2>2, <3>1, ReadExactlyInductive, SnapExactInductive, CoveredInductive, RecheckedInductive
  <2> QED BY <2>1, <2>2 DEF Converging
<1> QED BY <1>1, <1>2, OrderlyAlways, PTL DEF Spec

\* The tables of both databases say what they mean, and no column is both of a type
\* that is left as it is and of a place that is to be kept.
PlainTables ==
  /\ \A t \in Tables : PlainTable(src[t]) /\ PlainTable(dst[t]) /\ PlainTypes(src[t], dst[t])
  /\ ~(cfg.skipTs /\ cfg.fieldOrder)

\* A table the plan does not change keeps its foreign keys.
LEMMA UnchangedKeepsForeign ==
  ASSUME Orderly, Kept, AllSurvive, pc = "done", errs = {}, drift = "none",
         NEW t \in DOMAIN snap \ Changes(snap), NEW k \in DOMAIN snap[t].dst.fks
  PROVE  InPlace(t, k)
<1>1. failed = {} /\ detached = {}
  BY DEF Kept, Ended
<1>2. Survives(t, k)
  BY DEF AllSurvive
<1>3. ~PlannedKey(t, k)
  <2> SUFFICES ASSUME PlannedKey(t, k) PROVE FALSE
    OBVIOUS
  <2> DEFINE keys(x) == {<<x.stmt.table, d.constraint>> :
                        d \in {y \in ToSet(x.stmt.clauses) : y.op \in {"DROP FOREIGN KEY", "ADD CONSTRAINT"}}}
  <2>1. PlannedKeys(OwnItems(items)) = UNION {keys(x) : x \in OwnItems(items)}
    BY DEF PlannedKeys
  <2> HIDE DEF keys
  <2>3. PICK x \in OwnItems(items) : <<t, k>> \in keys(x)
    BY <2>1 DEF PlannedKey
  <2>2. PICK d : <<t, k>> = <<x.stmt.table, d.constraint>>
    BY <2>3 DEF keys
  <2>4. x.stmt.table = t
    BY <2>2
  <2>5. x \in items /\ ~x.temporary
    BY <2>3 DEF OwnItems
  <2>6. PICK u : LawfulItem(x, u)
    BY <2>5, ItemLawful DEF Orderly, Informed
  <2>7. u = t /\ OwnItem(x, u)
    BY <2>4, <2>5, <2>6 DEF LawfulItem, TemporaryItem
  <2> QED BY <2>7 DEF OwnItem
<1> QED BY <1>1, <1>2, <1>3 DEF Survives, DetachFailed

LEMMA EndConverged ==
  ASSUME Orderly, Kept, AllSurvive, SourceValid, Converging, PlainTables
  PROVE  OkMeansConverged
<1> SUFFICES ASSUME pc = "done", errs = {}, cfg.sync, drift = "none",
                    NEW t \in Tables, InScope(cfg, t), Exists(src[t])
             PROVE  Agrees(cfg, t, src[t], dst[t])
  BY DEF OkMeansConverged, Converged, Agrees, ColumnAgrees
<1> DEFINE s == src[t]
           e == dst[t]
<1>1. Relevant(t)
  BY DEF Relevant
<1>2. t \in DOMAIN snap
  BY <1>1 DEF Converging, Covered
<1>3. WellFormed(s) /\ ValidTable(s) /\ WellFormed(e) /\ ValidTable(e)
  <2>1. t \in DOMAIN src /\ t \in DOMAIN dst
    BY DEF Orderly, TypeOK
  <2> QED BY <2>1 DEF Orderly, Informed, Databases, IsSchema, SourceValid, ValidDatabase
<1>4. PlainTable(s) /\ PlainTable(e) /\ PlainTypes(s, e) /\ ~(cfg.skipTs /\ cfg.fieldOrder)
  BY DEF PlainTables
<1>5. CASE t \in Changes(snap)
  <2>1. Settled(t)
    BY <1>1, <1>5 DEF Converging, Rechecked
  <2>2. PICK r : /\ GoodReading(cfg, t, r) /\ Told(s, e, 7, r)
                 /\ AlterData(cfg, t, r).type \notin {"create", "alter"}
    BY <2>1 DEF Settled
  <2>3. DOMAIN r = {"hasS", "hasD", "src", "dst", "sf", "df"}
    BY <2>2 DEF GoodReading
  <2>4. r.src = s /\ r.dst = e /\ (Exists(e) /\ s # e => r.sf = FieldInfos(s) /\ r.df = FieldInfos(e))
    BY <2>2 DEF Told
  <2> HIDE DEF s, e
  <2>5. Exists(s)
    BY DEF s
  <2>6. Agrees(cfg, t, s, e)
    BY <1>3, <1>4, <2>2, <2>3, <2>4, <2>5, NoDifference
  <2> QED BY <2>6 DEF s, e
<1>6. CASE t \notin Changes(snap)
  <2>1. Snapped(t)
    BY <1>1, <1>2, <1>6 DEF Converging, SnapExact
  <2>2. PICK r, d : /\ Sound(d) /\ Kin(t, d)
                    /\ GoodReading(cfg, t, r) /\ Told(s, d, 7, r)
                    /\ snap[t] = AlterData(cfg, t, r)
    BY <2>1 DEF Snapped
  <2>3. DOMAIN r = {"hasS", "hasD", "src", "dst", "sf", "df"}
    BY <2>2 DEF GoodReading
  <2>4. r.src = s /\ r.dst = d /\ (Exists(d) /\ s # d => r.sf = FieldInfos(s) /\ r.df = FieldInfos(d))
    BY <2>2 DEF Told
  <2>5. WellFormed(d) /\ ValidTable(d)
    BY <2>2 DEF Sound, IsSchema
  <2>6. PlainTable(d) /\ PlainTypes(s, d)
    BY <1>4, <2>2 DEF PlainTable, PlainTypes, Kin
  <2>7. AlterData(cfg, t, r).type \notin {"create", "alter"}
    BY <1>2, <1>6, <2>2 DEF Changes
  <2>8. /\ e.cols = d.cols /\ e.charset = d.charset /\ e.idx = d.idx /\ e.checks = d.checks
        /\ \A k \in DOMAIN e.fks : k \in DOMAIN d.fks /\ e.fks[k] = d.fks[k]
    BY <2>2 DEF Kin
  <2>9. snap[t].dst.fks = d.fks
    <3>1. {"src", "dst"} \subseteq DOMAIN r /\ IsSchema(r.src) /\ IsSchema(r.dst)
      BY <2>2 DEF GoodReading
    <3>2. snap[t].dst = Parse(d)
      BY <2>2, <2>4, <3>1, AlterDataSays
    <3> QED BY <2>5, <2>6, <3>2, ParsePlain
  <2>10. \A k \in DOMAIN d.fks : k \in DOMAIN e.fks
    BY <1>2, <1>6, <2>9, UnchangedKeepsForeign DEF InPlace
  <2> HIDE DEF s, e
  <2>11. Exists(s)
    BY DEF s
  <2>12. Agrees(cfg, t, s, d)
    BY <1>3, <1>4, <2>3, <2>4, <2>5, <2>6, <2>7, <2>11, NoDifference
  <2>13. DOMAIN e.fks = DOMAIN d.fks /\ \A k \in DOMAIN d.fks : e.fks[k] = d.fks[k]
    BY <2>8, <2>10
  <2>14. Agrees(cfg, t, s, e)
    BY <2>8, <2>12, <2>13, AgreesToo
  <2> QED BY <2>14 DEF s, e
<1> QED BY <1>5, <1>6

\* A run that returns no error has made every table in scope converge, also one it had
\* no need to change, whose foreign keys it only took away and put back; for tables
\* that say what they mean and while nobody else changes them (Execute,
\* getAlterDataByTable, verification after execution).
THEOREM OkIsConverged == Spec => [](PlainTables => OkMeansConverged)
BY EndConverged, ConvergingAlways, KeptAlways, AllSurviveAlways, PTL

-----------------------------------------------------------------------------
(* Columns to come after.                                                  *)

\* No column a reading found has FOREIGN KEY in its comment: the clause that adds
\* such a column is taken for one that installs a constraint and goes last.
NoneMistaken == \A t \in DOMAIN snap : \A c \in ToSet(snap[t].src.cols) : c.comment # SaysForeignKey

\* The anchors of the clauses for t are led, and none is dropped.
LEMMA SnapshotLed ==
  ASSUME Snapshots, NoneMistaken, NEW t \in Changes(snap)
  PROVE  \E D \in SUBSET ColNames(snap[t].dst) :
           /\ ClausesOf(snap[t].sql) \in Seq(ToSet(ClausesOf(snap[t].sql)))
           /\ Led(D, ClausesOf(snap[t].sql))
           /\ \A c \in ToSet(ClausesOf(snap[t].sql)) : c.op = "DROP COLUMN" => c.name \notin D
<1> DEFINE all == ClausesOf(snap[t].sql)
           D == ColNames(snap[t].src) \cap ColNames(snap[t].dst)
<1>1. t \in DOMAIN snap /\ snap[t].type \in {"create", "alter"}
  BY DEF Changes
<1>2. PICK r : GoodReading(cfg, t, r) /\ snap[t] = AlterData(cfg, t, r)
  BY <1>1 DEF Snapshots
<1>3. {"src", "dst"} \subseteq DOMAIN r /\ IsSchema(r.src) /\ IsSchema(r.dst)
  BY <1>2 DEF GoodReading
<1>4. snap[t].src = Parse(r.src) /\ snap[t].dst = Parse(r.dst)
  BY <1>2, <1>3, AlterDataSays
<1>5. \A c \in ToSet(Parse(r.src).cols) : c.comment # SaysForeignKey
  BY <1>1, <1>4 DEF NoneMistaken
<1>6. CASE snap[t].type = "alter"
  <2>1. AlterData(cfg, t, r).type = "alter"
    BY <1>2, <1>6
  <2>2. /\ ClausesOf(AlterData(cfg, t, r).sql) \in Seq(ToSet(ClausesOf(AlterData(cfg, t, r).sql)))
        /\ Led(ColNames(Parse(r.src)) \cap ColNames(Parse(r.dst)), ClausesOf(AlterData(cfg, t, r).sql))
        /\ \A c \in ToSet(ClausesOf(AlterData(cfg, t, r).sql)) :
             c.op = "DROP COLUMN" => c.name \notin ColNames(Parse(r.src))
    BY <1>3, <1>5, <2>1, AnchorsLed
  <2>3. all \in Seq(ToSet(all))
    BY <1>2, <2>2
  <2>4. Led(D, all)
    BY <1>2, <1>4, <2>2
  <2>5. \A c \in ToSet(all) : c.op = "DROP COLUMN" => c.name \notin ColNames(snap[t].src)
    BY <1>2, <1>4, <2>2
  <2> QED BY <2>3, <2>4, <2>5
<1>7. CASE snap[t].type = "create"
  <2>1. AlterData(cfg, t, r).type = "create"
    BY <1>2, <1>7
  <2>2. /\ ClausesOf(AlterData(cfg, t, r).sql) \in Seq(ToSet(ClausesOf(AlterData(cfg, t, r).sql)))
        /\ \A c \in ToSet(ClausesOf(AlterData(cfg, t, r).sql)) : c.op = "ADD CONSTRAINT"
    BY <1>3, <2>1, CreatedLed
  <2>3. all \in Seq(ToSet(all)) /\ \A c \in ToSet(all) : c.op = "ADD CONSTRAINT"
    BY <1>2, <2>2
  <2> HIDE DEF all, D
  <2>4. Led(D, all)
    BY <2>3 DEF Led, Anchoring, ToSet
  <2> QED BY <2>3, <2>4 DEF all, D
<1> QED BY <1>1, <1>6, <1>7

\* Every clause that puts a column behind another one finds that one: it is one of the
\* destination that no earlier clause drops, or an earlier clause adds it, whatever is
\* ignored, moved or split into statements of its own (getSchemaDiff, field order).
THEOREM AnchorsAreThere == Spec => [](NoneMistaken => AnchorsPresent)
<1>1. Snapshots /\ NoneMistaken => AnchorsPresent
  <2> SUFFICES ASSUME Snapshots, NoneMistaken, NEW t \in Changes(snap)
               PROVE  LET lines == FlattenSeq([j \in DOMAIN snap[t].sql |-> snap[t].sql[j].clauses])
                          named(op, n) == {lines[i].col.name : i \in {x \in 1..(n - 1) : lines[x].op = op}}
                          dropped(n) == {lines[i].name : i \in {x \in 1..(n - 1) : lines[x].op = "DROP COLUMN"}}
                      IN  \A n \in DOMAIN lines :
                            lines[n].op \in {"ADD", "MODIFY"} /\ lines[n].after # AtFront =>
                              \/ lines[n].after \in ColNames(snap[t].dst) \ dropped(n)
                              \/ lines[n].after \in named("ADD", n)
    BY DEF AnchorsPresent
  <2> DEFINE lines == FlattenSeq([j \in DOMAIN snap[t].sql |-> snap[t].sql[j].clauses])
  <2>1. PICK D \in SUBSET ColNames(snap[t].dst) :
          /\ lines \in Seq(ToSet(lines)) /\ Led(D, lines)
          /\ \A c \in ToSet(lines) : c.op = "DROP COLUMN" => c.name \notin D
    BY SnapshotLed DEF ClausesOf
  <2> HIDE DEF lines
  <2>2. DOMAIN lines = 1..Len(lines) /\ Len(lines) \in Nat
    <3> DEFINE S == ToSet(lines)
    <3>1. lines \in Seq(S)
      BY <2>1
    <3> HIDE DEF S
    <3> QED BY <3>1
  <2> SUFFICES ASSUME NEW n \in DOMAIN lines, Anchoring(lines[n])
               PROVE  \/ /\ lines[n].after \in ColNames(snap[t].dst)
                         /\ \A x \in 1..(n - 1) :
                              lines[x].op = "DROP COLUMN" => lines[x].name # lines[n].after
                      \/ \E x \in 1..(n - 1) : lines[x].op = "ADD" /\ lines[n].after = lines[x].col.name
    BY DEF Anchoring, lines
  <2>3. lines[n].after \in D \/ \E m \in 1..(n - 1) : Adds(lines[m], lines[n].after)
    BY <2>1 DEF Led
  <2>4. \A x \in 1..(n - 1) : lines[x] \in ToSet(lines)
    BY <2>2 DEF ToSet
  <2> QED BY <2>1, <2>3, <2>4 DEF Adds
<1> QED BY <1>1, OrderlyAlways, PTL DEF Orderly, Informed
=============================================================================
