-------------------------- MODULE CheckLockProofs --------------------------
(***************************************************************************)
(* What the batch script's lock promises, for any number of invocations,   *)
(* configurations and deaths: with flock all of it, without flock that     *)
(* nothing is left behind as long as nobody is killed.                     *)
(***************************************************************************)
EXTENDS CheckLock, TLAPS

\* The locked file is open in the script that took it and in the tool it runs,
\* and in nothing else.
Holding ==
  /\ \A i \in Invocations :
       /\ at[i] \in {"start", "loop", "wait", "done", "refused", "killed"}
       /\ at[i] \in {"loop", "wait"} => held = i
       /\ i \in tool => held = i /\ at[i] \in {"wait", "killed"}
  /\ held # Nobody => held \in tool \/ at[held] \in {"loop", "wait"}

LockInv == LockTypeOK /\ (flock => Holding)

LEMMA LockInit ==
  Init => LockInv
<1> SUFFICES ASSUME Init PROVE LockInv
  OBVIOUS
<1>1. LockTypeOK
  <2>1. at \in [Invocations -> Places]
    BY DEF Init, Places
  <2>2. left \in [Invocations -> Nat]
    BY LockAssumption DEF Init, LockAssumption
  <2>3. seen \in [Invocations -> Invocations \cup {Nobody}]
    BY DEF Init
  <2>4. flock \in BOOLEAN
    BY LockAssumption DEF Init, LockAssumption
  <2> QED BY <2>1, <2>2, <2>3, <2>4 DEF Init, LockTypeOK
<1>2. Holding
  BY DEF Init, Holding
<1> QED BY <1>1, <1>2 DEF LockInv

LEMMA TypeInductive ==
  LockTypeOK /\ [Next]_vars => LockTypeOK'
<1> SUFFICES ASSUME LockTypeOK, [Next]_vars PROVE LockTypeOK'
  OBVIOUS
<1> USE DEF LockTypeOK, Places, own, contents, directory, Goes
<1>1. ASSUME NEW i \in Invocations, TakeFlock(i) \/ RefuseFlock(i) PROVE LockTypeOK'
  BY <1>1 DEF TakeFlock, RefuseFlock
<1>2. ASSUME NEW i \in Invocations, MakeDirectory(i) PROVE LockTypeOK'
  BY <1>2 DEF MakeDirectory
<1>3. ASSUME NEW i \in Invocations, CheckPid(i) \/ ReadPid(i) \/ JudgeOwner(i)
      PROVE  LockTypeOK'
  BY <1>3 DEF CheckPid, ReadPid, JudgeOwner
<1>4. ASSUME NEW i \in Invocations,
             Unlink(i) \/ RemoveDirectory(i) \/ CreatePid(i) \/ WritePid(i)
      PROVE  LockTypeOK'
  BY <1>4 DEF Unlink, RemoveDirectory, CreatePid, WritePid
<1>5. ASSUME NEW i \in Invocations, StartTool(i) \/ EndTool(i) \/ Exit(i) PROVE LockTypeOK'
  BY <1>5 DEF StartTool, EndTool, Exit
<1>6. ASSUME NEW i \in Invocations, Kill(i) PROVE LockTypeOK'
  BY <1>6 DEF Kill
<1>7. CASE UNCHANGED vars
  BY <1>7 DEF vars
<1> QED BY <1>1, <1>2, <1>3, <1>4, <1>5, <1>6, <1>7 DEF Next, Launch, Step, Finished

\* Without flock, Holding is not claimed; no step changes the host.
LEMMA HoldingInductive ==
  LockInv /\ [Next]_vars => (flock => Holding)'
<1> SUFFICES ASSUME LockInv, [Next]_vars, flock' PROVE Holding'
  OBVIOUS
<1> USE DEF own, contents, directory
<1>0. flock /\ LockTypeOK /\ Holding
  BY DEF LockInv, vars, Next, Launch, Step, Finished, TakeFlock, RefuseFlock, MakeDirectory,
         CheckPid, ReadPid, JudgeOwner, Unlink, RemoveDirectory, CreatePid, WritePid, StartTool,
         EndTool, Exit, Kill
<1> Nobody \notin Invocations
  BY LockAssumption DEF LockAssumption
<1> USE <1>0 DEF LockTypeOK, Holding, Places, Goes
<1>1. ASSUME NEW i \in Invocations, TakeFlock(i) \/ RefuseFlock(i) PROVE Holding'
  BY <1>1 DEF TakeFlock, RefuseFlock
<1>2. ASSUME NEW i \in Invocations, StartTool(i) PROVE Holding'
  BY <1>2 DEF StartTool
<1>3. ASSUME NEW i \in Invocations, EndTool(i) PROVE Holding'
  BY <1>3 DEF EndTool
<1>4. ASSUME NEW i \in Invocations, Exit(i) PROVE Holding'
  BY <1>4 DEF Exit
<1>5. ASSUME NEW i \in Invocations, Kill(i) PROVE Holding'
  BY <1>5 DEF Kill, Alive
<1>6. ASSUME NEW i \in Invocations,
             \/ MakeDirectory(i) \/ CheckPid(i) \/ ReadPid(i) \/ JudgeOwner(i)
             \/ Unlink(i) \/ RemoveDirectory(i) \/ CreatePid(i) \/ WritePid(i)
      PROVE  FALSE
  BY <1>6 DEF MakeDirectory, CheckPid, ReadPid, JudgeOwner, Unlink, RemoveDirectory, CreatePid,
              WritePid
<1>7. CASE UNCHANGED vars
  BY <1>7 DEF vars
<1> QED BY <1>1, <1>2, <1>3, <1>4, <1>5, <1>6, <1>7 DEF Next, Launch, Step, Finished

LEMMA LockInductive ==
  LockInv /\ [Next]_vars => LockInv'
BY TypeInductive, HoldingInductive DEF LockInv

LEMMA LockAlways ==
  Spec => []LockInv
BY LockInit, LockInductive, PTL DEF Spec

\* Every variable keeps its type, with flock and without.
THEOREM LockTypeCorrect ==
  Spec => []LockTypeOK
<1>1. LockInv => LockTypeOK
  BY DEF LockInv
<1> QED BY <1>1, LockAlways, PTL

\* With flock, no two invocations run the tool at the same time, also when one
\* was killed and its tool is still at work.
THEOREM FlockExclusive ==
  Spec => []FlockExcludes
<1>1. LockInv => FlockExcludes
  BY DEF LockInv, LockTypeOK, Holding, FlockExcludes, OneRun
<1> QED BY <1>1, LockAlways, PTL

\* With flock, an invocation is refused only while another is at work: no dead
\* one's lock is left behind.
THEOREM FlockNotStale ==
  Spec => FlockNeverStale
<1>1. LockInv /\ [Next]_vars => [flock => RefusedInEarnest]_vars
  <2> SUFFICES ASSUME LockInv, Next, flock,
                      NEW i \in Invocations, at[i] # "refused", at'[i] = "refused"
               PROVE  \E j \in Invocations \ {i} : Busy(j)
    BY DEF RefusedInEarnest
  <2> USE DEF LockInv, LockTypeOK, Holding, own, contents, directory, Goes
  <2>1. PICK k \in Invocations : Launch(k) \/ Step(k) \/ Kill(k)
    BY DEF Next, Finished, vars
  <2>2. k = i /\ RefuseFlock(i)
    BY <2>1 DEF Launch, Step, Kill, TakeFlock, RefuseFlock, MakeDirectory, CheckPid, ReadPid,
                JudgeOwner, Unlink, RemoveDirectory, CreatePid, WritePid, StartTool, EndTool, Exit
  <2>3. held \in Invocations \ {i} /\ Busy(held)
    BY <2>2 DEF RefuseFlock, Busy
  <2> QED BY <2>3
<1> QED BY <1>1, LockAlways, PTL DEF Spec, FlockNeverStale

-----------------------------------------------------------------------------
(* Letting go.  While nobody is killed, a directory has somebody who is    *)
(* going to empty it, or has been emptied by somebody who is about to      *)
(* remove it; who writes a pid into it meanwhile is going to empty it.     *)

Keepers == {"own", "writing", "loop", "wait", "release"}
Removers == {"rmdir", "releasing"}

Removable ==
  \/ \E j \in Invocations : at[j] \in Keepers
  \/ ~file /\ \E j \in Invocations : at[j] \in Removers

LettingGo ==
  /\ flock => ~dir
  /\ ~flock => held = Nobody
  /\ kills = 0 => \A i \in Invocations : at[i] # "killed"
  /\ kills = 0 /\ dir => Removable

LEMMA LettingGoInit ==
  Init => LettingGo
BY DEF Init, LettingGo

LEMMA LettingGoInductive ==
  LockInv /\ LettingGo /\ [Next]_vars => LettingGo'
<1> SUFFICES ASSUME LockInv, LettingGo, [Next]_vars PROVE LettingGo'
  OBVIOUS
<1> USE DEF own, contents, directory, Goes
<1>0. LockTypeOK /\ (flock => Holding)
  BY DEF LockInv
<1> USE <1>0 DEF LockTypeOK, LettingGo, Removable, Keepers, Removers
<1>1. ASSUME NEW i \in Invocations, TakeFlock(i) \/ RefuseFlock(i) PROVE LettingGo'
  BY <1>1 DEF TakeFlock, RefuseFlock
<1>2. ASSUME NEW i \in Invocations, MakeDirectory(i) PROVE LettingGo'
  BY <1>2 DEF MakeDirectory
<1>3. ASSUME NEW i \in Invocations, CheckPid(i) \/ ReadPid(i) \/ JudgeOwner(i)
      PROVE  LettingGo'
  BY <1>3 DEF CheckPid, ReadPid, JudgeOwner
<1>4. ASSUME NEW i \in Invocations, Unlink(i) PROVE LettingGo'
  BY <1>4 DEF Unlink
<1>5. ASSUME NEW i \in Invocations, RemoveDirectory(i) PROVE LettingGo'
  BY <1>5 DEF RemoveDirectory
<1>6. ASSUME NEW i \in Invocations, CreatePid(i) \/ WritePid(i) PROVE LettingGo'
  BY <1>6 DEF CreatePid, WritePid
<1>7. ASSUME NEW i \in Invocations, StartTool(i) PROVE LettingGo'
  BY <1>7 DEF StartTool
<1>8. ASSUME NEW i \in Invocations, EndTool(i) PROVE LettingGo'
  BY <1>8 DEF EndTool
<1>9. ASSUME NEW i \in Invocations, Exit(i) PROVE LettingGo'
  BY <1>9 DEF Exit
<1>10. ASSUME NEW i \in Invocations, Kill(i) PROVE LettingGo'
  BY <1>10 DEF Kill
<1>11. CASE UNCHANGED vars
  BY <1>11 DEF vars
<1> QED BY <1>1, <1>2, <1>3, <1>4, <1>5, <1>6, <1>7, <1>8, <1>9, <1>10, <1>11
        DEF Next, Launch, Step, Finished

\* When nobody was killed and nobody is at work, the lock is free, with flock and
\* without, however many invocations took each other's directories for stale.
THEOREM LockFreeInTheEnd ==
  Spec => []LockLetGo
<1>1. LockInv /\ LettingGo => LockLetGo
  <2> SUFFICES ASSUME LockInv, LettingGo, kills = 0, \A i \in Invocations : ~Alive(i)
               PROVE  ~dir /\ held = Nobody
    BY DEF LockLetGo
  <2>1. \A i \in Invocations : at[i] \in {"start", "done", "refused"}
    BY DEF Alive, LettingGo
  <2>2. ~dir
    BY <2>1 DEF LockInv, LockTypeOK, LettingGo, Removable, Keepers, Removers
  <2>3. held = Nobody
    BY <2>1 DEF LockInv, LockTypeOK, LettingGo, Holding
  <2> QED BY <2>2, <2>3
<1> QED BY <1>1, LockAlways, LettingGoInit, LettingGoInductive, PTL DEF Spec
=============================================================================
