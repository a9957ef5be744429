----------------------------- MODULE CheckLock -----------------------------
(***************************************************************************)
(* The batch script (check.sh): each invocation takes a lock, runs the     *)
(* tool once for every configuration file and lets go of the lock.  With   *)
(* the command flock the lock is on an open file that the tool inherits;   *)
(* without it, it is a directory that names its owner's pid in a file.     *)
(* Any invocation may be killed between any two commands, the tool it runs *)
(* then goes on by itself.                                                 *)
(***************************************************************************)
EXTENDS Naturals, FiniteSets

CONSTANTS
  Invocations, \* each one process, and its own pid
  Nobody,      \* no invocation
  Hosts,       \* whether the command exists, on each kind of host
  Configs,     \* bound: configuration files an invocation finds
  MaxKills     \* bound: invocations that are killed

ASSUME LockAssumption ==
  /\ Nobody \notin Invocations
  /\ Hosts \subseteq BOOLEAN
  /\ Configs \in Nat /\ MaxKills \in Nat

VARIABLES
  flock,  \* the command exists on this host
  at,     \* where each invocation is in the script
  left,   \* configurations it has still to run
  tool,   \* the invocations whose tool is running
  held,   \* flock: whose file is locked
  dir,    \* mkdir: the lock directory exists
  file,   \* mkdir: the pid file exists in it
  pid,    \* mkdir: whom the pid file names, Nobody if it is empty or there is none
  open,   \* mkdir: the invocations that have this pid file open to write it
  seen,   \* the owner each invocation has read
  kills

own == <<at, left, seen>>
contents == <<file, pid, open>>
directory == <<dir, contents>>
vars == <<flock, own, tool, held, directory, kills>>

Places == {"start", "check", "read", "judge", "unlink", "rmdir", "again", "own",
           "writing", "loop", "wait", "release", "releasing", "done", "refused", "killed"}

\* The places where the script's process is alive.
Alive(i) == at[i] \notin {"start", "done", "refused", "killed"}

Goes(i, place) == at' = [at EXCEPT ![i] = place]

-----------------------------------------------------------------------------
(* With flock                                                              *)

TakeFlock(i) ==
  /\ flock /\ at[i] = "start" /\ held = Nobody
  /\ held' = i
  /\ Goes(i, "loop")
  /\ UNCHANGED <<flock, left, seen, tool, directory, kills>>

RefuseFlock(i) ==
  /\ flock /\ at[i] = "start" /\ held # Nobody
  /\ Goes(i, "refused")
  /\ UNCHANGED <<flock, left, seen, tool, held, directory, kills>>

-----------------------------------------------------------------------------
(* Without flock                                                           *)

\* The first mkdir, or the one after the removal of a stale lock.
MakeDirectory(i) ==
  /\ ~flock /\ at[i] \in {"start", "again"}
  /\ \/ ~dir /\ dir' = TRUE /\ Goes(i, "own")
     \/ dir /\ UNCHANGED dir /\ Goes(i, IF at[i] = "start" THEN "check" ELSE "refused")
  /\ UNCHANGED <<flock, left, seen, tool, held, contents, kills>>

\* Is there a pid file?
CheckPid(i) ==
  /\ at[i] = "check"
  /\ Goes(i, IF file THEN "read" ELSE "refused")
  /\ UNCHANGED <<flock, left, seen, tool, held, directory, kills>>

\* The file may have gone since, or not be written yet: the owner is the empty text.
ReadPid(i) ==
  /\ at[i] = "read"
  /\ seen' = [seen EXCEPT ![i] = pid]
  /\ Goes(i, "judge")
  /\ UNCHANGED <<flock, left, tool, held, directory, kills>>

\* kill -0
JudgeOwner(i) ==
  /\ at[i] = "judge"
  /\ Goes(i, IF seen[i] # Nobody /\ Alive(seen[i]) THEN "refused" ELSE "unlink")
  /\ UNCHANGED <<flock, left, seen, tool, held, directory, kills>>

\* Mutant: the trap only removes the directory.
UnlinkUnlessTrap(i) ==
  /\ at[i] \in {"unlink", "release"}
  /\ IF at[i] = "unlink" THEN file' = FALSE /\ pid' = Nobody /\ open' = {} ELSE UNCHANGED contents
  /\ Goes(i, IF at[i] = "unlink" THEN "rmdir" ELSE "releasing")
  /\ UNCHANGED <<flock, left, seen, tool, held, dir, kills>>

\* rm -rf removes the file, then the directory if nothing is in it.
Unlink(i) ==
  /\ at[i] \in {"unlink", "release"}
  /\ file' = FALSE /\ pid' = Nobody /\ open' = {}
  /\ Goes(i, IF at[i] = "unlink" THEN "rmdir" ELSE "releasing")
  /\ UNCHANGED <<flock, left, seen, tool, held, dir, kills>>

RemoveDirectory(i) ==
  /\ at[i] \in {"rmdir", "releasing"}
  /\ dir' = (dir /\ file)
  /\ Goes(i, IF at[i] = "rmdir" THEN "again" ELSE "done")
  /\ UNCHANGED <<flock, left, seen, tool, held, contents, kills>>

\* The shell creates or empties the file before it writes to it.  The script goes on
\* if the directory has been removed and there is no file to be had.
CreatePid(i) ==
  /\ at[i] = "own"
  /\ IF dir THEN file' = TRUE /\ pid' = Nobody /\ open' = open \cup {i} /\ Goes(i, "writing")
     ELSE UNCHANGED contents /\ Goes(i, "loop")
  /\ UNCHANGED <<flock, left, seen, tool, held, dir, kills>>

\* A file that was removed in the meantime is written out of reach.
WritePid(i) ==
  /\ at[i] = "writing"
  /\ pid' = IF i \in open THEN i ELSE pid
  /\ open' = open \ {i}
  /\ Goes(i, "loop")
  /\ UNCHANGED <<flock, left, seen, tool, held, dir, file, kills>>

-----------------------------------------------------------------------------
(* With the lock                                                           *)

\* Mutant: one round too many.
StartToolOnceMore(i) ==
  /\ at[i] = "loop"
  /\ tool' = tool \cup {i}
  /\ left' = [left EXCEPT ![i] = @ - 1]
  /\ Goes(i, "wait")
  /\ UNCHANGED <<flock, seen, held, directory, kills>>

StartTool(i) ==
  /\ at[i] = "loop" /\ left[i] > 0
  /\ tool' = tool \cup {i}
  /\ left' = [left EXCEPT ![i] = @ - 1]
  /\ Goes(i, "wait")
  /\ UNCHANGED <<flock, seen, held, directory, kills>>

\* Mutant: the lock of an invocation that was killed outlives its tool.
EndToolHeld(i) ==
  /\ i \in tool
  /\ tool' = tool \ {i}
  /\ IF at[i] = "wait" THEN Goes(i, "loop") ELSE UNCHANGED at
  /\ UNCHANGED <<flock, left, seen, held, directory, kills>>

\* The tool ends, well or badly; the next configuration is run all the same.  If
\* its script is dead, it was the last one to have the locked file open.
EndTool(i) ==
  /\ i \in tool
  /\ tool' = tool \ {i}
  /\ IF at[i] = "wait" THEN Goes(i, "loop") /\ UNCHANGED held
     ELSE UNCHANGED at /\ held' = IF held = i THEN Nobody ELSE held
  /\ UNCHANGED <<flock, left, seen, directory, kills>>

\* The process exits and closes the file, or its trap removes the directory.
Exit(i) ==
  /\ at[i] = "loop" /\ left[i] = 0
  /\ IF flock THEN held' = Nobody /\ Goes(i, "done")
     ELSE UNCHANGED held /\ Goes(i, "release")
  /\ UNCHANGED <<flock, left, seen, tool, directory, kills>>

\* Mutant: the tool does not inherit the locked file.
KillClosed(i) ==
  /\ Alive(i) /\ kills < MaxKills
  /\ kills' = kills + 1
  /\ Goes(i, "killed")
  /\ held' = IF held = i THEN Nobody ELSE held
  /\ UNCHANGED <<flock, left, seen, tool, directory>>

\* SIGKILL, which no trap catches.
Kill(i) ==
  /\ Alive(i) /\ kills < MaxKills
  /\ kills' = kills + 1
  /\ Goes(i, "killed")
  /\ held' = IF held = i /\ i \notin tool THEN Nobody ELSE held
  /\ UNCHANGED <<flock, left, seen, tool, directory>>

-----------------------------------------------------------------------------
Init ==
  /\ flock \in Hosts
  /\ at = [i \in Invocations |-> "start"]
  /\ left = [i \in Invocations |-> Configs]
  /\ seen = [i \in Invocations |-> Nobody]
  /\ tool = {} /\ held = Nobody
  /\ dir = FALSE /\ file = FALSE /\ pid = Nobody /\ open = {}
  /\ kills = 0

\* What an invocation does once it is started.
Step(i) ==
  \/ MakeDirectory(i) /\ at[i] = "again"
  \/ CheckPid(i) \/ ReadPid(i) \/ JudgeOwner(i)
  \/ Unlink(i) \/ RemoveDirectory(i) \/ CreatePid(i) \/ WritePid(i)
  \/ StartTool(i) \/ EndTool(i) \/ Exit(i)

Launch(i) == TakeFlock(i) \/ RefuseFlock(i) \/ (MakeDirectory(i) /\ at[i] = "start")

Finished ==
  /\ \A i \in Invocations : at[i] \in {"done", "refused", "killed"} /\ i \notin tool
  /\ UNCHANGED vars

Next == (\E i \in Invocations : Launch(i) \/ Step(i) \/ Kill(i)) \/ Finished

Spec == Init /\ [][Next]_vars

\* A process that can go on does; nobody has to launch or to kill one.
FairSpec == Spec /\ \A i \in Invocations : WF_vars(Step(i))

-----------------------------------------------------------------------------
\* Every variable holds a value it can hold, and names invocations that exist.
LockTypeOK ==
  /\ flock \in BOOLEAN
  /\ at \in [Invocations -> Places]
  /\ left \in [Invocations -> Nat]
  /\ seen \in [Invocations -> Invocations \cup {Nobody}]
  /\ tool \subseteq Invocations
  /\ held \in Invocations \cup {Nobody}
  /\ dir \in BOOLEAN /\ file \in BOOLEAN
  /\ pid \in Invocations \cup {Nobody} /\ open \subseteq Invocations
  /\ file \/ (pid = Nobody /\ open = {})
  /\ kills \in Nat

\* The tool runs for one invocation at a time.
OneRun == \A i, j \in tool : i = j

\* With flock two invocations never run the tool at the same time, also when one of
\* them was killed and its tool, which has inherited the locked file, is still at work.
FlockExcludes == flock => OneRun

\* An invocation is refused only while another one has the lock in earnest: it
\* is on its way to run the tool or to let go, or its tool is running.
Busy(j) == j \in tool \/ at[j] \in {"own", "writing", "loop", "wait", "release", "releasing"}
RefusedInEarnest ==
  \A i \in Invocations : at[i] # "refused" /\ at'[i] = "refused" =>
    \E j \in Invocations \ {i} : Busy(j)

\* The comment of check.sh: stale locks are detected, whatever the lock is.
RefusedOnlyIfBusy == [][RefusedInEarnest]_vars

\* With flock there are no stale locks, wherever invocations are killed.
FlockNeverStale == [][flock => RefusedInEarnest]_vars

\* When nobody was killed and nobody is at work, nobody's lock is left behind,
\* whoever removed whose directory meanwhile.
LockLetGo ==
  kills = 0 /\ (\A i \in Invocations : ~Alive(i)) => ~dir /\ held = Nobody

\* Whoever holds the locked file, it comes free.
LockComesFree == (held # Nobody) ~> (held = Nobody)
=============================================================================
