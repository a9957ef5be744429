---------------------------- MODULE SyncContract ----------------------------
(***************************************************************************)
(* What a run promises about the foreign keys it takes out of the way: it  *)
(* may remove some and put them back; after its first failure it removes   *)
(* no more; it ends well only with all of them back, and it ends badly     *)
(* only when the restore of each one still missing was tried and failed.   *)
(* Only a crash leaves a constraint behind without a word.                 *)
(***************************************************************************)
VARIABLES
  status, \* "running", "failing", "ok", "failed" or "dead"
  gone,   \* the constraints removed and not yet put back
  tried   \* the constraints whose restore failed

cvars == <<status, gone, tried>>

Init == status = "running" /\ gone = {} /\ tried = {}

Remove ==
  /\ status = "running"
  /\ \E k \in gone' : gone' = gone \cup {k}
  /\ UNCHANGED <<status, tried>>

PutBack ==
  /\ status \in {"running", "failing"}
  /\ \E k \in gone : gone' = gone \ {k}
  /\ UNCHANGED <<status, tried>>

PutBackFails ==
  /\ status \in {"running", "failing"}
  /\ status' = "failing"
  /\ \E k \in tried' : tried' = tried \cup {k}
  /\ UNCHANGED gone

OtherFails ==
  /\ status = "running"
  /\ status' = "failing"
  /\ UNCHANGED <<gone, tried>>

EndWell ==
  /\ status = "running" /\ gone = {}
  /\ status' = "ok"
  /\ UNCHANGED <<gone, tried>>

EndBadly ==
  /\ status \in {"running", "failing"} /\ gone \subseteq tried
  /\ status' = "failed"
  /\ UNCHANGED <<gone, tried>>

Die ==
  /\ status \in {"running", "failing"}
  /\ status' = "dead" /\ gone' = {} /\ tried' = {}

NewRun ==
  /\ status \in {"ok", "failed", "dead"}
  /\ status' = "running" /\ gone' = {} /\ tried' = {}

Next ==
  \/ Remove \/ PutBack \/ PutBackFails \/ OtherFails
  \/ EndWell \/ EndBadly \/ Die \/ NewRun

Spec == Init /\ [][Next]_cvars

\* What the promise comes to.
KeptPromise ==
  /\ status = "ok" => gone = {}
  /\ status = "failed" => gone \subseteq tried
=============================================================================
