--------------------------- MODULE ReportRegister ---------------------------
(***************************************************************************)
(* What readers may expect of the report page, whoever writes it and       *)
(* however: reports are published one after another, and an answer is a    *)
(* complete report that was the current one at some moment while the       *)
(* request was under way, never one older than the reader has seen.        *)
(***************************************************************************)
EXTENDS Naturals, Sequences

CONSTANTS
  Runs,     \* the runs that may publish a report, once
  Clients   \* the readers, each with one request at a time

VARIABLES
  published,  \* the reports in the order of their publication
  asked,      \* whether a reader's request is under way
  since,      \* how many reports there were when it was sent
  seen        \* the number of the report the reader was last answered with

rvars == <<published, asked, since, seen>>

Init ==
  /\ published = <<>>
  /\ asked = [c \in Clients |-> FALSE]
  /\ since = [c \in Clients |-> 0]
  /\ seen = [c \in Clients |-> 0]

Publish(r) ==
  /\ \A i \in DOMAIN published : published[i] # r
  /\ published' = Append(published, r)
  /\ UNCHANGED <<asked, since, seen>>

Ask(c) ==
  /\ ~asked[c]
  /\ asked' = [asked EXCEPT ![c] = TRUE]
  /\ since' = [since EXCEPT ![c] = Len(published)]
  /\ UNCHANGED <<published, seen>>

\* Number 0 is the answer that there is no report yet.
Answer(c) ==
  /\ asked[c]
  /\ asked' = [asked EXCEPT ![c] = FALSE]
  /\ \E v \in since[c]..Len(published) :
       /\ v >= seen[c]
       /\ seen' = [seen EXCEPT ![c] = v]
  /\ UNCHANGED <<published, since>>

\* The servers may go away with requests unanswered.
GiveUp(lost) ==
  /\ asked' = [c \in Clients |-> asked[c] /\ c \notin lost]
  /\ UNCHANGED <<published, since, seen>>

Next ==
  \/ \E r \in Runs : Publish(r)
  \/ \E c \in Clients : Ask(c) \/ Answer(c)
  \/ \E lost \in SUBSET Clients : GiveUp(lost)

Spec == Init /\ [][Next]_rvars
=============================================================================
