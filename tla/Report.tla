------------------------------- MODULE Report -------------------------------
(***************************************************************************)
(* The end of a run of the tool (internal/statics.go, sendMailNotice):     *)
(* write the report to a temporary file and rename it over the last one,   *)
(* send a mail, and, with -http, serve the file until a signal comes.      *)
(* Several runs use one report file at once, because the file is by        *)
(* default the same for all of them.  One step is one call; a call may     *)
(* fail, and a process may die or stand still for hours, between any two.  *)
(***************************************************************************)
EXTENDS Naturals, Sequences, SequencesExt

CONSTANTS
  Runs, Clients,      \* processes of the tool, readers of the page
  Addresses,          \* what -http may name
  Refused,            \* the addresses that need -http-allow-public
  NoAddress, Nobody   \* no -http; no run

ASSUME ReportAssumption ==
  /\ Refused \subseteq Addresses /\ NoAddress \notin Addresses
  /\ Nobody \notin Runs

\* A file that is not whole may have nothing in it yet.
Texts == {"part", "whole"}
NoReport == [of |-> Nobody, text |-> "none"]
Pages == {NoReport} \cup [of : Runs, text : Texts]

Phases == {"run", "clean", "create", "write", "rename", "mail", "sending",
           "serve", "listen", "serving", "closing", "ended", "dead"}
HandlerPhases == {"none", "starting", "armed", "signalled", "draining", "over"}

VARIABLES
  address,    \* the flag -http of each run
  pc,         \* where the main thread of a run is
  temp,       \* its temporary file in the directory of the report, or "none"
  unremoved,  \* history: the runs that could not remove their own temporary file
  report,     \* the report file
  handler,    \* the goroutine that waits for a signal
  conn,       \* the request of each reader
  published, seen   \* history: the renames in order, and what readers were answered

directory == <<temp, unremoved>>
files == <<directory, report, published>>
readers == <<conn, seen>>
vars == <<address, pc, files, handler, readers>>

\* The life of a request; when it was sent is remembered after its end.
Requests == [state : {"idle", "sent", "open", "cut"}, run : Runs \cup {Nobody},
             since : Nat, page : Pages]

Idle == [state |-> "idle", run |-> Nobody, since |-> 0, page |-> NoReport]
Opened(request, page) == [request EXCEPT !.state = "open", !.page = page]
Cut(request) == [request EXCEPT !.state = "cut"]
Done(request) == [Idle EXCEPT !.since = request.since]

GoTo(r, from, to) == pc[r] = from /\ pc' = [pc EXCEPT ![r] = to]

-----------------------------------------------------------------------------
(* writeHTMLResult                                                         *)

\* Execute has returned; its deferred call writes the report, also of a failure.
RunOver(r) ==
  /\ GoTo(r, "run", "clean")
  /\ UNCHANGED <<address, files, handler, readers>>

\* Temporary files that have not been written for an hour are removed, whosever they are;
\* which of them cannot be removed is not looked at.  Any file may be that old: a process
\* may be stopped, or its disk block, for as long as it likes.
CleanTemps(r) ==
  /\ GoTo(r, "clean", "create")
  /\ \E removed \in SUBSET Runs :
       temp' = [q \in Runs |-> IF q \in removed THEN "none" ELSE temp[q]]
  /\ UNCHANGED <<address, unremoved, report, published, handler, readers>>

\* The name is random and new, so the file is the run's own.
CreateTemp(r) ==
  /\ GoTo(r, "create", "write")
  /\ temp' = [temp EXCEPT ![r] = "part"]
  /\ UNCHANGED <<address, unremoved, report, published, handler, readers>>

CreateFails(r) ==
  /\ GoTo(r, "create", "mail")
  /\ UNCHANGED <<address, files, handler, readers>>

\* A file that was removed in the meantime is written all the same, out of reach.
WriteTemp(r) ==
  /\ GoTo(r, "write", "rename")
  /\ temp' = [temp EXCEPT ![r] = IF @ = "none" THEN "none" ELSE "whole"]
  /\ UNCHANGED <<address, unremoved, report, published, handler, readers>>

\* The name is free again, whether the file was removed or renamed.
TempGone(r) ==
  /\ temp' = [temp EXCEPT ![r] = "none"]
  /\ UNCHANGED unremoved

\* os.Remove, whose error is not looked at: the file may stay.
RemoveTemp(r) ==
  \/ TempGone(r)
  \/ temp[r] # "none" /\ unremoved' = unremoved \cup {r} /\ UNCHANGED temp

\* Mutant: what could not be written is left behind.
WriteFailsLeft(r) ==
  /\ GoTo(r, "write", "mail")
  /\ UNCHANGED <<address, files, handler, readers>>

\* Mutant: the error of the write is not looked at.
WriteFailsIgnored(r) ==
  /\ GoTo(r, "write", "rename")
  /\ UNCHANGED <<address, files, handler, readers>>

\* Chmod, WriteString or Close returns an error.
WriteFails(r) ==
  /\ GoTo(r, "write", "mail")
  /\ RemoveTemp(r)
  /\ UNCHANGED <<address, report, published, handler, readers>>

Rename(r) ==
  /\ GoTo(r, "rename", "mail")
  /\ temp[r] # "none"
  /\ report' = [of |-> r, text |-> temp[r]]
  /\ published' = Append(published, r)
  /\ TempGone(r)
  /\ UNCHANGED <<address, handler, readers>>

\* Also when another run has taken the file for a dead one's.
RenameFails(r) ==
  /\ GoTo(r, "rename", "mail")
  /\ RemoveTemp(r)
  /\ UNCHANGED <<address, report, published, handler, readers>>

-----------------------------------------------------------------------------
(* The mail, and startWebServer                                            *)

\* No mail is wanted, or it has no address, host or port to go to.
SkipMail(r) ==
  /\ GoTo(r, "mail", "serve")
  /\ UNCHANGED <<address, files, handler, readers>>

StartMail(r) ==
  /\ GoTo(r, "mail", "sending")
  /\ UNCHANGED <<address, files, handler, readers>>

\* The mail server has taken the mail or refused it, which makes no difference to the
\* run; it may also never answer.
MailAnswers(r) ==
  /\ GoTo(r, "sending", "serve")
  /\ UNCHANGED <<address, files, handler, readers>>

\* Mutant: the mail is sent without a deadline.
MailNeverExpires(r) == FALSE

\* The context that Send is given ends after a minute, and Send with it.
MailExpires(r) ==
  /\ GoTo(r, "sending", "serve")
  /\ UNCHANGED <<address, files, handler, readers>>

NoServer(r) ==
  /\ address[r] \in Refused \cup {NoAddress}
  /\ GoTo(r, "serve", "ended")
  /\ UNCHANGED <<address, files, handler, readers>>

StartServer(r) ==
  /\ address[r] \in Addresses \ Refused
  /\ GoTo(r, "serve", "listen")
  /\ handler' = [handler EXCEPT ![r] = "starting"]
  /\ UNCHANGED <<address, files, readers>>

ShuttingDown(r) == handler[r] \in {"draining", "over"}

Listening(r) == pc[r] = "serving" /\ ~ShuttingDown(r)

Listen(r) ==
  /\ ~ShuttingDown(r)
  /\ \A q \in Runs : Listening(q) => address[q] # address[r]
  /\ GoTo(r, "listen", "serving")
  /\ UNCHANGED <<address, files, handler, readers>>

\* The address is taken or cannot be had, or Shutdown came first.
ListenFails(r) ==
  /\ GoTo(r, "listen", "closing")
  /\ UNCHANGED <<address, files, handler, readers>>

UnderWay(c) == conn[c].state \in {"sent", "open"}

\* Mutant: the requests under way are waited for, without limit.
ServeReturnsIdle(r) ==
  /\ ShuttingDown(r) /\ \A c \in Clients : UnderWay(c) => conn[c].run # r
  /\ GoTo(r, "serving", "closing")
  /\ UNCHANGED <<address, files, handler, readers>>

\* ListenAndServe returns as soon as Shutdown has begun.
ServeReturns(r) ==
  /\ ShuttingDown(r)
  /\ GoTo(r, "serving", "closing")
  /\ UNCHANGED <<address, files, handler, readers>>

\* The connections of run r are cut, and what its goroutine was about is void.
Disconnect(r) ==
  /\ conn' = [c \in Clients |->
                IF UnderWay(c) /\ conn[c].run = r THEN Cut(conn[c]) ELSE conn[c]]
  /\ handler' = [handler EXCEPT ![r] = "over"]
  /\ UNCHANGED <<address, files, seen>>

\* close(done) and Close; nothing is left to do but exit.
Close(r) == GoTo(r, "closing", "ended") /\ Disconnect(r)

-----------------------------------------------------------------------------
(* The goroutine that waits for a signal                                   *)

Served(r) == pc[r] \in {"listen", "serving", "closing"}

Notify(r) ==
  /\ Served(r) /\ handler[r] = "starting"
  /\ handler' = [handler EXCEPT ![r] = "armed"]
  /\ UNCHANGED <<address, pc, files, readers>>

\* Shutdown closes the listener, then waits.
Shutdown(r) ==
  /\ Served(r) /\ handler[r] = "signalled"
  /\ handler' = [handler EXCEPT ![r] = "draining"]
  /\ UNCHANGED <<address, pc, files, readers>>

\* Every request is answered, or five seconds are over.
EndShutdown(r) ==
  /\ Served(r) /\ handler[r] = "draining"
  /\ handler' = [handler EXCEPT ![r] = "over"]
  /\ UNCHANGED <<address, pc, files, readers>>

\* SIGINT or SIGTERM, with the goroutine waiting for it.
Signal(r) ==
  /\ Served(r) /\ handler[r] = "armed"
  /\ handler' = [handler EXCEPT ![r] = "signalled"]
  /\ UNCHANGED <<address, pc, files, readers>>

\* A signal without the goroutine, SIGKILL, or a crash.
Die(r) ==
  /\ pc[r] \notin {"ended", "dead"}
  /\ pc' = [pc EXCEPT ![r] = "dead"]
  /\ Disconnect(r)

-----------------------------------------------------------------------------
(* Requests                                                                *)

Ask(c, r) ==
  /\ ~UnderWay(c) /\ Listening(r)
  /\ conn' = [conn EXCEPT ![c] = [state |-> "sent", run |-> r, since |-> Len(published),
                                  page |-> NoReport]]
  /\ UNCHANGED <<address, pc, files, handler, seen>>

\* Mutant: the page is what the server found when it was started.
OpenOwn(c) ==
  /\ conn[c].state = "sent"
  /\ conn' = [conn EXCEPT ![c] = Opened(conn[c],
                IF Contains(published, conn[c].run) THEN [of |-> conn[c].run, text |-> "whole"]
                ELSE NoReport)]
  /\ UNCHANGED <<address, pc, files, handler, seen>>

\* Mutant: the error of os.ReadFile is not looked at, a missing file is an empty page.
OpenEmpty(c) ==
  /\ conn[c].state = "sent"
  /\ conn' = [conn EXCEPT ![c] = Opened(conn[c],
                IF report = NoReport THEN [report EXCEPT !.text = "part"] ELSE report)]
  /\ UNCHANGED <<address, pc, files, handler, seen>>

\* os.ReadFile opens the file there is; a rename does not touch what is open.
Open(c) ==
  /\ conn[c].state = "sent"
  /\ conn' = [conn EXCEPT ![c] = Opened(conn[c], report)]
  /\ UNCHANGED <<address, pc, files, handler, seen>>

\* The number of a page among the published reports; 0 for "not found".
Version(page) ==
  LET places == {i \in DOMAIN published : published[i] = page.of}
  IN  IF places = {} THEN 0 ELSE CHOOSE i \in places : TRUE

Answer(c) ==
  /\ conn[c].state = "open"
  /\ seen' = [seen EXCEPT ![c] = Version(conn[c].page)]
  /\ conn' = [conn EXCEPT ![c] = Done(conn[c])]
  /\ UNCHANGED <<address, pc, files, handler>>

-----------------------------------------------------------------------------
Init ==
  /\ address \in [Runs -> Addresses \cup {NoAddress}]
  /\ pc = [r \in Runs |-> "run"]
  /\ temp = [r \in Runs |-> "none"] /\ unremoved = {}
  /\ report = NoReport /\ published = <<>>
  /\ handler = [r \in Runs |-> "none"]
  /\ conn = [c \in Clients |-> Idle] /\ seen = [c \in Clients |-> 0]

MainStep(r) ==
  \/ RunOver(r) \/ CleanTemps(r)
  \/ CreateTemp(r) \/ CreateFails(r) \/ WriteTemp(r) \/ WriteFails(r)
  \/ Rename(r) \/ RenameFails(r) \/ SkipMail(r) \/ StartMail(r) \/ MailExpires(r)
  \/ NoServer(r) \/ StartServer(r) \/ Listen(r) \/ ListenFails(r) \/ ServeReturns(r) \/ Close(r)

HandlerStep(r) == Notify(r) \/ Shutdown(r) \/ EndShutdown(r)

Over == (\A r \in Runs : pc[r] \in {"ended", "dead"}) /\ UNCHANGED vars

Next ==
  \/ \E r \in Runs : MainStep(r) \/ HandlerStep(r)
  \/ \E r \in Runs : MailAnswers(r) \/ Signal(r) \/ Die(r)
  \/ \E c \in Clients : (\E r \in Runs : Ask(c, r)) \/ Open(c) \/ Answer(c)
  \/ Over

Spec == Init /\ [][Next]_vars

\* What a run does by itself it does; that the mail server answers, a signal comes or a
\* reader asks is not promised.
FairSpec == Spec /\ \A r \in Runs : WF_vars(MainStep(r)) /\ WF_vars(HandlerStep(r))

-----------------------------------------------------------------------------
(* Properties                                                              *)

\* Every variable holds a value the program could hold.
ReportTypeOK ==
  /\ address \in [Runs -> Addresses \cup {NoAddress}]
  /\ pc \in [Runs -> Phases]
  /\ temp \in [Runs -> Texts \cup {"none"}]
  /\ unremoved \subseteq Runs
  /\ report \in Pages
  /\ handler \in [Runs -> HandlerPhases]
  /\ conn \in [Clients -> Requests]
  /\ published \in Seq(Runs)
  /\ seen \in [Clients -> Nat]

\* From the first rename on there is a report, and it is the whole report of the
\* run that renamed last, whatever writes failed and whichever writers died
\* (writeHTMLResult).
ReportIntact ==
  report = IF published = <<>> THEN NoReport ELSE [of |-> Last(published), text |-> "whole"]

\* A temporary file is that of a run which is still writing it, of one that died, or of
\* one that tried to remove it and could not: no failing write, close or rename leaves
\* one behind by itself, and no run gains another's (writeHTMLResult).
LeftoversExplained ==
  \A r \in Runs : temp[r] # "none" =>
    pc[r] \in {"write", "rename", "dead"} \/ r \in unremoved

\* Every run ends or serves its page, also when the report cannot be written or removed
\* and when the mail server takes the connection and never answers (sendMailNotice).
RunsEnd == \A r \in Runs : <>(pc[r] \in {"serving", "ended", "dead"})

\* A server that was told to stop stops, whenever the signal came: before the
\* listener was open, while it was, or after it failed (startWebServer).
SignalStops == \A r \in Runs : (handler[r] = "signalled") ~> (pc[r] \in {"ended", "dead"})

\* What readers get is what the abstract register allows.
Register == INSTANCE ReportRegister WITH asked <- [c \in Clients |-> UnderWay(c)],
                                         since <- [c \in Clients |-> conn[c].since]

\* The page behaves like a register of complete reports.
ImplementsRegister == Register!Spec

-----------------------------------------------------------------------------
(* What a comment says, and the code does not keep                         *)

\* "Graceful shutdown on SIGINT/SIGTERM" (startWebServer): a server that was told
\* to stop finishes the answers it is giving, unless Shutdown has stopped waiting.
GracefulShutdown ==
  [][\A c \in Clients :
       conn[c].state = "open" /\ conn'[c].state = "cut" =>
         \/ pc'[conn[c].run] = "dead"
         \/ handler[conn[c].run] = "over"]_vars
=============================================================================
