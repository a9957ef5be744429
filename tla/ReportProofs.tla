---------------------------- MODULE ReportProofs ----------------------------
(***************************************************************************)
(* Theorems about Report, for any number of runs, readers and addresses:   *)
(* the file is always the whole report of the run that renamed last, and   *)
(* what readers are answered is what an atomic register of reports allows. *)
(***************************************************************************)
EXTENDS Report, TLAPS

USE DEF files, directory, readers

\* The steps of the mail, and all the steps of the main thread of a run.
MailStep(r) == SkipMail(r) \/ StartMail(r) \/ MailAnswers(r) \/ MailExpires(r)

RunStep(r) == MainStep(r) \/ MailAnswers(r)

\* What happens to a request, field by field.
LEMMA RequestLife ==
  /\ Idle \in Requests
  /\ \A q \in Requests :
       /\ Cut(q) \in Requests /\ Cut(q).state = "cut" /\ Cut(q).since = q.since
       /\ Done(q) \in Requests /\ Done(q).state = "idle" /\ Done(q).since = q.since
       /\ \A page \in Pages :
            /\ Opened(q, page) \in Requests /\ Opened(q, page).state = "open"
            /\ Opened(q, page).since = q.since /\ Opened(q, page).page = page
<1>1. Idle \in Requests
  BY DEF Requests, Idle, Pages, NoReport
<1>2. ASSUME NEW q \in Requests
      PROVE  Cut(q) \in Requests /\ Cut(q).state = "cut" /\ Cut(q).since = q.since
  BY <1>2 DEF Requests, Cut
<1>3. ASSUME NEW q \in Requests
      PROVE  Done(q) \in Requests /\ Done(q).state = "idle" /\ Done(q).since = q.since
  BY <1>3 DEF Requests, Done, Idle, Pages, NoReport
<1>4. ASSUME NEW q \in Requests, NEW page \in Pages
      PROVE  /\ Opened(q, page) \in Requests /\ Opened(q, page).state = "open"
             /\ Opened(q, page).since = q.since /\ Opened(q, page).page = page
  BY <1>4 DEF Requests, Opened
<1> QED BY <1>1, <1>2, <1>3, <1>4

\* A version is a position among the published reports, or 0.
LEMMA VersionType ==
  ASSUME published \in Seq(Runs), NEW page PROVE Version(page) \in 0..Len(published)
BY DEF Version

\* The initial values have the types.
LEMMA TypeInit == Init => ReportTypeOK
BY ReportAssumption, RequestLife DEF Init, ReportTypeOK, Phases, HandlerPhases, Pages, NoReport

\* Every step keeps the types.
LEMMA TypeInductive == ReportTypeOK /\ [Next]_vars => ReportTypeOK'
<1> SUFFICES ASSUME ReportTypeOK, [Next]_vars PROVE ReportTypeOK'
  OBVIOUS
<1> USE DEF ReportTypeOK, Phases, HandlerPhases, Texts, GoTo
<1>1. ASSUME NEW r \in Runs, RunOver(r) PROVE ReportTypeOK'
  BY <1>1 DEF RunOver
<1>2. ASSUME NEW r \in Runs, CleanTemps(r) PROVE ReportTypeOK'
  BY <1>2 DEF CleanTemps
<1>3. ASSUME NEW r \in Runs, CreateTemp(r) PROVE ReportTypeOK'
  BY <1>3 DEF CreateTemp
<1>4. ASSUME NEW r \in Runs, CreateFails(r) PROVE ReportTypeOK'
  BY <1>4 DEF CreateFails
<1>5. ASSUME NEW r \in Runs, WriteTemp(r) PROVE ReportTypeOK'
  BY <1>5 DEF WriteTemp
<1>6. ASSUME NEW r \in Runs, WriteFails(r) PROVE ReportTypeOK'
  BY <1>6 DEF WriteFails, RemoveTemp, TempGone
<1>7. ASSUME NEW r \in Runs, Rename(r) PROVE ReportTypeOK'
  BY <1>7 DEF Rename, TempGone, Pages
<1>8. ASSUME NEW r \in Runs, RenameFails(r) PROVE ReportTypeOK'
  BY <1>8 DEF RenameFails, RemoveTemp, TempGone
<1>9. ASSUME NEW r \in Runs, SkipMail(r) \/ StartMail(r) PROVE ReportTypeOK'
  BY <1>9 DEF SkipMail, StartMail
<1>10. ASSUME NEW r \in Runs, MailAnswers(r) PROVE ReportTypeOK'
  BY <1>10 DEF MailAnswers
<1>11. ASSUME NEW r \in Runs, MailExpires(r) PROVE ReportTypeOK'
  BY <1>11 DEF MailExpires
<1>12. ASSUME NEW r \in Runs, NoServer(r) PROVE ReportTypeOK'
  BY <1>12 DEF NoServer
<1>13. ASSUME NEW r \in Runs, StartServer(r) PROVE ReportTypeOK'
  BY <1>13 DEF StartServer
<1>14. ASSUME NEW r \in Runs, Listen(r) PROVE ReportTypeOK'
  BY <1>14 DEF Listen
<1>15. ASSUME NEW r \in Runs, ListenFails(r) PROVE ReportTypeOK'
  BY <1>15 DEF ListenFails
<1>16. ASSUME NEW r \in Runs, ServeReturns(r) PROVE ReportTypeOK'
  BY <1>16 DEF ServeReturns
<1>17. ASSUME NEW r \in Runs, Close(r) PROVE ReportTypeOK'
  BY <1>17, RequestLife DEF Close, Disconnect
<1>18. ASSUME NEW r \in Runs, Die(r) PROVE ReportTypeOK'
  BY <1>18, RequestLife DEF Die, Disconnect
<1>19. ASSUME NEW r \in Runs, HandlerStep(r) \/ Signal(r) PROVE ReportTypeOK'
  BY <1>19 DEF HandlerStep, Notify, Shutdown, EndShutdown, Signal
<1>20. ASSUME NEW c \in Clients, NEW r \in Runs, Ask(c, r) PROVE ReportTypeOK'
  <2>1. [state |-> "sent", run |-> r, since |-> Len(published), page |-> NoReport] \in Requests
    BY DEF Requests, Pages
  <2> QED
    BY <1>20, <2>1 DEF Ask
<1>21. ASSUME NEW c \in Clients, Open(c) PROVE ReportTypeOK'
  <2>1. Opened(conn[c], report) \in Requests
    BY RequestLife
  <2> QED
    BY <1>21, <2>1 DEF Open
<1>22. ASSUME NEW c \in Clients, Answer(c) PROVE ReportTypeOK'
  BY <1>22, RequestLife, VersionType DEF Answer
<1>23. CASE UNCHANGED vars
  BY <1>23 DEF vars
<1> QED
  BY <1>1, <1>2, <1>3, <1>4, <1>5, <1>6, <1>7, <1>8, <1>9, <1>10, <1>11, <1>12, <1>13,
     <1>14, <1>15, <1>16, <1>17, <1>18, <1>19, <1>20, <1>21, <1>22, <1>23
     DEF Next, MainStep, MailStep, Over

\* Every variable holds a value the program could hold (Report).
THEOREM ReportTypeCorrect == Spec => []ReportTypeOK
BY TypeInit, TypeInductive, PTL DEF Spec

-----------------------------------------------------------------------------
(* The file                                                                *)

\* What a run has in hand follows its place, unless another run cleaned it away.
WriteOrder ==
  \A r \in Runs : pc[r] = "rename" => temp[r] \in {"none", "whole"}

\* Every step keeps the place and the contents of a temporary file in step.
LEMMA WriteOrderInductive == ReportTypeOK /\ WriteOrder /\ [Next]_vars => WriteOrder'
<1> SUFFICES ASSUME ReportTypeOK, WriteOrder, [Next]_vars PROVE WriteOrder'
  OBVIOUS
<1> USE DEF ReportTypeOK, WriteOrder, GoTo
<1>1. CASE UNCHANGED <<pc, temp>>
  BY <1>1
<1>2. ASSUME NEW r \in Runs, UNCHANGED temp, NEW from \in Phases,
             NEW to \in Phases \ {"rename"}, pc' = [pc EXCEPT ![r] = to]
      PROVE  WriteOrder'
  BY <1>2
<1>3. ASSUME NEW r \in Runs, CleanTemps(r) PROVE WriteOrder'
  BY <1>3 DEF CleanTemps
<1>4. ASSUME NEW r \in Runs, CreateTemp(r) PROVE WriteOrder'
  BY <1>4 DEF CreateTemp
<1>5. ASSUME NEW r \in Runs, WriteTemp(r) PROVE WriteOrder'
  BY <1>5 DEF WriteTemp
<1>6. ASSUME NEW r \in Runs, WriteFails(r) \/ Rename(r) \/ RenameFails(r) PROVE WriteOrder'
  BY <1>6 DEF WriteFails, Rename, RenameFails, RemoveTemp, TempGone
<1>7. ASSUME NEW r \in Runs, RunOver(r) \/ CreateFails(r) \/ MailStep(r) \/ NoServer(r)
                              \/ StartServer(r) \/ Listen(r) \/ ListenFails(r) \/ ServeReturns(r)
      PROVE  WriteOrder'
  BY <1>2, <1>7 DEF Phases, MailStep, RunOver, CreateFails, SkipMail, StartMail,
     MailAnswers, MailExpires, NoServer, StartServer, Listen,
     ListenFails, ServeReturns
<1>8. ASSUME NEW r \in Runs, Close(r) \/ Die(r) PROVE WriteOrder'
  BY <1>2, <1>8 DEF Phases, Close, Die, Disconnect
<1>9. ASSUME NEW r \in Runs, HandlerStep(r) \/ Signal(r) PROVE WriteOrder'
  BY <1>1, <1>9 DEF HandlerStep, Notify, Shutdown, EndShutdown, Signal
<1>10. ASSUME NEW c \in Clients, (\E r \in Runs : Ask(c, r)) \/ Open(c) \/ Answer(c)
       PROVE  WriteOrder'
  BY <1>1, <1>10 DEF Ask, Open, Answer
<1>11. CASE UNCHANGED vars
  BY <1>1, <1>11 DEF vars
<1> QED
  BY <1>3, <1>4, <1>5, <1>6, <1>7, <1>8, <1>9, <1>10, <1>11 DEF Next, MainStep, MailStep, Over

\* The reports change by a rename only, so only a complete file becomes the report.
LEMMA OnlyRenames ==
  ASSUME [Next]_vars
  PROVE  UNCHANGED <<report, published>> \/ \E r \in Runs : Rename(r)
<1>1. ASSUME NEW r \in Runs, RunStep(r) PROVE UNCHANGED <<report, published>> \/ Rename(r)
  BY <1>1 DEF RunStep, MainStep, RunOver, CleanTemps, CreateTemp, CreateFails,
     WriteTemp,
     WriteFails, RenameFails, SkipMail, StartMail, MailAnswers, MailExpires, NoServer,
     StartServer, Listen, ListenFails, ServeReturns,
     Close, Disconnect
<1>2. ASSUME NEW r \in Runs, HandlerStep(r) \/ Signal(r) \/ Die(r)
      PROVE  UNCHANGED <<report, published>>
  BY <1>2 DEF HandlerStep, Notify, Shutdown, EndShutdown, Signal, Die, Disconnect
<1>3. ASSUME NEW c \in Clients, (\E r \in Runs : Ask(c, r)) \/ Open(c) \/ Answer(c)
      PROVE  UNCHANGED <<report, published>>
  BY <1>3 DEF Ask, Open, Answer
<1>4. CASE UNCHANGED vars
  BY <1>4 DEF vars
<1> QED
  BY <1>1, <1>2, <1>3, <1>4 DEF Next, Over, RunStep

\* A step keeps the report whole and the newest, given how far its writers are.
LEMMA IntactInductive ==
  ReportTypeOK /\ WriteOrder /\ ReportIntact /\ [Next]_vars => ReportIntact'
<1> SUFFICES ASSUME ReportTypeOK, WriteOrder, ReportIntact, [Next]_vars PROVE ReportIntact'
  OBVIOUS
<1>1. CASE UNCHANGED <<report, published>>
  BY <1>1 DEF ReportIntact, Last
<1>2. ASSUME NEW r \in Runs, Rename(r) PROVE ReportIntact'
  <2>1. report' = [of |-> r, text |-> "whole"]
    BY <1>2 DEF Rename, GoTo, WriteOrder
  <2>2. published' = Append(published, r) /\ published \in Seq(Runs)
    BY <1>2 DEF Rename, ReportTypeOK
  <2>3. Len(published') = Len(published) + 1 /\ published'[Len(published) + 1] = r
    BY <2>2
  <2>4. published' # <<>> /\ Last(published') = r
    BY <2>2, <2>3 DEF Last
  <2> QED
    BY <2>1, <2>4 DEF ReportIntact
<1> QED
  BY <1>1, <1>2, OnlyRenames

FileInv == ReportTypeOK /\ WriteOrder /\ ReportIntact

\* The report is always the whole report of the run that renamed last, however
\* many runs write it, fail or die (writeHTMLResult).
THEOREM ReportAlwaysIntact == Spec => []ReportIntact
<1>1. Init => FileInv
  BY TypeInit DEF Init, FileInv, WriteOrder, ReportIntact
<1>2. FileInv /\ [Next]_vars => FileInv'
  BY TypeInductive, WriteOrderInductive, IntactInductive DEF FileInv
<1>3. FileInv => ReportIntact
  BY DEF FileInv
<1> QED
  BY <1>1, <1>2, <1>3, PTL DEF Spec

\* No step leaves a temporary file behind, nor gives a run another's.
LEMMA LeftoversInductive ==
  ReportTypeOK /\ LeftoversExplained /\ [Next]_vars => LeftoversExplained'
<1> SUFFICES ASSUME ReportTypeOK, LeftoversExplained, [Next]_vars PROVE LeftoversExplained'
  OBVIOUS
<1> USE DEF ReportTypeOK, LeftoversExplained, GoTo
<1>1. CASE UNCHANGED <<pc, directory>>
  BY <1>1
<1>2. ASSUME NEW r \in Runs, CleanTemps(r) PROVE LeftoversExplained'
  BY <1>2 DEF CleanTemps
<1>3. ASSUME NEW r \in Runs, CreateTemp(r) PROVE LeftoversExplained'
  BY <1>3 DEF CreateTemp
<1>4. ASSUME NEW r \in Runs, WriteTemp(r) PROVE LeftoversExplained'
  BY <1>4 DEF WriteTemp
<1>5. ASSUME NEW r \in Runs, WriteFails(r) \/ Rename(r) \/ RenameFails(r)
      PROVE  LeftoversExplained'
  BY <1>5 DEF WriteFails, Rename, RenameFails, RemoveTemp, TempGone
<1>6. ASSUME NEW r \in Runs, RunOver(r) \/ CreateFails(r) \/ MailStep(r) \/ NoServer(r)
                              \/ StartServer(r) \/ Listen(r) \/ ListenFails(r) \/ ServeReturns(r)
      PROVE  LeftoversExplained'
  BY <1>6 DEF MailStep, RunOver, CreateFails, SkipMail, StartMail, MailAnswers,
     MailExpires, NoServer, StartServer, Listen, ListenFails,
     ServeReturns
<1>7. ASSUME NEW r \in Runs, Close(r) \/ Die(r) PROVE LeftoversExplained'
  BY <1>7 DEF Close, Die, Disconnect
<1>8. ASSUME NEW r \in Runs, HandlerStep(r) \/ Signal(r)
      PROVE  LeftoversExplained'
  BY <1>1, <1>8 DEF HandlerStep, Notify, Shutdown, EndShutdown, Signal
<1>9. ASSUME NEW c \in Clients, (\E r \in Runs : Ask(c, r)) \/ Open(c) \/ Answer(c)
      PROVE  LeftoversExplained'
  BY <1>1, <1>9 DEF Ask, Open, Answer
<1>10. CASE UNCHANGED vars
  BY <1>1, <1>10 DEF vars
<1> QED
  BY <1>2, <1>3, <1>4, <1>5, <1>6, <1>7, <1>8, <1>9, <1>10 DEF Next, MainStep, MailStep, Over

\* The directory of the report holds the files of runs that are writing, of runs that
\* died and of runs whose own removal failed, and no others, whichever calls failed
\* (writeHTMLResult).
THEOREM LeftoversAlwaysExplained == Spec => []LeftoversExplained
<1>1. Init => LeftoversExplained
  BY DEF Init, LeftoversExplained
<1> QED
  BY <1>1, TypeInit, TypeInductive, LeftoversInductive, PTL DEF Spec

-----------------------------------------------------------------------------
(* The register                                                            *)

\* No run renames after it has renamed once.
PublishedOnce ==
  /\ \A i \in DOMAIN published : pc[published[i]] \notin {"run", "clean", "create", "write",
                                                           "rename"}
  /\ \A i, j \in DOMAIN published : published[i] = published[j] => i = j

\* The reports stay one for each run that has published.
LEMMA OnceInductive == ReportTypeOK /\ PublishedOnce /\ [Next]_vars => PublishedOnce'
<1> SUFFICES ASSUME ReportTypeOK, PublishedOnce, [Next]_vars PROVE PublishedOnce'
  OBVIOUS
<1> DEFINE early == {"run", "clean", "create", "write", "rename"}
<1>1. ASSUME NEW q \in Runs, pc[q] \notin early PROVE pc'[q] \notin early
  <2> USE <1>1 DEF ReportTypeOK, GoTo
  <2>1. ASSUME NEW r \in Runs, RunStep(r) PROVE pc'[q] \notin early
    BY <2>1 DEF RunStep, MainStep, RunOver, CleanTemps, CreateTemp, CreateFails,
     WriteTemp,
       WriteFails, Rename, RenameFails, SkipMail, StartMail, MailAnswers, MailExpires,
       NoServer, StartServer, Listen, ListenFails,
       ServeReturns, Close
  <2>2. ASSUME NEW r \in Runs, HandlerStep(r) \/ Signal(r) \/ Die(r)
        PROVE  pc'[q] \notin early
    BY <2>2 DEF HandlerStep, Notify, Shutdown, EndShutdown, Signal, Die
  <2>3. ASSUME NEW c \in Clients, (\E r \in Runs : Ask(c, r)) \/ Open(c) \/ Answer(c)
        PROVE  pc'[q] \notin early
    BY <2>3 DEF Ask, Open, Answer
  <2>4. CASE UNCHANGED vars
    BY <2>4 DEF vars
  <2> QED
    BY <2>1, <2>2, <2>3, <2>4 DEF Next, Over, RunStep
<1>2. CASE UNCHANGED <<report, published>>
  BY <1>1, <1>2 DEF PublishedOnce, ReportTypeOK
<1>3. ASSUME NEW r \in Runs, Rename(r) PROVE PublishedOnce'
  <2>1. /\ pc[r] = "rename" /\ pc'[r] = "mail"
        /\ published' = Append(published, r)
    BY <1>3 DEF Rename, GoTo, ReportTypeOK
  <2>2. \A i \in DOMAIN published : published[i] # r /\ published[i] \in Runs
    BY <2>1 DEF PublishedOnce, ReportTypeOK
  <2>3. /\ published' \in Seq(Runs) /\ Len(published') = Len(published) + 1
        /\ published'[Len(published) + 1] = r
        /\ \A i \in DOMAIN published : published'[i] = published[i]
    BY <2>1 DEF ReportTypeOK
  <2>4. DOMAIN published' = DOMAIN published \cup {Len(published) + 1}
    BY <2>3 DEF ReportTypeOK
  <2>5. \A i \in DOMAIN published' : pc'[published'[i]] \notin early
    BY <1>1, <2>1, <2>2, <2>3, <2>4 DEF PublishedOnce
  <2>6. \A i, j \in DOMAIN published' : published'[i] = published'[j] => i = j
    BY <2>2, <2>3, <2>4 DEF PublishedOnce
  <2> QED
    BY <2>5, <2>6 DEF PublishedOnce
<1> QED
  BY <1>2, <1>3, OnlyRenames

\* The page that the register's answer number v stands for.
PageAt(v) == IF v = 0 THEN NoReport ELSE [of |-> published[v], text |-> "whole"]

\* What a reader has in hand was the report at some moment since it asked, and it
\* asked after the answers it has had.
Fresh(c) ==
  /\ conn[c].since <= Len(published) /\ seen[c] <= Len(published)
  /\ UnderWay(c) => seen[c] <= conn[c].since
  /\ conn[c].state = "open" => \E v \in conn[c].since..Len(published) : conn[c].page = PageAt(v)

AnswersFresh == \A c \in Clients : Fresh(c)

\* Reports are told apart by who wrote them.
LEMMA VersionOf ==
  ASSUME ReportTypeOK, PublishedOnce, NEW v \in 0..Len(published)
  PROVE  Version(PageAt(v)) = v
<1>1. CASE v = 0
  BY <1>1, ReportAssumption DEF Version, PageAt, NoReport, ReportTypeOK
<1>2. CASE v # 0
  <2>1. v \in DOMAIN published /\ PageAt(v).of = published[v]
    BY <1>2 DEF PageAt, ReportTypeOK
  <2>2. {i \in DOMAIN published : published[i] = PageAt(v).of} = {v}
    BY <2>1 DEF PublishedOnce
  <2> QED
    BY <2>2 DEF Version
<1> QED
  BY <1>1, <1>2

\* The newest answer is the report there is.
LEMMA Newest ==
  ASSUME ReportTypeOK, ReportIntact PROVE report = PageAt(Len(published))
BY DEF ReportTypeOK, ReportIntact, PageAt, Last

\* Another report takes nothing from what readers have in hand.
LEMMA FreshStable ==
  ASSUME ReportTypeOK, NEW c \in Clients, Fresh(c), UNCHANGED <<conn[c], seen[c]>>,
         UNCHANGED published \/ \E r \in Runs : Rename(r)
  PROVE  Fresh(c)'
<1>1. CASE UNCHANGED published
  BY <1>1 DEF Fresh, UnderWay, PageAt
<1>2. ASSUME NEW r \in Runs, Rename(r) PROVE Fresh(c)'
  <2>1. /\ Len(published) \in Nat /\ Len(published') = Len(published) + 1
        /\ \A i \in 1..Len(published) : published'[i] = published[i]
    BY <1>2 DEF Rename, ReportTypeOK
  <2>2. \A v \in 0..Len(published) : PageAt(v)' = PageAt(v)
    BY <2>1 DEF PageAt
  <2>3. conn[c].since \in Nat /\ seen[c] \in Nat
    BY DEF ReportTypeOK, Requests
  <2> QED
    BY <2>1, <2>2, <2>3 DEF Fresh, UnderWay
<1> QED
  BY <1>1, <1>2

\* A connection that is cut leaves nothing in hand; the others are as fresh as before.
LEMMA FreshCut ==
  ASSUME ReportTypeOK, AnswersFresh, NEW r \in Runs, Disconnect(r)
  PROVE  AnswersFresh'
<1> SUFFICES ASSUME NEW c \in Clients PROVE Fresh(c)'
  BY DEF AnswersFresh
<1> conn[c] \in Requests
  BY DEF ReportTypeOK
<1>1. CASE UnderWay(c) /\ conn[c].run = r
  BY <1>1, RequestLife DEF Disconnect, Fresh, AnswersFresh, UnderWay, files
<1>2. CASE ~(UnderWay(c) /\ conn[c].run = r)
  BY <1>2, FreshStable DEF Disconnect, AnswersFresh, files
<1> QED
  BY <1>1, <1>2

\* Every step keeps what readers have in hand fresh.
LEMMA FreshInductive ==
  ReportTypeOK /\ ReportIntact /\ PublishedOnce /\ AnswersFresh /\ [Next]_vars => AnswersFresh'
<1> SUFFICES ASSUME ReportTypeOK, ReportIntact, PublishedOnce, AnswersFresh, [Next]_vars
             PROVE  AnswersFresh'
  OBVIOUS
<1>1. CASE UNCHANGED <<conn, seen>>
  BY <1>1, OnlyRenames, FreshStable DEF AnswersFresh
<1>2. ASSUME NEW c \in Clients, NEW r \in Runs, Ask(c, r) PROVE AnswersFresh'
  <2> SUFFICES ASSUME NEW d \in Clients PROVE Fresh(d)'
    BY DEF AnswersFresh
  <2>1. UNCHANGED <<published, seen>> /\ Len(published) \in Nat
    BY <1>2 DEF Ask, files, ReportTypeOK
  <2>2. CASE d = c
    <3>1. conn'[c].state = "sent" /\ conn'[c].since = Len(published)
      BY <1>2 DEF Ask, ReportTypeOK
    <3> QED
      BY <2>1, <2>2, <3>1 DEF Fresh, AnswersFresh, UnderWay
  <2>3. CASE d # c
    BY <1>2, <2>1, <2>3, FreshStable DEF Ask, AnswersFresh, ReportTypeOK
  <2> QED
    BY <2>2, <2>3
<1>3. ASSUME NEW c \in Clients, Open(c) PROVE AnswersFresh'
  <2> SUFFICES ASSUME NEW d \in Clients PROVE Fresh(d)'
    BY DEF AnswersFresh
  <2>1. UNCHANGED <<published, seen>> /\ Len(published) \in Nat
    BY <1>3 DEF Open, files, ReportTypeOK
  <2>2. CASE d = c
    <3>1. conn[c] \in Requests /\ report \in Pages
      BY DEF ReportTypeOK
    <3>2. /\ conn'[c].state = "open" /\ conn'[c].since = conn[c].since
          /\ conn'[c].page = PageAt(Len(published))
      <4>1. conn'[c] = Opened(conn[c], report)
        BY <1>3 DEF Open, ReportTypeOK
      <4>2. report = PageAt(Len(published))
        BY Newest
      <4>3. /\ Opened(conn[c], report).state = "open"
            /\ Opened(conn[c], report).since = conn[c].since
            /\ Opened(conn[c], report).page = report
        BY <3>1, RequestLife
      <4> QED BY <4>1, <4>2, <4>3
    <3>3. PageAt(Len(published))' = PageAt(Len(published))
      BY <2>1 DEF PageAt
    <3>4. conn[c].since \in Nat
      BY <3>1 DEF Requests
    <3>5. UnderWay(c) /\ Fresh(c)
      BY <1>3 DEF Open, UnderWay, AnswersFresh
    <3> QED
      BY <2>1, <2>2, <3>2, <3>4, <3>5 DEF Fresh, UnderWay, PageAt
  <2>3. CASE d # c
    BY <1>3, <2>1, <2>3, FreshStable DEF Open, AnswersFresh, ReportTypeOK
  <2> QED
    BY <2>2, <2>3
<1>4. ASSUME NEW c \in Clients, Answer(c) PROVE AnswersFresh'
  <2> SUFFICES ASSUME NEW d \in Clients PROVE Fresh(d)'
    BY DEF AnswersFresh
  <2>1. UNCHANGED published /\ Len(published) \in Nat
    BY <1>4 DEF Answer, files, ReportTypeOK
  <2>2. CASE d = c
    <3>1. conn[c] \in Requests
      BY DEF ReportTypeOK
    <3>2. conn'[c].state = "idle" /\ conn'[c].since = conn[c].since
      BY <1>4, <3>1, RequestLife DEF Answer, ReportTypeOK
    <3>3. seen'[c] <= Len(published)
      BY <1>4, VersionType DEF Answer, ReportTypeOK
    <3>4. Fresh(c)
      BY DEF AnswersFresh
    <3> QED
      BY <2>1, <2>2, <3>2, <3>3, <3>4 DEF Fresh, UnderWay
  <2>3. CASE d # c
    BY <1>4, <2>1, <2>3, FreshStable DEF Answer, AnswersFresh, ReportTypeOK
  <2> QED
    BY <2>2, <2>3
<1>5. ASSUME NEW r \in Runs, Close(r) \/ Die(r) PROVE AnswersFresh'
  BY <1>5, FreshCut DEF Close, Die
<1>6. ASSUME NEW r \in Runs, RunStep(r), ~Close(r) PROVE UNCHANGED <<conn, seen>>
  BY <1>6 DEF RunStep, MainStep, RunOver, CleanTemps, CreateTemp, CreateFails,
     WriteTemp,
     WriteFails, Rename, RenameFails, SkipMail, StartMail, MailAnswers, MailExpires,
     NoServer, StartServer, Listen, ListenFails,
     ServeReturns
<1>7. ASSUME NEW r \in Runs, HandlerStep(r) \/ Signal(r)
      PROVE  UNCHANGED <<conn, seen>>
  BY <1>7 DEF HandlerStep, Notify, Shutdown, EndShutdown, Signal
<1>8. CASE UNCHANGED vars
  BY <1>1, <1>8 DEF vars
<1> QED
  BY <1>1, <1>2, <1>3, <1>4, <1>5, <1>6, <1>7, <1>8 DEF Next, Over, RunStep

ReadInv == FileInv /\ PublishedOnce /\ AnswersFresh

\* One reader's request begins or ends.
LEMMA OneAsked ==
  ASSUME NEW c \in Clients, NEW b \in BOOLEAN, UnderWay(c)' = b,
         \A d \in Clients \ {c} : UnderWay(d)' = UnderWay(d)
  PROVE  [d \in Clients |-> UnderWay(d)]' = [[d \in Clients |-> UnderWay(d)] EXCEPT ![c] = b]
BY Zenon

\* Every step of the runs and the readers is a step of the register, or none.
LEMMA StepRefines == ReadInv /\ [Next]_vars => [Register!Next]_(Register!rvars)
<1> SUFFICES ASSUME ReadInv, [Next]_vars PROVE [Register!Next]_(Register!rvars)
  OBVIOUS
<1> USE DEF ReadInv, FileInv, Register!Next, Register!rvars
<1>1. CASE UNCHANGED <<conn, published, seen>>
  BY <1>1 DEF UnderWay
<1>2. ASSUME NEW r \in Runs, Rename(r) PROVE Register!Publish(r)
  <2>1. \A i \in DOMAIN published : published[i] # r
    BY <1>2 DEF Rename, GoTo, PublishedOnce
  <2> QED
    BY <1>2, <2>1 DEF Rename, Register!Publish, UnderWay
<1>3. ASSUME NEW r \in Runs, Disconnect(r) PROVE \E lost \in SUBSET Clients : Register!GiveUp(lost)
  <2> DEFINE lost == {c \in Clients : UnderWay(c) /\ conn[c].run = r}
  <2>1. ASSUME NEW c \in Clients
        PROVE  /\ UnderWay(c)' = (UnderWay(c) /\ c \notin lost)
               /\ conn'[c].since = conn[c].since
    <3>1. conn[c] \in Requests
      BY DEF ReportTypeOK
    <3> QED
      BY <1>3, <3>1, RequestLife DEF Disconnect, UnderWay
  <2>2. Register!GiveUp(lost)
    BY <1>3, <2>1 DEF Disconnect, files, Register!GiveUp
  <2> QED
    BY <2>2
<1>4. ASSUME NEW c \in Clients, NEW r \in Runs, Ask(c, r) PROVE Register!Ask(c)
  <2>1. /\ ~UnderWay(c) /\ UnderWay(c)' = TRUE /\ conn'[c].since = Len(published)
        /\ \A d \in Clients \ {c} : conn'[d] = conn[d] /\ UnderWay(d)' = UnderWay(d)
    BY <1>4 DEF Ask, UnderWay, ReportTypeOK
  <2>2. [d \in Clients |-> conn[d].since]'
          = [[d \in Clients |-> conn[d].since] EXCEPT ![c] = Len(published)]
    BY <2>1
  <2>3. [d \in Clients |-> UnderWay(d)]' = [[d \in Clients |-> UnderWay(d)] EXCEPT ![c] = TRUE]
    BY <2>1, OneAsked
  <2>4. ~[d \in Clients |-> UnderWay(d)][c]
    BY <2>1
  <2> QED
    BY <1>4, <2>2, <2>3, <2>4, Zenon DEF Ask, files, Register!Ask
<1>5. ASSUME NEW c \in Clients, Open(c) PROVE UNCHANGED Register!rvars
  <2>1. conn[c] \in Requests /\ report \in Pages
    BY DEF ReportTypeOK
  <2>2. /\ UnderWay(c) /\ UnderWay(c)' /\ conn'[c].since = conn[c].since
        /\ \A d \in Clients \ {c} : conn'[d] = conn[d]
    <3>1. /\ conn[c].state = "sent" /\ conn'[c] = Opened(conn[c], report)
          /\ \A d \in Clients \ {c} : conn'[d] = conn[d]
      BY <1>5 DEF Open, ReportTypeOK
    <3>2. conn'[c].state = "open" /\ conn'[c].since = conn[c].since
      BY <2>1, <3>1, RequestLife
    <3> QED BY <3>1, <3>2 DEF UnderWay
  <2> QED
    BY <1>5, <2>2 DEF Open, files, UnderWay
<1>6. ASSUME NEW c \in Clients, Answer(c) PROVE Register!Answer(c)
  <2>1. conn[c] \in Requests
    BY DEF ReportTypeOK
  <2>2. /\ UnderWay(c) /\ UnderWay(c)' = FALSE /\ conn'[c].since = conn[c].since
        /\ \A d \in Clients \ {c} : conn'[d] = conn[d] /\ UnderWay(d)' = UnderWay(d)
    BY <1>6, <2>1, RequestLife DEF Answer, UnderWay, ReportTypeOK
  <2>3. PICK v \in conn[c].since..Len(published) : conn[c].page = PageAt(v)
    BY <1>6 DEF Answer, AnswersFresh, Fresh
  <2>4. /\ v \in 0..Len(published) /\ v >= seen[c] /\ conn[c].since \in Nat
    BY <2>1, <2>2 DEF Requests, AnswersFresh, Fresh, ReportTypeOK
  <2>5. seen' = [seen EXCEPT ![c] = v]
    BY <1>6, <2>3, <2>4, VersionOf DEF Answer
  <2>6. [d \in Clients |-> conn[d].since]' = [d \in Clients |-> conn[d].since]
    BY <2>2
  <2>7. [d \in Clients |-> UnderWay(d)]' = [[d \in Clients |-> UnderWay(d)] EXCEPT ![c] = FALSE]
    BY <2>2, OneAsked
  <2>8. /\ [d \in Clients |-> UnderWay(d)][c]
        /\ v \in [d \in Clients |-> conn[d].since][c]..Len(published)
    BY <2>2, <2>3
  <2> QED
    BY <1>6, <2>4, <2>5, <2>6, <2>7, <2>8, Zenon DEF Answer, files, Register!Answer
<1>7. ASSUME NEW r \in Runs, RunStep(r), ~Close(r), ~Rename(r)
      PROVE  UNCHANGED <<conn, published, seen>>
  BY <1>7 DEF RunStep, MainStep, RunOver, CleanTemps, CreateTemp, CreateFails,
     WriteTemp,
     WriteFails, RenameFails, SkipMail, StartMail, MailAnswers, MailExpires, NoServer,
     StartServer, Listen, ListenFails, ServeReturns
<1>8. ASSUME NEW r \in Runs, HandlerStep(r) \/ Signal(r)
      PROVE  UNCHANGED <<conn, published, seen>>
  BY <1>8 DEF HandlerStep, Notify, Shutdown, EndShutdown, Signal
<1>9. ASSUME NEW r \in Runs, Close(r) \/ Die(r)
      PROVE  \E lost \in SUBSET Clients : Register!GiveUp(lost)
  BY <1>3, <1>9 DEF Close, Die
<1>10. CASE UNCHANGED vars
  BY <1>1, <1>10 DEF vars
<1> QED
  BY <1>1, <1>2, <1>4, <1>5, <1>6, <1>7, <1>8, <1>9, <1>10 DEF Next, Over, RunStep

\* The page behaves like a register of complete reports, for any number of runs,
\* servers and readers (Report implements ReportRegister).
THEOREM RegisterImplemented == Spec => ImplementsRegister
<1>1. Init => ReadInv
  BY TypeInit
     DEF Init, ReadInv, FileInv, WriteOrder, ReportIntact, PublishedOnce, AnswersFresh, Fresh,
         UnderWay, Idle
<1>2. ReadInv /\ [Next]_vars => ReadInv'
  BY TypeInductive, WriteOrderInductive, IntactInductive, OnceInductive, FreshInductive
     DEF ReadInv, FileInv
<1>3. Init => Register!Init
  <2> SUFFICES ASSUME Init PROVE Register!Init
    OBVIOUS
  <2>1. \A c \in Clients : UnderWay(c) = FALSE /\ conn[c].since = 0
    BY DEF Init, UnderWay, Idle
  <2>2. /\ [c \in Clients |-> UnderWay(c)] = [c \in Clients |-> FALSE]
        /\ [c \in Clients |-> conn[c].since] = [c \in Clients |-> 0]
    BY <2>1, Zenon
  <2> QED
    BY <2>2, Zenon DEF Init, Register!Init
<1> QED
  BY <1>1, <1>2, <1>3, StepRefines, PTL DEF Spec, ImplementsRegister, Register!Spec
=============================================================================
