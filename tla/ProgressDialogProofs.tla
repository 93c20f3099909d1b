------------------------ MODULE ProgressDialogProofs ------------------------
(***************************************************************************)
(* The two threads of the progress dialog, for any number of operations    *)
(* and any sizes of files: they never meet in the kernel, the worker never *)
(* outlives what it uses, and the result that is read is final.            *)
(***************************************************************************)
EXTENDS ProgressDialog, TLAPS

LEMMA ReportsAreTyped ==
  ASSUME NEW n \in Nat
  PROVE  CallReports(n) \subseteq Seq(Report)
<1>1. \A source \in Source, m \in Nat : Started(source, m) \in Seq(Report)
  BY DEF Started, Report, Source
<1>2. \A source \in Source, m \in Nat : Portions(source, m) \in Seq(Report)
  <2> SUFFICES ASSUME NEW source \in Source, NEW m \in Nat
               PROVE  Portions(source, m) \in Seq(Report)
    OBVIOUS
  <2>1. Portions(source, m) \in [1..m -> Report]
    BY DEF Portions, Report, Source
  <2> QED BY <2>1
<1>3. \A p, q \in Seq(Report) : p \o q \in Seq(Report)
  OBVIOUS
<1>4. BackupReports(n) \in Seq(Report)
  <2>1. <<[source |-> "server", kind |-> "portion", size |-> 0]>> \in Seq(Report)
    BY DEF Report, Source
  <2>2. Started("server", n) \o Portions("server", n) \in Seq(Report)
    BY <1>1, <1>2, <1>3 DEF Source
  <2> QED BY <1>3, <2>1, <2>2 DEF BackupReports
<1>5. \A m \in Nat : EncryptReports(n, m) \in Seq(Report)
  <2> SUFFICES ASSUME NEW m \in Nat PROVE EncryptReports(n, m) \in Seq(Report)
    OBVIOUS
  <2> DEFINE r1 == BackupReports(n) \o Started("server", n) \o Started("core", 0)
             r2 == r1 \o Started("core", n) \o Portions("core", n)
             r3 == r2 \o Started("core", n) \o Portions("cipher", n)
  <2>1. r1 \in Seq(Report)
    BY <1>1, <1>3, <1>4 DEF Source
  <2> HIDE DEF r1
  <2>2. r2 \in Seq(Report)
    BY <1>1, <1>2, <1>3, <2>1 DEF Source
  <2> HIDE DEF r2
  <2>3. r3 \in Seq(Report)
    BY <1>1, <1>2, <1>3, <2>2 DEF Source
  <2> HIDE DEF r3
  <2>4. r3 \o Started("server", n) \o Portions("wiper", m) \in Seq(Report)
    BY <1>1, <1>2, <1>3, <2>3 DEF Source
  <2> QED BY <2>4, Zenon DEF EncryptReports, r1, r2, r3
<1>6. DecryptReports(n) \in Seq(Report)
  <2> DEFINE r1 == BackupReports(n) \o Started("server", n) \o Started("core", 0)
             r2 == r1 \o Started("core", n) \o Portions("cipher", n)
  <2>1. r1 \in Seq(Report)
    BY <1>1, <1>3, <1>4 DEF Source
  <2> HIDE DEF r1
  <2>2. r2 \in Seq(Report)
    BY <1>1, <1>2, <1>3, <2>1 DEF Source
  <2> HIDE DEF r2
  <2>3. r2 \o Started("core", n) \o Started("server", n) \in Seq(Report)
    BY <1>1, <1>3, <2>2 DEF Source
  <2> QED BY <2>3, Zenon DEF DecryptReports, r1, r2
<1> QED BY <1>5, <1>6 DEF CallReports

LEMMA ChainIsTyped ==
  ASSUME NEW c \in Chain, NEW h \in Target
  PROVE  WithHandler(c, h) \in Chain /\ WithNewWiper(c) \in Chain
BY DEF Chain, WithHandler, WithNewWiper

\* A worker that has work to do is that of the open dialog.
LEMMA WorkerIsCurrent ==
  ASSUME IInv, screen # "ended", NEW s \in Tasks, workers[s] \notin {"none", "done"}
  PROVE  s = session /\ screen = "progress" /\ ~ button
BY DEF IInv, WorkerMatchesScreen, Tasks

LEMMA InitHolds == Init => IInv
<1> SUFFICES ASSUME Init PROVE IInv
  OBVIOUS
<1> USE DialogAssumption DEF Init
<1>1. TypeOK
  <2>1. chain \in Chain
    BY DEF Chain, NewChain, Target
  <2>2. reports \in Seq(Report) /\ shown \in [size : Nat, processed : Nat]
    OBVIOUS
  <2>3. /\ original \in [Tasks -> Target]
        /\ workers \in [Tasks -> {"none", "begin", "install", "run", "message", "restore",
                                  "enable", "done"}]
        /\ outcome \in [Tasks -> {"none", "done", "failed"}]
    BY DEF Target
  <2>4. /\ screen \in {"main", "settings", "progress", "handler", "ended"}
        /\ g_result \in {"IDOK", "IDCANCEL"}
        /\ code \in {"none", "IDOK", "IDCANCEL"}
    OBVIOUS
  <2>5. session \in 0..MaxTasks
    OBVIOUS
  <2>6. button \in BOOLEAN
    BY Zenon
  <2> QED BY <2>1, <2>2, <2>3, <2>4, <2>5, <2>6, Zenon DEF TypeOK
<1>2. WorkerMatchesScreen
  BY DEF WorkerMatchesScreen, Tasks
<1>3. ChainMatchesWorker
  BY DEF ChainMatchesWorker, NewChain
<1>4. ResultMatchesOutcome
  BY DEF ResultMatchesOutcome
<1> QED BY <1>1, <1>2, <1>3, <1>4 DEF IInv

-----------------------------------------------------------------------------
(***************************************************************************)
(* The thread of the user interface.                                       *)
(***************************************************************************)
LEMMA OpenDialogPreserves ==
  ASSUME IInv, OpenDialog
  PROVE  IInv'
<1> USE DialogAssumption DEF IInv, OpenDialog, Goto
<1>1. session + 1 \in Tasks /\ session' = session + 1
  BY DEF TypeOK, Tasks
<1>2. /\ workers' = [workers EXCEPT ![session + 1] = "begin"]
      /\ workers'[session'] = "begin"
      /\ session # 0 => workers[session] = "done"
  BY <1>1 DEF TypeOK, WorkerMatchesScreen
<1>3. TypeOK'
  <2>1. reports' \in Seq(Report)
    <3>1. PICK n \in Sizes : reports' \in CallReports(n)
      BY Zenon
    <3>2. n \in Nat
      BY <3>1
    <3>3. CallReports(n) \subseteq Seq(Report)
      BY <3>2, ReportsAreTyped, Zenon
    <3> QED BY <3>1, <3>3, Zenon
  <2>2. workers' \in [Tasks -> {"none", "begin", "install", "run", "message", "restore",
                               "enable", "done"}]
    BY <1>1, <1>2 DEF TypeOK
  <2>3. session' \in 0..MaxTasks
    BY <1>1 DEF Tasks
  <2>4. button' \in BOOLEAN
    BY Zenon
  <2>5. /\ screen' \in {"main", "settings", "progress", "handler", "ended"}
        /\ code' \in {"none", "IDOK", "IDCANCEL"}
    OBVIOUS
  <2>6. UNCHANGED <<g_result, original, chain, shown, outcome>>
    BY Zenon
  <2>7. TypeOK
    BY Zenon
  <2> QED BY <2>1, <2>2, <2>3, <2>4, <2>5, <2>6, <2>7, Zenon DEF TypeOK
<1>4. WorkerMatchesScreen'
  <2>1. \A s \in Tasks : s # session' => workers'[s] \in {"none", "done"}
    BY <1>1, <1>2 DEF WorkerMatchesScreen, TypeOK
  <2> QED BY <1>1, <1>2, <2>1 DEF WorkerMatchesScreen, Tasks
<1>5. ChainMatchesWorker'
  BY <1>1, <1>2 DEF ChainMatchesWorker
<1>6. ResultMatchesOutcome'
  BY <1>1, <1>2 DEF ResultMatchesOutcome
<1> QED BY <1>3, <1>4, <1>5, <1>6

LEMMA PressButtonPreserves ==
  ASSUME IInv, PressButton
  PROVE  IInv'
<1> USE DEF IInv, PressButton, progressVars
<1>1. TypeOK'
  BY DEF TypeOK
<1>2. WorkerMatchesScreen'
  BY DEF WorkerMatchesScreen, TypeOK
<1>3. ChainMatchesWorker'
  BY DEF ChainMatchesWorker
<1>4. ResultMatchesOutcome'
  BY DEF ResultMatchesOutcome
<1> QED BY <1>1, <1>2, <1>3, <1>4

\* The steps of the interface that change its screen and nothing of the operations.
LEMMA ScreenChangePreserves ==
  ASSUME IInv, screen # "ended", screen # "progress", screen' \in {"main", "settings", "ended"},
         UNCHANGED <<session, button, code, g_result, workers, original, progressVars,
                     outcome>>
  PROVE  IInv'
<1> USE DEF IInv, progressVars
<1>1. TypeOK'
  BY DEF TypeOK
<1>2. WorkerMatchesScreen'
  BY DEF WorkerMatchesScreen
<1>3. ChainMatchesWorker'
  BY DEF ChainMatchesWorker
<1>4. ResultMatchesOutcome'
  BY DEF ResultMatchesOutcome
<1> QED BY <1>1, <1>2, <1>3, <1>4

LEMMA ApplySettingsPreserves ==
  ASSUME IInv, ApplySettings
  PROVE  IInv'
<1> USE DEF IInv, ApplySettings
<1>1. TypeOK'
  <2>1. chain' \in Chain
    BY DEF TypeOK, Chain, WithNewWiper
  <2> QED BY <2>1 DEF TypeOK
<1>2. WorkerMatchesScreen'
  BY DEF WorkerMatchesScreen
<1>3. ChainMatchesWorker'
  <2>1. session # 0 => workers[session] = "done"
    BY DEF WorkerMatchesScreen
  <2>2. /\ chain'.server_progress = chain.server_progress
        /\ chain'.core_progress = chain.core_progress
        /\ chain'.wiper_progress = chain.wiper_progress
    BY DEF TypeOK, Chain, WithNewWiper
  <2> QED BY <2>1, <2>2 DEF ChainMatchesWorker
<1>4. ResultMatchesOutcome'
  BY DEF ResultMatchesOutcome
<1> QED BY <1>1, <1>2, <1>3, <1>4

-----------------------------------------------------------------------------
(***************************************************************************)
(* The worker.                                                             *)
(***************************************************************************)
LEMMA BeginPreserves ==
  ASSUME IInv, screen # "ended", NEW s \in Tasks, Begin(s)
  PROVE  IInv'
<1> USE DEF Begin, Goto, windowVars
<1>1. s = session /\ screen = "progress" /\ ~ button
  BY WorkerIsCurrent
<1>2. workers' = [workers EXCEPT ![s] = "install"] /\ workers'[s] = "install"
  BY DEF IInv, TypeOK
<1> USE DEF IInv
<1>3. TypeOK'
  BY <1>2 DEF TypeOK
<1>4. WorkerMatchesScreen'
  BY <1>1, <1>2 DEF WorkerMatchesScreen, TypeOK
<1>5. ChainMatchesWorker'
  BY <1>1, <1>2 DEF ChainMatchesWorker
<1>6. ResultMatchesOutcome'
  BY <1>1, <1>2 DEF ResultMatchesOutcome
<1> QED BY <1>3, <1>4, <1>5, <1>6

LEMMA InstallPreserves ==
  ASSUME IInv, screen # "ended", NEW s \in Tasks, Install(s)
  PROVE  IInv'
<1> USE DialogAssumption DEF Install, Goto, windowVars
<1>1. s = session /\ screen = "progress" /\ ~ button
  BY WorkerIsCurrent
<1>2. workers' = [workers EXCEPT ![s] = "run"] /\ workers'[s] = "run"
  BY DEF IInv, TypeOK
<1> USE DEF IInv
<1>3. chain.server_progress = NoHandler
  BY <1>1 DEF ChainMatchesWorker
<1>4. TypeOK'
  <2>1. chain' \in Chain
    BY ChainIsTyped DEF TypeOK, Tasks, Target
  <2>2. original' \in [Tasks -> Target]
    BY <1>3 DEF TypeOK, Target
  <2> QED BY <1>2, <2>1, <2>2 DEF TypeOK
<1>5. WorkerMatchesScreen'
  BY <1>1, <1>2 DEF WorkerMatchesScreen, TypeOK
<1>6. ChainMatchesWorker'
  <2>1. original'[s] = NoHandler
    BY <1>3 DEF TypeOK
  <2>2. chain' = WithHandler(chain', s)
    BY DEF WithHandler
  <2> QED BY <1>1, <1>2, <2>1, <2>2 DEF ChainMatchesWorker, Tasks
<1>7. ResultMatchesOutcome'
  BY <1>1, <1>2 DEF ResultMatchesOutcome
<1> QED BY <1>4, <1>5, <1>6, <1>7

LEMMA TaskReportsPreserves ==
  ASSUME IInv, screen # "ended", NEW s \in Tasks, TaskReports(s)
  PROVE  IInv'
<1> USE DEF IInv, TaskReports, windowVars
<1>1. TypeOK'
  <2>1. Head(reports) \in Report /\ Tail(reports) \in Seq(Report)
    BY DEF TypeOK
  <2>2. Received(shown, Head(reports)) \in [size : Nat, processed : Nat]
    BY <2>1 DEF TypeOK, Received, Report
  <2> QED BY <2>1, <2>2 DEF TypeOK
<1>2. WorkerMatchesScreen'
  BY DEF WorkerMatchesScreen
<1>3. ChainMatchesWorker'
  BY DEF ChainMatchesWorker
<1>4. ResultMatchesOutcome'
  BY DEF ResultMatchesOutcome
<1> QED BY <1>1, <1>2, <1>3, <1>4

LEMMA TaskSucceedsPreserves ==
  ASSUME IInv, screen # "ended", NEW s \in Tasks, TaskSucceeds(s)
  PROVE  IInv'
<1> USE DEF TaskSucceeds, Goto, windowVars, progressVars
<1>1. s = session /\ screen = "progress" /\ ~ button
  BY WorkerIsCurrent
<1>2. /\ workers' = [workers EXCEPT ![s] = "restore"] /\ workers'[s] = "restore"
      /\ outcome'[s] = "done"
  BY DEF IInv, TypeOK
<1> USE DEF IInv
<1>3. TypeOK'
  BY <1>2 DEF TypeOK
<1>4. WorkerMatchesScreen'
  BY <1>1, <1>2 DEF WorkerMatchesScreen, TypeOK
<1>5. ChainMatchesWorker'
  BY <1>1, <1>2 DEF ChainMatchesWorker
<1>6. ResultMatchesOutcome'
  BY <1>1, <1>2 DEF ResultMatchesOutcome
<1> QED BY <1>3, <1>4, <1>5, <1>6

LEMMA TaskFailsPreserves ==
  ASSUME IInv, screen # "ended", NEW s \in Tasks, TaskFails(s)
  PROVE  IInv'
<1> USE DEF TaskFails, Goto, windowVars, progressVars
<1>1. s = session /\ screen = "progress" /\ ~ button
  BY WorkerIsCurrent
<1>2. /\ workers' = [workers EXCEPT ![s] = "message"] /\ workers'[s] = "message"
      /\ outcome'[s] = "failed"
  BY DEF IInv, TypeOK
<1> USE DEF IInv
<1>3. TypeOK'
  BY <1>2 DEF TypeOK
<1>4. WorkerMatchesScreen'
  BY <1>1, <1>2 DEF WorkerMatchesScreen, TypeOK
<1>5. ChainMatchesWorker'
  BY <1>1, <1>2 DEF ChainMatchesWorker
<1>6. ResultMatchesOutcome'
  BY <1>1, <1>2 DEF ResultMatchesOutcome
<1> QED BY <1>3, <1>4, <1>5, <1>6

LEMMA DismissPreserves ==
  ASSUME IInv, screen # "ended", NEW s \in Tasks, Dismiss(s)
  PROVE  IInv'
<1> USE DEF Dismiss, Goto, windowVars, progressVars
<1>1. s = session /\ screen = "progress" /\ ~ button
  BY WorkerIsCurrent
<1>2. workers' = [workers EXCEPT ![s] = "restore"] /\ workers'[s] = "restore"
  BY DEF IInv, TypeOK
<1> USE DEF IInv
<1>3. TypeOK'
  BY <1>2 DEF TypeOK
<1>4. WorkerMatchesScreen'
  BY <1>1, <1>2 DEF WorkerMatchesScreen, TypeOK
<1>5. ChainMatchesWorker'
  BY <1>1, <1>2 DEF ChainMatchesWorker
<1>6. ResultMatchesOutcome'
  BY <1>1, <1>2 DEF ResultMatchesOutcome
<1> QED BY <1>3, <1>4, <1>5, <1>6

LEMMA TerminatePreserves ==
  ASSUME IInv, NEW s \in Tasks, Terminate(s)
  PROVE  IInv'
<1> USE DEF IInv, Terminate, progressVars
<1>1. TypeOK'
  BY DEF TypeOK
<1>2. WorkerMatchesScreen'
  BY DEF WorkerMatchesScreen
<1>3. ChainMatchesWorker'
  BY DEF ChainMatchesWorker
<1>4. ResultMatchesOutcome'
  BY DEF ResultMatchesOutcome
<1> QED BY <1>1, <1>2, <1>3, <1>4

LEMMA RestorePreserves ==
  ASSUME IInv, screen # "ended", NEW s \in Tasks, Restore(s)
  PROVE  IInv'
<1> USE DEF Restore, Goto, windowVars
<1>1. s = session /\ screen = "progress" /\ ~ button
  BY WorkerIsCurrent
<1>2. workers' = [workers EXCEPT ![s] = "enable"] /\ workers'[s] = "enable"
  BY DEF IInv, TypeOK
<1> USE DEF IInv
<1>3. original[s] = NoHandler
  <2>1. s # 0
    BY DialogAssumption DEF Tasks
  <2> QED BY <1>1, <2>1 DEF ChainMatchesWorker
<1>4. TypeOK'
  <2>1. chain' \in Chain
    BY <1>3, ChainIsTyped DEF TypeOK, Target
  <2> QED BY <1>2, <2>1 DEF TypeOK
<1>5. WorkerMatchesScreen'
  BY <1>1, <1>2 DEF WorkerMatchesScreen, TypeOK
<1>6. ChainMatchesWorker'
  BY <1>1, <1>2, <1>3 DEF ChainMatchesWorker, WithHandler
<1>7. ResultMatchesOutcome'
  BY <1>1, <1>2 DEF ResultMatchesOutcome
<1> QED BY <1>4, <1>5, <1>6, <1>7

LEMMA EnablePreserves ==
  ASSUME IInv, screen # "ended", NEW s \in Tasks, Enable(s)
  PROVE  IInv'
<1> USE DEF Enable, Goto, progressVars
<1>1. s = session /\ screen = "progress" /\ ~ button
  BY WorkerIsCurrent
<1>2. workers' = [workers EXCEPT ![s] = "done"] /\ workers'[s] = "done" /\ button' = TRUE
  BY <1>1 DEF IInv, TypeOK
<1> USE DEF IInv
<1>3. TypeOK'
  BY <1>2 DEF TypeOK
<1>4. WorkerMatchesScreen'
  BY <1>1, <1>2 DEF WorkerMatchesScreen, TypeOK
<1>5. ChainMatchesWorker'
  BY <1>1, <1>2 DEF ChainMatchesWorker
<1>6. ResultMatchesOutcome'
  BY <1>1, <1>2 DEF ResultMatchesOutcome
<1> QED BY <1>3, <1>4, <1>5, <1>6

-----------------------------------------------------------------------------
(***************************************************************************)
(* The theorems.                                                           *)
(***************************************************************************)
LEMMA NextPreserves == IInv /\ [Next]_vars => IInv'
<1> SUFFICES ASSUME IInv, [Next]_vars PROVE IInv'
  OBVIOUS
<1>1. CASE UNCHANGED vars
  BY <1>1 DEF vars, windowVars, progressVars, IInv, TypeOK, WorkerMatchesScreen,
              ChainMatchesWorker, ResultMatchesOutcome
<1>2. CASE screen # "ended" /\ InterfaceStep
  <2>1. CASE OpenDialog
    BY <2>1, OpenDialogPreserves
  <2>2. CASE PressButton
    BY <2>2, PressButtonPreserves
  <2>3. CASE CloseRefused
    BY <2>3, <1>1 DEF CloseRefused
  <2>4. CASE HandlerReturns \/ OpenSettings \/ CloseSettings \/ CloseMain
    BY <2>4, ScreenChangePreserves DEF HandlerReturns, OpenSettings, CloseSettings, CloseMain
  <2>5. CASE ApplySettings
    BY <2>5, ApplySettingsPreserves
  <2> QED BY <1>2, <2>1, <2>2, <2>3, <2>4, <2>5 DEF InterfaceStep
<1>3. CASE screen # "ended" /\ \E s \in Tasks : WorkerStep(s) \/ Dismiss(s)
  <2>1. PICK s \in Tasks : WorkerStep(s) \/ Dismiss(s)
    BY <1>3
  <2> QED BY <1>3, <2>1, BeginPreserves, InstallPreserves, TaskReportsPreserves,
             TaskSucceedsPreserves, TaskFailsPreserves, TerminatePreserves,
             RestorePreserves, EnablePreserves, DismissPreserves DEF WorkerStep
<1>4. CASE Ended
  BY <1>1, <1>4 DEF Ended
<1> QED BY <1>1, <1>2, <1>3, <1>4 DEF Next

\* What is known of the two threads at every moment (ProgressDialog.cpp:75-149).
THEOREM DialogInvariant == Spec => []IInv
<1> QED BY InitHolds, NextPreserves, PTL DEF Spec

\* The threads never meet in the kernel (ProgressDialog.cpp:75-125, 139).
THEOREM ThreadsNeverMeet == Spec => []OneThreadInKernel
<1>1. IInv => OneThreadInKernel
  BY WorkerIsCurrent DEF OneThreadInKernel, InKernel, Alive
<1> QED BY <1>1, DialogInvariant, PTL

\* The worker never uses a context that is gone (EncryptDialog.cpp:188-196, 230-237).
THEOREM ContextIsThere == Spec => []ContextOutlivesTask
<1>1. IInv => ContextOutlivesTask
  BY WorkerIsCurrent DEF ContextOutlivesTask, Alive
<1> QED BY <1>1, DialogInvariant, PTL

\* Nothing is reported to a dialog that is gone (ProgressDialog.cpp:81, 117).
THEOREM NoReportAfterDialog == Spec => []ReportsReachOpenDialog
<1>1. IInv => ReportsReachOpenDialog
  <2> SUFFICES ASSUME IInv, screen # "ended", NEW source \in Source
               PROVE  Reaches(chain, source) = NoHandler \/ Alive(Reaches(chain, source))
    BY DEF ReportsReachOpenDialog
  <2>1. CASE session # 0 /\ workers[session] \in {"run", "message", "restore"}
    <3>1. chain = WithHandler(chain, session)
      BY <2>1 DEF IInv, ChainMatchesWorker
    <3>2. Reaches(chain, source) = session
      BY <3>1 DEF Reaches, CoreReaches, CipherReaches, WiperReaches, WithHandler,
                 Source
    <3>3. Alive(session)
      BY <2>1, WorkerIsCurrent DEF IInv, TypeOK, Tasks, Alive
    <3> QED BY <3>2, <3>3
  <2>2. CASE ~ (session # 0 /\ workers[session] \in {"run", "message", "restore"})
    <3>1. /\ chain.server_progress = NoHandler
          /\ chain.core_progress = NoHandler
          /\ chain.wiper_progress = NoHandler
      BY <2>2 DEF IInv, ChainMatchesWorker
    <3> QED BY <3>1 DEF Reaches, CoreReaches, CipherReaches, WiperReaches, Source
  <2> QED BY <2>1, <2>2
<1> QED BY <1>1, DialogInvariant, PTL

\* Every part of the kernel reports to the dialog of the running operation
\* (ServerCommunicator.cpp:326-334, AbsoluteSecurityCore.cpp:114-120).
THEOREM NoPartIsSilent == Spec => []EverythingReports
<1>1. IInv => EverythingReports
  <2> SUFFICES ASSUME IInv, screen # "ended", NEW s \in Tasks, workers[s] = "run",
                      NEW source \in Source
               PROVE  Reaches(chain, source) = s
    BY DEF EverythingReports
  <2>1. s = session /\ s # 0
    BY WorkerIsCurrent, DialogAssumption DEF Tasks
  <2>2. chain = WithHandler(chain, s)
    BY <2>1 DEF IInv, ChainMatchesWorker
  <2> QED BY <2>2 DEF Reaches, CoreReaches, CipherReaches, WiperReaches, WithHandler,
                 Source
<1> QED BY <1>1, DialogInvariant, PTL

\* The result of a dialog is the final result of its own operation
\* (ProgressDialog.cpp:73-78, 102, 139).
THEOREM ResultIsFinal == Spec => []CodeIsOutcome
<1>1. IInv => CodeIsOutcome
  BY DEF IInv, WorkerMatchesScreen, ResultMatchesOutcome, CodeIsOutcome
<1> QED BY <1>1, DialogInvariant, PTL

-----------------------------------------------------------------------------
(***************************************************************************)
(* What fits into a progress bar.  A sequence of reports leads from one    *)
(* room, the size that is left, to another when each report can be counted *)
(* off, room by room; sequences are put together at equal rooms.           *)
(***************************************************************************)
CountsOff(report, before, after) ==
  IF report.kind = "started" THEN after = report.size
  ELSE after + report.size = before

LeadsTo(m, r, e) ==
  \E room \in [0..Len(r) -> Nat] :
    /\ room[0] = m /\ room[Len(r)] = e
    /\ \A i \in 1..Len(r) : CountsOff(r[i], room[i - 1], room[i])

LEMMA NothingLeads ==
  ASSUME NEW m \in Nat
  PROVE  LeadsTo(m, <<>>, m)
<1> DEFINE room == [i \in 0..0 |-> m]
<1>1. /\ room \in [0..Len(<<>>) -> Nat] /\ room[0] = m /\ room[Len(<<>>)] = m
      /\ 1..Len(<<>>) = {}
  OBVIOUS
<1> HIDE DEF room
<1> QED BY <1>1 DEF LeadsTo

LEMMA StartedLeads ==
  ASSUME NEW source, NEW m \in Nat, NEW n \in Nat
  PROVE  LeadsTo(m, Started(source, n), n)
<1> DEFINE r == Started(source, n)
           room == [i \in 0..1 |-> IF i = 0 THEN m ELSE n]
<1>1. Len(r) = 1 /\ r[1].kind = "started" /\ r[1].size = n
  BY DEF Started
<1>2. room \in [0..1 -> Nat] /\ room[0] = m /\ room[1] = n
  OBVIOUS
<1>3. \A i \in 1..1 : CountsOff(r[i], room[i - 1], room[i])
  <2>1. \A i \in 1..1 : i = 1 /\ i - 1 = 0
    OBVIOUS
  <2> HIDE DEF r, room
  <2> QED BY <1>1, <1>2, <2>1 DEF CountsOff
<1> HIDE DEF r, room
<1>4. LeadsTo(m, r, n)
  BY <1>1, <1>2, <1>3 DEF LeadsTo
<1> QED BY <1>4 DEF r

LEMMA PortionsLead ==
  ASSUME NEW source, NEW m \in Nat, NEW n \in 0..m
  PROVE  LeadsTo(m, Portions(source, n), m - n)
<1> DEFINE r == Portions(source, n)
           room == [i \in 0..n |-> m - i]
<1>1. /\ Len(r) = n
      /\ \A i \in 1..n : r[i].kind = "portion" /\ r[i].size = 1
  <2>1. r \in Seq({r[i] : i \in 1..n}) /\ DOMAIN r = 1..n
    BY DEF Portions
  <2>2. n \in Nat
    OBVIOUS
  <2>3. Len(r) = n
    BY <2>1, <2>2
  <2> QED BY <2>3 DEF Portions
<1>2. room \in [0..n -> Nat] /\ room[0] = m /\ room[n] = m - n
  OBVIOUS
<1>3. \A i \in 1..n : CountsOff(r[i], room[i - 1], room[i])
  <2>1. \A i \in 1..n : room[i] = m - i /\ room[i - 1] = m - (i - 1)
    OBVIOUS
  <2>2. \A i \in 1..n : (m - i) + 1 = m - (i - 1)
    OBVIOUS
  <2> HIDE DEF r, room
  <2> QED BY <1>1, <2>1, <2>2 DEF CountsOff
<1> HIDE DEF r, room
<1>4. LeadsTo(m, r, m - n)
  BY <1>1, <1>2, <1>3 DEF LeadsTo
<1> QED BY <1>4 DEF r

\* The portion of nothing that CopyFile reports in the end.
LEMMA EmptyPortionLeads ==
  ASSUME NEW source, NEW m \in Nat
  PROVE  LeadsTo(m, <<[source |-> source, kind |-> "portion", size |-> 0]>>, m)
<1> DEFINE r == <<[source |-> source, kind |-> "portion", size |-> 0]>>
           room == [i \in 0..1 |-> m]
<1>1. Len(r) = 1 /\ r[1].kind = "portion" /\ r[1].size = 0
  OBVIOUS
<1>2. room \in [0..1 -> Nat] /\ room[0] = m /\ room[1] = m
  OBVIOUS
<1>3. \A i \in 1..1 : CountsOff(r[i], room[i - 1], room[i])
  <2>1. \A i \in 1..1 : i = 1 /\ i - 1 = 0 /\ m + 0 = m
    OBVIOUS
  <2> HIDE DEF r, room
  <2> QED BY <1>1, <1>2, <2>1 DEF CountsOff
<1> HIDE DEF r, room
<1>4. LeadsTo(m, r, m)
  BY <1>1, <1>2, <1>3 DEF LeadsTo
<1> QED BY <1>4 DEF r

LEMMA LeadsOneAfterTheOther ==
  ASSUME NEW p \in Seq(Report), NEW q \in Seq(Report),
         NEW m \in Nat, NEW n \in Nat, NEW e \in Nat, LeadsTo(m, p, n), LeadsTo(n, q, e)
  PROVE  LeadsTo(m, p \o q, e)
<1>1. PICK first \in [0..Len(p) -> Nat] :
        /\ first[0] = m /\ first[Len(p)] = n
        /\ \A i \in 1..Len(p) : CountsOff(p[i], first[i - 1], first[i])
  BY DEF LeadsTo
<1>2. PICK second \in [0..Len(q) -> Nat] :
        /\ second[0] = n /\ second[Len(q)] = e
        /\ \A i \in 1..Len(q) : CountsOff(q[i], second[i - 1], second[i])
  BY DEF LeadsTo
<1> DEFINE r == p \o q
           room == [i \in 0..Len(r) |-> IF i <= Len(p) THEN first[i] ELSE second[i - Len(p)]]
<1>3. /\ Len(p) \in Nat /\ Len(q) \in Nat /\ Len(r) = Len(p) + Len(q)
      /\ \A i \in 1..Len(p) : r[i] = p[i]
      /\ \A i \in 1..Len(r) : i > Len(p) => r[i] = q[i - Len(p)]
  OBVIOUS
<1> HIDE DEF r
<1>4. /\ \A i \in 0..Len(p) : room[i] = first[i]
      /\ \A i \in 0..Len(r) : i > Len(p) => room[i] = second[i - Len(p)]
  BY <1>3
<1>5. room \in [0..Len(r) -> Nat]
  <2>1. \A i \in 0..Len(r) : i > Len(p) => i - Len(p) \in 0..Len(q)
    BY <1>3
  <2>2. \A i \in 0..Len(r) : i <= Len(p) => i \in 0..Len(p)
    BY <1>3
  <2>3. \A i \in 0..Len(r) : (IF i <= Len(p) THEN first[i] ELSE second[i - Len(p)]) \in Nat
    <3>1. \A j \in 0..Len(p) : first[j] \in Nat
      BY <1>1
    <3>2. \A j \in 0..Len(q) : second[j] \in Nat
      BY <1>2
    <3>3. \A i \in 0..Len(r) : i <= Len(p) \/ i > Len(p)
      BY <1>3
    <3> QED BY <2>1, <2>2, <3>1, <3>2, <3>3
  <2> QED BY <2>3
<1>6. room[0] = m /\ room[Len(r)] = e
  <2>1. room[0] = m
    BY <1>1, <1>3, <1>4
  <2>2. CASE Len(q) = 0
    <3>1. Len(r) = Len(p) /\ n = e
      BY <1>2, <1>3, <2>2
    <3> QED BY <1>1, <1>3, <1>4, <2>1, <3>1
  <2>3. CASE Len(q) # 0
    <3>1. Len(r) > Len(p) /\ Len(r) - Len(p) = Len(q) /\ Len(r) \in 0..Len(r)
      BY <1>3, <2>3
    <3> QED BY <1>2, <1>4, <2>1, <3>1
  <2> QED BY <2>2, <2>3
<1>7. ASSUME NEW i \in 1..Len(r) PROVE CountsOff(r[i], room[i - 1], room[i])
  <2>1. CASE i <= Len(p)
    <3>1. i \in 1..Len(p) /\ i \in 0..Len(p) /\ i - 1 \in 0..Len(p)
      BY <1>3, <2>1
    <3> HIDE DEF room
    <3> QED BY <1>1, <1>3, <1>4, <3>1
  <2>2. CASE i = Len(p) + 1
    <3>1. /\ i - Len(p) = 1 /\ 1 \in 1..Len(q) /\ i - 1 = Len(p) /\ 1 - 1 = 0
          /\ i > Len(p) /\ i \in 0..Len(r) /\ Len(p) \in 0..Len(p)
      BY <1>3, <2>2
    <3>2. r[i] = q[1] /\ room[i] = second[1] /\ room[i - 1] = n
      <4> HIDE DEF room
      <4> QED BY <1>1, <1>3, <1>4, <3>1
    <3>3. CountsOff(q[1], second[0], second[1])
      BY <1>2, <3>1
    <3> HIDE DEF room
    <3> QED BY <1>2, <3>2, <3>3
  <2>3. CASE i > Len(p) + 1
    <3>1. /\ i - Len(p) \in 1..Len(q) /\ (i - 1) - Len(p) = (i - Len(p)) - 1
          /\ i > Len(p) /\ i - 1 > Len(p) /\ i \in 0..Len(r) /\ i - 1 \in 0..Len(r)
      BY <1>3, <2>3
    <3>2. /\ r[i] = q[i - Len(p)] /\ room[i] = second[i - Len(p)]
          /\ room[i - 1] = second[(i - Len(p)) - 1]
      <4> HIDE DEF room
      <4> QED BY <1>3, <1>4, <3>1
    <3> HIDE DEF room
    <3> QED BY <1>2, <3>1, <3>2
  <2> QED BY <1>3, <2>1, <2>2, <2>3
<1>8. LeadsTo(m, r, e)
  <2> HIDE DEF room
  <2> QED BY <1>5, <1>6, <1>7 DEF LeadsTo
<1> QED BY <1>8 DEF r

\* The first report of a sequence takes the room it needs, and the others lead on.
LEMMA TailLeads ==
  ASSUME NEW r \in Seq(Report), r # <<>>, NEW m \in Nat, NEW e \in Nat, LeadsTo(m, r, e)
  PROVE  \E n \in Nat : CountsOff(Head(r), m, n) /\ LeadsTo(n, Tail(r), e)
<1>1. PICK room \in [0..Len(r) -> Nat] :
        /\ room[0] = m /\ room[Len(r)] = e
        /\ \A i \in 1..Len(r) : CountsOff(r[i], room[i - 1], room[i])
  BY DEF LeadsTo
<1> DEFINE q == Tail(r)
           rest == [i \in 0..Len(q) |-> room[i + 1]]
<1>2. /\ Len(r) \in Nat \ {0} /\ Len(q) = Len(r) - 1 /\ Head(r) = r[1]
      /\ \A i \in 1..Len(q) : q[i] = r[i + 1]
  OBVIOUS
<1> HIDE DEF q
<1>3. room[1] \in Nat /\ CountsOff(Head(r), m, room[1])
  <2>1. 1 \in 1..Len(r) /\ 1 \in 0..Len(r) /\ 1 - 1 = 0
    BY <1>2
  <2>2. CountsOff(r[1], room[1 - 1], room[1])
    BY <1>1, <2>1
  <2> QED BY <1>1, <1>2, <2>1, <2>2
<1>4. rest \in [0..Len(q) -> Nat]
  <2>1. \A i \in 0..Len(q) : i + 1 \in 0..Len(r)
    BY <1>2
  <2> QED BY <1>1, <2>1
<1>5. rest[0] = room[1] /\ rest[Len(q)] = e
  <2>1. 0 \in 0..Len(q) /\ Len(q) \in 0..Len(q) /\ Len(q) + 1 = Len(r) /\ 0 + 1 = 1
    BY <1>2
  <2> QED BY <1>1, <2>1
<1>6. ASSUME NEW i \in 1..Len(q) PROVE CountsOff(q[i], rest[i - 1], rest[i])
  <2>1. /\ i + 1 \in 1..Len(r) /\ (i + 1) - 1 = i /\ (i - 1) + 1 = i
        /\ i \in 0..Len(q) /\ i - 1 \in 0..Len(q)
    BY <1>2
  <2>2. rest[i] = room[i + 1] /\ rest[i - 1] = room[i]
    BY <2>1
  <2>3. CountsOff(r[i + 1], room[(i + 1) - 1], room[i + 1])
    BY <1>1, <2>1
  <2> HIDE DEF rest
  <2> QED BY <1>2, <2>1, <2>2, <2>3
<1>7. LeadsTo(room[1], q, e)
  <2> HIDE DEF rest
  <2> QED BY <1>4, <1>5, <1>6 DEF LeadsTo
<1> QED BY <1>3, <1>7 DEF q

\* A sequence of reports that fits into the room m and leaves the room e.
Fits(m, r, e) == m \in Nat /\ e \in Nat /\ r \in Seq(Report) /\ LeadsTo(m, r, e)

LEMMA FitsOneAfterTheOther ==
  ASSUME NEW p, NEW q, NEW m, NEW n, NEW e, Fits(m, p, n), Fits(n, q, e)
  PROVE  Fits(m, p \o q, e)
<1>1. p \in Seq(Report) /\ q \in Seq(Report) /\ m \in Nat /\ n \in Nat /\ e \in Nat
      /\ LeadsTo(m, p, n) /\ LeadsTo(n, q, e)
  BY DEF Fits
<1>2. p \o q \in Seq(Report)
  BY <1>1
<1>3. LeadsTo(m, p \o q, e)
  BY <1>1, LeadsOneAfterTheOther
<1> QED BY <1>1, <1>2, <1>3 DEF Fits

LEMMA StartedFits ==
  ASSUME NEW source \in Source, NEW m \in Nat, NEW n \in Nat
  PROVE  Fits(m, Started(source, n), n)
<1>1. Started(source, n) \in Seq(Report)
  BY DEF Started, Report, Source
<1> QED BY <1>1, StartedLeads DEF Fits

LEMMA PortionsFit ==
  ASSUME NEW source \in Source, NEW m \in Nat, NEW n \in 0..m
  PROVE  Fits(m, Portions(source, n), m - n)
<1>1. Portions(source, n) \in [1..n -> Report] /\ n \in Nat /\ m - n \in Nat
  BY DEF Portions, Report, Source
<1>2. Portions(source, n) \in Seq(Report)
  BY <1>1
<1> QED BY <1>1, <1>2, PortionsLead DEF Fits

\* What a call reports fits, whatever room there was before.
LEMMA CallReportsFit ==
  ASSUME NEW n \in Nat, NEW r \in CallReports(n), NEW m \in Nat
  PROVE  \E e \in Nat : LeadsTo(m, r, e)
<1>0. {"server", "core", "cipher", "wiper"} = Source /\ 0 \in Nat /\ n \in 0..n /\ n - n = 0
      /\ 0 \in 0..n /\ n - 0 = n
  BY DEF Source
<1>1. \A source \in Source : \A x \in Nat : Fits(x, Started(source, n), n)
  BY StartedFits
<1>2. \A source \in Source : Fits(n, Portions(source, n), 0)
  BY <1>0, PortionsFit
<1>3. \A x \in Nat : Fits(x, BackupReports(n), 0)
  <2> SUFFICES ASSUME NEW x \in Nat PROVE Fits(x, BackupReports(n), 0)
    OBVIOUS
  <2>1. Fits(x, Started("server", n), n) /\ Fits(n, Portions("server", n), 0)
    BY <1>0, <1>1, <1>2
  <2>2. Fits(x, Started("server", n) \o Portions("server", n), 0)
    BY <2>1, FitsOneAfterTheOther
  <2>3. Fits(0, <<[source |-> "server", kind |-> "portion", size |-> 0]>>, 0)
    <3>1. <<[source |-> "server", kind |-> "portion", size |-> 0]>> \in Seq(Report)
      BY DEF Report, Source
    <3> QED BY <1>0, <3>1, EmptyPortionLeads DEF Fits
  <2> QED BY <2>2, <2>3, FitsOneAfterTheOther DEF BackupReports
<1>4. Fits(m, BackupReports(n) \o Started("server", n) \o Started("core", 0)
                \o Started("core", n), n)
  <2>1. Fits(m, BackupReports(n), 0)
    BY <1>3
  <2>2. Fits(m, BackupReports(n) \o Started("server", n), n)
    BY <1>0, <1>1, <2>1, FitsOneAfterTheOther
  <2>3. Fits(n, Started("core", 0), 0)
    BY <1>0, StartedFits
  <2>4. Fits(m, BackupReports(n) \o Started("server", n) \o Started("core", 0), 0)
    BY <2>2, <2>3, FitsOneAfterTheOther
  <2>5. Fits(0, Started("core", n), n)
    BY <1>0, <1>1
  <2> QED BY <2>4, <2>5, FitsOneAfterTheOther
<1> DEFINE head == BackupReports(n) \o Started("server", n) \o Started("core", 0)
                     \o Started("core", n)
<1>5. ASSUME NEW wiped \in {0, n} PROVE Fits(m, EncryptReports(n, wiped), n - wiped)
  <2>1. Fits(m, head \o Portions("core", n), 0)
    BY <1>0, <1>2, <1>4, FitsOneAfterTheOther
  <2>2. Fits(m, head \o Portions("core", n) \o Started("core", n), n)
    <3> HIDE DEF head
    <3> QED BY <1>0, <1>1, <2>1, FitsOneAfterTheOther
  <2>3. Fits(m, head \o Portions("core", n) \o Started("core", n)
                  \o Portions("cipher", n), 0)
    <3> HIDE DEF head
    <3> QED BY <1>0, <1>2, <2>2, FitsOneAfterTheOther
  <2>4. Fits(m, head \o Portions("core", n) \o Started("core", n)
                  \o Portions("cipher", n) \o Started("server", n), n)
    <3> HIDE DEF head
    <3> QED BY <1>0, <1>1, <2>3, FitsOneAfterTheOther
  <2>5. Fits(n, Portions("wiper", wiped), n - wiped)
    <3>1. wiped \in 0..n
      BY <1>0
    <3> QED BY <1>0, <3>1, PortionsFit
  <2>6. Fits(m, head \o Portions("core", n) \o Started("core", n)
                  \o Portions("cipher", n) \o Started("server", n)
                  \o Portions("wiper", wiped), n - wiped)
    <3> HIDE DEF head
    <3> QED BY <2>4, <2>5, FitsOneAfterTheOther
  <2> QED BY <2>6, Zenon DEF EncryptReports, head
<1>6. Fits(m, DecryptReports(n), n)
  <2>1. Fits(m, head \o Portions("cipher", n), 0)
    BY <1>0, <1>2, <1>4, FitsOneAfterTheOther
  <2>2. Fits(m, head \o Portions("cipher", n) \o Started("core", n), n)
    <3> HIDE DEF head
    <3> QED BY <1>0, <1>1, <2>1, FitsOneAfterTheOther
  <2>3. Fits(m, head \o Portions("cipher", n) \o Started("core", n)
                  \o Started("server", n), n)
    <3> HIDE DEF head
    <3> QED BY <1>0, <1>1, <2>2, FitsOneAfterTheOther
  <2> QED BY <2>3, Zenon DEF DecryptReports, head
<1>7. r = EncryptReports(n, 0) \/ r = EncryptReports(n, n) \/ r = DecryptReports(n)
  BY Zenon DEF CallReports
<1> QED BY <1>5, <1>6, <1>7 DEF Fits

-----------------------------------------------------------------------------
(***************************************************************************)
(* The bar of the dialog: what is still to be reported fits into the room  *)
(* that is left, from the moment the worker has opened the handler.        *)
(***************************************************************************)
ReportsFit ==
  /\ shown.processed <= shown.size
  /\ \A s \in Tasks :
       /\ screen # "ended" /\ workers[s] = "begin" =>
            \E e \in Nat : LeadsTo(0, reports, e)
       /\ screen # "ended" /\ workers[s] \in {"install", "run"} =>
            \E e \in Nat : LeadsTo(shown.size - shown.processed, reports, e)

LEMMA InitReportsFit == Init => ReportsFit
BY DEF Init, ReportsFit

\* A report is counted in the room there is for it.
LEMMA ReportReceived ==
  ASSUME NEW p \in [size : Nat, processed : Nat], p.processed <= p.size,
         NEW report \in Report, NEW n \in Nat,
         CountsOff(report, p.size - p.processed, n)
  PROVE  /\ Received(p, report).processed <= Received(p, report).size
         /\ Received(p, report).size - Received(p, report).processed = n
<1>1. CASE report.kind = "started"
  BY <1>1 DEF CountsOff, Received, Report
<1>2. CASE report.kind # "started"
  <2>1. /\ Received(p, report).size = p.size
        /\ Received(p, report).processed = p.processed + report.size
    BY <1>2 DEF Received
  <2>2. n + report.size = p.size - p.processed
    BY <1>2 DEF CountsOff
  <2>3. report.size \in Nat /\ p.size \in Nat /\ p.processed \in Nat
    BY DEF Report
  <2> QED BY <2>1, <2>2, <2>3
<1> QED BY <1>1, <1>2

\* The steps that leave the reports and the bar alone, and let no worker get to work.
LEMMA BarStays ==
  ASSUME ReportsFit, UNCHANGED <<reports, shown>>, screen # "ended",
         \A s \in Tasks : workers'[s] \in {"begin", "install", "run"} =>
           \/ workers'[s] = workers[s]
           \/ workers[s] = "install" /\ workers'[s] = "run"
  PROVE  ReportsFit'
BY DEF ReportsFit

LEMMA NextFits ==
  ASSUME IInv, IInv', ReportsFit, [Next]_vars
  PROVE  ReportsFit'
<1>1. CASE UNCHANGED vars
  BY <1>1 DEF vars, windowVars, progressVars, ReportsFit
<1>2. CASE screen # "ended" /\ OpenDialog
  <2>1. /\ shown' = shown /\ session + 1 \in Tasks
        /\ workers' = [workers EXCEPT ![session + 1] = "begin"]
    BY <1>2, DialogAssumption DEF OpenDialog, Goto, IInv, TypeOK, Tasks
  <2>2. \A s \in Tasks : s # session + 1 => workers'[s] \in {"none", "done"}
    BY <1>2, <2>1 DEF IInv, TypeOK, WorkerMatchesScreen, OpenDialog
  <2>3. workers'[session + 1] = "begin"
    BY <2>1 DEF IInv, TypeOK
  <2>4. \E e \in Nat : LeadsTo(0, reports', e)
    <3>1. PICK n \in Sizes : reports' \in CallReports(n)
      BY <1>2, Zenon DEF OpenDialog
    <3> QED BY <3>1, DialogAssumption, CallReportsFit
  <2> QED BY <2>1, <2>2, <2>3, <2>4 DEF ReportsFit
<1>3. CASE screen # "ended" /\ InterfaceStep /\ ~ OpenDialog
  <2>1. UNCHANGED <<reports, shown, workers>>
    BY <1>3 DEF InterfaceStep, PressButton, CloseRefused, HandlerReturns, OpenSettings,
               ApplySettings, CloseSettings, CloseMain, vars, progressVars
  <2> QED BY <1>3, <2>1, BarStays
<1>4. ASSUME screen # "ended", NEW s \in Tasks, WorkerStep(s) \/ Dismiss(s)
      PROVE  ReportsFit'
  <2>1. CASE Begin(s)
    <3>1. /\ shown' = [size |-> 0, processed |-> 0] /\ reports' = reports
          /\ workers' = [workers EXCEPT ![s] = "install"] /\ workers[s] = "begin"
      BY <2>1 DEF Begin, Goto
    <3>2. shown'.size - shown'.processed = 0 /\ shown'.processed <= shown'.size
      BY <3>1
    <3>3. \E e \in Nat : LeadsTo(0, reports, e)
      BY <1>4, <3>1 DEF ReportsFit
    <3>4. \A r \in Tasks : r # s => workers'[r] \in {"none", "done"}
      BY <1>4, <2>1, <3>1, WorkerIsCurrent DEF IInv, WorkerMatchesScreen, TypeOK
    <3>5. workers'[s] = "install"
      BY <3>1 DEF IInv, TypeOK
    <3> QED BY <3>1, <3>2, <3>3, <3>4, <3>5 DEF ReportsFit
  <2>2. CASE TaskReports(s)
    <3>1. /\ workers[s] = "run" /\ reports # <<>> /\ reports' = Tail(reports)
          /\ workers' = workers /\ screen' = screen
      BY <2>2 DEF TaskReports, windowVars
    <3>2. Head(reports) \in Report /\ reports \in Seq(Report)
      BY <3>1 DEF IInv, TypeOK
    <3>3. shown' = Received(shown, Head(reports))
      <4>1. Reaches(chain, Head(reports).source) = s
        <5>1. Head(reports).source \in Source
          BY <3>2 DEF Report
        <5>2. s = session /\ s # 0
          BY <1>4, <3>1, WorkerIsCurrent, DialogAssumption DEF Tasks
        <5>3. chain = WithHandler(chain, s)
          BY <1>4, <3>1, <5>2 DEF IInv, ChainMatchesWorker
        <5> QED BY <5>1, <5>3 DEF Reaches, CoreReaches, CipherReaches, WiperReaches,
                                  WithHandler, Source
      <4> QED BY <2>2, <4>1 DEF TaskReports
    <3>4. /\ shown \in [size : Nat, processed : Nat] /\ shown.processed <= shown.size
          /\ shown.size - shown.processed \in Nat
      BY DEF IInv, TypeOK, ReportsFit
    <3>5. PICK e \in Nat : LeadsTo(shown.size - shown.processed, reports, e)
      BY <1>4, <3>1 DEF ReportsFit
    <3>6. PICK n \in Nat : /\ CountsOff(Head(reports), shown.size - shown.processed, n)
                           /\ LeadsTo(n, Tail(reports), e)
      BY <3>1, <3>2, <3>4, <3>5, TailLeads
    <3>7. shown'.processed <= shown'.size /\ shown'.size - shown'.processed = n
      BY <3>2, <3>3, <3>4, <3>6, ReportReceived
    <3>8. \A r \in Tasks : workers'[r] # "begin"
      BY <1>4, <3>1, WorkerIsCurrent
    <3> QED BY <3>1, <3>6, <3>7, <3>8 DEF ReportsFit
  <2>3. CASE Install(s) \/ TaskSucceeds(s) \/ TaskFails(s) \/ Dismiss(s) \/ Restore(s)
               \/ Enable(s)
    <3>1. UNCHANGED <<reports, shown>>
      BY <2>3 DEF Install, TaskSucceeds, TaskFails, Dismiss, Restore, Enable, progressVars
    <3>2. PICK w : /\ workers' = [workers EXCEPT ![s] = w]
                   /\ w \in {"begin", "install", "run"} => workers[s] = "install" /\ w = "run"
      BY <2>3 DEF Install, TaskSucceeds, TaskFails, Dismiss, Restore, Enable, Goto
    <3>3. \A r \in Tasks : workers'[r] = IF r = s THEN w ELSE workers[r]
      BY <3>2 DEF IInv, TypeOK
    <3> QED BY <1>4, <3>1, <3>2, <3>3, BarStays
  <2>4. CASE Terminate(s)
    BY <2>4 DEF Terminate, progressVars, ReportsFit
  <2> QED BY <1>4, <2>1, <2>2, <2>3, <2>4 DEF WorkerStep
<1>5. CASE Ended
  BY <1>1, <1>5 DEF Ended
<1> QED BY <1>1, <1>2, <1>3, <1>4, <1>5 DEF Next

\* The bar never shows more than the size of what runs, through all the operations that a
\* call announces, for files of any size (ProgressDialog.cpp:29-33, 49-69;
\* ServerCommunicator.cpp:217-238, AbsoluteSecurityCore.cpp:72-103).
THEOREM BarIsLargeEnough == Spec => []ProgressFits
<1>1. Init => ReportsFit
  BY InitReportsFit
<1>2. IInv /\ IInv' /\ ReportsFit /\ [Next]_vars => ReportsFit'
  BY NextFits
<1>3. ReportsFit => ProgressFits
  BY DEF ReportsFit, ProgressFits
<1> QED BY <1>1, <1>2, <1>3, DialogInvariant, PTL DEF Spec
=============================================================================
