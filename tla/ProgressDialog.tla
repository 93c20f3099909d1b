--------------------------- MODULE ProgressDialog ---------------------------
(***************************************************************************)
(* The progress dialog.  The thread of the user interface opens it for     *)
(* every file operation; opening it starts a detached worker thread, which *)
(* installs the dialog as the kernel's progress handler, runs the          *)
(* operation, puts the previous handler back and enables the dialog's      *)
(* button.  The button ends the dialog with what the worker has left in    *)
(* the global g_result.  Nothing but the button's state keeps the two      *)
(* threads apart: the worker uses objects in the stack frame that opened   *)
(* the dialog, and the kernel serves one thread at a time.                 *)
(*                                                                         *)
(* A dialog, its worker and its progress handler have one number, that of  *)
(* the operation.                                                          *)
(***************************************************************************)
EXTENDS ProgressChain

CONSTANTS
  MaxTasks,  \* bound: how many operations are begun
  Sizes      \* the sizes of files, in portions

ASSUME DialogAssumption == /\ MaxTasks \in Nat
                           /\ Handler = 1..MaxTasks
                           /\ Sizes \subseteq Nat

Tasks == 1..MaxTasks

VARIABLES
  screen,    \* what the thread of the user interface runs
  session,   \* how many progress dialogs were opened; the last one's number
  button,    \* is the button of the last dialog enabled?
  g_result,  \* the global of that name
  code,      \* what DialogBoxParamW returned for the last dialog
  workers,   \* what the worker of each operation does next
  original,  \* the handler that each worker has replaced
  chain,     \* the kernel's progress chain
  reports,   \* what the running operation has still to report
  shown,     \* operation_size and overall_processed of the last dialog's handler
  outcome    \* history: how each operation ended

windowVars == <<screen, session, button, code>>
progressVars == <<chain, reports, shown>>
vars == <<windowVars, g_result, workers, original, progressVars, outcome>>

Goto(s, step) == workers' = [workers EXCEPT ![s] = step]

Init ==
  /\ screen = "main"
  /\ session = 0
  /\ button = FALSE
  /\ g_result = "IDOK"
  /\ code = "none"
  /\ workers = [s \in Tasks |-> "none"]
  /\ original = [s \in Tasks |-> NoHandler]
  /\ chain = NewChain
  /\ reports = <<>>
  /\ shown = [size |-> 0, processed |-> 0]
  /\ outcome = [s \in Tasks |-> "none"]

-----------------------------------------------------------------------------
(***************************************************************************)
(* The thread of the user interface.                                       *)
(***************************************************************************)
\* A mutation of OpenDialog: the button is enabled from the start.
OpenDialogEnabled ==
  /\ screen = "main"
  /\ session < MaxTasks
  /\ session' = session + 1
  /\ screen' = "progress"
  /\ button' = TRUE
  /\ code' = "none"
  /\ Goto(session + 1, "begin")
  /\ \E n \in Sizes : reports' \in CallReports(n)
  /\ UNCHANGED <<g_result, original, chain, shown, outcome>>

\* The encrypt or the decrypt button of the main dialog: the dialog opens with its
\* button disabled, and OnInitDialog starts the worker.
OpenDialog ==
  /\ screen = "main"
  /\ session < MaxTasks
  /\ session' = session + 1
  /\ screen' = "progress"
  /\ button' = FALSE
  /\ code' = "none"
  /\ Goto(session + 1, "begin")
  /\ \E n \in Sizes : reports' \in CallReports(n)
  /\ UNCHANGED <<g_result, original, chain, shown, outcome>>

\* The button of the progress dialog.
PressButton ==
  /\ screen = "progress"
  /\ button
  /\ code' = g_result
  /\ screen' = "handler"
  /\ UNCHANGED <<session, button, g_result, workers, original, progressVars, outcome>>

\* OnClose: the dialog has no other way out than its button.
CloseRefused == screen = "progress" /\ UNCHANGED vars

\* The handler of the main dialog's button goes on; after IDOK it asks the kernel for
\* the state of the file.  When it returns, the operation's context is gone.
HandlerReturns ==
  /\ screen = "handler"
  /\ screen' = "main"
  /\ UNCHANGED <<session, button, code, g_result, workers, original, progressVars, outcome>>

OpenSettings ==
  /\ screen = "main"
  /\ screen' = "settings"
  /\ UNCHANGED <<session, button, code, g_result, workers, original, progressVars, outcome>>

\* The settings are applied; the dialog stays open when the second of them fails.
ApplySettings ==
  /\ screen = "settings"
  /\ chain' = WithNewWiper(chain)
  /\ screen' \in {"main", "settings"}
  /\ UNCHANGED <<session, button, code, g_result, workers, original, reports, shown, outcome>>

CloseSettings ==
  /\ screen = "settings"
  /\ screen' = "main"
  /\ UNCHANGED <<session, button, code, g_result, workers, original, progressVars, outcome>>

\* The main window is closed, and with it the program.
CloseMain ==
  /\ screen = "main"
  /\ screen' = "ended"
  /\ UNCHANGED <<session, button, code, g_result, workers, original, progressVars, outcome>>

-----------------------------------------------------------------------------
(***************************************************************************)
(* The worker of operation s: ExecuteTask.                                 *)
(***************************************************************************)
\* A mutation of Begin: g_result keeps the result of the previous operation.
BeginWithOldResult(s) ==
  /\ workers[s] = "begin"
  /\ shown' = [size |-> 0, processed |-> 0]
  /\ Goto(s, "install")
  /\ UNCHANGED <<windowVars, g_result, original, chain, reports, outcome>>

Begin(s) ==
  /\ workers[s] = "begin"
  /\ g_result' = "IDOK"
  /\ shown' = [size |-> 0, processed |-> 0]
  /\ Goto(s, "install")
  /\ UNCHANGED <<windowVars, original, chain, reports, outcome>>

Install(s) ==
  /\ workers[s] = "install"
  /\ original' = [original EXCEPT ![s] = chain.server_progress]
  /\ chain' = WithHandler(chain, s)
  /\ Goto(s, "run")
  /\ UNCHANGED <<windowVars, g_result, reports, shown, outcome>>

\* A mutation of Received: an operation that starts does not reset what was processed.
ReceivedWithoutReset(progress, report) ==
  IF report.kind = "started" THEN [progress EXCEPT !.size = report.size]
  ELSE [progress EXCEPT !.processed = @ + report.size]

\* IOperationStarted and IOperationProgress of the dialog's handler.
Received(progress, report) ==
  IF report.kind = "started" THEN [size |-> report.size, processed |-> 0]
  ELSE [progress EXCEPT !.processed = @ + report.size]

TaskReports(s) ==
  /\ workers[s] = "run"
  /\ reports # <<>>
  /\ shown' = IF Reaches(chain, Head(reports).source) = s
              THEN Received(shown, Head(reports)) ELSE shown
  /\ reports' = Tail(reports)
  /\ UNCHANGED <<windowVars, g_result, workers, original, chain, outcome>>

TaskSucceeds(s) ==
  /\ workers[s] = "run"
  /\ reports = <<>>
  /\ outcome' = [outcome EXCEPT ![s] = "done"]
  /\ Goto(s, "restore")
  /\ UNCHANGED <<windowVars, g_result, original, progressVars>>

\* A UserReport: the worker shows it in a message box of its own.
TaskFails(s) ==
  /\ workers[s] = "run"
  /\ g_result' = "IDCANCEL"
  /\ outcome' = [outcome EXCEPT ![s] = "failed"]
  /\ Goto(s, "message")
  /\ UNCHANGED <<windowVars, original, progressVars>>

\* The user dismisses the message box.
Dismiss(s) ==
  /\ workers[s] = "message"
  /\ Goto(s, "restore")
  /\ UNCHANGED <<windowVars, g_result, original, progressVars, outcome>>

\* An exception that nobody catches on the worker ends the process: one that is not a
\* UserReport out of the operation, or any at all while a handler is set.
Terminate(s) ==
  /\ workers[s] \in {"install", "run", "restore"}
  /\ screen' = "ended"
  /\ UNCHANGED <<session, button, code, g_result, workers, original, progressVars, outcome>>

\* Mutations of Restore: the handler stays, and a failed operation returns early.
RestoreForgotten(s) ==
  /\ workers[s] = "restore"
  /\ Goto(s, "enable")
  /\ UNCHANGED <<windowVars, g_result, original, progressVars, outcome>>

RestoreReturnsOnFailure(s) ==
  /\ workers[s] = "restore"
  /\ chain' = WithHandler(chain, original[s])
  /\ Goto(s, IF outcome[s] = "failed" THEN "done" ELSE "enable")
  /\ UNCHANGED <<windowVars, g_result, original, reports, shown, outcome>>

Restore(s) ==
  /\ workers[s] = "restore"
  /\ chain' = WithHandler(chain, original[s])
  /\ Goto(s, "enable")
  /\ UNCHANGED <<windowVars, g_result, original, reports, shown, outcome>>

\* A mutation of Enable: the button is enabled before the handler is put back.
EnableEarly(s) ==
  /\ workers[s] \in {"restore", "enable"}
  /\ button' = (button \/ s = session)
  /\ workers' = [workers EXCEPT ![s] = IF @ = "enable" THEN "done" ELSE @]
  /\ UNCHANGED <<screen, session, code, g_result, original, progressVars, outcome>>

\* The last thing a worker does, to the button of its own dialog.
Enable(s) ==
  /\ workers[s] = "enable"
  /\ button' = (button \/ s = session)
  /\ Goto(s, "done")
  /\ UNCHANGED <<screen, session, code, g_result, original, progressVars, outcome>>

-----------------------------------------------------------------------------
\* The process has ended.
Ended == screen = "ended" /\ UNCHANGED vars

InterfaceStep == OpenDialog \/ PressButton \/ CloseRefused \/ HandlerReturns
                   \/ OpenSettings \/ ApplySettings \/ CloseSettings \/ CloseMain

WorkerStep(s) == \/ Begin(s) \/ Install(s)
                 \/ TaskReports(s) \/ TaskSucceeds(s) \/ TaskFails(s) \/ Terminate(s)
                 \/ Restore(s) \/ Enable(s)

Next == \/ /\ screen # "ended"
           /\ \/ InterfaceStep
              \/ \E s \in Tasks : WorkerStep(s) \/ Dismiss(s)
        \/ Ended

Spec == Init /\ [][Next]_vars

\* Every worker is scheduled while the process runs; nothing is assumed of the user.
FairSpec == /\ Spec
            /\ \A s \in Tasks : WF_vars(screen # "ended" /\ WorkerStep(s))

-----------------------------------------------------------------------------
\* The types of the variables.
TypeOK ==
  /\ screen \in {"main", "settings", "progress", "handler", "ended"}
  /\ session \in 0..MaxTasks
  /\ button \in BOOLEAN
  /\ g_result \in {"IDOK", "IDCANCEL"}
  /\ code \in {"none", "IDOK", "IDCANCEL"}
  /\ workers \in [Tasks -> {"none", "begin", "install", "run", "message", "restore",
                            "enable", "done"}]
  /\ original \in [Tasks -> Target]
  /\ chain \in Chain
  /\ reports \in Seq(Report)
  /\ shown \in [size : Nat, processed : Nat]
  /\ outcome \in [Tasks -> {"none", "done", "failed"}]

-----------------------------------------------------------------------------
Alive(s) == screen = "progress" /\ session = s

\* The kernel is never used by two threads at once: the thread of the user interface,
\* which may ask it for the state of a file or change a setting whenever no progress
\* dialog is open, and at most one worker (ProgressDialog.cpp:75-125, 139, 224-225).
InKernel(s) == workers[s] \in {"install", "run", "restore"}

OneThreadInKernel ==
  screen # "ended" =>
    \A s \in Tasks : InKernel(s) => /\ Alive(s)
                                    /\ \A r \in Tasks : InKernel(r) => r = s

\* A worker uses the operation's context, which is in the stack frame that opened the
\* dialog, only while this frame is there (EncryptDialog.cpp:188-196, 230-237 with the
\* thread detached at ProgressDialog.cpp:224-225).
ContextOutlivesTask ==
  \A s \in Tasks :
    workers[s] \in {"begin", "install", "run", "message"} /\ screen # "ended" => Alive(s)

\* Whatever a part of the kernel reports, it never reports to a dialog that is gone,
\* however the operations before have ended (ProgressDialog.cpp:81, 117).
ReportsReachOpenDialog ==
  screen # "ended" =>
    \A source \in Source :
      Reaches(chain, source) = NoHandler \/ Alive(Reaches(chain, source))

\* While an operation runs, every part of the kernel reports to its dialog, also a
\* wiper that was built since the last operation (ServerCommunicator.cpp:282, 326-334).
EverythingReports ==
  \A s \in Tasks : workers[s] = "run" /\ screen # "ended" =>
    \A source \in Source : Reaches(chain, source) = s

\* The dialog's result is the result of its own operation, never that of an earlier
\* one and never one that is not final (ProgressDialog.cpp:73-78, 102, 139).
CodeIsOutcome ==
  screen = "handler" =>
    code = IF outcome[session] = "done" THEN "IDOK" ELSE "IDCANCEL"

\* What a dialog shows as processed never exceeds the size of the operation it shows,
\* through all the operations that the parts of the kernel announce and report
\* (ProgressDialog.cpp:29-33, 49-69).
ProgressFits == shown.processed <= shown.size

\* A progress dialog can always be left in the end: its button becomes enabled, unless
\* a message box waits for the user or the process has ended (ProgressDialog.cpp:75-126).
DialogCanBeLeft ==
  screen = "progress" ~> \/ button
                         \/ \E s \in Tasks : workers[s] = "message"
                         \/ screen = "ended"

-----------------------------------------------------------------------------
(***************************************************************************)
(* The inductive invariant of the proofs.                                  *)
(***************************************************************************)
\* Only the worker of an open dialog whose button is disabled is at work.
WorkerMatchesScreen ==
  /\ \A s \in Tasks : s # session => workers[s] \in {"none", "done"}
  /\ session # 0 /\ screen # "ended" =>
       IF screen = "progress" /\ ~ button
       THEN workers[session] \notin {"none", "done"}
       ELSE workers[session] = "done"
  /\ screen \in {"progress", "handler"} => session # 0

\* The chain leads to the dialog exactly between Install and Restore.
ChainMatchesWorker ==
  screen # "ended" =>
    IF session # 0 /\ workers[session] \in {"run", "message", "restore"}
    THEN chain = WithHandler(chain, session) /\ original[session] = NoHandler
    ELSE /\ chain.server_progress = NoHandler
         /\ chain.core_progress = NoHandler
         /\ chain.wiper_progress = NoHandler

\* g_result and the history agree, and so does the code the dialog has returned.
ResultMatchesOutcome ==
  /\ screen # "ended" /\ session # 0 =>
       /\ workers[session] \in {"install", "run"} => g_result = "IDOK"
       /\ workers[session] \in {"message", "restore", "enable", "done"} =>
            /\ outcome[session] \in {"done", "failed"}
            /\ g_result = IF outcome[session] = "done" THEN "IDOK" ELSE "IDCANCEL"
  /\ screen = "handler" => code = g_result

IInv == TypeOK /\ WorkerMatchesScreen /\ ChainMatchesWorker /\ ResultMatchesOutcome

-----------------------------------------------------------------------------
\* Development.txt:10 wants the progress between 0 and 100 per cent: a portion is
\* never reported of an operation of size zero, where the percentage is 0/0.
PercentIsDefined ==
  \A s \in Tasks :
    workers[s] = "run" /\ reports # <<>> /\ screen # "ended" =>
      ~ (Head(reports).kind = "portion" /\ shown.size = 0)
=============================================================================
