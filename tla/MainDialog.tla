----------------------------- MODULE MainDialog -----------------------------
(***************************************************************************)
(* The main dialog with the settings dialog, over the vault.  The main     *)
(* dialog has the path of a document and two buttons, to encrypt and to    *)
(* decrypt it, and enables the one that fits the document's status when it *)
(* asks the kernel for it: when the path changes, and after an operation   *)
(* that has succeeded.  While an operation runs, the modal progress dialog *)
(* keeps the user away from both, and so does the file dialog while it is  *)
(* open.  The file dialog changes the directory the process works in, and  *)
(* with it the folder that a relative key storage path denotes; a          *)
(* CWDRestorer, which lives as long as the file dialog, changes it back.   *)
(***************************************************************************)
EXTENDS FileVault

CONSTANTS
  NoDocument,   \* a text that names no document
  NoPath,       \* the registry has no last used path
  NoPlace,      \* no CWDRestorer is alive
  WipeMethod,
  MaxFailures,  \* bound: how many operations fail
  MaxLocks      \* bound: how many locks a document gets

ASSUME DialogAssumption == /\ NoDocument \notin Document
                           /\ NoPath \notin Document
                           /\ NoPlace \notin Place
                           /\ MaxFailures \in Nat
                           /\ MaxLocks \in Nat

VARIABLES
  screen,           \* the dialog the user sees
  text,             \* the path in the edit control
  encrypt_enabled,  \* the two buttons
  decrypt_enabled,
  last_used,        \* the registry's LastUsedPath
  wiper,            \* the kernel's wipe method
  restorer,         \* CWDRestorer::path, or NoPlace
  started,          \* history: the directory this session was started in
  opened,           \* history: the settings and failures at the opening of their dialog
  current           \* history: do the buttons show what the kernel has answered of
                    \* this document, and has nothing happened to it since?

buttonVars == <<encrypt_enabled, decrypt_enabled, current>>
placeVars == <<restorer, started>>
dialogVars == <<screen, text, buttonVars, last_used, wiper, placeVars, opened>>
vars == <<vaultVars, dialogVars>>

Readable == text \in Document /\ vault[text].inside # Absent
TextLocked == text \in Document /\ Locked(text)

\* What the settings dialog sets.
Settings == [storage |-> storage, saved |-> saved, wiper |-> wiper]

Opening == [settings |-> Settings, failures |-> failures]

\* A mutation of UpdateButtonsState: it only enables.
UpdateButtonsStateEnables ==
  \/ /\ Readable'
     /\ encrypt_enabled' = (encrypt_enabled \/ ~ TextLocked')
     /\ decrypt_enabled' = (decrypt_enabled \/ TextLocked')
     /\ current' = TRUE
  \/ UNCHANGED <<encrypt_enabled, decrypt_enabled>> /\ current' = FALSE

\* UpdateButtonsState.  It fails when the document cannot be read, and may fail at any
\* time; the buttons stay as they are then.
UpdateButtonsState ==
  \/ /\ Readable'
     /\ encrypt_enabled' = ~ TextLocked'
     /\ decrypt_enabled' = TextLocked'
     /\ current' = TRUE
  \/ UNCHANGED <<encrypt_enabled, decrypt_enabled>> /\ current' = FALSE

-----------------------------------------------------------------------------
Init ==
  /\ VaultInit
  /\ screen = "closed"
  /\ text = NoDocument
  /\ encrypt_enabled = TRUE /\ decrypt_enabled = TRUE
  /\ last_used = NoPath
  /\ wiper \in WipeMethod
  /\ restorer = NoPlace
  /\ started = place
  /\ opened = Opening
  /\ current = FALSE

\* OnInitDialog: both buttons are enabled in the resource; the last used path is put
\* into the edit control when there is one.  The kernel reads its settings.  The user
\* may start the program in any directory.
Launch(p) ==
  /\ screen = "closed"
  /\ Restart(p)
  /\ started' = p
  /\ restorer' = NoPlace
  /\ screen' = "main"
  /\ IF last_used = NoPath
     THEN /\ text' = NoDocument
          /\ encrypt_enabled' = TRUE /\ decrypt_enabled' = TRUE
          /\ current' = FALSE
     ELSE /\ text' = last_used
          /\ \/ UpdateButtonsState /\ current'
             \/ encrypt_enabled' = TRUE /\ decrypt_enabled' = TRUE /\ current' = FALSE
  /\ UNCHANGED <<last_used, wiper, opened>>

\* A mutation of Edit: the path is saved as soon as it is typed.
EditSaves(t) ==
  /\ screen = "main"
  /\ text' = t
  /\ UNCHANGED <<vaultVars, screen, wiper, opened, placeVars>>
  /\ UpdateButtonsState
  /\ last_used' = t

\* The user changes the path: with every change of the control its document's status is
\* requested.
Edit(t) ==
  /\ screen = "main"
  /\ text' = t
  /\ UNCHANGED <<vaultVars, screen, last_used, wiper, opened, placeVars>>
  /\ UpdateButtonsState

\* The button Browse: the CWDRestorer remembers the directory, and the file dialog opens.
BrowseOpens ==
  /\ screen = "main"
  /\ screen' = "browsing"
  /\ restorer' = place
  /\ UNCHANGED <<vaultVars, text, buttonVars, last_used, wiper, started, opened>>

\* The user goes to another directory.
BrowseGoesTo(p) ==
  /\ screen = "browsing"
  /\ GoTo(p)
  /\ UNCHANGED dialogVars

Restored == GoTo(restorer) /\ restorer' = NoPlace

\* A file that exists is selected.  Its path comes into the edit control, and its status
\* is requested, after the CWDRestorer has been destroyed.
BrowseSelects(t) ==
  /\ screen = "browsing"
  /\ vault[t].inside # Absent
  /\ Restored
  /\ screen' = "main"
  /\ text' = t
  /\ UpdateButtonsState
  /\ UNCHANGED <<last_used, wiper, started, opened>>

\* A mutation of BrowseCancelled: only a selection restores the directory.
BrowseCancelledElsewhere ==
  /\ screen = "browsing"
  /\ restorer' = NoPlace
  /\ screen' = "main"
  /\ UNCHANGED <<vaultVars, text, buttonVars, last_used, wiper, started, opened>>

\* The file dialog is cancelled, or fails: OpenDialogBox throws, which destroys the
\* CWDRestorer too.
BrowseCancelled ==
  /\ screen = "browsing"
  /\ Restored
  /\ screen' = "main"
  /\ UNCHANGED <<text, buttonVars, last_used, wiper, started, opened>>

\* The directory cannot be restored, as it was removed meanwhile: an exception leaves the
\* destructor, and the process ends.
RestoringFails ==
  /\ screen = "browsing"
  /\ failures < MaxFailures
  /\ Fail
  /\ screen' = "closed"
  /\ restorer' = NoPlace
  /\ UNCHANGED <<text, buttonVars, last_used, wiper, started, opened>>

\* The button of the operation: the progress dialog opens.  Without a document that can
\* be read the operation fails at once and nothing changes.
Press(operation) ==
  /\ screen = "main"
  /\ IF operation = "encrypt" THEN encrypt_enabled ELSE decrypt_enabled
  /\ Readable
  /\ operation = "encrypt" => Len(vault[text].locks) < MaxLocks
  /\ Begin(operation, text)
  /\ screen' = "progress"
  /\ UNCHANGED <<text, buttonVars, last_used, wiper, opened, placeVars>>

\* The kernel's call takes effect.
TakesEffect ==
  /\ screen = "progress"
  /\ \E f \in Document : Lock(f) \/ Unlock(f)
  /\ UNCHANGED dialogVars

\* A mutation of Succeeds: the buttons stay as they were.
SucceedsSilently ==
  /\ screen = "progress"
  /\ screen' = "main"
  /\ Return
  /\ UNCHANGED <<text, wiper, opened, buttonVars, last_used, placeVars>>

\* IDOK: the buttons are updated, and the path of an encrypted document is saved, unless
\* the update fails or the registry does.
Succeeds ==
  /\ screen = "progress"
  /\ screen' = "main"
  /\ Return
  /\ UNCHANGED <<text, wiper, opened, placeVars>>
  /\ UpdateButtonsState
  /\ \/ work.operation = "encrypt" /\ current' /\ last_used' = text
     \/ UNCHANGED last_used

\* IDCANCEL: the buttons stay as they were.
Fails ==
  /\ screen = "progress"
  /\ screen' = "main"
  /\ \/ Refuse /\ UNCHANGED current
     \/ failures < MaxFailures /\ Fail /\ current' = FALSE
  /\ UNCHANGED <<text, encrypt_enabled, decrypt_enabled, last_used, wiper, opened, placeVars>>

\* The process ends, on an exception that the communicator does not translate.
Dies ==
  /\ screen \in {"progress", "settings"}
  /\ failures < MaxFailures
  /\ Fail
  /\ screen' = "closed"
  /\ UNCHANGED <<text, buttonVars, last_used, wiper, opened, placeVars>>

-----------------------------------------------------------------------------
OpenSettings ==
  /\ screen = "main"
  /\ screen' = "settings"
  /\ opened' = Opening
  /\ UNCHANGED <<vaultVars, text, buttonVars, last_used, wiper, placeVars>>

\* A mutation of Confirm: the dialog stays open with the new settings.
ConfirmStaysOpen(method, s) ==
  /\ screen = "settings"
  /\ s = storage
  /\ wiper' = method
  /\ UNCHANGED <<vaultVars, screen, text, buttonVars, last_used, opened, placeVars>>

\* The button OK: the wipe method is set, then the key folder, which has two steps.
Confirm(method, s) ==
  /\ screen = "settings"
  /\ wiper' = method
  /\ IF s = storage THEN /\ screen' = "main"
                         /\ UNCHANGED <<vaultVars, current>>
                    ELSE /\ screen' = "saving"
                         /\ UseStorage(s)
                         /\ current' = FALSE
  /\ UNCHANGED <<text, encrypt_enabled, decrypt_enabled, last_used, opened, placeVars>>

\* The key folder cannot be created: a report, and the dialog stays.
ConfirmFails(method) ==
  /\ screen = "settings"
  /\ failures < MaxFailures
  /\ wiper' = method
  /\ Fail
  /\ UNCHANGED <<screen, text, buttonVars, last_used, opened, placeVars>>

SettingsSaved ==
  /\ screen = "saving"
  /\ SaveStorage
  /\ screen' = "main"
  /\ UNCHANGED <<text, buttonVars, last_used, wiper, opened, placeVars>>

\* The registry fails, or the previous folder cannot be removed: a report, and the
\* settings dialog stays.
SavingFails ==
  /\ screen = "saving"
  /\ failures < MaxFailures
  /\ failures' = failures + 1
  /\ saved' \in {saved, storage}
  /\ screen' = "settings"
  /\ UNCHANGED <<vault, work, storage, place, text, buttonVars, last_used, wiper, opened, placeVars>>

CloseSettings ==
  /\ screen = "settings"
  /\ screen' = "main"
  /\ UNCHANGED <<vaultVars, text, buttonVars, last_used, wiper, opened, placeVars>>

CloseMain ==
  /\ screen = "main"
  /\ screen' = "closed"
  /\ UNCHANGED <<vaultVars, text, buttonVars, last_used, wiper, opened, placeVars>>

\* The user moves a document with the file manager, or in the file dialog.
UserMoves ==
  /\ screen \in {"main", "closed", "browsing"}
  /\ \E f, g \in Document : Move(f, g)
  /\ current' = FALSE
  /\ UNCHANGED <<screen, text, encrypt_enabled, decrypt_enabled, last_used, wiper, opened, placeVars>>

-----------------------------------------------------------------------------
Next ==
  \/ \E p \in Place : Launch(p) \/ BrowseGoesTo(p)
  \/ \E t \in Document \cup {NoDocument} : Edit(t)
  \/ BrowseOpens
  \/ \E t \in Document : BrowseSelects(t)
  \/ BrowseCancelled \/ RestoringFails
  \/ \E operation \in Operation : Press(operation)
  \/ TakesEffect \/ Succeeds \/ Fails \/ Dies
  \/ OpenSettings
  \/ \E method \in WipeMethod, s \in Storage : Confirm(method, s)
  \/ \E method \in WipeMethod : ConfirmFails(method)
  \/ SettingsSaved \/ SavingFails
  \/ CloseSettings \/ CloseMain
  \/ UserMoves

Spec == Init /\ [][Next]_vars

-----------------------------------------------------------------------------
VaultTypeOK ==
  /\ vault \in [Document -> [inside : Inside \cup {Absent}, locks : Seq(Folder)]]
  /\ work \in Call \cup {Idle}
  /\ storage \in Storage
  /\ saved \in Storage
  /\ place \in Place
  /\ failures \in Nat

\* The types of the variables; the path that is saved always names a document.
TypeOK ==
  /\ VaultTypeOK
  /\ screen \in {"closed", "main", "browsing", "progress", "settings", "saving"}
  /\ text \in Document \cup {NoDocument}
  /\ encrypt_enabled \in BOOLEAN /\ decrypt_enabled \in BOOLEAN
  /\ last_used \in Document \cup {NoPath}
  /\ wiper \in WipeMethod
  /\ restorer \in Place \cup {NoPlace} /\ started \in Place
  /\ opened \in [settings : [storage : Storage, saved : Storage, wiper : WipeMethod],
                failures : Nat]
  /\ current \in BOOLEAN

ButtonsFitIn(p) ==
  Readable /\ encrypt_enabled = ~ LockedIn(text, p) /\ decrypt_enabled = LockedIn(text, p)

ButtonsFit == ButtonsFitIn(place)

\* The buttons agree with the document, except after a failed operation or request, a
\* change of the settings, a launch without a path, or a move of the user's: whatever
\* else has happened, the user is offered what the kernel will not refuse and what adds
\* no second lock (EncryptDialog.cpp:140-148, 197-199, 238-240, 257-262).
ButtonsFitDocument ==
  screen = "main" /\ current => ButtonsFit

\* The folder that the key storage path denotes is the same throughout a session, until
\* the path is changed: whenever the kernel may be called, the process works in the
\* directory it was started in, wherever the file dialogs have been and however they have
\* ended (EncryptDialog.cpp:112-121, CWDRestorer.cpp:18-27, ServerCommunicator.cpp:164).
SessionKeepsPlace ==
  screen \notin {"closed", "browsing"} => place = started

\* A successful operation never leaves the user with a button that repeats it: after an
\* encryption, decrypting is offered and encrypting is not, if the status can be read at
\* all (EncryptDialog.cpp:196-199).
SuccessOffersUndo ==
  [][screen = "progress" /\ screen' = "main" /\ current' /\ work.operation = "encrypt"
       /\ work.effective
     => decrypt_enabled' /\ ~ encrypt_enabled']_vars

\* A settings dialog that is closed without its button OK, and without a report, has
\* changed nothing, neither the settings in force nor those of the next session.  After
\* a report it may leave the wipe method, or the key folder too, changed
\* (SettingsDialog.cpp:134-135, 167-172).
ClosedSettingsAreUnchanged ==
  [][CloseSettings /\ failures = opened.failures =>
       Settings = opened.settings]_vars

-----------------------------------------------------------------------------
(***************************************************************************)
(* The inductive invariant of the proofs.                                  *)
(***************************************************************************)
\* The kernel is at work only while the progress dialog is there, and on the document
\* that the main dialog shows.
WorkMatchesScreen ==
  IF screen = "progress" THEN work \in Call /\ work.file = text ELSE work = Idle

\* The buttons keep agreeing with the document through the other dialogs, until the
\* operation takes effect.
ButtonsFitUntilEffect ==
  current /\ screen \in {"main", "settings", "progress"}
    /\ (screen = "progress" => ~ work.effective)
    => ButtonsFit

\* While the key folder is changed the buttons promise nothing.
NothingPromisedWhileSaving == screen = "saving" => ~ current

\* What the file dialog takes away the CWDRestorer has kept.
RestorerKeepsPlace ==
  IF screen = "browsing" THEN restorer = started
  ELSE restorer = NoPlace /\ SessionKeepsPlace

\* Nothing is promised of the buttons where the file dialog has gone, but where it comes
\* back from there.
ButtonsFitOnReturn == current /\ screen = "browsing" => ButtonsFitIn(restorer)

IInv == /\ TypeOK /\ WorkMatchesScreen /\ ButtonsFitUntilEffect
        /\ NothingPromisedWhileSaving /\ RestorerKeepsPlace /\ ButtonsFitOnReturn

(***************************************************************************)
(* What it takes for the two action properties.                            *)
(***************************************************************************)
\* An encryption that has taken effect has locked the document on the screen.
EffectIsLock ==
  screen = "progress" /\ work.operation = "encrypt" /\ work.effective => Locked(text)

\* The settings dialog counts as unchanged until something fails.
SettingsKept ==
  screen \in {"settings", "saving"} =>
    /\ opened.failures <= failures
    /\ screen = "settings" /\ failures = opened.failures => Settings = opened.settings

ActionInv == EffectIsLock /\ SettingsKept

-----------------------------------------------------------------------------
(***************************************************************************)
(* What the documentation says and the program does not do.                *)
(***************************************************************************)
\* SettingsDialog.cpp:134 asks for a transaction: when the settings dialog has ended, the
\* key folder in force is the one of the next session.
SettingsAreATransaction ==
  [][CloseSettings \/ (\E method \in WipeMethod : Confirm(method, storage)) =>
       saved = storage]_vars
=============================================================================
