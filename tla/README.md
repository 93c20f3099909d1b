# File Security: a verification development

File Security is a Windows utility that encrypts a file in place with a one-time
key as long as the file, and keeps the key file in a *key folder* under the MD5
of the ciphered file. This directory holds TLA+ models of the program in
`../src`, TLC configurations that check them on small instances, and proofs that
TLAPS checks. `PROJECT.json` maps every definition to the lines it models and
lists runs, mutants, findings, hazards and theorems.

## 1. The system

### 1.1 Components

| component | state it keeps | operations | called by |
|---|---|---|---|
| `ServerCommunicator` (Kernel) | `m_wiper`, `m_core`, registry values, progress handler | `EncryptFile`, `DecryptFile`, `IsFileEncrypted`, `Set/GetKeyStoragePath`, `Set/GetWipeMethod`, `SetCipher`, `SetProgressHandler`; constructor reads the registry and creates the key folder | `ClientCommunicator` |
| `AbsoluteSecurityCore` | cipher, key storage, progress handler | encryption = generate key, write it under a temporary name, cipher in place, rename the key; decryption = find the key, cipher in place, remove the key | `ServerCommunicator` |
| `GammaFileCipher` | none between calls | loop over portions of 64 KiB: read, read key, XOR, seek back, write, ask the handler | `AbsoluteSecurityCore` |
| `MD5BasedKeyStorage` | `storage_path` | path of the key of a file: `<md5 of its content>.bin` | `AbsoluteSecurityCore` |
| registry settings | key folder, wipe method, core | query (writes a default when absent), save | `ServerCommunicator` |
| wipers, `WiperFactory` | – | overwrite and remove, or remove | `ServerCommunicator` |
| filesystem driver (external `KAA` library) | the disk | `create_file`, `open_file`, `read`, `write`, `commit`, `rename_file`, `remove_file`, `create_directory`, `remove_directory`, `get_temp_filename` | all of the kernel |
| progress dispatchers | the next handler of the chain | forward a portion's size, return the handler's answer | cipher → core → communicator → dialog |
| `ClientCommunicator` (GUI) | the kernel object (a static, built on first use) | translates `KAA::failure` into `UserReport` | dialogs |
| `ProgressDialog` | `g_result`, the stop button | starts a detached worker thread that runs the task; the button ends the dialog | `EncryptDialog` |
| `EncryptDialog` (main) | path, enabled state of the two buttons, last used path | encrypt, decrypt, edit the path, open the settings | user |
| `SettingsDialog` | its controls | applies wipe method, then key folder | `EncryptDialog` |
| `CWDRestorer`, `AboutDialog`, `wWinMain` | saved current directory | restore it in the destructor | `EncryptDialog` |

Not used by the program: `CRC32BasedKeyStorage` and `UserSessionKeyFileCipher`
(nothing creates them), `StrongSecurityCore` (an empty file). `CoreFactory` builds one
of the two cores the registry can name and throws for the other; the other
factories are called with one constant each, and the non-virtual interfaces
(`Core`, `FileCipher`, `KeyStorage`, `Communicator`) only forward.

### 1.2 How they interact

The user presses a button of the main dialog; a modal progress dialog starts a
worker thread; the worker calls the kernel through `ClientCommunicator`; the
kernel works through `ServerCommunicator` → `AbsoluteSecurityCore` →
`GammaFileCipher`, and sends progress back through the dispatchers to the
dialog. Because the dialog is modal, the kernel serves one call at a time.
The user may start the program twice: two processes share the files, the key
folder and the registry, and know nothing of each other.

The key folder may be given by a relative path, and is by default (`.\keys`):
which folder it denotes depends on the directory the process works in. The file
dialog changes that directory; a `CWDRestorer` that lives as long as the dialog
changes it back.

### 1.3 What is hard

The kernel mutates three files per call (the document, its backup, the key) with
no journal: the order of their operations is all that protects the user's data.
An exception leaves a call wherever it is and undoes nothing; the process may be
killed between two operations; the power may fail and take files that were not
committed; the user moves and copies files between calls; a second process works
on the same files. The
`hazards` of `PROJECT.json` list the places.

### 1.4 What makes each component correct

- *Server and core*: no document is lost; a change of a document always has a
  committed full backup; what was encrypted can be restored, nested encryptions
  included; a reported success really left (or used up) the key.
- *Cipher*: two complete passes give the file back, for a key of any length; an
  interrupted pass leaves a ciphered prefix and nothing else; the loop ends.
- *Settings*: what is in force is what a restart would find, and a core that can
  be built, or the client has been told that it is not; the program does not take the key folder away while it is in use.
- *Two processes*: what one does to a file the other has open, and to the key
  folder the other uses, loses no document.
- *Dialogs*: the worker's result is read after it is final; the handler is put
  back; the buttons agree with the state of the file; the key folder's path
  denotes one folder throughout a session.

## 2. Modules

| module | models | lines |
|---|---|---|
| `Gamma` | one turn of the chunk loop as operators: `KeyBuffer`, `GammaPortion`, `NextPortion`; `GammaFile` is the reference for a whole file | `GammaFileCipher.cpp:32-62` |
| `GammaFileCipher` | the cipher alone: several passes over a file, any handler, failures | same |
| `FileSystemDriver` | the disk and the driver's operations, as the kernel relies on them (external) | – |
| `AbsoluteSecurityCore` | the core's part of a call, with the key storage | `AbsoluteSecurityCore.cpp`, `MD5BasedKeyStorage.cpp`, `GammaFileCipher.cpp` |
| `ServerCommunicator` | the kernel: calls, settings, failures, crashes, power loss, the user | `ServerCommunicator.cpp` |
| `FileVault` | the abstract specification of the kernel: documents with locks | `ServerCommunicator.cpp`, as its client sees it |
| `ServerVault` | the refinement mapping from `ServerCommunicator` to `FileVault` | – |
| `TwoInstances` | two processes of the kernel on one disk and one registry, with the share modes of their files | `ServerCommunicator.cpp:345-352`, `GammaFileCipher.cpp:34-39`, `MD5BasedKeyStorage.cpp:39-41` |
| `ProgressChain` | the pointers and dispatchers that carry progress out of the kernel; what a call reports | the dispatchers, `ISetProgressHandler` |
| `ProgressDialog` | the dialog's thread and the detached worker | `ProgressDialog.cpp`, `EncryptDialog.cpp` |
| `MainDialog` | the main dialog, the file dialog and the settings dialog | `EncryptDialog.cpp`, `CWDRestorer.cpp`, `SettingsDialog.cpp`, `ClientCommunicator.cpp` |
| `MC...` | values of the constants for TLC | – |
| `GammaProofs`, `GammaCipherProofs`, `ServerCommunicatorProofs`, `VaultProofs`, `SituationProofs`, `TwoInstancesProofs`, `ProgressDialogProofs`, `MainDialogProofs` | theorems and their proofs | – |

`ServerCommunicator` EXTENDS `AbsoluteSecurityCore` EXTENDS `FileSystemDriver`
EXTENDS `Gamma`: the server's call runs the core's steps, which run the driver's
operations. `ServerVault` EXTENDS `ServerCommunicator` and INSTANCEs `FileVault`.
`TwoInstances` EXTENDS `ServerCommunicator` as its first process and INSTANCEs
`ServerCommunicatorProofs`, the same with its lemmas, as its second, with variables
of its own for what a process keeps in memory.
`MainDialog` EXTENDS `FileVault` and not the kernel: the dialogs are checked
against what the kernel is shown to implement. `ProgressDialog` EXTENDS
`ProgressChain`; of the operation it runs it knows the reports and the outcome.

### 2.1 The kernel

- `disk` is a function from paths (directory, name) to contents; `directories`
  the existing directories; `uncommitted` the files created and not committed.
  A content is a sequence of *chunks*, one per portion of 64 KiB; the bytes of a
  chunk are abstract, and of the XOR only `GammaChunk(GammaChunk(m, k), k) = m`
  is used.
- `step` is the program counter of the thread that serves a call and `call` its
  local variables (the document, its backup, the key file, the loop's cursor).
  Encryption goes through `backup`, `core`, `cipher`, `store`, `wipe`,
  (`remove`); decryption through `backup`, `core`, `cipher`, `remove_key`,
  `remove`; `SetKeyStoragePath` through `save_path`, `remove_path`; `closed`
  means that no process runs.
- Each action is what happens between two points where the call can fail or the
  process can die: one driver operation that changes the disk, with the
  reading and computing around it. `DriverFails` ends a call at any such point
  with nothing undone, as an exception does; `Crash` and `PowerLoss` end the
  process there.
- `storagePath` (the key storage), `wiper` and `registry` are the settings in
  memory and in the registry. `QueryRegistry` writes the defaults of values that
  are not there; `SetCipher` builds a core before it saves the choice, and
  fails for `strong_security`, which `CoreFactory` cannot build.
- `sealed` and `call.before` are history, read by properties only: what
  successful encryptions replaced. `Abandon` drops the promise for a document
  whose call ended half-way. `report` is how the last call ended, as the client
  sees it; `faults` and `calls` count for the bounds `MaxFaults` and `MaxCalls`.

### 2.2 The vault and its refinement

`FileVault` knows no keys, backups or ciphers. A document is what the user wrote
(`inside`) and a stack of locks, each in a folder; it counts as encrypted while
its latest lock lies in the folder in use. A storage is the name of a folder, and
`FolderOf` says which one it denotes in the place the program works in; for the
kernel, which never changes its place, this is `Resolve`. A call takes effect at one moment
(`Lock`, `Unlock`) and returns after that; only a failure may ruin a document,
only that of the call, and only before the effect.

`ServerVault` reads the locks off the disk, without history (`Opened`): the key
file named after the content is the latest lock, the one named after what this
key restores is the one before, and so on. While a document is in work it counts
for what it was before the call (`Standing`). The linearisation points are
`StoreKey` for an encryption (the key gets its name) and `RemoveKey` for a
decryption; everything else of a call stutters or is `Begin`, `Return`, `Refuse`
or `Fail`. The mapping assumes a hash without collisions (`DigestsDiffer`) and keys
that do not coincide (`CipheredIsNew`); the run `kernel` has the first and checks the
second.

### 2.3 The progress dialog

- `screen` is what the thread of the user interface runs, `button` the button of
  the open progress dialog, `g_result` the global that the worker writes and
  `PressButton` reads, `code` what the dialog has returned.
- `workers[s]` is what the worker of operation `s` does next: `Begin`, `Install`
  (its handler), `TaskReports`, `TaskSucceeds` or `TaskFails` (a `UserReport` in a
  message box that `Dismiss` closes), `Restore`, `Enable`. `Terminate` is an
  exception that nobody catches on the worker.
- `chain` is the kernel's progress chain: three pointers to a handler and whether
  the core, the cipher and the wiper were given their dispatcher. A wiper or a
  core that has just been built was not.
- `reports` is what the operation has still to report, `shown` what the dialog's
  handler has counted. A portion counts one.

### 2.4 The main dialog

- `text` is the path, `encrypt_enabled` and `decrypt_enabled` the buttons,
  `last_used` the registry's value, `wiper` the kernel's wipe method. The vault's
  variables stand for the kernel.
- `UpdateButtonsState` runs when the path changes (`Edit`, `BrowseSelects`,
  `Launch`) and after a success (`Succeeds`), not after a failure (`Fails`).
- The file dialog (`BrowseOpens`) may take the process to another directory
  (`BrowseGoesTo`), the vault's `place`. `restorer` is the `CWDRestorer` that
  lives meanwhile; every way out of the dialog destroys it and puts the directory
  back (`Restored`), or ends the process when that fails (`RestoringFails`), as
  its destructor throws. The user may move a document in the file dialog too.
- `Confirm` applies the wipe method and changes the key folder; `SettingsSaved`
  and `SavingFails` are the second half of `ISetKeyStoragePath`. An exception
  that `ClientCommunicator` does not translate ends the process (`Dies`).
- `opened`, `current` and `started` are history: the settings when their dialog
  was opened, whether the buttons show the kernel's latest answer about this
  document, and the directory the session was started in, which is any.

### 2.5 Two processes

- The second process has its own `step2`, `call2`, `storagePath2`, `wiper2` and
  `report2`; the disk, the directories, the registry, the bounds and `sealed`
  are shared. Power losses, and what the user does with the files, are left to the
  model of one process.
- `HeldOpen` are the files a process has open between two of its steps, all with
  share modes that exclude the other: both ends of the copy
  (`ServerCommunicator.cpp:346`), and the document and the key during the cipher
  (`GammaFileCipher.cpp:35`). `NextToOpen` is what its next step opens or removes.
  Where they meet, the step fails (`Refused`, `SecondRefused`); so does the cipher
  when the other process has removed its key.
- `overlaps` and `named` are history. `overlaps` holds which operations two processes have
  served on one document at the same time: `Contested` are the documents of such calls,
  `DecryptedTwice` those that both were decrypting. `named` holds, for each document, the
  key files that were given a name for it and are still to be used; a key that both
  processes may have found stays until its file is removed.
- Between the copy and the cipher the document is not open. The other process may
  then cipher it, and the first one ciphers it again, over a backup of what it no
  longer is. `NeverLostTogether` says that this loses nothing while nothing fails.
- It does not cover two processes that decrypt one document at the same time
  (`DecryptedTwice`). Both find the same key (`AbsoluteSecurityCore.cpp:96`); the
  second opens the document after the first has closed it and before the first
  has removed the key, and applies the gamma again; then both remove the key and
  their backups, and the document stays ciphered without a key.
- Nor does it cover, after a failure, a document that both have worked on (`Settled`).
  When one process fails inside the cipher, the other one, which has found its key
  before that, deciphers the half it left and removes the key, and the copy of the
  first one needs this key (`ServerCommunicator.cpp:239`). Without a failure it leaves
  aside the time a cipher works on such a document: the document is then between two
  states, and the other process, which decrypted it before, has removed its key and its
  copy. When the cipher ends, the document is whole again.
- The model shows these losses when the exemptions are dropped. No document of the
  repository speaks of a second process, so they are recorded as hazards and not as
  findings.

### 2.6 What is abstracted

- *Names.* Temporary names are drawn from a finite set and may run out, which
  stands for any failure of `get_temp_filename`. The MD5 is a function of the
  content. In the runs it is injective, as a hash without collisions; the
  theorems do not assume it. A storage path is a string that denotes a directory
  (`Resolve`); in the kernel's runs the default folder has two such strings, a
  relative and an absolute one.
- *Portions.* A portion is read and written atomically: a write in place that fails
  in the middle of a portion is not modelled, nor is a short one that raises no
  error. The cipher does not compare what `master->write` returns with what it read
  (`GammaFileCipher.cpp:54`), so that after such a write its loop would go on behind a
  portion that is half ciphered: the model takes the driver to write the whole portion
  or to raise an error. The key file is written by one
  call, which may fail after any portion (`KeyWriteFails`). The case of a short
  write, where `CreateKeyFile` removes the file before it throws, leaves the disk
  as `DriverFails` at step `core` does.
- *Durability.* A power loss drops any subset of the uncommitted files, whole;
  removals, renames and in-place writes are taken as durable at once.
- *Undefined behaviour and uncaught exceptions.* `&data[0]` of an empty vector
  and a `std::runtime_error` on the worker thread may end the process or only
  the call: both `Crash`/`KeyWriteFails` and `DriverFails` are always possible.
- *Share modes* matter between processes only (`TwoInstances`), since one thread
  uses the files of a call. *Permissions* are left out: `RemoveKeyFile` clears
  the attribute before it removes.
- *The kernel's construction* happens in the model when the program is launched,
  and in the code at the first use of `GetCommunicator`. Nothing in between
  changes what the constructor reads.
- *Progress* reaches the kernel's model only as the handler's answer
  (`Replies`); where it goes is `ProgressChain`.
- *Windows* shows one modal dialog at a time: while one is open the buttons of
  the windows under it cannot be pressed. This is `screen`, in both models.

## 3. Runs

| run | bounds | question |
|---|---|---|
| `kernel` | 2 documents (2 portions, 1 portion), moves (into the key folder too), 2 key folders under 3 names, a deleted key folder, 3 calls, 1 fault, restarts; 238,598 states | are documents, keys and settings safe, whichever operation fails, whenever the process dies and whatever the user rearranges between calls? Does the kernel implement the vault? |
| `collisions` | 3 names, copies by the user, 2 possible keys, 3 calls, 1 fault | and when ciphered contents and key names collide? Is anything lost then? Checks the inductive invariant too |
| `power_failures` | 1 document, 3 calls, 2 faults | does the committed backup cover every change under power loss, and does every call return? |
| `two_instances` | 2 processes, 2 documents of 2 portions, 2 key folders, 3 calls, 1 fault in either process; 2,118,633 states | what do two processes of the program do to each other? |
| `gamma_file_cipher` | files of 0-3 portions, every key of at most 3 portions over 4 chunk values, 3 passes | is the loop an involution and a prefix writer for every key and handler? |
| `progress_dialog` | 3 operations, sizes 0-2 | do the two threads keep apart, and can every dialog be left? |
| `main_dialog` | 2 documents, 2 key folders under a relative and an absolute name, 2 directories to work in, 2 wipers, 2 locks, 2 failures; 2,460,756 states | do the buttons fit the document, and what do the file dialog and the settings leave behind? |
| `lost_key`, `left_backup`, `moved_file`, `empty_file`, `unsaved_settings` | 1-2 calls or operations, 1 failure | what the documentation says and the code does not do |

`MCServerCommunicator` uses sets of atoms as chunks and the symmetric difference
as gamma. Every key has an atom of its own, so nothing coincides by accident; in
`collisions` it does on purpose. Symmetry is used for the temporary names in the
runs of the kernel, except `power_failures`, and of two processes, and for the documents
in those of two processes (where a document holds an atom named after it) and of the
main dialog: they are interchangeable, and no run with symmetry checks liveness.

Why these bounds are enough to be interesting: three calls are an encryption, a
nested encryption or a change of the key folder, and a decryption; one fault can
hit each of them at each step, and what follows shows what it left; two portions
separate the first, the last and the portion beyond the last; a document with a
zero portion is changed by one key only in part. `power_failures` has two faults,
so that a failed call can precede the power loss. Three operations let a dialog
find what two others have left, one of them failed. Two documents are enough to
take each other's place, two locks to come back from a nested encryption. Two
directories let a relative key folder denote another one, in the file dialog and
at the next launch. In `two_instances` three calls are, for one process, an
encryption and a decryption, and any of the calls for the other; either process may
fail or be killed, once in all. Two portions give the cipher
of one process a middle, in which the other one finds the document open; more portions
only make it longer. The bounds are constants and guards: `MaxCalls`, `MaxFaults`,
`MaxPortions`, `MaxTasks`, `MaxFailures`, `MaxLocks`. `gamma_file_cipher` does not check
deadlock: its caller may stop calling. All other runs do: the user can always start the program
again, or, in `progress_dialog`, its end is a step of its own (`Ended`).

Properties of the kernel:

- `NeverLost`: every original content can still be obtained from some file,
  applying key files that exist. `Readable` computes what can be obtained. It
  does not hold with power loss (`lost_key`).
- `BackupIntact`, `MutationIsBackedUp`: the backup is complete and committed
  before the document changes, and as long as it may.
- `WorkInPlace`: the document in work is a ciphered prefix and an untouched rest.
- `SealedRestorable`: a document that was successfully encrypted can be given
  back what it was, by the key stored under its present content, through nested
  encryptions, failed calls, moves and changed key folders. It is not claimed
  for copies: decrypting one copy removes the key of the other
  (`AbsoluteSecurityCore.cpp:104`); what the user loses then is still in the
  decrypted copy, which is `NeverLost`, checked in `collisions`.
- `KeyFolderStays`: a key folder that is there is not taken away while it is the
  one in use, wherever a change of the folder fails. It names the one exception
  the code has: a change between two names of one folder creates nothing and then
  removes the folder when it is empty (`ServerCommunicator.cpp:295, 312`).
- `SettingsDurable`: until something fails, the registry is what a restart needs
  to find: the settings in force and a core that can be built.
- `UnsavedIsReported`: when something fails, the two may differ, because a set call puts
  a setting in force before it saves it; but a setting that comes to differ from what
  the next session will have is reported to the client as a failure. A change of the
  key folder counts from the moment it is saved: a crash before that is no difference,
  since the session ends with it.
- `InterruptedCallKeepsOriginal`: no early end of a call leaves a document only
  half copied and half ciphered.
- `CipheredIsNew`: while the core works, the document is what it was, or what its
  key restores, or something that no other document holds and no key knows. This
  is about the values of a run and not about the code: the theorems of
  `VaultProofs` assume it, and `kernel` shows that it can be met.
- `CallsDeliver`: what a reported success means. It needs a handler that does
  not stop: the cipher returns normally after a stop (`GammaFileCipher.cpp:59`).
  The runs use the replies of the program's handler.
- `ImplementsVault`: the kernel implements `FileVault`.
- `CallsReturn` under `WF_vars(KernelStep)`: the thread that serves a call runs
  without waiting for anything but the driver, so it is scheduled until the call
  is over. No fairness is assumed of the user, of the client, or of failures.

Properties of two processes:

- `BothBackupsIntact`: while a process changes a document it has a full and
  committed copy of what the document was when the call began.
- `NeverLostTogether`, `SealedRestorableTogether`: as above, for two processes
  that share documents and key folders; section 2.5 says what the first one exempts,
  the second one exempts the documents both have worked on at a time.
- `NoCoincidence`: a decryption finds only a key that was made for its document, and a
  key gets a name of its own. As `CipheredIsNew` it depends on the values of a run,
  and the theorems about two processes assume it. It depends on the code too: a key that
  is named by something else than the document's content breaks it, as its mutant does.
- `BothTypesOK`: neither process leaves the other one a registry it cannot use.

Properties of the cipher:

- `PrefixesOnly`: a portion is in clear or ciphered by the number of passes that went
  beyond it, however they ended; `RoundTrip` is what the user sees of this: two complete
  passes give the file back.
- `AnswersObeyed`: how far a pass goes is what the handler has answered. The first
  answer other than "proceed" decides: a "stop" or a "cancel" ends the pass right after
  its portion, and after a "quiet" nothing ends it before the end of the file, whatever
  the handler would answer later (`answers` is a history of the answers).
- `PassEnds` under weak fairness of the thread in the loop.

Properties of the progress dialog:

- `OneThreadInKernel`: the kernel has no lock; the disabled button and the order
  of the worker's last steps are what keeps the two threads apart.
- `ContextOutlivesTask`: the detached worker uses the caller's stack frame only
  while it is there.
- `ReportsReachOpenDialog`, `EverythingReports`: the chain never leads to a dialog
  that is gone, and during an operation it leads from every part of the kernel to
  the open one, a new wiper included.
- `CodeIsOutcome`: the result read from `g_result` is final and belongs to the
  dialog's own operation.
- `ProgressFits`: the sequence of operations a call announces never makes the bar
  exceed its size.
- `DialogCanBeLeft` under weak fairness of each worker: a `std::thread` that was
  started runs on, detached or not. Nothing is assumed of the user, so the
  message box of a failed operation may stay open for ever.

Properties of the main dialog:

- `ButtonsFitDocument`: when the buttons show the kernel's answer and nothing has
  happened to the document since, they fit it. It exempts what `Development.txt`
  lists as to be done: the first launch, with both buttons enabled (line 6), and
  a change of the settings, after which they are not updated (line 8); and
  failed operations, failed requests and moves by the user.
- `SessionKeepsPlace`: whenever the kernel may be called, the process works in the
  directory it was started in, so that the key folder's path denotes what it did.
- `SuccessOffersUndo`: a successful encryption offers decryption only.
- `ClosedSettingsAreUnchanged`: leaving the settings without OK and without a
  report changes nothing; after a report it may.

Each property of a passing run has a *mutant*: a plausible bug in a definition
that models code (`...Forgotten`, `...Early`, `...WithoutSeek`, ...) under which
TLC finds the property violated. The mutants stand before the definitions they
mutate and nothing else uses them.

Findings:

1. `left_backup`: a failed encryption leaves its backup in clear beside the
   document, as `Bugs.txt:1-13` describes.
2. `lost_key`: the key file is never committed while the backup is wiped, which
   explains `Bugs.txt:15-16`.
3. `moved_file`: the status of a file depends on its content and not on its path,
   against `User Guide.txt:7-8`.
4. `empty_file`: the copy of an empty file reports a portion of an operation of
   size zero, whose percentage is 0/0, against `Development.txt:10`.
5. `unsaved_settings`: when saving the key folder has failed, OK pressed again
   finds the path already in force (`ServerCommunicator.cpp:295`), reports success
   and saves nothing; `SettingsDialog.cpp:134` asks for a transaction.

## 4. Proofs

For every value of the constants that satisfy the named assumptions.

**`ServerCommunicatorProofs`** (any number of documents, folders, calls and
faults, any handler, keys that may coincide, a hash that may collide, power
loss): `TypeOK`, `BackupIntact`, `WorkInPlace`, `MutationIsBackedUp`,
`InterruptedCallKeepsOriginal`, `CallsDeliver`, `SettingsDurable`, `UnsavedIsReported`
and `KeyFolderStays`.

The argument is the inductive invariant `IInv`. `BackupIntact` is not inductive:
when the copy ends it must be known that the backup is the prefix of the
document the cursor has passed and that the document has not changed
(`CopyInProgress`); when the cipher writes, that document, backup and key are
three different files (`CallMatchesStep`, `KeyInUse`: document names, temporary
names and key names are disjoint, and the temporary names were free when taken);
`WorkInPlace` needs to know what is in the cipher's key buffer
(`KeyInUse`), because a short key repeats it. `IInv` is checked by TLC in
`collisions` and preserved by one lemma per action. The two action properties
follow from `IInv` in the state before the step. `GammaProofs` holds the lemmas
about the loop's operators; what the buffer holds is stated with `KeyAt`.

`CallsDeliver` holds of handlers that do not stop the cipher (`DeliverySpec`), and
speaks of the moment when the backup goes, steps after the key got its name. In
between it must be known that the key restores the document, which
`DeliveryInv` carries: the cipher has passed every portion when it returns
(`CipherCompletes`), by `WorkInPlace` the document is then the gamma of what it
was, and by the involution the key under its new name gives that back
(`KeyDelivered`, `GammaFileRestores`); wiping the backup touches neither file.
`SettingsDurable` needs what a change of the key folder knows half-way
(`SettingsAgree`); `UnsavedIsReported` needs of `IInv` that the path being saved is the
one the core has taken. `KeyFolderStays` goes through the steps that remove a directory.

**`VaultProofs`** (any documents, folders, calls and faults): `ImplementsVault`,
`SealedRestorable`, `NeverLost`. They hold under `LuckySpec`: the handler does not
stop the cipher, no power fails and the user makes no copies (a stop leaves a document
ciphered in part, a power failure may take a key, as in `lost_key`, and of two copies
one loses its key), digests do not collide (`DigestsDiffer`), and always
`CipheredIsNew`. The last two are what an MD5 and keys of random bytes
(`MD5BasedKeyStorage.cpp:37-60`, `AbsoluteSecurityCore.cpp:122-142`) give with a
probability the code relies on and cannot check. An empty document is not ciphered
at all, so `CipheredIsNew` leaves it aside. `kernel` satisfies all of them, so they do
not contradict each other.

- The *refinement* goes action by action (`VaultSteps`). What has to be known is that
  key files form a graph in which a document's locks can be read off: no two key
  files share a name (`OneKey`), keys lie in folders that exist (`FoldersExist`), a
  new key in the one in use (`NewKeyInFolder`), and (`Graph`) each content with a key
  belongs to one document, and keys lead downwards by a rank of at most the number of
  encryptions so far. So `Opened` has read all the locks when its bound is reached
  (`OpenedUnfolds`), and a step changes the locks of no document but its own
  (`OpenedKept`).
- `SealedRestorable` is about the latest lock; the next one is opened by a key named
  after what the first restores. `SealedInv` therefore says that the whole stack
  `sealed` of a document is a chain of keys from its present content, or from what it
  was when the call in progress began.
- `Readable` is a closure, computed round by round. `FoundInv` says instead that every
  set of contents with all files in it, closed under the keys, has the original in it
  (`Found`), and that an original gets a key only by a coincidence with something
  left over. `FoundIsNotLost` shows that the rounds reach that closure.

`Opening` and `Readable` are recursive functions over numbers. The library's
induction theorems cannot be used here, so the induction is made by the least
element of a set of counterexamples (`LeastElement`, `UpTo`), and a recursive
function is unfolded after showing that one with its equation exists
(`OpeningExists`, `OpeningUnfolds`).

**`TwoInstancesProofs`** (any documents, portions and calls, any number of failures
and deaths of either process, keys that may coincide, a hash that may
collide): `BothTypesOK` and `BothBackupsIntact`. `IInv` is not an invariant of
one process beside another: the document may be ciphered a second time by the other
one, and its key may be removed. `SharedInv` is what survives, that is what a process
knows of the files it uses (`Uses`), which are those it has open and its backup. The
argument is one of rely and guarantee: a step of a process keeps its own
`SharedInv` (`OwnStep`) and changes only what it opens or uses (`StepSpares`,
`StepUses`); a step of the other one that spares these files keeps it too
(`OthersStep`); and that the files of the two are `Apart` is what the share modes
give (`UsedIsHeld`, `FirstMayGoOn`, `SecondMayGoOn`) and what temporary names that
were free when taken give for the backups. The lemmas are proved once, of one process,
and instantiated for the second.

`SealedRestorableTogether` and `NeverLostTogether` are proved of `TwoSpec` when always
`NoCoincidence`, when the handler does not stop the cipher (`NoStop`), and, the second
one, when two gammas commute (`GammaCommutesOn`: they are XORs, and
`MCGammaFileCipher` has TLC confirm it for bits). It needs the last because a document
that both processes encrypt is deciphered in an order that is not the reverse one.

- The argument is about *situations* (**`SituationProofs`**): a situation is a record of
  the disk, the keys that have a name, and what each of the two processes is doing
  (`mine`, `theirs`). `Happens` is what a step of one process may do to it, and every
  lemma is proved of `Happens` once. `TwoInstancesProofs` shows that each step of either
  process is one (`FirstHappens`, `SecondHappens`), by exchanging the two for the second
  process (`Turned`). A situation also says which documents are `free`, that only one
  process at a time has worked on, and which are `safe`, that nothing excuses to lose.
- `KeysInv`: each key that has a name is there, has its document's length and belongs to
  one document (`NamesInv`), and a process knows what it works with (`KeyInv`): a
  decryption has a key of its document, and its backup is what the document is with the
  cipher's work undone.
- `HistoryInv`, for `SealedRestorableTogether`: as in `SealedInv`, the whole stack
  `sealed` of a free document, below what it stands for now (`Levels`), is restored level
  by level by one named key each. The property is the case of the first level.
- `WholeInv`, for `NeverLostTogether`: from what a document stands for (`Base`, which
  undoes the portions of a cipher at work) a chain of keys leads to what it was
  (`Leads`); all keys the document is in need of are on it (`Claims`), and none that is
  another document's or a process's own (`Danger`). Or, after a failure, such a chain
  leads from a copy nobody works with (`LeftOver`). That *all* claimed keys are on the
  chain is what makes it inductive: a decryption takes the key it has found out of the
  chain, wherever on it the key is, and the rest, in any order, still leads to the
  original (`LeadsShorter`, where the gamma must commute). Its length is at most the
  number of encryptions so far (`KeysMade`), which is how many rounds `Readable` makes
  (`ChainIsReadable`).
- `SealInv` and `LossInv` are these, with `TwoInv` and `Recorded` (that every overlap of
  two calls is on record), and are inductive given the luck of the step.

**`GammaCipherProofs`** (files and keys of any content and length, any answers,
any failures, any number of passes): `TypeOK`, `PrefixesOnly`, `RoundTrip`. A
portion is in clear or ciphered according to how many passes went beyond it. One
turn of the loop adds the portion to the passes of one history entry, the
running pass's (`PositionReached`), and applies the same bytes as every other
pass does, as the buffer holds what the key's last read has left (`BufferIsKey`).
`AnswersObeyed`: a pass goes exactly as far as the handler's first answer other than
"proceed" says. The loop keeps only its last answer and an exit flag; what these know
of the whole history of answers is `ProgressIsDecision` (a "quiet" that is kept was the
first answer other than "proceed", a "stop" is the answer to the last portion).
`PositionReached` says that there is one answer for each portion, and `AnswersCounted`
that none is beyond the end of the file.

**`ProgressDialogProofs`** (any number of operations, any sizes):
`OneThreadInKernel`, `ContextOutlivesTask`, `ReportsReachOpenDialog`,
`EverythingReports`, `CodeIsOutcome`, `ProgressFits`. The properties say who may be
where; none is inductive, since a worker that is about to enable the button must be known to be
the last dialog's and to have put the handler back. `IInv` says so:
`WorkerMatchesScreen` (only the worker of the open dialog is at work, and it is
until the button is enabled), `ChainMatchesWorker` (the chain leads to the dialog
exactly between `Install` and `Restore`, and what `Restore` puts back is no
handler), `ResultMatchesOutcome` (`g_result` against the history). For
`ProgressFits` the room a list of reports needs is counted off report by report, and
no report is lost or counted twice because `IInv` says which part of the kernel the
handler hears.

**`MainDialogProofs`** (any documents, folders, wipers, locks and failures):
`TypeOK`, `ButtonsFitDocument`, `SessionKeepsPlace`, `SuccessOffersUndo`,
`ClosedSettingsAreUnchanged`. The buttons promise something on the main screen
only, but must be known to fit through the settings and through an operation
until it takes effect (`ButtonsFitUntilEffect`), which needs that the operation
works on the document shown (`WorkMatchesScreen`) and that nothing is promised
while the key folder changes (`NothingPromisedWhileSaving`). Through the file
dialog the folder is another one, so it must be known that the buttons fit the
place the `CWDRestorer` will go back to (`ButtonsFitOnReturn`), and that this is
the place the session was started in (`RestorerKeepsPlace`). The two action
properties need that an effective encryption has locked the document shown
(`EffectIsLock`) and that the settings are those of the opening until something
fails (`SettingsKept`).

Assumptions: `GammaAssumption` (XOR is an involution), `NameAssumption`
(temporary names, document names and key names are disjoint: the driver returns
names that do not exist, and a document whose name has the form of a key file is
left aside), `GeneratedKeysAssumption` and `SecondKeysAssumption` (a key has the length
of its document), `HandlerAssumption`, `DialogAssumption` and `VaultAssumption` (the
values that mean "none" differ from the others), and the typing of the constants.

Only model-checked:

- Liveness: `CallsReturn`, `PassEnds`, `DialogCanBeLeft`. The proof system does not
  reach fairness and ENABLED.
- `CipheredIsNew` and `NoCoincidence`, what the theorems of `VaultProofs` and of
  `TwoInstancesProofs` leave to luck: whether they hold is a matter of the values of
  the constants. They are checked for those of `kernel` and of `two_instances`.

## 5. Not modelled, and what is left

Not modelled:

- `CRC32BasedKeyStorage`, `UserSessionKeyFileCipher`, `StrongSecurityCore`: nothing
  in the program creates them, or the file is empty. The same goes for the cases of
  the factories that throw, except for `CoreFactory`'s, which `SetCipher` meets.
- `AboutDialog`, `UserReport`'s wording, the layout of the dialogs, the position of
  the main window in the registry: texts and layout.
- The kernel DLL's entry points and the test project: no behaviour of their own.
- The driver's permissions, and a write that fails, or stops short without an error,
  inside a portion (`GammaFileCipher.cpp:54`).

Left, as it would add to what is here:

1. *Two processes and the wipe method*, which they share through the registry only.
2. *Longer histories of two processes*: a fourth call would be one that follows two
   decryptions of one document at the same time.
3. *Two processes and the vault*: in what sense both together implement `FileVault` for
   the documents they do not work on at the same time.
