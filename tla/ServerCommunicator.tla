------------------------- MODULE ServerCommunicator -------------------------
(***************************************************************************)
(* ServerCommunicator: the kernel as its client sees it.  It serves one    *)
(* call at a time.  A file call backs the document up in a temporary file  *)
(* beside it, lets the core cipher the document in place, and disposes of  *)
(* the backup; SetKeyStoragePath, SetWipeMethod and SetCipher change the   *)
(* settings in memory and in the registry.  Any driver operation may fail, *)
(* the process may be killed between two operations, and the power may     *)
(* fail.  Between calls the user may move or copy documents and delete an  *)
(* empty folder.                                                           *)
(***************************************************************************)
EXTENDS AbsoluteSecurityCore

CONSTANTS
  DocumentFolders,     \* directories where the user keeps documents
  Documents,           \* the user's documents at the start: path -> content
  DefaultStoragePath,  \* what QueryKeyStoragePath writes on the first launch
  Unset,               \* a registry value that was never written
  UserActs,            \* what the user does with the file manager between calls
  PowerMayFail,        \* is a power failure possible?
  MaxFaults            \* bound: how many failures and crashes happen

WipeMethod == {"ordinary_remove", "simple_overwrite"}

\* The identifiers of ToCoreType; no core is built for the first.
CoreType == {"strong_security", "absolute_security"}

\* The values of the registry key: a core that cannot be built must not get there, or no
\* process could start again.
Registry == [storage : StoragePath \cup {Unset}, core : {"absolute_security", Unset},
             wiper : WipeMethod \cup {Unset}]

UserAct == {"move", "copy", "delete_key_folder"}

DocumentPath == [directory : DocumentFolders, name : DocumentName]

ASSUME ServerAssumption ==
  /\ DocumentFolders \subseteq Directory
  /\ DOMAIN Documents \subseteq DocumentPath
  /\ \A f \in DOMAIN Documents : Documents[f] \in Content
  /\ DefaultStoragePath \in StoragePath
  /\ Unset \notin StoragePath \cup WipeMethod \cup CoreType
  /\ UserActs \subseteq UserAct
  /\ PowerMayFail \in BOOLEAN
  /\ MaxFaults \in Nat

VARIABLES
  wiper,     \* the type of m_wiper
  registry,  \* the values of the program's registry key
  report,    \* how the last call ended: "none", "done" or "failed"
  faults,    \* how many failures and crashes happened
  sealed     \* history: for each document, what successful encryptions that were
             \* not undone since have replaced, the latest first

vars == <<driverVars, coreVars, wiper, registry, report, faults, sealed>>

settingVars == <<wiper, registry>>

Busy == step \notin {"idle", "closed"}

InFileCall == call.operation \in {"encrypt", "decrypt"}

-----------------------------------------------------------------------------
(***************************************************************************)
(* What a mutation of the document means for `sealed': when a call ends    *)
(* before its work on the document is complete and has already changed it, *)
(* nothing is promised of the document any more.                           *)
(***************************************************************************)
HalfDone == \/ step = "store"
            \/ step = "cipher" /\ disk[call.file] # call.before

Abandon == sealed' = IF InFileCall /\ HalfDone THEN [sealed EXCEPT ![call.file] = <<>>]
                     ELSE sealed

\* A call ends with an exception.
Throw == EndCall /\ report' = "failed" /\ Abandon

Fault == faults < MaxFaults /\ faults' = faults + 1

-----------------------------------------------------------------------------
(***************************************************************************)
(* The process starts.  The queries of the registry write the default of a *)
(* value that is not there; the constructor creates the key storage        *)
(* directory, and throws when that fails (unless it already exists).       *)
(***************************************************************************)
Stored(value, default) == IF value = Unset THEN default ELSE value

\* A mutation of QueryRegistry: the path has no default on the first launch.
QueryWithoutPath ==
  registry' = [storage |-> registry.storage,
               core    |-> Stored(registry.core, "absolute_security"),
               wiper   |-> Stored(registry.wiper, "ordinary_remove")]

QueryRegistry ==
  registry' = [storage |-> Stored(registry.storage, DefaultStoragePath),
               core    |-> Stored(registry.core, "absolute_security"),
               wiper   |-> Stored(registry.wiper, "ordinary_remove")]

Construct ==
  /\ step = "closed"
  /\ QueryRegistry
  /\ registry'.core = "absolute_security"
  /\ wiper' = registry'.wiper
  /\ storagePath' = registry'.storage
  /\ CreateDirectory(Resolve(registry'.storage))
  /\ step' = "idle"
  /\ report' = "none"
  /\ UNCHANGED <<disk, uncommitted, call, calls, faults, sealed>>

\* The constructor throws: before it wrote a default, between two, or after the last
\* (the wiper's is the first; the other two have no order).
ConstructFails ==
  /\ step = "closed"
  /\ Fault
  /\ \/ UNCHANGED registry
     \/ \E storage \in {registry.storage, Stored(registry.storage, DefaultStoragePath)},
           core \in {registry.core, Stored(registry.core, "absolute_security")} :
          registry' = [storage |-> storage, core |-> core,
                       wiper |-> Stored(registry.wiper, "ordinary_remove")]
  /\ UNCHANGED <<driverVars, coreVars, wiper, report, sealed>>

Close ==
  /\ step = "idle"
  /\ step' = "closed"
  /\ UNCHANGED <<driverVars, storagePath, call, calls, settingVars, report, faults, sealed>>

-----------------------------------------------------------------------------
(***************************************************************************)
(* The head common to IEncryptFile and IDecryptFile: the size is read (so  *)
(* the document exists) and BackupFile creates an empty temporary file in  *)
(* the document's directory.                                               *)
(***************************************************************************)
BeginCall(operation, f) ==
  /\ step = "idle"
  /\ calls < MaxCalls
  /\ Exists(f)
  /\ \E b \in FreeTempPaths(f.directory) :
       /\ CreateFile(b, <<>>)
       /\ call' = [operation |-> operation, file |-> f, before |-> disk[f],
                   backup |-> b, key |-> NoFile, cursor |-> FirstPortion]
  /\ step' = "backup"
  /\ calls' = calls + 1
  /\ report' = "none"
  /\ UNCHANGED <<directories, storagePath, settingVars, faults, sealed>>

EncryptFile(f) == BeginCall("encrypt", f)
DecryptFile(f) == BeginCall("decrypt", f)

\* CopyFile: a portion of the document is appended to the backup.  What the progress
\* handler answers is ignored.
CopyPortion ==
  /\ step = "backup"
  /\ PortionLeft(call.cursor, disk[call.file])
  /\ WriteFile(call.backup,
               Append(disk[call.backup], disk[call.file][call.cursor.position]))
  /\ call' = [call EXCEPT !.cursor.position = @ + 1]
  /\ UNCHANGED <<directories, storagePath, step, calls, settingVars, report, faults, sealed>>

\* Mutations of CommitBackup: without the commit, and a portion too early.
CommitBackupForgotten ==
  /\ step = "backup"
  /\ ~ PortionLeft(call.cursor, disk[call.file])
  /\ step' = "core"
  /\ UNCHANGED <<driverVars, storagePath, call, calls, settingVars, report, faults, sealed>>

CommitBackupEarly ==
  /\ step = "backup"
  /\ call.cursor.position + 1 \notin DOMAIN disk[call.file]
  /\ Commit(call.backup)
  /\ step' = "core"
  /\ UNCHANGED <<directories, storagePath, call, calls, settingVars, report, faults, sealed>>

\* CopyFile: the document is exhausted, and the backup is committed.
CommitBackup ==
  /\ step = "backup"
  /\ ~ PortionLeft(call.cursor, disk[call.file])
  /\ Commit(call.backup)
  /\ step' = "core"
  /\ UNCHANGED <<directories, storagePath, call, calls, settingVars, report, faults, sealed>>

\* The steps of the core that go on, and those that end the call.
CoreStep ==
  /\ CreateKeyFile \/ LocateKey \/ CipherPortion
  /\ UNCHANGED <<settingVars, report, faults, sealed>>

CoreThrows ==
  /\ NoPlaceForKey \/ KeyMissing \/ KeyNameTaken
  /\ Throw
  /\ UNCHANGED <<settingVars, faults>>

CoreBreaks == KeyWriteFails /\ Fault /\ Throw /\ UNCHANGED settingVars

\* A decryption is complete when the cipher returns: the document is what it was,
\* unless the handler has stopped the loop.
CoreCiphered ==
  /\ CipherReturns
  /\ sealed' = IF Encrypting THEN sealed
               ELSE [sealed EXCEPT ![call.file] =
                      IF @ = <<>> \/ PortionLeft(call.cursor, disk[call.file])
                      THEN <<>> ELSE Tail(@)]
  /\ UNCHANGED <<settingVars, report, faults>>

\* An encryption is complete when the key has its name.
CoreStoresKey ==
  /\ StoreKey
  /\ sealed' = [sealed EXCEPT ![call.file] = <<call.before>> \o @]
  /\ UNCHANGED <<settingVars, report, faults>>

CoreRemovesKey == RemoveKey /\ UNCHANGED <<settingVars, report, faults, sealed>>

(***************************************************************************)
(* IEncryptFile wipes the backup with the configured wiper; IDecryptFile   *)
(* removes it.  The wiper overwrites with one byte; nothing depends on     *)
(* which.                                                                  *)
(***************************************************************************)
OverwriteBackup ==
  /\ step = "wipe"
  /\ wiper = "simple_overwrite"
  /\ WriteFile(call.backup, [i \in DOMAIN disk[call.backup] |-> ZeroChunk])
  /\ step' = "remove"
  /\ UNCHANGED <<directories, storagePath, call, calls, settingVars, report, faults, sealed>>

RemoveBackup ==
  /\ \/ step = "remove"
     \/ step = "wipe" /\ wiper = "ordinary_remove"
  /\ RemoveFile(call.backup)
  /\ EndCall
  /\ report' = "done"
  /\ UNCHANGED <<directories, storagePath, calls, settingVars, faults, sealed>>

-----------------------------------------------------------------------------
\* A mutation of SetKeyStoragePath: the directory is not created.
SetKeyStoragePathBare(path) ==
  /\ step = "idle"
  /\ calls < MaxCalls
  /\ path # storagePath
  /\ storagePath' = path
  /\ call' = [operation |-> "set_path", previous |-> storagePath, next |-> path]
  /\ step' = "save_path"
  /\ calls' = calls + 1
  /\ report' = "none"
  /\ UNCHANGED <<driverVars, settingVars, faults, sealed>>

(***************************************************************************)
(* ISetKeyStoragePath, when the string differs from the current one: the   *)
(* new directory is created, the core takes the path, the registry is      *)
(* written, and the previous directory is removed if it is empty.          *)
(***************************************************************************)
SetKeyStoragePath(path) ==
  /\ step = "idle"
  /\ calls < MaxCalls
  /\ path # storagePath
  /\ CreateDirectory(Resolve(path))
  /\ storagePath' = path
  /\ call' = [operation |-> "set_path", previous |-> storagePath, next |-> path]
  /\ step' = "save_path"
  /\ calls' = calls + 1
  /\ report' = "none"
  /\ UNCHANGED <<disk, uncommitted, settingVars, faults, sealed>>

\* A mutation of SaveKeyStoragePath: the previous path is saved.
SavePreviousPath ==
  /\ step = "save_path"
  /\ registry' = [registry EXCEPT !.storage = call.previous]
  /\ step' = "remove_path"
  /\ UNCHANGED <<driverVars, storagePath, call, calls, wiper, report, faults, sealed>>

SaveKeyStoragePath ==
  /\ step = "save_path"
  /\ registry' = [registry EXCEPT !.storage = call.next]
  /\ step' = "remove_path"
  /\ UNCHANGED <<driverVars, storagePath, call, calls, wiper, report, faults, sealed>>

RemovePreviousPath ==
  /\ step = "remove_path"
  /\ RemoveDirectory(Resolve(call.previous))
  /\ EndCall
  /\ report' = "done"
  /\ UNCHANGED <<disk, uncommitted, storagePath, calls, settingVars, faults, sealed>>

\* A mutation of SetWipeMethod: the failure to save the choice is swallowed.
SetWipeMethodQuietly(value) ==
  /\ step = "idle"
  /\ calls < MaxCalls
  /\ wiper' = value
  /\ calls' = calls + 1
  /\ report' = "done"
  /\ \/ registry' = [registry EXCEPT !.wiper = value] /\ UNCHANGED faults
     \/ Fault /\ UNCHANGED registry
  /\ UNCHANGED <<driverVars, storagePath, step, call, sealed>>

\* ISetWipeMethod: the wiper is replaced first; saving the choice may then fail.
SetWipeMethod(value) ==
  /\ step = "idle"
  /\ calls < MaxCalls
  /\ wiper' = value
  /\ calls' = calls + 1
  /\ \/ /\ registry' = [registry EXCEPT !.wiper = value]
        /\ report' = "done"
        /\ UNCHANGED faults
     \/ /\ Fault
        /\ report' = "failed"
        /\ UNCHANGED registry
  /\ UNCHANGED <<driverVars, storagePath, step, call, sealed>>

\* A mutation of SetCipher: the choice is saved before the core is built.
SetCipherSavedFirst(core) ==
  /\ step = "idle"
  /\ calls < MaxCalls
  /\ calls' = calls + 1
  /\ registry' = [registry EXCEPT !.core = core]
  /\ report' = IF core = "absolute_security" THEN "done" ELSE "failed"
  /\ UNCHANGED <<driverVars, storagePath, step, call, wiper, faults, sealed>>

\* ISetCipher: a new core, with the key storage path of the old one, replaces it before
\* the choice is saved.  QueryCore throws for a core that is not implemented, ToCoreType
\* for an identifier it does not know; both come first.
SetCipher(core) ==
  /\ step = "idle"
  /\ calls < MaxCalls
  /\ calls' = calls + 1
  /\ \/ /\ core = "absolute_security"
        /\ registry' = [registry EXCEPT !.core = core]
        /\ report' = "done"
        /\ UNCHANGED faults
     \/ /\ core # "absolute_security"
        /\ report' = "failed"
        /\ UNCHANGED <<registry, faults>>
     \/ /\ Fault
        /\ report' = "failed"
        /\ UNCHANGED registry
  /\ UNCHANGED <<driverVars, storagePath, step, call, wiper, sealed>>

-----------------------------------------------------------------------------
\* A mutation of DriverFails: the failing call removes its backup.
DriverFailsCleaningUp ==
  /\ Busy /\ InFileCall
  /\ Fault
  /\ RemoveFile(call.backup)
  /\ Throw
  /\ UNCHANGED <<directories, storagePath, calls, settingVars>>

\* An operation of the driver or of the registry fails: the exception leaves the call
\* at once, and nothing that was done so far is undone.
DriverFails ==
  /\ Busy
  /\ Fault
  /\ Throw
  /\ UNCHANGED <<driverVars, storagePath, calls, settingVars>>

\* The process is killed, or ends itself on an exception nobody catches.
Crash ==
  /\ Busy
  /\ Fault
  /\ step' = "closed"
  /\ call' = NoCall
  /\ Abandon
  /\ UNCHANGED <<driverVars, storagePath, calls, settingVars, report>>

PowerLoss ==
  /\ PowerMayFail
  /\ Fault
  /\ DropUncommitted
  /\ step' = "closed"
  /\ call' = NoCall
  /\ Abandon
  /\ UNCHANGED <<storagePath, calls, settingVars, report>>

-----------------------------------------------------------------------------
(***************************************************************************)
(* The user's file manager, between two calls.                             *)
(***************************************************************************)
UserMoves(f, g) ==
  /\ "move" \in UserActs /\ ~ Busy
  /\ RenameFile(f, g)
  /\ sealed' = [sealed EXCEPT ![g] = sealed[f], ![f] = <<>>]
  /\ UNCHANGED <<directories, coreVars, settingVars, report, faults>>

UserCopies(f, g) ==
  /\ "copy" \in UserActs /\ ~ Busy
  /\ Exists(f)
  /\ CreateFile(g, disk[f])
  /\ UNCHANGED <<directories, coreVars, settingVars, report, faults, sealed>>

UserDeletesKeyFolder ==
  /\ "delete_key_folder" \in UserActs /\ ~ Busy
  /\ Resolve(storagePath) \in directories
  /\ FilesIn(Resolve(storagePath)) = {}
  /\ directories' = directories \ {Resolve(storagePath)}
  /\ UNCHANGED <<disk, uncommitted, coreVars, settingVars, report, faults, sealed>>

-----------------------------------------------------------------------------
Init ==
  /\ disk = Documents
  /\ directories = {f.directory : f \in DOMAIN Documents}
  /\ uncommitted = {}
  /\ storagePath = DefaultStoragePath
  /\ step = "closed"
  /\ call = NoCall
  /\ calls = 0
  /\ wiper = "ordinary_remove"
  /\ registry = [storage |-> Unset, core |-> Unset, wiper |-> Unset]
  /\ report = "none"
  /\ faults = 0
  /\ sealed = [f \in DocumentPath |-> <<>>]

\* The thread that serves a call goes on with it.
KernelStep ==
  \/ CopyPortion \/ CommitBackup
  \/ CoreStep \/ CoreThrows \/ CoreBreaks
  \/ CoreCiphered \/ CoreStoresKey \/ CoreRemovesKey
  \/ OverwriteBackup \/ RemoveBackup
  \/ SaveKeyStoragePath \/ RemovePreviousPath
  \/ DriverFails

\* The client calls, the process starts and ends.
ClientStep ==
  \/ \E f \in DocumentPath : EncryptFile(f) \/ DecryptFile(f)
  \/ \E path \in StoragePath : SetKeyStoragePath(path)
  \/ \E value \in WipeMethod : SetWipeMethod(value)
  \/ \E core \in CoreType : SetCipher(core)
  \/ Construct \/ ConstructFails \/ Close

EnvironmentStep ==
  \/ Crash \/ PowerLoss
  \/ \E f, g \in DocumentPath : UserMoves(f, g) \/ UserCopies(f, g)
  \/ UserDeletesKeyFolder

Next == KernelStep \/ ClientStep \/ EnvironmentStep

Spec == Init /\ [][Next]_vars

\* A call is served to its end by a thread that keeps running.
FairSpec == Spec /\ WF_vars(KernelStep)

-----------------------------------------------------------------------------
Steps == {"closed", "idle", "backup", "core", "cipher", "store", "remove_key",
          "wipe", "remove", "save_path", "remove_path"}

\* The types of the variables.
TypeOK ==
  /\ DOMAIN disk \subseteq Path
  /\ \A p \in DOMAIN disk : disk[p] \in Content
  /\ directories \subseteq Directory
  /\ uncommitted \subseteq DOMAIN disk
  /\ storagePath \in StoragePath
  /\ step \in Steps
  /\ call \in {NoCall} \cup FileCall \cup PathCall
  /\ calls \in 0..MaxCalls
  /\ wiper \in WipeMethod
  /\ registry \in Registry
  /\ report \in {"none", "done", "failed"}
  /\ faults \in 0..MaxFaults
  /\ sealed \in [DocumentPath -> Seq(Content)]

-----------------------------------------------------------------------------
(***************************************************************************)
(* What someone can still read who has every file and applies any file     *)
(* that is not a document as a key, as often as calls were made.           *)
(***************************************************************************)
KeyFiles == {p \in DOMAIN disk : p.name \notin DocumentName}

Keys == {disk[k] : k \in {q \in KeyFiles : disk[q] # <<>>}}

ReadWith[n \in 0..MaxCalls] ==
  IF n = 0 THEN {disk[p] : p \in DOMAIN disk}
  ELSE LET read == ReadWith[n - 1]
       IN  read \cup {GammaFile(content, key) : content \in read, key \in Keys}

Readable == ReadWith[MaxCalls]

\* It lies in a file, or has to be computed.
Retrievable(content) == \/ \E p \in DOMAIN disk : disk[p] = content
                        \/ content \in Readable

\* Whatever fails and whenever the process dies, no document of the user becomes
\* irretrievable: what it held at the start is in a document, in a backup, or can be
\* computed from those with key files that still exist (ServerCommunicator.cpp:213-240
\* with AbsoluteSecurityCore.cpp:70-106).
NeverLost == \A f \in DOMAIN Documents : Retrievable(Documents[f])

\* While a call works on its document, and until its work is complete, the backup is
\* a full copy of what the document was, already committed (ServerCommunicator.cpp:218,
\* 233, 364-374 before 222, 236).
BackupIntact ==
  step \in {"core", "cipher", "store", "remove_key"} =>
    /\ Exists(call.backup)
    /\ disk[call.backup] = call.before
    /\ call.backup \notin uncommitted

\* The document in work is at every moment its old content, with the gamma of the
\* key applied to the portions the cursor has passed and to no other
\* (GammaFileCipher.cpp:48-61, AbsoluteSecurityCore.cpp:82-86, 96-100).
WorkInPlace ==
  step \in {"cipher", "store", "remove_key"} =>
    /\ Exists(call.file) /\ Exists(call.key)
    /\ DOMAIN disk[call.file] = DOMAIN call.before
    /\ \A i \in DOMAIN call.before :
         disk[call.file][i] = IF i < call.cursor.position
                              THEN GammaChunk(call.before[i], KeyAt(disk[call.key], i))
                              ELSE call.before[i]

\* A document whose encryption has succeeded can be given back what it was: the key
\* stored under the name of its present content, in some key folder, restores what
\* the latest encryption replaced; encryptions of a document may nest, other documents
\* are served in between, the key folder is changed, calls fail
\* (AbsoluteSecurityCore.cpp:88, 96, 104; MD5BasedKeyStorage.cpp:37-60).
InWork(f) == InFileCall /\ call.file = f /\ step \in {"cipher", "store", "remove_key"}

SealedRestorable ==
  \A f \in DocumentPath :
    sealed[f] # <<>> /\ ~ InWork(f) =>
      /\ Exists(f)
      /\ \E d \in Directory :
           /\ Exists(At(d, Md5(disk[f])))
           /\ GammaFile(disk[f], disk[At(d, Md5(disk[f]))]) = Head(sealed[f])

\* The key folder in use, once it is there, is not taken away by the program, whatever
\* fails and wherever a change of the folder ends: only the user removes it, or a change
\* between two strings for one and the same folder, whose comparison finds them different
\* (ServerCommunicator.cpp:295-312).  A folder the program cannot encrypt into it has lost.
KeyFolderGone ==
  /\ step # "closed"
  /\ Resolve(storagePath) \in directories
  /\ Resolve(storagePath') \notin directories'

SameFolderTwice ==
  step = "remove_path" /\ Resolve(call.previous) = Resolve(call.next)

KeyFolderStays ==
  [][KeyFolderGone => SameFolderTwice \/ UserDeletesKeyFolder]_vars

\* While nothing has failed, a restart would find the settings in force, and a core it
\* can build (ServerCommunicator.cpp:185-191, 258-264, 279-284, 307-308).
SettingsDurable ==
  step = "idle" /\ faults = 0 =>
    registry = [storage |-> storagePath, core |-> "absolute_security", wiper |-> wiper]

\* The settings a call in this session goes by; a change of the key folder counts once it
\* has been saved.
InForce == [storage |-> IF step = "save_path" THEN call.previous ELSE storagePath,
            core |-> "absolute_security", wiper |-> wiper]

\* The settings the next session would have otherwise.
Unsaved == {s \in DOMAIN registry : step # "closed" /\ registry[s] # InForce[s]}

\* Both kinds of set call put a new setting in force before they save it, so a failure in
\* between leaves a setting the next session will not have: this never happens without the
\* client being told, in whatever order calls fail, repeat and end
\* (ServerCommunicator.cpp:279-284, 307-308).
UnsavedIsReported == [][Unsaved' \subseteq Unsaved \/ report' = "failed"]_vars

\* A call changes a document only while a full and committed backup of what the
\* document was at the call's beginning lies beside it (ServerCommunicator.cpp:218-222,
\* 233-236).  A document the user has just copied and the power may take is left aside.
ChangeIsBackedUp ==
  Busy =>
    \A f \in DocumentPath \ uncommitted :
      Exists(f) /\ (f \notin DOMAIN disk' \/ disk'[f] # disk[f]) =>
        \E b \in DOMAIN disk \ uncommitted :
          /\ b.directory = f.directory /\ b.name \in TempName
          /\ disk[b] = call.before

MutationIsBackedUp == [][ChangeIsBackedUp]_vars

\* A call that ends before its work on the document is complete, by a failure, by a
\* crash or by a power loss, leaves what the document held in some file: neither half
\* of the copy nor half of the cipher is ever all there is (ServerCommunicator.cpp:336-341,
\* 374; AbsoluteSecurityCore.cpp:82-88).
EndKeepsOriginal ==
  /\ InFileCall /\ step \notin {"wipe", "remove"} /\ call.file \notin uncommitted
  /\ step' \in {"idle", "closed"}
  => \E p \in DOMAIN disk' : disk'[p] = call.before

InterruptedCallKeepsOriginal == [][EndKeepsOriginal]_vars

\* An encryption that is reported done has left the key of the document in the key
\* folder and no file in the document's folder that the call has created; a decryption
\* that is reported done has used up its key (ServerCommunicator.cpp:213-240).
CallsDeliver ==
  [][Busy /\ InFileCall /\ report' = "done" =>
       /\ call.backup \notin DOMAIN disk'
       /\ Encrypting => /\ KeyPathFor(call.file) \in DOMAIN disk'
                        /\ GammaFile(disk'[call.file], disk'[KeyPathFor(call.file)])
                             = call.before
       /\ Decrypting => /\ call.key \notin DOMAIN disk'
                        /\ call.key = At(Resolve(storagePath), Md5(call.before))]_vars

\* Every call returns (ServerCommunicator.cpp:213-240, 292-324).
CallsReturn == Busy ~> ~ Busy

-----------------------------------------------------------------------------
(***************************************************************************)
(* The inductive invariant of the proofs: what is known of the running     *)
(* call at each step.                                                      *)
(***************************************************************************)
WorkSteps == {"cipher", "store", "remove_key"}
FileSteps == {"backup", "core", "wipe", "remove"} \cup WorkSteps
PathSteps == {"save_path", "remove_path"}

CallMatchesStep ==
  /\ ~ Busy => call = NoCall
  /\ step \in PathSteps => call \in PathCall /\ call.next = storagePath
  /\ step \in FileSteps => /\ call \in FileCall
                           /\ call.file \in DocumentPath
                           /\ call.backup.name \in TempName
  /\ step \in {"backup", "core"} \cup WorkSteps =>
       /\ Exists(call.file) /\ Exists(call.backup)
       /\ call.backup.directory = call.file.directory

CopyInProgress ==
  /\ step \in {"backup", "core"} => disk[call.file] = call.before
  /\ step = "backup" =>
       /\ 1..(call.cursor.position - 1) \subseteq DOMAIN call.before
       /\ disk[call.backup] = Prefix(call.before, call.cursor.position - 1)

KeyInUse ==
  step \in WorkSteps =>
    /\ call.key \in Path
    /\ Exists(call.key)
    /\ call.key # call.backup /\ call.key.name \notin DocumentName
    /\ call.cursor.buffer = IF call.cursor.position = 1 THEN ZeroChunk
                            ELSE KeyAt(disk[call.key], call.cursor.position - 1)

\* Everything the steps of a call rely on: the copy is a prefix of the document until
\* it is committed, then a full backup; the key is a third file; key_buffer holds the
\* portion of the key that was used last.
IInv == TypeOK /\ CallMatchesStep /\ CopyInProgress /\ BackupIntact /\ KeyInUse /\ WorkInPlace

(***************************************************************************)
(* The same for what a call delivers, when no handler stops the cipher:    *)
(* once the key has its name it restores the document, and stays as it is  *)
(* while the backup is disposed of.                                        *)
(***************************************************************************)
NoStop == Replies \cap {"stop", "cancel"} = {}

CipherCompletes ==
  /\ step = "cipher" => ~ call.cursor.stop /\ call.cursor.progress \notin {"stop", "cancel"}
  /\ step \in {"store", "remove_key"} => ~ PortionLeft(call.cursor, call.before)
  /\ step = "store" => Encrypting
  /\ step = "remove_key" => Decrypting
  /\ step \in WorkSteps /\ Decrypting => call.key = At(Resolve(storagePath), Md5(call.before))

KeyDelivered ==
  step \in {"wipe", "remove"} =>
    /\ Encrypting =>
         /\ Exists(call.file) /\ call.key # call.backup
         /\ call.key = KeyPathFor(call.file) /\ Exists(call.key)
         /\ GammaFile(disk[call.file], disk[call.key]) = call.before
    /\ Decrypting =>
         /\ ~ Exists(call.key)
         /\ call.key = At(Resolve(storagePath), Md5(call.before))

NotReportedYet == Busy => report = "none"

DeliveryInv == NoStop /\ CipherCompletes /\ KeyDelivered /\ NotReportedYet

\* And for the settings, until something fails.
SettingsAgree ==
  faults = 0 /\ step # "closed" =>
    registry = [storage |-> IF step = "save_path" THEN call.previous ELSE storagePath,
                core |-> "absolute_security", wiper |-> wiper]

-----------------------------------------------------------------------------
(***************************************************************************)
(* What the documentation says and the program does not do.                *)
(***************************************************************************)
\* Bugs.txt:1-13 expects that no copy of the original content stays behind when an
\* encryption does not succeed.
NoCopyAfterFailure ==
  [][Busy /\ InFileCall /\ Encrypting /\ report' = "failed" =>
       call.backup \notin DOMAIN disk']_vars

\* User Guide.txt:7-8: the status of a file depends on its path, and a file that was
\* moved cannot be decrypted at its new place.
StatusFollowsPath ==
  [][\A f, g \in DocumentPath :
       (~ Busy) /\ Exists(f) /\ ~ Exists(g)
         /\ f \notin DOMAIN disk' /\ g \in DOMAIN disk' /\ IsFileEncrypted(f)
       => ~ IsFileEncrypted(g)']_vars
=============================================================================
