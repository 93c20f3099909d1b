------------------------ MODULE AbsoluteSecurityCore ------------------------
(***************************************************************************)
(* AbsoluteSecurityCore and the MD5BasedKeyStorage it owns: a document is  *)
(* ciphered in place with a one-time key of its own length, and the key    *)
(* file is kept in the key storage directory under the MD5 of the          *)
(* ciphered document.                                                      *)
(*                                                                         *)
(* The core runs inside a call of ServerCommunicator, which EXTENDS this   *)
(* module.  A call that is being served is the record `call', and `step'   *)
(* names what the serving thread does next.  The core takes over at step   *)
(* "core" and hands back at step "wipe" (encryption) or "remove"           *)
(* (decryption); an exception ends the call wherever it is.                *)
(***************************************************************************)
EXTENDS FileSystemDriver

CONSTANTS
  StoragePath,          \* key storage paths, as the strings the program compares
  Resolve(_),           \* the directory such a string denotes
  GeneratedKeys(_, _),  \* GeneratedKeys(n, c): keys the n-th call may draw for c
  Replies,              \* answers the progress handler may give
  NoFile,               \* the key of a call that has none yet
  MaxCalls              \* bound: how many calls are begun

ASSUME CoreAssumption ==
  /\ \A s \in StoragePath : Resolve(s) \in Directory
  /\ Replies \subseteq Reply
  /\ NoFile \notin Path
  /\ MaxCalls \in Nat

ASSUME GeneratedKeysAssumption ==
  \A n \in 0..MaxCalls, c \in Content : GeneratedKeys(n, c) \subseteq [DOMAIN c -> Chunk]

VARIABLES
  storagePath,  \* MD5BasedKeyStorage::storage_path
  step,         \* what the thread that serves the call does next
  call,         \* the call being served
  calls         \* how many calls were begun

coreVars == <<storagePath, step, call, calls>>

(***************************************************************************)
(* A call of EncryptFile or DecryptFile: the document, its content when    *)
(* the call began (history: the code keeps only the size), the backup, the *)
(* key file once its path is known, and the cursor of the loop that runs   *)
(* (the copy, then the cipher).                                            *)
(***************************************************************************)
FileCall == [operation : {"encrypt", "decrypt"}, file : Path, before : Content,
             backup : Path, key : Path \cup {NoFile}, cursor : Cursor]

\* A call of SetKeyStoragePath.
PathCall == [operation : {"set_path"}, previous : StoragePath, next : StoragePath]

NoCall == [operation |-> "none"]

Encrypting == call.operation = "encrypt"
Decrypting == call.operation = "decrypt"

\* A mutation of KeyPathFor: the digest is taken before anything is read.
KeyPathForNothing(f) == At(Resolve(storagePath), Md5(<<>>))

\* MD5BasedKeyStorage::IGetKeyPathForSpecifiedPath: the name is that of the content.
KeyPathFor(f) == At(Resolve(storagePath), Md5(disk[f]))

\* AbsoluteSecurityCore::IIsFileEncrypted.
IsFileEncrypted(f) == Exists(KeyPathFor(f))

\* The call is over: its result is delivered, or the exception it has thrown.
EndCall == step' = "idle" /\ call' = NoCall

-----------------------------------------------------------------------------
(***************************************************************************)
(* IEncryptFile: GenerateKey and CreateKeyFile, under a temporary name.    *)
(* The key file is written by one call of write and never committed.       *)
(***************************************************************************)
CreateKeyFile ==
  /\ step = "core" /\ Encrypting
  /\ \E p \in FreeTempPaths(Resolve(storagePath)),
        k \in GeneratedKeys(calls, disk[call.file]) :
       /\ CreateFile(p, k)
       /\ call' = [call EXCEPT !.key = p, !.cursor = FirstPortion]
  /\ step' = "cipher"
  /\ UNCHANGED <<directories, storagePath, calls>>

(***************************************************************************)
(* CreateKeyFile throws in the middle of its write: what was written stays *)
(* behind under the temporary name.  The same is left when the document is *)
(* empty and &data[0], taken of an empty vector, ends the program.         *)
(***************************************************************************)
KeyWriteFails ==
  /\ step = "core" /\ Encrypting
  /\ \E p \in FreeTempPaths(Resolve(storagePath)),
        k \in GeneratedKeys(calls, disk[call.file]), n \in 0..MaxPortions :
       /\ n = 0 \/ n \in DOMAIN k
       /\ CreateFile(p, Prefix(k, n))
  /\ EndCall
  /\ UNCHANGED <<directories, storagePath, calls>>

\* The key storage directory is gone, or has no temporary name left: create_file or
\* get_temp_filename fails.
NoPlaceForKey ==
  /\ step = "core" /\ Encrypting
  /\ \/ Resolve(storagePath) \notin directories
     \/ FreeTempPaths(Resolve(storagePath)) = {}
  /\ EndCall
  /\ UNCHANGED <<driverVars, storagePath, calls>>

\* IDecryptFile: the key path is computed before the document changes, and the
\* cipher opens the key file.
LocateKey ==
  /\ step = "core" /\ Decrypting
  /\ IsFileEncrypted(call.file)
  /\ call' = [call EXCEPT !.key = KeyPathFor(call.file), !.cursor = FirstPortion]
  /\ step' = "cipher"
  /\ UNCHANGED <<driverVars, storagePath, calls>>

KeyMissing ==
  /\ step = "core" /\ Decrypting
  /\ ~ IsFileEncrypted(call.file)
  /\ EndCall
  /\ UNCHANGED <<driverVars, storagePath, calls>>

\* A turn of the cipher's loop, on the document itself.
CipherPortion ==
  /\ step = "cipher"
  /\ ~ call.cursor.stop
  /\ PortionLeft(call.cursor, disk[call.file])
  /\ WriteFile(call.file, GammaPortion(call.cursor, disk[call.file], disk[call.key]))
  /\ \E reply \in Replies :
       call' = [call EXCEPT !.cursor = NextPortion(@, disk[call.key], reply)]
  /\ UNCHANGED <<directories, storagePath, step, calls>>

\* A mutation of CipherReturns: the loop may be left before the document is exhausted.
CipherReturnsEarly ==
  /\ step = "cipher"
  /\ step' = IF Encrypting THEN "store" ELSE "remove_key"
  /\ UNCHANGED <<driverVars, storagePath, call, calls>>

\* The cipher returns, also when the handler has stopped it.
CipherReturns ==
  /\ step = "cipher"
  /\ call.cursor.stop \/ ~ PortionLeft(call.cursor, disk[call.file])
  /\ step' = IF Encrypting THEN "store" ELSE "remove_key"
  /\ UNCHANGED <<driverVars, storagePath, call, calls>>

\* A mutation of StoreKey: the name is computed before the document is ciphered.
StoreKeyUnderOldName ==
  /\ step = "store"
  /\ RenameFile(call.key, At(Resolve(storagePath), Md5(call.before)))
  /\ call' = [call EXCEPT !.key = At(Resolve(storagePath), Md5(call.before))]
  /\ step' = "wipe"
  /\ UNCHANGED <<directories, storagePath, calls>>

\* A mutation of StoreKey: a key file that has the name already is removed before.
StoreKeyReplacing ==
  /\ step = "store"
  /\ call' = [call EXCEPT !.key = KeyPathFor(call.file)]
  /\ disk' = With(Without(disk, call.key), call'.key, disk[call.key])
  /\ uncommitted' = (uncommitted \ {call.key}) \cup {call'.key}
  /\ step' = "wipe"
  /\ UNCHANGED <<directories, storagePath, calls>>

\* The temporary key file gets the name of the document's new content.
StoreKey ==
  /\ step = "store"
  /\ RenameFile(call.key, KeyPathFor(call.file))
  /\ call' = [call EXCEPT !.key = KeyPathFor(call.file)]
  /\ step' = "wipe"
  /\ UNCHANGED <<directories, storagePath, calls>>

\* The name is taken, by the key of a document with the same ciphered content.
KeyNameTaken ==
  /\ step = "store"
  /\ ~ CanRename(call.key, KeyPathFor(call.file))
  /\ EndCall
  /\ UNCHANGED <<driverVars, storagePath, calls>>

\* A mutation of RemoveKey: the key file is read-only, and that is ignored.
RemoveKeyForgotten ==
  /\ step = "remove_key"
  /\ step' = "remove"
  /\ UNCHANGED <<driverVars, storagePath, call, calls>>

\* RemoveKeyFile, after a decryption.
RemoveKey ==
  /\ step = "remove_key"
  /\ RemoveFile(call.key)
  /\ step' = "remove"
  /\ UNCHANGED <<directories, storagePath, call, calls>>
=============================================================================
