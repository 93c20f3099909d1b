---------------------------- MODULE TwoInstances ----------------------------
(***************************************************************************)
(* Two processes of the program.  Nothing prevents the user from starting  *)
(* it twice: wWinMain looks for no other instance.  They share the files,  *)
(* the directories and the registry, and nothing else; each has read its   *)
(* settings when it was started.                                           *)
(*                                                                         *)
(* The first process is the ServerCommunicator this module EXTENDS, the    *)
(* second one an instance of it with variables of its own.  What keeps     *)
(* them apart is the share mode of the files they open: a file that one of *)
(* them has open cannot be opened or removed by the other.                 *)
(***************************************************************************)
EXTENDS ServerCommunicator

CONSTANT KeysOfSecond(_, _)  \* GeneratedKeys of the second process

ASSUME SecondKeysAssumption ==
  \A n \in 0..MaxCalls, c \in Content : KeysOfSecond(n, c) \subseteq [DOMAIN c -> Chunk]

VARIABLES
  step2, call2, storagePath2, wiper2, report2,  \* the second process
  overlaps, \* history: calls that both processes served on one document at a time
  named     \* history: for each document, the key files that were given a name for it
            \* and are still to be used

\* The lemmas about a process that shares its disk come with the instance.
Second == INSTANCE ServerCommunicatorProofs WITH
  step <- step2, call <- call2, storagePath <- storagePath2,
  wiper <- wiper2, report <- report2, GeneratedKeys <- KeysOfSecond

firstVars == <<step, call, storagePath, wiper, report>>

secondVars == <<step2, call2, storagePath2, wiper2, report2>>

allVars == <<vars, secondVars, overlaps, named>>

-----------------------------------------------------------------------------
\* A mutation of HeldOpen: the files are opened for sharing.
HeldOpenShared(s, c) == {}

\* The files a process has open between two steps: both ends of the copy, and what the
\* cipher works with from its first portion on.
HeldOpen(s, c) ==
  CASE s = "backup" -> {c.file, c.backup}
    [] s = "cipher" /\ c.cursor.position > 1 -> {c.file, c.key}
    [] OTHER -> {}

\* What the next step of a call opens or removes: the document whose digest is the key's
\* name, the two files of the cipher, the key that is used up.
NextToOpen(s, c) ==
  CASE s = "core" /\ c.operation = "decrypt" -> {c.file}
    [] s = "cipher" /\ c.cursor.position = 1 -> {c.file, c.key}
    [] s = "store" -> {c.file}
    [] s = "remove_key" -> {c.key}
    [] OTHER -> {}

CanOpen(files, held) == files \cap held = {} /\ files \subseteq DOMAIN disk

\* The step would open a file the other process has open, or one that it has removed.
Refused ==
  /\ Busy /\ ~ CanOpen(NextToOpen(step, call), HeldOpen(step2, call2))
  /\ Throw
  /\ UNCHANGED <<driverVars, storagePath, calls, settingVars, faults>>

SecondRefused ==
  /\ Second!Busy /\ ~ CanOpen(NextToOpen(step2, call2), HeldOpen(step, call))
  /\ Second!Throw
  /\ UNCHANGED <<driverVars, storagePath2, calls, wiper2, registry, faults>>

\* What the clients do that concerns both processes: the wipe method and the core are left
\* as they are.  A call that cannot open its document for the copy fails at once.
FirstClient ==
  \/ \E f \in DocumentPath \ HeldOpen(step2, call2) : EncryptFile(f) \/ DecryptFile(f)
  \/ \E path \in StoragePath : SetKeyStoragePath(path)
  \/ Construct \/ Close

SecondClient ==
  \/ \E f \in DocumentPath \ HeldOpen(step, call) :
       Second!EncryptFile(f) \/ Second!DecryptFile(f)
  \/ \E path \in StoragePath : Second!SetKeyStoragePath(path)
  \/ Second!Construct \/ Second!Close

\* Either process may fail or be killed; the other one goes on.
FirstStep ==
  /\ \/ /\ CanOpen(NextToOpen(step, call), HeldOpen(step2, call2))
        /\ KernelStep
     \/ Refused \/ FirstClient \/ Crash
  /\ UNCHANGED secondVars

SecondStep ==
  /\ \/ /\ CanOpen(NextToOpen(step2, call2), HeldOpen(step, call))
        /\ Second!KernelStep
     \/ SecondRefused \/ SecondClient \/ Second!Crash
  /\ UNCHANGED firstVars

-----------------------------------------------------------------------------
Overlapping ==
  IF InFileCall /\ Second!InFileCall /\ call.file = call2.file
  THEN {[file |-> call.file, operations |-> {call.operation, call2.operation}]}
  ELSE {}

\* Documents on which the two processes have worked at the same time, and those that both
\* were decrypting.
Contested == {o.file : o \in overlaps}

DecryptedTwice == {o.file : o \in {q \in overlaps : q.operations = {"decrypt"}}}

\* A step of a process from s to s1, in its call c, c1, and the keys: one gets its name, is
\* used by the decryption that removes it next, or by a cipher that was complete when the
\* call ended; a document left ciphered in part has no use for any.  A key of a document
\* that both were decrypting may be used again, until its file is gone.
NamedAfter(s, c, s1, c1) ==
  CASE s = "store" /\ s1 = "wipe" -> [named EXCEPT ![c.file] = @ \cup {c1.key}]
    [] s = "remove_key" /\ s1 = "remove" /\ c.file \in DecryptedTwice ->
         [named EXCEPT ![c.file] = @ \ {c.key}]
    [] s = "cipher" /\ s1 = "remove_key" /\ c.file \notin DecryptedTwice ->
         [named EXCEPT ![c.file] = @ \ {c.key}]
    [] /\ s = "cipher" /\ s1 \in {"idle", "closed"} /\ c.file \notin DecryptedTwice
       /\ c.cursor.position > 1 /\ disk[c.file] # c.before ->
         [named EXCEPT ![c.file] = IF PortionLeft(c.cursor, disk[c.file]) THEN {} ELSE @ \ {c.key}]
    [] OTHER -> named

TwoInit ==
  /\ Init
  /\ step2 = "closed" /\ call2 = NoCall /\ storagePath2 = DefaultStoragePath
  /\ wiper2 = "ordinary_remove" /\ report2 = "none"
  /\ overlaps = {}
  /\ named = [f \in DocumentPath |-> {}]

TwoNext ==
  /\ \/ FirstStep /\ named' = NamedAfter(step, call, step', call')
     \/ SecondStep /\ named' = NamedAfter(step2, call2, step2', call2')
  /\ overlaps' = overlaps \cup Overlapping'

TwoSpec == TwoInit /\ [][TwoNext]_allVars

-----------------------------------------------------------------------------
\* The types of both processes.
BothTypesOK == TypeOK /\ Second!TypeOK

\* Each process has a full and committed copy of its document for as long as it changes
\* it, although the other one may change this document before and after
\* (ServerCommunicator.cpp:345-350, 364-374).
BothBackupsIntact == BackupIntact /\ Second!BackupIntact

\* What two processes do that share a key folder, or of which one changes or removes the
\* folder the other uses, loses no document they do not work on at the same time, whatever
\* fails; nor, when nothing fails, one they do work on, as long as not both decrypt it and
\* once no cipher is at work on it (GammaFileCipher.cpp:34-39, AbsoluteSecurityCore.cpp:88,
\* 96-104, ServerCommunicator.cpp:310-312).
Settled(f) ==
  /\ faults = 0
  /\ ~ (step = "cipher" /\ call.file = f) /\ ~ (step2 = "cipher" /\ call2.file = f)

NeverLostTogether ==
  \A f \in DOMAIN Documents :
    f \notin Contested \/ (f \notin DecryptedTwice /\ Settled(f)) => Retrievable(Documents[f])

\* An encrypted document can be restored whatever the other process does to the others,
\* to the key folder and to the registry.
SealedRestorableTogether ==
  \A f \in DocumentPath \ Contested :
    sealed[f] # <<>> /\ ~ InWork(f) /\ ~ Second!InWork(f) =>
      /\ Exists(f)
      /\ \E d \in Directory :
           /\ Exists(At(d, Md5(disk[f])))
           /\ GammaFile(disk[f], disk[At(d, Md5(disk[f]))]) = Head(sealed[f])

-----------------------------------------------------------------------------
(***************************************************************************)
(* What is left to luck, as in ServerVault: a key is random and its name   *)
(* the MD5 of what it has ciphered.                                        *)
(***************************************************************************)
\* The key file a decryption finds was made for its document.
FindsOwnKey(s, c, key) ==
  s = "core" /\ c.operation = "decrypt" /\ Exists(key) => key \in named[c.file]

\* A key gets a name that no file has, unless both processes have worked on the document,
\* and not the one under which the other process knows its own key.
NamesNewKey(s, c, key, s2, c2) ==
  s = "store" /\ CanRename(c.key, key) =>
    /\ c.file \notin Contested => \A p \in DOMAIN disk : p.name # key.name
    /\ s2 \in WorkSteps /\ c2.operation = "decrypt" => c2.key # key

\* Each process finds only the keys of its document, and names no two keys alike
\* (MD5BasedKeyStorage.cpp:37-60, AbsoluteSecurityCore.cpp:88, 96, 122-142).
NoCoincidence ==
  /\ FindsOwnKey(step, call, KeyPathFor(call.file))
  /\ FindsOwnKey(step2, call2, Second!KeyPathFor(call2.file))
  /\ NamesNewKey(step, call, KeyPathFor(call.file), step2, call2)
  /\ NamesNewKey(step2, call2, Second!KeyPathFor(call2.file), step, call)
=============================================================================
