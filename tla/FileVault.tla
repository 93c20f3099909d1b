------------------------------ MODULE FileVault ------------------------------
(***************************************************************************)
(* What File Security promises, without keys, backups and ciphers.  A      *)
(* document is locked any number of times over, and what the user wrote is *)
(* what is inside all its locks.  Each lock lies in a folder, and the      *)
(* latest one can be opened while it lies in the folder in use.  A call    *)
(* works on one document; it takes effect at one moment, by putting one    *)
(* lock on or taking one off, and returns after that.  Only a failure may  *)
(* ruin a document, only that of the call, and only before the call has    *)
(* taken effect.  The storage in use may differ from the one that is saved *)
(* for the next session.  A storage is the name of a folder; which one it  *)
(* denotes may depend on the directory the program works in.               *)
(***************************************************************************)
EXTENDS Naturals, Sequences

CONSTANTS
  Document,  \* places for documents
  Inside,    \* what a document may hold
  Absent,    \* what a place without a document holds
  Storage, DefaultStorage,
  Place,            \* directories the program may work in
  Folder,
  FolderOf(_, _)    \* FolderOf(s, p): the folder that storage s denotes in place p

ASSUME VaultAssumption ==
  /\ DefaultStorage \in Storage /\ Absent \notin Inside
  /\ \A s \in Storage, p \in Place : FolderOf(s, p) \in Folder

VARIABLES
  vault,    \* for each document, what is inside and the folders that hold its locks,
            \* the latest first
  work,     \* the call that is being served
  storage,  \* the storage in use
  saved,    \* the storage of the next session
  place,    \* the directory the program works in
  failures  \* how many operations have failed or were killed

vaultVars == <<vault, work, storage, saved, place, failures>>

Operation == {"encrypt", "decrypt"}

Idle == [operation |-> "none"]

Call == [operation : Operation, file : Document, effective : BOOLEAN]

Unlocked(inside) == [inside |-> inside, locks |-> <<>>]

VaultInit ==
  /\ vault \in [Document -> {Unlocked(inside) : inside \in Inside \cup {Absent}}]
  /\ work = Idle
  /\ storage = DefaultStorage
  /\ saved = DefaultStorage
  /\ place \in Place
  /\ failures = 0

FolderInUse == FolderOf(storage, place)

\* IsFileEncrypted, asked in place p.
LockedIn(f, p) == vault[f].locks # <<>> /\ Head(vault[f].locks) = FolderOf(storage, p)

Locked(f) == LockedIn(f, place)

Begin(operation, f) ==
  /\ work = Idle
  /\ vault[f].inside # Absent
  /\ work' = [operation |-> operation, file |-> f, effective |-> FALSE]
  /\ UNCHANGED <<vault, storage, saved, place, failures>>

Effect(f, locks) ==
  /\ work' = [work EXCEPT !.effective = TRUE]
  /\ vault' = [vault EXCEPT ![f].locks = locks]
  /\ UNCHANGED <<storage, saved, place, failures>>

Pending(operation, f) ==
  work = [operation |-> operation, file |-> f, effective |-> FALSE]

Lock(f) == Pending("encrypt", f) /\ Effect(f, <<FolderInUse>> \o vault[f].locks)

Unlock(f) == Pending("decrypt", f) /\ Locked(f) /\ Effect(f, Tail(vault[f].locks))

Return ==
  /\ work # Idle /\ work.effective
  /\ work' = Idle
  /\ UNCHANGED <<vault, storage, saved, place, failures>>

\* The call is refused, as the decryption of a document that is not locked.
Refuse ==
  /\ work # Idle /\ ~ work.effective
  /\ work' = Idle
  /\ UNCHANGED <<vault, storage, saved, place, failures>>

Ruined(f) == \E inside \in Inside : vault' = [vault EXCEPT ![f] = Unlocked(inside)]

\* A failure before the effect leaves the document as it is, or ruined, or, when only
\* the last step of a decryption has failed, as it should be.
Fail ==
  /\ failures' = failures + 1
  /\ work' = Idle
  /\ \/ UNCHANGED vault
     \/ \E operation \in Operation, f \in Document :
          Pending(operation, f) /\ Ruined(f)
     \/ \E f \in Document :
          /\ Pending("decrypt", f) /\ Locked(f)
          /\ vault' = [vault EXCEPT ![f].locks = Tail(@)]
  /\ UNCHANGED <<storage, saved, place>>

UseStorage(s) ==
  /\ work = Idle
  /\ storage' = s
  /\ UNCHANGED <<vault, work, saved, place, failures>>

SaveStorage ==
  /\ work = Idle
  /\ saved' = storage
  /\ UNCHANGED <<vault, work, storage, place, failures>>

\* The next session starts, wherever that is.
Restart(p) ==
  /\ work = Idle
  /\ storage' = saved
  /\ place' = p
  /\ UNCHANGED <<vault, work, saved, failures>>

\* Between calls the program may come to work in another directory.
GoTo(p) ==
  /\ work = Idle
  /\ place' = p
  /\ UNCHANGED <<vault, work, storage, saved, failures>>

\* The user moves a document between calls; its locks go with it.
Move(f, g) ==
  /\ work = Idle
  /\ vault[f].inside # Absent /\ vault[g].inside = Absent
  /\ vault' = [vault EXCEPT ![g] = vault[f], ![f] = vault[g]]
  /\ UNCHANGED <<work, storage, saved, place, failures>>

VaultNext ==
  \/ \E operation \in Operation, f \in Document : Begin(operation, f)
  \/ \E f \in Document : Lock(f) \/ Unlock(f)
  \/ Return \/ Refuse \/ Fail
  \/ \E s \in Storage : UseStorage(s)
  \/ SaveStorage
  \/ \E p \in Place : Restart(p) \/ GoTo(p)
  \/ \E f, g \in Document : Move(f, g)

VaultSpec == VaultInit /\ [][VaultNext]_vaultVars
=============================================================================
