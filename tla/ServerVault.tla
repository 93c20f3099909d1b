----------------------------- MODULE ServerVault -----------------------------
(***************************************************************************)
(* The kernel implements the vault.  The locks of a document are not taken *)
(* from any history but read off the disk: the key file named after the    *)
(* document's content is its latest lock, the key file named after what    *)
(* this key restores is the one before, and so on; what no key file is     *)
(* named after is inside.                                                  *)
(***************************************************************************)
EXTENDS ServerCommunicator

CONSTANT Absent  \* what a place without a document holds

ASSUME AbsentAssumption == Absent \notin Content

\* The key files named after a content, those that restore it, and the one the core
\* would find.
KeysOf(content) == {p \in DOMAIN disk : p.name = Md5(content)}

KeysTo(content) == {p \in DOMAIN disk : p.name = Md5(GammaFile(content, disk[p]))}

KeyOf(content) == CHOOSE p \in KeysOf(content) : TRUE

Restored(content) == GammaFile(content, disk[KeyOf(content)])

Bare(content) == [inside |-> content, locks |-> <<>>]

Under(d, rest) == [rest EXCEPT !.locks = <<d>> \o @]

\* What the key files say about the contents when at most n of them are used in a row.
Opening[n \in 0..MaxCalls] ==
  [c \in Content |->
     IF n = 0 \/ KeysOf(c) = {} THEN Bare(c)
     ELSE Under(KeyOf(c).directory, Opening[n - 1][Restored(c)])]

\* A document has at most one lock per call.
Opened(content) == Opening[MaxCalls][content]

\* What a document counts for.  While it is in work it counts for what it was: an
\* encryption takes effect when its key gets its name, a decryption when its key is
\* removed.
StandsAt(f) == IF InWork(f) THEN call.before ELSE disk[f]

Standing(f) == IF Exists(f) THEN Opened(StandsAt(f)) ELSE Bare(Absent)

Work ==
  IF InFileCall
  THEN [operation |-> call.operation, file |-> call.file,
        effective |-> step \in {"wipe", "remove"}]
  ELSE [operation |-> "none"]

\* The next process will use what is in the registry, or the default.
Saved == Stored(registry.storage, DefaultStoragePath)

\* The directory the kernel works in stays the one it was started in.
FolderOf(s, place) == Resolve(s)

\* The refinement mapping.
Vault == INSTANCE FileVault WITH
  Document       <- DocumentPath,
  Inside         <- Content,
  Storage        <- StoragePath,
  DefaultStorage <- DefaultStoragePath,
  Place          <- {"start"},
  Folder         <- Directory,
  vault          <- [f \in DocumentPath |-> Standing(f)],
  work           <- Work,
  storage        <- storagePath,
  saved          <- Saved,
  place          <- "start",
  failures       <- faults

\* The kernel does what the vault promises: a call that meets no failure adds or takes
\* off exactly one lock of its document before it returns, and what is inside stays
\* what the user wrote; no operation touches another document; a call that fails may
\* ruin its own document only; a change of the key folder, failed or not, leaves every
\* lock where it is (ServerCommunicator.cpp:213-325, AbsoluteSecurityCore.cpp:70-106).
ImplementsVault == Vault!VaultSpec

-----------------------------------------------------------------------------
(***************************************************************************)
(* What is left to luck: the key is random and the digest is MD5, so what  *)
(* the cipher makes of a document is, up to coincidences of 128 bits, a    *)
(* content that has not been seen before.                                  *)
(***************************************************************************)
UnknownToKeys(content) == KeysOf(content) = {} /\ KeysTo(content) = {}

\* No two contents of the model have one digest.
DigestsDiffer == \A c, e \in Content : Md5(c) = Md5(e) => c = e

\* While the core works, the document holds what it was, or what its key restores, or
\* something that no other document holds, no key is named after and no key restores; and
\* what is about to name a new key is not what the document was
\* (AbsoluteSecurityCore.cpp:82-88, 96-100; GammaFileCipher.cpp:48-61).
CipheredIsNew ==
  \/ ~ InFileCall \/ step \notin WorkSteps
  \/ step # "store" /\ disk[call.file] = call.before
  \/ Decrypting /\ disk[call.file] = GammaFile(call.before, disk[call.key])
  \/ /\ disk[call.file] # call.before
     /\ UnknownToKeys(disk[call.file])
     /\ \A g \in DocumentPath \ {call.file} : Exists(g) => disk[g] # disk[call.file]
=============================================================================
