---------------------- MODULE ServerCommunicatorProofs ----------------------
(***************************************************************************)
(* What a call does to the files, for any number of documents, portions,   *)
(* calls and failures, any keys and any digest, any answers of the         *)
(* progress handler, and whatever the user and the power do: the types,    *)
(* the backup that covers every change of a document, and the exact state  *)
(* of the document in work.                                                *)
(***************************************************************************)
EXTENDS ServerCommunicator, GammaProofs, WellFoundedInduction

-----------------------------------------------------------------------------
(***************************************************************************)
(* Induction.  The library's induction rules are stated for operators; for *)
(* sets, the least element of a set of numbers does the same work.         *)
(***************************************************************************)
LEMMA LeastElement ==
  ASSUME NEW T \in SUBSET Nat, T # {}
  PROVE  \E n \in T : \A m \in T : n <= m
<1>1. IsWellFoundedOn(OpToRel(<, Nat), Nat)
  BY NatLessThanWellFounded
<1>2. PICK n \in T : \A m \in T : ~ (<<m, n>> \in OpToRel(<, Nat))
  BY <1>1, WFMin
<1>3. \A m \in T : ~ (m < n)
  BY <1>2 DEF OpToRel
<1> QED BY <1>3

\* A set of numbers with 0 and with the successor of each of its members below a bound.
LEMMA UpTo ==
  ASSUME NEW T, NEW m \in Nat, 0 \in T,
         \A n \in 0..m : n # m /\ n \in T => n + 1 \in T
  PROVE  0..m \subseteq T
<1> DEFINE Missing == {n \in 0..m : n \notin T}
<1> SUFFICES ASSUME Missing # {} PROVE FALSE
  OBVIOUS
<1>1. PICK n \in Missing : \A k \in Missing : n <= k
  <2>1. Missing \in SUBSET Nat
    OBVIOUS
  <2> HIDE DEF Missing
  <2> QED BY <2>1, LeastElement
<1>2. n # 0 /\ n \in 0..m
  OBVIOUS
<1>3. n - 1 \in 0..m /\ n - 1 # m /\ n - 1 \notin Missing
  BY <1>1, <1>2
<1>4. n - 1 \in T
  BY <1>3
<1>5. (n - 1) + 1 \in T
  BY <1>3, <1>4
<1> QED BY <1>2, <1>5

-----------------------------------------------------------------------------
(***************************************************************************)
(* What someone can read who has every file.                               *)
(***************************************************************************)
\* ReadWith, a function defined by recursion, satisfies its equation.
ReadMore(read) == read \cup {GammaFile(content, key) : content \in read, key \in Keys}

ReadingTurn(n, g) ==
  IF n = 0 THEN {disk[p] : p \in DOMAIN disk} ELSE ReadMore(g[n - 1])

LEMMA ReadingTurns ==
  ASSUME NEW g, NEW h, NEW n \in Nat, n # 0 => g[n - 1] = h[n - 1]
  PROVE  ReadingTurn(n, g) = ReadingTurn(n, h)
BY DEF ReadingTurn

LEMMA ReadingExists ==
  ASSUME NEW m \in Nat
  PROVE  \E g : g = [n \in 0..m |-> ReadingTurn(n, g)]
<1> DEFINE T == {k \in 0..m : \E g : g = [n \in 0..k |-> ReadingTurn(n, g)]}
<1>1. 0 \in T
  <2> DEFINE g == [n \in 0..0 |-> ReadingTurn(n, <<>>)]
  <2>1. \A n \in 0..0 : n = 0 /\ n \in Nat
    OBVIOUS
  <2>2. \A n \in 0..0 : ReadingTurn(n, <<>>) = ReadingTurn(n, g)
    <3> HIDE DEF g
    <3> QED BY <2>1, ReadingTurns
  <2>3. g = [n \in 0..0 |-> ReadingTurn(n, g)]
    BY <2>2
  <2> QED BY <2>3
<1>2. ASSUME NEW k \in 0..m, k # m, k \in T
      PROVE  k + 1 \in T
  <2>1. PICK g : g = [n \in 0..k |-> ReadingTurn(n, g)]
    BY <1>2
  <2> DEFINE h == [n \in 0..(k + 1) |-> IF n = k + 1 THEN ReadingTurn(k + 1, g) ELSE g[n]]
  <2>2. ASSUME NEW n \in 0..(k + 1) PROVE h[n] = ReadingTurn(n, h)
    <3>1. n \in Nat /\ (n # 0 => n - 1 \in 0..k /\ h[n - 1] = g[n - 1])
      OBVIOUS
    <3>2. h[n] = ReadingTurn(n, g)
      <4>1. CASE n = k + 1
        BY <4>1
      <4>2. CASE n # k + 1
        <5>1. n \in 0..k /\ h[n] = g[n]
          BY <4>2
        <5> QED BY <2>1, <5>1
      <4> QED BY <4>1, <4>2
    <3> HIDE DEF h
    <3> QED BY <3>1, <3>2, ReadingTurns
  <2>3. h = [n \in 0..(k + 1) |-> ReadingTurn(n, h)]
    <3>1. h = [n \in 0..(k + 1) |-> h[n]]
      OBVIOUS
    <3> HIDE DEF h
    <3> QED BY <2>2, <3>1
  <2>4. k + 1 \in 0..m
    BY <1>2
  <2> HIDE DEF h
  <2> QED BY <2>3, <2>4
<1>3. 0..m \subseteq T
  <2> HIDE DEF T
  <2> QED BY <1>1, <1>2, UpTo
<1> QED BY <1>3

LEMMA ReadWithUnfolds == \A n \in 0..MaxCalls : ReadWith[n] = ReadingTurn(n, ReadWith)
<1>1. \E g : g = [n \in 0..MaxCalls |-> ReadingTurn(n, g)]
  BY ReadingExists, CoreAssumption
<1>2. ReadWith = CHOOSE g : g = [n \in 0..MaxCalls |-> ReadingTurn(n, g)]
  BY DEF ReadWith, ReadingTurn, ReadMore
<1>3. ReadWith = [n \in 0..MaxCalls |-> ReadingTurn(n, ReadWith)]
  BY <1>1, <1>2
<1> QED BY <1>3

\* What can be read with n keys: what the files hold, and more with each key.
LEMMA ReadWithGrows ==
  /\ \A p \in DOMAIN disk : disk[p] \in ReadWith[0]
  /\ \A n \in 1..MaxCalls : ReadWith[n] = ReadMore(ReadWith[n - 1])
  /\ \A n \in 0..MaxCalls : \A m \in 0..n : ReadWith[m] \subseteq ReadWith[n]
<1>1. MaxCalls \in Nat
  BY CoreAssumption
<1>2. /\ \A p \in DOMAIN disk : disk[p] \in ReadWith[0]
      /\ \A n \in 1..MaxCalls : ReadWith[n] = ReadMore(ReadWith[n - 1])
  <2>1. ReadWith[0] = {disk[p] : p \in DOMAIN disk}
    <3>1. 0 \in 0..MaxCalls
      BY <1>1
    <3>2. ReadWith[0] = ReadingTurn(0, ReadWith)
      BY <3>1, ReadWithUnfolds
    <3>3. \A g : ReadingTurn(0, g) = {disk[p] : p \in DOMAIN disk}
      BY DEF ReadingTurn
    <3> QED BY <3>2, <3>3
  <2>2. ASSUME NEW n \in 1..MaxCalls PROVE ReadWith[n] = ReadMore(ReadWith[n - 1])
    <3>1. n \in 0..MaxCalls /\ n # 0
      BY <1>1
    <3>2. ReadWith[n] = ReadingTurn(n, ReadWith)
      BY <3>1, ReadWithUnfolds
    <3> QED BY <3>1, <3>2 DEF ReadingTurn
  <2> QED BY <2>1, <2>2
<1>3. \A n \in 0..MaxCalls : \A m \in 0..n : ReadWith[m] \subseteq ReadWith[n]
  <2> DEFINE T == {n \in 0..MaxCalls : \A m \in 0..n : ReadWith[m] \subseteq ReadWith[n]}
  <2>1. 0 \in T
    <3>1. \A m \in 0..0 : m = 0
      OBVIOUS
    <3> QED BY <1>1, <3>1
  <2>2. ASSUME NEW n \in 0..MaxCalls, n # MaxCalls, n \in T PROVE n + 1 \in T
    <3>1. /\ n + 1 \in 1..MaxCalls /\ n + 1 \in 0..MaxCalls /\ (n + 1) - 1 = n
          /\ \A m \in 0..(n + 1) : m = n + 1 \/ m \in 0..n
      BY <1>1, <2>2
    <3>2. ReadWith[n] \subseteq ReadWith[n + 1]
      BY <1>2, <3>1 DEF ReadMore
    <3>3. \A m \in 0..n : ReadWith[m] \subseteq ReadWith[n]
      BY <2>2
    <3> QED BY <3>1, <3>2, <3>3
  <2> HIDE DEF T
  <2>3. 0..MaxCalls \subseteq T
    BY <1>1, <2>1, <2>2, UpTo
  <2> QED BY <2>3 DEF T
<1> QED BY <1>2, <1>3

-----------------------------------------------------------------------------
(***************************************************************************)
(* Contents.                                                               *)
(***************************************************************************)
LEMMA PrefixIsContent ==
  ASSUME NEW c \in Content, NEW n \in Nat, 1..n \subseteq DOMAIN c
  PROVE  Prefix(c, n) \in Content
<1>1. /\ Len(c) \in 0..MaxPortions
      /\ DOMAIN c = 1..Len(c)
      /\ c \in [1..Len(c) -> Chunk]
  BY ContentLength
<1>2. n \in 0..MaxPortions
  <2>1. CASE n = 0
    BY <2>1, MaxPortionsAssumption
  <2>2. CASE n # 0
    <3>1. n \in 1..Len(c)
      BY <1>1, <2>2
    <3> QED BY <1>1, <3>1, MaxPortionsAssumption
  <2> QED BY <2>1, <2>2
<1>3. Prefix(c, n) \in [1..n -> Chunk]
  BY <1>1 DEF Prefix
<1> QED BY <1>2, <1>3, FunctionIsContent

\* A portion appended to a prefix gives the next prefix.
LEMMA AppendToPrefix ==
  ASSUME NEW c \in Content, NEW n \in Nat \ {0}, 1..(n - 1) \subseteq DOMAIN c,
         n \in DOMAIN c
  PROVE  /\ Append(Prefix(c, n - 1), c[n]) = Prefix(c, n)
         /\ 1..n \subseteq DOMAIN c
<1>1. c \in [1..Len(c) -> Chunk] /\ DOMAIN c = 1..Len(c)
  BY ContentLength
<1> DEFINE p == Prefix(c, n - 1)
<1>2. p \in Seq(Chunk) /\ Len(p) = n - 1
  BY <1>1 DEF Prefix
<1>3. Append(p, c[n]) = [i \in 1..n |-> IF i = n THEN c[n] ELSE p[i]]
  BY <1>2
<1>4. \A i \in 1..n : (IF i = n THEN c[n] ELSE p[i]) = c[i]
  BY DEF Prefix
<1> QED BY <1>3, <1>4 DEF Prefix

\* A prefix that cannot be continued is everything.
LEMMA PrefixIsAll ==
  ASSUME NEW c \in Content, NEW n \in Nat \ {0}, 1..(n - 1) \subseteq DOMAIN c,
         n \notin DOMAIN c
  PROVE  Prefix(c, n - 1) = c
<1>1. /\ Len(c) \in Nat
      /\ DOMAIN c = 1..Len(c)
      /\ c \in [1..Len(c) -> Chunk]
  BY ContentLength, MaxPortionsAssumption
<1>2. Len(c) = n - 1
  <2>1. ~ n <= Len(c)
    BY <1>1
  <2>2. n - 1 = 0 \/ n - 1 \in DOMAIN c
    OBVIOUS
  <2> QED BY <1>1, <2>1, <2>2
<1> QED BY <1>1, <1>2 DEF Prefix

-----------------------------------------------------------------------------
(***************************************************************************)
(* The driver.                                                             *)
(***************************************************************************)
DriverType ==
  /\ DOMAIN disk \subseteq Path
  /\ \A p \in DOMAIN disk : disk[p] \in Content
  /\ uncommitted \subseteq DOMAIN disk

LEMMA CreateFileType ==
  ASSUME DriverType, NEW p \in Path, NEW c \in Content, CreateFile(p, c)
  PROVE  /\ DriverType'
         /\ p \notin DOMAIN disk
         /\ DOMAIN disk' = DOMAIN disk \cup {p}
         /\ disk'[p] = c
         /\ \A q \in DOMAIN disk : disk'[q] = disk[q]
         /\ uncommitted' = uncommitted \cup {p}
BY DEF DriverType, CreateFile, With, Exists

LEMMA WriteFileType ==
  ASSUME DriverType, NEW p, NEW c \in Content, WriteFile(p, c)
  PROVE  /\ DriverType'
         /\ DOMAIN disk' = DOMAIN disk
         /\ disk'[p] = c
         /\ \A q \in DOMAIN disk : q # p => disk'[q] = disk[q]
         /\ uncommitted' = uncommitted
BY DEF DriverType, WriteFile, Exists

LEMMA RemoveFileType ==
  ASSUME DriverType, NEW p, RemoveFile(p)
  PROVE  /\ DriverType'
         /\ DOMAIN disk' = DOMAIN disk \ {p}
         /\ \A q \in DOMAIN disk' : disk'[q] = disk[q]
BY DEF DriverType, RemoveFile, Without, Restrict, Exists

LEMMA RenameFileType ==
  ASSUME DriverType, NEW p, NEW q \in Path, RenameFile(p, q)
  PROVE  DriverType'
<1>1. p \in DOMAIN disk /\ q \notin DOMAIN disk
  BY DEF RenameFile, CanRename, Exists
<1>2. disk' = With(Without(disk, p), q, disk[p])
  BY DEF RenameFile
<1>3. DOMAIN disk' = (DOMAIN disk \ {p}) \cup {q}
  BY <1>2 DEF With, Without, Restrict
<1>4. \A r \in DOMAIN disk' : disk'[r] \in Content
  BY <1>1, <1>2 DEF DriverType, With, Without, Restrict
<1>5. uncommitted' \subseteq DOMAIN disk'
  BY <1>3 DEF DriverType, RenameFile
<1> QED BY <1>3, <1>4, <1>5 DEF DriverType

LEMMA DropUncommittedType ==
  ASSUME DriverType, DropUncommitted
  PROVE  DriverType'
BY DEF DriverType, DropUncommitted, Restrict

-----------------------------------------------------------------------------
(***************************************************************************)
(* Where a step leaves little to show.                                     *)
(***************************************************************************)
LEMMA TypesOfDriver ==
  ASSUME TypeOK
  PROVE  DriverType
BY DEF TypeOK, DriverType

LEMMA CallEnded ==
  ASSUME TypeOK', step' \in {"idle", "closed"}, call' = NoCall
  PROVE  IInv'
BY DEF IInv, CallMatchesStep, CopyInProgress, BackupIntact, KeyInUse, WorkInPlace,
       Busy, FileSteps, PathSteps, WorkSteps

LEMMA CallSetsPath ==
  ASSUME TypeOK', step' \in PathSteps, call' \in PathCall, call'.next = storagePath'
  PROVE  IInv'
BY DEF IInv, CallMatchesStep, CopyInProgress, BackupIntact, KeyInUse, WorkInPlace,
       Busy, FileSteps, PathSteps, WorkSteps

LEMMA CallDisposes ==
  ASSUME TypeOK', step' \in {"wipe", "remove"}, call' \in FileCall,
         call'.file \in DocumentPath, call'.backup.name \in TempName
  PROVE  IInv'
BY DEF IInv, CallMatchesStep, CopyInProgress, BackupIntact, KeyInUse, WorkInPlace,
       Busy, FileSteps, PathSteps, WorkSteps

\* The three files of a call are told apart by their names.
LEMMA NamesDiffer ==
  ASSUME NEW f \in DocumentPath, NEW b \in Path, b.name \in TempName
  PROVE  f # b /\ f \in Path
<1>1. f.name \in DocumentName /\ f \in Path
  BY ServerAssumption DEF DocumentPath, Path, Name
<1> QED BY <1>1, NameAssumption

LEMMA KeyPathType ==
  ASSUME TypeOK, NEW f \in DOMAIN disk
  PROVE  KeyPathFor(f) \in Path /\ KeyPathFor(f).name \in KeyName
BY CoreAssumption, NameAssumption DEF TypeOK, KeyPathFor, At, Path, Name

LEMMA TempPathType ==
  ASSUME NEW d \in Directory, NEW p \in FreeTempPaths(d)
  PROVE  p \in Path /\ p.name \in TempName /\ p.directory = d /\ ~ Exists(p)
BY DEF FreeTempPaths, At, Path, Name

\* What the types and the step say of a call in work.
LEMMA FileOfCall ==
  ASSUME TypeOK, CallMatchesStep, step \in {"core"} \cup WorkSteps
  PROVE  /\ call \in FileCall /\ call.file \in DocumentPath
         /\ call.file \in Path /\ call.backup \in Path /\ call.backup.name \in TempName
         /\ call.before \in Content /\ call.cursor \in Cursor
         /\ Exists(call.file) /\ Exists(call.backup) /\ call.file # call.backup
         /\ disk[call.file] \in Content
         /\ call.backup.directory = call.file.directory
<1>1. /\ call \in FileCall /\ call.file \in DocumentPath /\ call.backup.name \in TempName
      /\ Exists(call.file) /\ Exists(call.backup)
      /\ call.backup.directory = call.file.directory
  BY DEF CallMatchesStep, FileSteps, WorkSteps
<1>2. call.file \in Path /\ call.backup \in Path /\ call.before \in Content /\ call.cursor \in Cursor
  BY <1>1 DEF FileCall
<1>3. disk[call.file] \in Content
  BY <1>1 DEF TypeOK, Exists
<1> QED BY <1>1, <1>2, <1>3, NamesDiffer

LEMMA AbandonType ==
  ASSUME TypeOK, Abandon
  PROVE  sealed' \in [DocumentPath -> Seq(Content)]
<1>1. <<>> \in Seq(Content) /\ sealed \in [DocumentPath -> Seq(Content)]
  BY DEF TypeOK
<1>2. CASE InFileCall /\ HalfDone
  <2>1. sealed' = [sealed EXCEPT ![call.file] = <<>>]
    BY <1>2 DEF Abandon
  <2> QED BY <1>1, <2>1
<1>3. CASE ~ (InFileCall /\ HalfDone)
  BY <1>1, <1>3 DEF Abandon
<1> QED BY <1>2, <1>3

-----------------------------------------------------------------------------
(***************************************************************************)
(* Steps between calls.                                                    *)
(***************************************************************************)
LEMMA InitInvariant == Init => IInv
<1> SUFFICES ASSUME Init PROVE IInv
  OBVIOUS
<1>1. /\ DOMAIN disk \subseteq Path
      /\ \A p \in DOMAIN disk : disk[p] \in Content
      /\ directories \subseteq Directory
  BY ServerAssumption DEF Init, DocumentPath, Path, Name
<1>2. TypeOK
  BY <1>1, ServerAssumption, CoreAssumption DEF Init, TypeOK, Steps, WipeMethod, Registry
<1> QED BY <1>2 DEF Init, IInv, CallMatchesStep, CopyInProgress, BackupIntact, KeyInUse,
       WorkInPlace, Busy, FileSteps, PathSteps, WorkSteps

LEMMA ProcessStep ==
  ASSUME TypeOK, CallMatchesStep, Construct \/ ConstructFails \/ Close
  PROVE  IInv'
<1>1. CASE Construct
  <2>1. /\ registry'.storage \in StoragePath
        /\ registry' \in [storage : StoragePath, core : {"absolute_security"},
                          wiper : WipeMethod]
    BY <1>1, ServerAssumption
       DEF Construct, QueryRegistry, Stored, TypeOK, WipeMethod, CoreType, Registry
  <2>2. directories' \subseteq Directory
    BY <1>1, <2>1, CoreAssumption DEF Construct, CreateDirectory, TypeOK
  <2>3. TypeOK'
    BY <1>1, <2>1, <2>2 DEF Construct, TypeOK, Steps, Registry
  <2>4. call' = NoCall
    BY <1>1 DEF Construct, CallMatchesStep, Busy
  <2> QED BY <1>1, <2>3, <2>4, CallEnded DEF Construct
<1>2. CASE ConstructFails
  <2>1. registry' \in Registry
    BY <1>2, ServerAssumption DEF ConstructFails, Stored, WipeMethod, TypeOK, Registry
  <2>2. TypeOK'
    BY <1>2, <2>1, ServerAssumption
       DEF ConstructFails, Fault, TypeOK, driverVars, coreVars
  <2>3. step' = "closed" /\ call' = NoCall
    BY <1>2 DEF ConstructFails, CallMatchesStep, Busy, coreVars
  <2> QED BY <2>2, <2>3, CallEnded
<1>3. CASE Close
  <2>1. TypeOK'
    BY <1>3 DEF Close, TypeOK, Steps, driverVars, settingVars
  <2>2. step' = "closed" /\ call' = NoCall
    BY <1>3 DEF Close, CallMatchesStep, Busy
  <2> QED BY <2>1, <2>2, CallEnded
<1> QED BY <1>1, <1>2, <1>3

LEMMA SettingsStep ==
  ASSUME TypeOK, CallMatchesStep,
         \/ \E path \in StoragePath : SetKeyStoragePath(path)
         \/ SaveKeyStoragePath \/ RemovePreviousPath
         \/ \E value \in WipeMethod : SetWipeMethod(value)
         \/ \E core \in CoreType : SetCipher(core)
  PROVE  IInv'
<1>1. ASSUME NEW path \in StoragePath, SetKeyStoragePath(path)
      PROVE  IInv'
  <2>1. directories' \subseteq Directory
    BY <1>1, CoreAssumption DEF SetKeyStoragePath, CreateDirectory, TypeOK
  <2>2. call' \in PathCall /\ call'.next = storagePath' /\ step' \in PathSteps
    BY <1>1 DEF SetKeyStoragePath, PathCall, PathSteps, TypeOK
  <2>3. calls' \in 0..MaxCalls
    BY <1>1, CoreAssumption DEF SetKeyStoragePath, TypeOK
  <2>4. TypeOK'
    BY <1>1, <2>1, <2>2, <2>3 DEF SetKeyStoragePath, TypeOK, Steps, settingVars
  <2> QED BY <2>2, <2>4, CallSetsPath
<1>2. CASE SaveKeyStoragePath
  <2>1. call \in PathCall /\ call.next = storagePath
    BY <1>2 DEF SaveKeyStoragePath, CallMatchesStep, PathSteps
  <2>2. registry' \in Registry
    BY <1>2, <2>1 DEF SaveKeyStoragePath, TypeOK, PathCall, Registry
  <2>3. TypeOK'
    BY <1>2, <2>2 DEF SaveKeyStoragePath, TypeOK, Steps, driverVars
  <2> QED BY <1>2, <2>1, <2>3, CallSetsPath DEF SaveKeyStoragePath, PathSteps
<1>3. CASE RemovePreviousPath
  <2>1. directories' \subseteq Directory
    BY <1>3 DEF RemovePreviousPath, RemoveDirectory, TypeOK
  <2>2. TypeOK'
    BY <1>3, <2>1 DEF RemovePreviousPath, EndCall, TypeOK, Steps, settingVars
  <2> QED BY <1>3, <2>2, CallEnded DEF RemovePreviousPath, EndCall
<1>4. ASSUME NEW value \in WipeMethod, SetWipeMethod(value)
      PROVE  IInv'
  <2>1. registry' \in Registry
    BY <1>4 DEF SetWipeMethod, TypeOK, Registry
  <2>2. calls' \in 0..MaxCalls /\ faults' \in 0..MaxFaults
    BY <1>4, CoreAssumption, ServerAssumption DEF SetWipeMethod, Fault, TypeOK
  <2>3. TypeOK'
    BY <1>4, <2>1, <2>2 DEF SetWipeMethod, TypeOK, driverVars
  <2>4. step' = "idle" /\ call' = NoCall
    BY <1>4 DEF SetWipeMethod, CallMatchesStep, Busy
  <2> QED BY <2>3, <2>4, CallEnded
<1>5. ASSUME NEW core \in CoreType, SetCipher(core)
      PROVE  IInv'
  <2>1. registry' \in Registry
    BY <1>5 DEF SetCipher, TypeOK, Registry
  <2>2. calls' \in 0..MaxCalls /\ faults' \in 0..MaxFaults
    BY <1>5, CoreAssumption, ServerAssumption DEF SetCipher, Fault, TypeOK
  <2>3. TypeOK'
    BY <1>5, <2>1, <2>2 DEF SetCipher, TypeOK, driverVars
  <2>4. step' = "idle" /\ call' = NoCall
    BY <1>5 DEF SetCipher, CallMatchesStep, Busy
  <2> QED BY <2>3, <2>4, CallEnded
<1> QED BY <1>1, <1>2, <1>3, <1>4, <1>5

LEMMA UserStep ==
  ASSUME IInv,
         \/ \E f, g \in DocumentPath : UserMoves(f, g) \/ UserCopies(f, g)
         \/ UserDeletesKeyFolder
  PROVE  IInv'
<1>1. DriverType
  BY TypesOfDriver DEF IInv
<1>2. DocumentPath \subseteq Path
  BY ServerAssumption DEF DocumentPath, Path, Name
<1>3. ASSUME NEW f \in DocumentPath, NEW g \in DocumentPath, UserMoves(f, g)
      PROVE  IInv'
  <2>1. DriverType'
    BY <1>1, <1>2, <1>3, RenameFileType DEF UserMoves
  <2>2. sealed' \in [DocumentPath -> Seq(Content)]
    BY <1>3 DEF UserMoves, IInv, TypeOK
  <2>3. TypeOK'
    BY <1>3, <2>1, <2>2 DEF UserMoves, IInv, TypeOK, DriverType, coreVars, settingVars
  <2>4. step' \in {"idle", "closed"} /\ call' = NoCall
    BY <1>3 DEF UserMoves, Busy, coreVars, IInv, CallMatchesStep
  <2> QED BY <2>3, <2>4, CallEnded
<1>4. ASSUME NEW f \in DocumentPath, NEW g \in DocumentPath, UserCopies(f, g)
      PROVE  IInv'
  <2>1. disk[f] \in Content
    BY <1>4 DEF UserCopies, Exists, IInv, TypeOK
  <2>2. DriverType'
    BY <1>1, <1>2, <1>4, <2>1, CreateFileType DEF UserCopies
  <2>3. TypeOK'
    BY <1>4, <2>2 DEF UserCopies, IInv, TypeOK, DriverType, coreVars, settingVars
  <2>4. step' \in {"idle", "closed"} /\ call' = NoCall
    BY <1>4 DEF UserCopies, Busy, coreVars, IInv, CallMatchesStep
  <2> QED BY <2>3, <2>4, CallEnded
<1>5. CASE UserDeletesKeyFolder
  <2>1. TypeOK'
    BY <1>5 DEF UserDeletesKeyFolder, IInv, TypeOK, coreVars, settingVars
  <2>2. step' \in {"idle", "closed"} /\ call' = NoCall
    BY <1>5 DEF UserDeletesKeyFolder, Busy, coreVars, IInv, CallMatchesStep
  <2> QED BY <2>1, <2>2, CallEnded
<1> QED BY <1>3, <1>4, <1>5

LEMMA FailureStep ==
  ASSUME TypeOK, CallMatchesStep, DriverFails \/ Crash \/ PowerLoss
  PROVE  IInv'
<1>1. sealed' \in [DocumentPath -> Seq(Content)]
  BY AbandonType DEF DriverFails, Throw, Crash, PowerLoss
<1>2. faults' \in 0..MaxFaults
  BY ServerAssumption DEF DriverFails, Crash, PowerLoss, Fault, TypeOK
<1>3. step' \in {"idle", "closed"} /\ call' = NoCall
  BY DEF DriverFails, Throw, EndCall, Crash, PowerLoss
<1>4. CASE DriverFails
  <2>1. TypeOK'
    BY <1>1, <1>2, <1>3, <1>4
       DEF DriverFails, Throw, TypeOK, Steps, driverVars, settingVars
  <2> QED BY <1>3, <2>1, CallEnded
<1>5. CASE Crash
  <2>1. TypeOK'
    BY <1>1, <1>2, <1>3, <1>5 DEF Crash, TypeOK, Steps, driverVars, settingVars
  <2> QED BY <1>3, <2>1, CallEnded
<1>6. CASE PowerLoss
  <2>1. DriverType'
    BY <1>6, TypesOfDriver, DropUncommittedType DEF PowerLoss, IInv
  <2>2. TypeOK'
    BY <1>1, <1>2, <1>3, <1>6, <2>1
       DEF PowerLoss, DropUncommitted, TypeOK, DriverType, Steps, settingVars
  <2> QED BY <1>3, <2>2, CallEnded
<1> QED BY <1>4, <1>5, <1>6

-----------------------------------------------------------------------------
(***************************************************************************)
(* Steps of a file call.                                                   *)
(***************************************************************************)
LEMMA BeginStep ==
  ASSUME TypeOK, NEW op \in {"encrypt", "decrypt"}, NEW f \in DocumentPath, BeginCall(op, f)
  PROVE  IInv'
<1>1. DriverType
  BY TypesOfDriver
<1>2. PICK b \in FreeTempPaths(f.directory) :
        /\ CreateFile(b, <<>>)
        /\ call' = [operation |-> op, file |-> f, before |-> disk[f],
                    backup |-> b, key |-> NoFile, cursor |-> FirstPortion]
  BY DEF BeginCall
<1>3. f.directory \in Directory /\ f \in Path
  BY ServerAssumption DEF DocumentPath, Path, Name
<1>4. b \in Path /\ b.name \in TempName /\ b.directory = f.directory
  BY <1>2, <1>3, TempPathType
<1>5. <<>> \in Content
  BY EmptyContent
<1>6. /\ DriverType'
      /\ DOMAIN disk' = DOMAIN disk \cup {b}
      /\ disk'[b] = <<>>
      /\ \A q \in DOMAIN disk : disk'[q] = disk[q]
  BY <1>1, <1>2, <1>4, <1>5, CreateFileType
<1>7. f \in DOMAIN disk /\ disk[f] \in Content /\ disk'[f] = disk[f]
  BY <1>1, <1>6 DEF BeginCall, Exists, DriverType
<1>8. FirstPortion \in Cursor
  BY ZeroChunkAssumption DEF FirstPortion, Cursor, Reply
<1>9. call' \in FileCall
  BY <1>2, <1>3, <1>4, <1>7, <1>8 DEF FileCall
<1>10. calls' \in 0..MaxCalls
  BY CoreAssumption DEF BeginCall, TypeOK
<1>11. TypeOK'
  BY <1>6, <1>9, <1>10 DEF BeginCall, TypeOK, DriverType, Steps, settingVars
<1>12. step' = "backup"
  BY DEF BeginCall
<1>13. CallMatchesStep'
  BY <1>2, <1>4, <1>6, <1>7, <1>9, <1>12
     DEF CallMatchesStep, Busy, PathSteps, FileSteps, WorkSteps, Exists
<1>14. CopyInProgress'
  <2>1. Prefix(disk[f], 0) = <<>>
    BY DEF Prefix
  <2>2. call'.cursor.position = 1 /\ call'.before = disk[f] /\ call'.file = f /\ call'.backup = b
    BY <1>2 DEF FirstPortion
  <2>3. 1..(call'.cursor.position - 1) = {} /\ call'.cursor.position - 1 = 0
    BY <2>2
  <2>4. disk'[call'.file] = call'.before
    BY <1>7, <2>2
  <2>5. disk'[call'.backup] = Prefix(call'.before, call'.cursor.position - 1)
    BY <1>6, <2>1, <2>2, <2>3
  <2> QED BY <2>3, <2>4, <2>5 DEF CopyInProgress
<1> QED BY <1>11, <1>12, <1>13, <1>14
        DEF IInv, BackupIntact, KeyInUse, WorkInPlace, WorkSteps

LEMMA CopyPortionStep ==
  ASSUME IInv, CopyPortion
  PROVE  IInv'
<1>1. DriverType /\ step = "backup"
  BY TypesOfDriver DEF IInv, CopyPortion
<1>2. /\ call \in FileCall /\ call.file \in DocumentPath /\ call.backup.name \in TempName
      /\ Exists(call.file) /\ Exists(call.backup)
      /\ call.backup.directory = call.file.directory
  BY <1>1 DEF IInv, CallMatchesStep, FileSteps
<1>3. /\ disk[call.file] = call.before
      /\ 1..(call.cursor.position - 1) \subseteq DOMAIN call.before
      /\ disk[call.backup] = Prefix(call.before, call.cursor.position - 1)
  BY <1>1 DEF IInv, CopyInProgress
<1> DEFINE n == call.cursor.position
<1>4. n \in Nat \ {0} /\ call.before \in Content /\ call.backup \in Path
  BY <1>2 DEF FileCall, Cursor
<1>5. n \in DOMAIN call.before
  BY <1>3 DEF CopyPortion, PortionLeft
<1>6. /\ Append(disk[call.backup], disk[call.file][n]) = Prefix(call.before, n)
      /\ 1..n \subseteq DOMAIN call.before
  BY <1>3, <1>4, <1>5, AppendToPrefix
<1>7. Prefix(call.before, n) \in Content
  BY <1>4, <1>6, PrefixIsContent
<1>8. call.file # call.backup
  BY <1>2, <1>4, NamesDiffer
<1>9. /\ DriverType'
      /\ DOMAIN disk' = DOMAIN disk
      /\ disk'[call.backup] = Prefix(call.before, n)
      /\ disk'[call.file] = disk[call.file]
  <2>1. WriteFile(call.backup, Prefix(call.before, n))
    BY <1>6 DEF CopyPortion
  <2> QED BY <1>1, <1>2, <1>7, <1>8, <2>1, WriteFileType DEF Exists
<1>10. /\ call' \in FileCall
       /\ call'.cursor.position = n + 1
       /\ call'.file = call.file /\ call'.backup = call.backup /\ call'.before = call.before
  BY <1>2, <1>4 DEF CopyPortion, FileCall, Cursor
<1>11. step' = "backup"
  BY <1>1 DEF CopyPortion
<1>12. TypeOK'
  BY <1>9, <1>10, <1>11 DEF CopyPortion, IInv, TypeOK, DriverType, Steps, settingVars
<1>13. CallMatchesStep'
  BY <1>2, <1>9, <1>10, <1>11
     DEF CallMatchesStep, Busy, PathSteps, FileSteps, WorkSteps, Exists
<1>14. CopyInProgress'
  <2>1. call'.cursor.position - 1 = n
    BY <1>4, <1>10
  <2> QED BY <1>3, <1>6, <1>9, <1>10, <2>1 DEF CopyInProgress
<1> QED BY <1>11, <1>12, <1>13, <1>14
        DEF IInv, BackupIntact, KeyInUse, WorkInPlace, WorkSteps

LEMMA CommitBackupStep ==
  ASSUME IInv, CommitBackup
  PROVE  IInv'
<1>1. step = "backup" /\ step' = "core" /\ call' = call /\ disk' = disk
  BY DEF CommitBackup, Commit
<1>2. /\ call \in FileCall /\ call.file \in DocumentPath /\ call.backup.name \in TempName
      /\ Exists(call.file) /\ Exists(call.backup)
      /\ call.backup.directory = call.file.directory
  BY <1>1 DEF IInv, CallMatchesStep, FileSteps
<1>3. /\ disk[call.file] = call.before
      /\ 1..(call.cursor.position - 1) \subseteq DOMAIN call.before
      /\ disk[call.backup] = Prefix(call.before, call.cursor.position - 1)
  BY <1>1 DEF IInv, CopyInProgress
<1>4. call.cursor.position \in Nat \ {0} /\ call.before \in Content
  BY <1>2 DEF FileCall, Cursor
<1>5. call.cursor.position \notin DOMAIN call.before
  BY <1>3 DEF CommitBackup, PortionLeft
<1>6. disk[call.backup] = call.before
  BY <1>3, <1>4, <1>5, PrefixIsAll
<1>7. call.backup \notin uncommitted' /\ uncommitted' \subseteq uncommitted
  BY DEF CommitBackup, Commit
<1>8. TypeOK'
  BY <1>1, <1>7 DEF CommitBackup, IInv, TypeOK, Steps, settingVars
<1>9. CallMatchesStep'
  BY <1>1, <1>2 DEF CallMatchesStep, Busy, PathSteps, FileSteps, WorkSteps, Exists
<1>10. BackupIntact'
  BY <1>1, <1>2, <1>6, <1>7 DEF BackupIntact, Exists
<1> QED BY <1>1, <1>3, <1>8, <1>9, <1>10
        DEF IInv, CopyInProgress, KeyInUse, WorkInPlace, WorkSteps

\* What a call knows while the core works.
LEMMA FilesOfCall ==
  ASSUME IInv, step \in {"core"} \cup WorkSteps
  PROVE  /\ call \in FileCall /\ call.file \in DocumentPath
         /\ call.file \in Path /\ call.backup \in Path /\ call.backup.name \in TempName
         /\ call.before \in Content /\ call.cursor \in Cursor
         /\ Exists(call.file) /\ Exists(call.backup) /\ call.file # call.backup
         /\ disk[call.file] \in Content /\ disk[call.backup] = call.before
         /\ call.backup \notin uncommitted
         /\ call.backup.directory = call.file.directory
<1>1. disk[call.backup] = call.before /\ call.backup \notin uncommitted
  BY DEF IInv, BackupIntact, WorkSteps
<1> QED BY <1>1, FileOfCall DEF IInv

LEMMA CursorUpdated ==
  ASSUME NEW c \in FileCall, NEW k \in Path
  PROVE  [c EXCEPT !.key = k, !.cursor = FirstPortion] \in FileCall
<1>1. FirstPortion \in Cursor
  BY ZeroChunkAssumption DEF FirstPortion, Cursor, Reply
<1> QED BY <1>1 DEF FileCall

\* The cipher is about to work with a key file: what has to hold for it.
LEMMA WorkBegins ==
  ASSUME IInv, step = "core", DriverType', TypeOK', step' = "cipher",
         NEW k \in Path, call' = [call EXCEPT !.key = k, !.cursor = FirstPortion],
         k \in DOMAIN disk', k # call.backup, k.name \notin DocumentName,
         DOMAIN disk \subseteq DOMAIN disk',
         \A q \in DOMAIN disk : disk'[q] = disk[q],
         call.backup \notin uncommitted'
  PROVE  IInv'
<1>1. /\ call \in FileCall /\ call.file \in DocumentPath
      /\ call.backup.name \in TempName /\ call.before \in Content
      /\ Exists(call.file) /\ Exists(call.backup) /\ disk[call.backup] = call.before
      /\ call.backup.directory = call.file.directory
  BY FilesOfCall
<1>2. disk[call.file] = call.before
  BY DEF IInv, CopyInProgress
<1>3. /\ call' \in FileCall /\ call'.file = call.file /\ call'.backup = call.backup
      /\ call'.before = call.before /\ call'.key = k /\ call'.cursor = FirstPortion
  <2>1. call' \in FileCall
    BY <1>1, CursorUpdated
  <2> QED BY <1>1, <2>1 DEF FileCall
<1>4. /\ disk'[call.file] = call.before /\ disk'[call.backup] = call.before
      /\ call.file \in DOMAIN disk' /\ call.backup \in DOMAIN disk'
  BY <1>1, <1>2 DEF Exists
<1>5. CallMatchesStep'
  BY <1>1, <1>3, <1>4 DEF CallMatchesStep, Busy, PathSteps, FileSteps, WorkSteps, Exists
<1>6. CopyInProgress' /\ BackupIntact'
  BY <1>3, <1>4 DEF CopyInProgress, BackupIntact, Exists
<1>7. KeyInUse'
  BY <1>3 DEF KeyInUse, FirstPortion, Exists
<1>8. WorkInPlace'
  <2>1. \A i \in DOMAIN call.before : ~ i < 1
    BY <1>1, ContentLength
  <2>2. call'.cursor.position = 1
    BY <1>3 DEF FirstPortion
  <2> QED BY <1>3, <1>4, <2>1, <2>2 DEF WorkInPlace, Exists
<1> QED BY <1>5, <1>6, <1>7, <1>8 DEF IInv

LEMMA CreateKeyFileStep ==
  ASSUME IInv, CreateKeyFile, UNCHANGED <<settingVars, report, faults, sealed>>
  PROVE  IInv'
<1>1. DriverType /\ step = "core" /\ step' = "cipher"
  BY TypesOfDriver DEF IInv, CreateKeyFile
<1>2. PICK p \in FreeTempPaths(Resolve(storagePath)),
           k \in GeneratedKeys(calls, disk[call.file]) :
        /\ CreateFile(p, k)
        /\ call' = [call EXCEPT !.key = p, !.cursor = FirstPortion]
  BY DEF CreateKeyFile
<1>3. p \in Path /\ ~ Exists(p) /\ p.name \in TempName
  BY <1>2, TempPathType, CoreAssumption DEF IInv, TypeOK
<1>4. /\ disk[call.file] \in Content /\ call \in FileCall
      /\ Exists(call.file) /\ Exists(call.backup) /\ call.backup \notin uncommitted
  BY <1>1, FilesOfCall
<1>5. k \in Content
  <2>1. k \in [DOMAIN disk[call.file] -> Chunk]
    BY <1>4, GeneratedKeysAssumption DEF IInv, TypeOK
  <2> QED BY <1>4, <2>1, ContentLength, FunctionIsContent
<1>6. /\ DriverType'
      /\ DOMAIN disk' = DOMAIN disk \cup {p}
      /\ \A q \in DOMAIN disk : disk'[q] = disk[q]
      /\ uncommitted' = uncommitted \cup {p}
  BY <1>1, <1>2, <1>3, <1>5, CreateFileType
<1>7. p # call.backup /\ p.name \notin DocumentName
  BY <1>3, <1>4, NameAssumption
<1>8. TypeOK'
  <2>1. call' \in FileCall
    BY <1>2, <1>3, <1>4, CursorUpdated
  <2> QED BY <1>1, <1>6, <2>1 DEF CreateKeyFile, IInv, TypeOK, DriverType, Steps, settingVars
<1>9. call.backup \notin uncommitted'
  BY <1>4, <1>6, <1>7
<1> QED BY <1>1, <1>2, <1>3, <1>6, <1>7, <1>8, <1>9, WorkBegins

LEMMA LocateKeyStep ==
  ASSUME IInv, LocateKey, UNCHANGED <<settingVars, report, faults, sealed>>
  PROVE  IInv'
<1>1. DriverType /\ step = "core" /\ step' = "cipher"
  BY TypesOfDriver DEF IInv, LocateKey
<1> DEFINE k == KeyPathFor(call.file)
<1>2. /\ call \in FileCall /\ call.file \in DocumentPath
      /\ call.backup \in Path /\ call.backup.name \in TempName
      /\ Exists(call.file) /\ Exists(call.backup) /\ call.backup \notin uncommitted
  BY <1>1, FilesOfCall
<1>3. k \in Path /\ k.name \in KeyName
  BY <1>2, KeyPathType DEF IInv, Exists
<1>4. call' = [call EXCEPT !.key = k, !.cursor = FirstPortion] /\ k \in DOMAIN disk
  BY DEF LocateKey, IsFileEncrypted, Exists
<1>5. disk' = disk /\ uncommitted' = uncommitted /\ directories' = directories
  BY DEF LocateKey, driverVars
<1>6. k # call.backup /\ k.name \notin DocumentName
  BY <1>2, <1>3, NameAssumption
<1>7. TypeOK'
  <2>1. call' \in FileCall
    BY <1>2, <1>3, <1>4, CursorUpdated
  <2> QED BY <1>1, <1>5, <2>1 DEF LocateKey, IInv, TypeOK, Steps, settingVars
<1>8. DriverType'
  BY <1>1, <1>5 DEF DriverType
<1> HIDE DEF k
<1> QED BY <1>1, <1>2, <1>3, <1>4, <1>5, <1>6, <1>7, <1>8, WorkBegins

LEMMA CipherPortionStep ==
  ASSUME IInv, CipherPortion, UNCHANGED <<settingVars, report, faults, sealed>>
  PROVE  IInv'
<1> DEFINE f == call.file
           n == call.cursor.position
           key == disk[call.key]
<1>1. DriverType /\ step = "cipher" /\ step' = "cipher"
  BY TypesOfDriver DEF IInv, CipherPortion
<1>2. /\ call \in FileCall /\ f \in DocumentPath /\ call.backup.name \in TempName
      /\ call.before \in Content /\ call.cursor \in Cursor
      /\ Exists(f) /\ Exists(call.backup) /\ f # call.backup
      /\ disk[f] \in Content /\ disk[call.backup] = call.before
      /\ call.backup \notin uncommitted
      /\ call.backup.directory = f.directory
  BY <1>1, FilesOfCall DEF WorkSteps
<1>3. /\ call.key \in Path /\ Exists(call.key)
      /\ call.key # call.backup /\ call.key.name \notin DocumentName /\ call.key # f
      /\ call.cursor.buffer = IF n = 1 THEN ZeroChunk ELSE KeyAt(key, n - 1)
  BY <1>1, <1>2 DEF IInv, KeyInUse, WorkSteps, DocumentPath
<1>4. key \in Content
  BY <1>1, <1>3 DEF DriverType, Exists
<1>5. /\ DOMAIN disk[f] = DOMAIN call.before
      /\ \A i \in DOMAIN call.before :
           disk[f][i] = IF i < n THEN GammaChunk(call.before[i], KeyAt(key, i))
                        ELSE call.before[i]
  BY <1>1 DEF IInv, WorkInPlace, WorkSteps
<1>6. PICK reply \in Replies :
        call' = [call EXCEPT !.cursor = NextPortion(@, key, reply)]
  BY DEF CipherPortion
<1>7. n \in DOMAIN disk[f] /\ WriteFile(f, GammaPortion(call.cursor, disk[f], key))
  BY DEF CipherPortion, PortionLeft
<1>8. /\ GammaPortion(call.cursor, disk[f], key) \in Content
      /\ DOMAIN GammaPortion(call.cursor, disk[f], key) = DOMAIN disk[f]
  BY <1>2, <1>4, GammaPortionContent
<1>9. KeyBuffer(call.cursor, key) = KeyAt(key, n)
  BY <1>2, <1>3, <1>4, KeyBufferIsKeyAt
<1>10. /\ NextPortion(call.cursor, key, reply) \in Cursor
       /\ NextPortion(call.cursor, key, reply).position = n + 1
       /\ NextPortion(call.cursor, key, reply).buffer = KeyAt(key, n)
  <2>1. reply \in Reply
    BY CoreAssumption
  <2> QED BY <1>2, <1>4, <1>9, <2>1, NextPortionCursor
<1>11. /\ DriverType'
       /\ DOMAIN disk' = DOMAIN disk
       /\ disk'[f] = GammaPortion(call.cursor, disk[f], key)
       /\ \A q \in DOMAIN disk : q # f => disk'[q] = disk[q]
       /\ uncommitted' = uncommitted
  BY <1>1, <1>7, <1>8, WriteFileType
<1>12. /\ call' \in FileCall /\ call'.file = f /\ call'.backup = call.backup
       /\ call'.before = call.before /\ call'.key = call.key
       /\ call'.cursor = NextPortion(call.cursor, key, reply)
  BY <1>2, <1>6, <1>10 DEF FileCall
<1>13. disk'[call.key] = key /\ disk'[call.backup] = call.before
  BY <1>2, <1>3, <1>11 DEF Exists
<1>14. n \in Nat \ {0}
  BY <1>2 DEF Cursor
<1>15. TypeOK'
  BY <1>1, <1>11, <1>12 DEF CipherPortion, IInv, TypeOK, DriverType, Steps, settingVars
<1>16. CallMatchesStep'
  BY <1>1, <1>2, <1>11, <1>12
     DEF CallMatchesStep, Busy, PathSteps, FileSteps, WorkSteps, Exists
<1>17. CopyInProgress' /\ BackupIntact'
  BY <1>1, <1>2, <1>11, <1>12, <1>13 DEF CopyInProgress, BackupIntact, Exists
<1>18. KeyInUse'
  <2>1. n + 1 # 1 /\ (n + 1) - 1 = n
    BY <1>14
  <2> QED BY <1>3, <1>10, <1>11, <1>12, <1>13, <2>1 DEF KeyInUse, Exists
<1>19. WorkInPlace'
  <2>1. ASSUME NEW i \in DOMAIN call.before
        PROVE  disk'[f][i] = IF i < n + 1 THEN GammaChunk(call.before[i], KeyAt(key, i))
                             ELSE call.before[i]
    <3>1. i \in Nat
      BY <1>2, ContentLength, MaxPortionsAssumption
    <3>2. CASE i = n
      <4>1. disk'[f][n] = GammaChunk(disk[f][n], KeyAt(key, n))
        BY <1>7, <1>9, <1>11 DEF GammaPortion
      <4>2. disk[f][n] = call.before[n]
        BY <1>5, <1>14, <3>2
      <4> QED BY <1>14, <3>2, <4>1, <4>2
    <3>3. CASE i # n
      <4>1. disk'[f][i] = disk[f][i]
        BY <1>5, <1>11, <3>3 DEF GammaPortion
      <4>2. i < n + 1 <=> i < n
        BY <1>14, <3>1, <3>3
      <4> QED BY <1>5, <4>1, <4>2
    <3> QED BY <3>2, <3>3
  <2>2. DOMAIN disk'[f] = DOMAIN call.before
    BY <1>5, <1>8, <1>11
  <2> HIDE DEF n
  <2> QED BY <1>2, <1>3, <1>10, <1>11, <1>12, <1>13, <2>1, <2>2 DEF WorkInPlace, Exists
<1> QED BY <1>15, <1>16, <1>17, <1>18, <1>19 DEF IInv

LEMMA CipheredHistory ==
  ASSUME TypeOK, CallMatchesStep, CoreCiphered
  PROVE  sealed' \in [DocumentPath -> Seq(Content)]
<1>1. sealed \in [DocumentPath -> Seq(Content)]
  BY DEF TypeOK
<1>2. CASE Encrypting
  BY <1>1, <1>2 DEF CoreCiphered
<1>3. CASE ~ Encrypting
  <2> DEFINE s == sealed[call.file]
             t == IF s = <<>> \/ PortionLeft(call.cursor, disk[call.file])
                  THEN <<>> ELSE Tail(s)
  <2>1. sealed' = [sealed EXCEPT ![call.file] = t]
    BY <1>3 DEF CoreCiphered
  <2>2. call.file \in DocumentPath
    BY FileOfCall DEF CoreCiphered, CipherReturns, WorkSteps
  <2>3. s \in Seq(Content)
    BY <1>1, <2>2
  <2>4. t \in Seq(Content)
    BY <2>3
  <2> HIDE DEF t
  <2> QED BY <1>1, <2>1, <2>4
<1> QED BY <1>2, <1>3

LEMMA CoreCipheredStep ==
  ASSUME IInv, CoreCiphered
  PROVE  IInv'
<1>1. /\ step = "cipher" /\ step' \in {"store", "remove_key"}
      /\ disk' = disk /\ directories' = directories /\ uncommitted' = uncommitted
      /\ call' = call /\ storagePath' = storagePath /\ calls' = calls
  BY DEF CoreCiphered, CipherReturns, driverVars
<1>2. sealed' \in [DocumentPath -> Seq(Content)]
  BY CipheredHistory DEF IInv
<1>3. TypeOK'
  BY <1>1, <1>2 DEF CoreCiphered, IInv, TypeOK, Steps, settingVars
<1>4. CallMatchesStep'
  BY <1>1 DEF IInv, CallMatchesStep, Busy, PathSteps, FileSteps, WorkSteps, Exists
<1>5. CopyInProgress'
  BY <1>1 DEF CopyInProgress
<1>6. BackupIntact'
  BY <1>1 DEF IInv, BackupIntact, Exists
<1>7. KeyInUse'
  BY <1>1 DEF IInv, KeyInUse, WorkSteps, Exists
<1>8. WorkInPlace'
  BY <1>1 DEF IInv, WorkInPlace, Exists
<1> QED BY <1>3, <1>4, <1>5, <1>6, <1>7, <1>8 DEF IInv

LEMMA CoreThrowsStep ==
  ASSUME TypeOK, CallMatchesStep, CoreThrows \/ CoreBreaks
  PROVE  IInv'
<1>1. DriverType /\ sealed' \in [DocumentPath -> Seq(Content)]
  BY TypesOfDriver, AbandonType DEF CoreThrows, CoreBreaks, Throw
<1>2. step' = "idle" /\ call' = NoCall /\ report' = "failed"
  BY DEF CoreThrows, CoreBreaks, Throw, EndCall
<1>3. CASE CoreThrows
  <2>1. /\ disk' = disk /\ directories' = directories /\ uncommitted' = uncommitted
        /\ storagePath' = storagePath /\ calls' = calls
    BY <1>3 DEF CoreThrows, NoPlaceForKey, KeyMissing, KeyNameTaken, driverVars
  <2>2. TypeOK'
    BY <1>1, <1>2, <1>3, <2>1 DEF CoreThrows, TypeOK, Steps, settingVars
  <2> QED BY <1>2, <2>2, CallEnded
<1>4. CASE CoreBreaks
  <2>1. step = "core"
    BY <1>4 DEF CoreBreaks, KeyWriteFails
  <2>2. PICK p \in FreeTempPaths(Resolve(storagePath)),
             k \in GeneratedKeys(calls, disk[call.file]), n \in 0..MaxPortions :
          /\ n = 0 \/ n \in DOMAIN k
          /\ CreateFile(p, Prefix(k, n))
    BY <1>4 DEF CoreBreaks, KeyWriteFails
  <2>3. p \in Path
    BY <2>2, TempPathType, CoreAssumption DEF TypeOK
  <2>4. k \in Content
    <3>1. disk[call.file] \in Content
      BY <2>1, FileOfCall
    <3>2. k \in [DOMAIN disk[call.file] -> Chunk]
      BY <3>1, GeneratedKeysAssumption DEF TypeOK
    <3> QED BY <3>1, <3>2, ContentLength, FunctionIsContent
  <2>5. Prefix(k, n) \in Content
    <3>1. n \in Nat /\ 1..n \subseteq DOMAIN k
      BY <2>2, <2>4, ContentLength, MaxPortionsAssumption
    <3> QED BY <2>4, <3>1, PrefixIsContent
  <2>6. DriverType'
    BY <1>1, <2>2, <2>3, <2>5, CreateFileType
  <2>7. faults' \in 0..MaxFaults
    BY <1>4, ServerAssumption DEF CoreBreaks, Fault, TypeOK
  <2>8. TypeOK'
    BY <1>1, <1>2, <1>4, <2>6, <2>7
       DEF CoreBreaks, KeyWriteFails, TypeOK, DriverType, Steps, settingVars
  <2> QED BY <1>2, <2>8, CallEnded
<1> QED BY <1>3, <1>4

LEMMA CoreStoresKeyStep ==
  ASSUME TypeOK, CallMatchesStep, CoreStoresKey
  PROVE  IInv'
<1>1. DriverType /\ step = "store" /\ step' = "wipe"
  BY TypesOfDriver DEF CoreStoresKey, StoreKey
<1>2. /\ call \in FileCall /\ call.file \in DocumentPath /\ call.backup.name \in TempName
      /\ call.before \in Content /\ Exists(call.file)
  BY <1>1, FileOfCall DEF WorkSteps
<1>3. KeyPathFor(call.file) \in Path
  BY <1>2, KeyPathType DEF Exists
<1>4. DriverType'
  BY <1>1, <1>3, RenameFileType DEF CoreStoresKey, StoreKey
<1>5. /\ call' \in FileCall /\ call'.file = call.file /\ call'.backup = call.backup
  BY <1>2, <1>3 DEF CoreStoresKey, StoreKey, FileCall
<1>6. sealed' \in [DocumentPath -> Seq(Content)]
  <2>1. sealed \in [DocumentPath -> Seq(Content)]
    BY DEF TypeOK
  <2>2. <<call.before>> \o sealed[call.file] \in Seq(Content)
    BY <1>2, <2>1
  <2>3. sealed' = [sealed EXCEPT ![call.file] = <<call.before>> \o sealed[call.file]]
    BY DEF CoreStoresKey
  <2> QED BY <2>1, <2>2, <2>3
<1>7. TypeOK'
  BY <1>1, <1>4, <1>5, <1>6
     DEF CoreStoresKey, StoreKey, TypeOK, DriverType, Steps, settingVars
<1> QED BY <1>1, <1>2, <1>5, <1>7, CallDisposes

LEMMA CoreRemovesKeyStep ==
  ASSUME TypeOK, CallMatchesStep, CoreRemovesKey
  PROVE  IInv'
<1>1. DriverType /\ step = "remove_key" /\ step' = "remove" /\ call' = call
  BY TypesOfDriver DEF CoreRemovesKey, RemoveKey
<1>2. /\ call \in FileCall /\ call.file \in DocumentPath /\ call.backup.name \in TempName
  BY <1>1, FileOfCall DEF WorkSteps
<1>3. DriverType'
  BY <1>1, RemoveFileType DEF CoreRemovesKey, RemoveKey
<1>4. TypeOK'
  BY <1>1, <1>3
     DEF CoreRemovesKey, RemoveKey, TypeOK, DriverType, Steps, settingVars
<1> QED BY <1>1, <1>2, <1>4, CallDisposes

LEMMA DisposalStep ==
  ASSUME TypeOK, CallMatchesStep, OverwriteBackup \/ RemoveBackup
  PROVE  IInv'
<1>1. DriverType /\ step \in {"wipe", "remove"}
  BY TypesOfDriver DEF OverwriteBackup, RemoveBackup
<1>2. call \in FileCall /\ call.file \in DocumentPath /\ call.backup.name \in TempName
  BY <1>1 DEF CallMatchesStep, FileSteps
<1>3. CASE OverwriteBackup
  <2> DEFINE zeros == [i \in DOMAIN disk[call.backup] |-> ZeroChunk]
  <2>1. Exists(call.backup) /\ WriteFile(call.backup, zeros)
    BY <1>3 DEF OverwriteBackup, WriteFile
  <2>2. disk[call.backup] \in Content
    BY <1>1, <2>1 DEF DriverType, Exists
  <2>3. zeros \in Content
    <3>1. zeros \in [1..Len(disk[call.backup]) -> Chunk]
      BY <2>2, ContentLength, ZeroChunkAssumption
    <3> HIDE DEF zeros
    <3> QED BY <2>2, <3>1, ContentLength, FunctionIsContent
  <2>4. DriverType'
    BY <1>1, <2>1, <2>3, WriteFileType
  <2>5. step' = "remove" /\ call' = call
    BY <1>3 DEF OverwriteBackup
  <2>6. TypeOK'
    BY <1>3, <2>4, <2>5 DEF OverwriteBackup, TypeOK, DriverType, Steps, settingVars
  <2> QED BY <1>2, <2>5, <2>6, CallDisposes
<1>4. CASE RemoveBackup
  <2>1. DriverType'
    BY <1>1, <1>4, RemoveFileType DEF RemoveBackup
  <2>2. step' = "idle" /\ call' = NoCall
    BY <1>4 DEF RemoveBackup, EndCall
  <2>3. TypeOK'
    BY <1>4, <2>1, <2>2 DEF RemoveBackup, TypeOK, DriverType, Steps, settingVars
  <2> QED BY <2>2, <2>3, CallEnded
<1> QED BY <1>3, <1>4

-----------------------------------------------------------------------------
(***************************************************************************)
(* The theorems.                                                           *)
(***************************************************************************)
LEMMA NextInvariant == IInv /\ [Next]_vars => IInv'
<1> SUFFICES ASSUME IInv, [Next]_vars PROVE IInv'
  OBVIOUS
<1>0. TypeOK /\ CallMatchesStep
  BY DEF IInv
<1>1. CASE UNCHANGED vars
  BY <1>1 DEF vars, driverVars, coreVars, IInv, TypeOK, CallMatchesStep, CopyInProgress,
              BackupIntact, KeyInUse, WorkInPlace, Busy, Exists
<1>2. CASE KernelStep
  <2>1. CASE CoreStep
    BY <2>1, CreateKeyFileStep, LocateKeyStep, CipherPortionStep DEF CoreStep
  <2> QED BY <1>0, <1>2, <2>1, CopyPortionStep, CommitBackupStep, CoreThrowsStep, CoreCipheredStep,
             CoreStoresKeyStep, CoreRemovesKeyStep, DisposalStep, SettingsStep, FailureStep
          DEF KernelStep
<1>3. CASE ClientStep
  <2>1. ASSUME NEW f \in DocumentPath, EncryptFile(f) \/ DecryptFile(f)
        PROVE  IInv'
    BY <1>0, <2>1, BeginStep DEF EncryptFile, DecryptFile
  <2> QED BY <1>0, <1>3, <2>1, SettingsStep, ProcessStep DEF ClientStep
<1>4. CASE EnvironmentStep
  BY <1>0, <1>4, FailureStep, UserStep DEF EnvironmentStep
<1> QED BY <1>1, <1>2, <1>3, <1>4 DEF Next

\* The inductive invariant holds in every state the kernel can reach.
THEOREM InvariantHolds == Spec => []IInv
BY InitInvariant, NextInvariant, PTL DEF Spec

\* Every variable keeps its type: no call, whatever fails in it, makes a file, a path or
\* a setting the program could not read back (ServerCommunicator.cpp, whole).
THEOREM TypeCorrect == Spec => []TypeOK
<1>1. IInv => TypeOK
  BY DEF IInv
<1> QED BY <1>1, InvariantHolds, PTL

\* While the core works on a document, its backup is complete and committed
\* (ServerCommunicator.cpp:218-222, 233-236, 364-374).
THEOREM BackupAlwaysIntact == Spec => []BackupIntact
<1>1. IInv => BackupIntact
  BY DEF IInv
<1> QED BY <1>1, InvariantHolds, PTL

\* The document in work is exactly the original with the gamma of the key over the
\* portions passed so far, also for a key that is too short and when the handler stops
\* the loop (GammaFileCipher.cpp:48-61).
THEOREM WorkAlwaysInPlace == Spec => []WorkInPlace
<1>1. IInv => WorkInPlace
  BY DEF IInv
<1> QED BY <1>1, InvariantHolds, PTL

-----------------------------------------------------------------------------
(***************************************************************************)
(* What a step does to a given file: every step but a turn of the cipher   *)
(* keeps every document that a power loss cannot take.                     *)
(***************************************************************************)
Kept(p) == p \in DOMAIN disk' /\ disk'[p] = disk[p]

LEMMA FailureKeeps ==
  ASSUME DriverFails \/ Crash \/ PowerLoss \/ CoreThrows,
         NEW p \in DOMAIN disk, p \notin uncommitted
  PROVE  Kept(p)
<1>1. CASE DriverFails \/ Crash \/ CoreThrows
  BY <1>1 DEF DriverFails, Crash, CoreThrows, NoPlaceForKey, KeyMissing, KeyNameTaken,
              driverVars, Kept
<1>2. CASE PowerLoss
  BY <1>2 DEF PowerLoss, DropUncommitted, Restrict, Kept
<1> QED BY <1>1, <1>2

LEMMA CreationKeeps ==
  ASSUME IInv, CreateKeyFile \/ KeyWriteFails, NEW p \in DOMAIN disk
  PROVE  Kept(p)
BY DEF CreateKeyFile, KeyWriteFails, CreateFile, With, Exists, Kept

LEMMA RemovalKeeps ==
  ASSUME StoreKey \/ RemoveKey, NEW p \in DOMAIN disk, p # call.key
  PROVE  Kept(p)
<1>1. CASE StoreKey
  <2>1. disk' = With(Without(disk, call.key), KeyPathFor(call.file), disk[call.key])
    BY <1>1 DEF StoreKey, RenameFile
  <2>2. KeyPathFor(call.file) \notin DOMAIN disk
    BY <1>1 DEF StoreKey, RenameFile, CanRename, Exists
  <2> QED BY <2>1, <2>2 DEF With, Without, Restrict, Kept
<1>2. CASE RemoveKey
  BY <1>2 DEF RemoveKey, RemoveFile, Without, Restrict, Kept
<1> QED BY <1>1, <1>2

LEMMA BackupStepKeeps ==
  ASSUME CopyPortion \/ CommitBackup \/ OverwriteBackup \/ RemoveBackup,
         NEW p \in DOMAIN disk, p # call.backup
  PROVE  Kept(p)
<1>1. CASE CopyPortion \/ OverwriteBackup
  BY <1>1 DEF CopyPortion, OverwriteBackup, WriteFile, Kept
<1>2. CASE CommitBackup
  BY <1>2 DEF CommitBackup, Commit, Kept
<1>3. CASE RemoveBackup
  BY <1>3 DEF RemoveBackup, RemoveFile, Without, Restrict, Kept
<1> QED BY <1>1, <1>2, <1>3

\* The names of the temporary files of a call and of its key are no document's.
LEMMA DocumentIsNoPart ==
  ASSUME IInv, NEW f \in DocumentPath
  PROVE  /\ step \in FileSteps => f # call.backup
         /\ step \in WorkSteps => f # call.key
<1>1. f.name \in DocumentName
  BY DEF DocumentPath
<1>2. step \in FileSteps => f # call.backup
  BY <1>1, NameAssumption DEF IInv, CallMatchesStep
<1>3. step \in WorkSteps => f # call.key
  BY <1>1 DEF IInv, KeyInUse
<1> QED BY <1>2, <1>3

LEMMA ChangeIsCovered == IInv /\ [Next]_vars => [ChangeIsBackedUp]_vars
<1> SUFFICES ASSUME IInv, Next, Busy,
                    NEW f \in DocumentPath, f \notin uncommitted, Exists(f), ~ Kept(f)
             PROVE  \E b \in DOMAIN disk \ uncommitted :
                      /\ b.directory = f.directory /\ b.name \in TempName
                      /\ disk[b] = call.before
  BY DEF ChangeIsBackedUp, Kept
<1>1. f \in DOMAIN disk
  BY DEF Exists
<1>2. ~ ClientStep
  BY DEF ClientStep, Busy, EncryptFile, DecryptFile, BeginCall, SetKeyStoragePath,
         SetWipeMethod, SetCipher, Construct, ConstructFails, Close
<1>3. ~ EnvironmentStep
  BY <1>1, FailureKeeps DEF EnvironmentStep, UserMoves, UserCopies, UserDeletesKeyFolder
<1>4. ~ (SaveKeyStoragePath \/ RemovePreviousPath \/ DriverFails \/ CoreThrows)
  <2>1. ~ (DriverFails \/ CoreThrows)
    BY <1>1, FailureKeeps
  <2> QED BY <1>1, <2>1 DEF SaveKeyStoragePath, RemovePreviousPath, driverVars, Kept
<1>5. ~ (CopyPortion \/ CommitBackup \/ OverwriteBackup \/ RemoveBackup)
  <2>1. CopyPortion \/ CommitBackup \/ OverwriteBackup \/ RemoveBackup => step \in FileSteps
    BY DEF CopyPortion, CommitBackup, OverwriteBackup, RemoveBackup, FileSteps
  <2> QED BY <1>1, <2>1, DocumentIsNoPart, BackupStepKeeps
<1>6. ~ (CoreStoresKey \/ CoreRemovesKey)
  <2>1. CoreStoresKey \/ CoreRemovesKey => step \in WorkSteps
    BY DEF CoreStoresKey, CoreRemovesKey, StoreKey, RemoveKey, WorkSteps
  <2> QED BY <1>1, <2>1, DocumentIsNoPart, RemovalKeeps DEF CoreStoresKey, CoreRemovesKey
<1>7. ~ (CoreBreaks \/ CoreCiphered \/ CreateKeyFile \/ LocateKey)
  <2>1. ~ (CoreBreaks \/ CreateKeyFile)
    BY <1>1, CreationKeeps DEF CoreBreaks
  <2> QED BY <1>1, <2>1 DEF CoreCiphered, CipherReturns, LocateKey, driverVars, Kept
<1>8. CipherPortion
  BY <1>2, <1>3, <1>4, <1>5, <1>6, <1>7 DEF Next, KernelStep, CoreStep
<1>9. f = call.file
  BY <1>1, <1>8 DEF CipherPortion, WriteFile, Kept
<1>10. step \in {"core"} \cup WorkSteps
  BY <1>8 DEF CipherPortion, WorkSteps
<1> QED BY <1>9, <1>10, FilesOfCall DEF Exists

\* A call changes a document only under the cover of a full and committed backup
\* (ServerCommunicator.cpp:218-222, 233-236).
THEOREM EveryChangeIsBackedUp == Spec => MutationIsBackedUp
<1>1. IInv /\ [Next]_vars => [ChangeIsBackedUp]_vars
  BY ChangeIsCovered
<1> QED BY <1>1, InvariantHolds, PTL DEF Spec, MutationIsBackedUp

LEMMA EndIsCovered == IInv /\ [Next]_vars => [EndKeepsOriginal]_vars
<1> SUFFICES ASSUME IInv, Next, InFileCall, step \notin {"wipe", "remove"},
                    call.file \notin uncommitted, step' \in {"idle", "closed"}
             PROVE  \E p \in DOMAIN disk' : disk'[p] = call.before
  BY DEF EndKeepsOriginal
<1>1. Busy
  BY DEF IInv, CallMatchesStep, InFileCall, NoCall
<1>2. step \notin PathSteps
  BY DEF IInv, CallMatchesStep, InFileCall, PathCall
<1>3. step \in {"backup", "core"} \cup WorkSteps
  BY <1>1, <1>2 DEF IInv, TypeOK, Steps, Busy, PathSteps, WorkSteps
<1>4. \/ DriverFails \/ Crash \/ PowerLoss \/ CoreThrows
      \/ CoreBreaks
  <2>1. ~ ClientStep
    BY <1>1 DEF ClientStep, Busy, EncryptFile, DecryptFile, BeginCall, SetKeyStoragePath,
                SetWipeMethod, SetCipher, Construct, ConstructFails, Close
  <2>2. ~ (\/ \E f, g \in DocumentPath : UserMoves(f, g) \/ UserCopies(f, g)
           \/ UserDeletesKeyFolder)
    BY <1>1 DEF UserMoves, UserCopies, UserDeletesKeyFolder
  <2>3. ~ (CopyPortion \/ CommitBackup \/ CoreStep \/ CoreCiphered \/ CoreStoresKey
           \/ CoreRemovesKey \/ OverwriteBackup)
    BY DEF CopyPortion, CommitBackup, CoreStep, CreateKeyFile, LocateKey, CipherPortion,
           CoreCiphered, CipherReturns, CoreStoresKey, StoreKey, CoreRemovesKey, RemoveKey,
           OverwriteBackup
  <2>4. ~ (RemoveBackup \/ SaveKeyStoragePath \/ RemovePreviousPath)
    BY <1>2 DEF RemoveBackup, SaveKeyStoragePath, RemovePreviousPath, PathSteps
  <2> QED BY <2>1, <2>2, <2>3, <2>4 DEF Next, KernelStep, EnvironmentStep
<1>5. ASSUME NEW p \in DOMAIN disk, p \notin uncommitted PROVE Kept(p)
  BY <1>4, <1>5, FailureKeeps, CreationKeeps DEF CoreBreaks
<1>6. CASE step = "backup"
  <2>1. call.file \in DOMAIN disk /\ disk[call.file] = call.before
    BY <1>6 DEF IInv, CallMatchesStep, CopyInProgress, Exists
  <2> QED BY <1>5, <2>1 DEF Kept
<1>7. CASE step \in {"core"} \cup WorkSteps
  <2>1. /\ call.backup \in DOMAIN disk /\ disk[call.backup] = call.before
        /\ call.backup \notin uncommitted
    BY <1>7, FilesOfCall DEF Exists
  <2> QED BY <1>5, <2>1 DEF Kept
<1> QED BY <1>3, <1>6, <1>7

\* Whatever interrupts a call, what the document held before the call is still in a file
\* (ServerCommunicator.cpp:213-240, 336-341).
THEOREM InterruptionLosesNothing == Spec => InterruptedCallKeepsOriginal
<1>1. IInv /\ [Next]_vars => [EndKeepsOriginal]_vars
  BY EndIsCovered
<1> QED BY <1>1, InvariantHolds, PTL DEF Spec, InterruptedCallKeepsOriginal

-----------------------------------------------------------------------------
(***************************************************************************)
(* A process that does not have the disk to itself: what it knows of its   *)
(* call as long as nobody else touches the files it works with.  Another   *)
(* process may change a document between the copy and the cipher, and take *)
(* a key before the cipher has opened it.                                  *)
(***************************************************************************)
CopySoFar ==
  step = "backup" =>
    /\ disk[call.file] = call.before
    /\ 1..(call.cursor.position - 1) \subseteq DOMAIN call.before
    /\ disk[call.backup] = Prefix(call.before, call.cursor.position - 1)

KeyOfCall ==
  step \in WorkSteps =>
    /\ call.key \in Path /\ call.key # call.backup
    /\ Encrypting => call.key.name \in TempName
    /\ Decrypting => call.key.name \in KeyName
    /\ step = "store" => Encrypting
    /\ step = "remove_key" => Decrypting

\* The cipher has opened the document and the key.
CipherIsOpen == step = "cipher" /\ call.cursor.position > 1

\* The files nobody else may touch: the backup, the new key while its name is temporary,
\* and what the copy or the cipher has open.
Uses(p) ==
  \/ step \in FileSteps /\ p = call.backup
  \/ step \in {"cipher", "store"} /\ Encrypting /\ p = call.key
  \/ step = "backup" /\ p = call.file
  \/ CipherIsOpen /\ p \in {call.file, call.key}

FilesAreThere == \A p : Uses(p) => Exists(p)

SharedInv == TypeOK /\ CallMatchesStep /\ CopySoFar /\ BackupIntact /\ KeyOfCall /\ FilesAreThere

\* The existing file the next step of the call changes or takes away.
Changes(p) ==
  \/ step \in {"backup", "wipe", "remove"} /\ p = call.backup
  \/ step = "cipher" /\ p = call.file
  \/ step \in {"store", "remove_key"} /\ p = call.key

\* The first turn of the cipher opens the document and the key.
Opens(p) == step = "cipher" /\ call.cursor.position = 1 /\ p \in {call.file, call.key}

\* A step leaves p as it is, and committed if it was.
Spared(p) == /\ p \in DOMAIN disk' /\ disk'[p] = disk[p]
             /\ p \in uncommitted' => p \in uncommitted

\* A call that cannot open a file.
OpenFails == Throw /\ UNCHANGED <<driverVars, storagePath, calls, settingVars, faults>>

\* What a process does without the user and the power.
ProcessSteps ==
  \/ KernelStep \/ OpenFails \/ Crash
  \/ \E f \in DocumentPath : EncryptFile(f) \/ DecryptFile(f)
  \/ \E path \in StoragePath : SetKeyStoragePath(path)
  \/ Construct \/ Close

QuietSteps == Steps \ ({"core"} \cup WorkSteps)

LEMMA SharedIsEnough ==
  ASSUME SharedInv, step \in QuietSteps
  PROVE  IInv
<1>1. CopyInProgress /\ KeyInUse /\ WorkInPlace
  BY DEF SharedInv, QuietSteps, Steps, WorkSteps, CopySoFar, CopyInProgress, KeyInUse, WorkInPlace
<1> QED BY <1>1 DEF SharedInv, IInv

\* What a step has to leave for SharedInv, by the step it leads to.
LEMMA SharedOutsideFiles ==
  ASSUME IInv', step' \in {"idle", "closed"} \cup PathSteps
  PROVE  SharedInv'
<1>1. KeyOfCall' /\ FilesAreThere'
  BY DEF KeyOfCall, FilesAreThere, Uses, CipherIsOpen, WorkSteps, FileSteps, PathSteps
<1> QED BY <1>1 DEF SharedInv, IInv, CopySoFar, CopyInProgress

LEMMA SharedInCopy ==
  ASSUME IInv', step' \in {"backup", "core"}
  PROVE  SharedInv'
<1>1. Exists(call.file)' /\ Exists(call.backup)'
  BY DEF IInv, CallMatchesStep
<1>2. KeyOfCall' /\ FilesAreThere'
  BY <1>1 DEF KeyOfCall, FilesAreThere, Uses, CipherIsOpen, WorkSteps
<1> QED BY <1>2 DEF SharedInv, IInv, CopySoFar, CopyInProgress

LEMMA SharedInDisposal ==
  ASSUME IInv', step' \in {"wipe", "remove"}, Exists(call.backup)'
  PROVE  SharedInv'
<1>1. KeyOfCall' /\ FilesAreThere'
  BY DEF KeyOfCall, FilesAreThere, Uses, CipherIsOpen, WorkSteps
<1> QED BY <1>1 DEF SharedInv, IInv, CopySoFar, CopyInProgress

LEMMA SharedInWork ==
  ASSUME TypeOK', CallMatchesStep', step' \in WorkSteps, KeyOfCall',
         disk'[call'.backup] = call'.before, call'.backup \notin uncommitted',
         step' \in {"cipher", "store"} /\ Encrypting' => Exists(call.key)',
         CipherIsOpen' => Exists(call.key)'
  PROVE  SharedInv'
<1>1. Exists(call.file)' /\ Exists(call.backup)'
  BY DEF CallMatchesStep
<1>2. BackupIntact' /\ CopySoFar'
  BY <1>1 DEF BackupIntact, CopySoFar, WorkSteps
<1>3. FilesAreThere'
  BY <1>1 DEF FilesAreThere, Uses, WorkSteps, FileSteps
<1> QED BY <1>2, <1>3 DEF SharedInv

LEMMA CreateKeyFileShared ==
  ASSUME SharedInv, CreateKeyFile, UNCHANGED <<settingVars, report, faults, sealed>>
  PROVE  SharedInv'
<1>1. DriverType /\ TypeOK /\ CallMatchesStep /\ step = "core" /\ step' = "cipher"
  BY TypesOfDriver DEF SharedInv, CreateKeyFile
<1>2. PICK p \in FreeTempPaths(Resolve(storagePath)),
           k \in GeneratedKeys(calls, disk[call.file]) :
        /\ CreateFile(p, k)
        /\ call' = [call EXCEPT !.key = p, !.cursor = FirstPortion]
  BY DEF CreateKeyFile
<1>3. p \in Path /\ ~ Exists(p) /\ p.name \in TempName
  BY <1>1, <1>2, TempPathType, CoreAssumption DEF TypeOK
<1>4. /\ disk[call.file] \in Content /\ call \in FileCall /\ call.file \in DocumentPath
      /\ Exists(call.file) /\ Exists(call.backup) /\ call.backup.name \in TempName
      /\ call.backup.directory = call.file.directory
  BY <1>1, FileOfCall
<1>5. disk[call.backup] = call.before /\ call.backup \notin uncommitted
  BY <1>1 DEF SharedInv, BackupIntact
<1>6. k \in Content
  <2>1. k \in [DOMAIN disk[call.file] -> Chunk]
    BY <1>1, <1>4, GeneratedKeysAssumption DEF TypeOK
  <2> QED BY <1>4, <2>1, ContentLength, FunctionIsContent
<1>7. /\ DriverType'
      /\ DOMAIN disk' = DOMAIN disk \cup {p}
      /\ \A q \in DOMAIN disk : disk'[q] = disk[q]
      /\ uncommitted' = uncommitted \cup {p}
  BY <1>1, <1>2, <1>3, <1>6, CreateFileType
<1>8. /\ call' \in FileCall /\ call'.key = p /\ call'.cursor.position = 1
      /\ call'.file = call.file /\ call'.backup = call.backup /\ call'.before = call.before
      /\ call'.operation = call.operation
  <2>1. call' \in FileCall
    BY <1>2, <1>3, <1>4, CursorUpdated
  <2> QED BY <1>2, <1>4, <2>1 DEF FileCall, FirstPortion
<1>9. p # call.backup /\ Encrypting'
  BY <1>3, <1>4, <1>8 DEF CreateKeyFile, Encrypting
<1>10. TypeOK'
  BY <1>1, <1>7, <1>8 DEF CreateKeyFile, TypeOK, DriverType, Steps, settingVars
<1>11. CallMatchesStep'
  BY <1>1, <1>4, <1>7, <1>8 DEF CallMatchesStep, Busy, PathSteps, FileSteps, WorkSteps, Exists
<1>12. KeyOfCall'
  BY <1>1, <1>3, <1>8, <1>9 DEF KeyOfCall, Encrypting, Decrypting
<1>13. disk'[call'.backup] = call'.before /\ call'.backup \notin uncommitted' /\ Exists(call.key)'
  BY <1>3, <1>4, <1>5, <1>7, <1>8, <1>9 DEF Exists
<1> QED BY <1>1, <1>10, <1>11, <1>12, <1>13, SharedInWork DEF WorkSteps

LEMMA LocateKeyShared ==
  ASSUME SharedInv, LocateKey, UNCHANGED <<settingVars, report, faults, sealed>>
  PROVE  SharedInv'
<1>1. TypeOK /\ CallMatchesStep /\ step = "core" /\ step' = "cipher"
  BY DEF SharedInv, LocateKey
<1> DEFINE k == KeyPathFor(call.file)
<1>2. /\ call \in FileCall /\ call.file \in DocumentPath
      /\ Exists(call.file) /\ Exists(call.backup) /\ call.backup.name \in TempName
      /\ call.backup.directory = call.file.directory
  BY <1>1, FileOfCall
<1>3. disk[call.backup] = call.before /\ call.backup \notin uncommitted
  BY <1>1 DEF SharedInv, BackupIntact
<1>4. k \in Path /\ k.name \in KeyName
  BY <1>1, <1>2, KeyPathType DEF Exists
<1>5. call' = [call EXCEPT !.key = k, !.cursor = FirstPortion] /\ k \in DOMAIN disk
  BY DEF LocateKey, IsFileEncrypted, Exists
<1>6. disk' = disk /\ uncommitted' = uncommitted /\ directories' = directories
  BY DEF LocateKey, driverVars
<1> HIDE DEF k
<1>7. /\ call' \in FileCall /\ call'.key = k /\ call'.cursor.position = 1
      /\ call'.file = call.file /\ call'.backup = call.backup /\ call'.before = call.before
      /\ call'.operation = call.operation
  <2>1. call' \in FileCall
    BY <1>2, <1>4, <1>5, CursorUpdated
  <2> QED BY <1>2, <1>5, <2>1 DEF FileCall, FirstPortion
<1>8. k # call.backup /\ ~ Encrypting'
  BY <1>2, <1>4, <1>7, NameAssumption DEF LocateKey, Encrypting, Decrypting
<1>9. TypeOK'
  BY <1>1, <1>6, <1>7 DEF LocateKey, TypeOK, Steps, settingVars
<1>10. CallMatchesStep'
  BY <1>1, <1>2, <1>6, <1>7 DEF CallMatchesStep, Busy, PathSteps, FileSteps, WorkSteps, Exists
<1>11. KeyOfCall'
  BY <1>1, <1>4, <1>7, <1>8 DEF KeyOfCall, Encrypting, Decrypting
<1>12. Exists(call.key)'
  BY <1>5, <1>6, <1>7 DEF Exists
<1>13. disk'[call'.backup] = call'.before /\ call'.backup \notin uncommitted'
  BY <1>3, <1>6, <1>7
<1> QED BY <1>1, <1>9, <1>10, <1>11, <1>12, <1>13, SharedInWork DEF WorkSteps

LEMMA CipherPortionShared ==
  ASSUME SharedInv, CipherPortion, UNCHANGED <<settingVars, report, faults, sealed>>,
         Exists(call.key)
  PROVE  SharedInv'
<1> DEFINE f == call.file
           key == disk[call.key]
<1>1. DriverType /\ TypeOK /\ CallMatchesStep /\ step = "cipher" /\ step' = "cipher"
  BY TypesOfDriver DEF SharedInv, CipherPortion
<1>2. /\ call \in FileCall /\ f \in DocumentPath /\ call.cursor \in Cursor
      /\ Exists(f) /\ Exists(call.backup) /\ f # call.backup /\ call.backup.name \in TempName
      /\ disk[f] \in Content /\ call.backup.directory = f.directory
  BY <1>1, FileOfCall DEF WorkSteps
<1>3. disk[call.backup] = call.before /\ call.backup \notin uncommitted
  BY <1>1 DEF SharedInv, BackupIntact
<1>4. key \in Content
  BY <1>1 DEF DriverType, Exists
<1>5. PICK reply \in Replies :
        call' = [call EXCEPT !.cursor = NextPortion(@, key, reply)]
  BY DEF CipherPortion
<1>6. WriteFile(f, GammaPortion(call.cursor, disk[f], key)) /\ PortionLeft(call.cursor, disk[f])
  BY DEF CipherPortion
<1>7. GammaPortion(call.cursor, disk[f], key) \in Content
  BY <1>2, <1>4, <1>6, GammaPortionContent DEF PortionLeft
<1>8. NextPortion(call.cursor, key, reply) \in Cursor
  BY <1>2, <1>4, CoreAssumption, NextPortionCursor
<1>9. /\ DriverType'
      /\ DOMAIN disk' = DOMAIN disk
      /\ \A q \in DOMAIN disk : q # f => disk'[q] = disk[q]
      /\ uncommitted' = uncommitted
  BY <1>1, <1>6, <1>7, WriteFileType
<1>10. /\ call' \in FileCall /\ call'.file = f /\ call'.backup = call.backup
       /\ call'.before = call.before /\ call'.key = call.key
       /\ call'.operation = call.operation
  BY <1>2, <1>5, <1>8 DEF FileCall
<1>11. TypeOK'
  BY <1>1, <1>9, <1>10 DEF CipherPortion, TypeOK, DriverType, Steps, settingVars
<1>12. CallMatchesStep'
  BY <1>1, <1>2, <1>9, <1>10
     DEF CallMatchesStep, Busy, PathSteps, FileSteps, WorkSteps, Exists
<1>13. KeyOfCall'
  BY <1>1, <1>10 DEF SharedInv, KeyOfCall, WorkSteps, Encrypting, Decrypting
<1>14. disk'[call'.backup] = call'.before /\ call'.backup \notin uncommitted' /\ Exists(call.key)'
  BY <1>2, <1>3, <1>9, <1>10 DEF Exists
<1> QED BY <1>1, <1>11, <1>12, <1>13, <1>14, SharedInWork DEF WorkSteps

LEMMA CoreCipheredShared ==
  ASSUME SharedInv, CoreCiphered
  PROVE  SharedInv'
<1>1. /\ TypeOK /\ CallMatchesStep /\ step = "cipher"
      /\ step' = IF Encrypting THEN "store" ELSE "remove_key"
      /\ disk' = disk /\ directories' = directories /\ uncommitted' = uncommitted
      /\ call' = call /\ storagePath' = storagePath /\ calls' = calls
  BY DEF SharedInv, CoreCiphered, CipherReturns, driverVars
<1>2. sealed' \in [DocumentPath -> Seq(Content)]
  BY <1>1, CipheredHistory
<1>3. TypeOK'
  BY <1>1, <1>2 DEF CoreCiphered, TypeOK, Steps, settingVars
<1>4. CallMatchesStep'
  BY <1>1 DEF CallMatchesStep, Busy, PathSteps, FileSteps, WorkSteps, Exists
<1>5. Encrypting \/ Decrypting
  BY <1>1, FileOfCall DEF WorkSteps, FileCall, Encrypting, Decrypting
<1>6. KeyOfCall'
  BY <1>1, <1>5 DEF SharedInv, KeyOfCall, WorkSteps, Encrypting, Decrypting
<1>7. disk'[call'.backup] = call'.before /\ call'.backup \notin uncommitted'
  BY <1>1 DEF SharedInv, BackupIntact
<1>8. Encrypting => Exists(call.key)'
  BY <1>1 DEF SharedInv, FilesAreThere, Uses, Exists
<1>9. step' \in WorkSteps /\ ~ CipherIsOpen' /\ Encrypting' = Encrypting
  BY <1>1 DEF WorkSteps, CipherIsOpen, Encrypting
<1> QED BY <1>3, <1>4, <1>6, <1>7, <1>8, <1>9, SharedInWork

LEMMA DisposalShared ==
  ASSUME SharedInv, CoreStoresKey \/ CoreRemovesKey \/ OverwriteBackup
  PROVE  SharedInv'
<1>1. /\ TypeOK /\ CallMatchesStep /\ IInv' /\ step' \in {"wipe", "remove"}
      /\ call'.backup = call.backup
  <2>1. TypeOK /\ CallMatchesStep
    BY DEF SharedInv
  <2>2. IInv'
    BY <2>1, CoreStoresKeyStep, CoreRemovesKeyStep, DisposalStep
  <2>3. CASE CoreStoresKey
    <3>1. call \in FileCall
      BY <2>1, <2>3, FileOfCall DEF CoreStoresKey, StoreKey, WorkSteps
    <3> QED BY <2>1, <2>2, <2>3, <3>1 DEF CoreStoresKey, StoreKey, FileCall
  <2>4. CASE CoreRemovesKey \/ OverwriteBackup
    BY <2>1, <2>2, <2>4 DEF CoreRemovesKey, RemoveKey, OverwriteBackup
  <2> QED BY <2>3, <2>4
<1>2. Exists(call.backup)
  BY DEF SharedInv, FilesAreThere, Uses, CoreStoresKey, StoreKey, CoreRemovesKey, RemoveKey,
         OverwriteBackup, FileSteps, WorkSteps
<1>3. CASE CoreStoresKey \/ CoreRemovesKey
  <2>1. call.key # call.backup
    BY <1>3 DEF SharedInv, KeyOfCall, CoreStoresKey, StoreKey, CoreRemovesKey, RemoveKey, WorkSteps
  <2>2. Kept(call.backup)
    BY <1>2, <1>3, <2>1, RemovalKeeps DEF CoreStoresKey, CoreRemovesKey, Exists
  <2> QED BY <1>1, <2>2, SharedInDisposal DEF Kept, Exists
<1>4. CASE OverwriteBackup
  <2>1. DOMAIN disk' = DOMAIN disk
    BY <1>4 DEF OverwriteBackup, WriteFile
  <2> QED BY <1>1, <1>2, <2>1, SharedInDisposal DEF Exists
<1> QED BY <1>3, <1>4

LEMMA OpenFailsShared ==
  ASSUME TypeOK, OpenFails
  PROVE  IInv' /\ step' = "idle"
<1>1. sealed' \in [DocumentPath -> Seq(Content)]
  BY AbandonType DEF OpenFails, Throw
<1>2. step' = "idle" /\ call' = NoCall /\ report' = "failed"
  BY DEF OpenFails, Throw, EndCall
<1>3. TypeOK'
  BY <1>1, <1>2 DEF OpenFails, TypeOK, Steps, driverVars, settingVars
<1> QED BY <1>2, <1>3, CallEnded

\* Alone, a process keeps what it knows, if the key is there for the cipher to open.
LEMMA OwnStep ==
  ASSUME SharedInv, ProcessSteps, CipherPortion => Exists(call.key)
  PROVE  SharedInv'
<1>1. TypeOK /\ CallMatchesStep
  BY DEF SharedInv
<1>2. CASE \/ DriverFails \/ CoreThrows \/ CoreBreaks \/ OpenFails \/ Crash
  <2>1. IInv' /\ step' \in {"idle", "closed"}
    <3>1. CASE DriverFails \/ Crash
      BY <1>1, <3>1, FailureStep DEF DriverFails, Throw, EndCall, Crash
    <3>2. CASE CoreThrows \/ CoreBreaks
      BY <1>1, <3>2, CoreThrowsStep DEF CoreThrows, CoreBreaks, Throw, EndCall
    <3> QED BY <1>1, <1>2, <3>1, <3>2, OpenFailsShared
  <2> QED BY <2>1, SharedOutsideFiles
<1>3. CASE CopyPortion \/ CommitBackup
  <2>1. step = "backup" /\ step' \in {"backup", "core"}
    BY <1>3 DEF CopyPortion, CommitBackup
  <2>2. IInv
    BY <2>1, SharedIsEnough DEF QuietSteps, Steps, WorkSteps
  <2> QED BY <1>3, <2>1, <2>2, CopyPortionStep, CommitBackupStep, SharedInCopy
<1>4. CASE \E f \in DocumentPath : EncryptFile(f) \/ DecryptFile(f)
  BY <1>1, <1>4, BeginStep, SharedInCopy DEF EncryptFile, DecryptFile, BeginCall
<1>5. CASE \/ \E path \in StoragePath : SetKeyStoragePath(path)
           \/ SaveKeyStoragePath \/ RemovePreviousPath
  <2>1. step' \in {"idle", "closed"} \cup PathSteps
    BY <1>5 DEF SetKeyStoragePath, SaveKeyStoragePath, RemovePreviousPath, EndCall, PathSteps
  <2> QED BY <1>1, <1>5, <2>1, SettingsStep, SharedOutsideFiles
<1>6. CASE Construct \/ Close
  BY <1>1, <1>6, ProcessStep, SharedOutsideFiles DEF Construct, Close
<1>7. CASE CoreStep
  BY <1>7, CreateKeyFileShared, LocateKeyShared, CipherPortionShared DEF CoreStep
<1>8. CASE CoreCiphered \/ CoreStoresKey \/ CoreRemovesKey \/ OverwriteBackup
  BY <1>8, CoreCipheredShared, DisposalShared
<1>9. CASE RemoveBackup
  BY <1>1, <1>9, DisposalStep, SharedOutsideFiles DEF RemoveBackup, EndCall
<1> QED BY <1>2, <1>3, <1>4, <1>5, <1>6, <1>7, <1>8, <1>9 DEF ProcessSteps, KernelStep

\* What a step of a process does to the files of others: one that it does not change stays
\* as it is, and no document goes.
LEMMA StepSpares ==
  ASSUME SharedInv, ProcessSteps, NEW p \in DOMAIN disk, ~ Changes(p)
  PROVE  Spared(p)
<1>1. CASE UNCHANGED <<disk, uncommitted>>
  BY <1>1 DEF Spared
<1>2. CASE CopyPortion \/ OverwriteBackup \/ CipherPortion
  BY <1>2 DEF CopyPortion, OverwriteBackup, CipherPortion, WriteFile, Changes, Spared
<1>3. CASE CommitBackup
  BY <1>3 DEF CommitBackup, Commit, Spared
<1>4. CASE RemoveBackup \/ CoreRemovesKey
  BY <1>4 DEF RemoveBackup, CoreRemovesKey, RemoveKey, RemoveFile, Without, Restrict, Changes, Spared
<1>5. CASE CoreStoresKey
  <2>1. p # call.key /\ step = "store" /\ StoreKey
    BY <1>5 DEF CoreStoresKey, StoreKey, Changes
  <2>2. Kept(p)
    BY <2>1, RemovalKeeps
  <2>3. KeyPathFor(call.file) \notin DOMAIN disk
    BY <2>1 DEF StoreKey, RenameFile, CanRename, Exists
  <2>4. p \in uncommitted' => p \in uncommitted
    BY <2>1, <2>3 DEF StoreKey, RenameFile
  <2> QED BY <2>2, <2>4 DEF Kept, Spared
<1>6. CASE CreateKeyFile \/ KeyWriteFails
  BY <1>6 DEF CreateKeyFile, KeyWriteFails, CreateFile, With, Exists, Spared
<1>7. CASE \E f \in DocumentPath : EncryptFile(f) \/ DecryptFile(f)
  BY <1>7 DEF EncryptFile, DecryptFile, BeginCall, CreateFile, With, Exists, Spared
<1>8. CASE \/ LocateKey \/ CoreThrows \/ CoreCiphered \/ SaveKeyStoragePath \/ RemovePreviousPath
           \/ DriverFails \/ OpenFails \/ Crash \/ Construct \/ Close
           \/ \E path \in StoragePath : SetKeyStoragePath(path)
  BY <1>1, <1>8 DEF LocateKey, CoreThrows, NoPlaceForKey, KeyMissing, KeyNameTaken, CoreCiphered,
       CipherReturns, SaveKeyStoragePath, RemovePreviousPath, DriverFails, OpenFails, Crash,
       Construct, Close, SetKeyStoragePath, driverVars
<1> QED BY <1>2, <1>3, <1>4, <1>5, <1>6, <1>7, <1>8
        DEF ProcessSteps, KernelStep, CoreStep, CoreBreaks

LEMMA DocumentsStay ==
  ASSUME SharedInv, ProcessSteps, NEW p \in DOMAIN disk, p.name \in DocumentName
  PROVE  p \in DOMAIN disk'
<1>1. CASE ~ Changes(p)
  BY <1>1, StepSpares DEF Spared
<1>2. CASE Changes(p)
  <2>1. step \in FileSteps => p # call.backup
    BY NameAssumption DEF SharedInv, CallMatchesStep
  <2>2. step \in {"store", "remove_key"} => p # call.key
    BY NameAssumption DEF SharedInv, KeyOfCall, WorkSteps
  <2>3. step = "cipher"
    BY <1>2, <2>1, <2>2 DEF Changes, FileSteps
  <2>4. CASE CipherPortion
    BY <2>4 DEF CipherPortion, WriteFile
  <2>5. CASE ~ CipherPortion
    <3>1. \/ CoreThrows \/ CoreCiphered \/ DriverFails \/ OpenFails \/ Crash
      BY <2>3, <2>5
         DEF ProcessSteps, KernelStep, CopyPortion, CommitBackup, CoreStep, CreateKeyFile, LocateKey,
             CoreBreaks, KeyWriteFails, CoreStoresKey, StoreKey, CoreRemovesKey, RemoveKey,
             OverwriteBackup, RemoveBackup, SaveKeyStoragePath, RemovePreviousPath, EncryptFile,
             DecryptFile, BeginCall, SetKeyStoragePath, Construct, Close
    <3> QED BY <3>1 DEF CoreThrows, NoPlaceForKey, KeyMissing, KeyNameTaken, CoreCiphered,
                        CipherReturns, DriverFails, OpenFails, Crash, driverVars
  <2> QED BY <2>4, <2>5
<1> QED BY <1>1, <1>2

\* What a step adds to the files a process works with: new ones, those the cipher opens,
\* and the document of a new call.
LEMMA StepUses ==
  ASSUME SharedInv, ProcessSteps, NEW p, Uses(p)'
  PROVE  \/ Uses(p) \/ p \notin DOMAIN disk \/ Opens(p)
         \/ step = "idle" /\ p \in DocumentPath /\ (EncryptFile(p) \/ DecryptFile(p))
<1>1. TypeOK /\ CallMatchesStep
  BY DEF SharedInv
<1>2. step' \in FileSteps
  BY DEF Uses, CipherIsOpen, FileSteps, WorkSteps
<1>3. CASE call' = call /\ (step' = step \/ step' \in {"core", "remove"})
           /\ step \in FileSteps
  BY <1>3 DEF Uses, CipherIsOpen, Encrypting, FileSteps, WorkSteps
<1>4. CASE CopyPortion
  <2>1. call \in FileCall
    BY <1>1, <1>4 DEF CallMatchesStep, CopyPortion, FileSteps
  <2>2. /\ step = "backup" /\ step' = "backup"
        /\ call'.file = call.file /\ call'.backup = call.backup
    BY <1>4, <2>1 DEF CopyPortion, FileCall
  <2> QED BY <2>2 DEF Uses, CipherIsOpen, FileSteps
<1>5. CASE \E f \in DocumentPath : EncryptFile(f) \/ DecryptFile(f)
  <2>1. PICK f \in DocumentPath, op \in {"encrypt", "decrypt"} :
          BeginCall(op, f) /\ (EncryptFile(f) \/ DecryptFile(f))
    BY <1>5 DEF EncryptFile, DecryptFile
  <2>2. PICK b : /\ CreateFile(b, <<>>)
                 /\ call' = [operation |-> op, file |-> f, before |-> disk[f],
                             backup |-> b, key |-> NoFile, cursor |-> FirstPortion]
    BY <2>1 DEF BeginCall
  <2>3. p = f \/ p = b
    BY <2>1, <2>2 DEF BeginCall, Uses, CipherIsOpen, FileSteps
  <2> QED BY <2>1, <2>2, <2>3 DEF CreateFile, Exists, BeginCall
<1>6. CASE CreateKeyFile
  <2>1. call \in FileCall
    BY <1>1, <1>6, FileOfCall DEF CreateKeyFile
  <2>2. PICK q : /\ q \notin DOMAIN disk
                 /\ call' = [call EXCEPT !.key = q, !.cursor = FirstPortion]
    BY <1>6 DEF CreateKeyFile, CreateFile, Exists
  <2>3. call'.backup = call.backup /\ call'.key = q /\ call'.cursor.position = 1
    BY <2>1, <2>2 DEF FileCall, FirstPortion
  <2>4. step = "core" /\ step' = "cipher"
    BY <1>6 DEF CreateKeyFile
  <2> QED BY <2>2, <2>3, <2>4 DEF Uses, CipherIsOpen, FileSteps
<1>7. CASE LocateKey
  <2>1. call \in FileCall
    BY <1>1, <1>7, FileOfCall DEF LocateKey
  <2>2. call'.backup = call.backup /\ call'.cursor.position = 1 /\ call'.operation = call.operation
    BY <1>7, <2>1 DEF LocateKey, FileCall, FirstPortion
  <2>3. step = "core" /\ step' = "cipher" /\ ~ Encrypting'
    BY <1>7, <2>2 DEF LocateKey, Encrypting, Decrypting
  <2> QED BY <2>2, <2>3 DEF Uses, CipherIsOpen, FileSteps
<1>8. CASE CipherPortion
  <2>1. call \in FileCall
    BY <1>1, <1>8, FileOfCall DEF CipherPortion, WorkSteps
  <2>2. /\ call'.backup = call.backup /\ call'.file = call.file /\ call'.key = call.key
        /\ call'.operation = call.operation
    BY <1>8, <2>1 DEF CipherPortion, FileCall
  <2>3. step = "cipher" /\ step' = "cipher"
    BY <1>8 DEF CipherPortion
  <2>4. call.cursor.position = 1 \/ call.cursor.position > 1
    BY <2>1 DEF FileCall, Cursor
  <2> QED BY <2>2, <2>3, <2>4 DEF Uses, CipherIsOpen, Opens, FileSteps, Encrypting
<1>9. CASE CoreCiphered
  BY <1>9 DEF CoreCiphered, CipherReturns, Uses, CipherIsOpen, FileSteps, WorkSteps, Encrypting
<1>10. CASE CoreStoresKey
  <2>1. call \in FileCall
    BY <1>1, <1>10, FileOfCall DEF CoreStoresKey, StoreKey, WorkSteps
  <2>2. call'.backup = call.backup
    BY <1>10, <2>1 DEF CoreStoresKey, StoreKey, FileCall
  <2>3. step = "store" /\ step' = "wipe"
    BY <1>10 DEF CoreStoresKey, StoreKey
  <2> QED BY <2>2, <2>3 DEF Uses, CipherIsOpen, FileSteps, WorkSteps
<1>11. CASE CommitBackup \/ CoreRemovesKey \/ OverwriteBackup
  <2>1. call' = call /\ step' \in {"core", "remove"} /\ step \in FileSteps
    BY <1>11 DEF CommitBackup, CoreRemovesKey, RemoveKey, OverwriteBackup, FileSteps, WorkSteps
  <2> QED BY <1>3, <2>1
<1>12. ~ (\/ CoreThrows \/ CoreBreaks \/ RemoveBackup \/ SaveKeyStoragePath \/ RemovePreviousPath
          \/ DriverFails \/ OpenFails \/ Crash \/ Construct \/ Close
          \/ \E path \in StoragePath : SetKeyStoragePath(path))
  BY <1>2 DEF CoreThrows, CoreBreaks, RemoveBackup, SaveKeyStoragePath, RemovePreviousPath,
       DriverFails, OpenFails, Crash, Construct, Close, SetKeyStoragePath, Throw, EndCall,
       FileSteps, WorkSteps
<1> QED BY <1>4, <1>5, <1>6, <1>7, <1>8, <1>9, <1>10, <1>11, <1>12
        DEF ProcessSteps, KernelStep, CoreStep

\* A step of somebody else that leaves the files of this process alone.
LEMMA OthersStep ==
  ASSUME SharedInv, UNCHANGED <<step, call, storagePath>>,
         TypeOK',
         \A p \in DOMAIN disk : Uses(p) => Spared(p),
         \A p \in DOMAIN disk : p.name \in DocumentName => p \in DOMAIN disk'
  PROVE  SharedInv'
<1>1. TypeOK /\ CallMatchesStep
  BY DEF SharedInv
<1>2. \A p : Uses(p) => p \in DOMAIN disk /\ Spared(p)
  BY DEF SharedInv, FilesAreThere, Exists
<1>3. step \in FileSteps => Spared(call.backup) /\ call.backup \in DOMAIN disk
  BY <1>2 DEF Uses
<1>4. CallMatchesStep'
  <2>1. step \in {"backup", "core"} \cup WorkSteps => Exists(call.file)'
    BY <1>1 DEF CallMatchesStep, FileSteps, WorkSteps, Exists, DocumentPath
  <2>2. step \in {"backup", "core"} \cup WorkSteps => Exists(call.backup)'
    BY <1>3 DEF FileSteps, WorkSteps, Exists, Spared
  <2> QED BY <1>1, <2>1, <2>2 DEF CallMatchesStep, Busy
<1>5. CopySoFar'
  <2>1. step = "backup" => Spared(call.file)
    BY <1>2 DEF Uses
  <2> QED BY <1>3, <2>1 DEF SharedInv, CopySoFar, Spared, FileSteps
<1>6. BackupIntact'
  BY <1>3 DEF SharedInv, BackupIntact, Spared, Exists, FileSteps, WorkSteps
<1>7. KeyOfCall'
  BY DEF SharedInv, KeyOfCall, Encrypting, Decrypting
<1>8. FilesAreThere'
  <2>1. \A p : Uses(p)' <=> Uses(p)
    BY DEF Uses, CipherIsOpen, Encrypting
  <2> QED BY <1>2, <2>1 DEF FilesAreThere, Spared, Exists
<1> QED BY <1>4, <1>5, <1>6, <1>7, <1>8 DEF SharedInv

-----------------------------------------------------------------------------
(***************************************************************************)
(* A step of a process, told of values: of the disk D and what `sealed'    *)
(* and `calls' hold, Q and n, before it and after it, and of what the      *)
(* process does and its call, v and v1.                                    *)
(***************************************************************************)
Serving == [step |-> step, call |-> call]

Untouched(D, D1, p) == p \in DOMAIN D1 /\ D1[p] = D[p]

SameFiles(c, c1) == /\ c1.operation = c.operation /\ c1.before = c.before
                    /\ c1.file = c.file /\ c1.backup = c.backup

Begins(D, D1, n, n1, v, v1) ==
  /\ v.step = "idle" /\ v1.step = "backup" /\ n1 = n + 1
  /\ v1.call.file \in DOMAIN D /\ v1.call.before = D[v1.call.file]
  /\ v1.call.backup \notin DOMAIN D
  /\ \A p \in DOMAIN D : Untouched(D, D1, p)

Copies(D, D1, v, v1) ==
  /\ v.step = "backup" /\ v1.step \in {"backup", "core"}
  /\ SameFiles(v.call, v1.call)
  /\ \A p \in DOMAIN D : p # v.call.backup => Untouched(D, D1, p)

MakesKey(D, D1, v, v1) ==
  /\ v.step = "core" /\ v1.step = "cipher" /\ v.call.operation = "encrypt"
  /\ SameFiles(v.call, v1.call)
  /\ v1.call.cursor.position = 1 /\ ~ v1.call.cursor.stop
  /\ v1.call.key \in DOMAIN D1 \ DOMAIN D
  /\ DOMAIN D1[v1.call.key] = DOMAIN D[v.call.file]
  /\ \A p \in DOMAIN D : Untouched(D, D1, p)

FindsKey(D, D1, v, v1) ==
  /\ v.step = "core" /\ v1.step = "cipher" /\ v.call.operation = "decrypt"
  /\ SameFiles(v.call, v1.call)
  /\ v1.call.cursor.position = 1 /\ ~ v1.call.cursor.stop
  /\ v1.call.key \in DOMAIN D /\ v1.call.key.name = Md5(D[v.call.file])
  /\ D1 = D

Turns(D, D1, v, v1) ==
  /\ v.step = "cipher" /\ v1.step = "cipher"
  /\ SameFiles(v.call, v1.call) /\ v1.call.key = v.call.key
  /\ v1.call.cursor.position = v.call.cursor.position + 1 /\ ~ v1.call.cursor.stop
  /\ v.call.file \in DOMAIN D1 /\ DOMAIN D1[v.call.file] = DOMAIN D[v.call.file]
  /\ v.call.cursor.position \in DOMAIN D[v.call.file]
  /\ \A i \in DOMAIN D[v.call.file] :
       D1[v.call.file][i] =
         IF i = v.call.cursor.position
         THEN GammaChunk(D[v.call.file][i], KeyBuffer(v.call.cursor, D[v.call.key]))
         ELSE D[v.call.file][i]
  /\ \A p \in DOMAIN D : p # v.call.file => Untouched(D, D1, p)

CipherEnds(D, D1, v, v1) ==
  /\ v.step = "cipher"
  /\ v1.step = IF v.call.operation = "encrypt" THEN "store" ELSE "remove_key"
  /\ v1.call = v.call /\ D1 = D
  /\ v.call.cursor.stop \/ v.call.cursor.position \notin DOMAIN D[v.call.file]

NamesKey(D, D1, v, v1) ==
  /\ v.step = "store" /\ v1.step = "wipe"
  /\ SameFiles(v.call, v1.call)
  /\ v.call.key \in DOMAIN D /\ v1.call.key.name = Md5(D[v.call.file])
  /\ v1.call.key \in DOMAIN D1 \ DOMAIN D /\ D1[v1.call.key] = D[v.call.key]
  /\ \A p \in DOMAIN D : p # v.call.key => Untouched(D, D1, p)

DropsKey(D, D1, v, v1) ==
  /\ v.step = "remove_key" /\ v1.step = "remove" /\ v1.call = v.call
  /\ v.call.key \notin DOMAIN D1
  /\ \A p \in DOMAIN D : p # v.call.key => Untouched(D, D1, p)

Disposes(D, D1, v, v1) ==
  /\ v.step \in {"wipe", "remove"}
  /\ v1.step = "idle" \/ (v1.step = "remove" /\ v1.call = v.call)
  /\ \A p \in DOMAIN D : p # v.call.backup => Untouched(D, D1, p)

GivesUp(D, D1, v, v1) ==
  /\ v.step \in FileSteps /\ v1.step \in {"idle", "closed"}
  /\ \A p \in DOMAIN D : Untouched(D, D1, p)
  /\ v.step = "cipher" => D1 = D

Rests(D, D1, v, v1) ==
  /\ v.step \notin FileSteps /\ v1.step \notin FileSteps
  /\ \A p \in DOMAIN D : Untouched(D, D1, p)

\* What becomes of the history of the document.
Uncovered(D, Q, v) ==
  IF v.call.operation = "encrypt" THEN Q
  ELSE [Q EXCEPT ![v.call.file] =
          IF @ = <<>> \/ v.call.cursor.position \in DOMAIN D[v.call.file] THEN <<>> ELSE Tail(@)]

GivenUp(D, Q, v) ==
  IF v.step = "store" \/ (v.step = "cipher" /\ D[v.call.file] # v.call.before)
  THEN [Q EXCEPT ![v.call.file] = <<>>] ELSE Q

Moves(D, D1, Q, Q1, n, n1, v, v1) ==
  /\ n <= n1
  /\ \/ /\ \/ Begins(D, D1, n, n1, v, v1) \/ Copies(D, D1, v, v1)
           \/ MakesKey(D, D1, v, v1) \/ FindsKey(D, D1, v, v1) \/ Turns(D, D1, v, v1)
           \/ DropsKey(D, D1, v, v1) \/ Disposes(D, D1, v, v1) \/ Rests(D, D1, v, v1)
        /\ Q1 = Q
     \/ CipherEnds(D, D1, v, v1) /\ Q1 = Uncovered(D, Q, v)
     \/ NamesKey(D, D1, v, v1) /\ Q1 = [Q EXCEPT ![v.call.file] = <<v.call.before>> \o @]
     \/ GivesUp(D, D1, v, v1) /\ Q1 = GivenUp(D, Q, v)

LEMMA EndMoves ==
  ASSUME SharedInv, step' \in {"idle", "closed"}, Abandon, calls' = calls,
         \A p \in DOMAIN disk : Untouched(disk, disk', p), step = "cipher" => disk' = disk
  PROVE  Moves(disk, disk', sealed, sealed', calls, calls', Serving, Serving')
<1>1. TypeOK /\ CallMatchesStep /\ calls \in Nat
  BY CoreAssumption DEF SharedInv, TypeOK
<1>2. CASE step \in FileSteps
  <2>1. InFileCall
    BY <1>1, <1>2 DEF CallMatchesStep, FileCall, InFileCall
  <2>2. sealed' = GivenUp(disk, sealed, Serving)
    BY <2>1 DEF Abandon, HalfDone, GivenUp, Serving
  <2>3. GivesUp(disk, disk', Serving, Serving')
    BY <1>2 DEF GivesUp, Serving
  <2> QED BY <1>1, <2>2, <2>3 DEF Moves
<1>3. CASE step \notin FileSteps
  <2>1. step \in PathSteps \/ ~ Busy
    BY <1>1, <1>3 DEF TypeOK, Steps, Busy, FileSteps, WorkSteps, PathSteps
  <2>2. ~ InFileCall
    BY <1>1, <2>1 DEF CallMatchesStep, PathCall, NoCall, InFileCall
  <2>3. sealed' = sealed
    BY <2>2 DEF Abandon
  <2>4. Rests(disk, disk', Serving, Serving')
    BY <1>3 DEF Rests, Serving, FileSteps, WorkSteps
  <2> QED BY <1>1, <2>3, <2>4 DEF Moves
<1> QED BY <1>2, <1>3

LEMMA StepMoves ==
  ASSUME SharedInv, ProcessSteps, NoStop, CipherPortion => Exists(call.key)
  PROVE  Moves(disk, disk', sealed, sealed', calls, calls', Serving, Serving')
<1>1. /\ TypeOK /\ CallMatchesStep /\ calls \in Nat
      /\ step \in FileSteps => call \in FileCall
  BY CoreAssumption DEF SharedInv, TypeOK, CallMatchesStep
<1>2. CASE \/ DriverFails \/ OpenFails \/ Crash \/ CoreThrows \/ CoreBreaks
  <2>1. step' \in {"idle", "closed"} /\ Abandon /\ calls' = calls
    BY <1>2 DEF DriverFails, OpenFails, Crash, CoreThrows, NoPlaceForKey, KeyMissing, KeyNameTaken,
         CoreBreaks, KeyWriteFails, Throw, EndCall
  <2>2. /\ \A p \in DOMAIN disk : Untouched(disk, disk', p)
        /\ step = "cipher" => disk' = disk
    BY <1>2 DEF DriverFails, OpenFails, Crash, CoreThrows, NoPlaceForKey, KeyMissing, KeyNameTaken,
         CoreBreaks, KeyWriteFails, CreateFile, With, Exists, driverVars, Untouched
  <2> QED BY <2>1, <2>2, EndMoves
<1>3. CASE CopyPortion \/ CommitBackup
  <2>1. Copies(disk, disk', Serving, Serving')
    <3>1. step = "backup" /\ step' \in {"backup", "core"} /\ call \in FileCall
      BY <1>1, <1>3 DEF CopyPortion, CommitBackup, FileSteps
    <3>2. SameFiles(call, call')
      BY <1>3, <3>1 DEF CopyPortion, CommitBackup, SameFiles, FileCall
    <3>3. \A p \in DOMAIN disk : p # call.backup => Untouched(disk, disk', p)
      BY <1>3 DEF CopyPortion, CommitBackup, WriteFile, Commit, Untouched
    <3> QED BY <3>1, <3>2, <3>3 DEF Copies, Serving
  <2> QED BY <1>1, <1>3, <2>1 DEF Moves, CopyPortion, CommitBackup
<1>4. CASE CreateKeyFile /\ UNCHANGED sealed
  <2>1. step = "core" /\ step' = "cipher" /\ call \in FileCall /\ Encrypting /\ calls' = calls
    BY <1>1, <1>4 DEF CreateKeyFile, FileSteps
  <2>2. PICK p \in FreeTempPaths(Resolve(storagePath)),
             k \in GeneratedKeys(calls, disk[call.file]) :
          /\ CreateFile(p, k)
          /\ call' = [call EXCEPT !.key = p, !.cursor = FirstPortion]
    BY <1>4 DEF CreateKeyFile
  <2>3. DOMAIN k = DOMAIN disk[call.file]
    <3>1. disk[call.file] \in Content
      BY <1>1, <2>1, FileOfCall
    <3>2. k \in [DOMAIN disk[call.file] -> Chunk]
      BY <1>1, <3>1, GeneratedKeysAssumption DEF TypeOK
    <3> QED BY <3>2
  <2>4. /\ SameFiles(call, call') /\ call'.key = p
        /\ call'.cursor.position = 1 /\ ~ call'.cursor.stop
    BY <2>1, <2>2 DEF SameFiles, FileCall, FirstPortion
  <2>5. /\ p \in DOMAIN disk' \ DOMAIN disk /\ disk'[p] = k
        /\ \A q \in DOMAIN disk : Untouched(disk, disk', q)
    BY <2>2 DEF CreateFile, With, Exists, Untouched
  <2>6. MakesKey(disk, disk', Serving, Serving')
    BY <2>1, <2>3, <2>4, <2>5 DEF MakesKey, Serving, Encrypting
  <2> QED BY <1>1, <1>4, <2>1, <2>6 DEF Moves
<1>5. CASE LocateKey /\ UNCHANGED sealed
  <2>1. /\ step = "core" /\ step' = "cipher" /\ call \in FileCall /\ Decrypting
        /\ calls' = calls /\ disk' = disk
        /\ call' = [call EXCEPT !.key = KeyPathFor(call.file), !.cursor = FirstPortion]
    BY <1>1, <1>5 DEF LocateKey, FileSteps, driverVars
  <2>2. /\ SameFiles(call, call') /\ call'.key = KeyPathFor(call.file)
        /\ call'.cursor.position = 1 /\ ~ call'.cursor.stop
    BY <2>1 DEF SameFiles, FileCall, FirstPortion
  <2>3. KeyPathFor(call.file) \in DOMAIN disk /\ KeyPathFor(call.file).name = Md5(disk[call.file])
    BY <1>5 DEF LocateKey, IsFileEncrypted, Exists, KeyPathFor, At
  <2>4. FindsKey(disk, disk', Serving, Serving')
    BY <2>1, <2>2, <2>3 DEF FindsKey, Serving, Decrypting
  <2> QED BY <1>1, <1>5, <2>1, <2>4 DEF Moves
<1>6. CASE CipherPortion /\ UNCHANGED sealed
  <2>1. /\ step = "cipher" /\ step' = "cipher" /\ call \in FileCall /\ call.cursor \in Cursor
        /\ calls' = calls /\ disk[call.file] \in Content
        /\ call.cursor.position \in DOMAIN disk[call.file]
        /\ WriteFile(call.file, GammaPortion(call.cursor, disk[call.file], disk[call.key]))
    BY <1>1, <1>6, FileOfCall DEF CipherPortion, FileSteps, WorkSteps, PortionLeft
  <2>2. PICK reply \in Replies :
          call' = [call EXCEPT !.cursor = NextPortion(@, disk[call.key], reply)]
    BY <1>6 DEF CipherPortion
  <2>3. NextProgress(call.cursor, reply) \notin {"stop", "cancel"}
    BY <2>2 DEF NextProgress, NoStop
  <2>4. /\ SameFiles(call, call') /\ call'.key = call.key
        /\ call'.cursor.position = call.cursor.position + 1 /\ ~ call'.cursor.stop
    BY <2>1, <2>2, <2>3 DEF SameFiles, FileCall, NextPortion
  <2>5. /\ call.file \in DOMAIN disk'
        /\ disk'[call.file] = GammaPortion(call.cursor, disk[call.file], disk[call.key])
        /\ \A p \in DOMAIN disk : p # call.file => Untouched(disk, disk', p)
    BY <2>1 DEF WriteFile, Exists, Untouched
  <2>6. /\ DOMAIN disk'[call.file] = DOMAIN disk[call.file]
        /\ \A i \in DOMAIN disk[call.file] :
             disk'[call.file][i] =
               IF i = call.cursor.position
               THEN GammaChunk(disk[call.file][i], KeyBuffer(call.cursor, disk[call.key]))
               ELSE disk[call.file][i]
    BY <2>1, <2>5 DEF GammaPortion
  <2>7. Turns(disk, disk', Serving, Serving')
    BY <2>1, <2>4, <2>5, <2>6 DEF Turns, Serving
  <2> QED BY <1>1, <1>6, <2>1, <2>7 DEF Moves
<1>7. CASE CoreCiphered
  <2>1. /\ step = "cipher" /\ call \in FileCall /\ calls' = calls /\ call' = call /\ disk' = disk
        /\ step' = IF Encrypting THEN "store" ELSE "remove_key"
        /\ call.cursor.stop \/ call.cursor.position \notin DOMAIN disk[call.file]
    BY <1>1, <1>7 DEF CoreCiphered, CipherReturns, FileSteps, WorkSteps, PortionLeft, driverVars
  <2>2. CipherEnds(disk, disk', Serving, Serving')
    BY <2>1 DEF CipherEnds, Serving, Encrypting
  <2>3. sealed' = Uncovered(disk, sealed, Serving)
    BY <1>7 DEF CoreCiphered, Uncovered, Serving, Encrypting, PortionLeft
  <2> QED BY <1>1, <2>1, <2>2, <2>3 DEF Moves
<1>8. CASE CoreStoresKey
  <2>1. /\ step = "store" /\ step' = "wipe" /\ call \in FileCall /\ calls' = calls
        /\ RenameFile(call.key, KeyPathFor(call.file))
        /\ call' = [call EXCEPT !.key = KeyPathFor(call.file)]
        /\ sealed' = [sealed EXCEPT ![call.file] = <<call.before>> \o @]
    BY <1>1, <1>8 DEF CoreStoresKey, StoreKey, FileSteps, WorkSteps
  <2>2. SameFiles(call, call') /\ call'.key = KeyPathFor(call.file)
    BY <2>1 DEF SameFiles, FileCall
  <2>3. KeyPathFor(call.file).name = Md5(disk[call.file])
    BY DEF KeyPathFor, At
  <2>4. /\ call.key \in DOMAIN disk
        /\ KeyPathFor(call.file) \in DOMAIN disk' \ DOMAIN disk
        /\ disk'[KeyPathFor(call.file)] = disk[call.key]
        /\ \A p \in DOMAIN disk : p # call.key => Untouched(disk, disk', p)
    BY <2>1 DEF RenameFile, CanRename, With, Without, Restrict, Exists, Untouched
  <2>5. NamesKey(disk, disk', Serving, Serving')
    BY <2>1, <2>2, <2>3, <2>4 DEF NamesKey, Serving
  <2> QED BY <1>1, <2>1, <2>5 DEF Moves, Serving
<1>9. CASE CoreRemovesKey
  <2>1. DropsKey(disk, disk', Serving, Serving')
    BY <1>9 DEF CoreRemovesKey, RemoveKey, RemoveFile, Without, Restrict, Untouched, DropsKey, Serving
  <2> QED BY <1>1, <1>9, <2>1 DEF Moves, CoreRemovesKey, RemoveKey
<1>10. CASE OverwriteBackup \/ RemoveBackup
  <2>1. \A p \in DOMAIN disk : p # call.backup => Untouched(disk, disk', p)
    BY <1>10 DEF OverwriteBackup, RemoveBackup, WriteFile, RemoveFile, Without, Restrict, Untouched
  <2>2. Disposes(disk, disk', Serving, Serving')
    BY <1>10, <2>1 DEF OverwriteBackup, RemoveBackup, EndCall, Disposes, Serving
  <2> QED BY <1>1, <1>10, <2>2 DEF Moves, OverwriteBackup, RemoveBackup
<1>11. CASE \E f \in DocumentPath : EncryptFile(f) \/ DecryptFile(f)
  <2>1. PICK f \in DocumentPath, o \in {"encrypt", "decrypt"} : BeginCall(o, f)
    BY <1>11 DEF EncryptFile, DecryptFile
  <2>2. PICK b \in FreeTempPaths(f.directory) :
          /\ CreateFile(b, <<>>)
          /\ call' = [operation |-> o, file |-> f, before |-> disk[f],
                      backup |-> b, key |-> NoFile, cursor |-> FirstPortion]
    BY <2>1 DEF BeginCall
  <2>3. b \notin DOMAIN disk /\ \A p \in DOMAIN disk : Untouched(disk, disk', p)
    BY <2>2 DEF CreateFile, With, Exists, Untouched
  <2>4. step = "idle" /\ step' = "backup" /\ calls' = calls + 1 /\ f \in DOMAIN disk /\ sealed' = sealed
    BY <2>1 DEF BeginCall, Exists
  <2>5. Begins(disk, disk', calls, calls', Serving, Serving')
    BY <2>2, <2>3, <2>4 DEF Begins, Serving
  <2> QED BY <1>1, <2>4, <2>5 DEF Moves
<1>12. CASE \/ SaveKeyStoragePath \/ RemovePreviousPath \/ Construct \/ Close
            \/ \E path \in StoragePath : SetKeyStoragePath(path)
  <2>1. /\ step \notin FileSteps /\ step' \notin FileSteps /\ disk' = disk /\ sealed' = sealed
        /\ calls' \in {calls, calls + 1}
    BY <1>12 DEF SaveKeyStoragePath, RemovePreviousPath, EndCall, Construct, Close,
         SetKeyStoragePath, driverVars, FileSteps, WorkSteps
  <2>2. Rests(disk, disk', Serving, Serving')
    BY <2>1 DEF Rests, Serving, Untouched
  <2> QED BY <1>1, <2>1, <2>2 DEF Moves
<1> QED BY <1>2, <1>3, <1>4, <1>5, <1>6, <1>7, <1>8, <1>9, <1>10, <1>11, <1>12
        DEF ProcessSteps, KernelStep, CoreStep

\* The keys a step works with, and how it may fail.
LEMMA StepChoices ==
  ASSUME SharedInv, ProcessSteps
  PROVE  /\ step = "core" /\ step' = "cipher" /\ Decrypting =>
              call'.key = KeyPathFor(call.file) /\ Exists(KeyPathFor(call.file))
         /\ step = "store" /\ step' = "wipe" =>
              call'.key = KeyPathFor(call.file) /\ CanRename(call.key, KeyPathFor(call.file))
         /\ step = "cipher" /\ step' \in {"idle", "closed"} => OpenFails \/ faults' = faults + 1
         /\ faults' \in {faults, faults + 1}
<1>1. call \in FileCall \/ step \notin FileSteps
  BY DEF SharedInv, CallMatchesStep
<1>2. ASSUME step = "core", step' = "cipher", Decrypting
      PROVE  call'.key = KeyPathFor(call.file) /\ Exists(KeyPathFor(call.file))
  <2>1. LocateKey
    BY <1>2 DEF ProcessSteps, KernelStep, CopyPortion, CommitBackup, CoreStep, CreateKeyFile,
       CipherPortion, CoreThrows, NoPlaceForKey, KeyMissing, KeyNameTaken, CoreBreaks, KeyWriteFails,
       CoreCiphered, CipherReturns, CoreStoresKey, StoreKey, CoreRemovesKey, RemoveKey,
       OverwriteBackup, RemoveBackup, SaveKeyStoragePath, RemovePreviousPath, DriverFails, OpenFails,
       Throw, EndCall, Crash, EncryptFile, DecryptFile, BeginCall, SetKeyStoragePath, Construct, Close,
       Encrypting, Decrypting
  <2>2. call' = [call EXCEPT !.key = KeyPathFor(call.file), !.cursor = FirstPortion]
    BY <2>1 DEF LocateKey
  <2>3. call \in FileCall
    BY <1>1, <1>2 DEF FileSteps
  <2>4. call'.key = KeyPathFor(call.file)
    BY <2>2, <2>3 DEF FileCall
  <2> QED BY <2>1, <2>4 DEF LocateKey, IsFileEncrypted
<1>3. ASSUME step = "store", step' = "wipe"
      PROVE  call'.key = KeyPathFor(call.file) /\ CanRename(call.key, KeyPathFor(call.file))
  <2>1. CoreStoresKey
    BY <1>3 DEF ProcessSteps, KernelStep, CopyPortion, CommitBackup, CoreStep, CreateKeyFile, LocateKey,
       CipherPortion, CoreThrows, NoPlaceForKey, KeyMissing, KeyNameTaken, CoreBreaks, KeyWriteFails,
       CoreCiphered, CipherReturns, CoreRemovesKey, RemoveKey,
       OverwriteBackup, RemoveBackup, SaveKeyStoragePath, RemovePreviousPath, DriverFails, OpenFails,
       Throw, EndCall, Crash, EncryptFile, DecryptFile, BeginCall, SetKeyStoragePath, Construct, Close
  <2>2. /\ call' = [call EXCEPT !.key = KeyPathFor(call.file)]
        /\ RenameFile(call.key, KeyPathFor(call.file))
    BY <2>1 DEF CoreStoresKey, StoreKey
  <2>3. call \in FileCall
    BY <1>1, <1>3 DEF FileSteps, WorkSteps
  <2>4. call'.key = KeyPathFor(call.file)
    BY <2>2, <2>3 DEF FileCall
  <2> QED BY <2>2, <2>4 DEF RenameFile
<1>4. ASSUME step = "cipher", step' \in {"idle", "closed"}
      PROVE  OpenFails \/ faults' = faults + 1
  BY <1>4 DEF ProcessSteps, KernelStep, CopyPortion, CommitBackup, CoreStep, CreateKeyFile, LocateKey,
     CipherPortion, CoreThrows, NoPlaceForKey, KeyMissing, KeyNameTaken, CoreBreaks, KeyWriteFails,
     CoreCiphered, CipherReturns, CoreStoresKey, StoreKey, CoreRemovesKey, RemoveKey,
     OverwriteBackup, RemoveBackup, SaveKeyStoragePath, RemovePreviousPath, DriverFails, Fault,
     Crash, EncryptFile, DecryptFile, BeginCall, SetKeyStoragePath, Construct, Close
<1>5. faults' \in {faults, faults + 1}
  <2>1. CASE CopyPortion \/ CommitBackup \/ CoreStep \/ CoreCiphered \/ CoreStoresKey
    BY <2>1 DEF CopyPortion, CommitBackup, CoreStep, CoreCiphered, CoreStoresKey
  <2>2. CASE CoreThrows \/ CoreBreaks \/ DriverFails \/ OpenFails \/ Crash
    BY <2>2 DEF CoreThrows, CoreBreaks, DriverFails, OpenFails, Crash, Fault
  <2>3. CASE CoreRemovesKey \/ OverwriteBackup \/ RemoveBackup \/ SaveKeyStoragePath \/ RemovePreviousPath
    BY <2>3 DEF CoreRemovesKey, OverwriteBackup, RemoveBackup, SaveKeyStoragePath, RemovePreviousPath
  <2>4. CASE \/ \E f \in DocumentPath : EncryptFile(f) \/ DecryptFile(f)
             \/ \E path \in StoragePath : SetKeyStoragePath(path)
             \/ Construct \/ Close
    BY <2>4 DEF EncryptFile, DecryptFile, BeginCall, SetKeyStoragePath, Construct, Close
  <2> QED BY <2>1, <2>2, <2>3, <2>4 DEF ProcessSteps, KernelStep
<1> QED BY <1>2, <1>3, <1>4, <1>5

LEMMA StepFails ==
  ASSUME KernelStep \/ Crash, step = "cipher", step' \in {"idle", "closed"}
  PROVE  faults' = faults + 1
BY DEF KernelStep, CopyPortion, CommitBackup, CoreStep, CreateKeyFile, LocateKey,
   CipherPortion, CoreThrows, NoPlaceForKey, KeyMissing, KeyNameTaken, CoreBreaks, KeyWriteFails,
   CoreCiphered, CipherReturns, CoreStoresKey, StoreKey, CoreRemovesKey, RemoveKey,
   OverwriteBackup, RemoveBackup, SaveKeyStoragePath, RemovePreviousPath, DriverFails, Fault, Crash
-----------------------------------------------------------------------------
(***************************************************************************)
(* Deliveries.                                                             *)
(***************************************************************************)
LEMMA NothingDelivered ==
  ASSUME DeliveryInv, NotReportedYet', step' \notin WorkSteps \cup {"wipe", "remove"}
  PROVE  DeliveryInv'
BY DEF DeliveryInv, NoStop, CipherCompletes, KeyDelivered, WorkSteps

LEMMA CoreStepDelivers ==
  ASSUME IInv, DeliveryInv, CoreStep
  PROVE  DeliveryInv'
<1>1. /\ step \in {"core", "cipher"} /\ step' = "cipher" /\ storagePath' = storagePath
      /\ report' = report
  BY DEF CoreStep, CreateKeyFile, LocateKey, CipherPortion
<1>2. NotReportedYet'
  BY <1>1 DEF DeliveryInv, NotReportedYet, Busy
<1>3. CASE CreateKeyFile
  <2>1. call'.operation = "encrypt" /\ call'.cursor = FirstPortion
    <3>1. call \in FileCall /\ Encrypting
      BY <1>3, FilesOfCall DEF CreateKeyFile
    <3> QED BY <1>3, <3>1 DEF CreateKeyFile, Encrypting, FileCall
  <2> QED BY <1>1, <1>2, <2>1
          DEF DeliveryInv, NoStop, CipherCompletes, KeyDelivered, Decrypting, FirstPortion
<1>4. CASE LocateKey
  <2>1. call \in FileCall /\ disk[call.file] = call.before
    BY <1>4, FilesOfCall DEF LocateKey, IInv, CopyInProgress
  <2>2. /\ call'.cursor = FirstPortion /\ call'.before = call.before
        /\ call'.key = At(Resolve(storagePath), Md5(call.before))
    BY <1>4, <2>1 DEF LocateKey, FileCall, KeyPathFor
  <2> QED BY <1>1, <1>2, <2>2
          DEF DeliveryInv, NoStop, CipherCompletes, KeyDelivered, FirstPortion
<1>5. CASE CipherPortion
  <2>1. call \in FileCall
    BY <1>5, FilesOfCall DEF CipherPortion, WorkSteps
  <2>2. PICK reply \in Replies :
          call' = [call EXCEPT !.cursor = NextPortion(@, disk[call.key], reply)]
    BY <1>5 DEF CipherPortion
  <2>3. /\ call'.cursor = NextPortion(call.cursor, disk[call.key], reply)
        /\ call'.before = call.before /\ call'.key = call.key
        /\ call'.operation = call.operation
    BY <2>1, <2>2 DEF FileCall
  <2>4. call.cursor.progress \notin {"stop", "cancel"} /\ reply \notin {"stop", "cancel"}
    BY <1>5 DEF CipherPortion, DeliveryInv, NoStop, CipherCompletes
  <2>5. ~ call'.cursor.stop /\ call'.cursor.progress \notin {"stop", "cancel"}
    <3>1. NextProgress(call.cursor, reply) \notin {"stop", "cancel"}
      BY <2>4 DEF NextProgress
    <3>2. /\ call'.cursor.progress = NextProgress(call.cursor, reply)
          /\ call'.cursor.stop = (NextProgress(call.cursor, reply) \in {"stop", "cancel"})
      BY <2>3 DEF NextPortion
    <3> QED BY <3>1, <3>2
  <2>6. Decrypting' => call'.key = At(Resolve(storagePath), Md5(call'.before))
    BY <1>5, <2>3 DEF CipherPortion, DeliveryInv, CipherCompletes, WorkSteps, Decrypting
  <2> QED BY <1>1, <1>2, <2>5, <2>6 DEF DeliveryInv, NoStop, CipherCompletes, KeyDelivered
<1> QED BY <1>3, <1>4, <1>5 DEF CoreStep

LEMMA CoreCipheredDelivers ==
  ASSUME IInv, DeliveryInv, CoreCiphered
  PROVE  DeliveryInv'
<1>1. /\ step = "cipher" /\ step' \in {"store", "remove_key"}
      /\ call' = call /\ storagePath' = storagePath /\ report' = report
  BY DEF CoreCiphered, CipherReturns
<1>2. DOMAIN disk[call.file] = DOMAIN call.before
  BY <1>1 DEF IInv, WorkInPlace
<1>3. ~ PortionLeft(call.cursor, call.before)
  BY <1>1, <1>2 DEF CoreCiphered, CipherReturns, DeliveryInv, CipherCompletes, PortionLeft
<1>4. (step' = "store" => Encrypting) /\ (step' = "remove_key" => Decrypting)
  <2>1. Encrypting \/ Decrypting
    BY <1>1, FilesOfCall DEF WorkSteps, FileCall, Encrypting, Decrypting
  <2> QED BY <2>1 DEF CoreCiphered, CipherReturns
<1> QED BY <1>1, <1>3, <1>4
        DEF DeliveryInv, NoStop, CipherCompletes, KeyDelivered, NotReportedYet, WorkSteps,
            Busy, Encrypting, Decrypting

LEMMA CoreStoresKeyDelivers ==
  ASSUME IInv, DeliveryInv, CoreStoresKey
  PROVE  DeliveryInv'
<1> DEFINE f == call.file
           k == call.key
           q == KeyPathFor(call.file)
<1>1. DriverType /\ step = "store" /\ step' = "wipe" /\ storagePath' = storagePath /\ report' = report
  BY TypesOfDriver DEF IInv, CoreStoresKey, StoreKey
<1>2. /\ call \in FileCall /\ f \in DocumentPath /\ call.backup.name \in TempName
      /\ call.before \in Content /\ call.cursor \in Cursor /\ Exists(f) /\ disk[f] \in Content
  BY <1>1, FilesOfCall DEF WorkSteps
<1>3. Exists(k) /\ f # k
  BY <1>1, DocumentIsNoPart, <1>2 DEF IInv, KeyInUse, WorkSteps
<1>4. q \notin DOMAIN disk /\ disk' = With(Without(disk, k), q, disk[k])
  BY DEF CoreStoresKey, StoreKey, RenameFile, CanRename, Exists
<1>5. /\ disk'[f] = disk[f] /\ disk'[q] = disk[k]
      /\ f \in DOMAIN disk' /\ q \in DOMAIN disk'
  <2>1. /\ DOMAIN disk' = (DOMAIN disk \ {k}) \cup {q}
        /\ \A p \in DOMAIN disk' : disk'[p] = IF p = q THEN disk[k] ELSE Without(disk, k)[p]
    BY <1>4 DEF With, Without, Restrict
  <2>2. \A p \in DOMAIN disk \ {k} : Without(disk, k)[p] = disk[p]
    BY DEF Without, Restrict
  <2>3. f \in DOMAIN disk \ {k} /\ f # q
    BY <1>2, <1>3, <1>4 DEF Exists
  <2> HIDE DEF f, k, q
  <2> QED BY <2>1, <2>2, <2>3
<1>6. /\ call'.file = f /\ call'.backup = call.backup /\ call'.before = call.before
      /\ call'.key = q /\ call'.operation = call.operation
  BY <1>2 DEF CoreStoresKey, StoreKey, FileCall
<1>7. q # call.backup
  <2>1. q.name \in KeyName
    BY <1>2, KeyPathType DEF IInv, Exists
  <2> QED BY <1>2, <2>1, NameAssumption
<1>8. q = KeyPathFor(call.file)'
  BY <1>1, <1>5, <1>6 DEF KeyPathFor
<1>9. GammaFile(disk[f], disk[k]) = call.before
  <2>1. /\ DOMAIN disk[f] = DOMAIN call.before
        /\ \A i \in DOMAIN call.before :
             disk[f][i] = IF i < call.cursor.position
                          THEN GammaChunk(call.before[i], KeyAt(disk[k], i))
                          ELSE call.before[i]
    BY <1>1 DEF IInv, WorkInPlace
  <2>2. call.cursor.position \notin DOMAIN call.before
    BY <1>1 DEF DeliveryInv, CipherCompletes, PortionLeft
  <2>3. \A i \in DOMAIN call.before : i < call.cursor.position
    <3>1. DOMAIN call.before = 1..Len(call.before) /\ Len(call.before) \in Nat
      BY <1>2, ContentLength, MaxPortionsAssumption
    <3>2. call.cursor.position \in Nat \ {0}
      BY <1>2 DEF Cursor
    <3> QED BY <2>2, <3>1, <3>2
  <2>4. disk[k] \in Content
    BY <1>1, <1>3 DEF DriverType, Exists
  <2> QED BY <1>2, <2>1, <2>3, <2>4, GammaFileRestores
<1>10. Encrypting'
  BY <1>1, <1>6 DEF DeliveryInv, CipherCompletes, Encrypting
<1>11. KeyDelivered'
  <2>1. ~ Decrypting'
    BY <1>10 DEF Encrypting, Decrypting
  <2>2. /\ Exists(call.file)' /\ (call.key # call.backup)'
        /\ (call.key = KeyPathFor(call.file))' /\ Exists(call.key)'
    BY <1>5, <1>6, <1>7, <1>8 DEF Exists
  <2>3. GammaFile(disk'[call'.file], disk'[call'.key]) = call'.before
    BY <1>5, <1>6, <1>9
  <2> QED BY <2>1, <2>2, <2>3 DEF KeyDelivered
<1>12. CipherCompletes' /\ NotReportedYet'
  BY <1>1 DEF DeliveryInv, CipherCompletes, NotReportedYet, WorkSteps, Busy
<1> QED BY <1>11, <1>12 DEF DeliveryInv, NoStop

LEMMA CoreRemovesKeyDelivers ==
  ASSUME IInv, DeliveryInv, CoreRemovesKey
  PROVE  DeliveryInv'
<1>1. /\ step = "remove_key" /\ step' = "remove" /\ call' = call
      /\ storagePath' = storagePath /\ report' = report
  BY DEF CoreRemovesKey, RemoveKey
<1>2. call.key \notin DOMAIN disk'
  BY DEF CoreRemovesKey, RemoveKey, RemoveFile, Without, Restrict
<1>3. ~ Encrypting /\ (Decrypting => call.key = At(Resolve(storagePath), Md5(call.before)))
  BY <1>1 DEF DeliveryInv, CipherCompletes, WorkSteps, Encrypting, Decrypting
<1> QED BY <1>1, <1>2, <1>3
        DEF DeliveryInv, NoStop, CipherCompletes, KeyDelivered, NotReportedYet, WorkSteps,
            Busy, Encrypting, Decrypting, Exists

LEMMA OverwriteDelivers ==
  ASSUME IInv, DeliveryInv, OverwriteBackup
  PROVE  DeliveryInv'
<1>1. /\ step = "wipe" /\ step' = "remove" /\ call' = call
      /\ storagePath' = storagePath /\ report' = report
  BY DEF OverwriteBackup
<1>2. /\ DOMAIN disk' = DOMAIN disk
      /\ \A p \in DOMAIN disk : p # call.backup => disk'[p] = disk[p]
  BY DEF OverwriteBackup, WriteFile
<1>3. call.file # call.backup
  <2>1. call.file \in DocumentPath
    BY <1>1 DEF IInv, CallMatchesStep, FileSteps
  <2> QED BY <1>1, <2>1, DocumentIsNoPart DEF FileSteps
<1>4. KeyDelivered
  BY DEF DeliveryInv
<1>5. KeyDelivered'
  <2>1. ASSUME Encrypting'
        PROVE  /\ Exists(call.file)' /\ (call.key # call.backup)'
               /\ (call.key = KeyPathFor(call.file))' /\ Exists(call.key)'
               /\ GammaFile(disk'[call'.file], disk'[call'.key]) = call'.before
    <3>1. /\ Exists(call.file) /\ call.key # call.backup
          /\ call.key = KeyPathFor(call.file) /\ Exists(call.key)
          /\ GammaFile(disk[call.file], disk[call.key]) = call.before
      BY <1>1, <1>4, <2>1 DEF KeyDelivered, Encrypting
    <3>2. disk'[call.file] = disk[call.file] /\ disk'[call.key] = disk[call.key]
      BY <1>2, <1>3, <3>1 DEF Exists
    <3> QED BY <1>1, <1>2, <3>1, <3>2 DEF Exists, KeyPathFor
  <2>2. Decrypting' => /\ ~ Exists(call.key)'
                       /\ call'.key = At(Resolve(storagePath'), Md5(call'.before))
    BY <1>1, <1>2, <1>4 DEF KeyDelivered, Decrypting, Exists
  <2> QED BY <2>1, <2>2 DEF KeyDelivered
<1> QED BY <1>1, <1>5 DEF DeliveryInv, NoStop, CipherCompletes, NotReportedYet, WorkSteps, Busy

LEMMA DeliveryStep == IInv /\ DeliveryInv /\ [Next]_vars => DeliveryInv'
<1> SUFFICES ASSUME IInv, DeliveryInv, [Next]_vars PROVE DeliveryInv'
  OBVIOUS
<1> USE DEF WorkSteps
<1>1. CASE UNCHANGED vars
  BY <1>1 DEF vars, driverVars, coreVars, DeliveryInv, NoStop, CipherCompletes, KeyDelivered,
              NotReportedYet, Busy, Exists, Encrypting, Decrypting, KeyPathFor
<1>2. CASE KernelStep
  <2>1. CASE CopyPortion \/ CommitBackup
    BY <2>1, NothingDelivered
       DEF CopyPortion, CommitBackup, DeliveryInv, NotReportedYet, Busy
  <2>2. CASE CoreThrows \/ CoreBreaks \/ DriverFails \/ RemoveBackup \/ RemovePreviousPath
    <3>1. step' = "idle"
      BY <2>2 DEF CoreThrows, CoreBreaks, DriverFails, Throw, EndCall, RemoveBackup,
                  RemovePreviousPath
    <3> QED BY <3>1, NothingDelivered DEF NotReportedYet, Busy
  <2>3. CASE SaveKeyStoragePath
    BY <2>3, NothingDelivered DEF SaveKeyStoragePath, DeliveryInv, NotReportedYet, Busy
  <2> QED BY <1>2, <2>1, <2>2, <2>3, CoreStepDelivers, CoreCipheredDelivers,
             CoreStoresKeyDelivers, CoreRemovesKeyDelivers, OverwriteDelivers DEF KernelStep
<1>3. CASE ClientStep
  <2>1. ASSUME NEW f \in DocumentPath, EncryptFile(f) \/ DecryptFile(f)
        PROVE  DeliveryInv'
    BY <2>1, NothingDelivered DEF EncryptFile, DecryptFile, BeginCall, NotReportedYet
  <2>2. ASSUME NEW path \in StoragePath, SetKeyStoragePath(path)
        PROVE  DeliveryInv'
    BY <2>2, NothingDelivered DEF SetKeyStoragePath, NotReportedYet
  <2>3. ASSUME \/ \E value \in WipeMethod : SetWipeMethod(value)
               \/ \E core \in CoreType : SetCipher(core)
               \/ Construct \/ ConstructFails \/ Close
        PROVE  DeliveryInv'
    <3>1. step' \in {"idle", "closed"}
      BY <2>3 DEF SetWipeMethod, SetCipher, Construct, ConstructFails, Close, coreVars
    <3> QED BY <3>1, NothingDelivered DEF NotReportedYet, Busy
  <2> QED BY <1>3, <2>1, <2>2, <2>3 DEF ClientStep
<1>4. CASE EnvironmentStep
  <2>1. step' \in {"idle", "closed"}
    BY <1>4 DEF EnvironmentStep, Crash, PowerLoss, UserMoves, UserCopies,
                UserDeletesKeyFolder, coreVars, Busy
  <2> QED BY <2>1, NothingDelivered DEF NotReportedYet, Busy
<1> QED BY <1>1, <1>2, <1>3, <1>4 DEF Next

\* A handler that never stops the cipher is all that the deliveries ask for.
DeliverySpec == Spec /\ NoStop

LEMMA DeliveryHolds == DeliverySpec => []DeliveryInv
<1>1. Init /\ NoStop => DeliveryInv
  BY DEF Init, DeliveryInv, CipherCompletes, KeyDelivered, NotReportedYet, Busy, WorkSteps
<1> QED BY <1>1, DeliveryStep, InvariantHolds, PTL DEF Spec, DeliverySpec

\* A successful report means the work is done: an encryption leaves, under the name of the
\* document's new content, the key that restores the old one, and no backup; a decryption
\* has used up the key named after what it was given (ServerCommunicator.cpp:213-240).
THEOREM SuccessIsDelivered == DeliverySpec => CallsDeliver
<1> DEFINE Delivered ==
      Busy /\ InFileCall /\ report' = "done" =>
        /\ call.backup \notin DOMAIN disk'
        /\ Encrypting => /\ KeyPathFor(call.file) \in DOMAIN disk'
                         /\ GammaFile(disk'[call.file], disk'[KeyPathFor(call.file)])
                              = call.before
        /\ Decrypting => /\ call.key \notin DOMAIN disk'
                         /\ call.key = At(Resolve(storagePath), Md5(call.before))
<1>1. IInv /\ DeliveryInv /\ [Next]_vars => [Delivered]_vars
  <2> SUFFICES ASSUME IInv, DeliveryInv, Next, Busy, InFileCall, report' = "done"
               PROVE  Delivered
    OBVIOUS
  <2>1. report = "none" /\ step \notin PathSteps
    BY DEF DeliveryInv, NotReportedYet, IInv, CallMatchesStep, PathCall, InFileCall
  <2>2. ~ ClientStep /\ ~ EnvironmentStep
    BY <2>1 DEF ClientStep, EncryptFile, DecryptFile, BeginCall, SetKeyStoragePath,
                SetWipeMethod, SetCipher, Construct, ConstructFails, Close, EnvironmentStep,
                Crash, PowerLoss, UserMoves, UserCopies, UserDeletesKeyFolder, Busy
  <2>3. RemoveBackup
    BY <2>1, <2>2
       DEF Next, KernelStep, CopyPortion, CommitBackup, CoreStep, CoreThrows, CoreBreaks,
           CoreCiphered, CoreStoresKey, CoreRemovesKey, OverwriteBackup,
           SaveKeyStoragePath, RemovePreviousPath, DriverFails, Throw, PathSteps
  <2>4. /\ DOMAIN disk' = DOMAIN disk \ {call.backup}
        /\ \A p \in DOMAIN disk' : disk'[p] = disk[p]
    BY <2>3 DEF RemoveBackup, RemoveFile, Without, Restrict
  <2>5. step \in {"wipe", "remove"}
    BY <2>3 DEF RemoveBackup
  <2>6. call.file # call.backup
    <3>1. call.file \in DocumentPath
      BY <2>5 DEF IInv, CallMatchesStep, FileSteps
    <3> QED BY <2>5, <3>1, DocumentIsNoPart DEF FileSteps
  <2>7. KeyDelivered
    BY DEF DeliveryInv
  <2>8. ASSUME Encrypting
        PROVE  /\ KeyPathFor(call.file) \in DOMAIN disk'
               /\ GammaFile(disk'[call.file], disk'[KeyPathFor(call.file)]) = call.before
    BY <2>4, <2>5, <2>6, <2>7, <2>8 DEF KeyDelivered, Exists
  <2> QED BY <2>4, <2>5, <2>7, <2>8 DEF KeyDelivered, Exists
<1> QED BY <1>1, InvariantHolds, DeliveryHolds, PTL DEF Spec, DeliverySpec, CallsDeliver

-----------------------------------------------------------------------------
(***************************************************************************)
(* Settings.                                                               *)
(***************************************************************************)
LEMMA SettingsAgreeStep == IInv /\ SettingsAgree /\ [Next]_vars => SettingsAgree'
<1> SUFFICES ASSUME IInv, SettingsAgree, [Next]_vars, faults' = 0, step' # "closed"
             PROVE  registry' = [storage |-> IF step' = "save_path" THEN call'.previous
                                             ELSE storagePath',
                                 core |-> "absolute_security", wiper |-> wiper']
  BY DEF SettingsAgree
<1>1. faults = 0 /\ faults' = faults
  <2>1. faults \in Nat /\ faults' \in {faults, faults + 1}
    BY DEF Next, KernelStep, ClientStep, EnvironmentStep, CopyPortion, CommitBackup,
           CoreStep, CoreThrows, CoreBreaks, CoreCiphered, CoreStoresKey, CoreRemovesKey,
           OverwriteBackup, RemoveBackup, SaveKeyStoragePath, RemovePreviousPath,
           DriverFails, EncryptFile, DecryptFile, BeginCall, SetKeyStoragePath,
           SetWipeMethod, SetCipher, Construct, ConstructFails, Close, Crash, PowerLoss,
           UserMoves, UserCopies, UserDeletesKeyFolder, Fault, IInv, TypeOK, vars
  <2> QED BY <2>1
<1>2. registry \in Registry /\ wiper \in WipeMethod
  BY DEF IInv, TypeOK
<1>3. CASE step = "closed"
  <2>1. Construct
    BY <1>1, <1>3
       DEF Next, KernelStep, ClientStep, EnvironmentStep, CopyPortion, CommitBackup,
           CoreStep, CreateKeyFile, LocateKey, CipherPortion, CoreThrows, NoPlaceForKey,
           KeyMissing, KeyNameTaken, CoreBreaks, Fault, CoreCiphered, CipherReturns,
           CoreStoresKey, StoreKey, CoreRemovesKey, RemoveKey,
           OverwriteBackup, RemoveBackup, SaveKeyStoragePath, RemovePreviousPath,
           DriverFails, EncryptFile, DecryptFile, BeginCall, SetKeyStoragePath,
           SetWipeMethod, SetCipher, ConstructFails, Close, Crash, PowerLoss,
           UserMoves, UserCopies, UserDeletesKeyFolder, coreVars, vars
  <2> QED BY <2>1 DEF Construct, QueryRegistry
<1>4. CASE step # "closed"
  <2>1. registry = [storage |-> IF step = "save_path" THEN call.previous ELSE storagePath,
                    core |-> "absolute_security", wiper |-> wiper]
    BY <1>1, <1>4 DEF SettingsAgree
  <2>2. CASE UNCHANGED vars
    BY <2>1, <2>2 DEF vars, coreVars
  <2>3. CASE UNCHANGED <<storagePath, settingVars>> /\ step # "save_path" /\ step' # "save_path"
    BY <2>1, <2>3 DEF settingVars
  <2>4. ASSUME NEW path \in StoragePath, SetKeyStoragePath(path)
        PROVE  registry' = [storage |-> IF step' = "save_path" THEN call'.previous
                                        ELSE storagePath',
                            core |-> "absolute_security", wiper |-> wiper']
    BY <2>1, <2>4 DEF SetKeyStoragePath, settingVars
  <2>5. CASE SaveKeyStoragePath
    <3>1. call.next = storagePath
      BY <2>5 DEF SaveKeyStoragePath, IInv, CallMatchesStep, PathSteps
    <3> QED BY <2>1, <2>5, <3>1 DEF SaveKeyStoragePath
  <2>6. ASSUME NEW value \in WipeMethod, SetWipeMethod(value)
        PROVE  registry' = [storage |-> IF step' = "save_path" THEN call'.previous
                                        ELSE storagePath',
                            core |-> "absolute_security", wiper |-> wiper']
    BY <1>1, <2>1, <2>6 DEF SetWipeMethod, Fault, IInv, TypeOK
  <2>7. ASSUME NEW core \in CoreType, SetCipher(core)
        PROVE  registry' = [storage |-> IF step' = "save_path" THEN call'.previous
                                        ELSE storagePath',
                            core |-> "absolute_security", wiper |-> wiper']
    BY <2>1, <2>7 DEF SetCipher
  <2>8. CASE KernelStep /\ ~ SaveKeyStoragePath
    <3>1. ~ DriverFails /\ ~ CoreBreaks
      BY <1>1 DEF DriverFails, CoreBreaks, Fault
    <3>2. UNCHANGED <<storagePath, settingVars>> /\ step # "save_path" /\ step' # "save_path"
      BY <2>8, <3>1
         DEF KernelStep, CopyPortion, CommitBackup, CoreStep, CreateKeyFile, LocateKey,
             CipherPortion, CoreThrows, NoPlaceForKey, KeyMissing, KeyNameTaken, EndCall,
             Throw, CoreCiphered, CipherReturns, CoreStoresKey, StoreKey, CoreRemovesKey,
             RemoveKey, OverwriteBackup, RemoveBackup, RemovePreviousPath
    <3> QED BY <2>3, <3>2
  <2>9. CASE \/ \E f \in DocumentPath : EncryptFile(f) \/ DecryptFile(f)
             \/ Construct \/ ConstructFails \/ Close
    <3>1. ~ Construct /\ ~ ConstructFails /\ ~ Close
      BY <1>1, <1>4 DEF Construct, ConstructFails, Close, Fault
    <3>2. UNCHANGED <<storagePath, settingVars>> /\ step # "save_path" /\ step' # "save_path"
      BY <2>9, <3>1 DEF EncryptFile, DecryptFile, BeginCall
    <3> QED BY <2>3, <3>2
  <2>10. CASE EnvironmentStep
    <3>1. ~ Crash /\ ~ PowerLoss
      BY <1>1 DEF Crash, PowerLoss, Fault
    <3>2. UNCHANGED <<storagePath, settingVars>> /\ step # "save_path" /\ step' # "save_path"
      BY <2>10, <3>1
         DEF EnvironmentStep, UserMoves, UserCopies, UserDeletesKeyFolder, coreVars, Busy
    <3> QED BY <2>3, <3>2
  <2> QED BY <2>2, <2>4, <2>5, <2>6, <2>7, <2>8, <2>9, <2>10 DEF Next, ClientStep
<1> QED BY <1>3, <1>4

\* Until something fails, the next session has the settings of this one, whatever was set
\* and wherever a change of the key folder stands (ServerCommunicator.cpp:258-325).
THEOREM SettingsSurvive == Spec => []SettingsDurable
<1>1. Init => SettingsAgree
  BY DEF Init, SettingsAgree
<1>2. SettingsAgree => SettingsDurable
  BY DEF SettingsAgree, SettingsDurable
<1> QED BY <1>1, <1>2, SettingsAgreeStep, InvariantHolds, PTL DEF Spec

\* A setting that is in force and will not be in the next session has been reported, for
\* any calls and failures (ServerCommunicator.cpp:279-284, 307-308).
THEOREM UnsavedSettingsAreReported == Spec => UnsavedIsReported
<1>1. IInv /\ [Next]_vars => [Unsaved' \subseteq Unsaved \/ report' = "failed"]_vars
  <2> SUFFICES ASSUME IInv, Next, report' # "failed", step' # "closed"
               PROVE  Unsaved' \subseteq Unsaved
    BY DEF Unsaved
  <2>1. registry \in Registry /\ DOMAIN registry = {"storage", "core", "wiper"}
    BY DEF IInv, TypeOK, Registry
  <2>2. CASE /\ UNCHANGED <<storagePath, settingVars>>
             /\ step \notin {"save_path", "closed"} /\ step' # "save_path"
    BY <2>2 DEF Unsaved, InForce, settingVars
  <2>3. CASE Construct
    BY <2>3 DEF Construct, QueryRegistry, Unsaved, InForce
  <2>4. ASSUME NEW path \in StoragePath, SetKeyStoragePath(path)
        PROVE  Unsaved' \subseteq Unsaved
    BY <2>4 DEF SetKeyStoragePath, Unsaved, InForce, settingVars
  <2>5. CASE SaveKeyStoragePath
    <3>1. call.next = storagePath
      BY <2>5 DEF SaveKeyStoragePath, IInv, CallMatchesStep, PathSteps
    <3> QED BY <2>1, <2>5, <3>1 DEF SaveKeyStoragePath, Unsaved, InForce
  <2>6. ASSUME NEW value \in WipeMethod, SetWipeMethod(value)
        PROVE  Unsaved' \subseteq Unsaved
    BY <2>1, <2>6 DEF SetWipeMethod, Unsaved, InForce
  <2>7. ASSUME NEW core \in CoreType, SetCipher(core)
        PROVE  Unsaved' \subseteq Unsaved
    BY <2>1, <2>7 DEF SetCipher, Unsaved, InForce
  <2>8. CASE KernelStep /\ ~ SaveKeyStoragePath
    <3>1. ~ DriverFails /\ ~ CoreBreaks /\ ~ CoreThrows
      BY DEF DriverFails, CoreBreaks, CoreThrows, Throw
    <3>2. /\ UNCHANGED <<storagePath, settingVars>>
          /\ step \notin {"save_path", "closed"} /\ step' # "save_path"
      BY <2>8, <3>1
         DEF KernelStep, CopyPortion, CommitBackup, CoreStep, CreateKeyFile, LocateKey,
             CipherPortion, EndCall, CoreCiphered, CipherReturns, CoreStoresKey, StoreKey,
             CoreRemovesKey, RemoveKey, OverwriteBackup, RemoveBackup, RemovePreviousPath
    <3> QED BY <2>2, <3>2
  <2>9. CASE \/ \E f \in DocumentPath : EncryptFile(f) \/ DecryptFile(f)
             \/ ConstructFails \/ Close
    <3>1. ~ ConstructFails /\ ~ Close
      BY DEF ConstructFails, Close, coreVars
    <3> QED BY <2>2, <2>9, <3>1 DEF EncryptFile, DecryptFile, BeginCall
  <2>10. CASE EnvironmentStep
    <3>1. ~ Crash /\ ~ PowerLoss
      BY DEF Crash, PowerLoss
    <3>2. step \notin {"save_path", "closed"} \/ step = "closed"
      BY <2>10, <3>1 DEF EnvironmentStep, UserMoves, UserCopies, UserDeletesKeyFolder, Busy
    <3>3. UNCHANGED <<storagePath, settingVars, step>>
      BY <2>10, <3>1 DEF EnvironmentStep, UserMoves, UserCopies, UserDeletesKeyFolder, coreVars
    <3> QED BY <2>2, <3>2, <3>3
  <2> QED BY <2>3, <2>4, <2>5, <2>6, <2>7, <2>8, <2>9, <2>10 DEF Next, ClientStep
<1> QED BY <1>1, InvariantHolds, PTL DEF Spec, UnsavedIsReported

\* The program does not take away the key folder it uses, except by a change between two
\* names of this folder (ServerCommunicator.cpp:292-324).
THEOREM KeyFolderIsKept == Spec => KeyFolderStays
<1>1. IInv /\ [Next]_vars
        => [KeyFolderGone => SameFolderTwice \/ UserDeletesKeyFolder]_vars
  <2> SUFFICES ASSUME IInv, Next, KeyFolderGone, ~ UserDeletesKeyFolder
               PROVE  SameFolderTwice
    OBVIOUS
  <2>1. \/ UNCHANGED <<directories, storagePath>>
        \/ RemovePreviousPath
        \/ \E path \in StoragePath : SetKeyStoragePath(path)
    BY DEF Next, KernelStep, ClientStep, EnvironmentStep, CopyPortion, CommitBackup,
           CoreStep, CreateKeyFile, LocateKey, CipherPortion, CoreThrows, NoPlaceForKey,
           KeyMissing, KeyNameTaken, CoreBreaks, KeyWriteFails, CoreCiphered,
           CipherReturns, CoreStoresKey, StoreKey, CoreRemovesKey, RemoveKey,
           OverwriteBackup, RemoveBackup, SaveKeyStoragePath, DriverFails, EncryptFile,
           DecryptFile, BeginCall, SetWipeMethod, SetCipher, Construct, ConstructFails,
           Close, Crash, PowerLoss, DropUncommitted, UserMoves, UserCopies,
           KeyFolderGone, driverVars, coreVars
  <2>2. ~ \E path \in StoragePath : SetKeyStoragePath(path)
    BY DEF SetKeyStoragePath, CreateDirectory, KeyFolderGone
  <2>3. RemovePreviousPath
    BY <2>1, <2>2 DEF KeyFolderGone
  <2>4. step = "remove_path" /\ call.next = storagePath
    BY <2>3 DEF RemovePreviousPath, IInv, CallMatchesStep, PathSteps
  <2>5. Resolve(storagePath) \notin directories' /\ Resolve(storagePath) \in directories
    BY <2>3 DEF KeyFolderGone, RemovePreviousPath
  <2>6. Resolve(call.previous) = Resolve(storagePath)
    BY <2>3, <2>5 DEF RemovePreviousPath, RemoveDirectory
  <2> QED BY <2>4, <2>6 DEF SameFolderTwice
<1> QED BY <1>1, InvariantHolds, PTL DEF Spec, KeyFolderStays
=============================================================================
