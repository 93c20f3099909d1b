------------------------- MODULE TwoInstancesProofs -------------------------
(***************************************************************************)
(* Two processes on one disk, for any number of documents, portions and    *)
(* calls, any keys and any digest: each keeps its types and its backups,   *)
(* whatever the other one does and whenever they fail or die.              *)
(*                                                                         *)
(* What one process knows of its call does not survive the other one as    *)
(* such: the document may be ciphered twice, the key may go.  What does is *)
(* SharedInv, as long as the files the two work with are Apart; and the    *)
(* share modes keep them apart.                                            *)
(***************************************************************************)
EXTENDS TwoInstances, SituationProofs

\* No file that one process works with is worked with by the other.
Apart == \A p : ~ (Uses(p) /\ Second!Uses(p))

\* The inductive invariant.
TwoInv == SharedInv /\ Second!SharedInv /\ Apart

-----------------------------------------------------------------------------
(***************************************************************************)
(* The lemmas of a process, for the second one.                            *)
(***************************************************************************)
\* It meets their assumptions.
LEMMA SecondConstants ==
  /\ ZeroChunk \in Chunk
  /\ \A m, k \in Chunk : /\ GammaChunk(m, k) \in Chunk
                         /\ GammaChunk(GammaChunk(m, k), k) = m
  /\ MaxPortions \in Nat
  /\ DocumentName \cap TempName = {}
  /\ (DocumentName \cup TempName) \cap KeyName = {}
  /\ \A c \in Second!Content : Md5(c) \in KeyName
  /\ \A s \in StoragePath : Resolve(s) \in Directory
  /\ Replies \subseteq Second!Reply
  /\ NoFile \notin Second!Path
  /\ MaxCalls \in Nat
  /\ \A n \in 0..MaxCalls, c \in Second!Content :
       KeysOfSecond(n, c) \subseteq [DOMAIN c -> Chunk]
  /\ DocumentFolders \subseteq Directory
  /\ DOMAIN Documents \subseteq Second!DocumentPath
  /\ \A f \in DOMAIN Documents : Documents[f] \in Second!Content
  /\ DefaultStoragePath \in StoragePath
  /\ Unset \notin StoragePath \cup Second!WipeMethod \cup Second!CoreType
  /\ UserActs \subseteq Second!UserAct
  /\ PowerMayFail \in BOOLEAN
  /\ MaxFaults \in Nat
BY ZeroChunkAssumption, GammaAssumption, MaxPortionsAssumption, NameAssumption, CoreAssumption,
   ServerAssumption, SecondKeysAssumption
   DEF Second!Content, Content, Second!Reply, Reply, Second!Path, Path, Second!Name, Name,
       Second!DocumentPath, DocumentPath, Second!WipeMethod, WipeMethod, Second!CoreType, CoreType,
       Second!UserAct, UserAct

LEMMA SecondInit == Second!Init => Second!IInv
BY SecondConstants, Second!InitInvariant

LEMMA SecondOutsideFiles ==
  ASSUME Second!IInv', step2' \in {"idle", "closed"} \cup Second!PathSteps
  PROVE  Second!SharedInv'
BY SecondConstants, Second!SharedOutsideFiles

LEMMA SecondOwnStep ==
  ASSUME Second!SharedInv, Second!ProcessSteps,
         Second!CipherPortion => Second!Exists(call2.key)
  PROVE  Second!SharedInv'
BY SecondConstants, Second!OwnStep

LEMMA SecondSpares ==
  ASSUME Second!SharedInv, Second!ProcessSteps, NEW p \in DOMAIN disk, ~ Second!Changes(p)
  PROVE  Second!Spared(p)
BY SecondConstants, Second!StepSpares

LEMMA SecondDocumentsStay ==
  ASSUME Second!SharedInv, Second!ProcessSteps, NEW p \in DOMAIN disk, p.name \in DocumentName
  PROVE  p \in DOMAIN disk'
BY SecondConstants, Second!DocumentsStay

LEMMA SecondUses ==
  ASSUME Second!SharedInv, Second!ProcessSteps, NEW p, Second!Uses(p)'
  PROVE  \/ Second!Uses(p) \/ p \notin DOMAIN disk \/ Second!Opens(p)
         \/ /\ step2 = "idle" /\ p \in Second!DocumentPath
            /\ Second!EncryptFile(p) \/ Second!DecryptFile(p)
BY SecondConstants, Second!StepUses

LEMMA SecondOthersStep ==
  ASSUME Second!SharedInv, UNCHANGED <<step2, call2, storagePath2>>, Second!TypeOK',
         \A p \in DOMAIN disk : Second!Uses(p) => Second!Spared(p),
         \A p \in DOMAIN disk : p.name \in DocumentName => p \in DOMAIN disk'
  PROVE  Second!SharedInv'
BY SecondConstants, Second!OthersStep

\* The variables they share have the same types.
LEMMA SharedTypes ==
  /\ TypeOK' /\ Second!TypeOK /\ UNCHANGED secondVars => Second!TypeOK'
  /\ Second!TypeOK' /\ TypeOK /\ UNCHANGED firstVars => TypeOK'
BY DEF TypeOK, Second!TypeOK, firstVars, secondVars, Second!Content, Content, Second!Path, Path,
       Second!Name, Name, Second!DocumentPath, DocumentPath, Second!Registry, Registry,
       Second!WipeMethod, WipeMethod, Second!Steps, Steps, Second!NoCall, NoCall,
       Second!FileCall, FileCall, Second!PathCall, PathCall, Second!Cursor, Cursor,
       Second!Reply, Reply

-----------------------------------------------------------------------------
(***************************************************************************)
(* What the share modes exclude.                                           *)
(***************************************************************************)
\* Of the files a process works with, those without a temporary name are open.
LEMMA UsedIsHeld ==
  ASSUME NEW p, p.name \notin TempName
  PROVE  /\ SharedInv /\ Uses(p) => p \in HeldOpen(step, call)
         /\ Second!SharedInv /\ Second!Uses(p) => p \in HeldOpen(step2, call2)
<1>1. ASSUME SharedInv, Uses(p)
      PROVE  p \in HeldOpen(step, call)
  <2>1. step \in FileSteps => p # call.backup
    BY <1>1 DEF SharedInv, CallMatchesStep
  <2>2. step \in {"cipher", "store"} /\ Encrypting => p # call.key
    BY <1>1 DEF SharedInv, KeyOfCall, WorkSteps
  <2> QED BY <1>1, <2>1, <2>2 DEF Uses, CipherIsOpen, HeldOpen
<1>2. ASSUME Second!SharedInv, Second!Uses(p)
      PROVE  p \in HeldOpen(step2, call2)
  <2>1. step2 \in Second!FileSteps => p # call2.backup
    BY <1>2 DEF Second!SharedInv, Second!CallMatchesStep
  <2>2. step2 \in {"cipher", "store"} /\ Second!Encrypting => p # call2.key
    BY <1>2 DEF Second!SharedInv, Second!KeyOfCall, Second!WorkSteps
  <2> QED BY <1>2, <2>1, <2>2 DEF Second!Uses, Second!CipherIsOpen, HeldOpen
<1> QED BY <1>1, <1>2

LEMMA FirstMayGoOn ==
  ASSUME TwoInv, CanOpen(NextToOpen(step, call), HeldOpen(step2, call2))
  PROVE  /\ \A p : Changes(p) \/ Opens(p) => ~ Second!Uses(p)
         /\ CipherPortion => Exists(call.key)
<1>1. TypeOK /\ CallMatchesStep /\ SharedInv /\ Second!SharedInv
  BY DEF TwoInv, SharedInv
<1>2. ASSUME NEW p, p \in NextToOpen(step, call), p.name \notin TempName
      PROVE  ~ Second!Uses(p)
  BY <1>1, <1>2, UsedIsHeld DEF CanOpen
<1>3. ASSUME NEW p, Uses(p)
      PROVE  ~ Second!Uses(p)
  BY <1>3 DEF TwoInv, Apart
<1>4. ASSUME step \in WorkSteps
      PROVE  /\ call.file.name \notin TempName
             /\ Encrypting \/ (Decrypting /\ call.key.name \notin TempName)
             /\ call.cursor.position = 1 \/ call.cursor.position > 1
  <2>1. call \in FileCall /\ call.file \in DocumentPath /\ call.cursor \in Cursor
    BY <1>1, <1>4, FileOfCall
  <2>2. call.file.name \in DocumentName
    BY <2>1 DEF DocumentPath
  <2>3. Encrypting \/ Decrypting
    BY <2>1 DEF FileCall, Encrypting, Decrypting
  <2>4. Decrypting => call.key.name \in KeyName
    BY <1>1, <1>4 DEF SharedInv, KeyOfCall
  <2>5. call.cursor.position = 1 \/ call.cursor.position > 1
    BY <2>1 DEF Cursor
  <2> QED BY <2>2, <2>3, <2>4, <2>5, NameAssumption
<1>5. ASSUME NEW p, Opens(p)
      PROVE  ~ Second!Uses(p)
  <2>1. step = "cipher" /\ p \in NextToOpen(step, call)
    BY <1>5 DEF Opens, NextToOpen
  <2>2. Uses(p) \/ p.name \notin TempName
    BY <1>4, <1>5, <2>1 DEF Opens, Uses, WorkSteps
  <2> QED BY <1>2, <1>3, <2>1, <2>2
<1>6. ASSUME NEW p, Changes(p)
      PROVE  ~ Second!Uses(p)
  <2>1. CASE step \in {"backup", "wipe", "remove"}
    BY <1>3, <1>6, <2>1 DEF Changes, Uses, FileSteps
  <2>2. CASE step = "cipher"
    BY <1>3, <1>4, <1>5, <1>6, <2>2 DEF Changes, Uses, CipherIsOpen, Opens, WorkSteps
  <2>3. CASE step = "store"
    BY <1>1, <1>3, <1>6, <2>3 DEF Changes, Uses, SharedInv, KeyOfCall, WorkSteps
  <2>4. CASE step = "remove_key"
    <3>1. p \in NextToOpen(step, call) /\ p = call.key
      BY <1>6, <2>4 DEF Changes, NextToOpen
    <3>2. p.name \notin TempName
      BY <1>1, <2>4, <3>1, NameAssumption DEF SharedInv, KeyOfCall, WorkSteps
    <3> QED BY <1>2, <3>1, <3>2
  <2> QED BY <1>6, <2>1, <2>2, <2>3, <2>4 DEF Changes
<1>7. CipherPortion => Exists(call.key)
  <2> SUFFICES ASSUME CipherPortion PROVE Exists(call.key)
    OBVIOUS
  <2>1. step = "cipher"
    BY DEF CipherPortion
  <2>2. CASE call.cursor.position = 1
    BY <2>1, <2>2 DEF CanOpen, NextToOpen, Exists
  <2>3. CASE call.cursor.position > 1
    BY <1>1, <2>1, <2>3 DEF SharedInv, FilesAreThere, Uses, CipherIsOpen
  <2> QED BY <1>4, <2>1, <2>2, <2>3 DEF WorkSteps
<1> QED BY <1>5, <1>6, <1>7

\* A step of the first process, when what it changes or opens is not the other one's.
LEMMA FirstKeeps ==
  ASSUME TwoInv, ProcessSteps, UNCHANGED secondVars,
         \/ /\ \A p : Changes(p) \/ Opens(p) => ~ Second!Uses(p)
            /\ CipherPortion => Exists(call.key)
         \/ UNCHANGED <<disk, uncommitted>> /\ step' \notin FileSteps
         \/ step = "idle",
         \A f \in DocumentPath : EncryptFile(f) \/ DecryptFile(f) => f \notin HeldOpen(step2, call2)
  PROVE  TwoInv'
<1>1. SharedInv /\ Second!SharedInv /\ Apart
  BY DEF TwoInv
<1>2. CipherPortion => step = "cipher" /\ step' = "cipher"
  BY DEF CipherPortion
<1>3. CipherPortion => Exists(call.key)
  BY <1>2 DEF FileSteps, WorkSteps
<1>4. SharedInv'
  BY <1>1, <1>3, OwnStep
<1>5. ASSUME NEW p \in DOMAIN disk, Second!Uses(p)
      PROVE  Second!Spared(p)
  <2>1. CASE ~ Changes(p)
    BY <1>1, <2>1, StepSpares DEF Spared, Second!Spared
  <2>2. CASE Changes(p)
    <3>1. step # "idle"
      BY <2>2 DEF Changes
    <3> QED BY <1>5, <2>2, <3>1 DEF Second!Spared
  <2> QED BY <2>1, <2>2
<1>6. ASSUME NEW p \in DOMAIN disk, p.name \in DocumentName
      PROVE  p \in DOMAIN disk'
  BY <1>1, <1>6, DocumentsStay
<1>7. Second!TypeOK'
  BY <1>1, <1>4, SharedTypes DEF SharedInv, Second!SharedInv
<1>8. Second!SharedInv'
  BY <1>1, <1>5, <1>6, <1>7, SecondOthersStep DEF secondVars
<1>9. Apart'
  <2> SUFFICES ASSUME NEW p, Uses(p)', Second!Uses(p)'
               PROVE  FALSE
    BY DEF Apart
  <2>1. Second!Uses(p)
    BY DEF Second!Uses, Second!CipherIsOpen, Second!Encrypting, secondVars
  <2>2. p \in DOMAIN disk /\ ~ Uses(p)
    BY <1>1, <2>1 DEF Second!SharedInv, Second!FilesAreThere, Second!Exists, Apart
  <2>3. CASE Opens(p)
    <3>1. step = "cipher" /\ step' \in FileSteps
      BY <2>3 DEF Opens, Uses, CipherIsOpen, FileSteps, WorkSteps
    <3> QED BY <2>1, <2>3, <3>1
  <2>4. CASE p \in DocumentPath /\ (EncryptFile(p) \/ DecryptFile(p))
    <3>1. p.name \notin TempName
      BY <2>4, NameAssumption DEF DocumentPath
    <3> QED BY <1>1, <2>1, <2>4, <3>1, UsedIsHeld
  <2> QED BY <1>1, <2>2, <2>3, <2>4, StepUses
<1> QED BY <1>4, <1>8, <1>9 DEF TwoInv

LEMMA SecondMayGoOn ==
  ASSUME TwoInv, CanOpen(NextToOpen(step2, call2), HeldOpen(step, call))
  PROVE  /\ \A p : Second!Changes(p) \/ Second!Opens(p) => ~ Uses(p)
         /\ Second!CipherPortion => Second!Exists(call2.key)
<1>1. /\ Second!TypeOK /\ Second!CallMatchesStep /\ Second!KeyOfCall /\ Second!FilesAreThere
      /\ SharedInv /\ Second!SharedInv
  BY DEF TwoInv, Second!SharedInv
<1>2. ASSUME NEW p, p \in NextToOpen(step2, call2), p.name \notin TempName
      PROVE  ~ Uses(p)
  BY <1>1, <1>2, UsedIsHeld DEF CanOpen
<1>3. ASSUME NEW p, Second!Uses(p)
      PROVE  ~ Uses(p)
  BY <1>3 DEF TwoInv, Apart
<1>4. ASSUME step2 \in Second!WorkSteps
      PROVE  /\ call2.file.name \notin TempName
             /\ Second!Encrypting \/ (Second!Decrypting /\ call2.key.name \notin TempName)
             /\ call2.cursor.position = 1 \/ call2.cursor.position > 1
  <2>1. call2 \in Second!FileCall /\ call2.file \in Second!DocumentPath
    BY <1>1, <1>4 DEF Second!CallMatchesStep, Second!FileSteps
  <2>2. call2.file.name \in DocumentName
    BY <2>1 DEF Second!DocumentPath
  <2>3. Second!Encrypting \/ Second!Decrypting
    BY <2>1 DEF Second!FileCall, Second!Encrypting, Second!Decrypting
  <2>4. Second!Decrypting => call2.key.name \in KeyName
    BY <1>1, <1>4 DEF Second!KeyOfCall
  <2>5. call2.cursor.position = 1 \/ call2.cursor.position > 1
    BY <2>1 DEF Second!FileCall, Second!Cursor
  <2> QED BY <2>2, <2>3, <2>4, <2>5, NameAssumption
<1>5. ASSUME NEW p, Second!Opens(p)
      PROVE  ~ Uses(p)
  <2>1. step2 = "cipher" /\ p \in NextToOpen(step2, call2)
    BY <1>5 DEF Second!Opens, NextToOpen
  <2>2. Second!Uses(p) \/ p.name \notin TempName
    BY <1>4, <1>5, <2>1 DEF Second!Opens, Second!Uses, Second!WorkSteps
  <2> QED BY <1>2, <1>3, <2>1, <2>2
<1>6. ASSUME NEW p, Second!Changes(p)
      PROVE  ~ Uses(p)
  <2>1. CASE step2 \in {"backup", "wipe", "remove"}
    BY <1>3, <1>6, <2>1 DEF Second!Changes, Second!Uses, Second!FileSteps
  <2>2. CASE step2 = "cipher"
    BY <1>3, <1>4, <1>5, <1>6, <2>2
       DEF Second!Changes, Second!Uses, Second!CipherIsOpen, Second!Opens, Second!WorkSteps
  <2>3. CASE step2 = "store"
    BY <1>1, <1>3, <1>6, <2>3
       DEF Second!Changes, Second!Uses, Second!KeyOfCall, Second!WorkSteps
  <2>4. CASE step2 = "remove_key"
    <3>1. p \in NextToOpen(step2, call2) /\ p = call2.key
      BY <1>6, <2>4 DEF Second!Changes, NextToOpen
    <3>2. p.name \notin TempName
      BY <1>1, <2>4, <3>1, NameAssumption DEF Second!KeyOfCall, Second!WorkSteps
    <3> QED BY <1>2, <3>1, <3>2
  <2> QED BY <1>6, <2>1, <2>2, <2>3, <2>4 DEF Second!Changes
<1>7. Second!CipherPortion => Second!Exists(call2.key)
  <2> SUFFICES ASSUME Second!CipherPortion PROVE Second!Exists(call2.key)
    OBVIOUS
  <2>1. step2 = "cipher"
    BY DEF Second!CipherPortion
  <2>2. CASE call2.cursor.position = 1
    BY <2>1, <2>2 DEF CanOpen, NextToOpen, Second!Exists
  <2>3. CASE call2.cursor.position > 1
    BY <1>1, <2>1, <2>3 DEF Second!FilesAreThere, Second!Uses, Second!CipherIsOpen
  <2> QED BY <1>4, <2>1, <2>2, <2>3 DEF Second!WorkSteps
<1> QED BY <1>5, <1>6, <1>7

\* The same for a step of the second one.
LEMMA SecondKeeps ==
  ASSUME TwoInv, Second!ProcessSteps, UNCHANGED firstVars,
         \/ /\ \A p : Second!Changes(p) \/ Second!Opens(p) => ~ Uses(p)
            /\ Second!CipherPortion => Second!Exists(call2.key)
         \/ UNCHANGED <<disk, uncommitted>> /\ step2' \notin Second!FileSteps
         \/ step2 = "idle",
         \A f \in Second!DocumentPath :
           Second!EncryptFile(f) \/ Second!DecryptFile(f) => f \notin HeldOpen(step, call)
  PROVE  TwoInv'
<1>1. SharedInv /\ Second!SharedInv /\ Apart
  BY DEF TwoInv
<1>2. Second!CipherPortion => step2 = "cipher" /\ step2' = "cipher"
  BY DEF Second!CipherPortion
<1>3. Second!CipherPortion => Second!Exists(call2.key)
  BY <1>2 DEF Second!FileSteps, Second!WorkSteps
<1>4. Second!SharedInv'
  BY <1>1, <1>3, SecondOwnStep
<1>5. ASSUME NEW p \in DOMAIN disk, Uses(p)
      PROVE  Spared(p)
  <2>1. CASE ~ Second!Changes(p)
    BY <1>1, <2>1, SecondSpares DEF Spared, Second!Spared
  <2>2. CASE Second!Changes(p)
    <3>1. step2 # "idle"
      BY <2>2 DEF Second!Changes
    <3> QED BY <1>5, <2>2, <3>1 DEF Spared
  <2> QED BY <2>1, <2>2
<1>6. ASSUME NEW p \in DOMAIN disk, p.name \in DocumentName
      PROVE  p \in DOMAIN disk'
  BY <1>1, <1>6, SecondDocumentsStay
<1>7. TypeOK'
  BY <1>1, <1>4, SharedTypes DEF SharedInv, Second!SharedInv
<1>8. SharedInv'
  BY <1>1, <1>5, <1>6, <1>7, OthersStep DEF firstVars
<1>9. Apart'
  <2> SUFFICES ASSUME NEW p, Uses(p)', Second!Uses(p)'
               PROVE  FALSE
    BY DEF Apart
  <2>1. Uses(p)
    BY DEF Uses, CipherIsOpen, Encrypting, firstVars
  <2>2. p \in DOMAIN disk /\ ~ Second!Uses(p)
    BY <1>1, <2>1 DEF SharedInv, FilesAreThere, Exists, Apart
  <2>3. CASE Second!Opens(p)
    <3>1. step2 = "cipher" /\ step2' \in Second!FileSteps
      BY <2>3 DEF Second!Opens, Second!Uses, Second!CipherIsOpen, Second!FileSteps, Second!WorkSteps
    <3> QED BY <2>1, <2>3, <3>1
  <2>4. CASE p \in Second!DocumentPath /\ (Second!EncryptFile(p) \/ Second!DecryptFile(p))
    <3>1. p.name \notin TempName
      BY <2>4, NameAssumption DEF Second!DocumentPath
    <3> QED BY <1>1, <2>1, <2>4, <3>1, UsedIsHeld
  <2> QED BY <1>1, <2>2, <2>3, <2>4, SecondUses
<1> QED BY <1>4, <1>8, <1>9 DEF TwoInv

-----------------------------------------------------------------------------
(***************************************************************************)
(* The theorems.                                                           *)
(***************************************************************************)
LEMMA TwoInitInvariant == TwoInit => TwoInv
<1> SUFFICES ASSUME TwoInit PROVE TwoInv
  OBVIOUS
<1>1. IInv /\ step = "closed"
  BY InitInvariant DEF TwoInit, Init
<1>2. Second!IInv /\ step2 = "closed"
  <2>1. Second!Init
    BY DEF TwoInit, Init, Second!Init, Second!NoCall, NoCall, Second!DocumentPath, DocumentPath
  <2> QED BY <2>1, SecondInit DEF TwoInit
<1>3. SharedInv
  BY <1>1 DEF SharedInv, IInv, CopySoFar, KeyOfCall, FilesAreThere, Uses, CipherIsOpen, FileSteps,
              WorkSteps
<1>4. Second!SharedInv
  BY <1>2 DEF Second!SharedInv, Second!IInv, Second!CopySoFar, Second!KeyOfCall,
              Second!FilesAreThere, Second!Uses, Second!CipherIsOpen, Second!FileSteps,
              Second!WorkSteps
<1>5. Apart
  BY <1>1 DEF Apart, Uses, CipherIsOpen, FileSteps, WorkSteps
<1> QED BY <1>3, <1>4, <1>5 DEF TwoInv

LEMMA FirstStepKeeps ==
  ASSUME TwoInv, FirstStep
  PROVE  TwoInv'
<1>1. UNCHANGED secondVars
  BY DEF FirstStep
<1>2. CASE CanOpen(NextToOpen(step, call), HeldOpen(step2, call2)) /\ KernelStep
  <2>1. step # "idle"
    BY <1>2 DEF KernelStep, CopyPortion, CommitBackup, CoreStep, CreateKeyFile, LocateKey,
       CipherPortion, CoreThrows, NoPlaceForKey, KeyMissing, KeyNameTaken, CoreBreaks,
       KeyWriteFails, CoreCiphered, CipherReturns, CoreStoresKey, StoreKey, CoreRemovesKey,
       RemoveKey, OverwriteBackup, RemoveBackup, SaveKeyStoragePath, RemovePreviousPath,
       DriverFails, Busy
  <2>2. \A f \in DocumentPath : ~ (EncryptFile(f) \/ DecryptFile(f))
    BY <2>1 DEF EncryptFile, DecryptFile, BeginCall
  <2> QED BY <1>1, <1>2, <2>2, FirstMayGoOn, FirstKeeps DEF ProcessSteps
<1>3. CASE Refused \/ Crash
  <2>1. (OpenFails \/ Crash) /\ Busy
    BY <1>3 DEF Refused, OpenFails, Crash
  <2>2. \A f \in DocumentPath : ~ (EncryptFile(f) \/ DecryptFile(f))
    BY <2>1 DEF EncryptFile, DecryptFile, BeginCall, Busy
  <2>3. UNCHANGED <<disk, uncommitted>> /\ step' \notin FileSteps
    BY <2>1 DEF OpenFails, Throw, EndCall, Crash, driverVars, FileSteps, WorkSteps
  <2> QED BY <1>1, <2>1, <2>2, <2>3, FirstKeeps DEF ProcessSteps
<1>4. CASE FirstClient
  <2>1. ProcessSteps
    BY <1>4 DEF FirstClient, ProcessSteps
  <2>2. \/ step = "idle"
        \/ UNCHANGED <<disk, uncommitted>> /\ step' \notin FileSteps
    BY <1>4 DEF FirstClient, EncryptFile, DecryptFile, BeginCall, SetKeyStoragePath, Construct, Close,
                FileSteps, WorkSteps
  <2>3. ASSUME NEW f \in DocumentPath, EncryptFile(f) \/ DecryptFile(f)
        PROVE  f \notin HeldOpen(step2, call2)
    <3>1. step = "idle" /\ step' = "backup" /\ call'.file = f
      BY <2>3 DEF EncryptFile, DecryptFile, BeginCall
    <3>2. PICK g \in DocumentPath \ HeldOpen(step2, call2) : EncryptFile(g) \/ DecryptFile(g)
      BY <1>4, <3>1 DEF FirstClient, SetKeyStoragePath, Construct, Close
    <3>3. call'.file = g
      BY <3>2 DEF EncryptFile, DecryptFile, BeginCall
    <3> QED BY <3>1, <3>2, <3>3
  <2> QED BY <1>1, <2>1, <2>2, <2>3, FirstKeeps
<1> QED BY <1>2, <1>3, <1>4 DEF FirstStep

LEMMA SecondStepKeeps ==
  ASSUME TwoInv, SecondStep
  PROVE  TwoInv'
<1>1. UNCHANGED firstVars
  BY DEF SecondStep
<1>2. CASE CanOpen(NextToOpen(step2, call2), HeldOpen(step, call)) /\ Second!KernelStep
  <2>1. step2 # "idle"
    BY <1>2 DEF Second!KernelStep, Second!CopyPortion, Second!CommitBackup, Second!CoreStep,
       Second!CreateKeyFile, Second!LocateKey, Second!CipherPortion, Second!CoreThrows,
       Second!NoPlaceForKey, Second!KeyMissing, Second!KeyNameTaken, Second!CoreBreaks,
       Second!KeyWriteFails, Second!CoreCiphered, Second!CipherReturns, Second!CoreStoresKey,
       Second!StoreKey, Second!CoreRemovesKey, Second!RemoveKey, Second!OverwriteBackup,
       Second!RemoveBackup, Second!SaveKeyStoragePath, Second!RemovePreviousPath,
       Second!DriverFails, Second!Busy
  <2>2. \A f \in Second!DocumentPath : ~ (Second!EncryptFile(f) \/ Second!DecryptFile(f))
    BY <2>1 DEF Second!EncryptFile, Second!DecryptFile, Second!BeginCall
  <2> QED BY <1>1, <1>2, <2>2, SecondMayGoOn, SecondKeeps DEF Second!ProcessSteps
<1>3. CASE SecondRefused \/ Second!Crash
  <2>1. (Second!OpenFails \/ Second!Crash) /\ Second!Busy
    BY <1>3 DEF SecondRefused, Second!OpenFails, Second!Crash, driverVars, Second!driverVars,
                Second!settingVars
  <2>2. \A f \in Second!DocumentPath : ~ (Second!EncryptFile(f) \/ Second!DecryptFile(f))
    BY <2>1 DEF Second!EncryptFile, Second!DecryptFile, Second!BeginCall, Second!Busy
  <2>3. UNCHANGED <<disk, uncommitted>> /\ step2' \notin Second!FileSteps
    BY <2>1 DEF Second!OpenFails, Second!Throw, Second!EndCall, Second!Crash, Second!driverVars,
                Second!FileSteps, Second!WorkSteps
  <2> QED BY <1>1, <2>1, <2>2, <2>3, SecondKeeps DEF Second!ProcessSteps
<1>4. CASE SecondClient
  <2>1. DocumentPath = Second!DocumentPath
    BY DEF DocumentPath, Second!DocumentPath
  <2>2. Second!ProcessSteps
    BY <1>4, <2>1 DEF SecondClient, Second!ProcessSteps
  <2>3. \/ step2 = "idle"
        \/ UNCHANGED <<disk, uncommitted>> /\ step2' \notin Second!FileSteps
    BY <1>4 DEF SecondClient, Second!EncryptFile, Second!DecryptFile, Second!BeginCall,
                Second!SetKeyStoragePath, Second!Construct, Second!Close, Second!FileSteps,
                Second!WorkSteps
  <2>4. ASSUME NEW f \in Second!DocumentPath, Second!EncryptFile(f) \/ Second!DecryptFile(f)
        PROVE  f \notin HeldOpen(step, call)
    <3>1. step2 = "idle" /\ step2' = "backup" /\ call2'.file = f
      BY <2>4 DEF Second!EncryptFile, Second!DecryptFile, Second!BeginCall
    <3>2. PICK g \in DocumentPath \ HeldOpen(step, call) :
            Second!EncryptFile(g) \/ Second!DecryptFile(g)
      BY <1>4, <3>1 DEF SecondClient, Second!SetKeyStoragePath, Second!Construct, Second!Close
    <3>3. call2'.file = g
      BY <3>2 DEF Second!EncryptFile, Second!DecryptFile, Second!BeginCall
    <3> QED BY <3>1, <3>2, <3>3
  <2> QED BY <1>1, <2>2, <2>3, <2>4, SecondKeeps
<1> QED BY <1>2, <1>3, <1>4 DEF SecondStep

LEMMA TwoNextInvariant == TwoInv /\ [TwoNext]_allVars => TwoInv'
<1> SUFFICES ASSUME TwoInv, [TwoNext]_allVars PROVE TwoInv'
  OBVIOUS
<1>1. CASE TwoNext
  BY <1>1, FirstStepKeeps, SecondStepKeeps DEF TwoNext
<1>2. CASE UNCHANGED allVars
  <2>1. SharedInv /\ Second!SharedInv /\ Apart
    BY DEF TwoInv
  <2>2. UNCHANGED <<vars, secondVars>>
    BY <1>2 DEF allVars
  <2>3. SharedInv'
    BY <2>1, <2>2 DEF vars, driverVars, coreVars, SharedInv, TypeOK, CallMatchesStep, CopySoFar,
       BackupIntact, KeyOfCall, FilesAreThere, Uses, CipherIsOpen, Busy, Exists, Encrypting, Decrypting
  <2>4. Second!SharedInv'
    BY <2>1, <2>2 DEF vars, driverVars, coreVars, secondVars, Second!SharedInv, Second!TypeOK,
       Second!CallMatchesStep, Second!CopySoFar, Second!BackupIntact, Second!KeyOfCall,
       Second!FilesAreThere, Second!Uses, Second!CipherIsOpen, Second!Busy, Second!Exists,
       Second!Encrypting, Second!Decrypting
  <2>5. Apart'
    BY <2>1, <2>2 DEF vars, coreVars, secondVars, Apart, Uses, CipherIsOpen, Encrypting,
       Second!Uses, Second!CipherIsOpen, Second!Encrypting
  <2> QED BY <2>3, <2>4, <2>5 DEF TwoInv
<1> QED BY <1>1, <1>2

THEOREM TwoInvariantHolds == TwoSpec => []TwoInv
BY TwoInitInvariant, TwoNextInvariant, PTL DEF TwoSpec

\* Neither process leaves the other one a file or a registry it cannot use
\* (ServerCommunicator.cpp:185-191, 258-264, 307-308).
THEOREM BothTypeCorrect == TwoSpec => []BothTypesOK
<1>1. TwoInv => BothTypesOK
  BY DEF TwoInv, SharedInv, Second!SharedInv, BothTypesOK
<1> QED BY <1>1, TwoInvariantHolds, PTL

\* Each process has a full and committed copy of its document for as long as it changes
\* it, whatever the other one does to the same document and the same key
\* (ServerCommunicator.cpp:345-350, 364-374; GammaFileCipher.cpp:34-39).
THEOREM BothBackupsStayIntact == TwoSpec => []BothBackupsIntact
<1>1. TwoInv => BothBackupsIntact
  BY DEF TwoInv, SharedInv, Second!SharedInv, BothBackupsIntact
<1> QED BY <1>1, TwoInvariantHolds, PTL
-----------------------------------------------------------------------------
(***************************************************************************)
(* The situations the two processes are in.                                *)
(***************************************************************************)
Safe == {f \in DocumentPath : f \notin Contested \/ (faults = 0 /\ f \notin DecryptedTwice)}

\* As the first process sees it, and as the second one does.
Here == [disk |-> disk, named |-> named, sealed |-> sealed, calls |-> calls,
         mine |-> Serving, theirs |-> Second!Serving,
         free |-> DocumentPath \ Contested, twice |-> DecryptedTwice, safe |-> Safe]

There == [disk |-> disk, named |-> named, sealed |-> sealed, calls |-> calls,
          mine |-> Second!Serving, theirs |-> Serving,
          free |-> DocumentPath \ Contested, twice |-> DecryptedTwice, safe |-> Safe]

\* Every overlap is on record.
Recorded == Overlapping \subseteq overlaps

LEMMA TurnedThere == Turned(Here, There) /\ Turned(There, Here)
BY DEF Turned, Here, There

LEMMA FirstSound == SharedInv => Sound(disk, Serving)
<1> SUFFICES ASSUME SharedInv PROVE Sound(disk, Serving)
  OBVIOUS
<1>1. \A p : UsedBy(Serving, p) <=> Uses(p)
  BY DEF UsedBy, Serving, Uses, CipherIsOpen, Encrypting
<1>2. \A p : UsedBy(Serving, p) => p \in DOMAIN disk
  BY <1>1 DEF SharedInv, FilesAreThere, Exists
<1>3. step \in FileSteps =>
        /\ call \in FileCall /\ call.file \in DocumentPath /\ call.backup.name \in TempName
  BY DEF SharedInv, CallMatchesStep
<1>4. step \in FileSteps =>
        /\ call.operation \in {"encrypt", "decrypt"} /\ call.cursor.position \in Nat \ {0}
  BY <1>3 DEF FileCall, Cursor
<1>5. step \in {"backup", "core"} \cup WorkSteps => call.file \in DOMAIN disk
  BY DEF SharedInv, CallMatchesStep, Exists
<1>6. /\ step = "backup" => disk[call.file] = call.before
      /\ step \in {"core"} \cup WorkSteps => disk[call.backup] = call.before
  BY DEF SharedInv, CopySoFar, BackupIntact, WorkSteps
<1>7. /\ step \in WorkSteps =>
           /\ call.key # call.backup
           /\ call.operation = "encrypt" => call.key.name \in TempName
           /\ call.operation = "decrypt" => call.key.name \in KeyName
      /\ step = "store" => call.operation = "encrypt"
      /\ step = "remove_key" => call.operation = "decrypt"
  BY DEF SharedInv, KeyOfCall, WorkSteps, Encrypting, Decrypting
<1> QED BY <1>2, <1>3, <1>4, <1>5, <1>6, <1>7 DEF Sound, Serving

LEMMA SecondSound == Second!SharedInv => Sound(disk, Second!Serving)
<1> SUFFICES ASSUME Second!SharedInv PROVE Sound(disk, Second!Serving)
  OBVIOUS
<1>0. FileSteps = Second!FileSteps /\ WorkSteps = Second!WorkSteps /\ DocumentPath = Second!DocumentPath
  BY DEF FileSteps, Second!FileSteps, WorkSteps, Second!WorkSteps, DocumentPath, Second!DocumentPath
<1>1. \A p : UsedBy(Second!Serving, p) <=> Second!Uses(p)
  BY <1>0 DEF UsedBy, Second!Serving, Second!Uses, Second!CipherIsOpen, Second!Encrypting
<1>2. \A p : UsedBy(Second!Serving, p) => p \in DOMAIN disk
  BY <1>1 DEF Second!SharedInv, Second!FilesAreThere, Second!Exists
<1>3. step2 \in Second!FileSteps =>
        /\ call2 \in Second!FileCall /\ call2.file \in Second!DocumentPath
        /\ call2.backup.name \in TempName
  BY DEF Second!SharedInv, Second!CallMatchesStep
<1>4. step2 \in Second!FileSteps =>
        /\ call2.operation \in {"encrypt", "decrypt"} /\ call2.cursor.position \in Nat \ {0}
  BY <1>3 DEF Second!FileCall, Second!Cursor
<1>5. step2 \in {"backup", "core"} \cup Second!WorkSteps => call2.file \in DOMAIN disk
  BY DEF Second!SharedInv, Second!CallMatchesStep, Second!Exists
<1>6. /\ step2 = "backup" => disk[call2.file] = call2.before
      /\ step2 \in {"core"} \cup Second!WorkSteps => disk[call2.backup] = call2.before
  BY DEF Second!SharedInv, Second!CopySoFar, Second!BackupIntact, Second!WorkSteps
<1>7. /\ step2 \in Second!WorkSteps =>
           /\ call2.key # call2.backup
           /\ call2.operation = "encrypt" => call2.key.name \in TempName
           /\ call2.operation = "decrypt" => call2.key.name \in KeyName
      /\ step2 = "store" => call2.operation = "encrypt"
      /\ step2 = "remove_key" => call2.operation = "decrypt"
  BY DEF Second!SharedInv, Second!KeyOfCall, Second!WorkSteps, Second!Encrypting, Second!Decrypting
<1> QED BY <1>0, <1>2, <1>3, <1>4, <1>5, <1>6, <1>7 DEF Sound, Second!Serving

LEMMA HereIsProper == TwoInv /\ Recorded => Proper(Here)
<1> SUFFICES ASSUME TwoInv, Recorded PROVE Proper(Here)
  OBVIOUS
<1>1. SharedInv /\ Second!SharedInv /\ Apart /\ TypeOK
  BY DEF TwoInv, SharedInv
<1>2. Sound(disk, Serving) /\ Sound(disk, Second!Serving)
  BY <1>1, FirstSound, SecondSound
<1>3. /\ Filled(disk) /\ calls \in Nat /\ sealed \in [DocumentPath -> Seq(Content)]
  BY <1>1, CoreAssumption DEF TypeOK, Filled
<1>4. \A p : ~ (UsedBy(Serving, p) /\ UsedBy(Second!Serving, p))
  BY <1>1 DEF Apart, UsedBy, Serving, Uses, CipherIsOpen, Encrypting, FileSteps, WorkSteps,
     Second!Serving, Second!Uses, Second!CipherIsOpen, Second!Encrypting, Second!FileSteps,
     Second!WorkSteps
<1>5. ASSUME step \in FileSteps, step2 \in FileSteps, call.file = call2.file
      PROVE  /\ call.file \in Contested
             /\ call.operation = "decrypt" /\ call2.operation = "decrypt" =>
                  call.file \in DecryptedTwice
  <2>1. InFileCall /\ Second!InFileCall
    BY <1>2, <1>5 DEF Sound, Serving, Second!Serving, InFileCall, Second!InFileCall
  <2>2. [file |-> call.file, operations |-> {call.operation, call2.operation}] \in overlaps
    BY <1>5, <2>1 DEF Recorded, Overlapping
  <2> QED BY <2>2 DEF Contested, DecryptedTwice
<1>6. /\ DocumentPath \ Contested \subseteq Safe /\ Safe \subseteq DocumentPath
      /\ Safe \cap DecryptedTwice = {}
  BY DEF Safe, Contested, DecryptedTwice
<1>7. SameDocument(Here) =>
        /\ call.file \notin DocumentPath \ Contested
        /\ call.operation = "decrypt" /\ call2.operation = "decrypt" => call.file \in DecryptedTwice
  BY <1>5 DEF SameDocument, Here, Serving, Second!Serving, Safe
<1> QED BY <1>2, <1>3, <1>4, <1>6, <1>7 DEF Proper, Here, Serving, Second!Serving

LEMMA HereStaysProper == TwoInv' /\ Recorded' => Proper(Here')
<1>1. TwoInv /\ Recorded => Proper(Here)
  BY HereIsProper
<1>2. (TwoInv /\ Recorded)' => Proper(Here)'
  BY <1>1, PTL
<1> QED BY <1>2

-----------------------------------------------------------------------------
(***************************************************************************)
(* A step of either process is one of its situation.                       *)
(***************************************************************************)
LEMMA FirstStepIs ==
  ASSUME TwoInv, FirstStep
  PROVE  /\ ProcessSteps /\ UNCHANGED secondVars
         /\ CipherPortion => Exists(call.key)
         /\ step = "cipher" /\ call.cursor.position > 1 /\ step' \in {"idle", "closed"} =>
              faults' = faults + 1
<1>1. UNCHANGED secondVars
  BY DEF FirstStep
<1>2. CASE CanOpen(NextToOpen(step, call), HeldOpen(step2, call2)) /\ KernelStep
  BY <1>1, <1>2, FirstMayGoOn, StepFails DEF ProcessSteps
<1>3. CASE Refused
  <2>1. OpenFails /\ Busy
    BY <1>3 DEF Refused, OpenFails
  <2>2. ~ CipherPortion
    BY <2>1 DEF OpenFails, Throw, EndCall, CipherPortion
  <2>3. step = "cipher" => ~ (call.cursor.position > 1)
    BY <1>3 DEF Refused, CanOpen, NextToOpen
  <2> QED BY <1>1, <2>1, <2>2, <2>3 DEF ProcessSteps
<1>4. CASE Crash
  <2>1. ~ CipherPortion
    BY <1>4 DEF Crash, CipherPortion
  <2> QED BY <1>1, <1>4, <2>1, StepFails DEF ProcessSteps
<1>5. CASE FirstClient
  <2>1. ProcessSteps
    BY <1>5 DEF FirstClient, ProcessSteps
  <2>2. step \in {"idle", "closed"}
    BY <1>5 DEF FirstClient, EncryptFile, DecryptFile, BeginCall, SetKeyStoragePath, Construct, Close
  <2> QED BY <1>1, <2>1, <2>2 DEF CipherPortion
<1> QED BY <1>2, <1>3, <1>4, <1>5 DEF FirstStep

\* What is excused only grows.
LEMMA ExcusesGrow ==
  ASSUME faults \in Nat, faults' \in {faults, faults + 1}, overlaps' = overlaps \cup Overlapping'
  PROVE  /\ DocumentPath \ Contested' \subseteq DocumentPath \ Contested
         /\ Safe' \subseteq Safe /\ DecryptedTwice \subseteq DecryptedTwice'
         /\ \A f : faults' = faults + 1 /\ f \in Safe' => f \in DocumentPath \ Contested'
<1>1. Contested \subseteq Contested' /\ DecryptedTwice \subseteq DecryptedTwice'
  BY DEF Contested, DecryptedTwice
<1>2. faults' = 0 => faults = 0
  OBVIOUS
<1>3. faults' = faults + 1 => faults' # 0
  OBVIOUS
<1> QED BY <1>1, <1>2, <1>3 DEF Safe

LEMMA FirstHappens ==
  ASSUME NoStop, TwoInv, TwoInv', Recorded, Recorded', NoCoincidence, FirstStep,
         named' = NamedAfter(step, call, step', call'), overlaps' = overlaps \cup Overlapping'
  PROVE  Happens(Here, Here')
<1>1. SharedInv /\ TypeOK /\ faults \in Nat
  BY ServerAssumption DEF TwoInv, SharedInv, TypeOK
<1>2. /\ ProcessSteps /\ UNCHANGED secondVars
      /\ CipherPortion => Exists(call.key)
      /\ step = "cipher" /\ call.cursor.position > 1 /\ step' \in {"idle", "closed"} =>
           faults' = faults + 1
  BY FirstStepIs
<1>3. Proper(Here) /\ Proper(Here')
  BY HereIsProper, HereStaysProper
<1>4. Moves(disk, disk', sealed, sealed', calls, calls', Serving, Serving')
  BY <1>1, <1>2, StepMoves
<1>5. /\ step = "core" /\ step' = "cipher" /\ Decrypting =>
           call'.key = KeyPathFor(call.file) /\ Exists(KeyPathFor(call.file))
      /\ step = "store" /\ step' = "wipe" =>
           call'.key = KeyPathFor(call.file) /\ CanRename(call.key, KeyPathFor(call.file))
      /\ faults' \in {faults, faults + 1}
  BY <1>1, <1>2, StepChoices
<1>6. named' = Renamed(disk, named, DecryptedTwice, Serving, Serving')
  BY DEF NamedAfter, Renamed, Serving, PortionLeft
<1>7. Lucky(Here, Serving, Serving')
  <2>1. step = "core" /\ step' = "cipher" /\ call.operation = "decrypt" =>
          call'.key \in named[call.file]
    BY <1>5 DEF Decrypting, NoCoincidence, FindsOwnKey
  <2>2. step = "store" /\ step' = "wipe" =>
          /\ call.file \notin Contested => \A p \in DOMAIN disk : p.name # call'.key.name
          /\ step2 \in WorkSteps /\ call2.operation = "decrypt" => call2.key # call'.key
    BY <1>5 DEF NoCoincidence, NamesNewKey
  <2> QED BY <2>1, <2>2 DEF Lucky, Here, Serving, Second!Serving
<1>8. /\ DocumentPath \ Contested' \subseteq DocumentPath \ Contested
      /\ Safe' \subseteq Safe /\ DecryptedTwice \subseteq DecryptedTwice'
      /\ \A f : faults' = faults + 1 /\ f \in Safe' => f \in DocumentPath \ Contested'
  BY <1>1, <1>5, ExcusesGrow
<1>9. (Second!Serving)' = Second!Serving
  BY <1>2 DEF secondVars, Second!Serving
<1>10. /\ step = "cipher" /\ call.cursor.position > 1 /\ step' \in {"idle", "closed"}
       /\ call.file \in Safe'
       => call.file \in DocumentPath \ Contested'
  BY <1>2, <1>8
<1> HIDE DEF Safe, DecryptedTwice
<1> QED BY <1>3, <1>4, <1>6, <1>7, <1>8, <1>9, <1>10 DEF Happens, Here, Serving, Second!Serving

LEMMA SecondMoves ==
  ASSUME NoStop, Second!SharedInv, Second!ProcessSteps, Second!CipherPortion => Second!Exists(call2.key)
  PROVE  Moves(disk, disk', sealed, sealed', calls, calls', Second!Serving, (Second!Serving)')
<1>1. Second!NoStop
  BY DEF NoStop, Second!NoStop
<1>2. Second!Moves(disk, disk', sealed, sealed', calls, calls', Second!Serving, (Second!Serving)')
  BY <1>1, SecondConstants, Second!StepMoves
<1> DEFINE Q == sealed
           Q1 == sealed'
           D == disk
           D1 == disk'
           n == calls
           n1 == calls'
           v == Second!Serving
           v1 == (Second!Serving)'
<1>3. /\ Second!FileSteps = FileSteps
      /\ \A p : Second!Untouched(D, D1, p) <=> Untouched(D, D1, p)
      /\ \A c, c1 : Second!SameFiles(c, c1) <=> SameFiles(c, c1)
      /\ \A c, k : Second!KeyBuffer(c, k) = KeyBuffer(c, k)
  BY DEF FileSteps, WorkSteps, Second!FileSteps, Second!WorkSteps, Untouched, Second!Untouched,
         SameFiles, Second!SameFiles, KeyBuffer, Second!KeyBuffer
<1> HIDE DEF Q, Q1, D, D1, n, n1, v, v1
<1>4. /\ Second!Begins(D, D1, n, n1, v, v1) <=> Begins(D, D1, n, n1, v, v1)
      /\ Second!Copies(D, D1, v, v1) <=> Copies(D, D1, v, v1)
      /\ Second!MakesKey(D, D1, v, v1) <=> MakesKey(D, D1, v, v1)
      /\ Second!FindsKey(D, D1, v, v1) <=> FindsKey(D, D1, v, v1)
  BY <1>3 DEF Begins, Second!Begins, Copies, Second!Copies, MakesKey, Second!MakesKey,
              FindsKey, Second!FindsKey
<1>5. Second!Turns(D, D1, v, v1) <=> Turns(D, D1, v, v1)
  BY <1>3 DEF Turns, Second!Turns
<1>6. /\ Second!CipherEnds(D, D1, v, v1) <=> CipherEnds(D, D1, v, v1)
      /\ Second!NamesKey(D, D1, v, v1) <=> NamesKey(D, D1, v, v1)
      /\ Second!DropsKey(D, D1, v, v1) <=> DropsKey(D, D1, v, v1)
      /\ Second!Disposes(D, D1, v, v1) <=> Disposes(D, D1, v, v1)
      /\ Second!GivesUp(D, D1, v, v1) <=> GivesUp(D, D1, v, v1)
      /\ Second!Rests(D, D1, v, v1) <=> Rests(D, D1, v, v1)
  BY <1>3 DEF CipherEnds, Second!CipherEnds, NamesKey, Second!NamesKey, DropsKey, Second!DropsKey,
     Disposes, Second!Disposes, GivesUp, Second!GivesUp, Rests, Second!Rests
<1>7. Second!Uncovered(D, Q, v) = Uncovered(D, Q, v) /\ Second!GivenUp(D, Q, v) = GivenUp(D, Q, v)
  BY DEF Second!Uncovered, Uncovered, Second!GivenUp, GivenUp
<1>8. Second!Moves(D, D1, Q, Q1, n, n1, v, v1) => Moves(D, D1, Q, Q1, n, n1, v, v1)
  BY <1>4, <1>5, <1>6, <1>7 DEF Moves, Second!Moves
<1> QED BY <1>2, <1>8 DEF Q, Q1, D, D1, n, n1, v, v1

LEMMA SecondStepIs ==
  ASSUME TwoInv, SecondStep
  PROVE  /\ Second!ProcessSteps /\ UNCHANGED firstVars
         /\ Second!CipherPortion => Second!Exists(call2.key)
         /\ step2 = "cipher" /\ call2.cursor.position > 1 /\ step2' \in {"idle", "closed"} =>
              faults' = faults + 1
<1>1. UNCHANGED firstVars
  BY DEF SecondStep
<1>2. (Second!KernelStep \/ Second!Crash) /\ step2 = "cipher" /\ step2' \in {"idle", "closed"} =>
        faults' = faults + 1
  BY SecondConstants, Second!StepFails
<1>3. CASE CanOpen(NextToOpen(step2, call2), HeldOpen(step, call)) /\ Second!KernelStep
  BY <1>1, <1>2, <1>3, SecondMayGoOn DEF Second!ProcessSteps
<1>4. CASE SecondRefused
  <2>1. Second!OpenFails
    BY <1>4 DEF SecondRefused, Second!OpenFails, driverVars, Second!driverVars, Second!settingVars
  <2>2. ~ Second!CipherPortion
    BY <2>1 DEF Second!OpenFails, Second!Throw, Second!EndCall, Second!CipherPortion
  <2>3. step2 = "cipher" => ~ (call2.cursor.position > 1)
    BY <1>4 DEF SecondRefused, CanOpen, NextToOpen
  <2> QED BY <1>1, <2>1, <2>2, <2>3 DEF Second!ProcessSteps
<1>5. CASE Second!Crash
  <2>1. ~ Second!CipherPortion
    BY <1>5 DEF Second!Crash, Second!CipherPortion
  <2> QED BY <1>1, <1>2, <1>5, <2>1 DEF Second!ProcessSteps
<1>6. CASE SecondClient
  <2>1. Second!ProcessSteps
    BY <1>6 DEF SecondClient, Second!ProcessSteps, DocumentPath, Second!DocumentPath
  <2>2. step2 \in {"idle", "closed"}
    BY <1>6 DEF SecondClient, Second!EncryptFile, Second!DecryptFile, Second!BeginCall,
       Second!SetKeyStoragePath, Second!Construct, Second!Close
  <2> QED BY <1>1, <2>1, <2>2 DEF Second!CipherPortion
<1> QED BY <1>3, <1>4, <1>5, <1>6 DEF SecondStep

LEMMA SecondHappens ==
  ASSUME NoStop, TwoInv, TwoInv', Recorded, Recorded', NoCoincidence, SecondStep,
         named' = NamedAfter(step2, call2, step2', call2'), overlaps' = overlaps \cup Overlapping'
  PROVE  Happens(There, There')
<1>1. Second!SharedInv /\ TypeOK /\ faults \in Nat
  BY ServerAssumption DEF TwoInv, SharedInv, TypeOK
<1>2. /\ Second!ProcessSteps /\ UNCHANGED firstVars
      /\ Second!CipherPortion => Second!Exists(call2.key)
      /\ step2 = "cipher" /\ call2.cursor.position > 1 /\ step2' \in {"idle", "closed"} =>
           faults' = faults + 1
  BY SecondStepIs
<1>3. Proper(There) /\ Proper(There')
  <2>1. Turned(Here', There')
    BY DEF Turned, Here, There
  <2> HIDE DEF Here, There
  <2> QED BY <2>1, HereIsProper, HereStaysProper, TurnedThere, TurnedProper
<1>4. Moves(disk, disk', sealed, sealed', calls, calls', Second!Serving, (Second!Serving)')
  BY <1>1, <1>2, SecondMoves
<1>5. /\ step2 = "core" /\ step2' = "cipher" /\ Second!Decrypting =>
           /\ call2'.key = Second!KeyPathFor(call2.file)
           /\ Second!Exists(Second!KeyPathFor(call2.file))
      /\ step2 = "store" /\ step2' = "wipe" =>
           /\ call2'.key = Second!KeyPathFor(call2.file)
           /\ Second!CanRename(call2.key, Second!KeyPathFor(call2.file))
      /\ faults' \in {faults, faults + 1}
  BY <1>1, <1>2, SecondConstants, Second!StepChoices
<1>6. named' = Renamed(disk, named, DecryptedTwice, Second!Serving, (Second!Serving)')
  BY DEF NamedAfter, Renamed, Second!Serving, PortionLeft
<1>7. Lucky(There, Second!Serving, (Second!Serving)')
  <2>1. step2 = "core" /\ step2' = "cipher" /\ call2.operation = "decrypt" =>
          call2'.key \in named[call2.file]
    BY <1>5 DEF Second!Decrypting, NoCoincidence, FindsOwnKey, Exists, Second!Exists
  <2>2. step2 = "store" /\ step2' = "wipe" =>
          /\ call2.file \notin Contested => \A p \in DOMAIN disk : p.name # call2'.key.name
          /\ step \in WorkSteps /\ call.operation = "decrypt" => call.key # call2'.key
    <3>1. \A p, q : Second!CanRename(p, q) <=> CanRename(p, q)
      BY DEF CanRename, Second!CanRename, Exists, Second!Exists
    <3> QED BY <1>5, <3>1 DEF NoCoincidence, NamesNewKey
  <2> QED BY <2>1, <2>2 DEF Lucky, There, Serving, Second!Serving
<1>8. /\ DocumentPath \ Contested' \subseteq DocumentPath \ Contested
      /\ Safe' \subseteq Safe /\ DecryptedTwice \subseteq DecryptedTwice'
      /\ \A f : faults' = faults + 1 /\ f \in Safe' => f \in DocumentPath \ Contested'
  BY <1>1, <1>5, ExcusesGrow
<1>9. Serving' = Serving
  BY <1>2 DEF firstVars, Serving
<1>10. /\ step2 = "cipher" /\ call2.cursor.position > 1 /\ step2' \in {"idle", "closed"}
       /\ call2.file \in Safe'
       => call2.file \in DocumentPath \ Contested'
  BY <1>2, <1>8
<1> HIDE DEF Safe, DecryptedTwice
<1> QED BY <1>3, <1>4, <1>6, <1>7, <1>8, <1>9, <1>10 DEF Happens, There, Serving, Second!Serving

-----------------------------------------------------------------------------
(***************************************************************************)
(* The inductive invariants.                                               *)
(***************************************************************************)
SealInv == TwoInv /\ Recorded /\ KeysInv(Here) /\ HistoryInv(Here)

LossInv == SealInv /\ WholeInv(Here)

LEMMA FreshHere == TwoInit => Recorded /\ KeysInv(Here) /\ HistoryInv(Here) /\ WholeInv(Here)
<1> SUFFICES ASSUME TwoInit PROVE Recorded /\ KeysInv(Here) /\ HistoryInv(Here) /\ WholeInv(Here)
  OBVIOUS
<1>1. Fresh(Here)
  BY DEF TwoInit, Init, Fresh, Here, Serving, Second!Serving
<1>2. ~ InFileCall
  BY DEF TwoInit, Init, NoCall, InFileCall
<1>3. Recorded
  BY <1>2 DEF Recorded, Overlapping
<1> QED BY <1>1, <1>3, FreshInv

LEMMA TwoSteps ==
  ASSUME NoStop, TwoInv, Recorded, NoCoincidence, [TwoNext]_allVars
  PROVE  /\ TwoInv' /\ Recorded'
         /\ \/ Happens(Here, Here') \/ Happens(There, There')
            \/ Here' = Here
<1>1. TwoInv'
  BY TwoNextInvariant
<1>2. CASE TwoNext
  <2>1. overlaps' = overlaps \cup Overlapping'
    BY <1>2 DEF TwoNext
  <2>2. Recorded'
    BY <2>1 DEF Recorded
  <2> QED BY <1>1, <1>2, <2>1, <2>2, FirstHappens, SecondHappens DEF TwoNext
<1>3. CASE UNCHANGED allVars
  <2>1. Overlapping' = Overlapping /\ overlaps' = overlaps
    BY <1>3 DEF allVars, vars, coreVars, secondVars, Overlapping, InFileCall, Second!InFileCall
  <2>2. Here' = Here
    BY <1>3 DEF allVars, vars, driverVars, coreVars, settingVars, secondVars, Here, Serving,
       Second!Serving, Safe, Contested, DecryptedTwice
  <2> QED BY <1>1, <2>1, <2>2 DEF Recorded
<1> QED BY <1>2, <1>3

LEMMA SealNext == NoStop /\ SealInv /\ NoCoincidence /\ [TwoNext]_allVars => SealInv'
<1> SUFFICES ASSUME NoStop, SealInv, NoCoincidence, [TwoNext]_allVars PROVE SealInv'
  OBVIOUS
<1>1. TwoInv /\ Recorded /\ KeysInv(Here) /\ HistoryInv(Here)
  BY DEF SealInv
<1>2. /\ TwoInv' /\ Recorded'
      /\ Happens(Here, Here') \/ Happens(There, There') \/ Here' = Here
  BY <1>1, TwoSteps
<1>3. Turned(Here, There) /\ Turned(There', Here') /\ Proper(Here)
  BY <1>1, HereIsProper DEF Turned, Here, There
<1> HIDE DEF Here, There
<1>4. CASE Happens(Here, Here')
  BY <1>1, <1>2, <1>4, KeysInvKept, HistoryInvKept DEF SealInv
<1>5. CASE Happens(There, There')
  <2>1. KeysInv(There) /\ HistoryInv(There)
    BY <1>1, <1>3, TurnedKeysInv, TurnedHistoryInv
  <2>2. KeysInv(There') /\ HistoryInv(There') /\ Proper(There')
    BY <1>5, <2>1, KeysInvKept, HistoryInvKept DEF Happens
  <2>3. KeysInv(Here') /\ HistoryInv(Here')
    BY <1>3, <2>2, TurnedKeysInv, TurnedHistoryInv
  <2> QED BY <1>2, <2>3 DEF SealInv
<1>6. CASE Here' = Here
  BY <1>1, <1>2, <1>6 DEF SealInv
<1> QED BY <1>2, <1>4, <1>5, <1>6

LEMMA LossNext ==
  GammaCommutesOn(Chunk) /\ NoStop /\ LossInv /\ NoCoincidence /\ [TwoNext]_allVars => LossInv'
<1> SUFFICES ASSUME GammaCommutesOn(Chunk), NoStop, LossInv, NoCoincidence, [TwoNext]_allVars
             PROVE  LossInv'
  OBVIOUS
<1>1. SealInv /\ TwoInv /\ Recorded /\ KeysInv(Here) /\ WholeInv(Here)
  BY DEF LossInv, SealInv
<1>2. /\ SealInv'
      /\ Happens(Here, Here') \/ Happens(There, There') \/ Here' = Here
  BY <1>1, TwoSteps, SealNext
<1>3. Turned(Here, There) /\ Turned(There', Here') /\ Proper(Here)
  BY <1>1, HereIsProper DEF Turned, Here, There
<1> HIDE DEF Here, There
<1>4. CASE Happens(Here, Here')
  BY <1>1, <1>2, <1>4, WholeInvKept DEF LossInv
<1>5. CASE Happens(There, There')
  <2>1. KeysInv(There) /\ WholeInv(There)
    BY <1>1, <1>3, TurnedKeysInv, TurnedWholeInv
  <2>2. WholeInv(There') /\ Proper(There')
    BY <1>5, <2>1, WholeInvKept DEF Happens
  <2>3. WholeInv(Here')
    BY <1>3, <2>2, TurnedWholeInv
  <2> QED BY <1>2, <2>3 DEF LossInv
<1>6. CASE Here' = Here
  BY <1>1, <1>2, <1>6 DEF LossInv
<1> QED BY <1>2, <1>4, <1>5, <1>6

THEOREM SealInvariantHolds == NoStop /\ TwoSpec /\ []NoCoincidence => []SealInv
<1> SUFFICES ASSUME NoStop PROVE TwoSpec /\ []NoCoincidence => []SealInv
  OBVIOUS
<1>1. TwoInit => SealInv
  BY TwoInitInvariant, FreshHere DEF SealInv
<1>2. SealInv /\ NoCoincidence /\ [TwoNext]_allVars => SealInv'
  BY SealNext
<1> QED BY <1>1, <1>2, PTL DEF TwoSpec

THEOREM LossInvariantHolds == GammaCommutesOn(Chunk) /\ NoStop /\ TwoSpec /\ []NoCoincidence => []LossInv
<1> SUFFICES ASSUME GammaCommutesOn(Chunk), NoStop PROVE TwoSpec /\ []NoCoincidence => []LossInv
  OBVIOUS
<1>1. TwoInit => LossInv
  BY TwoInitInvariant, FreshHere DEF LossInv, SealInv
<1>2. LossInv /\ NoCoincidence /\ [TwoNext]_allVars => LossInv'
  BY LossNext
<1> QED BY <1>1, <1>2, PTL DEF TwoSpec

-----------------------------------------------------------------------------
(***************************************************************************)
(* What the invariants are for.                                            *)
(***************************************************************************)
\* A content with a non-empty history.
LEMMA NextLevel ==
  ASSUME NEW l, NEW Q \in Seq(Content), Q # <<>>
  PROVE  /\ 1 \in 1..Len(<<l>> \o Q) - 1
         /\ (<<l>> \o Q)[1] = l /\ (<<l>> \o Q)[1 + 1] = Head(Q)
<1>1. Len(Q) \in Nat /\ Len(Q) # 0
  OBVIOUS
<1> QED BY <1>1, OneMore

LEMMA SealedIsRestorable ==
  ASSUME SealInv
  PROVE  SealedRestorableTogether
<1> SUFFICES ASSUME NEW f \in DocumentPath \ Contested, sealed[f] # <<>>, ~ InWork(f),
                    ~ Second!InWork(f)
             PROVE  /\ Exists(f)
                    /\ \E d \in Directory :
                         /\ Exists(At(d, Md5(disk[f])))
                         /\ GammaFile(disk[f], disk[At(d, Md5(disk[f]))]) = Head(sealed[f])
  BY DEF SealedRestorableTogether
<1>1. HistoryInv(Here) /\ Proper(Here) /\ TypeOK
  BY HereIsProper DEF SealInv, TwoInv, SharedInv
<1>2. f \in DOMAIN disk /\ Restores(disk, named[f], Levels(Here, f)) /\ KeysInv(Here)
  BY <1>1 DEF SealInv, HistoryInv, Here
<1>3. /\ ~ (step \in {"cipher", "store"} /\ call.file = f)
      /\ ~ (step2 \in {"cipher", "store"} /\ call2.file = f)
  BY <1>1 DEF InWork, InFileCall, Second!InWork, Second!InFileCall, Proper, Sound, Here, Serving,
     Second!Serving, FileSteps, WorkSteps
<1>4. Levels(Here, f) = <<disk[f]>> \o sealed[f]
  BY <1>3 DEF Levels, Level, Base, Midway, Here, Serving, Second!Serving
<1>5. /\ 1 \in 1..Len(<<disk[f]>> \o sealed[f]) - 1
      /\ (<<disk[f]>> \o sealed[f])[1] = disk[f]
      /\ (<<disk[f]>> \o sealed[f])[1 + 1] = Head(sealed[f])
  BY <1>1, NextLevel DEF TypeOK
<1>6. PICK p \in named[f] : p.name = Md5(disk[f]) /\ GammaFile(disk[f], disk[p]) = Head(sealed[f])
  BY <1>2, <1>4, <1>5 DEF Restores
<1>7. p \in DOMAIN disk /\ p \in Path
  BY <1>1, <1>2 DEF KeysInv, NamesInv, Here, TypeOK
<1>8. p = At(p.directory, Md5(disk[f])) /\ p.directory \in Directory
  BY <1>6, <1>7 DEF Path, At
<1> QED BY <1>2, <1>6, <1>7, <1>8 DEF Exists

\* Two processes that share the disk leave what each of them has encrypted restorable
\* (AbsoluteSecurityCore.cpp:88, 96, 104; MD5BasedKeyStorage.cpp:37-60).
THEOREM SealedStayRestorableTogether ==
  NoStop /\ TwoSpec /\ []NoCoincidence => []SealedRestorableTogether
<1> SUFFICES ASSUME NoStop PROVE TwoSpec /\ []NoCoincidence => []SealedRestorableTogether
  OBVIOUS
<1>1. SealInv => SealedRestorableTogether
  BY SealedIsRestorable
<1> QED BY <1>1, SealInvariantHolds, PTL

\* Whoever has every file can follow a chain of keys from one of them.
LEMMA ChainIsReadable ==
  ASSUME NEW p \in DOMAIN disk, NEW x \in Content, x # <<>>, NEW n \in Int, n <= MaxCalls,
         NEW U, NEW Z, Leads(disk, disk[p], x, n, U, Z)
  PROVE  x \in Readable
<1>1. PICK k, c, m : Links(disk, k, c, m, disk[p], x) /\ m <= n
  BY DEF Leads
<1>2. /\ m \in Nat /\ c[0] = disk[p] /\ c[m] = x
      /\ \A i \in 1..m : /\ k[i] \in DOMAIN disk /\ k[i].name \notin DocumentName
                         /\ DOMAIN disk[k[i]] = DOMAIN x
                         /\ c[i] = GammaFile(c[i - 1], disk[k[i]])
  BY <1>1 DEF Links
<1>3. MaxCalls \in Nat /\ m \in 0..MaxCalls
  BY <1>1, <1>2, CoreAssumption
<1>4. /\ \A q \in DOMAIN disk : disk[q] \in ReadWith[0]
      /\ \A i \in 1..MaxCalls : ReadWith[i] = ReadMore(ReadWith[i - 1])
      /\ \A i \in 0..MaxCalls : \A j \in 0..i : ReadWith[j] \subseteq ReadWith[i]
  BY ReadWithGrows
<1>5. \A i \in 1..m : disk[k[i]] \in Keys
  <2>1. DOMAIN x # {}
    <3>1. x \in [1..Len(x) -> Chunk] /\ DOMAIN x = 1..Len(x)
      BY ContentLength
    <3>2. SUFFICES ASSUME DOMAIN x = {} PROVE FALSE
      OBVIOUS
    <3>3. <<>> \in Content /\ DOMAIN <<>> = {}
      BY EmptyContent
    <3>4. x = <<>>
      BY <3>2, <3>3, ContentEqual
    <3> QED BY <3>4
  <2>2. \A i \in 1..m : disk[k[i]] # <<>>
    BY <1>2, <2>1
  <2> QED BY <1>2, <2>2 DEF Keys, KeyFiles
<1> DEFINE T == {i \in 0..m : c[i] \in ReadWith[i]}
<1>6. 0 \in T
  BY <1>2, <1>4
<1>7. ASSUME NEW i \in 0..m, i # m, i \in T
      PROVE  i + 1 \in T
  <2>1. i + 1 \in 1..m /\ (i + 1) - 1 = i /\ i + 1 \in 0..m /\ i + 1 \in 1..MaxCalls
    BY <1>2, <1>3, <1>7
  <2>2. c[i + 1] = GammaFile(c[i], disk[k[i + 1]]) /\ disk[k[i + 1]] \in Keys
    BY <1>2, <1>5, <2>1
  <2>3. c[i + 1] \in ReadMore(ReadWith[i])
    BY <1>7, <2>2 DEF ReadMore
  <2> QED BY <1>4, <2>1, <2>3
<1> HIDE DEF T
<1>8. 0..m \subseteq T
  BY <1>2, <1>6, <1>7, UpTo
<1>9. x \in ReadWith[m]
  BY <1>2, <1>8 DEF T
<1>10. ReadWith[m] \subseteq ReadWith[MaxCalls] /\ MaxCalls \in 0..MaxCalls
  BY <1>3, <1>4
<1> QED BY <1>9, <1>10 DEF Readable

\* What a document stands for is in a file.
LEMMA BaseIsInAFile ==
  ASSUME LossInv, NEW f \in DOMAIN disk, f \in DocumentPath,
         f \notin Contested \/ Settled(f)
  PROVE  \E p \in DOMAIN disk : disk[p] = Base(Here, f)
<1>1. Proper(Here) /\ KeysInv(Here)
  BY HereIsProper DEF LossInv, SealInv
<1>2. ASSUME NEW v, v \in {Serving, Second!Serving}, Midway(v, f)
      PROVE  \E p \in DOMAIN disk : disk[p] = Undone(disk, v.call)
  <2>1. f \in DocumentPath \ Contested
    BY <1>2 DEF Midway, Settled, Serving, Second!Serving
  <2>2. Sound(disk, v) /\ KeyInv(Here, v)
    BY <1>1, <1>2 DEF Proper, KeysInv, Here
  <2>3. v.step = "cipher" /\ v.call.cursor.position > 1 /\ v.call.file = f
    BY <1>2 DEF Midway
  <2>4. v.call.before = Undone(disk, v.call)
    BY <2>1, <2>2, <2>3 DEF KeyInv, Before, Here
  <2>5. disk[v.call.backup] = v.call.before /\ v.call.backup \in DOMAIN disk
    BY <2>2, <2>3 DEF Sound, UsedBy, FileSteps, WorkSteps
  <2> QED BY <2>4, <2>5
<1> QED BY <1>2 DEF Base, Here

LEMMA DocumentIsRetrievable ==
  ASSUME LossInv, NEW f \in DOMAIN Documents,
         f \notin Contested \/ (f \notin DecryptedTwice /\ Settled(f))
  PROVE  Retrievable(Documents[f])
<1>1. /\ f \in DocumentPath /\ Documents[f] \in Content
      /\ calls \in Nat /\ calls <= MaxCalls /\ MaxCalls \in Nat /\ Filled(disk)
  BY ServerAssumption, CoreAssumption DEF LossInv, SealInv, TwoInv, SharedInv, TypeOK, Filled
<1>2. f \in DOMAIN disk /\ DOMAIN disk[f] = DOMAIN Documents[f]
  BY DEF LossInv, SealInv, KeysInv, NamesInv, Here
<1>3. CASE Documents[f] = <<>>
  <2>1. disk[f] = Documents[f]
    BY <1>1, <1>2, <1>3, ContentEqual DEF Filled
  <2> QED BY <1>2, <2>1 DEF Retrievable
<1>4. CASE Documents[f] # <<>>
  <2>1. f \in Safe
    BY <1>1 DEF Safe, Settled
  <2>2. Whole(Here, f) \/ LeftOver(Here, f)
    BY <1>4, <2>1 DEF LossInv, WholeInv, Here
  <2>3. CASE Whole(Here, f)
    <3>1. PICK p \in DOMAIN disk : disk[p] = Base(Here, f)
      BY <1>1, <1>2, BaseIsInAFile
    <3>2. KeysMade(Here, f) \in Int /\ KeysMade(Here, f) <= MaxCalls
      <4>1. \A v : Pending(v, f) \in {0, 1}
        BY DEF Pending
      <4> QED BY <1>1, <4>1 DEF KeysMade, Here
    <3>3. Leads(disk, disk[p], Documents[f], KeysMade(Here, f), Claims(Here, f), Danger(Here, f))
      BY <2>3, <3>1 DEF Whole, Here
    <3> QED BY <1>1, <1>4, <3>2, <3>3, ChainIsReadable DEF Retrievable
  <2>4. CASE LeftOver(Here, f)
    <3>1. PICK p \in DOMAIN disk : Leads(disk, disk[p], Documents[f], calls, {}, Claimed(Here))
      BY <2>4 DEF LeftOver, Here
    <3> QED BY <1>1, <1>4, <3>1, ChainIsReadable DEF Retrievable
  <2> QED BY <2>2, <2>3, <2>4
<1> QED BY <1>3, <1>4

\* Two processes lose no document together (GammaFileCipher.cpp:34-39,
\* AbsoluteSecurityCore.cpp:88, 96-104, ServerCommunicator.cpp:310-312).
THEOREM DocumentsSurviveTogether ==
  GammaCommutesOn(Chunk) /\ NoStop /\ TwoSpec /\ []NoCoincidence => []NeverLostTogether
<1> SUFFICES ASSUME GammaCommutesOn(Chunk), NoStop
             PROVE  TwoSpec /\ []NoCoincidence => []NeverLostTogether
  OBVIOUS
<1>1. LossInv => NeverLostTogether
  BY DocumentIsRetrievable DEF NeverLostTogether
<1> QED BY <1>1, LossInvariantHolds, PTL
=============================================================================
