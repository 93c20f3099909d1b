SPECIFICATION Spec
CONSTANTS
  docs = docs
  keysA = keysA
  keysB = keysB
  relativeA = relativeA
  a = a
  b = b
  c = c
  t1 = t1
  t2 = t2
  t3 = t3
  Chunk <- MCChunk
  MaxPortions = 2
  ZeroChunk <- MCZeroChunk
  GammaChunk <- MCGammaChunk
  Directory <- MCDirectory
  DocumentFolders = {docs, keysB}
  DocumentName <- MCDocumentName
  TempName <- MCTempName
  KeyName <- MCKeyName
  Md5 <- MCMd5
  StoragePath <- MCStoragePath
  Resolve <- MCResolve
  GeneratedKeys <- MCGeneratedKeys
  Replies = {"proceed", "quiet"}
  NoFile = NoFile
  MaxCalls = 3
  Documents <- MCDocuments
  DefaultStoragePath = relativeA
  Unset = Unset
  Absent = Absent
  UserActs = {"move", "delete_key_folder"}
  PowerMayFail = FALSE
  MaxFaults = 1
SYMMETRY MCSymmetry
INVARIANTS
  TypeOK
  NeverLost
  BackupIntact
  WorkInPlace
  SealedRestorable
  SettingsDurable
  CipheredIsNew
PROPERTIES
  CallsDeliver
  KeyFolderStays
  UnsavedIsReported
  ImplementsVault
