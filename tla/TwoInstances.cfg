SPECIFICATION TwoSpec
CONSTANTS
  docs = docs
  keysA = keysA
  keysB = keysB
  a = a
  b = b
  t1 = t1
  t2 = t2
  t3 = t3
  Chunk <- MCChunk
  MaxPortions = 2
  ZeroChunk <- MCZeroChunk
  GammaChunk <- MCGammaChunk
  Directory <- MCDirectory
  DocumentFolders = {docs}
  DocumentName <- MCDocumentName
  TempName <- MCTempName
  KeyName <- MCKeyName
  Md5 <- MCMd5
  StoragePath <- MCStoragePath
  Resolve <- MCResolve
  GeneratedKeys <- MCKeysOfFirst
  KeysOfSecond <- MCKeysOfSecond
  Replies = {"proceed"}
  NoFile = NoFile
  MaxCalls = 3
  Documents <- MCDocuments
  DefaultStoragePath = keysA
  Unset = Unset
  UserActs = {}
  PowerMayFail = FALSE
  MaxFaults = 1
SYMMETRY MCSymmetry
INVARIANTS
  NoCoincidence
  BothTypesOK
  BothBackupsIntact
  NeverLostTogether
  SealedRestorableTogether
