SPECIFICATION Spec
CONSTANTS
  docs = docs
  keysA = keysA
  keysB = keysB
  relativeA = relativeA
  a = a
  b = b
  c = c
  t1 = t1
  t2 = t2
  t3 = t3
  Chunk <- MCChunk
  MaxPortions = 2
  ZeroChunk <- MCZeroChunk
  GammaChunk <- MCGammaChunk
  Directory <- MCDirectory
  DocumentFolders = {docs, keysB}
  DocumentName <- MCDocumentName
  TempName <- MCTempName
  KeyName <- MCKeyName
  Md5 <- MCMd5
  StoragePath <- MCStoragePath
  Resolve <- MCResolve
  GeneratedKeys <- MCGeneratedKeys
  Replies = {"proceed", "quiet"}
  NoFile = NoFile
  MaxCalls = 1
  Documents <- MCOneDocument
  DefaultStoragePath = relativeA
  Unset = Unset
  Absent = Absent
  UserActs = {"move"}
  PowerMayFail = FALSE
  MaxFaults = 0
SYMMETRY MCSymmetry
PROPERTIES
  StatusFollowsPath
