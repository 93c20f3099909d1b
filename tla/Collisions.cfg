SPECIFICATION Spec
CONSTANTS
  docs = docs
  keysA = keysA
  keysB = keysB
  relativeA = relativeA
  a = a
  b = b
  c = c
  t1 = t1
  t2 = t2
  t3 = t3
  Chunk <- MCChunk
  MaxPortions = 2
  ZeroChunk <- MCZeroChunk
  GammaChunk <- MCGammaChunk
  Directory <- MCDirectory
  DocumentFolders = {docs}
  DocumentName <- MCThreeNames
  TempName <- MCTempName
  KeyName <- MCKeyName
  Md5 <- MCMd5
  StoragePath <- MCStoragePath
  Resolve <- MCResolve
  GeneratedKeys <- MCCollidingKeys
  Replies = {"proceed", "quiet"}
  NoFile = NoFile
  MaxCalls = 3
  Documents <- MCSmallDocuments
  DefaultStoragePath = relativeA
  Unset = Unset
  Absent = Absent
  UserActs = {"copy"}
  PowerMayFail = FALSE
  MaxFaults = 1
SYMMETRY MCSymmetry
INVARIANTS
  NeverLost
  IInv
