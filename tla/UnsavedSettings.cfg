SPECIFICATION Spec
CONSTANTS
  f = f
  g = g
  relative = relative
  absolute = absolute
  home = home
  elsewhere = elsewhere
  Document <- MCDocument
  Inside = {x}
  Absent = Absent
  Storage <- MCStorage
  DefaultStorage = relative
  Place <- MCPlace
  Folder <- MCPlace
  FolderOf <- MCFolderOf
  NoDocument = NoDocument
  NoPath = NoPath
  NoPlace = NoPlace
  WipeMethod = {"ordinary_remove", "simple_overwrite"}
  MaxFailures = 1
  MaxLocks = 2
SYMMETRY MCSymmetry
PROPERTIES
  SettingsAreATransaction
