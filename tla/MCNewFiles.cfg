SPECIFICATION Spec
CONSTANTS
  a = a
  b = b
  f = f
  g = g
  db = db
  none = none
  root = root
  sub = sub
  Nobody = Nobody
  Test <- MCTest
  Depends <- MCDepends
  Name <- MCName
  Adapter = {db}
  Dir = {root, sub}
  Root = root
  File <- MCFile
  Place <- MCPlace
  Options <- WatchOptions
  MaxInvocations = 1
  MaxChanges = 2
CHECK_DEADLOCK FALSE
INVARIANT ChangedFilesAreRun
