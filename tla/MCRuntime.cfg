SPECIFICATION Spec

CONSTANTS
  MAX_DLLS = 2
  Openers = {o1}
  Requests <- MCRequests
  Dylibs <- MCDylibs
  IsFile <- MCIsFile
  Loads <- MCLoads
  HasCuda <- MCHasCuda
  Found = {}
  CudaDirs <- MCCudaDirs
  IsDir <- MCIsDir
  DirLists <- MCDirLists
  Venv <- MCVenv
  MaxPath = 3
  MaxSessions = 2

CONSTRAINT Short

INVARIANTS
  TypeOK
  HonestCuda
  DecidedOnce
  ArenaHonoured
  FirstConfigureBinds
  ExposedAreFound
