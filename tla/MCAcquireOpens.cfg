SPECIFICATION AcquireSpec

CONSTANTS
  Threads = {t1}
  Entries <- EntriesOfA
  Presets <- OnlyUnset
  Paths = {}
  Content <- NoContent
  Removable <- JustA
  Openers = {o1}
  Requests <- BothRequests
  Heads <- BothHeads
  Published <- BothPublished
  Companions <- FilesCompanions

CONSTRAINT OneWorld

INVARIANTS
  AcquireTypeOK
  OneSnapshot
  FetchedIsEnough
  CachedIsEnough
  OneEntryPerOpen

PROPERTY
  MainMovesForward
