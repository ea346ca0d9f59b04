SPECIFICATION AcquireSpec

CONSTANTS
  Threads = {}
  Entries <- NoEntries
  Presets <- OnlyUnset
  Paths = {}
  Content <- NoContent
  Removable <- JustA
  Openers = {o1}
  Requests <- QuantCall
  Heads <- FilesHeads
  Published <- FilesPublished
  Companions <- FilesCompanions

INVARIANT
  FetchedIsEnough
