SPECIFICATION AcquireSpec

CONSTANTS
  Threads = {t1}
  Entries <- EntriesOfA
  Presets <- OnlyUnset
  Paths = {}
  Content <- NoContent
  Removable <- JustA
  Openers = {o1}
  Requests <- DefaultLimitCall
  Heads <- EntriesHeads
  Published <- EntriesPublished
  Companions <- EntriesCompanions

INVARIANT
  OwnCeiling
