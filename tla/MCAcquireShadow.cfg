SPECIFICATION AcquireSpec

CONSTANTS
  Threads = {t1}
  Entries <- ShadowEntries
  Presets <- OnlyUnset
  Paths = {}
  Content <- NoContent
  Removable <- JustA
  Openers = {o1}
  Requests <- ShadowCall
  Heads <- EntriesHeads
  Published <- EntriesPublished
  Companions <- EntriesCompanions

INVARIANT
  BuiltinNeverShadowed
