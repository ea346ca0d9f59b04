SPECIFICATION Spec

CONSTANTS
  Threads = {t1, t2}
  Entries <- MCEntries
  Presets <- UnsetOrForged
  Paths <- MCPaths
  Content <- MCContent
  Removable <- Removables

CONSTRAINT OneForged
SYMMETRY ThreadSymmetry

INVARIANTS
  TypeOK
  OnlyAdmissible
  AttributionExact
  LoadKeepsPrefix
  ExportReloads

PROPERTY
  ImplementsContract
