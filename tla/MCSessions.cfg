SPECIFICATION Spec

CONSTANTS
  Threads = {t1, t2}
  Calls <- MCCalls
  MaxCalls = 2

INVARIANTS
  TypeOK
  BatchesSound
  OwnAnswers
  NoRunAfterPanic

PROPERTY
  ImplementsContract
