\* Three callers: two can share the lock and the third make its own.
CONSTANTS
  Callers = {c1, c2, c3}
  Shared = lockShared

SPECIFICATION Spec

\* Each caller makes one call; once all have returned the program has ended.
CHECK_DEADLOCK FALSE

INVARIANTS
  TypeOK
  WriterExcludesOthers
