SPECIFICATION Spec
CONSTANTS
  Client = client
  NoClient = none
  Outside = {a, b}
  Handlers = {h}
  Reopenings = 1
  LateReopen = FALSE
INVARIANTS
  TypeOK
  NoFreeDuringDisconnect
  SettledMeansDone
  OneCloseAfterRelease
\* A socket that has ended has nothing left to do.
CHECK_DEADLOCK FALSE
