SPECIFICATION FairSpec
CONSTANTS
  Client = client
  NoClient = none
  Outside = {a}
  Handlers = {h}
  Reopenings = 1
  LateReopen = FALSE
PROPERTIES
  CloseIsPublished
  CallsAnswered
  ImplementsOwner
\* A socket that has ended has nothing left to do.
CHECK_DEADLOCK FALSE
