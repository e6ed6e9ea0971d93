SPECIFICATION PartsSpec
CONSTANTS
  Clients = {c1, c2, c3}
  NoClient = none
  Callers = {a, b, c}
  Rows = {"pre-key"}
  PreKeys = {"pre-key"}
  KeyOf <- KeyNames
  MaxRetries = 2
  Missing = missing
  Flushes = {f}
  MaxCallbacks = 2
  Fields = {"name", "img"}
  Absent = absent
  MaxEmitted = 4
  MaxBatch = 3
  None = norow
  Jids = {"j"}
  MacKeys = {"m"}
  Stamps = {1, 2, 3}
  NoRow = norow
  Invalid = invalid
  Chats = {"a", "b"}
  Ids = {"x", "y"}
  MaxRecent = 2
  MaxCounted = 1
  Notices = {"n1", "n2", "n3"}
  MaxWindows = 2
  Waiters = {w1, w2}
INVARIANTS
  PartsTypeOK
  ReleasedExactlyOnce
  SettledMeansReleased
  CacheAgrees
  NoFailureSwallowed
  ReleasedIsNewest
  DispatchedInOrder
  StatusSound
  NewestTokenIndexed
  RetriesAreForgotten
  OneRefreshPerMark
  ForwardingFollowsListeners
PROPERTIES
  ImplementsRegister
  FlushedMeansQuiet
  MirrorReadsExact
  PartsProgress
\* A part that has finished has nothing left to do.
CHECK_DEADLOCK FALSE
