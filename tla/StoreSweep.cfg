SPECIFICATION SweepSpec
CONSTANTS
  Critical = {c}
  Debounced = {d}
  Vals = {v1}
  NoVal = none
  Unknown = unknown
  Flushers = {f, g}
  Timer = timer
  MaxPasses = 2
  MaxCalls = 3
  MaxCrashes = 0
  ProcessCrashes = FALSE
  Sweeper = g
INVARIANTS
  ListingIsExact
PROPERTIES
  PrefixIsGone
  StoreCallsSettle
\* The callers may stop calling.
CHECK_DEADLOCK FALSE
