SPECIFICATION Spec
CONSTANTS
  Critical = {c}
  Debounced = {d}
  Vals = {v1}
  NoVal = none
  Unknown = unknown
  Flushers = {f}
  Timer = timer
  MaxPasses = 2
  MaxCalls = 3
  MaxCrashes = 1
  ProcessCrashes = TRUE
INVARIANTS
  CertifiedIsStable
\* The callers may stop calling.
CHECK_DEADLOCK FALSE
