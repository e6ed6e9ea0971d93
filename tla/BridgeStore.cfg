SPECIFICATION Spec
CONSTANTS
  Critical = {c}
  Debounced = {d}
  Vals = {v1, v2}
  NoVal = none
  Unknown = unknown
  Flushers = {f, g}
  Timer = timer
  MaxPasses = 2
  MaxCalls = 3
  MaxCrashes = 1
  ProcessCrashes = FALSE
INVARIANTS
  TypeOK
  CertifiedIsStable
  ReadsLastAcknowledged
  AcknowledgedSurvives
  NoForgottenWrite
PROPERTIES
  FlushResolvesDurable
\* The callers may stop calling.
CHECK_DEADLOCK FALSE
