SPECIFICATION Spec
CONSTANTS
  Procs = {p, q}
  NoProc = none
  Keys = {k, l}
  None = absent
  MaxTransactions = 3
  MaxExports = 2
  MaxFaults = 2
SYMMETRY Symmetry
INVARIANTS
  TypeOK
  AllOrNothing
  ExportMeansExported
  NoStaleProof
\* The processes may stop.
CHECK_DEADLOCK FALSE
