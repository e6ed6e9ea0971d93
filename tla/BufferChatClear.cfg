SPECIFICATION MergeSpec
CONSTANTS
  Fields = {"name", "img"}
  Absent = absent
  MaxEmitted = 4
INVARIANT
  ClearIsReleased
\* Nothing has to be emitted.
CHECK_DEADLOCK FALSE
