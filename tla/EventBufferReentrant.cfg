SPECIFICATION Spec
CONSTANTS
  Types = {notify, append}
  NoType = none
  Works = {w}
  ListenerCalls = {"emit", "buffer"}
  MaxEvents = 3
  MaxCalls = 2
  MaxDepth = 2
INVARIANTS
  NoEventLost
\* The socket may fall silent.
CHECK_DEADLOCK FALSE
