SPECIFICATION FairSpec
CONSTANTS
  Types = {notify, append}
  NoType = none
  Works = {w}
  ListenerCalls = {"emit"}
  MaxEvents = 3
  MaxCalls = 2
  MaxDepth = 2
INVARIANTS
  TypeOK
  NoEventLost
  
PROPERTIES
  BufferEnds
\* The socket may fall silent.
CHECK_DEADLOCK FALSE
