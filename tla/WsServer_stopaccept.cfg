SPECIFICATION Spec
CONSTANTS
  k1 = k1
  k2 = k2
  Conns <- MCConns1
  MaxCmds = 2
  MaxCasts = 1
  EarlyStop = TRUE
  Servers = {"WS"}
  None = None
INVARIANT StopStopsAccepting
CHECK_DEADLOCK FALSE
