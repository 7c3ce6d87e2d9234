SPECIFICATION Spec
CONSTANTS
  k1 = k1
  k2 = k2
  Conns <- MCConns2
  MaxCmds = 1
  MaxCasts = 1
  EarlyStop = TRUE
  Servers = {"WS", "WSS"}
  None = None
INVARIANTS SetIsOpen FramesAfterHandshake KeepsAccepting
PROPERTIES QuietAfterJoin EndPlayReturns HandshakeEnds
CHECK_DEADLOCK FALSE
