SPECIFICATION Spec
CONSTANTS
  a1 = a1
  a2 = a2
  w1 = w1
  w2 = w2
  m1 = m1
  m2 = m2
  p1 = p1
  c1 = c1
  c2 = c2
  None = None
  App <- MCApp2
  Workers <- MCWorkers
  Closers <- MCApp2
  Messages <- MCMessages2
  Pongs <- MCPongs
  Closes <- MCCloses1
  WithCallback <- MCCallback
  TimeoutIdle = 1
INVARIANTS OneWritePinned NoStrandedFrame FifoOnWire
PROPERTIES ImplementsOutStream StreamProgresses StalledWriteEnds
CHECK_DEADLOCK FALSE
