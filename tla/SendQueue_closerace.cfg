SPECIFICATION SafeSpec
CONSTANTS
  a1 = a1
  a2 = a2
  w1 = w1
  w2 = w2
  m1 = m1
  m2 = m2
  p1 = p1
  c1 = c1
  c2 = c2
  None = None
  App <- MCApp2
  Workers <- MCWorkers
  Closers <- MCApp1
  Messages <- MCMessages1
  Pongs <- MCPongs
  Closes <- MCCloses2
  WithCallback <- MCMessages1
  TimeoutIdle = 1
INVARIANT CloseFrameOnce
CHECK_DEADLOCK FALSE
