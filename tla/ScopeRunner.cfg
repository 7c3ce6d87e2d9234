SPECIFICATION Spec
CONSTANTS
  t1 = t1
  t2 = t2
  t3 = t3
  s1 = s1
  s2 = s2
  Threads <- MCThreads3
  Stoppers <- MCStoppers
  MaxScopes = 2
INVARIANTS CountIsHolders StoppedMeansQuiet
PROPERTIES ImplementsGate StopReturns
CHECK_DEADLOCK FALSE
