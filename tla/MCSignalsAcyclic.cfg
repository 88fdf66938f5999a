CONSTANTS
  env = env
  mqtt = mqtt
  rx = rx
  tick = tick
  log = log
  gone = gone
  None = None
  Threads <- MCThreads
  Signals <- MCSignals
  Roots <- MCRoots
  Raises <- MCRaises
  MaxRaises = 2
  MaxDepth = 4
SPECIFICATION Spec
INVARIANTS
  TypeOK
  OwnArguments
PROPERTIES
  ImplementsMonitor
