CONSTANTS
  env = env
  mqtt = mqtt
  ping = ping
  pong = pong
  None = None
  Threads <- MCThreads
  Signals <- MCSignals
  Roots <- MCRoots
  Raises <- MCRaises
  MaxRaises = 3
  MaxDepth = 3
SPECIFICATION Spec
PROPERTIES
  RecursionPrevented
