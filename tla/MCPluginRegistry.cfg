CONSTANTS
  lua = lua
  mqtt = mqtt
  both = both
  quiet = quiet
  broken = broken
  c1 = c1
  c2 = c2
  s1 = s1
  s2 = s2
  Files <- MCFiles
  Commands = {c1, c2}
  Signals = {s1, s2}
  COMMANDS <- MCCOMMANDS
  Registers <- MCRegisters
  Complete = {lua, mqtt, both, quiet}
  Local = {mqtt}
  InitFails = {s2}
  Capacity = 2
  MaxLoads = 4
SPECIFICATION Spec
INVARIANTS
  TypeOK
  HooksMatchPlugins
  OpenMatchesTable
  NothingLeadsToClosed
  RecentPointersValid
