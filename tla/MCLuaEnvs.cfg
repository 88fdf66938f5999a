CONSTANTS
  rx = rx
  tick = tick
  poll = poll
  init = init
  CmdCall = CmdCall
  NoSection = NoSection
  NotObject = NotObject
  Signals = {rx, tick}
  Configs <- MCConfigs
  MaxEnvs = 3
  MayFail = TRUE
SPECIFICATION Spec
INVARIANTS
  TypeOK
  ConfigMeaning
  FreedAfterThread
  RunsAtMost
PROPERTIES
  Stops
