CONSTANTS
  local = local
  cloud = cloud
  rx = rx
  cmd = cmd
  text = text
  Topics = {rx, cmd}
  Object = Object
  Other = Other
  Configs <- GoodConfigs
  MaxConns = 2
  Threads = {env}
  Calls <- MCCalls
  RxCalls <- MCRxCalls
  DestroyWaits = TRUE
SPECIFICATION SpecCommands
INVARIANTS
  EveryConnectionAdded
