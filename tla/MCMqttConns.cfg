CONSTANTS
  local = local
  cloud = cloud
  rx = rx
  cmd = cmd
  text = text
  Topics = {rx, cmd}
  Object = Object
  Other = Other
  Configs <- MCConfigs
  MaxConns = 2
  Threads = {env}
  Calls <- MCCalls
  RxCalls <- MCRxCalls
  DestroyWaits = TRUE
SPECIFICATION SpecCommands
INVARIANTS
  TypeOKCommands
  ConfigMeaning
  AnswerIsEcho
PROPERTIES
  PublishedAsAsked
  LateConnectSubscribes
  CallsEnd
CHECK_DEADLOCK FALSE
