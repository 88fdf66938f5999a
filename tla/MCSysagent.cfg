CONSTANTS
  rx = rx
  job = job
  LoadOrders <- Orders
  Envs = {e1, e2}
  Rx = Rx
  Signals = {rx, job}
  RxSignal = rx
  Publishers = {job}
  Raises <- MCRaises
  DestroyWaits = FALSE
SPECIFICATION Spec
INVARIANTS
  TypeOK
  NoSignalMissed
  PublishesSafely
  FreedHandlersInUse
PROPERTIES
  Terminates
  CallbackReturns
