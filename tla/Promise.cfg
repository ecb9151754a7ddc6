SPECIFICATION Spec
CONSTANTS
  Call = {c1, c2}
  TempName = {n1, n2}
  Pid = {p1}
  CertLength = 1
  Faults <- HandledFaults
  Undecodable = {"E_CERTSRV"}
  NoPath = NoPath
  NoFile = NoFile
  NoPid = NoPid
CHECK_DEADLOCK FALSE
INVARIANTS
  DeliveryInv
PROPERTIES
  NotifyReturns
  ImplementsDelivery
