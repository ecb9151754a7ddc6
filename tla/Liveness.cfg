SPECIFICATION Spec
CONSTANTS
  Call = {c1, c2}
  TempName = {n1, n2}
  Pid = {p1, p2}
  CertLength = 1
  Faults <- NoFaults
  Undecodable = {}
  NoPath = NoPath
  NoFile = NoFile
  NoPid = NoPid
CHECK_DEADLOCK FALSE
PROPERTIES
  NotifyReturns
  IssuedCertIsOffered
  SuccessfulFileIsDeleted
