SPECIFICATION Spec
CONSTANTS
  Call = {c1}
  TempName = {n1}
  Pid = {p1}
  CertLength = 1
  Faults = {"badalloc"}
  Undecodable = {}
  NoPath = NoPath
  NoFile = NoFile
  NoPid = NoPid
CHECK_DEADLOCK FALSE
INVARIANT RunningProcessorHasCert
