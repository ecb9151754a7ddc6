SPECIFICATION Spec
CONSTANTS
  Call = {c1, c2, c3}
  TempName = {n1, n2}
  Pid = {p1, p2}
  CertLength = 1
  Faults <- ReportedFaults
  Undecodable = {}
  NoPath = NoPath
  NoFile = NoFile
  NoPid = NoPid
CHECK_DEADLOCK FALSE
SYMMETRY Symmetry
INVARIANTS
  RunningProcessorHasCert
  EvidenceKept
  OutcomesDoNotConflict
  EveryCertHasOutcome
  PidsAttributable
  NoOrphanTempFile
  LogInv
