SPECIFICATION Spec
CONSTANTS
  Call = {c1, c2}
  TempName = {n1, n2}
  Pid = {p1}
  CertLength = 2
  Faults <- FaultKinds
  Undecodable = {"E_CERTSRV"}
  NoPath = NoPath
  NoFile = NoFile
  NoPid = NoPid
CHECK_DEADLOCK FALSE
SYMMETRY Symmetry
INVARIANTS
  TypeOK
  FileInv
  CertsNotMixed
  VerdictsAreTrue
  OutcomeInv
