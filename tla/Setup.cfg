SPECIFICATION Spec
CONSTANTS
  Setup = {s1, s2}
  Path = {own, p1}
  OwnPath = own
  MaxArgs = 3
  NoPath = NoPath
  Unset = Unset
CHECK_DEADLOCK FALSE
SYMMETRY Symmetry
INVARIANTS
  SetupInv
  InstallationStands
PROPERTY SuccessIsAsAsked
