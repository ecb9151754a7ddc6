SPECIFICATION Spec
CONSTANTS
  Call = {c1, c2}
  Context = {x1, x2}
  NoContext = NoContext
  NoCall = NoCall
  MaxImports = 3
CHECK_DEADLOCK FALSE
SYMMETRY Symmetry
INVARIANTS
  CommandInv
  OneCertificate
  NothingOutdated
  ArgumentsNotOlder
