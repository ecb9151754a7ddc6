SPECIFICATION Spec
CONSTANTS
  Setup = {s1}
  Path = {own, p1}
  OwnPath = own
  MaxArgs = 2
  NoPath = NoPath
  Unset = Unset
CHECK_DEADLOCK FALSE
INVARIANT PathGivenIsRegistered
