SPECIFICATION Spec
CONSTANTS
  BufferLength = 6
  MaxCommandLine = 42
  ArgumentData <- Data
  ExePath <- Programs
  Identifier <- Identifiers
  TempPath <- Paths
CHECK_DEADLOCK FALSE
INVARIANTS
  WalkInv
  LineInv
  WalkStaysInside
  RoomForEach
  ArgumentsAreRegistered
  NothingTruncated
  ReceivedAsGiven
  PowerShellReceives
