CONSTANTS
  None = None
  Base = 4
  LenDigits = 3
  MaxField = 3
  MaxLength = 23
  Packets <- MCPackets
  Foreign <- MCForeign
  MaxFrames = 2
SPECIFICATION Spec
INVARIANT TypeOK
INVARIANT RoundTrip
INVARIANT EofIsBoundary
INVARIANT InSync
INVARIANT ValidCanBeWritten
INVARIANT FilterSemantics
CHECK_DEADLOCK FALSE
