SPECIFICATION Spec
CONSTANTS
  Items = {a, b}
  WindowSize = 2
  ReorderBufferSize = 3
  SackWidth = 1
  MaxAttempts = 2
  Piggyback = TRUE
  MaxSubmitted = 4
  MaxResumes = 1
INVARIANTS
  InOrderExactlyOnce
  Conservation
  NoFalseAck
  RetransmitArmed
  GapNeverRefused
PROPERTY ImplementsPromise
SYMMETRY Payloads
CONSTRAINT Alternating
CHECK_DEADLOCK FALSE
