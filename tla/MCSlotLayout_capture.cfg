SPECIFICATION Spec
CONSTANTS
  PrimaryBytes = 128
  TrailingBytes = 1024
  HeaderBytes = 4
  RecordSize = 40
  RecordAlign = 8
  EnvLayouts <- EdgeLayouts
  ArgLens = {0}
  ResultSizes = {0, 8}
  FnPointer <- Pointer
  Repeats = {0, 1, 2, 255}
  Bases = {16, 64}
CHECK_DEADLOCK FALSE
INVARIANT CaptureConsumedOnce
