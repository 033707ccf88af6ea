SPECIFICATION Spec
CONSTANTS
  PrimaryBytes = 128
  TrailingBytes = 1024
  HeaderBytes = 4
  RecordSize = 40
  RecordAlign = 8
  EnvLayouts <- AllLayouts
  ArgLens = {0, 1, 72, 79, 80, 81, 943, 944, 945, 1024}
  ResultSizes = {0, 8, 1149}
  FnPointer <- Pointer
  Repeats = {0, 1, 2, 255}
  Bases = {16}
CHECK_DEADLOCK FALSE
INVARIANTS TypeOK RequestArrivesWhole RequestInOneBlock OwningCaptureEndedOnce
PROPERTY AllocatesFirstFit
