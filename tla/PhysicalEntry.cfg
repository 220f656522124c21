CONSTANTS
  MaxEvents = 5
  StripCap = 3
  Target = 4
  Faces = {1, 6}
SPECIFICATION Spec
CHECK_DEADLOCK FALSE
INVARIANTS Lockstep WitnessedBits FullIsEnough StripShowsLatest DeadSlotsZero
PROPERTY KeepsHistory
