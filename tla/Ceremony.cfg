SPECIFICATION ProgramSpec
CONSTANTS
  Categories = {"Topics", "Features", "Technical"}
  PageCount = 2
  MaxSessions = 3
INVARIANTS PanicLeavesArenaClean NeverDangling OthersFindNothing SecretBehindFreshGates
CHECK_DEADLOCK FALSE
