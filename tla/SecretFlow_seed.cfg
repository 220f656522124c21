SPECIFICATION Spec
CONSTANTS
  TwelveLength = 1
  TwentyFourLength = 2
  Chars = {"a"}
  MaxPassphrase = 1
  MaxCommits = 2
  Approved = {"X86Rdseed64", "X86RdrandSupplementary"}
  SoleApproved = {"X86Rdseed64"}
  WatchdogMayFail = FALSE
  CryptoMayFail = TRUE
INVARIANT SeedScrubbedBeforeInput
CHECK_DEADLOCK FALSE
