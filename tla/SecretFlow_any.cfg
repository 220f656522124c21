SPECIFICATION FairSpec
CONSTANTS
  TwelveLength = 2
  TwentyFourLength = 3
  Chars = {"a", "b"}
  MaxPassphrase = 2
  MaxCommits = 3
  Approved = {"ApprovedEfiRng", "X86Rdseed64", "X86RdrandSupplementary", "Tpm"}
  SoleApproved = {"X86Rdseed64"}
  WatchdogMayFail = TRUE
  CryptoMayFail = TRUE
INVARIANTS TypeOK DerivesFromCurrentSources WholePhraseReentered
  PassphraseTypedTwice SeedOnlyWhileDeriving MenuOnlyByChoice
PROPERTIES StopsTheComputer ImplementsSecretPhase
CHECK_DEADLOCK FALSE
