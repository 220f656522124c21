SPECIFICATION FairSpec
CONSTANTS
  Budget = 2
  ValuesPerBlock = 2
  RdseedRetryLimit = 1
  RdrandRetryLimit = 1
  TpmRetryLimit = 1
  MaxReadRounds = 2
  TpmBlockUnits = 3
  DiagnosticBlocks = 3
  Approved = {"ApprovedEfiRng", "X86Rdseed64", "X86RdrandSupplementary", "Tpm2GetRandom", "Tpm12GetRandom"}
  Manufacturers = TRUE
  MaxAcquisitions = 2
INVARIANTS TypeOK RecordsChecked PrimaryDecides HandsOverSampled NoReadPastBudget
PROPERTY AcquisitionEnds
CHECK_DEADLOCK FALSE
