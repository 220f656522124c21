SPECIFICATION Spec
CONSTANTS
  MaxRecords = 3
  Lines <- AllLines
  BaseFiles <- BothFiles
  Insertions <- Inserts
  Cpus <- ThreeVendors
  Devices <- FourDevices
INVARIANTS AcceptsExactlyWellFormed StoresWhatIsWritten AnswersAsWritten
CHECK_DEADLOCK FALSE
