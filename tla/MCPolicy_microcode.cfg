SPECIFICATION Spec
CONSTANTS
  MaxRecords = 3
  Lines <- AllLines
  BaseFiles <- BothFiles
  Insertions <- Inserts
  Cpus <- ThreeVendors
  Devices <- FourDevices
INVARIANT MicrocodeRequired
CHECK_DEADLOCK FALSE
