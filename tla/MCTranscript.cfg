SPECIFICATION TranscriptSpec
CONSTANTS
  Domain <- OneByte
  CanonicalTags <- FourTags
  MaxAlgoId = 1
  MaxMachineBytes = 2
  MaxTpmBytes = 1
  MaxPhysicalEvents = 3
  TranscriptCapacity = 36
  Offered <- FewSources
  OtherBytes = {0, 1, 2, 17}
  MaxForeignRecords = 2
INVARIANTS AlwaysFits DecodesWhatSerializes
CHECK_DEADLOCK FALSE
