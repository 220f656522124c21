SPECIFICATION Spec
CONSTANTS
  MaxDepth = 3
  LeafDepth = 3
  MaxLevelValue = 7
  PurposeNumber <- SmallNumbers
  Bip48AccountMax = 3
  NAccountMax = 4
  NIndexMax = 9
  TableDefaultN = 5
INVARIANTS SetupCommitsOffered SetupNeverTraps AddressMatchesPath ExportShowsSelected
CHECK_DEADLOCK FALSE
