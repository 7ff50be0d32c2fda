\* Walks of every list over a chain of four blocks, two rows per page.
SPECIFICATION Spec
CONSTANTS
  Chains <- MCChains
  MaxBlock = 3
  Lists <- MCLists
  Count = 2
  ScanDepth = 1
  MaxMissing = 1
  Stride = 100
  MaxU64 = 9999
INVARIANTS
  TypeOK
  RowsDescend
  NothingSkipped
  EndMeansAll
  PathsAgree
  MovementsAreTouched
