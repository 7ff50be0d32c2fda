\* Walks of every list while the registry grows, one row per page.
SPECIFICATION Spec
CONSTANTS
  a = a
  b = b
  Accounts <- MCAccounts
  Owner = a
  MaxOps = 4
  Count = 1
  FeedBuffer = 3
  MaxLost = 1
  Stride = 4
INVARIANTS
  TypeOK
  RecordsAgree
  StatsAgree
  RowsDescend
  WalksAreComplete
