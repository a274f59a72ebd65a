SPECIFICATION MFairSpec
CONSTANTS
  seed = seed  bob = bob  fresh = fresh
  manager = manager  support = support
  x1 = x1  x2 = x2  x3 = x3
  NoId = NoId  NoRow = NoRow  NoTx = NoTx
  Ids = {seed, bob, fresh}
  Seed = seed
  SeedName = "seed"
  Roles = {manager, support}
  Names <- MCNames
  Txs = {x1, x2, x3}
  Jobs <- MCJobs
  Connections = 3
  MaxStarts = 2
  InitRows <- MCRows
  InitBindings <- MCBindings
CHECK_DEADLOCK FALSE
INVARIANT ServingIsGuarded
INVARIANT IndexHolds
PROPERTY DirectoryWhileGuarded
PROPERTY InitEnds
