SPECIFICATION TFairSpec
CONSTANTS
  seed = seed  bob = bob  fresh1 = fresh1  fresh2 = fresh2
  manager = manager  support = support  archive = archive
  x1 = x1  x2 = x2  x3 = x3
  NoId = NoId  NoRow = NoRow  NoTx = NoTx
  Ids = {seed, bob, fresh1, fresh2}
  Seed = seed
  Roles = {manager, support, archive}
  Names <- MCNames
  Txs = {x1, x2, x3}
  Jobs <- MCJobs
  Connections = 3
  InitRows <- MCRows
  InitBindings <- MCBindings
CHECK_DEADLOCK FALSE
INVARIANT BindNeverConflicts
PROPERTY ImplementsDirectory
PROPERTY TransactionsEnd
