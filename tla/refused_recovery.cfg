SPECIFICATION Spec
CONSTANTS
  root = root  alice = alice  bob = bob  former = former  fresh1 = fresh1  fresh2 = fresh2
  seed = seed  manager = manager  support = support  archive = archive
  q1 = q1  q2 = q2
  NoId = NoId  NoRow = NoRow  IntBits = 8
  Ids = {root, alice, bob, seed}
  Seed = seed
  Roles = {manager, support}
  VolatileRoles = {support}
  Names <- MCNames
  TempNames = {"a1b2c3d4"}
  Passwords <- MCPasswords
  Requests = {q1}
  Inputs <- RebindInputs
  InitAccounts <- MCAccounts
  InitBindings <- MCBindings
  InitRoles <- MCRoles
PROPERTY TemporaryAdminCanLogIn
