SPECIFICATION SSpec
CONSTANTS
  root = root  alice = alice  bob = bob  former = former  fresh1 = fresh1  fresh2 = fresh2
  seed = seed  manager = manager  support = support  archive = archive
  q1 = q1  q2 = q2  t1 = t1  t2 = t2
  NoId = NoId  NoRow = NoRow  NoToken = NoToken  NoSession = NoSession  IntBits = 8
  Tokens = {t1, t2}
  Ids = {alice, seed}
  Seed = seed
  Roles = {manager, support}
  VolatileRoles = {}
  Names <- MCNames
  TempNames = {}
  Passwords = {"p"}
  Requests = {q1}
  Inputs <- SessionInputs
  InitAccounts <- MCAccounts
  InitBindings <- MCBindings
  InitRoles <- MCRoles
INVARIANT SessionsExpire
