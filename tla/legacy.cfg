SPECIFICATION Spec
CONSTANTS
  root = root  alice = alice  bob = bob  former = former  fresh1 = fresh1  fresh2 = fresh2
  seed = seed  manager = manager  support = support  archive = archive
  q1 = q1  q2 = q2
  NoId = NoId  NoRow = NoRow  IntBits = 8
  Ids = {root, alice, bob, former, seed, fresh1}
  Seed = seed
  Roles = {manager, support, archive}
  VolatileRoles = {manager}
  Names <- MCNames
  TempNames = {}
  Passwords <- MCPasswords
  Requests = {q1, q2}
  Inputs <- LegacyInputs
  InitAccounts <- MCAccounts
  InitBindings <- OrphanBindings
  InitRoles <- MCRoles
SYMMETRY Symmetric
INVARIANT NoNewOrphans
INVARIANT RolesNormalised
PROPERTY NoNewMultiBinding
PROPERTY ImplementsDirectory
PROPERTY HandlersAdvance
