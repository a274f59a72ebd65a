SPECIFICATION HSpec
CONSTANTS
  root = root  alice = alice  bob = bob  former = former  fresh1 = fresh1  fresh2 = fresh2
  seed = seed  manager = manager  support = support  archive = archive
  q1 = q1  q2 = q2
  NoId = NoId  NoRow = NoRow  IntBits = 8
  Ids = {root, alice, bob, seed}
  Seed = seed
  Roles = {manager, support}
  VolatileRoles = {manager}
  Names <- MCNames
  TempNames = {}
  Passwords <- MCPasswords
  Requests = {q1, q2}
  Inputs <- EvidenceInputs
  InitAccounts <- MCAccounts
  InitBindings <- MCBindings
  InitRoles <- MCRoles
SYMMETRY Symmetric
INVARIANT AuthorisedByEvidence
INVARIANT LoginByEvidence
INVARIANT ListAnswersItsPage
