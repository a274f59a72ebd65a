SPECIFICATION IFairSpec
CONSTANTS
  c1 = c1  c2 = c2
  NoOne = NoOne
  Clients = {c1, c2}
  Requests <- MCRequests
  Suite <- MCSuite
\* Goroutines that wait for each other violate EveryRequestAnswered.
CHECK_DEADLOCK FALSE
INVARIANT ITypeOK
INVARIANT MutexesMatch
INVARIANT CasesAuthenticated
INVARIANT ReportsComplete
PROPERTY EveryRequestAnswered
