SPECIFICATION Spec
CONSTANTS
  Today = 3
  MaxAge = 1
  Requests <- MCRequests
  Mirrors <- MCMirrors
  Caches <- MCCaches
  MaxSyncs = 2
  Latest = Latest
  None = None
INVARIANTS LatestAndFresh FailureExplained
PROPERTY OnlyListedCached
