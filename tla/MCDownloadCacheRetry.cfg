\* One process that is retried, and a network that may fail.
SPECIFICATION Spec
CONSTANTS
  p1 = p1
  p2 = p2
  p3 = p3
  p4 = p4
  Procs <- MCProcs
  MaxAttempts = 5
  Workloads <- RetryWorkloads
INVARIANTS RetryHelps
