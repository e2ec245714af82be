\* Shared and separate files, with and without faults.
SPECIFICATION Spec
CONSTANTS
  p1 = p1
  p2 = p2
  p3 = p3
  p4 = p4
  Procs <- MCProcs
  MaxAttempts = 5
  Workloads <- MCWorkloads
INVARIANTS TypeOK SoundSuccess
PROPERTIES WholeIsFinal FirstAttemptSuffices AllEnd
