\* Every command line; with one of them every call may fail or be interrupted.
SPECIFICATION Spec
CONSTANTS
  Configs <- AllConfigs
  Leftovers <- MCLeftovers
  FaultLabels <- MCFaultLabels
INVARIANTS TypeOK CleanExit NoHostLeak NoSharedIdentity UuidAgreement Bootable ToolsPresent InstallEnvironment
PROPERTIES UnwindingOnlyReleases LeaseDiscipline Termination
