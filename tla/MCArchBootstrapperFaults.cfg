\* Every call may fail or be interrupted.
SPECIFICATION Spec
CONSTANT FaultLabels <- Calls
INVARIANTS SuccessIsComplete DeletionExplained TempDirExplained PacstrapEnvironment
PROPERTIES LeaseDiscipline Termination
