\* One mount fails half-way.
SPECIFICATION Spec
CONSTANT FaultLabels <- OneMount
INVARIANT OnlyTempDirRemoved
