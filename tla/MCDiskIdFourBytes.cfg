\* The message says that four bytes are written.
SPECIFICATION Spec
CONSTANT Octets <- Boundaries
INVARIANT FourBytes
