\* What emerge is started with.
SPECIFICATION EnvSpec
CONSTANTS
  Directories <- MCDirectories
  Originals <- ArchPath
  UserEnvironments <- MCUserEnvironments
INVARIANTS EmergeSettings
