SPECIFICATION EnvSpec
CONSTANTS
  Directories <- MCDirectories
  Originals <- MCOriginals
  UserEnvironments <- MCUserEnvironments
INVARIANTS AllWanted PrecedenceKept WantedInOrder UserEnvironmentKept InsideClean OrderIndependent
