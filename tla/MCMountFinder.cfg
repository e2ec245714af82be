SPECIFICATION Spec
CONSTANTS
  Mountpoint <- MCMountpoint
  HostTables <- MCHostTables
  Paths <- MCPaths
  MaxMounts = 6
INVARIANTS OthersKept LeftoversExplained
