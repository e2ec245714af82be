\* Every command line, on hosts that lack a command or have script directories fit and unfit.
SPECIFICATION Spec
CONSTANTS
  CommandLines <- CommandLineType
  Hosts <- MCHosts
INVARIANTS CommandsPresent Grub2Only RefusalExplained StatusTells
