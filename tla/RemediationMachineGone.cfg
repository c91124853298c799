SPECIFICATION FairSpec
CONSTANTS
  Agents = {sick, peer}
  Sick = sick
  Taints <- MCTaints
  NodeUnschedulableTaint = "unschedulable"
  MachineOwned = TRUE
  NodeHolds = {FALSE}
  PprHolds = {FALSE}
  SafeTime = 1
  None = None
  MaxTime = 2
  MaxPprs = 1
  MaxNodes = 2
PROPERTIES
  PprReleased
