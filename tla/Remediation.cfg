SPECIFICATION Spec
CONSTANTS
  Agents = {sick, peer}
  Sick = sick
  Taints <- MCTaints
  NodeUnschedulableTaint = "unschedulable"
  MachineOwned = FALSE
  NodeHolds = {FALSE}
  PprHolds = {FALSE}
  SafeTime = 1
  None = None
  MaxTime = 2
  MaxPprs = 2
  MaxNodes = 2
VIEW MCView
INVARIANTS
  BackupKeptUntilRestored
  CachedDeadlineIsCurrent
  DeletedNodeIsRecoverable
PROPERTIES
  ImplementsNodeRemediation
