SPECIFICATION Spec
CONSTANTS
  Agents = {sick}
  Sick = sick
  Taints <- MCTaints
  NodeUnschedulableTaint = "unschedulable"
  MachineOwned = TRUE
  NodeHolds = {TRUE, FALSE}
  PprHolds = {TRUE, FALSE}
  SafeTime = 1
  None = None
  MaxTime = 3
  MaxPprs = 2
  MaxNodes = 3
INVARIANTS
  BackupComesWithDeadline
  BackupKeptUntilRestored
PROPERTIES
  DeletionIsSafe
  RestoredNodeLostToStaleCache
  ImplementsNodeRemediation
  DeadlineStoredOnce
  FinalizerHeldUntilRestored
