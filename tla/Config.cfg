SPECIFICATION FairSpec
CONSTANTS
  Managers = {m1, m2}
  Names <- MCNames
  Specs <- MCSpecs
  Objects <- MCObjects
  MaxConfigs = 2
  MaxChanges = 1
  MaxFaults = 1
INVARIANTS
  TypeOK
  AgentsShareCerts
  CertsBeforeDaemonSet
  MergeSettles
PROPERTIES
  DaemonSetConverges
  ForeignMetadataKept
CHECK_DEADLOCK FALSE
