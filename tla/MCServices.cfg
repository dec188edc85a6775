SPECIFICATION Spec
CONSTANTS
  Processes = {1, 2}
  Pages = {web}
  Terminals = {cli}
  Requests <- Asks
  StoredApps <- Apps
  MaxConcurrent = 2
  MaxBoots = 2
  MaxSends = 3
  Missing = Missing
  Endpoints = {1, 2}
  Collectors = {c1, c2}
  Snapshots <- History
  MaxReferences = 2
  MaxEnrollments = 2
  MaxFaults = 2
  NoItem = NoItem
INVARIANTS
  
  
  
  CredentialAgrees
  AnswerHolds
  CollectedAsReviewed
PROPERTIES
  RepeatChangesNothing
  DisconnectCompletes
CHECK_DEADLOCK FALSE
