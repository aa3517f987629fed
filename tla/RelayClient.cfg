SPECIFICATION FairSpec
CONSTANTS
  QueueCap = 2
  MaxData = 2
CHECK_DEADLOCK FALSE
INVARIANTS
  ConnectMeansAnswered
PROPERTIES
  ImplementsClientLife
  EncryptedAfterHandshake
  
