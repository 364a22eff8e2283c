CONSTANTS
  c1 = c1
  c2 = c2
  c3 = c3
  None = None
  Clients <- MCClients
  PoolSize = 2
  Acquisitions = 2
SPECIFICATION PoolFairSpec
INVARIANTS
  PoolTypeOK
  NoSharing
  NoneLost
  NoLostWakeup
PROPERTIES
  ImplementsLease
  WaiterServed
