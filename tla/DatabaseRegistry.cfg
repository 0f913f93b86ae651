SPECIFICATION FairSpec
CONSTANTS
  a = a
  b = b
  x = x
  c1 = c1
  c2 = c2
  Default = postgres
  Free = free
  Names <- ThreeNames
  Invalid <- NoDatabaseName
  Clients <- TwoClients
  Works <- AllWorks
INVARIANTS
  NoExecutorWithoutDatabase
  OneSchedulerPerDatabase
  ExecutorGoesWithDatabase
  StoreMirrorsCluster
PROPERTIES
  NoSilentRecreation
  HookEnds
