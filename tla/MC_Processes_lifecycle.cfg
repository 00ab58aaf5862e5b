\* A server that migrates, a migration job and a worker, in any order.
SPECIFICATION FairProcessSpec
CONSTANTS
  Server = {s1, j1}
  Worker = {w1}
  AutoMigrate = {s1}
  MigrateOnly = {j1}
  MaxActive = 1
  MaxOutages = 2
  MaxDisruptions = 1
INVARIANTS ProcessTypeOK TopologyComplete PreparedBeforeService OnlyLateRequestsCut
PROPERTIES StartupFailsForCause EveryoneComesUp ReadyAgain LostConnectionShows
