SPECIFICATION FairSpec
CONSTANTS
  Keys = {1, 2, 3, 4, 5, 6}
  NoKey = 0
  Names = {"db", "alias"}
  Dialled = "db"
  Renamed = {"db"}
  Validity = 4
  Hour = 1
  RenewThreshold = 2
  Programs = {"serve", "worker"}
  Latest = 2
  MaxFaults = 1
  MaxChanges = 2
INVARIANTS StartupInv
PROPERTIES TrustRootKept EventuallyReady
CHECK_DEADLOCK FALSE
