SPECIFICATION BaselineSpec
CONSTANTS
  w1 = w1
  w2 = w2
  v1 = v1
  web = web
  web3 = web3
  Procs = {w1, w2, v1}
  Hosts = {web, web3}
  HostOf <- MCHostOf
  MaxRuns = 3
  MaxWall = 1
  MaxBacks = 1
INVARIANTS
  DiffNeverOlder
  LatestOnlyLostMidSave
  EveryCompletedRunOnFile
