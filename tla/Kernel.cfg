SPECIFICATION FairSpec
CONSTANTS
  tcpip = tcpip
  monitor = monitor
  http = http
  IDLE = IDLE
  Mbox = Mbox
  Mutex = Mutex
  Nothing = Nothing
  Tasks <- MCTasks
  uxBasePriority <- MCPriority
  Fetchers <- MCFetchers
  Posters <- MCPosters
  Lockers <- MCLockers
  Sleepers <- MCSleepers
  uxLength = 2
  Callback = Callback
  Packet = Packet
  FetchWaits = {2}
  Delays = {1}
  W = 4
  MaxMissed = 1
  MaxLate = 1
INVARIANTS
  NoLostWakeup
  SleepsExactly
  HighestRuns
  NoInversion
PROPERTIES
  ImplementsMailbox
  FetchReturns
