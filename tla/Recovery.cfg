SPECIFICATION FairSpec
CONSTANTS
  FirstGap = 1
  MaxGap = 2
  RetryBase = 1
  RetryCap = 1
  Threads = 1
  MaxFailures = 1
  MaxJobs = 0
  MaxReplaces = 1
  MaxCalls = 1
  MaxBridged = 1
  MaxStops = 1
  MaxFaults = 1
  MaxReports = 1
PROPERTY Recovers
PROPERTY SpacedOut
PROPERTY OwnFault
