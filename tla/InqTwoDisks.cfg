\* Two healthy disks and no faults: the report array fills up before the
\* second loop ever sees an empty entry.
CONSTANTS
  NumDisks = 2
  MaxPid = 2
  MaxCrash = 0
  MaxDiskFail = 0
  MaxUsr1 = 0
  MaxMsgs = 0
  PeerCmds <- MCPeerCmds
  SigQueueCap = 2
  ForkCanFail = FALSE
  SleepOutlastsHandling = TRUE
SPECIFICATION Spec
PROPERTY TickleProgress
