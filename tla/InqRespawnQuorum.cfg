\* One servant crash on three disks: a restarted servant's new pid counts
\* as a second reporter next to the stale pid of its predecessor.
CONSTANTS
  NumDisks = 3
  MaxPid = 4
  MaxCrash = 1
  MaxDiskFail = 0
  MaxUsr1 = 0
  MaxMsgs = 0
  PeerCmds <- MCPeerCmds
  SigQueueCap = 2
  ForkCanFail = FALSE
  SleepOutlastsHandling = TRUE
SPECIFICATION Spec
PROPERTY QuorumOfDisks
