\* Peers write TEST and then RESET into this node's slot: the servant's
\* clearing of a TEST overwrites a RESET written after its read.
CONSTANTS
  NumDisks = 3
  MaxPid = 3
  MaxCrash = 0
  MaxDiskFail = 0
  MaxUsr1 = 0
  MaxMsgs = 2
  PeerCmds <- MCResetCmds
  SigQueueCap = 2
  ForkCanFail = FALSE
  SleepOutlastsHandling = TRUE
SPECIFICATION Spec
PROPERTY ResetNotLost
