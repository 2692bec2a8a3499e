\* Crashes, operator restarts, fork failures and an EXIT, TEST or unknown
\* peer command on three disks: type, report-set refinement, no servant
\* outlives the inquisitor.
CONSTANTS
  NumDisks = 3
  MaxPid = 7
  MaxCrash = 1
  MaxDiskFail = 1
  MaxUsr1 = 1
  MaxMsgs = 1
  PeerCmds <- MCSafetyCmds
  SigQueueCap = 2
  ForkCanFail = TRUE
  SleepOutlastsHandling = TRUE
SPECIFICATION Spec
INVARIANT TypeOK
INVARIANT ChildrenTracked
PROPERTY QuorumReportRefined
