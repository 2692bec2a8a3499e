\* Three disks, one servant crash and one EXIT, RESET or OFF command: the
\* watchdog keeps being tickled until exit is requested, and exit then completes.
CONSTANTS
  NumDisks = 3
  MaxPid = 4
  MaxCrash = 1
  MaxDiskFail = 0
  MaxUsr1 = 0
  MaxMsgs = 1
  PeerCmds <- MCExitCmd
  SigQueueCap = 2
  ForkCanFail = FALSE
  SleepOutlastsHandling = TRUE
SPECIFICATION Spec
PROPERTY TickleProgress
PROPERTY ExitCompletes
