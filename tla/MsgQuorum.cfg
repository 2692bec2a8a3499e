\* Every one-shot subcommand, an unknown one and none, after up to three
\* options: -d naming any of three devices of any health (a device may be
\* named twice, or none at all), -R, -h, or an unknown option; forks may
\* fail, and make_realtime() is asked for two settings under four OS
\* outcomes.
CONSTANTS
  Devices = {"sda", "sdb", "sdc"}
  MaxOpts = 3
  Cmds = {"message", "ping", "create", "dump", "list", "allocate", "other", "none"}
  ForkCanFail = TRUE
  RtArgs <- MCRtArgs
  OsCases <- MCOsCases
SPECIFICATION Spec
\* The command exits: its final states have no successor.
CHECK_DEADLOCK FALSE
INVARIANT TypeOK
INVARIANT DeliveredToQuorum
INVARIANT AllOrExitOne
INVARIANT RealtimeUnlessSkipped
PROPERTY CommandEnds
