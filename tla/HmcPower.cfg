\* Two systems on hmcver 3 and 4 HMCs, every system mode, every request,
\* ssh failing at most once, popen() failing only while configuring, two
\* configuration attempts, a partition (not a full system) as the host reset.
CONSTANTS
  Requests <- MCRequests
  Versions = {3, 4}
  SysOrder <- MCSysOrder
  LparsOf <- MCLparsOf
  Modes = {"0", "255", "other"}
  SshEnabled = {TRUE, FALSE}
  MaxConfigTries = 2
  FullSystem = {FALSE}
  PopenFailsIn = {"config"}
  MaxSshFail = 1
  MaxPowerOnRetry <- MCMaxPowerOnRetry
  AllocCanFail = TRUE
  MaxCalls = 2
SPECIFICATION Spec
INVARIANTS TypeOK ResetFences PowerOffMeansOff PowerOnMeansOn ConfigComplete
PROPERTY ReturnsToCaller
