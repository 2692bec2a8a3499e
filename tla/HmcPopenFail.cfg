\* popen() may fail: do_shell_cmd() then returns NULL and leaves status as
\* the previous command set it.  One partition-mode system, ssh enabled.
CONSTANTS
  Requests = {"reset"}
  Versions = {3, 4}
  SysOrder <- MCSysOrder
  LparsOf <- MCLparsOf
  Modes = {"255"}
  SshEnabled = {TRUE}
  MaxConfigTries = 1
  FullSystem = {FALSE}
  PopenFailsIn = {"reset"}
  MaxSshFail = 0
  MaxPowerOnRetry <- MCMaxPowerOnRetry
  AllocCanFail = FALSE
  MaxCalls = 0
SPECIFICATION Spec
INVARIANT ResetFences
