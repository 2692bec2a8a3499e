------------------------------- MODULE IbmHmc -------------------------------
(***************************************************************************)
(* The IBM HMC STONITH plugin (src/lib/plugins/stonith/ibmhmc.c), which    *)
(* powers a partition managed by an IBM HMC off, on or through a reset     *)
(* with commands run over ssh by do_shell_cmd().  One plugin object: made  *)
(* by ibmhmc_new, configured by ibmhmc_set_config (which asks the HMC for  *)
(* its version, its managed systems and their partitions and builds the    *)
(* host list), then one ibmhmc_reset_req() for a host, looked up in that   *)
(* list.  The HMC, its systems and the partition are the environment: the  *)
(* HMC's inventory is fixed for a run, a state query answers with one of   *)
(* the lssyscfg state strings, a power command succeeds when the HMC       *)
(* accepts it, and ssh itself may fail.  The command strings are left      *)
(* out; what matters is which command runs, the exit status do_shell_cmd() *)
(* leaves in the caller's `status', the lines a query prints, and the      *)
(* partition's power state.                                                *)
(***************************************************************************)
EXTENDS Integers, SequencesExt

CONSTANTS
  Requests,         \* ST_POWERON, ST_POWEROFF, ST_GENERIC_RESET, others
  Versions,         \* HMC releases: 3 (< 4) or 4
  SysOrder,         \* the managed systems, in the order lssyscfg lists them
  LparsOf,          \* the partitions lssyscfg lists for each system, in order
  Modes,            \* the modes an hmcver < 4 system may report
  SshEnabled,       \* whether lshmc may report ssh as not enabled
  MaxConfigTries,   \* bound on ibmhmc_set_config calls
  FullSystem,       \* whether the host reset may be a FullSystemPartition
  PopenFailsIn,     \* the calls in which popen() may fail (fork/pipe
                    \* exhausted): "config", "reset"
  MaxSshFail,       \* bound on commands failing for ssh reasons
  MaxPowerOnRetry,  \* MAX_POWERON_RETRY
  AllocCanFail,     \* whether MALLOC and STRDUP in ibmhmc_hostlist may fail
  MaxCalls          \* bound on ibmhmc_status and ibmhmc_hostlist calls

ASSUME Requests \subseteq {"poweron", "poweroff", "reset", "other"}
       /\ Versions \subseteq {3, 4} /\ FullSystem \subseteq BOOLEAN
       /\ Modes \subseteq {"0", "255", "other"} /\ SshEnabled \subseteq BOOLEAN
       /\ PopenFailsIn \subseteq {"config", "reset"} /\ MaxPowerOnRetry >= 1

Systems == ToSet(SysOrder)

\* FULLSYSTEMPARTITION; a host is "system/partition".
FSP == "FullSystemPartition"

\* The hosts a caller may ask to reset: every partition of every system,
\* and a system's full-system partition, as FullSystem allows.
Candidates ==
  {h \in [sys : Systems, lpar : {FSP} \cup UNION {ToSet(LparsOf[s]) : s \in Systems}] :
     /\ h.lpar \in ToSet(LparsOf[h.sys]) \cup {FSP}
     /\ (h.lpar = FSP) \in FullSystem}

\* Results of the plugin API.
S_OK == "S_OK"
S_OOPS == "S_OOPS"
S_INVAL == "S_INVAL"

\* STATE_UNKNOWN, STATE_OFF, STATE_ON, STATE_INVALID
StateCodes == {-1, 0, 1, 2}

\* The lssyscfg state strings the code compares with, one more the HMC may
\* print, and the empty output of a failed ssh.
OnStrings == {"Running", "Starting", "Open Firmware"}
OffStrings == {"Shutting Down", "Not Activated", "Ready"}
InvalidStrings == {"Not Available", "Error"}
Replies == OnStrings \cup OffStrings \cup InvalidStrings
           \cup {"Migrating - Running", ""}

\* What lssyscfg may print for a partition in power state p.
RepliesFor(p) ==
  CASE p = "running"  -> {"Running", "Starting", "Open Firmware",
                          "Migrating - Running", "Error", ""}
    [] p = "shutting" -> {"Shutting Down", "Error", ""}
    [] p = "off"      -> {"Not Activated", "Ready", "Not Available", ""}

VARIABLES
  release,    \* the HMC's release as lshmc -v prints it (-1: no "*RM" line)
  mode,       \* each system's mode as an hmcver < 4 HMC reports it
  sshOn,      \* lshmc -r -F ssh prints "enable"
  hmc,        \* dev->hmc: "null" until a configuration succeeds
  ver,        \* dev->hmcver
  hostlist,   \* dev->hostlist, in g_list_append order
  sysIdx,     \* i of ibmhmc_parse_config_info's loop over the systems
  tries,      \* ibmhmc_set_config calls made
  cresult,    \* what the last ibmhmc_set_config returned
  cfgSshFailed, \* history: an ssh of a configuration call failed
  req,        \* the request
  target,     \* the host the reset is for
  power,      \* the partition: "running", "shutting" or "off"
  pc,         \* "unconfigured", "syslist", "systems", then the call's
              \* "start", "profile", "query", "dispatch", "retry", "done"
  state,      \* the local `state'
  status,     \* the local `status'
  i,          \* the retry counter
  result,     \* the value returned
  profileOk,  \* on_cmd names the partition's real default profile
  wentDown,   \* history: the partition was off or restarted during the call
  sshFails,
  calls,      \* ibmhmc_status and ibmhmc_hostlist calls made
  answer      \* what the last of them returned to the caller

\* What the reset call leaves alone: the HMC, the object, the target and
\* the caller's other calls.
fixed == <<release, mode, sshOn, hmc, hostlist, sysIdx, tries, cresult,
           cfgSshFailed, target, calls, answer>>

vars == <<fixed, req, ver, power, pc, state, status, i, result,
          profileOk, wentDown, sshFails>>

\* names[1] of the target is FullSystemPartition.
full == target.lpar = FSP

\* The lookup of the target in dev->hostlist.
known == target \in ToSet(hostlist)

\* No ibmhmc_status or ibmhmc_hostlist call was made yet.
NoAnswer == [op |-> "none", res |-> "none", hosts |-> <<>>, whole |-> TRUE,
             configured |-> FALSE]

\* ibmhmc_new: no HMC, an empty host list, hmcver -1.
Init ==
  /\ release \in Versions \cup {-1}
  /\ mode \in [Systems -> Modes]
  /\ sshOn \in SshEnabled
  /\ hmc = "null" /\ ver = -1 /\ hostlist = <<>>
  /\ sysIdx = 0 /\ tries = 0 /\ cresult = "none" /\ cfgSshFailed = FALSE
  /\ req \in Requests /\ target \in Candidates
  /\ power \in {"running", "shutting", "off"}
  /\ pc = "unconfigured"
  /\ state = -1 /\ status = 0 /\ i = 0
  /\ result = "none"
  /\ profileOk = TRUE
  /\ wentDown = (power = "off")
  /\ sshFails = 0
  /\ calls = 0
  /\ answer = NoAnswer

\* Mutation of Classify: an unrecognised string taken as STATE_OFF.
ClassifyDefaultOff(out) ==
  IF out \in OnStrings THEN 1
  ELSE IF out \in InvalidStrings THEN 2 ELSE 0

\* The strcmp() chain on the first line of the state query's output.
Classify(out) ==
  IF out \in OnStrings THEN 1
  ELSE IF out \in OffStrings THEN 0
  ELSE IF out \in InvalidStrings THEN 2 ELSE -1

is_lpar == ver >= 4 \/ ~full

\* Whether the HMC carries out a power command on a partition in state p:
\* activation needs an inactive partition and an existing profile.
Accepts(cmd, p) ==
  CASE cmd = "on"    -> p = "off" /\ profileOk
    [] cmd = "off"   -> TRUE
    [] cmd = "reset" -> p = "running"
    [] cmd = "query" -> TRUE

After(cmd, p) ==
  CASE cmd = "on" -> "running" [] cmd = "off" -> "shutting"
    [] cmd = "reset" -> "running" [] cmd = "query" -> p

\* do_shell_cmd(cmd, &status): popen() fails and NULL is returned with
\* status untouched, or the command runs and pclose() sets status: ssh
\* fails (255), the HMC refuses (1) or carries the command out (0).
Shell(cmd) ==
  {[null |-> TRUE, st |-> status, pw |-> power, ssh |-> 0] : x \in
      IF "reset" \in PopenFailsIn THEN {0} ELSE {}}
  \cup {[null |-> FALSE, st |-> 255, pw |-> power, ssh |-> 1] : x \in
      IF sshFails < MaxSshFail THEN {0} ELSE {}}
  \cup {IF Accepts(cmd, power)
        THEN [null |-> FALSE, st |-> 0, pw |-> After(cmd, power), ssh |-> 0]
        ELSE [null |-> FALSE, st |-> 1, pw |-> power, ssh |-> 0]}

\* Take the outcome o of a command: status, power and the history.
Ran(o, cmd) ==
  /\ status' = o.st /\ power' = o.pw /\ sshFails' = sshFails + o.ssh
  /\ wentDown' = (wentDown \/ (o.st = 0 /\ ~o.null /\ cmd \in {"off", "reset"})
                  \/ o.pw = "off")

\* Mutation of CmdFailed: the sign of pclose()'s result tested.
CmdFailedNegative(st) == st < 0

\* `if (0 != status)'
CmdFailed(st) == st # 0

Return(r) == result' = r /\ pc' = "done"

-----------------------------------------------------------------------------
(* ibmhmc_set_config and ibmhmc_parse_config_info *)

\* What a configuration command gives the parser: popen fails (NULL), ssh
\* fails (status 255, empty output; the status is never looked at), or
\* the HMC's reply.
ConfigShell ==
  (IF "config" \in PopenFailsIn THEN {"null"} ELSE {})
  \cup (IF sshFails < MaxSshFail THEN {"ssh"} ELSE {}) \cup {"ok"}

\* The configuration call returns r after a command with outcome o.
CfgReturn(o, r) ==
  /\ cresult' = r
  /\ sshFails' = sshFails + (IF o = "ssh" THEN 1 ELSE 0)
  /\ cfgSshFailed' = (cfgSshFailed \/ o = "ssh")

\* Mutation of OldHmc: the version test written `<= 4'.
OldHmcInclusive(v) == v <= 4

\* `dev->hmcver < 4'
OldHmc(v) == v < 4

\* The lines of `lssyscfg -r lpar' for system s, split at "\n" by
\* g_strsplit: an hmcver < 4 HMC lists the full-system partition too,
\* and a reply that ends in a newline leaves an empty last string.
LparLines(s) ==
  LET names == (IF OldHmc(ver) THEN <<FSP>> ELSE <<>>) \o LparsOf[s]
  IN  IF names = <<>> THEN <<>> ELSE Append(names, "")

\* The hosts the lpar loop appends: every line, but on an hmcver < 4 HMC
\* not one that starts with FullSystemPartition.
LparHosts(s, lines) ==
  LET kept == SelectSeq(lines, LAMBDA n : ~OldHmc(ver) \/ n # FSP)
  IN  [k \in 1..Len(kept) |-> [sys |-> s, lpar |-> kept[k]]]

\* check_hmc_status: S_BADCONFIG unless `lshmc -r -F ssh' ran (outcome o)
\* and printed "enable".
SshCheckFails(o) == o # "ok" \/ ~sshOn

\* ibmhmc_set_config up to the system list: no ST_IPADDR (S_OOPS), an
\* empty address, check_hmc_status (the ssh check), and the version query
\* whose first "*RM" line must parse.  hmcver keeps the parsed release
\* whatever happens after.
SetConfig ==
  /\ pc = "unconfigured" /\ tries < MaxConfigTries
  /\ tries' = tries + 1
  /\ \/ CfgReturn("ok", "S_OOPS") /\ UNCHANGED <<ver, pc>>
     \/ CfgReturn("ok", "S_BADCONFIG") /\ UNCHANGED <<ver, pc>>
     \/ \E o \in ConfigShell :
          /\ SshCheckFails(o)
          /\ CfgReturn(o, "S_BADCONFIG") /\ UNCHANGED <<ver, pc>>
     \/ /\ sshOn
        /\ \E o \in ConfigShell :
             \/ /\ o # "ok" \/ release = -1
                /\ CfgReturn(o, "S_BADCONFIG") /\ UNCHANGED <<ver, pc>>
             \/ /\ o = "ok" /\ release # -1
                /\ ver' = release /\ pc' = "syslist"
                /\ UNCHANGED <<cresult, sshFails, cfgSshFailed>>
  /\ UNCHANGED <<release, mode, sshOn, hmc, hostlist, sysIdx, target, req,
                 power, state, status, i, result, profileOk, wentDown,
                 calls, answer>>

\* The managed-system query.  A failed ssh prints nothing: g_strsplit
\* gives no line and the loop over the systems ends at once.
SysList ==
  /\ pc = "syslist"
  /\ \E o \in ConfigShell :
       \/ /\ o = "null"
          /\ CfgReturn(o, "S_BADCONFIG")
          /\ pc' = "unconfigured"
          /\ UNCHANGED sysIdx
       \/ /\ o # "null"
          /\ pc' = "systems"
          /\ sysIdx' = IF o = "ok" THEN 1 ELSE Len(SysOrder) + 1
          /\ sshFails' = sshFails + (IF o = "ssh" THEN 1 ELSE 0)
          /\ cfgSshFailed' = (cfgSshFailed \/ o = "ssh")
          /\ UNCHANGED cresult
  /\ UNCHANGED <<release, mode, sshOn, hmc, ver, hostlist, tries, target, req,
                 power, state, status, i, result, profileOk, wentDown,
                 calls, answer>>

\* One turn of the loop over the systems.  On an hmcver < 4 HMC a system
\* in mode "0" adds its full-system partition, one in mode "255" has its
\* partitions queried, any other adds nothing; on a newer HMC every
\* system's partitions are queried.  popen failing returns S_BADCONFIG
\* with the hosts added so far left in the list.
SystemStep ==
  /\ pc = "systems" /\ sysIdx <= Len(SysOrder)
  /\ LET s == SysOrder[sysIdx] IN
     IF OldHmc(ver) /\ mode[s] # "255"
     THEN /\ hostlist' = IF mode[s] = "0"
                         THEN Append(hostlist, [sys |-> s, lpar |-> FSP])
                         ELSE hostlist
          /\ sysIdx' = sysIdx + 1
          /\ UNCHANGED <<pc, cresult, sshFails, cfgSshFailed>>
     ELSE \E o \in ConfigShell :
          \/ /\ o = "null" /\ CfgReturn(o, "S_BADCONFIG")
             /\ pc' = "unconfigured" /\ UNCHANGED <<hostlist, sysIdx>>
          \/ /\ o # "null"
             /\ hostlist' = hostlist \o
                  LparHosts(s, IF o = "ok" THEN LparLines(s) ELSE <<>>)
             /\ sysIdx' = sysIdx + 1
             /\ sshFails' = sshFails + (IF o = "ssh" THEN 1 ELSE 0)
             /\ cfgSshFailed' = (cfgSshFailed \/ o = "ssh")
             /\ UNCHANGED <<pc, cresult>>
  /\ UNCHANGED <<release, mode, sshOn, hmc, ver, tries, target, req,
                 power, state, status, i, result, profileOk, wentDown,
                 calls, answer>>

\* The loop is over: dev->hmc is set and the call returns S_OK.
ConfigEnd ==
  /\ pc = "systems" /\ sysIdx > Len(SysOrder)
  /\ hmc' = "set" /\ cresult' = "S_OK" /\ pc' = "start"
  /\ UNCHANGED <<release, mode, sshOn, ver, hostlist, sysIdx, tries,
                 cfgSshFailed, target, req, power, state, status, i, result,
                 profileOk, wentDown, sshFails, calls, answer>>

-----------------------------------------------------------------------------
(* ibmhmc_reset_req *)

\* The host lookup in dev->hostlist (a NULL host returns S_OOPS too).
Lookup ==
  /\ pc = "start"
  /\ \/ /\ known /\ UNCHANGED result
        /\ pc' = IF ver >= 4 THEN "profile" ELSE "query"
     \/ /\ ~known /\ Return(S_OOPS)
  /\ UNCHANGED <<fixed, req, ver, power, state, status, i, profileOk,
                 wentDown, sshFails>>

\* hmcver >= 4: the default_profile query that on_cmd is built from.
ProfileQuery ==
  /\ pc = "profile"
  /\ \E o \in Shell("query") :
       /\ Ran(o, "query")
       \* its status is not looked at: a failed ssh leaves an empty profile
       /\ profileOk' = (o.ssh = 0)
       /\ IF o.null THEN Return(S_OOPS) ELSE pc' = "query" /\ UNCHANGED result
  /\ UNCHANGED <<fixed, req, ver, state, i>>

\* The state query.  Its status is not looked at; for a full-system
\* partition on an hmcver < 4 HMC, state_cmd was never written and the
\* command run is whatever the stack held, so its output is unrelated to
\* the host.
StateQuery ==
  /\ pc = "query"
  /\ \E o \in Shell("query") :
       /\ Ran(o, "query")
       /\ IF o.null
          THEN Return(S_OOPS) /\ UNCHANGED state
          ELSE \E out \in IF is_lpar /\ o.ssh = 0 THEN RepliesFor(power)
                          ELSE IF is_lpar THEN {""} ELSE Replies :
                 /\ state' = Classify(out)
                 /\ IF Classify(out) = 2 THEN Return(S_OOPS)
                    ELSE pc' = "dispatch" /\ UNCHANGED result
  /\ UNCHANGED <<fixed, req, ver, i, profileOk>>

\* Run cmd, returning S_OOPS if its status says it failed and going to
\* next (or returning S_OK) otherwise.
RunThen(cmd, next) ==
  \E o \in Shell(cmd) :
    /\ Ran(o, cmd)
    /\ IF CmdFailed(o.st) THEN Return(S_OOPS)
       ELSE IF next = "done" THEN Return(S_OK)
       ELSE pc' = next /\ UNCHANGED result

\* The switch on the request.
Dispatch ==
  /\ pc = "dispatch"
  /\ CASE req = "poweron" ->
            IF state = 1 THEN Return(S_OK) /\ UNCHANGED <<status, power, wentDown, sshFails>>
            ELSE RunThen("on", "done")
       [] req = "poweroff" ->
            IF state = 0 THEN Return(S_OK) /\ UNCHANGED <<status, power, wentDown, sshFails>>
            ELSE RunThen("off", "done")
       [] req = "reset" /\ ver < 4 /\ is_lpar ->
            IF state = 1 THEN RunThen("off", "retry")
            ELSE pc' = "retry" /\ UNCHANGED <<result, status, power, wentDown, sshFails>>
       [] req = "reset" /\ ver < 4 ->
            RunThen("reset", "done")
       [] req = "reset" ->
            RunThen(IF state = 1 THEN "reset" ELSE "on", "done")
       [] OTHER ->
            Return(S_INVAL) /\ UNCHANGED <<status, power, wentDown, sshFails>>
  /\ UNCHANGED <<fixed, req, ver, state, i, profileOk>>

\* Mutation of LoopContinues: i <= MAX_POWERON_RETRY.
LoopContinuesInclusive(n) == n <= MaxPowerOnRetry

\* for (i = 0; i < MAX_POWERON_RETRY; i++)
LoopContinues(n) == n < MaxPowerOnRetry

\* Mutation of NextTry: the i++ of the for header lost.
NextTryMissing(n) == n

\* The for header's i++.
NextTry(n) == n + 1

\* One iteration of the power-on loop: break on status 0, else sleep(1).
PowerOnRetry ==
  /\ pc = "retry" /\ LoopContinues(i)
  /\ \E o \in Shell("on") :
       /\ Ran(o, "on")
       /\ IF CmdFailed(o.st)
          THEN i' = NextTry(i) /\ UNCHANGED <<pc, result>>
          ELSE Return(S_OK) /\ UNCHANGED i
  /\ UNCHANGED <<fixed, req, ver, state, profileOk>>

\* Mutation of Exhausted: compared with MAX_POWERON_RETRY - 1.
ExhaustedOffByOne(n) == n = MaxPowerOnRetry - 1

\* `if (MAX_POWERON_RETRY == i)'
Exhausted(n) == n = MaxPowerOnRetry

\* The loop ran out: S_OOPS if every attempt failed.
RetryEnd ==
  /\ pc = "retry" /\ ~LoopContinues(i)
  /\ Return(IF Exhausted(i) THEN S_OOPS ELSE S_OK)
  /\ UNCHANGED <<fixed, req, ver, power, state, status, i, profileOk,
                 wentDown, sshFails>>

\* A partition that is shutting down finishes doing so.
Settle ==
  /\ power = "shutting"
  /\ power' = "off" /\ wentDown' = TRUE
  /\ UNCHANGED <<fixed, req, ver, pc, state, status, i, result,
                 profileOk, sshFails>>

-----------------------------------------------------------------------------
(* ibmhmc_status, ibmhmc_hostlist, ibmhmc_destroy: calls the caller makes *)
(* between the others, on an object no call is running on.               *)

\* No plugin call is running: before or after a configuration attempt, or
\* after the reset call returned (its first step is still to be taken).
Idle == pc \in {"unconfigured", "start", "done"}

\* The variables a status or host-list call leaves alone.
object == <<release, mode, sshOn, hmc, ver, hostlist, sysIdx, tries, cresult,
            cfgSshFailed, req, target, power, pc, state, status, i, result,
            profileOk, wentDown>>

\* ibmhmc_status: check_hmc_status(dev->hmc).  Before a configuration
\* succeeded dev->hmc is NULL and ssh is pointed at "(null)", which
\* answers nothing; otherwise lshmc must run and print "enable".
Status ==
  /\ Idle /\ calls < MaxCalls
  /\ calls' = calls + 1
  /\ \E o \in IF hmc = "null" THEN {"null"} ELSE ConfigShell :
       /\ answer' = [NoAnswer EXCEPT
                       !.op = "status",
                       !.res = IF SshCheckFails(o) THEN "S_BADCONFIG" ELSE "S_OK"]
       /\ sshFails' = sshFails + (IF o = "ssh" THEN 1 ELSE 0)
  /\ UNCHANGED object

\* Mutation of Copied: the copy loop starting at the second node.
CopiedFromSecond(n) == SubSeq(hostlist, 2, n)

\* The strings the copy loop hands back before the first NULL entry:
\* ret[j] = STRDUP(host) for every node, a failed STRDUP leaving ret[j]
\* NULL and so ending the array the caller reads at j.
Copied(n) == SubSeq(hostlist, 1, n)

\* ibmhmc_hostlist: MALLOC of g_list_length + 1 pointers (NULL when it
\* fails; an unconfigured object has an empty list, never NULL), then one
\* STRDUP per host; n is the number of copies before the first failure.
Hostlist ==
  /\ Idle /\ calls < MaxCalls
  /\ calls' = calls + 1
  /\ \E n \in IF AllocCanFail THEN -1..Len(hostlist) ELSE {Len(hostlist)} :
       answer' = [op |-> "hostlist",
                  res |-> IF n < 0 THEN "NULL" ELSE "list",
                  hosts |-> IF n < 0 THEN <<>> ELSE Copied(n),
                  whole |-> n = Len(hostlist),
                  configured |-> hmc = "set"]
  /\ UNCHANGED <<object, sshFails>>

\* ibmhmc_destroy: the pluginid is overwritten, dev->hmc and every host
\* of dev->hostlist FREEd, then the object; no call may follow.
Destroy ==
  /\ Idle
  /\ pc' = "destroyed" /\ hmc' = "null" /\ hostlist' = <<>>
  /\ UNCHANGED <<release, mode, sshOn, ver, sysIdx, tries, cresult,
                 cfgSshFailed, req, target, power, state, status, i, result,
                 profileOk, wentDown, sshFails, calls, answer>>

\* The object is destroyed, or it is idle with nothing left to call:
\* every configuration attempt failed, or the reset call returned.
Done ==
  /\ \/ pc = "destroyed"
     \/ pc = "done" \/ (pc = "unconfigured" /\ tries = MaxConfigTries)
  /\ UNCHANGED vars

\* The steps of a running plugin call after the one its caller makes.
PluginStep ==
  \/ SysList \/ SystemStep \/ ConfigEnd
  \/ ProfileQuery \/ StateQuery \/ Dispatch \/ PowerOnRetry \/ RetryEnd

Next ==
  \/ SetConfig \/ Lookup \/ PluginStep \/ Settle
  \/ Status \/ Hostlist \/ Destroy \/ Done

\* A running call is sequential C code whose next statement is always
\* enabled: its steps are weakly fair.  The caller, the HMC and the
\* partition are not: the caller may never make another call.
Spec == Init /\ [][Next]_vars /\ WF_vars(PluginStep)

-----------------------------------------------------------------------------
Hosts == [sys : Systems,
          lpar : {FSP, ""} \cup UNION {ToSet(LparsOf[s]) : s \in Systems}]

TypeOK ==
  /\ release \in Versions \cup {-1} /\ mode \in [Systems -> Modes]
  /\ sshOn \in BOOLEAN /\ hmc \in {"null", "set"}
  /\ ver \in Versions \cup {-1} /\ hostlist \in Seq(Hosts)
  /\ sysIdx \in 0..Len(SysOrder) + 1 /\ tries \in 0..MaxConfigTries
  /\ cresult \in {"none", "S_OK", "S_OOPS", "S_BADCONFIG"}
  /\ cfgSshFailed \in BOOLEAN
  /\ req \in Requests /\ target \in Candidates
  /\ power \in {"running", "shutting", "off"}
  /\ pc \in {"unconfigured", "syslist", "systems", "start", "profile",
             "query", "dispatch", "retry", "done", "destroyed"}
  /\ state \in StateCodes /\ status \in {0, 1, 255}
  /\ i \in 0..MaxPowerOnRetry
  /\ result \in {"none", S_OK, S_OOPS, S_INVAL}
  /\ profileOk \in BOOLEAN /\ wentDown \in BOOLEAN /\ sshFails \in 0..MaxSshFail
  /\ calls \in 0..MaxCalls
  /\ answer \in [op : {"none", "status", "hostlist"},
                 res : {"none", "S_OK", "S_BADCONFIG", "NULL", "list"},
                 hosts : Seq(Hosts), whole : BOOLEAN, configured : BOOLEAN]

\* A reset reported done really fenced the partition: it was off, or
\* powered off or restarted, at some point during the call.
ResetFences == pc = "done" /\ req = "reset" /\ result = S_OK => wentDown

\* A power-off reported done leaves the partition not running.
PowerOffMeansOff ==
  pc = "done" /\ req = "poweroff" /\ result = S_OK => power # "running"

\* A power-on reported done leaves the partition running.
PowerOnMeansOn ==
  pc = "done" /\ req = "poweron" /\ result = S_OK => power = "running"

\* The partitions the HMC manages and a host list must name: on an
\* hmcver < 4 HMC a mode "0" system's full-system partition and a mode
\* "255" system's partitions, on a newer one every system's partitions.
Managed ==
  LET PartsOf(S) == UNION {{[sys |-> s, lpar |-> l] : l \in ToSet(LparsOf[s])}
                           : s \in S}
  IN  IF release < 4
      THEN {[sys |-> s, lpar |-> FSP] : s \in {x \in Systems : mode[x] = "0"}}
           \cup PartsOf({x \in Systems : mode[x] = "255"})
      ELSE PartsOf(Systems)

\* When ibmhmc_set_config returns S_OK and none of its ssh commands
\* failed, the host list names every partition the HMC manages, whatever
\* earlier failed calls left in it: none of them can later be refused by
\* ibmhmc_reset_req as "not configured in this STONITH module"; and an
\* ibmhmc_hostlist call on the configured object whose copies all
\* succeeded hands the caller every one of them.
ConfigComplete ==
  /\ cresult = "S_OK" /\ ~cfgSshFailed /\ pc # "destroyed" =>
       Managed \subseteq ToSet(hostlist)
  /\ answer.op = "hostlist" /\ answer.configured /\ answer.whole
     /\ ~cfgSshFailed =>
       Managed \subseteq ToSet(answer.hosts)

\* A plugin call is running: configuration past its first command, or
\* the reset past the host lookup.
Busy == pc \in {"syslist", "systems", "profile", "query", "dispatch", "retry"}

\* Every configuration and reset call returns to its caller, however the
\* HMC answers: the lpar and system loops end with their lists, and the
\* power-on retry loop ends after MAX_POWERON_RETRY refused attempts.
ReturnsToCaller == Busy ~> ~Busy
=============================================================================
