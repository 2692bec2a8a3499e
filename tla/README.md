# TLA+ models of the multi-disk SBD fencing daemon

This directory holds TLA+ models of the multi-disk SBD daemon in
`src/lib/stonith/sbd-md.c`, of the string-table merge in
`src/lib/lrm/lrm_msg.c`, of `make_realtime` in
`src/lib/clplumbing/realtime.c` as main() reaches it, and of two STONITH
plugins: the IBM HMC plugin in `src/lib/plugins/stonith/ibmhmc.c` (the
plugin object from `ibmhmc_new` to `ibmhmc_destroy`) and
the Dell DRAC III plugin in `src/lib/plugins/stonith/drac3.c`. Each model comes with TLC
configurations that check it. The other sources of the repository are
inventoried below, together with the reason each one is or is not modelled.

## 1. The system

| Part | Source | What it does |
|---|---|---|
| Inquisitor (INQ) | `inquisitor()`, sbd-md.c 516-702 | Supervisor process. **Phase A:** forks one `SERVANT_PREPARE_ONLY` child per disk, reaps them, counts the good ones and compares the header timeouts. **Phase C:** daemonizes, deploys full-job servants, arms the watchdog, then loops on `sigwaitinfo`. |
| Servant (SVT) | `servant()`, 233-359 | One child per disk. It allocates its slot and clears its mailbox. Then, every `timeout_loop`, it checks its parent, reads the mailbox and acts on the command (TEST, RESET, OFF, EXIT). It reports liveness with `sigqueue(SIG_LIVENESS)`. |
| Servant records | `recruit_servant`, `lookup_servant_by_pid`, `foreach_servants`, `check_all_dead`, `cleanup/restart_servant_by_pid`, 361-514 | The list of per-disk records `{devname, pid}`. `foreach_servants(DEPLOY)` forks for records whose pid is 0 or gone. `CALLBACK` SIGKILLs live ones. |
| Fork helper | `assign_servant`, 74-90 | Forks. The child runs the function and exits 1 if it returned -1, else 0. A failed fork exits the caller with status 1. |
| Messenger / ping | `messenger`, `ping_via_slots`, 180-231, 704-758 | One child per disk writes a message (or ping) into a peer's slot. The parent counts the exits. |
| Disk commands | `init_devices`, `allocate_slots`, `list_slots`, `dump_headers`, `main` | Sequential loops over the disks. |
| On-disk format, watchdog, reset | not under `src/` | `slot_allocate`, `mbox_read/write`, `header_read`, `watchdog_*`, `do_reset/do_off`. These are taken from `spec.md`. |
| LRM messages | `src/lib/lrm/lrm_msg.c` | Builders of hash-table messages. `merge_str_tables` merges two tables and skips `CRM_meta_` keys. |
| Realtime helpers | `src/lib/clplumbing/realtime.c` | `sched_setscheduler` / `brk` / `mlockall` wrappers (the `brk` heap pre-growth is not modelled, see §6). main() reaches `make_realtime` through `maximize_priority()` (line 855, defined outside `src/`) unless `-R` was given. |
| STONITH plugins | `ibmhmc.c`, `drac3.c` | Drive an HMC over ssh and a DRAC3 card over HTTP. |
| Headers | `apphb_cs.h`, `cl_uuid.h` | Declarations only. |

**How the parts interact.** INQ and the servants interact only through
signals and `waitpid`:

- SIG_LIVENESS, SIG_EXITREQ and SIG_TEST are queued real-time signals.
  Queued instances of one signal are delivered in FIFO order.
- SIGCHLD and SIGUSR1 are standard signals and do not queue.
- `sigwaitinfo` returns the lowest-numbered pending signal first. So
  SIGUSR1 (10) comes before SIGCHLD (17), and SIGCHLD comes before the
  RT signals (RTMIN+1, +2, +3).

Peers interact with the servants through the mailboxes on the shared disks.

## 2. Modules

### `SbdInquisitor.tla`: Phase C, INQ with its servants

**State (VARIABLES)**

| Variable | Models |
|---|---|
| `srv` | Record pids, `s->pid`. |
| `pst`, `pdisk`, `phow`, `pseen` | Per-pid process state, the disk it serves, how it died, and the command it read. |
| `nextPid` | Fork pid allocation. |
| `rtq` | One FIFO per RT signal. It holds sender pids, bounded by `SigQueueCap`. |
| `usr1` | The pending-SIGUSR1 bit. |
| `inq` | `run`, `exited` (the `exit(0)` of line 640), or `died` (the `exit(1)` of a failed fork). |
| `exiting` | The `exiting` flag. |
| `reports`, `hasNew` | The report array and `has_new`. `hasNew` starts as an arbitrary Boolean because C leaves it uninitialised; the first LIVENESS signal meets an all-zero array and writes it before any read. |
| `wd` | Watchdog state. |
| `mbox`, `diskOk` | Mailbox contents and disk health per disk. |
| `node` | `up`, `reset` or `off`: the effect of `do_reset`/`do_off`. |

Two history variables record how the watchdog was last tickled (`tickledBy`)
and which disks' servants have been heard since then (`heard`).

**Actions**

- **Servant steps**, one per segment of the loop between two blocking calls:
  - `SrvStart`: lines 260-289, open, slot allocate, mailbox clear.
  - `SrvRead`: 293-305, sleep, ppid check, mailbox read.
  - `SrvDispatch`: 307-339, the command switch. A peer command `unknown` stands for a torn or foreign message; the `default` branch logs it and clears the slot.
  - `SrvReport`: 340, sigqueue LIVENESS.
- **INQ branches**, one action each:
  - `HandleExitReq`: 628-631.
  - `ReapChild`: one `waitpid` of 632-656, with restart or cleanup.
  - `HandleLiveness`: 657-686.
  - `HandleTest`: 687.
  - `HandleUsr1`: 688-696.
- **Deployment.** `Deploy` is `foreach_servants(DEPLOY)` together with
  `assign_servant`. Each fork can fail when `ForkCanFail` is set, and a
  failure is the `exit(1)` of line 88.
- **Environment actions:**
  - `Crash`: a servant killed by a signal other than SIGKILL.
  - `DiskFail`.
  - `PeerWrite`: a peer's `slot_msg` into this node's slot.
  - `SendUsr1`: the operator.
- **`Terminated`** stutters in the states where the system has really
  stopped: the node reset or powered off, or INQ gone with no servant left.

**Abstract specification.** `QuorumReport.tla` states what the report array
promises. It is a set of reporter pids. A new pid is added. The watchdog is
tickled and the set emptied exactly when the addition reaches the quorum.
SIGUSR1 empties the set and tickles. `SbdInquisitor` implements it under the
mapping `reported <- {non-zero entries of reports}` (property
`QuorumReportRefined`).

`MCInquisitor.tla` defines the command sets the configurations use.

### `SbdStartup.tla`: Phase A

**State:** per-disk child state and exit code, header triple and health,
and the globals `timeout_*`, `good_servant`, `servant_finished` and
`inconsistent`, plus the outcome `phase`.

**Actions:**
- `ChildExit`: the PREPARE_ONLY child, with `ExitCode` being assign_servant's
  exit mapping.
- `Reap`: one iteration of the reap loop, including
  `check_timeout_inconsistent` (`Differ`) and its `exit(1)` on a disk that
  fails late.
- `Decide`: lines 605-618.

`MCStartup.tla` gives two header triples that differ in the watchdog
timeout, as in `spec.md` scenario 4.

### `SbdMessenger.tla`: the one-shot subcommands

**State:** argv's options `opts` and subcommand `cmd`, the servant list
`servants` (one devname per record), per-record child state and exit code,
per-device health and `written` (the operation took effect on the device), the pending
SIGCHLD bit `chld`, the parent's `pc`, the list cursor `forked`, the
counters `servant_finished` (`finished`) and `successed_delivery`
(`delivered`), and main()'s exit `status`.

**Actions:**
- `Parse`: main()'s `getopt` loop, its "Not enough arguments" check and
  its dispatch (797-873). The loop is `Getopt` folded over `opts`. `-d`
  appends a record with `recruit_servant` (361-381), which does not look
  for a device already listed. `-h` returns 0. An unknown option, a missing
  subcommand or an unknown one end in exit 1. The other options only set
  globals that nothing here reads, so they are left out.
- `Fork`: one `assign_servant` of the fork loop (721-725, 197-201). A failed
  fork is `exit(1)`.
- `ChildWrite`, `ChildExit`: `slot_msg_wrapper`/`slot_ping_wrapper` in the
  child and its exit through `assign_servant`.
- `Wait`: `sigwaitinfo` consumes the one pending SIGCHLD.
- `MsgReap`, `MsgDrainEnd`: messenger's `waitpid(WNOHANG)` loop, with its
  early return at a quorum of deliveries (731-747).
- `PingReap`, `PingDrainEnd`: ping's blocking `wait` loop (207-226).
- `Conclude`: the final count (752-757, 230).
- `DiskStep`, `DiskLoopEnd`: one turn and the end of the walk of
  `init_devices` (92-111). `list_slots`, `allocate_slots` and
  `dump_headers` walk the list the same way, stopping at the first disk
  whose open or operation fails, and share these actions.
- `MainExit` is main()'s mapping of the result to the exit status.

`Parse` also calls `maximize_priority` (line 855). This is modelled from
`spec.md`'s `-R` ("skip real-time scheduling"): without `-R` it calls
`make_realtime` with one of `RtArgs`, because `spec.md` does not give the
arguments. `proc` is the process's scheduling state. The history `rt`
records the call and the OS outcomes it met.

### `Realtime.tla`: `make_realtime` as an operator

`make_realtime(proc, spolicy, priority, heapgrowK, os)` is realtime.c
21-98 applied to a process record `proc`. The record holds the policy,
the priority, the memory lock and the file's `realtimepermitted` flag,
which starts TRUE (`NormalProc`, line 13). `os` gives the OS calls'
outcomes: `sched_getscheduler` failing, `sched_setscheduler` refused for
want of privilege, `mlockall` failing. Each failure is only logged, so the
call goes on. The `HAVE_USABLE_BRK` block (69-89) is left out: it only
tries to pre-grow the heap and logs a failure, and nothing in sbd reads
the break. (With glibc, `brk(NULL)` returns 0 rather than the current
break, so the block asks for an absolute address near 0 and fails.)

- `Policy` (40-42): a policy <= 0 means `SCHED_RR`.
- `ClampPriority` (44-50): a priority <= 0 becomes the policy's minimum,
  and one above its maximum becomes the maximum.
- `Admits`: the kernel refuses a priority outside the policy's range with
  EINVAL.

The module has no variables of its own. Its only caller is `SbdMessenger`'s
`Parse`.

### `LrmMsg.tla`: string tables and message builders

A GHashTable is a function from a finite set of keys to values, and a NULL
table is the model value `Null`. `CopyPair`, `CopyStrTable`, `MergePair` and
`MergeStrTables` are the C functions. The `g_hash_table_foreach` walks are
`FoldSet`s, which fix one key order. No other order can change the result:
the keys of `old` are distinct, so `merge_pair` finds a key of `old` in the
merged table only when `new` put it there. One `Merge` step applies the
merge to every pair of input tables. For a given `new` table the result is
compared with `ReferenceMerge`, the merge that `merge_pair`'s comment
"Never repopulate CRM meta attributes" (line 68) describes. With `new`
NULL the code returns a copy of `old`, `CRM_meta_` pairs included, against
that comment (see the disagreements below). `FreeStrTable` then frees the
merged table.

Each `create_lrm_*` builder is an operator of that name, giving its
argument check and the fields it adds, in the order of its `||` chain. For
`create_lrm_addrsc_msg` the chain ends with the optional provider and
parameter table. An `ha_msg` is the set of its field names. `ha_msg_new`
and every `ha_msg_add` live in `cl_msg.c`, outside `src/`, and any of them
may fail. `Built(x, k)` is what the builder returns when the first `k` adds
succeed: NULL on a failed argument check or a failed add,
or the whole message. One `Build` step calls one builder with any
arguments.

### `IbmHmc.tla`: the HMC plugin object, from `ibmhmc_new` to `ibmhmc_destroy`

One plugin object. `Init` is `ibmhmc_new`, with no HMC, an empty host list
and `hmcver` -1. Its configuration is built as follows:
- `SetConfig` is `ibmhmc_set_config` up to the system list. It covers a
  missing or empty address, `check_hmc_status` (`SshCheckFails`), and the
  version query, whose "*RM" line must parse.
- `SysList` is the managed-system query.
- `SystemStep` is one turn of the loop over the systems. On an hmcver < 4
  HMC (`OldHmc`), a mode "0" system adds its full-system partition, a mode
  "255" system has its partitions queried, and any other mode adds nothing.
- `LparLines` is the partition query's output split at newlines. This
  includes the empty string after the final newline, which `LparHosts`
  appends like any other line.
- `ConfigEnd` sets `dev->hmc` and returns S_OK.
- `ConfigShell` is `do_shell_cmd` as the parser sees it: NULL, or output.
  When ssh fails the output is empty, and the status is never read.
- A failed configuration keeps the hosts it already appended. A second
  attempt appends them again.

The HMC's inventory is the environment, fixed for a run: its release, each
system's mode, the partitions `LparsOf` each system, and whether ssh is
enabled.

The reset call is for `target`, a host chosen among the HMC's partitions:
- `Lookup` finds the host in the configured host list (`known`).
- `ProfileQuery` runs the hmcver >= 4 default-profile query. Its status is
  ignored, so a failed ssh leaves `profileOk` false.
- `StateQuery` runs the state query and classifies its first line
  (`Classify`). For a full-system partition on an old HMC, `state_cmd` is
  uninitialised, so its reply is any string.
- `Dispatch` is the request switch.
- `PowerOnRetry` and `RetryEnd` are the `MAX_POWERON_RETRY` loop after a
  hard reset.

`Shell` is `do_shell_cmd`, with three outcomes:
- popen fails: it returns NULL and leaves `status` as it was;
- ssh fails: status 255;
- the HMC refuses (status 1) or carries the command out (status 0).

The partition and the HMC are the environment:
- `Accepts` and `After` say which commands the HMC carries out and their
  effect.
- `RepliesFor` gives what `lssyscfg` prints for each power state.
- `Settle` finishes a shutdown.
- `wentDown` is a history variable: the partition was down or restarted
  during the call.

Between calls (`Idle`), the caller may also make the plugin's other calls,
at most `MaxCalls` of them:
- `Status` is `ibmhmc_status`, which is `check_hmc_status(dev->hmc)`. Before
  a configuration succeeds `dev->hmc` is NULL, and the check fails.
- `Hostlist` is `ibmhmc_hostlist`. Its `MALLOC` may fail (NULL), and a
  failed `STRDUP` leaves a NULL entry that ends the array the caller reads
  (`Copied`). An unconfigured object returns an empty list, never NULL.
  `answer` records what the last of these calls returned.
- `Destroy` is `ibmhmc_destroy`, after which no call may follow.
- `Busy` says a configuration or reset call is past its first step.
  `PluginStep` is every step it may take next.

### `Drac3.tla`: the DRAC III plugin object

One `struct DRAC3Device` from `drac3_new` (`Init`) to `drac3_destroy`
(`Destroy`). Each pointer field is `"null"`, `"live"` or `"freed"`. The
`FREE` macro is `PluginImports->mfree` and does not clear the pointer, so
a FREEd field dangles. `curl` is the handle that `ISCONFIGED` tests.
- `SetConfig("file")` and `SetConfig("info")` are the two configuration
  entry points. They cover fopen failing, a file with no usable line,
  sscanf not finding three words, and `Parse`, which is
  `DRAC3_parse_config_info`. In `Parse(k)`, the first `k` of the four
  allocations (host, user, pass, curl) succeed. `ParsedField` gives each
  field's pointer afterwards: earlier fields FREEd and dangling, the failed
  one NULL, later ones unchanged.
- `Status` and `ResetReq(r)` are `drac3_status` and `drac3_reset_req`.
  `LoginFails` is `drac3Login` failing after `drac3VerifyLogin` found no
  session. `LoginHolds` is the session being in place, unless the card ends
  it before the command that follows. `ResetReq` lets `ST_POWERON` and
  `ST_POWEROFF` fall through to the power cycle, as the code does.
- `Hostlist` is `drac3_hostlist` with its inverted test after `STRDUP`. A
  NULL host makes `cl_strdup` return NULL, like an allocation failure, and
  the caller gets a list holding no host.
- `HostUnusable` is a card request made with a dangling or NULL host. This
  is undefined behaviour: the process crashes, or the request fails.

The card is the environment, because `drac3_command.c` is not under `src/`:
- its answers are nondeterministic (`cardOk`);
- `SessionExpire` ends a login session between calls;
- `sent` is a history variable recording the card command of the last step.

Undefined behaviour ends in `fault` (`double_free`, `use_after_free` or
`null_deref`), after which no call is made.

## 3. Runs

| Run | Config | Expect | Checks |
|---|---|---|---|
| InqSafety | 3 disks, 1 crash, 1 disk failure, forks may fail, 1 SIGUSR1, 1 peer TEST, EXIT or unknown command, RT queue of 2 | pass (about 3.8M states) | `TypeOK`. `ChildrenTracked`: while INQ runs, every live or unreaped child is the pid in its disk's record, and after `exit(0)` no child is left. `QuorumReportRefined`. |
| InqLiveness | 3 disks, 1 crash, one of EXIT, RESET or OFF from a peer | pass | `TickleProgress`: the watchdog is tickled by quorum reports infinitely often unless exiting or halted. `ExitCompletes`: an accepted EXIT ends with INQ exiting (or the node reset). |
| InqTwoDisks | 2 disks, no faults | violation | `TickleProgress`. |
| InqRespawnQuorum | 3 disks, 1 crash | violation | `QuorumOfDisks`: a LIVENESS tickle happens only when servants of a quorum of distinct disks have reported since the previous tickle. |
| InqResetLost | 3 disks, peer TEST and RESET | violation | `ResetNotLost`: a RESET leaves a mailbox only by being acted on. |
| StartupTwo | 2 disks, any of the 2 triples and any health per disk, 1 late failure | pass | `TypeOK`. `StartupQuorum`. `HeaderConsistency`: the daemon starts only if every good disk carries the adopted triple. |
| StartupThree | 3 disks | violation | `HeaderConsistency`. |
| MsgQuorum | up to 3 options (`-d` naming any of 3 devices of any health, possibly twice or never, `-R`, `-h`, an unknown option), every subcommand, an unknown one and none; forks may fail; `make_realtime` asked for the default or for an out-of-range FIFO priority, under 4 OS outcomes | pass (530,824 states) | `TypeOK`. `DeliveredToQuorum`: `message` exits 0 only when the disks of a quorum of servant records carry the message, and exits 1 with no `-d`. `AllOrExitOne`: `-h` exits 0; otherwise `create`/`dump`/`list`/`allocate` exit 0 exactly when every disk a `-d` option named was done (read from argv, not from the servant list), and argument errors exit 1. `RealtimeUnlessSkipped`: without `-R` the subcommand runs under the realtime policy asked for (`SCHED_RR` for none), at a priority that policy admits, when the OS let the scheduler be read and set; it is locked in memory unless `mlockall` failed. `CommandEnds`: every subcommand ends although SIGCHLD coalesces. |
| LrmMerge | 3 keys (one `CRM_meta_`), 2 values, every pair of tables or NULL; every builder with NULL, empty or set arguments | pass (124,656 states) | `TypeOK`. `MergeMatchesReference`: whenever `new` is given, the merge holds every pair of `new` and exactly those pairs of `old` that `new` lacks and that are no `CRM_meta_` attributes. The builders run with any arguments and any failing add; no property is stated of them beyond their type, since each failing branch visibly deletes the message and returns NULL. |
| HmcPower | two systems of one partition, hmcver 3 and 4, two status or host-list calls with allocation failures, destroy, every system mode, ssh on or off, 2 configuration attempts, partitions only as targets, every request and power state, ssh fails at most once, popen fails only while configuring, `MAX_POWERON_RETRY` 2 | pass (1,220,383 states) | `TypeOK`. `ResetFences`: a reset returning S_OK brought the partition down or restarted it. `PowerOffMeansOff`, `PowerOnMeansOn`: power-off or power-on returning S_OK left the partition in that state. `ConfigComplete`: a configuration returning S_OK, with no ssh failure, lists every partition the HMC manages, whatever earlier failed attempts left, and a host-list call that copied every host hands them all to the caller. `ReturnsToCaller` (liveness): every configuration and reset call returns. |
| HmcPopenFail | partition-mode systems, resets, popen may fail in the reset call | violation | `ResetFences`. |
| DracLifecycle | one object, 5 calls, every request code, every allocation may fail, the session may expire anywhere | pass (623 states) | `TypeOK`: through failed reconfigurations, dangling fields and crashes, the object stays within the states the code can produce. The plugin's real defects (below) are all reachable here, so no further safety property holds; each is listed as a hazard. |

### Findings

- **Two disks never tickle** (InqTwoDisks, lines 672-686). The quorum test
  asks for a free slot at index >= N/2+1. With N = 2 both slots fill and
  neither loop frees them. This contradicts `spec.md` scenario 1.
- **Quorum of pids, not disks** (InqRespawnQuorum, line 662). After disk 1 is
  dead from the start, disk 2's servant reports, crashes and is restarted,
  and its new pid reports. The two pids of one disk tickle the watchdog.
- **RESET erased** (InqResetLost, lines 283 and 314-315). The servant's
  mailbox clear at its start (in the trace, the initial start; a restart
  after a crash or SIGUSR1 does the same) overwrites a RESET a peer wrote
  meanwhile. The
  same happens to a RESET written between the TEST read and its clear.
- **Masked header inconsistency** (StartupThree, lines 585-592).
  `inconsistent` is reassigned for every good servant. With triples
  A, B, B, the third disk's comparison (B against B) resets the flag and the
  daemon starts. This contradicts `spec.md` §8 and "latched" in §2.
- **A reset reported done without a reset** (HmcPopenFail, ibmhmc.c 854).
  When `popen` fails, `do_shell_cmd` returns NULL without writing
  `*status`. In the power-on retry loop the caller then tests the status the
  state query left, which is 0. It breaks out and returns S_OK, although no
  command ran: the partition is left as the state query found it (in the
  trace, shutting down), not fenced. The fencing layer then
  believes the node is fenced.

**Disagreements modelled but given no run.** Each of these is listed as a
hazard in `PROJECT.json`, with its note:

- `ping_via_slots` returns 0 whatever its children did (sbd-md.c 230). So
  `ping` exits 0 even when no disk could be written, against `spec.md` §6
  "exit 1 on any error".
- `DRAC3_parse_config_info` FREEs the fields it already duplicated when a
  later allocation fails, without clearing them (drac3.c 459, 465-466,
  474-476). `drac3_destroy` then frees them again, and `drac3_status` or
  `drac3_reset_req` reads the freed host when an earlier handle is still
  set. DracLifecycle's state space reaches `fault = "double_free"` and
  `"use_after_free"`.
- `drac3_hostlist` tests the `STRDUP` result the wrong way round (drac3.c
  406). Every successful copy frees the list, and `g_strdown(hl[0])` then
  reads through NULL. The model reaches `fault = "null_deref"` on every
  configured object.
- `ST_POWEROFF` falls through to a power cycle (drac3.c 365-369, a
  "TODO"). A power-off returns S_OK while the host runs.
- `merge_str_tables(old, NULL)` copies `old` with its `CRM_meta_`
  attributes, against the comment "Never repopulate CRM meta attributes".
  `MergeMatchesReference` states the comment's reading only for a given
  `new`, where the code follows it.
- `ibmhmc_parse_config_info` never reads the exit status of its queries
  (ibmhmc.c 330, 370, 410). When ssh fails, the empty output drops a
  system's partitions, or every system, and the call still returns S_OK.
  `ConfigComplete` is therefore stated for configurations without an ssh
  failure.
- The partition loop stops only at NULL (ibmhmc.c 380). The empty string
  after `lssyscfg`'s final newline becomes the host "system/" in the list.
- For a full-system partition on an old HMC, `state_cmd` is run
  uninitialised (ibmhmc.c 598). This is undefined behaviour, and a power-off
  can report "already off" while the system runs.

### Mutants

Every property of a passing run is broken by a plausible bug in the
definition it depends on:

| Mutant | Breaks |
|---|---|
| Fork error -1 stored in the record | `TypeOK` |
| Deploy skips zombies | `ChildrenTracked` |
| Quorum index off by one | `QuorumReportRefined` |
| Report array not cleared | `TickleProgress` |
| CALLBACK sends nothing | `ExitCompletes` |
| Raw exit status 255 | Startup `TypeOK` |
| Quorum N/2 | `StartupQuorum` |
| Loop-only comparison | `HeaderConsistency` |
| main() returns the raw result | Messenger `TypeOK` |
| Any exit counted as a delivery | `DeliveredToQuorum` |
| One `waitpid` per SIGCHLD | `CommandEnds` |
| Disk walk does not stop on error | `AllOrExitOne` |
| `recruit_servant` overwrites the list | `AllOrExitOne` |
| Priority not clamped to the policy's maximum | `RealtimeUnlessSkipped` |
| `copy_pair` stores the key as value | LrmMsg `TypeOK` |
| `merge_pair` lets old override new | `MergeMatchesReference` |
| Retry loop `i <= MAX` | HMC `TypeOK` |
| Version test `hmcver <= 4` | `ConfigComplete` |
| Host-list copy starts at the second host | `ConfigComplete` |
| Retry loop's `i++` lost | `ReturnsToCaller` |
| Exhaustion test `i == MAX-1` | `ResetFences` |
| Unknown state string read as OFF | `PowerOffMeansOff` |
| Status tested as `< 0` | `PowerOnMeansOn` |
| Parse returns `ENOMEM` instead of a stonith code | DRAC3 `TypeOK` |

## 4. Bounds and why they are enough

- **Three disks** is the smallest count with a real majority and a spare
  disk. Two disks exhibit the N <= 2 edge.
- **`MaxPid`** allows every fork the crash and SIGUSR1 budgets can cause.
  The ASSUME enforces this.
- **One crash, one disk failure, one SIGUSR1 and one peer message** each
  already reach the restart, zombie-redeploy, fork-failure and
  command-forwarding paths.
- **An RT queue of 2** lets a signal be dropped, which the code ignores.
- **Messenger: three options over three devices** give up to three
  records, so the quorum (2) is smaller than the number of children: the
  early return leaves a child unreaped, and several exits share one
  SIGCHLD. They also give a device named twice, no `-d` at all, and `-h`
  or an unknown option before, between or after the `-d` options.
- **Realtime: two argument sets and four OS outcomes.** The default
  request (policy and priority 0) goes through both defaults. A FIFO
  request at priority 100 goes through the clamp to the maximum. The
  outcomes cover every OS call failing on its own.
- **DRAC3: five calls on one object.** Five calls cover a configuration,
  a reconfiguration that fails part-way, a request, and a destroy. Every
  allocation failure point and every request code is enumerated.
- **LrmMsg: three keys** cover a key in both tables, a key in one only, and
  a `CRM_meta_` key. Every table over them is enumerated.
  A builder's string arguments are NULL, empty or set, and its table NULL
  or not. These are the only cases its checks tell apart. Every count of
  successful adds is enumerated, up to the longest chain's six.
- **HMC: two systems of one partition each.** Every mode of each system is
  enumerated, which covers a system that adds its full-system partition, one
  whose partitions are queried, and one that adds nothing. Two configuration
  attempts let a failed attempt leave hosts behind before a successful one.
  Popen failing in the reset call belongs to HmcPopenFail, where it breaks
  `ResetFences`.
- **HMC: `MAX_POWERON_RETRY` lowered to 2.** The loop body does not depend
  on the bound, and 2 reaches both a retry and the exhaustion.

## 5. Fairness

- **Servant steps: weak fairness.** Each servant is a process that keeps
  running.
- **`ReapChild`: weak fairness.** A zombie keeps SIGCHLD pending.
- **INQ's signal branches: strong fairness.** Such a branch is enabled only
  while its signal is at the head of the queue. Lower-numbered signals may
  take priority, so the branch is intermittently enabled, and `sigwaitinfo`
  eventually returns every pending signal.

**Timing assumption `SleepOutlastsHandling`.** A servant does not read
again while one of its own signals still waits in INQ's queue. This models
`sleep(timeout_loop)` being far longer than INQ's handling of a signal.
Without it, one servant's signals could be dropped forever at the queue
bound, which timing rules out.

**Messenger.** The parent and each child have weak fairness: each is a
running process. The subcommands stop once main() returns, so
`MsgQuorum.cfg` disables deadlock checking.

**HMC.** The steps of a running configuration or reset call
(`PluginStep`) have weak fairness. A call is sequential C code whose next
statement is always enabled, and each command is assumed to finish (see
"Not modelled"). The caller's calls, the HMC and the partition have no
fairness: the caller may never call again, and a shutdown may never end.

**DRAC3.** No fairness: the plugin is called by its user when the user
chooses, and the run checks safety only. An object's life ends with
`drac3_destroy`, with a crash, or at the call bound, so
`DracLifecycle.cfg` disables deadlock checking.

## 6. Not modelled, and why

- **Hung disk I/O** is not modelled. A blocked read never returns, and the
  code has no timeout for it.
- **`do_reset` is modelled as a node reset**, which is terminal.
  `spec.md` §5 reads it as a local self-reset followed by a respawn. The
  reboot reading makes any disk read error fatal to the node.
- **`make_normaltime` and `disable_realtime`** (realtime.c 100-122) are
  not modelled: nothing in `src/` calls them and `spec.md` names no caller.
  So `realtimepermitted` stays TRUE. `make_realtime`'s early return on it
  is modelled but never taken.
- **`make_realtime`'s heap pre-growth** (realtime.c 69-89,
  `HAVE_USABLE_BRK`) is not modelled: it changes only the process break,
  which nothing in sbd reads, and every failure is only logged.
- **`drac3_getinfo` and `drac3_free_hostlist`** are not modelled.
  `drac3_getinfo` only returns constant strings. `drac3_free_hostlist`
  frees a list the caller owns, so neither changes the plugin object.
- **The card's own behaviour** is not modelled: `drac3_command.c` (the XML
  over HTTPS) is not under `src/`. The curl handle leaked at drac3.c 470,
  and the login session left open on the card when a reconfiguration
  replaces the handle, are listed as hazards. The card's session table is
  not modelled.
- **Slot allocation (`slot_allocate`)** lives outside `src/`. It is not
  modelled.
- **`ibmhmc_getinfo` and `ibmhmc_get_confignames`** are not modelled. They
  only return strings. The `MAX_SYS_NUM`/`MAX_LPAR_NUM` truncation of
  `g_strsplit` is far beyond the model's two systems.
- **A command that never finishes** is not modelled. `do_shell_cmd` reads
  until EOF with no timeout, and retries a failed `fread` forever. This is
  listed as a hazard. `ReturnsToCaller` holds only because each command is
  assumed to finish.
- **`lookup_servant_by_dev`** (sbd-md.c 386-396) is not modelled: nothing
  calls it. Its test is inverted: it returns the first record whose name
  differs from the one asked for.
- **The options that only set globals** (`-n`, `-1`..`-5`, `-D`, `-R`, `-v`,
  `-W`, `-w`) are left out of `Getopt`: no modelled action reads what they
  set. `case 'T'` is dead code, since `T` is not in the `getopt` string.
- **The header files** are not modelled: they contain declarations only.

## 7. Plan for the next steps

1. Compose `SbdMessenger`'s writes with `SbdInquisitor`'s servants, so that
   a message through a quorum of disks is followed to the receiving node.
2. A run for EXIT with no live child left.
3. A violation run each for the DRAC3 double free and the inverted
   hostlist test, if the run budget allows.
4. A run each for the disagreements above that have none, if the run
   budget allows.
