---------------------------- MODULE SbdInquisitor ----------------------------
(***************************************************************************)
(* Steady state of the multi-disk SBD daemon (src/lib/stonith/sbd-md.c):  *)
(* inquisitor() from foreach_servants(SERVANT_DEPLOY) on, the servants it  *)
(* forks in SERVANT_DO_FULLJOB mode, the real-time signals between them,   *)
(* this node's mailbox slot on every disk, and the environment: peers      *)
(* writing commands into the slot, disks failing, servants crashing, the   *)
(* operator sending SIGUSR1.                                               *)
(*                                                                         *)
(* Disks are the records of servants_leader, in list order 1..NumDisks.    *)
(* Pids are handed out in fork order.  A mailbox holds only its command;   *)
(* names and "from" strings are abstracted away.                           *)
(***************************************************************************)
EXTENDS Integers, FiniteSets, Sequences

CONSTANTS
  NumDisks,     \* number of -d options, i.e. of servant records
  MaxPid,       \* pids are 1..MaxPid
  MaxCrash,     \* bound on servants killed by a signal other than SIGKILL
  MaxDiskFail,  \* bound on disks that stop answering
  MaxUsr1,      \* bound on SIGUSR1 sent by the operator
  MaxMsgs,      \* bound on commands written into the slot by peers
  PeerCmds,     \* the commands peers write (sbd message <node> <cmd>)
  SigQueueCap,  \* RLIMIT_SIGPENDING: queued real-time signals at most
  ForkCanFail,  \* whether fork() in assign_servant may return -1
  SleepOutlastsHandling
    \* timing assumption: a servant's sleep(timeout_loop) lasts longer than
    \* the inquisitor takes to handle the signals of its previous pass

Disks == 1..NumDisks
Pids == 1..MaxPid
\* expect_report / 2 + 1 in the SIG_LIVENESS branch
Quorum == NumDisks \div 2 + 1

Cmds == {"none", "test", "reset", "off", "exit", "unknown"}
RtSigs == {"LIVENESS", "EXITREQ", "TEST"}

ASSUME NumDisks >= 1 /\ PeerCmds \subseteq Cmds \ {"none"}
ASSUME MaxPid >= NumDisks * (1 + MaxUsr1) + MaxCrash
ASSUME ForkCanFail \in BOOLEAN /\ SleepOutlastsHandling \in BOOLEAN

VARIABLES
  srv,        \* srv[d]: pid field of the servant record of disk d (0: none)
  pst,        \* pst[p]: state of process p
  pdisk,      \* pdisk[p]: disk process p serves (its s->devname)
  phow,       \* phow[p]: how a dead process ended
  pseen,      \* pseen[p]: s_mbox->cmd as last read by servant p
  nextPid,    \* the pid the next fork() returns
  rtq,        \* rtq[s]: sender pids of queued real-time signal s
  usr1,       \* SIGUSR1 pending at the inquisitor
  inq,        \* "run", "exited" (exit(0)) or "died" (exit(1))
  exiting,    \* exiting flag of inquisitor()
  reports,    \* reports[1..expect_report], 0 is an empty entry
  hasNew,     \* has_new: a local of inquisitor(), never initialised
  wd,         \* watchdog device: "armed" or "closed" (magic close)
  mbox,       \* mbox[d]: command in this node's slot on disk d
  diskOk,     \* diskOk[d]: disk d answers I/O
  node,       \* "up", or "reset" / "off" after do_reset() / do_off()
  crashes, msgs, usr1Sent,   \* environment budgets
  tickledBy,  \* history: what tickled the watchdog in the last step
  heard       \* history: disks whose servant's LIVENESS was accepted
              \* into reports since the last tickle

vars == <<srv, pst, pdisk, phow, pseen, nextPid, rtq, usr1, inq, exiting,
          reports, hasNew, wd, mbox, diskOk, node, crashes, msgs, usr1Sent,
          tickledBy, heard>>

Running == {"start", "read", "dispatch", "report"}
Alive(p) == pst[p] \in Running
\* the process still exists for sigqueue(pid, 0): alive or a zombie
Exists(p) == pst[p] \in Running \cup {"zombie"}
\* a child of a dead inquisitor is reparented and reaped by init
ExitState == IF inq = "run" THEN "zombie" ELSE "gone"

MinOf(S) == CHOOSE i \in S : \A j \in S : i <= j
\* position of disk d among the disks D, in servants_leader order
Rank(d, D) == Cardinality({e \in D : e < d})
QueueLen == Len(rtq["LIVENESS"]) + Len(rtq["EXITREQ"]) + Len(rtq["TEST"])

\* Mutation of Deploy: a failed fork() is returned to the caller, which
\* stores -1 in the record and carries on.
DeployStoresForkError(D, base) ==
  \E k \in (IF ForkCanFail THEN 0..Cardinality(D) ELSE {Cardinality(D)}) :
    LET pidOf(d) == nextPid + Rank(d, D)
        ok == {d \in D : Rank(d, D) < k}
        new == {pidOf(d) : d \in ok}
    IN /\ srv' = [d \in Disks |-> IF d \in ok THEN pidOf(d)
                                 ELSE IF d \in D THEN -1 ELSE srv[d]]
       /\ pst' = [p \in Pids |-> IF p \in new THEN "start" ELSE base[p]]
       /\ pdisk' = [p \in Pids |->
                      IF p \in new THEN CHOOSE d \in ok : pidOf(d) = p
                      ELSE pdisk[p]]
       /\ nextPid' = nextPid + k
       /\ UNCHANGED inq

(***************************************************************************)
(* assign_servant() for the records of the disks D, in list order: each   *)
(* fork() returns the next pid.  When ForkCanFail, the k-th fork may fail  *)
(* and assign_servant() calls exit(1) in the inquisitor: the forks before  *)
(* it stand, the inquisitor dies without closing the watchdog and init    *)
(* reaps its zombies.  base is pst as the handler left it before the fork. *)
(***************************************************************************)
Deploy(D, base) ==
  \E k \in (IF ForkCanFail THEN 0..Cardinality(D) ELSE {Cardinality(D)}) :
    LET ok == {d \in D : Rank(d, D) < k}
        pidOf(d) == nextPid + Rank(d, D)
        new == {pidOf(d) : d \in ok}
    IN /\ srv' = [d \in Disks |-> IF d \in ok THEN pidOf(d) ELSE srv[d]]
       /\ pst' = [p \in Pids |->
                    IF p \in new THEN "start"
                    ELSE IF k < Cardinality(D) /\ base[p] = "zombie"
                         THEN "gone"
                    ELSE base[p]]
       /\ pdisk' = [p \in Pids |->
                      IF p \in new THEN CHOOSE d \in ok : pidOf(d) = p
                      ELSE pdisk[p]]
       /\ nextPid' = nextPid + k
       /\ inq' = IF k < Cardinality(D) THEN "died" ELSE inq

\* sigqueue(ppid, sig, ...) from servant p: lost when the inquisitor is gone
\* or the queue is at RLIMIT_SIGPENDING (the return value is not checked)
Enqueue(sig, p) ==
  rtq' = IF inq = "run" /\ QueueLen < SigQueueCap
         THEN [rtq EXCEPT ![sig] = Append(@, p)]
         ELSE rtq

(***************************************************************************)
(* Initial state: Phase A passed, so a quorum of disks answered; make_     *)
(* daemon(), then foreach_servants(SERVANT_DEPLOY) forked one servant per  *)
(* record (pids 1..NumDisks) and watchdog_init() armed the watchdog.  The  *)
(* daemon was started with -W (watchdog_use = 1), the only configuration   *)
(* in which a tickle protects anything.  A fork failing in that first     *)
(* deploy exits in assign_servant before watchdog_init (line 622): no     *)
(* watchdog is armed and the servants forked so far exit on ppid == 1, so *)
(* no state of interest follows and that start is not modelled.           *)
(***************************************************************************)
Init ==
  /\ srv = [d \in Disks |-> d]
  /\ pst = [p \in Pids |-> IF p \in Disks THEN "start" ELSE "unused"]
  /\ pdisk = [p \in Pids |-> IF p \in Disks THEN p ELSE 0]
  /\ phow = [p \in Pids |-> "none"]
  /\ pseen = [p \in Pids |-> "none"]
  /\ nextPid = NumDisks + 1
  /\ rtq = [s \in RtSigs |-> <<>>]
  /\ usr1 = FALSE
  /\ inq = "run"
  /\ exiting = FALSE
  /\ reports = [i \in Disks |-> 0]
  /\ hasNew \in BOOLEAN
  /\ wd = "armed"
  /\ mbox = [d \in Disks |-> "none"]
  /\ diskOk \in {f \in [Disks -> BOOLEAN] :
                   Cardinality({d \in Disks : f[d]}) >= Quorum}
  /\ node = "up"
  /\ crashes = 0 /\ msgs = 0 /\ usr1Sent = 0
  /\ tickledBy = "none"
  /\ heard = {}

(***************************************************************************)
(* Servant p (servant() with SERVANT_DO_FULLJOB).  Each action requires    *)
(* the node to be up: after do_reset() or do_off() nothing runs.           *)
(***************************************************************************)
SrvVars == <<srv, nextPid, usr1, inq, exiting, reports, hasNew, wd, diskOk,
             crashes, msgs, usr1Sent, heard>>

\* open(), BLKSSZGET, slot_allocate() and the mbox_write() of a zeroed
\* sector, which clears the slot; any of them failing returns -1 and
\* assign_servant() exits with status 1.
SrvStart(p) ==
  /\ node = "up" /\ pst[p] = "start"
  /\ LET d == pdisk[p] IN
       IF diskOk[d]
       THEN /\ mbox' = [mbox EXCEPT ![d] = "none"]
            /\ pst' = [pst EXCEPT ![p] = "read"]
            /\ UNCHANGED phow
       ELSE /\ pst' = [pst EXCEPT ![p] = ExitState]
            /\ phow' = [phow EXCEPT ![p] = "exit"]
            /\ UNCHANGED mbox
  /\ tickledBy' = "none"
  /\ UNCHANGED <<SrvVars, pdisk, pseen, rtq, node>>

\* One pass of the main loop up to the mailbox read: exit(0) when the
\* parent is gone (getppid() == 1), do_reset() when mbox_read() fails.
SrvRead(p) ==
  /\ node = "up" /\ pst[p] = "read"
  /\ SleepOutlastsHandling /\ inq = "run" =>
       \A s \in RtSigs : \A i \in DOMAIN rtq[s] : rtq[s][i] # p
  /\ LET d == pdisk[p] IN
       CASE inq # "run" ->
              /\ pst' = [pst EXCEPT ![p] = ExitState]
              /\ phow' = [phow EXCEPT ![p] = "exit"]
              /\ UNCHANGED <<pseen, node>>
         [] inq = "run" /\ ~diskOk[d] ->
              /\ node' = "reset"
              /\ UNCHANGED <<pst, phow, pseen>>
         [] OTHER ->
              /\ pseen' = [pseen EXCEPT ![p] = mbox[d]]
              /\ pst' = [pst EXCEPT ![p] = "dispatch"]
              /\ UNCHANGED <<phow, node>>
  /\ tickledBy' = "none"
  /\ UNCHANGED <<SrvVars, pdisk, rtq, mbox>>

\* The switch on s_mbox->cmd.  SBD_MSG_TEST clears the slot (the write's
\* result is ignored) and queues SIG_TEST; SBD_MSG_EXIT queues SIG_EXITREQ.
SrvDispatch(p) ==
  /\ node = "up" /\ pst[p] = "dispatch"
  /\ LET d == pdisk[p]
         c == pseen[p]
     IN CASE c = "reset" -> node' = "reset" /\ UNCHANGED <<pst, rtq, mbox>>
          [] c = "off" -> node' = "off" /\ UNCHANGED <<pst, rtq, mbox>>
          [] c = "test" ->
               /\ mbox' = IF diskOk[d] THEN [mbox EXCEPT ![d] = "none"]
                          ELSE mbox
               /\ Enqueue("TEST", p)
               /\ pst' = [pst EXCEPT ![p] = "report"]
               /\ UNCHANGED node
          [] c = "exit" ->
               /\ Enqueue("EXITREQ", p)
               /\ pst' = [pst EXCEPT ![p] = "report"]
               /\ UNCHANGED <<mbox, node>>
          [] c = "unknown" ->                      \* default: clear the slot
               /\ mbox' = IF diskOk[d] THEN [mbox EXCEPT ![d] = "none"]
                          ELSE mbox
               /\ pst' = [pst EXCEPT ![p] = "report"]
               /\ UNCHANGED <<rtq, node>>
          [] c = "none" ->
               /\ pst' = [pst EXCEPT ![p] = "report"]
               /\ UNCHANGED <<rtq, mbox, node>>
  /\ pseen' = [pseen EXCEPT ![p] = "none"]    \* re-read before next use
  /\ tickledBy' = "none"
  /\ UNCHANGED <<SrvVars, pdisk, phow>>

\* sigqueue(ppid, SIG_LIVENESS, ...) at the end of every pass.
SrvReport(p) ==
  /\ node = "up" /\ pst[p] = "report"
  /\ Enqueue("LIVENESS", p)
  /\ pst' = [pst EXCEPT ![p] = "read"]
  /\ tickledBy' = "none"
  /\ UNCHANGED <<SrvVars, pdisk, phow, pseen, mbox, node>>

(***************************************************************************)
(* The inquisitor's sigwaitinfo() loop.  Linux hands out the lowest-       *)
(* numbered pending signal first: SIGUSR1 (10), SIGCHLD (17), then         *)
(* SIG_LIVENESS, SIG_EXITREQ, SIG_TEST (SIGRTMIN+1..+3), and queued        *)
(* instances of one real-time signal in FIFO order.  A SIGCHLD is pending  *)
(* while a zombie child exists.                                            *)
(***************************************************************************)
NoZombie == \A p \in Pids : pst[p] # "zombie"
Deliverable(sig) ==
  /\ ~usr1 /\ NoZombie /\ rtq[sig] # <<>>
  /\ sig \in {"EXITREQ", "TEST"} => rtq["LIVENESS"] = <<>>
  /\ sig = "TEST" => rtq["EXITREQ"] = <<>>
Pop(sig) == rtq' = [rtq EXCEPT ![sig] = Tail(@)]
InqBusy == node = "up" /\ inq = "run"
Zeroed == [i \in Disks |-> 0]

\* check_all_dead() after the record of a reaped child was cleaned: every
\* record's pid is 0 or sigqueue(pid, 0) fails with ESRCH.
CheckAllDead(records, procs) ==
  \A d \in Disks : records[d] = 0 \/ procs[records[d]] \notin Running \cup {"zombie"}

\* One iteration of the waitpid(-1, &status, WNOHANG) loop of the SIGCHLD
\* branch, reaping zombie p.  When exiting: cleanup_servant_by_pid() and
\* exit(0) once check_all_dead().  Otherwise a normal exit or a SIGKILL
\* clears the record; any other signal restarts the servant on its disk.
ReapChild(p) ==
  /\ InqBusy /\ pst[p] = "zombie"
  /\ LET rec == {d \in Disks : srv[d] = p}     \* lookup_servant_by_pid
         cleaned == [d \in Disks |-> IF d \in rec THEN 0 ELSE srv[d]]
         reaped == [pst EXCEPT ![p] = "gone"]
     IN IF ~exiting /\ phow[p] = "crash"
        THEN Deploy(rec, reaped)               \* restart_servant_by_pid
        ELSE /\ srv' = cleaned
             /\ pst' = reaped
             /\ inq' = IF exiting /\ CheckAllDead(cleaned, reaped) THEN "exited" ELSE inq
             /\ UNCHANGED <<pdisk, nextPid>>
  /\ phow' = [phow EXCEPT ![p] = "none"]      \* the status is consumed
  /\ tickledBy' = "none"
  /\ UNCHANGED <<pseen, rtq, usr1, exiting, reports, hasNew, wd, mbox,
                 diskOk, node, crashes, msgs, usr1Sent, heard>>

\* Mutation of QuorumReached: i >= expect_report / 2.
QuorumReachedOffByOne(filled) ==
  LET zeros == {i \in Disks : filled[i] = 0}
  IN zeros # {} /\ MinOf(zeros) - 1 >= Quorum - 1

\* The test of the second loop: the first 0 entry of the filled array has
\* at least expect_report/2+1 entries before it.
QuorumReached(filled) ==
  LET zeros == {i \in Disks : filled[i] = 0}
  IN zeros # {} /\ MinOf(zeros) - 1 >= Quorum

\* Mutation of ReportsAfter: the memset() after the tickle is missing.
ReportsAfterNoMemset(filled, tickle) == filled

\* reports after the second loop: zeroed by the memset() after a tickle.
ReportsAfter(filled, tickle) == IF tickle THEN Zeroed ELSE filled

\* The SIG_LIVENESS branch.  The first loop finds the first entry holding
\* the sender's pid or 0 and fills a 0 with the pid; when neither exists
\* has_new keeps whatever it held.  The second loop finds the first 0
\* entry: if at least expect_report/2+1 entries precede it, the watchdog is
\* tickled and reports is zeroed.
HandleLiveness ==
  /\ InqBusy /\ Deliverable("LIVENESS")
  /\ LET pid == Head(rtq["LIVENESS"])
         hits == {i \in Disks : reports[i] \in {pid, 0}}
         fresh == hits # {} /\ reports[MinOf(hits)] = 0
         filled == IF fresh THEN [reports EXCEPT ![MinOf(hits)] = pid]
                   ELSE reports
         hn == IF hits = {} THEN hasNew ELSE fresh
         tickle == hn /\ QuorumReached(filled)
     IN /\ Pop("LIVENESS")
        /\ IF exiting
           THEN /\ tickledBy' = "none"
                /\ UNCHANGED <<reports, hasNew, heard>>
           ELSE /\ hasNew' = hn
                /\ reports' = ReportsAfter(filled, tickle)
                /\ tickledBy' = IF tickle THEN "liveness" ELSE "none"
                /\ heard' = IF tickle THEN {}
                            ELSE IF fresh THEN heard \cup {pdisk[pid]}
                            ELSE heard
  /\ UNCHANGED <<srv, pst, pdisk, phow, pseen, nextPid, usr1, inq, exiting, wd,
                 mbox, diskOk, node, crashes, msgs, usr1Sent>>

\* Mutation of CallbackVictims: SIGTERM instead of SIGKILL, which every
\* servant blocks, so none dies.
CallbackVictimsSigterm == {}

\* The servants foreach_servants(SERVANT_CALLBACK) sends SIGKILL to: those
\* whose record pid is set and for which sigqueue(pid, 0) succeeds; a
\* zombie is already dead, so only live ones die of it.
CallbackVictims == {srv[d] : d \in {e \in Disks : srv[e] # 0 /\ Alive(srv[e])}}

\* The SIG_EXITREQ branch: foreach_servants(SERVANT_CALLBACK) SIGKILLs every
\* servant that still exists, watchdog_close() does the magic close.
HandleExitReq ==
  /\ InqBusy /\ Deliverable("EXITREQ")
  /\ Pop("EXITREQ")
  /\ LET victims == CallbackVictims
     IN /\ pst' = [p \in Pids |-> IF p \in victims THEN "zombie" ELSE pst[p]]
        /\ phow' = [p \in Pids |-> IF p \in victims THEN "kill" ELSE phow[p]]
  /\ wd' = "closed"
  /\ exiting' = TRUE
  /\ tickledBy' = "none"
  /\ UNCHANGED <<srv, pdisk, pseen, nextPid, usr1, inq, reports, hasNew, mbox,
                 diskOk, node, crashes, msgs, usr1Sent, heard>>

\* The SIG_TEST branch does nothing.
HandleTest ==
  /\ InqBusy /\ Deliverable("TEST")
  /\ Pop("TEST")
  /\ tickledBy' = "none"
  /\ UNCHANGED <<srv, pst, pdisk, phow, pseen, nextPid, usr1, inq, exiting,
                 reports, hasNew, wd, mbox, diskOk, node, crashes, msgs,
                 usr1Sent, heard>>

\* Mutation of DeployTargets: a zombie counts as gone.
DeployTargetsAliveOnly == {d \in Disks : srv[d] = 0 \/ ~Alive(srv[d])}

\* The records foreach_servants(SERVANT_DEPLOY) forks for: pid 0, or
\* sigqueue(pid, 0) fails with ESRCH.
DeployTargets == {d \in Disks : srv[d] = 0 \/ ~Exists(srv[d])}

\* The SIGUSR1 branch: unless exiting, tickle, foreach_servants(
\* SERVANT_DEPLOY) forks a servant for every record whose pid is 0 or no
\* longer exists, zero reports, tickle again.
HandleUsr1 ==
  /\ InqBusy /\ usr1
  /\ usr1' = FALSE
  /\ IF exiting
     THEN /\ tickledBy' = "none"
          /\ UNCHANGED <<srv, pst, pdisk, nextPid, inq, reports, heard>>
     ELSE /\ Deploy(DeployTargets, pst)
          /\ reports' = Zeroed
          /\ heard' = {}
          /\ tickledBy' = "usr1"
  /\ UNCHANGED <<phow, pseen, rtq, exiting, hasNew, wd, mbox, diskOk, node,
                 crashes, msgs, usr1Sent>>

(***************************************************************************)
(* Environment.                                                            *)
(***************************************************************************)
EnvVars == <<srv, pdisk, pseen, nextPid, rtq, inq, exiting, reports, hasNew,
             wd, node, heard>>

\* A servant dies of SIGSEGV, SIGBUS, SIGILL or SIGFPE, the signals it does
\* not block.
Crash(p) ==
  /\ node = "up" /\ Alive(p) /\ crashes < MaxCrash
  /\ pst' = [pst EXCEPT ![p] = ExitState]
  /\ phow' = [phow EXCEPT ![p] = "crash"]
  /\ crashes' = crashes + 1
  /\ tickledBy' = "none"
  /\ UNCHANGED <<EnvVars, usr1, mbox, diskOk, msgs, usr1Sent>>

\* Disk d stops answering: from now on every open, read and write fails.
DiskFail(d) ==
  /\ node = "up" /\ diskOk[d]
  /\ Cardinality({e \in Disks : ~diskOk[e]}) < MaxDiskFail
  /\ diskOk' = [diskOk EXCEPT ![d] = FALSE]
  /\ tickledBy' = "none"
  /\ UNCHANGED <<EnvVars, pst, phow, usr1, mbox, crashes, msgs, usr1Sent>>

\* A peer's slot_msg() writes command c into this node's slot on disk d.
PeerWrite(d, c) ==
  /\ node = "up" /\ diskOk[d] /\ msgs < MaxMsgs
  /\ mbox' = [mbox EXCEPT ![d] = c]
  /\ msgs' = msgs + 1
  /\ tickledBy' = "none"
  /\ UNCHANGED <<EnvVars, pst, phow, usr1, diskOk, crashes, usr1Sent>>

\* The operator sends SIGUSR1 (a pending SIGUSR1 absorbs a second one).
SendUsr1 ==
  /\ node = "up" /\ inq = "run" /\ usr1Sent < MaxUsr1
  /\ usr1' = TRUE
  /\ usr1Sent' = usr1Sent + 1
  /\ tickledBy' = "none"
  /\ UNCHANGED <<EnvVars, pst, phow, mbox, diskOk, crashes, msgs>>

\* The node has rebooted or powered off, or the inquisitor is gone and so
\* are its servants: nothing of this system runs any more.
Halted ==
  node # "up" \/ (inq # "run" /\ \A p \in Pids : ~Alive(p))
Terminated == Halted /\ UNCHANGED vars

Servant(p) == SrvStart(p) \/ SrvRead(p) \/ SrvDispatch(p) \/ SrvReport(p)

Inquisitor ==
  \/ \E p \in Pids : ReapChild(p)
  \/ HandleLiveness \/ HandleExitReq \/ HandleTest \/ HandleUsr1

Environment ==
  \/ \E p \in Pids : Crash(p)
  \/ \E d \in Disks : DiskFail(d)
  \/ \E d \in Disks, c \in PeerCmds : PeerWrite(d, c)
  \/ SendUsr1

Next ==
  \/ \E p \in Pids : Servant(p)
  \/ Inquisitor
  \/ Environment
  \/ Terminated

(***************************************************************************)
(* Fairness.  A servant's loop is driven by sleep(timeout_loop), which     *)
(* always returns: each servant step is weakly fair.  The inquisitor waits *)
(* in sigwaitinfo() and handles a signal in far less than timeout_loop;    *)
(* a signal outranked by others is only intermittently deliverable, so     *)
(* its handler is strongly fair.  Crashes, disk failures, peers and the    *)
(* operator are not fair: they may never act.                              *)
(***************************************************************************)
Fairness ==
  /\ \A p \in Pids : WF_vars(Servant(p))
  /\ WF_vars(\E p \in Pids : ReapChild(p))
  /\ SF_vars(HandleLiveness) /\ SF_vars(HandleExitReq)
  /\ SF_vars(HandleTest) /\ SF_vars(HandleUsr1)

Spec == Init /\ [][Next]_vars /\ Fairness

-----------------------------------------------------------------------------
(***************************************************************************)
(* Properties.                                                             *)
(***************************************************************************)
TypeOK ==
  /\ srv \in [Disks -> 0..MaxPid]
  /\ pst \in [Pids -> Running \cup {"unused", "zombie", "gone"}]
  /\ pdisk \in [Pids -> 0..NumDisks]
  /\ phow \in [Pids -> {"none", "exit", "crash", "kill"}]
  /\ pseen \in [Pids -> Cmds]
  /\ nextPid \in 1..MaxPid + 1
  /\ rtq \in [RtSigs -> Seq(Pids)]
  /\ usr1 \in BOOLEAN /\ exiting \in BOOLEAN /\ hasNew \in BOOLEAN
  /\ inq \in {"run", "exited", "died"}
  /\ reports \in [Disks -> 0..MaxPid]
  /\ wd \in {"armed", "closed"}
  /\ mbox \in [Disks -> Cmds]
  /\ diskOk \in [Disks -> BOOLEAN]
  /\ node \in {"up", "reset", "off"}
  /\ tickledBy \in {"none", "liveness", "usr1"}
  /\ heard \subseteq Disks

\* The reports array with its two loops is a set of reporter pids with a
\* quorum threshold: every SIG_LIVENESS step adds a new pid below the
\* quorum, or tickles and empties the set when the pid completes it, or
\* leaves the set alone without tickling; only SIGUSR1 tickles otherwise.
QR == INSTANCE QuorumReport
        WITH Reporters <- Pids, reported <- {reports[i] : i \in Disks} \ {0}
QuorumReportRefined == QR!Spec

\* A tickle driven by SIG_LIVENESS stands for a majority of the configured
\* disks (spec: "a majority of distinct servants", "never tickle on behalf
\* of a dead or silent fleet"): since the previous tickle, servants of at
\* least expect_report/2+1 distinct disks had their liveness accepted.
QuorumOfDisks ==
  [][tickledBy' = "liveness" =>
       Cardinality(heard \cup {pdisk[Head(rtq["LIVENESS"])]}) >= Quorum]_vars

\* The servant list tracks the children exactly: while the inquisitor
\* runs, every servant process that still exists (running or an unreaped
\* zombie) is the one its disk's record names, so a disk never has two
\* servants and every SIGCHLD finds its record; and exit(0) comes only
\* once no child exists any more (check_all_dead()).
ChildrenTracked ==
  /\ inq = "run" => \A p \in Pids : Exists(p) => srv[pdisk[p]] = p
  /\ inq = "exited" => \A p \in Pids : ~Exists(p)

\* As long as the node is up, the inquisitor runs and no exit was
\* requested, the watchdog keeps being tickled by servant liveness.
TickleProgress == []<>(tickledBy = "liveness" \/ exiting \/ Halted)

\* Once SIG_EXITREQ has been handled, the inquisitor eventually exits (or
\* the node goes down): servants are killed, reaped, and exit(0) follows.
ExitCompletes == exiting ~> (inq # "run" \/ node # "up")

\* A RESET written into this node's slot is never erased by the node
\* itself before a servant acted on it: only a peer's later write replaces
\* it (spec 4.2: after timeout_msgwait the recipient has observed it).
ResetNotLost ==
  [][\A d \in Disks : mbox[d] = "reset" /\ mbox'[d] # "reset" => msgs' # msgs]_vars

=============================================================================
