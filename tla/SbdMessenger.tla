---------------------------- MODULE SbdMessenger ----------------------------
(***************************************************************************)
(* The one-shot subcommands main() of src/lib/stonith/sbd-md.c dispatches. *)
(* messenger() ("message") and ping_via_slots() ("ping") write to a peer's *)
(* slot through every disk: the parent blocks SIGCHLD, forks one child per *)
(* disk with assign_servant(), then waits with sigwaitinfo() and reaps the *)
(* children.  SIGCHLD is a standard signal: several child exits leave one  *)
(* pending instance.  init_devices() ("create"), dump_headers() ("dump"),  *)
(* list_slots() ("list") and allocate_slots() ("allocate") walk the disks  *)
(* in order in the process itself and return -1 at the first disk whose    *)
(* open or slot-layer operation fails.  main() first parses the options: *)
(* each -d appends a servant record with recruit_servant() (a device given *)
(* twice gives two records), -h and an unknown option end the parsing.     *)
(* Before the subcommand it calls maximize_priority(), which, unless -R   *)
(* was given, makes the process realtime with make_realtime() (Realtime).  *)
(* It then turns the subcommand's result into the exit status.             *)
(***************************************************************************)
EXTENDS Integers, SequencesExt, Realtime

CONSTANTS
  Devices,      \* the block devices a -d option may name
  MaxOpts,      \* bound on the number of options before the subcommand
  Cmds,         \* argv[optind]: a subcommand, "other" or "none" (absent)
  ForkCanFail,  \* whether fork() may fail
  RtArgs,       \* <<spolicy, priority, heapgrowK>> maximize_priority() may pass
  OsCases       \* the outcomes of make_realtime()'s OS calls

\* The subcommands that walk the disks without forking.
DiskCmds == {"create", "dump", "list", "allocate"}

\* The options that change what this module models: -d <dev>, -R, -h, and
\* an option getopt() rejects.  The others only set globals (timeouts, node
\* name, watchdog, daemon, debug) that no action here reads.
Opts == {[o |-> "d", arg |-> v] : v \in Devices}
          \cup {[o |-> x, arg |-> "none"] : x \in {"R", "h", "bad"}}

ASSUME ForkCanFail \in BOOLEAN /\ MaxOpts \in Nat
       /\ RtArgs \subseteq Int \X Int \X Int /\ OsCases \subseteq OsOutcomes
       /\ Cmds \subseteq {"message", "ping", "other", "none"} \cup DiskCmds

VARIABLES
  opts,       \* the options of argv, in order
  cmd,        \* argv[optind]
  servants,   \* the servant list: servants[r] is record r's devname
  child,      \* child[d]: "unforked", "writing", "waiting", "zombie", "reaped"
  code,       \* code[d]: exit status of disk d's child
  diskOk,     \* diskOk[v]: open_device() and the slot operation succeed on v
  written,    \* written[v]: the operation took effect on device v
  chld,       \* SIGCHLD pending
  pc,         \* parent: "getopt", "fork", "wait", "drain", "loop", "done"
  forked,     \* records given a child (or walked) so far, in list order
  finished,   \* servant_finished
  delivered,  \* successed_delivery
  status,     \* exit status of the sbd process once pc = "done"
  proc,       \* the sbd process's scheduling and memory state (Realtime)
  rt          \* history: the make_realtime() call made, and its OS outcomes

vars == <<opts, cmd, servants, proc, rt, child, code, diskOk, written, chld, pc, forked, finished,
          delivered, status>>

\* No make_realtime() call was made yet.
NoRt == [called |-> FALSE, skip |-> FALSE, spolicy |-> 0,
         os |-> [getFails |-> FALSE, setDenied |-> FALSE, lockFails |-> FALSE]]

\* Records and quorum of the servant list.
Disks == 1..Len(servants)
Quorum == Len(servants) \div 2 + 1     \* servant_count / 2 + 1

\* main() is entered with exit_status = 0 and an empty servant list.
Init ==
  /\ opts \in BoundedSeq(Opts, MaxOpts)
  /\ cmd \in Cmds
  /\ servants = <<>> /\ child = <<>> /\ code = <<>>
  /\ diskOk \in [Devices -> BOOLEAN]
  /\ written = [v \in Devices |-> FALSE]
  /\ chld = FALSE
  /\ pc = "getopt"
  /\ forked = 0 /\ finished = 0 /\ delivered = 0
  /\ status = 0
  /\ proc = NormalProc
  /\ rt = NoRt

\* Mutation of MainExit: exit_status returned as it is.
MainExitRaw(rc) == rc

\* main(): a negative result prints the usage and returns 1.
MainExit(rc) == IF rc < 0 THEN 1 ELSE 0

\* Mutation of recruit_servant: the new record replaces the list.
recruit_servant_overwrite(list, devname) == <<devname>>

\* recruit_servant(): walk to the last record and link the new one after
\* it (or make it the leader); a device already listed is not looked for.
recruit_servant(list, devname) == Append(list, devname)

\* One turn of main()'s getopt() loop on the parse state st: -d recruits a
\* servant, -R sets skip_rt, -h prints the usage and returns 0, an unknown
\* option sets exit_status to -1 and leaves the loop.  Once stopped, no
\* option is read.
Getopt(st, opt) ==
  IF st.stop # "none" THEN st
  ELSE CASE opt.o = "d" -> [st EXCEPT !.list = recruit_servant(@, opt.arg)]
         [] opt.o = "R" -> [st EXCEPT !.skipRt = TRUE]
         [] OTHER       -> [st EXCEPT !.stop = opt.o]

\* What the getopt() loop leaves: the servant list, skip_rt, how it stopped.
Parsed ==
  FoldLeft(Getopt, [list |-> <<>>, skipRt |-> FALSE, stop |-> "none"], opts)

\* maximize_priority(), defined outside src/: spec.md section 6 says -R
\* skips real-time scheduling.  Otherwise it calls make_realtime() with
\* arguments spec.md does not give, one of RtArgs.
maximize_priority(skipRt) ==
  IF skipRt
  THEN UNCHANGED proc /\ rt' = [NoRt EXCEPT !.called = TRUE, !.skip = TRUE]
  ELSE \E a \in RtArgs, os \in OsCases :
         /\ proc' = make_realtime(proc, a[1], a[2], a[3], os)
         /\ rt' = [called |-> TRUE, skip |-> FALSE, spolicy |-> a[1], os |-> os]

\* main() after the getopt() loop: -h returns 0; an unknown option, no
\* argument after the options, or an unknown subcommand end in exit 1;
\* otherwise maximize_priority() runs, then the subcommand on the servant
\* list (an unknown one exits 1 after maximize_priority()).  messenger() and
\* ping_via_slots() with no record skip the fork and wait loops.
Parse ==
  /\ pc = "getopt"
  /\ servants' = Parsed.list
  /\ child' = [d \in 1..Len(Parsed.list) |-> "unforked"]
  /\ code' = [d \in 1..Len(Parsed.list) |-> 0]
  /\ IF Parsed.stop = "none" /\ cmd # "none"
     THEN maximize_priority(Parsed.skipRt)
     ELSE UNCHANGED <<proc, rt>>
  /\ CASE Parsed.stop = "h" -> pc' = "done" /\ status' = 0
       [] Parsed.stop = "bad" \/ cmd \in {"none", "other"} ->
            pc' = "done" /\ status' = MainExit(-1)
       [] cmd \in DiskCmds -> pc' = "loop" /\ UNCHANGED status
       [] Parsed.list = <<>> -> pc' = "wait" /\ UNCHANGED status
       [] OTHER -> pc' = "fork" /\ UNCHANGED status
  /\ UNCHANGED <<opts, cmd, diskOk, written, chld, forked, finished, delivered>>

\* The fork loop: assign_servant() for the next record; a failed fork
\* makes the parent exit(1) at once.
Fork ==
  /\ pc = "fork"
  /\ LET d == forked + 1 IN
     \/ /\ child' = [child EXCEPT ![d] = "writing"]
        /\ forked' = d
        /\ pc' = IF d = Len(servants) THEN "wait" ELSE "fork"
        /\ UNCHANGED status
     \/ /\ ForkCanFail
        /\ pc' = "done" /\ status' = 1
        /\ UNCHANGED <<child, forked>>
  /\ UNCHANGED <<opts, cmd, servants, proc, rt, code, diskOk, written, chld, finished, delivered>>

\* The child: slot_msg_wrapper() (slot_ping_wrapper() for ping) opens the
\* disk and writes the peer's slot; -1 makes assign_servant() exit(1).
ChildWrite(d) ==
  /\ d \in Disks /\ child[d] = "writing"
  /\ IF diskOk[servants[d]]
     THEN /\ written' = [written EXCEPT ![servants[d]] = TRUE]
          /\ child' = [child EXCEPT ![d] = "waiting"]
          /\ UNCHANGED <<code, chld>>
     ELSE /\ child' = [child EXCEPT ![d] = "zombie"]
          /\ code' = [code EXCEPT ![d] = 1]
          /\ chld' = TRUE
          /\ UNCHANGED written
  /\ UNCHANGED <<opts, cmd, servants, proc, rt, diskOk, pc, forked, finished, delivered, status>>

\* After the write slot_msg() sleeps msgwait and returns 0: exit(0).
ChildExit(d) ==
  /\ d \in Disks /\ child[d] = "waiting"
  /\ child' = [child EXCEPT ![d] = "zombie"]
  /\ chld' = TRUE
  /\ UNCHANGED <<opts, cmd, servants, proc, rt, code, diskOk, written, pc, forked, finished, delivered,
                 status>>

\* sigwaitinfo() while servant_finished < servant_count.
Wait ==
  /\ pc = "wait" /\ finished < Len(servants) /\ chld
  /\ chld' = FALSE
  /\ pc' = "drain"
  /\ UNCHANGED <<opts, cmd, servants, proc, rt, child, code, diskOk, written, forked, finished, delivered,
                 status>>

Zombies == {d \in Disks : child[d] = "zombie"}
Unreaped == {d \in Disks : child[d] \in {"writing", "waiting", "zombie"}}

\* Mutation of ExitedOk: any exit counts as a delivery.
ExitedOkAny(c) == TRUE

\* WIFEXITED(status) && WEXITSTATUS(status) == 0
ExitedOk(c) == c = 0

\* Mutation of AfterReap: one waitpid() per SIGCHLD.
AfterReapOnce == "wait"

\* After a reap the WNOHANG loop calls waitpid() again.
AfterReap == "drain"

\* messenger(): waitpid(-1, WNOHANG) reaps a child, counts it, and returns
\* 0 as soon as a quorum of children delivered.
MsgReap(d) ==
  /\ cmd = "message" /\ pc = "drain" /\ d \in Zombies
  /\ child' = [child EXCEPT ![d] = "reaped"]
  /\ finished' = finished + 1
  /\ delivered' = delivered + (IF ExitedOk(code[d]) THEN 1 ELSE 0)
  /\ IF delivered' >= Quorum
     THEN pc' = "done" /\ status' = MainExit(0)
     ELSE pc' = AfterReap /\ UNCHANGED status
  /\ UNCHANGED <<opts, cmd, servants, proc, rt, code, diskOk, written, chld, forked>>

\* messenger(): waitpid() returns 0 (no zombie) or -1/ECHILD (no child).
MsgDrainEnd ==
  /\ cmd = "message" /\ pc = "drain" /\ Zombies = {}
  /\ pc' = "wait"
  /\ UNCHANGED <<opts, cmd, servants, proc, rt, child, code, diskOk, written, chld, forked, finished,
                 delivered, status>>

\* ping_via_slots(): the blocking wait() reaps a child and counts it as
\* finished whatever its status.
PingReap(d) ==
  /\ cmd = "ping" /\ pc = "drain" /\ d \in Zombies
  /\ child' = [child EXCEPT ![d] = "reaped"]
  /\ finished' = finished + 1
  /\ UNCHANGED <<opts, cmd, servants, proc, rt, code, diskOk, written, chld, pc, forked, delivered, status>>

\* ping_via_slots(): wait() blocks while a child runs and returns
\* -1/ECHILD once none is left.
PingDrainEnd ==
  /\ cmd = "ping" /\ pc = "drain" /\ Unreaped = {}
  /\ pc' = "wait"
  /\ UNCHANGED <<opts, cmd, servants, proc, rt, child, code, diskOk, written, chld, forked, finished,
                 delivered, status>>

\* Every child finished: messenger() returns 0 or -1 by the count,
\* ping_via_slots() returns 0.
Conclude ==
  /\ pc = "wait" /\ finished = Len(servants)
  /\ pc' = "done"
  /\ status' = IF cmd = "ping" THEN MainExit(0)
               ELSE MainExit(IF delivered >= Quorum THEN 0 ELSE -1)
  /\ UNCHANGED <<opts, cmd, servants, proc, rt, child, code, diskOk, written, chld, forked, finished,
                 delivered>>

\* Mutation of StopsOnError: the `if (rc == -1) return rc' dropped.
StopsOnErrorNever(rc) == FALSE

\* `if (rc == -1) return rc;' after the slot-layer operation.
StopsOnError(rc) == rc = -1

\* One iteration of a disk walk on the next record: open, operate, close.
DiskStep ==
  /\ pc = "loop" /\ forked < Len(servants)
  /\ LET d == forked + 1
         rc == IF diskOk[servants[d]] THEN 0 ELSE -1 IN
     /\ written' = [written EXCEPT ![servants[d]] = diskOk[servants[d]]]
     /\ IF StopsOnError(rc)
        THEN pc' = "done" /\ status' = MainExit(rc) /\ UNCHANGED forked
        ELSE forked' = d /\ UNCHANGED <<pc, status>>
  /\ UNCHANGED <<opts, cmd, servants, proc, rt, child, code, diskOk, chld, finished, delivered>>

\* The list is exhausted: the walk returns 0.
DiskLoopEnd ==
  /\ pc = "loop" /\ forked = Len(servants)
  /\ pc' = "done" /\ status' = MainExit(0)
  /\ UNCHANGED <<opts, cmd, servants, proc, rt, child, code, diskOk, written, chld, forked, finished,
                 delivered>>

Parent ==
  \/ Parse \/ DiskStep \/ DiskLoopEnd \/ Fork \/ Wait \/ MsgDrainEnd \/ PingDrainEnd \/ Conclude
  \/ \E d \in Disks : MsgReap(d) \/ PingReap(d)

Next ==
  \/ Parent
  \/ \E d \in Disks : ChildWrite(d) \/ ChildExit(d)

\* Every process keeps running; the parent is a single process.  The
\* command is one-shot: once the parent has exited and its orphans have
\* finished, no step is left.
Spec == Init /\ [][Next]_vars /\ WF_vars(Parent)
          /\ \A d \in 1..MaxOpts : WF_vars(ChildWrite(d)) /\ WF_vars(ChildExit(d))

-----------------------------------------------------------------------------
TypeOK ==
  /\ opts \in BoundedSeq(Opts, MaxOpts)
  /\ servants \in BoundedSeq(Devices, MaxOpts)
  /\ child \in [Disks -> {"unforked", "writing", "waiting", "zombie", "reaped"}]
  /\ code \in [Disks -> {0, 1}]
  /\ diskOk \in [Devices -> BOOLEAN] /\ written \in [Devices -> BOOLEAN]
  /\ chld \in BOOLEAN
  /\ pc \in {"getopt", "fork", "wait", "drain", "loop", "done"}
  /\ forked \in 0..Len(servants) /\ finished \in 0..Len(servants)
  /\ delivered \in 0..Len(servants)
  /\ cmd \in Cmds
  /\ status \in {0, 1}
  /\ proc \in [policy : {SCHED_OTHER, SCHED_FIFO, SCHED_RR}, prio : 0..99,
               locked : BOOLEAN, permitted : BOOLEAN]
  /\ rt \in [called : BOOLEAN, skip : BOOLEAN, spolicy : Int, os : OsOutcomes]

\* The command always ends: the SIGCHLD handling reaps every child even
\* when several exits share one pending SIGCHLD.
CommandEnds == <>(pc = "done")

\* Read from argv itself: the index of the option that ends getopt()'s
\* loop (past the end if none does), that option, and the devices the -d
\* options before it name.
StopAt == LET i == SelectInSeq(opts, LAMBDA x : x.o \in {"h", "bad"})
          IN IF i = 0 THEN Len(opts) + 1 ELSE i
Stop == IF StopAt > Len(opts) THEN "none" ELSE opts[StopAt].o
Named == {opts[i].arg : i \in {j \in 1..StopAt - 1 : opts[j].o = "d"}}

\* "message" (not cut short by -h) exits 0 only when the message is in the
\* peer's slot on the disks of more than half of the servant records (the
\* messenger's quorum count, one record per -d option): with no -d it
\* exits 1.
DeliveredToQuorum ==
  cmd = "message" /\ Stop # "h" /\ pc = "done" /\ status = 0 =>
    Cardinality({d \in Disks : written[servants[d]]}) >= Quorum

\* spec 6 (CLI), through main()'s option parsing and recruit_servant():
\* -h exits 0; otherwise create, dump, list and allocate exit 0 exactly
\* when their operation took effect on every disk a -d option named, and
\* an unknown option or a missing or unknown subcommand exits 1.
AllOrExitOne ==
  pc = "done" /\ cmd \notin {"message", "ping"} =>
    (status = 0 <=> \/ Stop = "h"
                    \/ Stop = "none" /\ cmd \in DiskCmds
                                    /\ \A v \in Named : written[v])

\* main() calls maximize_priority() before any subcommand.  Without -R the
\* subcommand runs under the realtime policy make_realtime() was asked for
\* (SCHED_RR when asked for none) at a priority that policy admits,
\* whenever the OS let the scheduler be read and set; and it is locked in
\* memory unless mlockall() failed.
RealtimeUnlessSkipped ==
  rt.called /\ ~rt.skip =>
    /\ ~rt.os.getFails /\ ~rt.os.setDenied =>
          /\ proc.policy = IF rt.spolicy <= 0 THEN SCHED_RR ELSE rt.spolicy
          /\ Admits(proc.policy, proc.prio)
    /\ proc.locked = ~rt.os.lockFails
=============================================================================
