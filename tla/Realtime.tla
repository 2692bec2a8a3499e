------------------------------ MODULE Realtime ------------------------------
(***************************************************************************)
(* make_realtime() of src/lib/clplumbing/realtime.c as an operator on the  *)
(* calling process's state: its scheduling policy and priority, whether it *)
(* is locked in memory, and the file's realtimepermitted flag.  The OS     *)
(* calls are given by their outcome: sched_getscheduler() failing,         *)
(* sched_setscheduler() refused for want of privilege, mlockall() failing. *)
(* Like the kernel, sched_setscheduler() refuses a priority outside the    *)
(* policy's range.  The HAVE_USABLE_BRK block (lines 69-89) only tries to  *)
(* pre-grow the heap and logs any failure; nothing else in sbd reads the   *)
(* break, so it is left out, heapgrowK with it.                            *)
(***************************************************************************)
EXTENDS Integers

SCHED_OTHER == 0
SCHED_FIFO == 1
SCHED_RR == 2
DEFAULT_REALTIME == SCHED_RR          \* SCHED_RR is defined on Linux

\* Linux's static priority range of each policy.
sched_get_priority_min(p) == IF p = SCHED_OTHER THEN 0 ELSE 1
sched_get_priority_max(p) == IF p = SCHED_OTHER THEN 0 ELSE 99

\* sched_setscheduler()'s EINVAL test.
Admits(p, prio) ==
  prio >= sched_get_priority_min(p) /\ prio <= sched_get_priority_max(p)

\* The outcomes of the OS calls make_realtime() makes.
OsOutcomes == [getFails : BOOLEAN, setDenied : BOOLEAN, lockFails : BOOLEAN]

\* A process as exec() leaves it: SCHED_OTHER, priority 0, nothing locked,
\* realtimepermitted initialised TRUE.
NormalProc == [policy |-> SCHED_OTHER, prio |-> 0, locked |-> FALSE,
               permitted |-> TRUE]

\* Lines 40-42: a policy <= 0 means the default realtime policy.
Policy(spolicy) == IF spolicy <= 0 THEN DEFAULT_REALTIME ELSE spolicy

\* Mutation of ClampPriority: the test against the maximum dropped.
ClampPriorityNoMax(p, priority) ==
  IF priority <= 0 THEN sched_get_priority_min(p) ELSE priority

\* Lines 44-50: a priority <= 0 becomes the policy's minimum, one above
\* its maximum the maximum.
ClampPriority(p, priority) ==
  LET lo == IF priority <= 0 THEN sched_get_priority_min(p) ELSE priority
  IN  IF lo > sched_get_priority_max(p) THEN sched_get_priority_max(p) ELSE lo

\* make_realtime(spolicy, priority, heapgrowK) on process proc with OS
\* outcomes os: ignored unless realtime is permitted; otherwise the
\* scheduler is set when sched_getscheduler() succeeds and the kernel
\* accepts the call, and mlockall(MCL_FUTURE) locks the process unless it
\* fails.  Each failure is only logged.  heapgrowK only feeds the brk()
\* block, which is not modelled.
make_realtime(proc, spolicy, priority, heapgrowK, os) ==
  IF ~proc.permitted THEN proc
  ELSE LET pol  == Policy(spolicy)
           prio == ClampPriority(pol, priority)
           set  == ~os.getFails /\ ~os.setDenied /\ Admits(pol, prio)
       IN  [proc EXCEPT !.policy = IF set THEN pol ELSE @,
                        !.prio   = IF set THEN prio ELSE @,
                        !.locked = @ \/ ~os.lockFails]
=============================================================================
