----------------------------- MODULE SbdStartup -----------------------------
(***************************************************************************)
(* Startup validation of the multi-disk SBD daemon (Phase A of            *)
(* inquisitor() in src/lib/stonith/sbd-md.c): one SERVANT_PREPARE_ONLY     *)
(* child per disk, the SIGCHLD loop that counts the children exiting 0 and *)
(* compares each good disk's header timeouts with the ones read before,    *)
(* and the decision to daemonize or refuse.                                *)
(***************************************************************************)
EXTENDS Integers, FiniteSets

CONSTANTS
  NumDisks,     \* number of -d options
  Triples,      \* header timeout triples the disks may carry
  Default,      \* the triple from the command line (-1, -3, -4) or defaults
  MaxLateFail   \* bound on disks failing after their child exited 0

Disks == 1..NumDisks
Quorum == NumDisks \div 2 + 1          \* servant_count / 2 + 1
Triple == [watchdog : Nat, loop : Nat, msgwait : Nat]

ASSUME Triples \subseteq Triple /\ Default \in Triple

VARIABLES
  child,        \* child[d]: "running", "exited" or "reaped"
  code,         \* code[d]: exit status of the child of disk d
  header,       \* header[d]: the timeout triple in disk d's header
  diskOk,       \* diskOk[d]: disk d answers I/O
  timeouts,     \* globals timeout_watchdog, timeout_loop, timeout_msgwait
  good,         \* good_servant
  finished,     \* servant_finished
  inconsistent, \* inconsistent
  phase,        \* "wait", "daemon", "refused" (return -1), "died" (exit(1))
  lateFails     \* environment budget

vars == <<child, code, header, diskOk, timeouts, good, finished,
          inconsistent, phase, lateFails>>

\* The disks' headers and health are whatever they are; the command line
\* timeouts are in the globals; every record got a PREPARE_ONLY child.
Init ==
  /\ child = [d \in Disks |-> "running"]
  /\ code = [d \in Disks |-> 0]
  /\ header \in [Disks -> Triples]
  /\ diskOk \in [Disks -> BOOLEAN]
  /\ timeouts = Default
  /\ good = 0 /\ finished = 0 /\ inconsistent = FALSE
  /\ phase = "wait"
  /\ lateFails = 0

\* Mutation of ExitCode: assign_servant() passes rc to exit() unmapped.
ExitCodeRaw(ok) == IF ok THEN 0 ELSE 255

\* What assign_servant() exits with: servant() returned -1 or not.
ExitCode(ok) == IF ok THEN 0 ELSE 1

\* servant(..., SERVANT_PREPARE_ONLY): open, sector size, slot_allocate()
\* and the mailbox clear succeed exactly when the disk answers.
ChildExit(d) ==
  /\ child[d] = "running"
  /\ child' = [child EXCEPT ![d] = "exited"]
  /\ code' = [code EXCEPT ![d] = ExitCode(diskOk[d])]
  /\ UNCHANGED <<header, diskOk, timeouts, good, finished, inconsistent,
                 phase, lateFails>>

\* Mutation of Differ: only timeout_loop is compared.
DifferLoopOnly(old, new) == old.loop # new.loop

\* check_timeout_inconsistent(): differ is whether the triple header_read()
\* leaves in the globals differs from the one before it.
Differ(old, new) ==
  \/ old.loop # new.loop
  \/ old.watchdog # new.watchdog
  \/ old.msgwait # new.msgwait

\* One iteration of the waitpid() loop: clean the record, count the child
\* as finished, and when it exited 0 count it good and re-read its disk's
\* header: a disk that no longer opens makes the inquisitor exit(1); a
\* differing triple is inconsistent unless it is the first good disk, a
\* matching one sets inconsistent back to 0.
Reap(d) ==
  /\ phase = "wait" /\ child[d] = "exited"
  /\ child' = [child EXCEPT ![d] = "reaped"]
  /\ finished' = finished + 1
  /\ IF code[d] = 0
     THEN /\ good' = good + 1
          /\ IF diskOk[d]
             THEN /\ timeouts' = header[d]
                  /\ inconsistent' = (Differ(timeouts, header[d]) /\ good' # 1)
                  /\ UNCHANGED phase
             ELSE /\ phase' = "died"
                  /\ UNCHANGED <<timeouts, inconsistent>>
     ELSE UNCHANGED <<good, timeouts, inconsistent, phase>>
  /\ UNCHANGED <<code, header, diskOk, lateFails>>

\* Mutation of QuorumOk: good_servant >= servant_count / 2.
QuorumOkOffByOne(g) == g >= NumDisks \div 2

\* good_servant >= servant_count / 2 + 1
QuorumOk(g) == g >= Quorum

\* The checks after the loop: a quorum of good children, and consistency.
Decide ==
  /\ phase = "wait" /\ finished = NumDisks
  /\ phase' = IF QuorumOk(good) /\ ~inconsistent THEN "daemon" ELSE "refused"
  /\ UNCHANGED <<child, code, header, diskOk, timeouts, good, finished,
                 inconsistent, lateFails>>

\* A disk stops answering after its child has prepared it.
LateFail(d) ==
  /\ diskOk[d] /\ child[d] # "running" /\ lateFails < MaxLateFail
  /\ diskOk' = [diskOk EXCEPT ![d] = FALSE]
  /\ lateFails' = lateFails + 1
  /\ UNCHANGED <<child, code, header, timeouts, good, finished, inconsistent,
                 phase>>

Done == phase # "wait" /\ UNCHANGED vars

Next ==
  \/ \E d \in Disks : ChildExit(d) \/ Reap(d) \/ LateFail(d)
  \/ Decide
  \/ Done

\* Children run to completion and the inquisitor handles every SIGCHLD.
Spec == Init /\ [][Next]_vars
          /\ \A d \in Disks : WF_vars(ChildExit(d)) /\ WF_vars(Reap(d))
          /\ WF_vars(Decide)

-----------------------------------------------------------------------------
TypeOK ==
  /\ child \in [Disks -> {"running", "exited", "reaped"}]
  /\ code \in [Disks -> {0, 1}]
  /\ header \in [Disks -> Triples] /\ diskOk \in [Disks -> BOOLEAN]
  /\ timeouts \in Triples \cup {Default}
  /\ good \in 0..NumDisks /\ finished \in 0..NumDisks
  /\ inconsistent \in BOOLEAN
  /\ phase \in {"wait", "daemon", "refused", "died"}

\* The daemon only starts when more than half of the configured disks
\* were prepared by their child (spec 4.5: good >= N/2 + 1).
StartupQuorum ==
  phase = "daemon" =>
    Cardinality({d \in Disks : code[d] = 0}) >= Quorum

\* The daemon only starts when all good disks carry the same timeouts, and
\* those are the ones it adopted (spec 3 I4, 8: "if any two disks disagree
\* on the timeout triple, startup returns BadConfig").
HeaderConsistency ==
  phase = "daemon" =>
    \A d \in Disks : code[d] = 0 => header[d] = timeouts

=============================================================================
