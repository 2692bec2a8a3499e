---------------------------- MODULE QuorumReport ----------------------------
(***************************************************************************)
(* What the inquisitor's report set promises (src/lib/stonith/sbd-md.c,   *)
(* the SIG_LIVENESS and SIGUSR1 branches of inquisitor()): it is a set of  *)
(* reporter pids; a pid not yet in it is added, and the watchdog is        *)
(* tickled and the set emptied exactly when the addition brings it to a    *)
(* quorum.  The operator's SIGUSR1 tickles and empties it unconditionally. *)
(***************************************************************************)
EXTENDS Naturals, FiniteSets

CONSTANTS Reporters, Quorum

VARIABLES reported, tickledBy

\* A new reporter below the quorum is remembered.
Accept(p) ==
  /\ p \notin reported /\ Cardinality(reported) + 1 < Quorum
  /\ reported' = reported \cup {p}
  /\ tickledBy' = "none"

\* A new reporter completes the quorum: tickle and start afresh.
AcceptAndTickle(p) ==
  /\ p \notin reported /\ Cardinality(reported) + 1 >= Quorum
  /\ reported' = {}
  /\ tickledBy' = "liveness"

\* The operator's restart.
OperatorRestart ==
  /\ reported' = {}
  /\ tickledBy' = "usr1"

\* Any other step leaves the set alone and does not tickle.
Quiet ==
  /\ UNCHANGED reported
  /\ tickledBy' = "none"

Init == reported = {} /\ tickledBy = "none"

Next ==
  \/ \E p \in Reporters : Accept(p) \/ AcceptAndTickle(p)
  \/ OperatorRestart
  \/ Quiet

Spec == Init /\ [][Next]_<<reported, tickledBy>>
=============================================================================
