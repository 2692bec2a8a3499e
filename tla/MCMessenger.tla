---------------------------- MODULE MCMessenger ----------------------------
(* Model-checking instance of SbdMessenger.                                *)
EXTENDS SbdMessenger

\* make_realtime() asked for the default policy and priority, and for
\* SCHED_FIFO at a priority above its maximum.
MCRtArgs == {<<0, 0, 256>>, <<SCHED_FIFO, 100, -1>>}

\* Every OS call succeeds; the scheduler cannot be read; setting it is
\* refused; mlockall() fails.
MCOsCases ==
  {[getFails |-> g, setDenied |-> d, lockFails |-> b] :
     <<g, d, b>> \in {<<FALSE, FALSE, FALSE>>, <<TRUE, FALSE, FALSE>>,
                      <<FALSE, TRUE, FALSE>>, <<FALSE, FALSE, TRUE>>}}
=============================================================================
