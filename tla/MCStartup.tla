---------------------------- MODULE MCStartup ----------------------------
(* Model-checking instance of SbdStartup: headers differ in one timeout.  *)
EXTENDS SbdStartup

T5 == [watchdog |-> 5, loop |-> 1, msgwait |-> 10]
T7 == [watchdog |-> 7, loop |-> 1, msgwait |-> 10]
MCTriples == {T5, T7}
MCDefault == T5
=============================================================================
