------------------------------- MODULE MCDrac3 -------------------------------
(* Model-checking instance of Drac3: every request code, allocation        *)
(* failures enabled, and enough calls for a configure, a failed            *)
(* reconfigure, two requests and a destroy on one object.                  *)
EXTENDS Drac3

MCRequests == {"poweron", "poweroff", "reset", "other"}
MCMaxCalls == 5
=============================================================================
