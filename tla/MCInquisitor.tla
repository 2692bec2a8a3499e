--------------------------- MODULE MCInquisitor ---------------------------
(* Model-checking instance of SbdInquisitor: three disks (quorum two).    *)
(* A peer command "unknown" stands for a torn or foreign message.        *)
EXTENDS SbdInquisitor

MCPeerCmds == {"test", "exit"}
MCSafetyCmds == {"test", "exit", "unknown"}
MCExitCmd == {"exit", "reset", "off"}
MCResetCmds == {"test", "reset"}
=============================================================================
