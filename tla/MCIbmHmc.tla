------------------------------ MODULE MCIbmHmc ------------------------------
(* Model-checking instance of IbmHmc: the request constants of the STONITH *)
(* API, an HMC with two managed systems of one partition each, and         *)
(* MAX_POWERON_RETRY lowered so that the loop's exhaustion is reached in a *)
(* few steps.                                                              *)
EXTENDS IbmHmc

MCRequests == {"poweron", "poweroff", "reset", "other"}
MCSysOrder == <<"sysA", "sysB">>
MCLparsOf == [s \in {"sysA", "sysB"} |-> IF s = "sysA" THEN <<"lpA">> ELSE <<"lpB">>]
MCMaxPowerOnRetry == 2
=============================================================================
