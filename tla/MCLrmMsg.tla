------------------------------ MODULE MCLrmMsg ------------------------------
(* Model-checking instance of LrmMsg: a CRM_meta_ key, a key that is one   *)
(* character short of the prefix, and an ordinary resource parameter.     *)
EXTENDS LrmMsg

MCKeys == {"CRM_meta_timeout", "CRM_meta", "target_role"}
MCMetaKeys == {"CRM_meta_timeout"}
MCVals == {"started", "stopped"}
=============================================================================
