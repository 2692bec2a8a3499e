-------------------------------- MODULE Drac3 --------------------------------
(***************************************************************************)
(* The Dell DRAC III STONITH plugin (lib/plugins/stonith/drac3.c): one     *)
(* plugin object (struct DRAC3Device) from drac3_new to drac3_destroy,     *)
(* with every plugin operation that changes it.                           *)
(*                                                                         *)
(* The object's pointers are abstracted to what the code can tell apart:   *)
(* a field is NULL, points at a live string, or dangles after FREE (the   *)
(* FREE macro is PluginImports->mfree and does not clear the pointer).     *)
(* The card's HTTPS session (the cookie in the curl handle) is the         *)
(* environment: drac3VerifyLogin, drac3Login, drac3GetSysInfo and          *)
(* drac3PowerCycle live in drac3_command.c and are nondeterministic        *)
(* outcomes here.  Undefined behaviour (freeing a dangling pointer twice,  *)
(* reading a freed host, dereferencing NULL) ends in 'fault', or, where   *)
(* the build may survive it, in a failed card request.                     *)
(***************************************************************************)
EXTENDS Naturals

CONSTANTS
    Requests,      \* request codes passed to drac3_reset_req
    MemCanFail,    \* whether STRDUP, MALLOC and curl_easy_init may fail
    MaxCalls       \* bound on plugin calls made on one object

Fields == {"host", "user", "pass"}

\* The order in which DRAC3_parse_config_info duplicates the fields.
FieldIndex == [host |-> 1, user |-> 2, pass |-> 3]

Ptr == {"null", "live", "freed"}

Results == {"S_OK", "S_OOPS", "S_BADCONFIG", "S_ACCESS", "S_INVAL",
            "list", "NULL", "none"}

Faults == {"none", "double_free", "use_after_free", "null_deref"}

VARIABLES
    obj,      \* "valid" from drac3_new, "destroyed" after drac3_destroy
    field,    \* the host, user and pass pointers
    curl,     \* drac3d->curl: "null" or a "live" handle (ISCONFIGED)
    session,  \* the card holds a login session for this curl handle
    sent,     \* the card command sent in the last step (history)
    call,     \* the last plugin call: operation, result, host power-cycled
    fault,    \* undefined behaviour the process did not survive
    calls     \* number of plugin calls made so far

vars == <<obj, field, curl, session, sent, call, fault, calls>>

TypeOK ==
    /\ obj \in {"valid", "destroyed"}
    /\ field \in [Fields -> Ptr]
    /\ curl \in {"null", "live"}
    /\ session \in BOOLEAN
    /\ sent \in {"none", "sysinfo", "cycle"}
    /\ call \in [op : {"new", "config", "status", "reset", "hostlist",
                       "destroy"},
                 result : Results, cycled : BOOLEAN]
    /\ fault \in Faults
    /\ calls \in 0..MaxCalls

\* drac3_new: the object is allocated with every pointer NULL.
Init ==
    /\ obj = "valid"
    /\ field = [f \in Fields |-> "null"]
    /\ curl = "null"
    /\ session = FALSE
    /\ sent = "none"
    /\ call = [op |-> "new", result |-> "none", cycled |-> FALSE]
    /\ fault = "none"
    /\ calls = 0

\* A plugin entry point may be called: the object is alive and the
\* process has not crashed.
Callable == obj = "valid" /\ fault = "none" /\ calls < MaxCalls

Return(op, r, cyc) ==
    /\ call' = [op |-> op, result |-> r, cycled |-> cyc]
    /\ calls' = calls + 1

\* Number of the four allocations of DRAC3_parse_config_info (host, user,
\* pass, drac3d->curl) that succeed before the first one fails; 4: none fails.
AllocOutcomes == IF MemCanFail THEN 0..4 ELSE {4}

\* Mutant: the parse returns errno's ENOMEM instead of a stonith code.
ParseResultErrno(k) == IF k = 4 THEN "S_OK" ELSE "ENOMEM"

ParseResult(k) == IF k = 4 THEN "S_OK" ELSE "S_OOPS"

\* The pointer a field holds after the parse stopped at allocation k: the
\* fields duplicated before the failure are FREEd and left dangling, the
\* one whose STRDUP failed is NULL, the later ones keep their old value.
ParsedField(f, k) ==
    CASE k = 4                 -> "live"
      [] FieldIndex[f] <= k    -> "freed"
      [] FieldIndex[f] = k + 1 -> "null"
      [] OTHER                 -> field[f]

\* DRAC3_parse_config_info after sscanf found three words: the
\* curl_easy_init of line 470 is leaked and not modelled; the handle of
\* line 471 replaces drac3d->curl (a NULL one when it failed), and a new
\* handle carries no login cookie.
Parse(k) ==
    /\ field' = [f \in Fields |-> ParsedField(f, k)]
    /\ curl' = IF k >= 3 THEN IF k = 4 THEN "live" ELSE "null" ELSE curl
    /\ session' = IF k >= 3 THEN FALSE ELSE session
    /\ Return("config", ParseResult(k), FALSE)

\* drac3_set_config_file ("file": fopen may fail, the file may hold no
\* line that is not a comment or blank) and drac3_set_config_info
\* ("info"), both ending in DRAC3_parse_config_info, whose sscanf may not
\* find three words.
SetConfig(via) ==
    /\ Callable
    /\ \E input \in IF via = "file" THEN {"noopen", "noline", "bad", "good"}
                                    ELSE {"bad", "good"} :
         IF input = "good"
         THEN \E k \in AllocOutcomes : Parse(k)
         ELSE /\ Return("config", "S_BADCONFIG", FALSE)
              /\ UNCHANGED <<field, curl, session>>
    /\ sent' = "none"
    /\ UNCHANGED <<obj, fault>>

\* drac3VerifyLogin returns nonzero when the handle holds no session.
NeedsLogin(s) == ~s

\* drac3GetSysInfo's return code: nonzero on failure.
SysInfoFailed(rc) == rc # 0

\* drac3PowerCycle's return code: nonzero on failure.
CycleFailed(rc) == rc # 0

\* A card operation on host, a dangling or NULL host being undefined
\* behaviour: the process may crash on it, or the request to whatever the
\* pointer holds fails (S_ACCESS) and the call returns.
HostUnusable(op) ==
    /\ field["host"] # "live"
    /\ \/ /\ fault' = IF field["host"] = "freed" THEN "use_after_free"
                                                 ELSE "null_deref"
          /\ UNCHANGED <<call, calls>>
       \/ Return(op, "S_ACCESS", FALSE) /\ UNCHANGED fault
    /\ sent' = "none"
    /\ UNCHANGED session

\* The login prefix of drac3_status and drac3_reset_req: when
\* drac3VerifyLogin finds no session, drac3Login may fail and the call
\* returns S_ACCESS.
LoginFails(op) ==
    /\ NeedsLogin(session)
    /\ Return(op, "S_ACCESS", FALSE)
    /\ sent' = "none"
    /\ UNCHANGED session

\* Otherwise the handle holds a session, unless the card ended it between
\* that check and the command that follows (two separate HTTPS requests).
LoginHolds ==
    \E expired \in BOOLEAN :
        session' = ((session \/ NeedsLogin(session)) /\ ~expired)

\* drac3_status.
Status ==
    /\ Callable
    /\ IF curl = "null"
       THEN /\ Return("status", "S_OOPS", FALSE)
            /\ UNCHANGED <<session, fault>> /\ sent' = "none"
       ELSE \/ HostUnusable("status")
            \/ /\ field["host"] = "live"
               /\ \/ LoginFails("status")
                  \/ /\ LoginHolds
                     /\ sent' = "sysinfo"
                     /\ \E cardOk \in BOOLEAN :
                          LET rc == IF session' /\ cardOk THEN 0 ELSE 1 IN
                          Return("status", IF SysInfoFailed(rc) THEN "S_ACCESS"
                                           ELSE "S_OK", FALSE)
               /\ UNCHANGED fault
    /\ UNCHANGED <<obj, field, curl>>

\* drac3_reset_req: ST_POWERON and ST_POWEROFF fall through to
\* ST_GENERIC_RESET (a TODO in the code), so all three power-cycle.
ResetReq(r) ==
    /\ Callable
    /\ IF curl = "null"
       THEN /\ Return("reset", "S_OOPS", FALSE)
            /\ UNCHANGED <<session, fault>> /\ sent' = "none"
       ELSE \/ HostUnusable("reset")
            \/ /\ field["host"] = "live"
               /\ \/ LoginFails("reset")
                  \/ /\ LoginHolds
                     /\ r \in {"poweron", "poweroff", "reset"}
                     /\ sent' = "cycle"
                     /\ \E cardOk \in BOOLEAN :
                          LET rc == IF session' /\ cardOk THEN 0 ELSE 1 IN
                          Return("reset", IF CycleFailed(rc) THEN "S_ACCESS"
                                          ELSE "S_OK", rc = 0)
                  \/ /\ LoginHolds
                     /\ r \notin {"poweron", "poweroff", "reset"}
                     /\ sent' = "none"
                     /\ Return("reset", "S_INVAL", FALSE)
               /\ UNCHANGED fault
    /\ UNCHANGED <<obj, field, curl>>

\* drac3_hostlist.  The test after STRDUP is inverted: when the copy
\* succeeds the list is freed and g_strdown(hl[0]) reads through the NULL
\* hl; when it yields NULL (out of memory, or a NULL host, which
\* cl_strdup() refuses) g_strdown(NULL) returns early and the caller gets
\* a list holding no host ("list").  A dangling host is read by the copy.
Hostlist ==
    /\ Callable
    /\ IF curl = "null"
       THEN Return("hostlist", "NULL", FALSE) /\ UNCHANGED fault
       ELSE \/ MemCanFail /\ Return("hostlist", "NULL", FALSE)
               /\ UNCHANGED fault
            \/ field["host"] = "freed" /\ fault' = "use_after_free"
               /\ UNCHANGED <<call, calls>>
            \/ field["host"] = "live" /\ fault' = "null_deref"
               /\ UNCHANGED <<call, calls>>
            \/ \/ field["host"] = "null"
               \/ field["host"] = "live" /\ MemCanFail
               /\ Return("hostlist", "list", FALSE)
               /\ UNCHANGED fault
    /\ sent' = "none"
    /\ UNCHANGED <<obj, field, curl, session>>

\* drac3_destroy: log out and release the handle, FREE every non-NULL
\* field (a dangling one a second time), then the object.
Destroy ==
    /\ Callable
    /\ IF \E f \in Fields : field[f] = "freed"
       THEN /\ fault' = IF curl = "live" /\ field["host"] = "freed"
                         THEN "use_after_free" ELSE "double_free"
            /\ UNCHANGED <<obj, field, call, calls>>
       ELSE /\ obj' = "destroyed"
            /\ field' = [f \in Fields |-> "null"]
            /\ Return("destroy", "none", FALSE)
            /\ UNCHANGED fault
    /\ curl' = "null"
    /\ session' = FALSE
    /\ sent' = "none"

\* Environment: the card ends the login session (timeout, card reset).
SessionExpire ==
    /\ fault = "none"
    /\ session
    /\ session' = FALSE
    /\ sent' = "none"
    /\ UNCHANGED <<obj, field, curl, call, fault, calls>>

Next ==
    \/ \E via \in {"file", "info"} : SetConfig(via)
    \/ Status
    \/ \E r \in Requests : ResetReq(r)
    \/ Hostlist
    \/ Destroy
    \/ SessionExpire

Spec == Init /\ [][Next]_vars
=============================================================================
