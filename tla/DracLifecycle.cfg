CONSTANTS
    Requests <- MCRequests
    MemCanFail = TRUE
    MaxCalls <- MCMaxCalls
SPECIFICATION Spec
INVARIANTS
    TypeOK
\* The plugin object's life ends with drac3_destroy, a crash, or the call
\* bound; the process may stop calling at any point.
CHECK_DEADLOCK FALSE
