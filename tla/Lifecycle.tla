------------------------------ MODULE Lifecycle ------------------------------
(* core/lifecycle.py: the states of a scan and the moves between them.     *)

ScanStates ==
    {"INITIALIZED", "DISCOVERING", "DISCOVERY_COMPLETE", "CHECKING", "VALIDATING",
     "REPORTING", "COMPLETED", "FAILED", "ABORTED"}

\* _ALLOWED: each working state leads on, and every one may fail or abort.
Allowed ==
    LET onward == [INITIALIZED |-> {"DISCOVERING"},
                   DISCOVERING |-> {"DISCOVERY_COMPLETE"},
                   DISCOVERY_COMPLETE |-> {"CHECKING"},
                   CHECKING |-> {"VALIDATING", "REPORTING"},
                   VALIDATING |-> {"REPORTING"},
                   REPORTING |-> {"COMPLETED"}]
    IN  [s \in ScanStates |->
            IF s \in DOMAIN onward THEN onward[s] \cup {"FAILED", "ABORTED"} ELSE {}]

Terminal == {s \in ScanStates : Allowed[s] = {}}
=============================================================================
