---------------------------- MODULE MCHttpClient ----------------------------
(* Small instance of HttpClient and of the rate of its hops: one host in    *)
(* scope and one out of scope, a path in scope, a destructive one and an   *)
(* excluded one.                                                           *)
EXTENDS WireRate, TLC

CONSTANTS InHost, OutHost, Home, Wipe, Off

MCUrls == {[host |-> InHost, path |-> Home],
           [host |-> InHost, path |-> Wipe],
           [host |-> InHost, path |-> Off],
           [host |-> OutHost, path |-> Home]}
\* Without the destructive path, which doubles the requests in flight.
MCHarmlessUrls == {u \in MCUrls : u.path # Wipe}
MCMethods == {"GET", "POST"}
MCAllowedHosts == {InHost}
MCAllowedPaths == {}
MCExcludedPaths == {{Off}}
MCDestructivePaths == {{Wipe}}
=============================================================================
