------------------------------- MODULE Scope -------------------------------
(***************************************************************************)
(* The decision of ScopeController (core/scope.py) for one URL and for a   *)
(* redirect chain.  A URL is a record of the host and the path that        *)
(* urlparse finds in it; a glob pattern is the set of the paths fnmatch    *)
(* accepts for it; a method is already upper case.  The texts of the       *)
(* reasons are left out: only the verdict is used by a caller.             *)
(***************************************************************************)
EXTENDS Sequences

CONSTANTS
    Urls,              \* records [host, path]
    Methods,           \* the HTTP methods in use, "GET" among them
    NoHost,            \* the host of a URL from which urlparse extracts none
    AllowedHosts,      \* ScopeConfig.allowed_hosts, lower case
    AllowedPaths,      \* ScopeConfig.allowed_paths: a set of globs
    ExcludedPaths,     \* ScopeConfig.excluded_paths: a set of globs
    DestructivePaths   \* DEFAULT_DESTRUCTIVE_PATTERNS: a set of globs

ASSUME MethodsAssumption == "GET" \in Methods
ASSUME NoHostAssumption == NoHost \notin AllowedHosts

MutatingMethods == {"POST", "PUT", "DELETE", "PATCH"}

Matches(path, globs) == \E glob \in globs : path \in glob

\* An empty allow list allows every path; an empty deny list denies none.
PathAllowed(path) == AllowedPaths = {} \/ Matches(path, AllowedPaths)
PathExcluded(path) == Matches(path, ExcludedPaths)
PathDestructive(path) == Matches(path, DestructivePaths)

\* A mutating method never reaches a destructive-looking path.
MethodPermitted(path, method) ==
    ~ (method \in MutatingMethods /\ PathDestructive(path))

Check(url, method) ==
    /\ AllowedHosts # {}
    /\ url.host # NoHost
    /\ url.host \in AllowedHosts
    /\ PathAllowed(url.path)
    /\ ~ PathExcluded(url.path)
    /\ MethodPermitted(url.path, method)

\* Faulty variant: only the URL that redirected is checked.
CheckOriginalOnly(original, hops) == Check(original, "GET")

\* check_redirect_chain leaves the method to its default, which is GET.
CheckRedirectChain(original, hops) ==
    /\ Check(original, "GET")
    /\ \A i \in DOMAIN hops : Check(hops[i], "GET")
=============================================================================
