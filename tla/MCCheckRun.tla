----------------------------- MODULE MCCheckRun -----------------------------
(* Small instance of CheckRun: two parameters, two payloads, two paths, two *)
(* logout paths; every check on its own and three registries of two.        *)
EXTENDS CheckRun

MCParams == <<"p", "q">>
MCPayloads == <<"x", "y">>
MCPaths == <<"a", "b">>
MCLogouts == <<"out", "exit">>

Auth(active, acknowledged, callback) ==
    [active |-> active, acknowledged |-> acknowledged, allowDestructive |-> FALSE,
     level |-> 2, callback |-> callback]

\* A file that enables active tests, one that does not, one that is refused.
MCFiles ==
    {NoFile,
     [auth |-> Auth(TRUE, TRUE, "outside"), principals |-> <<"alice", "admin">>],
     [auth |-> Auth(FALSE, FALSE, "inside"), principals |-> <<"admin", "admin">>],
     [auth |-> Auth(TRUE, FALSE, "outside"), principals |-> <<"alice", "admin">>]}

CommandLine(active, allow, mode, https, follow) ==
    [active |-> active, allowDestructive |-> allow, level |-> 2, mode |-> mode,
     https |-> https, follow |-> follow]

MCCommandLines ==
    {CommandLine(TRUE, TRUE, "interactive", TRUE, FALSE),
     CommandLine(TRUE, FALSE, "strict", FALSE, TRUE),
     CommandLine(FALSE, TRUE, "other", TRUE, TRUE),
     CommandLine(TRUE, TRUE, "non_interactive", TRUE, TRUE)}

Pairs == {<<"bola-idor", "session-invalidation">>, <<"cors-policy", "security-headers">>,
          <<"session-invalidation", "bfla-behavior">>}
MCRegistries == {<<k>> : k \in CheckNames} \cup Pairs

Plan(risk, destructive, level, word, ceiling) ==
    [plan |-> [risk |-> risk, destructive |-> destructive, level |-> level, word |-> word],
     ceiling |-> ceiling]

MCPlans ==
    {Plan("LOW", FALSE, 0, FALSE, 2), Plan("HIGH", FALSE, 0, FALSE, 2),
     Plan("MEDIUM", TRUE, 2, FALSE, 2), Plan("HIGH", TRUE, 3, TRUE, 4),
     Plan("BLOCKED", FALSE, 0, TRUE, 4), Plan("HIGH", TRUE, 5, TRUE, 4)}

\* The tests of session_invalidation.py give it an authenticated identity; here
\* one that is not comes before two that are.
Identity(name, auth) == [name |-> name, role |-> "user", auth |-> auth]

MCCallers ==
    {[auth |-> Auth(TRUE, TRUE, "none"), mode |-> "non_interactive", ps |-> <<>>,
      ids |-> <<Identity("eve", "none"), Identity("alice", "cookie"), Identity("bob", "cookie")>>,
      https |-> TRUE, follow |-> FALSE, plan |-> HarmlessPlan("LOW"), ceiling |-> 2,
      passes |-> 1, caller |-> "session-invalidation"]}
=============================================================================
