------------------------------- MODULE Launch -------------------------------
(***************************************************************************)
(* What a scan is launched with: the command line of cli.py over the       *)
(* validated records of config.py, and the identities that                 *)
(* attack_surface/mapper.py makes of the principals.                       *)
(*                                                                         *)
(* An authorization is [active, acknowledged, allowDestructive, level,     *)
(* callback]; callback is "none", "inside" (an internal host) or           *)
(* "outside".  A scope file is an authorization with its principals.       *)
(***************************************************************************)
EXTENDS Integers, Sequences

\* No scope file is given, or the path does not exist.
NoFile == [given |-> FALSE]

\* The validators of AuthorizationConfig, which run when it is constructed.
Validates(auth) ==
    /\ auth.level \in 1..6
    /\ auth.active => auth.acknowledged
    /\ auth.allowDestructive => auth.active /\ auth.acknowledged

\* The authorization that scan() builds from its options alone.
FromFlags(flags) ==
    [active |-> flags.active, acknowledged |-> flags.active,
     allowDestructive |-> flags.allowDestructive, level |-> flags.level, callback |-> "none"]

\* scan() gets as far as a configuration.
Starts(file, flags) ==
    Validates(IF file = NoFile THEN FromFlags(flags) ELSE file.auth)

\* Faulty variant: what the scope file enables stays enabled.
EffectiveOfBoth(file, flags) ==
    IF file = NoFile THEN FromFlags(flags)
    ELSE [FromFlags(flags) EXCEPT !.callback = file.auth.callback,
                                  !.active = @ \/ file.auth.active,
                                  !.acknowledged = @ \/ file.auth.acknowledged]

\* The options are assigned over whatever the file says, past the validators;
\* only the callback domain survives.
Effective(file, flags) ==
    IF file = NoFile THEN FromFlags(flags)
    ELSE [FromFlags(flags) EXCEPT !.callback = file.auth.callback]

\* _run_scan: a mode that is unknown is taken for non_interactive.
ModeOf(flags) ==
    IF flags.mode \in {"interactive", "strict"} THEN flags.mode ELSE "non_interactive"

Principals(file) == IF file = NoFile THEN <<>> ELSE file.principals

\* _role_from_name; the roles that are not admin are not told apart.
RoleFromName(name) == IF name = "admin" THEN "admin" ELSE "user"

\* Faulty variant: the identities get the authentication of their principals.
IdentitiesOfAuth(principals) ==
    [i \in DOMAIN principals |->
        [name |-> principals[i], role |-> RoleFromName(principals[i]), auth |-> "cookie"]]

\* AttackSurfaceMapper.build: name, role and cookies are handed on, the
\* auth_method is not, so that no identity counts as authenticated.
Identities(principals) ==
    [i \in DOMAIN principals |->
        [name |-> principals[i], role |-> RoleFromName(principals[i]), auth |-> "none"]]
=============================================================================
