-------------------------------- MODULE Gate --------------------------------
(***************************************************************************)
(* validation/gate.py and risk.py: what ActionGate.ask() decides.          *)
(*                                                                         *)
(* A plan is [risk, destructive, level, word]: level 0 stands for None,    *)
(* word says whether the plan has a confirm_word.  reply is what the       *)
(* operator types if there is a prompt: yes, the word of the plan, the     *)
(* CONFIRM text of its level, or anything else (an end of file included).  *)
(***************************************************************************)
EXTENDS Naturals

Modes == {"interactive", "non_interactive", "strict"}
Replies == {"yes", "word", "confirm", "else"}
Risks == {"NONE", "LOW", "MEDIUM", "HIGH", "BLOCKED"}
LowRisks == {"NONE", "LOW"}

\* What the gate treats as destructive.
IsDestructive(plan) == plan.destructive \/ plan.risk = "BLOCKED"

\* A plan that names no level counts as data destruction.
LevelOf(plan) == IF plan.level = 0 THEN 3 ELSE plan.level

\* The words that _prompt_user_tiered accepts from level 3 on.
Expected(plan) ==
    (IF plan.word THEN {"word"} ELSE {}) \cup (IF plan.level = 0 THEN {} ELSE {"confirm"})

\* _prompt_user_tiered
ConfirmedBy(reply, plan) ==
    IF LevelOf(plan) <= 2 THEN reply = "yes" ELSE reply \in Expected(plan)

\* ask() comes to a prompt.
Prompts(mode, plan, allow, ceiling) ==
    IF IsDestructive(plan)
    THEN allow /\ LevelOf(plan) <= ceiling /\ mode # "non_interactive"
    ELSE mode = "interactive" /\ plan.risk \notin LowRisks

\* Faulty variant: the auto-approval comes first.
ApprovesAutoFirst(mode, plan, allow, ceiling, reply) ==
    CASE mode = "non_interactive" -> TRUE
      [] mode # "non_interactive" /\ IsDestructive(plan) ->
            /\ Prompts(mode, plan, allow, ceiling)
            /\ ConfirmedBy(reply, plan)
      [] OTHER ->
            IF Prompts(mode, plan, allow, ceiling) THEN reply = "yes"
            ELSE plan.risk \in LowRisks

\* ask(): a destructive plan is approved at a prompt or not at all; any other
\* by the mode, by its low risk, or at a prompt.
Approves(mode, plan, allow, ceiling, reply) ==
    IF Prompts(mode, plan, allow, ceiling)
    THEN IF IsDestructive(plan) THEN ConfirmedBy(reply, plan) ELSE reply = "yes"
    ELSE /\ ~ IsDestructive(plan)
         /\ mode = "non_interactive" \/ plan.risk \in LowRisks
=============================================================================
