-------------------------- MODULE MCAgentRevocation --------------------------
(***************************************************************************)
(* Two instances of AgentRevocation side by side: a fail_closed agent with *)
(* one token, a clock, a rotation and no local revocation, for the bounds; *)
(* and a soft_fail agent with all tokens, for which time stands still and  *)
(* no key is rotated, for progress.                                        *)
(***************************************************************************)
EXTENDS AgentRevocation

CONSTANT Derived    \* tokens only the soft_fail agent mints

Modes == [cp : BOOLEAN, fail_mode : {"fail_closed"}]
            \cup [cp : {TRUE}, fail_mode : {"soft_fail"}]

FailClosedInstance ==
    config.fail_mode = "fail_closed" /\ local' = {} /\ \A j \in Derived : issuer'[j] = 0

SoftFailInstance == config.fail_mode = "soft_fail" /\ UNCHANGED <<clock, aid>>

MCNext == Next /\ (FailClosedInstance \/ SoftFailInstance)

MCSpec == Init /\ [][MCNext]_vars /\ Fairness

==============================================================================
