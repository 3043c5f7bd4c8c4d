------------------------------ MODULE MCWorkflow ------------------------------
(* Chained delegations; a delegation that is revoked; every step between two *)
(* agents that trust each other from the start; delegations across rotations. *)
EXTENDS Workflow, TLC

CONSTANTS researcher, analyzer, writer, c1, c2

MCOffers == researcher :> {c1, c2} @@ analyzer :> {c1} @@ writer :> {c1}

Chained ==
    [agents |-> <<researcher, analyzer, writer>>, eager |-> FALSE, multihop |-> TRUE, length |-> 5,
     types |-> {"handshake", "delegate", "redeem_delegation"}]

Revoking ==
    [agents |-> <<researcher, analyzer, writer>>, eager |-> FALSE, multihop |-> TRUE, length |-> 4,
     types |-> {"handshake", "delegate", "redeem_delegation", "revoke_tct"}]

Paired ==
    [agents |-> <<analyzer, researcher>>, eager |-> TRUE, multihop |-> FALSE, length |-> 4,
     types |-> StepTypes]

Rotating ==
    [agents |-> <<researcher, analyzer, writer>>, eager |-> FALSE, multihop |-> FALSE, length |-> 4,
     types |-> {"handshake", "delegate", "redeem_delegation", "renew_tct", "rotate_keys"}]

MCScenarios == {Chained, Revoking, Paired, Rotating}

==============================================================================
