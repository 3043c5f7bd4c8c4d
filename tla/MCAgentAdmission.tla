--------------------------- MODULE MCAgentAdmission ---------------------------
(* A small instance of AgentAdmission.                                     *)
EXTENDS AgentAdmission, TLC

\* Clocks that agree, and a peer whose clock runs ahead.
AgreeOrAhead == {0, 1}

\* A damaged timestamp reads as another time.
AnotherTime == {1}

Symmetry == Permutations(Handshake) \cup Permutations(Call) \cup Permutations(Nonce)

==============================================================================
