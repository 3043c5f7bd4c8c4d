------------------------------ MODULE MCHosting ------------------------------
(* Two runs that may want the same port and two hosted agents.             *)
EXTENDS Hosting, TLC

MCStart == [run |-> 1, hosted |-> 11]

Symmetry == Permutations(Runs) \cup Permutations(Hosts)

==============================================================================
