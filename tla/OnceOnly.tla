------------------------------- MODULE OnceOnly -------------------------------
(***************************************************************************)
(* What RFC-AITP-0001 5.5 asks of a receiver, as handshake_replay.py and   *)
(* pop_challenges.py take it on: an item takes effect at most once,        *)
(* however often, and however late, it is presented.  Counting the times,  *)
(* not remembering the set, makes a second time a step this specification  *)
(* does not have.                                                          *)
(***************************************************************************)
EXTENDS Naturals

CONSTANT Item
VARIABLE times      \* how often each item took effect

Init == times = [i \in Item |-> 0]

Take(i) == times[i] = 0 /\ times' = [times EXCEPT ![i] = 1]

Next == \E i \in Item : Take(i)

Spec == Init /\ [][Next]_times

==============================================================================
