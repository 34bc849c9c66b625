-------------------------------- MODULE KeyBag --------------------------------
(* What a search tree promises: it holds keys, each as often as it was     *)
(* inserted and not deleted since.                                         *)
EXTENDS Naturals

CONSTANTS Keys

VARIABLE count

Init == count = [k \in Keys |-> 0]

Insert(k) == count' = [count EXCEPT ![k] = @ + 1]

Delete(k) == count[k] > 0 /\ count' = [count EXCEPT ![k] = @ - 1]

Next == \E k \in Keys : Insert(k) \/ Delete(k)

Spec == Init /\ [][Next]_count
=============================================================================
