------------------------ MODULE MCDeliveryAcceptance ------------------------
(* A small instance of DeliveryAcceptance for TLC. *)
EXTENDS DeliveryAcceptance, TLC

CONSTANTS d1, d2, d3, photo, shot

Three   == {d1, d2, d3}
Symmetry == Permutations(Deliveries)
Images  == {photo, shot}
CountOf == [p \in Images |-> 1]
=============================================================================
