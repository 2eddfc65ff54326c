--------------------------- MODULE MCRequestBroker ---------------------------
(* A small instance of RequestBroker for TLC. *)
EXTENDS RequestBroker, TLC

CONSTANT k1

OneKey == {k1}
=============================================================================
