---------------------------- MODULE MCTicketMerge ----------------------------
(* A small instance of TicketMerge for TLC. *)
EXTENDS TicketMerge
=============================================================================
