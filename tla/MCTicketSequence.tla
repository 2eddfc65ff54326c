-------------------------- MODULE MCTicketSequence --------------------------
(* A small instance of TicketSequence for TLC. *)
EXTENDS TicketSequence

CONSTANTS t1, t2

TwoTickets == <<t1, t2>>
SecondRuns == {t2}
=============================================================================
