-------------------------- MODULE MCParallelGroup --------------------------
(* A small instance of ParallelGroup for TLC. *)
EXTENDS ParallelGroup
=============================================================================
