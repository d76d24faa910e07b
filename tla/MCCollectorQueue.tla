-------------------------- MODULE MCCollectorQueue --------------------------
(* The batch queue on a small instance. *)
EXTENDS CollectorQueue
=============================================================================
