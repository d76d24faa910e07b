-------------------------- MODULE MCDeliveryOutbox --------------------------
(* The notification outbox on a small instance: the passes are alike. *)
EXTENDS DeliveryOutbox, TLC

PassSymmetry == Permutations(Passes)
=============================================================================
