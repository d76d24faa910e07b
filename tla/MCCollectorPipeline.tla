------------------------ MODULE MCCollectorPipeline ------------------------
(* Collector and hub on a small instance: the slots are alike. *)
EXTENDS CollectorPipeline, TLC

SlotSymmetry == Permutations(Slots)
=============================================================================
