------------------------ MODULE MCCollectorAdmission ------------------------
(* Admission on a small instance: requests are alike, and so are hosts. *)
EXTENDS CollectorAdmission, TLC

Symmetry == Permutations(Requests) \cup Permutations(Hosts)
=============================================================================
