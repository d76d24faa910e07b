---------------------------- MODULE BatchDelivery ----------------------------
(***************************************************************************)
(* What the collector pipeline promises for its batches: a batch is        *)
(* applied at the hub at most once and never acknowledged before that; it  *)
(* may be given up, and may then still be applied late.                    *)
(***************************************************************************)
EXTENDS Naturals

CONSTANT Batches

VARIABLES
    outstanding,       \* the batches the collector keeps
    applications,      \* how often the hub applied each batch
    acked              \* the batches the collector let go as delivered

vars == <<outstanding, applications, acked>>

Init == /\ outstanding = {} /\ acked = {}
        /\ applications = [b \in Batches |-> 0]

Submit(b) ==
    /\ b \notin outstanding \cup acked /\ applications[b] = 0
    /\ outstanding' = outstanding \cup {b}
    /\ UNCHANGED <<applications, acked>>

Apply(b) ==
    /\ applications[b] = 0
    /\ applications' = [applications EXCEPT ![b] = 1]
    /\ UNCHANGED <<outstanding, acked>>

Acknowledge(b) ==
    /\ b \in outstanding /\ applications[b] = 1
    /\ outstanding' = outstanding \ {b} /\ acked' = acked \cup {b}
    /\ UNCHANGED applications

GiveUp(b) ==
    /\ b \in outstanding
    /\ outstanding' = outstanding \ {b}
    /\ UNCHANGED <<applications, acked>>

Next == \E b \in Batches : Submit(b) \/ Apply(b) \/ Acknowledge(b) \/ GiveUp(b)

Spec == Init /\ [][Next]_vars
=============================================================================
