------------------------------ MODULE Services ------------------------------
(***************************************************************************)
(* The loops that have to go on whatever fails: the collector's daemon,    *)
(* its queue of batches when sizes and limits matter, the probes of the    *)
(* direct accounts and the refresh of an open dashboard.  Their modules    *)
(* share no state, so that a behaviour here is one of a single part,       *)
(* chosen at the start, and fairness is asked of the steps of that part    *)
(* alone.                                                                  *)
(***************************************************************************)
EXTENDS Naturals

CONSTANTS
    Sessions, PageSize, MaxWrites, MaxDaemonStops,
    Accounts, MaxCredits, MaxProbeFailures, MaxEdits,
    MaxChanges, MaxFailures, MaxLoads,
    Batches, Sizes, MaxBatches, MaxTotalBytes, MaxRetention, MinDrainInterval,
    MinBackoff, MaxBackoff, AuthBackoff, RetryAfters, MaxRetries, MaxCrashes,
    MaxFaults, MaxDamage, MaxOrders

VARIABLES
    part,
    source, cycle, uploading, halted, sched, writes, daemonStops,
    provider, account, credits, rises, snap, told, probe, probing, round, todo,
    polling, overlapped, edits,
    version, data, fetches, pending, timer, stream, wire, changes, failures, loads,
    primary, backup, files, status, mem, op, inFlight, upload, retries, wait, fate,
    haltOwed, budget

daemonVars == <<source, cycle, uploading, halted, sched, writes, daemonStops>>
directVars == <<provider, account, credits, rises, snap, told, probe, probing, round,
                todo, polling, overlapped, edits>>
viewVars == <<version, data, fetches, pending, timer, stream, wire, changes, failures,
              loads>>
queueVars == <<primary, backup, files, status, mem, op, inFlight, upload, retries, wait,
               fate, haltOwed, budget>>
vars == <<part, daemonVars, directVars, viewVars, queueVars>>

Daemon == INSTANCE CollectorDaemon WITH stops <- daemonStops, MaxStops <- MaxDaemonStops
Direct == INSTANCE DirectAccounts WITH MaxFailures <- MaxProbeFailures
View == INSTANCE LiveView
Queue == INSTANCE CollectorQueue

Init ==
    /\ part \in {"daemon", "direct", "view", "queue"}
    /\ Daemon!Init /\ Direct!Init /\ View!Init /\ Queue!Init
    /\ part # "direct" => provider = "antigravity" /\ credits = [a \in Accounts |-> 0]

DaemonStep ==
    /\ part = "daemon" /\ Daemon!Next
    /\ UNCHANGED <<part, directVars, viewVars, queueVars>>
DirectStep ==
    /\ part = "direct" /\ Direct!Next
    /\ UNCHANGED <<part, daemonVars, viewVars, queueVars>>
ViewStep ==
    /\ part = "view" /\ View!Next
    /\ UNCHANGED <<part, daemonVars, directVars, queueVars>>
QueueStep ==
    /\ part = "queue" /\ Queue!Next
    /\ UNCHANGED <<part, daemonVars, directVars, viewVars>>

Next == DaemonStep \/ DirectStep \/ ViewStep \/ QueueStep

Spec == Init /\ [][Next]_vars

Fairness ==
    /\ WF_daemonVars(part = "daemon" /\ Daemon!Fire)
    /\ WF_daemonVars(part = "daemon" /\ Daemon!Deadline)
    /\ WF_daemonVars(part = "daemon" /\ Daemon!Work)
    /\ WF_directVars(part = "direct" /\ Direct!probeAll("loop"))
    /\ \A p \in Direct!Probers : WF_directVars(part = "direct" /\ Direct!ProbeStep(p))
    /\ WF_viewVars(part = "view" /\ View!connectObservatoryStream)
    /\ WF_viewVars(part = "view" /\ View!scheduleObservatoryRefresh)
    /\ \A f \in View!Families : WF_viewVars(part = "view" /\ View!handleStreamEvent(f))
    /\ \A r \in View!Requesters :
        /\ WF_viewVars(part = "view" /\ View!refreshObservatoryFamilies(r))
        /\ \A f \in View!Families : WF_viewVars(part = "view" /\ View!Answer(r, f))
    /\ WF_queueVars(part = "queue" /\ Queue!Step)
    /\ WF_queueVars(part = "queue" /\ Queue!Start)
    /\ WF_queueVars(part = "queue" /\ Queue!Settle)
    /\ SF_queueVars(part = "queue" /\ Queue!Tick)
    /\ SF_queueVars(part = "queue" /\ Queue!GetStats)

FairSpec == Spec /\ Fairness

KeepsCycling == []Daemon!EachOnce /\ Daemon!KeepsCycling
LatchReturns == Direct!LatchReturns
QueueServes == Queue!QueueServes
Refreshed == View!Refreshed
=============================================================================
