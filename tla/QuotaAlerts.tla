---------------------------- MODULE QuotaAlerts ----------------------------
(***************************************************************************)
(* The tracker of one quota window (src/observatory/events.ts,             *)
(* evaluateQuotaTransition) as ObservatoryCoordinator.ingestBatch keeps it *)
(* in the store: the current window, the tracker and the events of one     *)
(* observation are written in one transaction.  Probes overlap, so         *)
(* observations arrive in any order of their timestamps.                   *)
(***************************************************************************)
EXTENDS Integers, FiniteSets

CONSTANTS
    Levels,            \* remaining percentages a probe may report
    MaxObserved        \* bound: the last timestamp of an observation

VARIABLES
    tracker,           \* observatory_quota_trackers, or Untracked
    window,            \* observatory_quota_current_windows
    events             \* fingerprints of observatory_events

vars == <<tracker, window, events>>

Alarms == {"warning", "critical", "exhausted"}
Threshold == [warning |-> 20, critical |-> 10, exhausted |-> 2]
Hysteresis == 2

Untracked == [at |-> 0, left |-> 100, credits |-> 0, generation |-> 1, changes |-> 0,
              epoch |-> [a \in Alarms |-> 1], fired |-> {}]
NoWindow == [at |-> 0, left |-> 100]

TypeOK ==
    /\ tracker \in [at : 0 .. MaxObserved, left : Levels \cup {100}, credits : 0 .. 2,
                    generation : Nat, changes : Nat, epoch : [Alarms -> Nat],
                    fired : SUBSET Alarms]
    /\ window \in [at : 0 .. MaxObserved, left : Levels \cup {100}]
    /\ IsFiniteSet(events)

Init == tracker = Untracked /\ window = NoWindow /\ events = {}

\* Credits: 0 stands for null, a probe that knows none.
Observations == [at : 1 .. MaxObserved, left : Levels, credits : 0 .. 2, resets : BOOLEAN]

\* `resets': the window announces a reset after the last observation.
ConfirmedReset(t, o) ==
    /\ t.at > 0
    /\ \/ o.resets /\ o.left > t.left + 5
       \/ t.left <= 20 /\ o.left >= 70

\* A confirmed reset arms every alarm under a new generation and epoch.
AfterReset(t, o) ==
    IF ConfirmedReset(t, o)
    THEN [t EXCEPT !.generation = @ + 1, !.fired = {},
                   !.epoch = [a \in Alarms |-> @[a] + 1]]
    ELSE t

CreditChange(t, o) == t.at > 0 /\ t.credits # 0 /\ o.credits # 0 /\ o.credits # t.credits

\* Mutant: an alarm is armed again under the epoch it was told under.
RearmedSameEpoch(t, o) ==
    LET back == {a \in t.fired : o.left > Threshold[a] + Hysteresis}
    IN  [t EXCEPT !.fired = @ \ back]
\* Above the threshold and its hysteresis an alarm is armed again.
Rearmed(t, o) ==
    LET back == {a \in t.fired : o.left > Threshold[a] + Hysteresis}
    IN  [t EXCEPT !.fired = @ \ back,
                  !.epoch = [a \in Alarms |-> IF a \in back THEN @[a] + 1 ELSE @[a]]]

\* The one alarm an observation may raise is that of the worst level reached.
Reached(o) == {a \in Alarms : o.left <= Threshold[a]}
Worst(o) == CHOOSE a \in Reached(o) : \A b \in Reached(o) : Threshold[a] <= Threshold[b]
Raises(t, o) == Reached(o) # {} /\ Worst(o) \notin t.fired
\* Raising it marks the milder ones as told.
Milder(a) == {b \in Alarms : Threshold[b] >= Threshold[a]}

\* Fingerprints: recordEvent keeps one event of each.
Told(t, o) ==
    LET r == AfterReset(t, o)
        n == Rearmed(r, o)
    IN  (IF ConfirmedReset(t, o) THEN {<<"reset", r.generation>>} ELSE {})
        \cup (IF CreditChange(t, o)
              THEN {<<"credit", r.generation, t.changes + 1, o.credits>>} ELSE {})
        \cup (IF Raises(n, o) THEN {<<Worst(o), n.generation, n.epoch[Worst(o)]>>} ELSE {})

Tracked(t, o) ==
    LET n == Rearmed(AfterReset(t, o), o)
    IN  [n EXCEPT !.at = o.at, !.left = o.left,
                  !.credits = IF o.credits = 0 THEN @ ELSE o.credits,
                  !.changes = IF CreditChange(t, o) THEN @ + 1 ELSE @,
                  !.fired = IF Raises(n, o) THEN @ \cup Milder(Worst(o)) ELSE @]

recordQuotaObservation(o) ==
    window' = IF o.at >= window.at THEN [at |-> o.at, left |-> o.left] ELSE window
upsertQuotaTracker(o) == tracker' = Tracked(tracker, o)
recordEvent(o) == events' = events \cup Told(tracker, o)

\* The watermark of the tracker is strict, that of the window is not.
Ingest(o) ==
    /\ recordQuotaObservation(o)
    /\ IF o.at <= tracker.at THEN UNCHANGED <<tracker, events>>
       ELSE upsertQuotaTracker(o) /\ recordEvent(o)

Next == \E o \in Observations : Ingest(o)

Spec == Init /\ [][Next]_vars

(***************************************************************************)
(* Properties                                                              *)
(***************************************************************************)
\* Whenever the quota falls to an alarm's threshold from above its hysteresis
\* (or is first seen there), an event of that alarm or a worse one is recorded
\* that the store does not drop as a repetition, whatever was told before and
\* in which order the probes came in.
DropsTold ==
    [][\A a \in Alarms :
         /\ tracker'.at # tracker.at
         /\ tracker.left > Threshold[a] + Hysteresis /\ tracker'.left <= Threshold[a]
         => \E b \in Alarms, e \in events' \ events :
              Threshold[b] <= Threshold[a] /\ e[1] = b]_vars
=============================================================================
