----------------------------- MODULE CodexQuota -----------------------------
(***************************************************************************)
(* The weekly Codex quota as the check coordinator watches it              *)
(* (src/omp-quota.ts): one poll after the other reads the state file, asks *)
(* the OMP CLI, compares the answer with the state, writes the state anew  *)
(* and then tells of the changes.  The file is replaced by a rename; a     *)
(* file that cannot be read counts as none.                                *)
(***************************************************************************)
EXTENDS Integers, SequencesExt

CONSTANTS
    Resets,              \* announced ends of a week, positive; 0 is out of range
    Lefts,               \* remaining percentages
    LowRemaining,        \* lowRemainingPct
    RepeatedFailures,    \* repeatedFailureCount
    MaxFaults,           \* bound: reads, writes and messages that fail
    MaxCrashes           \* bound: ends of the process

VARIABLES
    file,                \* OmpQuotaState in the file
    poll,                \* pollOnce: where it is, its state, outcome and events
    watched,             \* the last observation that was saved
    lows,                \* low alerts since the quota was last seen above
    owed,                \* a drop was saved and is not told yet
    alarms,              \* failure alerts told less recoveries told
    faults, crashes      \* for the bounds

vars == <<file, poll, watched, lows, owed, alarms, faults, crashes>>

Unknown == [reset |-> 0, low |-> FALSE, failures |-> 0, alerted |-> FALSE]
Unwatched == [reset |-> 0, left |-> 100]
Idle == [at |-> "off", state |-> Unknown, next |-> Unknown, seen |-> Unwatched,
         events |-> <<>>]

TypeOK ==
    /\ file \in [reset : {0} \cup Resets, low : BOOLEAN, failures : Nat, alerted : BOOLEAN]
    /\ poll.at \in {"off", "probe", "saveSeen", "saveFailure", "tell"}
    /\ watched \in [reset : {0} \cup Resets, left : Lefts \cup {100}]

Init ==
    /\ file = Unknown /\ poll = Idle
    /\ watched = Unwatched /\ lows = 0 /\ owed = FALSE /\ alarms = 0
    /\ faults = 0 /\ crashes = 0

Fault == faults < MaxFaults /\ faults' = faults + 1

(***************************************************************************)
(* What the CLI prints                                                     *)
(***************************************************************************)
Limits == [window : {"weekly", "spark"}, reset : {0} \cup Resets, left : Lefts]
Outputs == [age : {"fresh", "stale"}, limits : BoundedSeq(Limits, 2)]
\* The Codex limit is the first weekly one that is not Spark's.
Weekly(output) == SelectInSeq(output.limits, LAMBDA limit : limit.window = "weekly")
Refused(output) ==
    output.age = "stale" \/ Weekly(output) = 0 \/ output.limits[Weekly(output)].reset = 0
parseOmpUsageResponse(output) ==
    LET limit == output.limits[Weekly(output)]
    IN  [reset |-> limit.reset, left |-> limit.left]

(***************************************************************************)
(* Comparing with the state                                                *)
(***************************************************************************)
IsLow(o) == o.left <= LowRemaining

\* Mutant: a new week keeps the alarm of the last one.
NextLowKept(s, o) == IsLow(o) \/ (s.low /\ s.reset # o.reset)
\* The alarm that the state remembers.
NextLow(s, o) == IsLow(o)

\* The first observation is only remembered.
SeenEvents(s, o) ==
    LET known == s.reset # 0
        ended == known /\ o.reset # s.reset
    IN  (IF s.alerted THEN <<"recovery">> ELSE <<>>)
        \o (IF ended THEN <<"reset">> ELSE <<>>)
        \o (IF known /\ IsLow(o) /\ (ended \/ ~s.low) THEN <<"low_remaining">> ELSE <<>>)

evaluateObservation(s, o) ==
    [next |-> [reset |-> o.reset, low |-> NextLow(s, o), failures |-> 0, alerted |-> FALSE],
     events |-> SeenEvents(s, o)]

\* Mutant: the alert that was sent is not looked at.
AlertsAgain(s) == s.failures + 1 >= RepeatedFailures
Alerts(s) == s.failures + 1 >= RepeatedFailures /\ ~s.alerted
evaluateFailure(s) ==
    [next |-> [s EXCEPT !.failures = IF @ < RepeatedFailures THEN @ + 1 ELSE @,
                        !.alerted = @ \/ Alerts(s)],
     events |-> IF Alerts(s) THEN <<"repeated_failure">> ELSE <<>>]

(***************************************************************************)
(* pollOnce                                                                *)
(***************************************************************************)
Load ==
    /\ poll.at = "off"
    /\ \/ /\ poll' = [Idle EXCEPT !.at = "probe", !.state = file]
          /\ UNCHANGED <<watched, faults>>
       \/ /\ Fault
          /\ poll' = [Idle EXCEPT !.at = "probe"] /\ watched' = Unwatched
    /\ UNCHANGED <<file, lows, owed, alarms, crashes>>

Failing(p) ==
    LET failed == evaluateFailure(p.state)
    IN  [p EXCEPT !.at = "saveFailure", !.next = failed.next, !.events = failed.events]

Seeing(o) ==
    LET seen == evaluateObservation(poll.state, o)
    IN  [poll EXCEPT !.at = "saveSeen", !.next = seen.next, !.events = seen.events,
                     !.seen = o]

\* The CLI times out or fails, prints what is refused, or tells the quota.
Probed ==
    /\ poll.at = "probe"
    /\ \/ poll' = Failing(poll)
       \/ \E output \in Outputs :
            poll' = IF Refused(output) THEN Failing(poll)
                                       ELSE Seeing(parseOmpUsageResponse(output))
    /\ UNCHANGED <<file, watched, lows, owed, alarms, faults, crashes>>

\* A drop: the quota is low and was known above, or in another week.
Dropped(o) ==
    watched.reset # 0 /\ IsLow(o) /\ (~IsLow(watched) \/ watched.reset # o.reset)

Finish(p) == IF p.events = <<>> THEN Idle ELSE [p EXCEPT !.at = "tell"]

\* An observation that cannot be saved counts as a failed probe.
SaveSeen ==
    /\ poll.at = "saveSeen"
    /\ \/ /\ file' = poll.next /\ poll' = Finish(poll)
          /\ watched' = poll.seen /\ owed' = Dropped(poll.seen)
          /\ lows' = IF IsLow(poll.seen) /\ poll.seen.reset = watched.reset THEN lows ELSE 0
          /\ UNCHANGED faults
       \/ /\ Fault
          /\ poll' = Failing(poll) /\ UNCHANGED <<file, watched, owed, lows>>
    /\ UNCHANGED <<alarms, crashes>>

\* A failure that cannot be saved is told all the same.
SaveFailure ==
    /\ poll.at = "saveFailure" /\ poll' = Finish(poll)
    /\ \/ file' = poll.next /\ UNCHANGED faults
       \/ Fault /\ UNCHANGED file
    /\ UNCHANGED <<watched, lows, owed, alarms, crashes>>

\* A message that fails is skipped.
processOmpQuotaTransition ==
    /\ poll.at = "tell"
    /\ poll' = Finish([poll EXCEPT !.events = Tail(@)])
    /\ LET event == Head(poll.events)
       IN  /\ owed' = (owed /\ event # "low_remaining")
           /\ \/ /\ lows' = IF event = "low_remaining" THEN lows + 1 ELSE lows
                 /\ alarms' = CASE event = "repeated_failure" -> alarms + 1
                                [] event = "recovery" -> alarms - 1
                                [] OTHER -> alarms
                 /\ UNCHANGED faults
              \/ Fault /\ UNCHANGED <<lows, alarms>>
    /\ UNCHANGED <<file, watched, crashes>>

Crash ==
    /\ poll.at # "off" /\ crashes < MaxCrashes /\ crashes' = crashes + 1
    /\ poll' = Idle /\ owed' = FALSE
    /\ UNCHANGED <<file, watched, lows, alarms, faults>>

Next ==
    \/ Load \/ Probed \/ SaveSeen \/ SaveFailure \/ processOmpQuotaTransition \/ Crash

Spec == Init /\ [][Next]_vars

(***************************************************************************)
(* Properties                                                              *)
(***************************************************************************)
\* A drop that was saved is told by the poll that saw it, unless the process ends
\* first, and once: nobody hears of it again before the quota was seen above or
\* another week began, whatever reads, writes, messages and processes fail in
\* between.  As long as none does, a failure alert is followed by a recovery
\* before the next one.
DropToldOnce ==
    /\ lows <= 1
    /\ owed => poll.at = "tell" /\ Contains(poll.events, "low_remaining")
    /\ faults + crashes = 0 => alarms \in {0, 1}
=============================================================================
