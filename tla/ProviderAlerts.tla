--------------------------- MODULE ProviderAlerts ---------------------------
(***************************************************************************)
(* The incident of one provider or credential: evaluateProviderTransition  *)
(* (src/observatory/events.ts) between the two halves of ingestBatch that  *)
(* read and write its tracker.  The row keeps one flag per incident level  *)
(* and none for `degraded', which is read back from the stored health: the *)
(* state the transition sees is not always the one it returned.            *)
(***************************************************************************)
EXTENDS Integers, FiniteSets

CONSTANTS
    FailureThreshold,  \* failures in a row that make an outage
    MaxEpoch           \* bound: the incidents opened

VARIABLES
    row,               \* observatory_provider_trackers
    told,              \* the incident events and recoveries, in the order recorded
    open               \* the level last told and not recovered: what a reader
                       \* of the notifications believes

vars == <<row, told, open>>

Ranked == <<"degraded", "down", "cooldown", "blocked", "disabled">>
Rank(l) == IF l = "none" THEN 0 ELSE CHOOSE i \in DOMAIN Ranked : Ranked[i] = l
Flagged == {"down", "cooldown", "blocked", "disabled"}
Healths == {"healthy", "degraded", "rate_limited", "unhealthy", "exhausted"}

NoRow == [health |-> "healthy", failures |-> 0, blocked |-> 0, disabled |-> 0,
          flag |-> "none", epoch |-> 1]

TypeOK ==
    /\ row \in [health : Healths, failures : 0 .. FailureThreshold,
                blocked : 0 .. 2, disabled : 0 .. 2,
                flag : Flagged \cup {"none"}, epoch : 1 .. MaxEpoch + 1]
    /\ IsFiniteSet(told)
    /\ open \in Flagged \cup {"none", "degraded"}

Init == row = NoRow /\ told = {} /\ open = "none"

\* One observation of ingestBatch; `cooldown': until after the observation.
\* The collectors count failures themselves; a probe that does not sends "none".
Observations ==
    [health : Healths, blocked : BOOLEAN, disabled : BOOLEAN, cooldown : BOOLEAN,
     counted : {"none", "zero", "many"}]

\* Mutant: the flags for a stopped credential are not read back.
StoredLevelDownOnly(r) ==
    IF r.flag = "down" THEN "down" ELSE IF r.health = "degraded" THEN "degraded" ELSE "none"
\* providerIncidentLevel.
StoredLevel(r) ==
    IF r.flag # "none" THEN r.flag ELSE IF r.health = "degraded" THEN "degraded" ELSE "none"

Healthy(o) == o.health = "healthy" /\ ~o.disabled /\ ~o.blocked

\* Counts matter up to their threshold.
Capped(n, limit) == IF n < limit THEN n ELSE limit

Failures(r, o) ==
    CASE o.counted = "zero" -> 0
      [] o.counted = "many" -> FailureThreshold
      [] OTHER -> IF Healthy(o) THEN 0 ELSE Capped(r.failures + 1, FailureThreshold)

Count(before, now) == IF now THEN Capped(before + 1, 2) ELSE 0

TargetLevel(r, o) ==
    LET failing == Failures(r, o) >= FailureThreshold
    IN  IF Count(r.disabled, o.disabled) >= 2 THEN "disabled"
        ELSE IF Count(r.blocked, o.blocked) >= 2 THEN "blocked"
        ELSE IF o.cooldown THEN "cooldown"
        ELSE IF failing THEN "down"
        ELSE IF o.health \in {"degraded", "rate_limited"} THEN "degraded" ELSE "none"

Escalates(r, o) == Rank(TargetLevel(r, o)) > Rank(StoredLevel(r))
LevelNow(r, o) == IF Escalates(r, o) THEN TargetLevel(r, o) ELSE StoredLevel(r)
EpochNow(r, o) == IF Escalates(r, o) THEN r.epoch + 1 ELSE r.epoch
Recovers(r, o) == Healthy(o) /\ LevelNow(r, o) # "none"

\* An incident may open and close within one observation.
Alerts(r, o) ==
    (IF Escalates(r, o) THEN {<<TargetLevel(r, o), EpochNow(r, o)>>} ELSE {})
    \cup (IF Recovers(r, o) THEN {<<"recovered", LevelNow(r, o), EpochNow(r, o)>>} ELSE {})

Stored(r, o) ==
    LET level == IF Recovers(r, o) THEN "none" ELSE LevelNow(r, o)
        Kept(n) == IF Healthy(o) THEN 0 ELSE n
    IN  [health |-> o.health, failures |-> Kept(Failures(r, o)),
         blocked |-> Kept(Count(r.blocked, o.blocked)),
         disabled |-> Kept(Count(r.disabled, o.disabled)),
         flag |-> IF level \in Flagged THEN level ELSE "none", epoch |-> EpochNow(r, o)]

upsertProviderTracker(o) == row' = Stored(row, o)
recordEvent(o) == told' = told \cup Alerts(row, o)

Ingest(o) ==
    /\ row.epoch <= MaxEpoch
    /\ upsertProviderTracker(o) /\ recordEvent(o)
    /\ open' = IF Recovers(row, o) THEN "none"
               ELSE IF Escalates(row, o) THEN TargetLevel(row, o) ELSE open

\* An observation that is not newer than the row's changes nothing.
IngestLate == UNCHANGED vars

Next == (\E o \in Observations : Ingest(o)) \/ IngestLate

Spec == Init /\ [][Next]_vars

(***************************************************************************)
(* Properties                                                              *)
(***************************************************************************)
\* An outage is announced once and ended once, however lossy the stored row:
\* while a level above `degraded' stands announced, only a worse one is
\* announced after it, the first healthy observation announces the recovery,
\* and a recovery always answers an announcement.  Each is an event the store
\* has not seen.
OutagesClosed ==
    [][LET new == told' \ told
           alarms == {e \in new : e[1] # "recovered"}
           ends == new \ alarms
       IN  /\ open \in Flagged => \A e \in alarms : Rank(e[1]) > Rank(open)
           /\ open \in Flagged /\ row'.health = "healthy"
                /\ row'.blocked = 0 /\ row'.disabled = 0 => ends # {}
           /\ ends # {} => open # "none" \/ alarms # {}]_vars
=============================================================================
