----------------------------- MODULE DigestSlots -----------------------------
(***************************************************************************)
(* The digests of one policy: the pass of the retention loop               *)
(* (processDueDigests, src/observatory/coordinator.ts), the slots of a     *)
(* schedule (getDueDigestSlot, src/observatory/policies.ts) and their      *)
(* claim in the store.  The clock may be set back, the schedule edited,    *)
(* the policy deleted and made again and the events of old digests pruned: *)
(* only the watermark and the fingerprints still in the table remember.    *)
(***************************************************************************)
EXTENDS Integers, Sequences

CONSTANTS
    Hour, Day, Interval,   \* ticks of the slots; two ticks are a minute
    Retention,             \* retentionDays, in ticks: more than a slot and a set-back
    MaxClock, MaxBack      \* bounds: the clock, and how often it is set back by a minute

VARIABLES
    clock,                 \* ticks
    schedule,              \* digestSchedule of the policy, "none" without one
    watermark,             \* observatory_digest_watermarks: the last slot and its time
    events,                \* the digest_ready events: slots, unique by fingerprint
    claims,                \* all that were claimed, in order
    routed,                \* whether the last one got its delivery
    back                   \* for the bound

vars == <<clock, schedule, watermark, events, claims, routed, back>>

Schedules == {"none", "hourly", "daily", "interval"}
NoWatermark == [key |-> <<"none">>, at |-> -1]

TypeOK ==
    /\ clock \in 0 .. MaxClock /\ schedule \in Schedules
    /\ watermark.at \in -1 .. MaxClock
    /\ \A e \in events : e.at \in 0 .. MaxClock
    /\ routed \in BOOLEAN

Init ==
    /\ clock = 0 /\ schedule = "none" /\ watermark = NoWatermark
    /\ events = {} /\ claims = <<>> /\ routed = TRUE /\ back = 0

getDigestSlotKey(s, t) ==
    CASE s = "hourly"   -> <<s, t \div Hour>>
      [] s = "daily"    -> <<s, t \div Day>>
      [] s = "interval" -> <<s, t \div Interval>>

\* Hourly digests are due in the first minute, daily ones in the one they name.
getDueDigestSlot(s, t, last) ==
    /\ s # "none" /\ getDigestSlotKey(s, t) # last
    /\ CASE s = "hourly"   -> t % Hour < 2
         [] s = "daily"    -> t % Day \in {2, 3}
         [] s = "interval" -> TRUE

Recorded(key) == \E e \in events : e.key = key

\* Mutant: the watermark alone tells whether a slot was claimed.
ClaimableByKey(key, t) == watermark.key # key
Claimable(key, t) == watermark.key # key /\ t > watermark.at /\ ~Recorded(key)

\* The pass after the claim may be cut off by the end of the process.
claimDigestSlot(key, t) ==
    /\ watermark' = [key |-> key, at |-> t]
    /\ events' = events \cup {[key |-> key, at |-> t]}
    /\ claims' = Append(claims, [key |-> key, at |-> t])
    /\ routed' \in BOOLEAN

ProcessDueDigests ==
    /\ getDueDigestSlot(schedule, clock, watermark.key)
    /\ LET key == getDigestSlotKey(schedule, clock)
       IN  Claimable(key, clock) /\ claimDigestSlot(key, clock)
    /\ UNCHANGED <<clock, schedule, back>>

\* PUT and DELETE of the policy leave the watermark alone.
Edit(s) ==
    /\ schedule # s /\ schedule' = s
    /\ UNCHANGED <<clock, watermark, events, claims, routed, back>>

Prune ==
    /\ events' = {e \in events : e.at >= clock - Retention} /\ events' # events
    /\ UNCHANGED <<clock, schedule, watermark, claims, routed, back>>

Tick ==
    /\ clock < MaxClock /\ clock' = clock + 1
    /\ UNCHANGED <<schedule, watermark, events, claims, routed, back>>

SetBack ==
    /\ back < MaxBack /\ back' = back + 1
    /\ clock >= 2 /\ clock' = clock - 2
    /\ UNCHANGED <<schedule, watermark, events, claims, routed>>

Next == ProcessDueDigests \/ (\E s \in Schedules : Edit(s)) \/ Prune \/ Tick \/ SetBack

Spec == Init /\ [][Next]_vars

(***************************************************************************)
(* Properties                                                              *)
(***************************************************************************)
\* No slot of a schedule gets two digests and their times only grow, whatever
\* is edited, deleted, pruned or set back in between.
DigestsOnce ==
    \A i, j \in DOMAIN claims : i < j =>
        claims[i].key # claims[j].key /\ claims[i].at < claims[j].at
=============================================================================
