----------------------------- MODULE GrantAlerts -----------------------------
(***************************************************************************)
(* The Telegram alerts about one AgentRouter account: every run is stored  *)
(* (src/storage.ts) and then told (TelegramNotifier.processRun,            *)
(* src/telegram.ts), while the endpoint poller tells of balances on its    *)
(* own.  What was told is remembered in a file, written anew and renamed   *)
(* by each of them, in no order between the two.                           *)
(***************************************************************************)
EXTENDS Integers, Sequences, FiniteSetsExt

CONSTANTS
    RepeatedFailures,    \* repeatedFailureCount
    MaxRuns, MaxGrants,  \* bounds: the runs, and the grants that one of them finds
    MaxPolls, MaxCrashes \* bounds: endpoint observations, ends of the process

VARIABLES
    runs,                \* the number of runs stored; ids count them
    grants,              \* credit_grant_events: the run of each, in the order of ids
    mem, disk,           \* TelegramState, in memory and in the file
    run, poll,           \* processRun and processEndpointObservation
    told,                \* how often each grant reached the chat
    mishaps,             \* lost answers, failed writes and ends of the process
    polls, crashes       \* for the bounds

vars == <<runs, grants, mem, disk, run, poll, told, mishaps, polls, crashes>>

Fresh == [lastGrantId |-> 0, low |-> FALSE, failures |-> 0, alerted |-> FALSE, lastRun |-> 0]
Off == [at |-> "off", then |-> "off", snap |-> Fresh, seen |-> "fair"]

\* `rise' stands for every reason to tell of a balance but a grant.
Balances == {"low", "fair", "rise"}

TypeOK ==
    /\ runs \in 0 .. MaxRuns
    /\ mem.lastGrantId \in 0 .. Len(grants) /\ disk.lastGrantId \in 0 .. Len(grants)
    /\ mem.failures \in 0 .. RepeatedFailures /\ Len(told) = Len(grants)
    /\ mishaps \in BOOLEAN

Init ==
    /\ runs = 0 /\ grants = <<>> /\ told = <<>>
    /\ mem = Fresh /\ disk = Fresh
    /\ run = Off /\ poll = Off
    /\ mishaps = FALSE /\ polls = 0 /\ crashes = 0

(***************************************************************************)
(* Writing the file: the state is taken after a first await, and lands     *)
(* with the rename.  A failed write throws to the end of the handler.      *)
(***************************************************************************)
Save(p, to) == [p EXCEPT !.at = "write", !.then = to]

Written(p) == [p EXCEPT !.at = "rename", !.snap = mem]
Renamed(p) == IF p.then = "off" THEN Off ELSE [Off EXCEPT !.at = p.then, !.seen = p.seen]
Thrown(p, end) == IF p.then = "off" THEN Off ELSE [p EXCEPT !.at = end]

save ==
    \/ /\ run.at = "write" /\ run' = Written(run)
       /\ UNCHANGED <<runs, grants, mem, disk, poll, told, mishaps, polls, crashes>>
    \/ /\ poll.at = "write" /\ poll' = Written(poll)
       /\ UNCHANGED <<runs, grants, mem, disk, run, told, mishaps, polls, crashes>>
    \/ /\ run.at = "rename"
       /\ \/ disk' = run.snap /\ run' = Renamed(run) /\ UNCHANGED mishaps
          \/ UNCHANGED disk /\ run' = Thrown(run, "finally") /\ mishaps' = TRUE
       /\ UNCHANGED <<runs, grants, mem, poll, told, polls, crashes>>
    \/ /\ poll.at = "rename"
       /\ \/ disk' = poll.snap /\ poll' = Renamed(poll) /\ UNCHANGED mishaps
          \/ UNCHANGED disk /\ poll' = Off /\ mishaps' = TRUE
       /\ UNCHANGED <<runs, grants, mem, run, told, polls, crashes>>

(***************************************************************************)
(* A run                                                                   *)
(***************************************************************************)
\* One transaction stores the run and the grants that are new to the table.
saveRun(ok, n, balance) ==
    /\ run.at = "off" /\ runs < MaxRuns
    /\ runs' = runs + 1
    /\ grants' = grants \o [i \in 1 .. n |-> runs + 1]
    /\ told' = told \o [i \in 1 .. n |-> 0]
    /\ run' = [Off EXCEPT !.at = IF ok THEN "recovery" ELSE "failure", !.seen = balance]
    /\ UNCHANGED <<mem, disk, poll, mishaps, polls, crashes>>

\* A message arrives and is answered, arrives unanswered, or does not arrive.
Outcomes == {"sent", "unanswered", "refused"}
Unsent(outcome) == mishaps' = (mishaps \/ outcome = "unanswered")

processFailure ==
    /\ run.at = "failure"
    /\ mem' = [mem EXCEPT !.failures = IF @ < RepeatedFailures THEN @ + 1 ELSE @]
    /\ run' = Save(run, "alarm")
    /\ UNCHANGED <<runs, grants, disk, poll, told, mishaps, polls, crashes>>

Alarm ==
    /\ run.at = "alarm"
    /\ IF mem.alerted \/ mem.failures < RepeatedFailures
       THEN run' = [run EXCEPT !.at = "finally"] /\ UNCHANGED <<mem, mishaps>>
       ELSE \E outcome \in Outcomes :
              /\ Unsent(outcome)
              /\ IF outcome = "sent"
                 THEN mem' = [mem EXCEPT !.alerted = TRUE] /\ run' = Save(run, "finally")
                 ELSE UNCHANGED mem /\ run' = [run EXCEPT !.at = "finally"]
    /\ UNCHANGED <<runs, grants, disk, poll, told, polls, crashes>>

processRecovery ==
    /\ run.at = "recovery"
    /\ IF ~mem.alerted
       THEN mem' = [mem EXCEPT !.failures = 0] /\ run' = Save(run, "financial")
            /\ UNCHANGED mishaps
       ELSE \E outcome \in Outcomes :
              /\ Unsent(outcome)
              /\ mem' = [mem EXCEPT !.failures = 0, !.alerted = outcome # "sent"]
              /\ run' = IF outcome = "sent" THEN Save(run, "financial")
                                            ELSE [run EXCEPT !.at = "finally"]
    /\ UNCHANGED <<runs, grants, disk, poll, told, polls, crashes>>

\* Grants that were not told yet, those of other runs first.
Pending == {g \in DOMAIN grants : g > mem.lastGrantId}
Older == {g \in Pending : grants[g] # runs}
NextGroup == IF Older = {} THEN Pending
             ELSE {g \in Older : grants[g] = grants[Min(Older)]}

\* processBalanceAlert of an observation, or the message of a grant without one.
\* What is due was seen before the message went out.
Tells(p, group) == group # {} \/ p.seen = "rise" \/ (p.seen = "low" /\ ~mem.low)
LowAfter(p, sent) ==
    IF sent THEN mem.low \/ p.seen = "low" ELSE mem.low /\ p.seen = "low"

\* Mutant: the mark moves before the message is sent.
MarkFirst(group) == [mem EXCEPT !.lastGrantId = IF group = {} THEN @ ELSE Max(group)]
\* What is marked while the message is on its way.
Mark(group) == mem

processFinancialNotifications ==
    /\ run.at = "financial"
    /\ \E b \in IF Older = {} THEN {run.seen} ELSE Balances :
       LET group == NextGroup
           own == [run EXCEPT !.seen = b]
       IN  IF ~Tells(own, group)
           THEN /\ mem' = [mem EXCEPT !.low = LowAfter(own, FALSE)]
                /\ run' = Save(run, "finally") /\ UNCHANGED <<told, mishaps>>
           ELSE \E outcome \in Outcomes :
                  /\ Unsent(outcome)
                  /\ told' = [g \in DOMAIN told |->
                       IF g \in group /\ outcome # "refused" THEN told[g] + 1 ELSE told[g]]
                  /\ IF outcome = "sent"
                     THEN /\ mem' = [Mark(group) EXCEPT !.low = LowAfter(own, TRUE)]
                          /\ run' = Save(run, "mark")
                     ELSE mem' = Mark(group) /\ run' = [run EXCEPT !.at = "finally"]
    /\ UNCHANGED <<runs, grants, disk, poll, polls, crashes>>

\* The group that was told is marked, with a write of its own.
MarkGrants ==
    /\ run.at = "mark"
    /\ IF NextGroup = {} THEN UNCHANGED mem /\ run' = [run EXCEPT !.at = "finally"]
       ELSE /\ mem' = [mem EXCEPT !.lastGrantId = Max(NextGroup)]
            /\ run' = Save(run, IF Older = {} THEN "finally" ELSE "financial")
    /\ UNCHANGED <<runs, grants, disk, poll, told, mishaps, polls, crashes>>

Finally ==
    /\ run.at = "finally"
    /\ mem' = [mem EXCEPT !.lastRun = runs] /\ run' = Save(run, "off")
    /\ UNCHANGED <<runs, grants, disk, poll, told, mishaps, polls, crashes>>

(***************************************************************************)
(* An observation of the poller, and the process                           *)
(***************************************************************************)
Poll(balance) ==
    /\ poll.at = "off" /\ polls < MaxPolls /\ polls' = polls + 1
    /\ LET p == [Off EXCEPT !.seen = balance]
       IN  IF Tells(p, {}) THEN poll' = [p EXCEPT !.at = "send"] /\ UNCHANGED mem
           ELSE mem' = [mem EXCEPT !.low = LowAfter(p, FALSE)] /\ poll' = Save(p, "off")
    /\ UNCHANGED <<runs, grants, disk, run, told, mishaps, crashes>>

PollSent ==
    /\ poll.at = "send"
    /\ \/ mem' = [mem EXCEPT !.low = LowAfter(poll, TRUE)] /\ poll' = Save(poll, "off")
       \/ UNCHANGED mem /\ poll' = Off
    /\ UNCHANGED <<runs, grants, disk, run, told, mishaps, polls, crashes>>

\* The file is read again at the start.
Crash ==
    /\ crashes < MaxCrashes /\ crashes' = crashes + 1
    /\ mem' = disk /\ run' = Off /\ poll' = Off /\ mishaps' = TRUE
    /\ UNCHANGED <<runs, grants, disk, told, polls>>

processRun ==
    processFailure \/ Alarm \/ processRecovery \/ processFinancialNotifications
    \/ MarkGrants \/ Finally

Next ==
    \/ \E ok \in BOOLEAN, n \in 0 .. MaxGrants, b \in Balances : saveRun(ok, n, b)
    \/ \E b \in Balances : Poll(b)
    \/ save \/ processRun \/ PollSent \/ Crash

Spec == Init /\ [][Next]_vars

(***************************************************************************)
(* Properties                                                              *)
(***************************************************************************)
\* No grant is passed over: whatever fails, ends or is overwritten by the other
\* writer's older file, the mark stays behind the grants that did not reach the
\* chat; and without such a mishap each reaches it at most once.
GrantsTold ==
    /\ \A g \in DOMAIN grants :
         g <= mem.lastGrantId \/ g <= disk.lastGrantId => told[g] >= 1
    /\ ~mishaps => \A g \in DOMAIN grants : told[g] <= 1
=============================================================================
