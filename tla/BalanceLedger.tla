--------------------------- MODULE BalanceLedger ---------------------------
(***************************************************************************)
(* The balance of one AgentRouter account in both databases.  A check is   *)
(* stored with its credit row (Store.saveRun, src/storage.ts) and, after   *)
(* the Telegram message, recorded by the observatory, which compares it    *)
(* with the account's tracker and tells of grants, drops and low balances  *)
(* (recordAgentRouterRun, src/observatory/coordinator.ts).  The endpoint   *)
(* poller keeps rows of its own.  What older versions stored gets its      *)
(* credit rows when the process starts.                                    *)
(***************************************************************************)
EXTENDS Integers, SequencesExt

CONSTANTS
    Balances,            \* what the account may hold
    LowBalance, Rearmed, LargeDrop,   \* 50, 55 and 25
    MaxChecks,           \* bound: checks and polls
    MaxSteps             \* bound: set-backs of the clock, lost records, ends of the process

VARIABLES
    up, clock,
    runs,                \* the runs, by id
    credits, grantRows,  \* credit_observations: run and previous; credit_grant_events:
                         \* event and run
    pending,             \* the run that is stored and not recorded yet, or 0
    copies,              \* observatory_agentrouter_check_runs: the runs recorded
    tracker,             \* observatory_agentrouter_trackers
    observed,            \* observatory_agentrouter_balance_observations
    alerts,              \* the fingerprints of the events
    endpoints, mirrored, \* the balances polled, in both databases
    reported,            \* the sum of their deltas told
    back, losses         \* for the bounds

vars == <<up, clock, runs, credits, grantRows, pending, copies, tracker, observed, alerts,
          endpoints, mirrored, reported, back, losses>>

None == -1
Untracked == [at |-> None, balance |-> None, low |-> FALSE, epoch |-> 1]

Run(ok, balance, grant, from, to) ==
    [ok |-> ok, balance |-> balance, grant |-> grant, started |-> from, ended |-> to]

TypeOK ==
    /\ \A r \in DOMAIN runs : runs[r].balance \in {None} \cup Balances
    /\ pending \in 0 .. Len(runs)
    /\ tracker.at \in {None} \cup Nat /\ tracker.balance \in {None} \cup Balances

\* Runs of older versions have no rows; the first of them knew no balances.
Init ==
    /\ up = FALSE
    /\ \E n \in 0 .. 2, b \in {None} \cup Balances, c \in Balances, g \in 0 .. 1 :
         runs = SubSeq(<<Run(TRUE, b, g, 0, 0), Run(TRUE, c, g, 1, 1)>>, 1, n)
    /\ clock = Len(runs)
    /\ credits = {} /\ grantRows = {} /\ pending = 0 /\ copies = {}
    /\ tracker = Untracked /\ observed = <<>> /\ alerts = {}
    /\ endpoints = <<>> /\ mirrored = <<>> /\ reported = 0
    /\ back = 0 /\ losses = 0

Checks == Len(runs) + Len(endpoints)

(***************************************************************************)
(* The process starts and ends                                             *)
(***************************************************************************)
Counted(rs) == {r \in DOMAIN rs : rs[r].ok /\ rs[r].balance # None}

\* Mutant: the rows are taken newest first.
BeforeDescending(q, r) == q > r
\* The order in which the backfill takes the rows.
Before(q, r) ==
    \/ runs[q].started < runs[r].started
    \/ runs[q].started = runs[r].started /\ q < r

backfillCreditObservations ==
    LET Missing == {r \in Counted(runs) : ~\E row \in credits : row.run = r}
        Earlier(r) == {q \in Counted(runs) : Before(q, r)}
        Newest(rs) == CHOOSE q \in rs : \A p \in rs \ {q} : Before(p, q)
    IN  credits \cup
        {[run |-> r, previous |-> IF Earlier(r) = {} THEN None
                                  ELSE runs[Newest(Earlier(r))].balance] : r \in Missing}

\* A grant is known by the id that its source gave it: the first run that lists it
\* keeps it, and INSERT OR IGNORE passes over the others.
backfillCreditGrantEvents ==
    LET RunsWith(event) == {r \in DOMAIN runs : runs[r].grant = event}
        Missing == {runs[r].grant : r \in DOMAIN runs} \ ({0} \cup {row.event : row \in grantRows})
    IN  grantRows \cup {[event |-> e, run |-> Min(RunsWith(e))] : e \in Missing}

Start ==
    /\ ~up /\ up' = TRUE
    /\ credits' = backfillCreditObservations
    /\ grantRows' = backfillCreditGrantEvents
    /\ UNCHANGED <<clock, runs, pending, copies, tracker, observed, alerts, endpoints,
                   mirrored, reported, back, losses>>

Lost == losses < MaxSteps /\ losses' = losses + 1

Crash ==
    /\ up /\ up' = FALSE /\ pending' = 0 /\ Lost
    /\ UNCHANGED <<clock, runs, credits, grantRows, copies, tracker, observed, alerts,
                   endpoints, mirrored, reported, back>>

SetBack ==
    /\ back < MaxSteps /\ back' = back + 1 /\ clock' \in 0 .. clock - 1
    /\ UNCHANGED <<up, runs, credits, grantRows, pending, copies, tracker, observed, alerts,
                   endpoints, mirrored, reported, losses>>

(***************************************************************************)
(* A check ends.  A run that failed at the logout knows the balance.  The  *)
(* worker lists no grants and no usage any more: older runs may have some. *)
(***************************************************************************)
Previous ==
    LET oks == {r \in DOMAIN runs : runs[r].ok}
    IN  IF oks = {} THEN None ELSE runs[Max(oks)].balance

saveRun(r) ==
    /\ up /\ pending = 0 /\ Checks < MaxChecks
    /\ r.ok => r.balance # None
    /\ \/ r.ended = clock + 1 /\ UNCHANGED back
       \/ back < MaxSteps /\ back' = back + 1 /\ r.ended < clock
    /\ runs' = Append(runs, r) /\ clock' = r.ended /\ pending' = Len(runs) + 1
    /\ credits' = IF r.ok THEN credits \cup {[run |-> Len(runs) + 1, previous |-> Previous]}
                          ELSE credits
    /\ UNCHANGED <<up, grantRows, copies, tracker, observed, alerts, endpoints, mirrored,
                   reported, losses>>

(***************************************************************************)
(* The observatory's record of it                                          *)
(***************************************************************************)
validateObservatoryAgentRouterRun(r) == r.started <= r.ended

\* Mutant: the alarm is armed again under the number it had.
NextEpochKept(t, balance) == t.epoch
\* The number of the dip, in the fingerprint of its alert.
NextEpoch(t, balance) == IF t.low /\ balance > Rearmed THEN t.epoch + 1 ELSE t.epoch

NextTracker(t, balance, at) ==
    [at |-> at, balance |-> balance, epoch |-> NextEpoch(t, balance),
     low |-> balance <= LowBalance \/ (t.low /\ balance <= Rearmed)]

evaluateAgentRouterBalanceTransition(t, balance, at) ==
    LET next == NextTracker(t, balance, at)
    IN  IF t.at # None /\ at <= t.at THEN [next |-> t, events |-> {}]
        ELSE [next |-> next,
              events |->
                (IF t.balance # None /\ t.balance - balance >= LargeDrop
                 THEN {<<"drop", at, t.balance, balance>>} ELSE {})
                \cup (IF next.low /\ ~t.low THEN {<<"low", next.epoch>>} ELSE {})]

\* A balance above the last one is a grant.
Grant(balance, at) ==
    IF tracker.balance # None /\ balance > tracker.balance
    THEN {<<"grant", at, balance - tracker.balance>>} ELSE {}

copyRun == copies' = copies \cup {pending}
Observation(balance) == [run |-> pending, balance |-> balance, previous |-> tracker.balance]

\* All of it or, with times that are refused or a database that is busy, nothing.
recordAgentRouterRun ==
    /\ pending # 0 /\ pending' = 0
    /\ LET r == runs[pending]
           transition == evaluateAgentRouterBalanceTransition(tracker, r.balance, r.ended)
       IN  \/ /\ validateObservatoryAgentRouterRun(r) /\ copyRun /\ UNCHANGED losses
              /\ IF r.balance = None THEN UNCHANGED <<tracker, observed, alerts>>
                 ELSE /\ tracker' = transition.next
                      /\ observed' = Append(observed, Observation(r.balance))
                      /\ alerts' = alerts \cup transition.events \cup Grant(r.balance, r.ended)
           \/ /\ ~validateObservatoryAgentRouterRun(r)
              /\ UNCHANGED <<copies, tracker, observed, alerts, losses>>
           \/ Lost /\ UNCHANGED <<copies, tracker, observed, alerts>>
    /\ UNCHANGED <<up, clock, runs, credits, grantRows, endpoints, mirrored, reported,
                   back>>

(***************************************************************************)
(* A poll: an error is a row as well, and passed over by the comparison    *)
(***************************************************************************)
\* Mutant: the row before, whatever it says.
PreviousPollOfAny == IF endpoints = <<>> THEN None ELSE endpoints[Len(endpoints)]
PreviousPoll ==
    LET oks == {i \in DOMAIN endpoints : endpoints[i] # None}
    IN  IF oks = {} THEN None ELSE endpoints[Max(oks)]

getEndpointBalanceObservation(balance) ==
    IF balance = None \/ PreviousPoll = None THEN 0 ELSE balance - PreviousPoll

\* What the read-only paths come to: the first valid balance, or an error.
pollAccountEndpoints == {None} \cup Balances

recordAgentRouterEndpointObservation(balance) ==
    \/ mirrored' = Append(mirrored, balance) /\ UNCHANGED losses
    \/ Lost /\ UNCHANGED mirrored

saveEndpointObservation(balance) ==
    /\ up /\ Checks < MaxChecks
    /\ endpoints' = Append(endpoints, balance)
    /\ reported' = reported + getEndpointBalanceObservation(balance)
    /\ recordAgentRouterEndpointObservation(balance)
    /\ UNCHANGED <<up, clock, runs, credits, grantRows, pending, copies, tracker, observed,
                   alerts, back>>

Next ==
    \/ Start \/ Crash \/ SetBack \/ recordAgentRouterRun
    \/ \E ok \in BOOLEAN, b \in {None} \cup Balances, to \in 0 .. clock + 1 :
         saveRun(Run(ok, b, 0, clock, to))
    \/ \E b \in pollAccountEndpoints : saveEndpointObservation(b)

Spec == Init /\ [][Next]_vars

(***************************************************************************)
(* Properties                                                              *)
(***************************************************************************)
\* The observations at which the balance fell below the threshold for the first
\* time since it was last well above it.
Dips ==
    {i \in DOMAIN observed :
      /\ observed[i].balance <= LowBalance
      /\ \A j \in 1 .. i - 1 : observed[j].balance <= LowBalance =>
           \E k \in j + 1 .. i - 1 : observed[k].balance > Rearmed}
Moment(i) == runs[observed[i].run].ended
Change(i) == observed[i].balance - observed[i - 1].balance
Rose == {i \in DOMAIN observed : i > 1 /\ Change(i) > 0}
Fell == {i \in DOMAIN observed : i > 1 /\ -Change(i) >= LargeDrop}
Of(type) == {e \in alerts : e[1] = type}

AlertsAgree ==
    /\ Of("grant") = {<<"grant", Moment(i), Change(i)>> : i \in Rose}
    /\ Of("drop") = {<<"drop", Moment(i), observed[i - 1].balance, observed[i].balance>> :
                     i \in Fell}
    /\ Of("low") = {<<"low", n>> : n \in 1 .. Cardinality(Dips)}
    /\ \A i, j \in DOMAIN observed : Moment(i) = Moment(j) => i = j

CreditsAgree ==
    \A row \in credits : row.previous =
      LET earlier == {r \in 1 .. row.run - 1 : runs[r].ok}
      IN  IF earlier = {} THEN None ELSE runs[Max(earlier)].balance

RowsComplete ==
    \A r \in DOMAIN runs :
      /\ r \in Counted(runs) <=> \E row \in credits : row.run = r
      /\ runs[r].grant # 0 =>
           \E row \in grantRows : /\ row.run <= r
                                  /\ \A other \in grantRows :
                                       other.event = runs[r].grant <=> other = row

PollsAgree ==
    reported = LET oks == {i \in DOMAIN endpoints : endpoints[i] # None}
               IN  IF oks = {} THEN 0 ELSE endpoints[Max(oks)] - endpoints[Min(oks)]

\* As long as the clock is not set back, what the observatory tells of an account
\* is what its observations show, whatever records or processes are lost in between:
\* a grant for each rise with its amount, an alert for each large drop and, under a
\* number of its own, for each dip.  Every successful run has one credit row,
\* which compares it with the successful run before it, no matter whether the run or a
\* later start wrote it; and no grant is missing or doubled.
LedgerAgrees ==
    /\ back = 0 => AlertsAgree
    /\ CreditsAgree
    /\ up => RowsComplete
    /\ PollsAgree
=============================================================================
