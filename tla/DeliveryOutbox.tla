--------------------------- MODULE DeliveryOutbox ---------------------------
(***************************************************************************)
(* The notification outbox of the observatory: the deliveries table        *)
(* (src/observatory/store.ts) and processOutboxOnce, which leases and      *)
(* sends them (src/observatory/delivery.ts).                               *)
(*                                                                         *)
(* Many passes of processOutboxOnce run at once, each started by whoever   *)
(* recorded an event.  A pass runs to completion up to its await of the    *)
(* send, so at most one pass is "claiming"; while it is, no other code     *)
(* runs.  Every statement on the table is one transaction and survives a   *)
(* crash; passes do not.  Time is relative: a lease has a time to live,    *)
(* a pass boundary a lead over the clock.  The random lease token is the   *)
(* pass that holds it: a pass waits for one send at a time.                *)
(***************************************************************************)
EXTENDS Integers, FiniteSets

CONSTANTS
    Events,            \* events the policies route; they are recorded in order
    Passes,            \* bound: passes under way at once
    MaxItems,          \* the limits processOutboxOnce is called with
    MaxRetries, LeaseDuration,
    MaxLead,           \* bound: how far the boundary runs ahead of the clock
    MaxCrashes,        \* bound: crashes of the hub
    MaxSlow            \* bound: sends that outlive their lease

NoEvent == 0
NoPass == "none"

ASSUME OutboxAssumption ==
    /\ Events \subseteq Nat \ {NoEvent}
    /\ NoPass \notin Passes /\ IsFiniteSet(Passes)
    /\ MaxItems \subseteq Nat \ {0}
    /\ MaxRetries \in Nat \ {0} /\ LeaseDuration \in Nat \ {0}
    /\ {MaxLead, MaxCrashes, MaxSlow} \subseteq Nat

VARIABLES
    rows,              \* observatory_notification_deliveries, by event
    events,            \* observatory_events
    old,               \* the events past the retention cutoff
    passes,            \* the calls of processOutboxOnce under way
    ahead,             \* lastPassBoundaryMs - now; -1: it is in the past
    telegram,          \* the notifier was created when the process started
    copies,            \* history: sends of the event that reached the chat (<= 2)
    expired, lost,     \* history: events whose lease ran out in a send, and
                       \* those that arrived while their answer got lost
    budget             \* crashes and slow sends so far

vars == <<rows, events, old, passes, ahead, telegram, copies, expired, lost, budget>>

Statuses == {"pending", "sending", "sent", "failed", "silenced"}
\* fresh: last_attempt_at is the current millisecond.
Row == [status : Statuses, attempts : Nat, holder : Passes \cup {NoPass},
        ttl : -1 .. LeaseDuration, fresh : BOOLEAN]
\* retryable: the rows whose last attempt is before the pass boundary.
\* failedHere: history, the rows that failed during this call.
Pass == [phase : {"none", "claiming", "sending"}, items : Nat,
         lead : 0 .. MaxLead, retryable : SUBSET Events,
         event : Events \cup {NoEvent}, arrived : BOOLEAN,
         failedHere : SUBSET Events]

NoCall == [phase |-> "none", items |-> 0, lead |-> 0, retryable |-> {},
           event |-> NoEvent, arrived |-> FALSE, failedHere |-> {}]

Recorded == DOMAIN rows

TypeOK ==
    /\ Recorded \subseteq Events /\ \A e \in Recorded : rows[e] \in Row
    /\ events \subseteq Events /\ old \subseteq Events
    /\ passes \in [Passes -> Pass]
    /\ ahead \in -1 .. MaxLead /\ telegram \in BOOLEAN
    /\ copies \in [Events -> 0 .. 2]
    /\ expired \subseteq Events /\ lost \subseteq Events
    /\ budget \in [crashes : Nat, slow : Nat]

Init ==
    /\ rows = [e \in {} |-> 0] /\ events = {} /\ old = {}
    /\ passes = [p \in Passes |-> NoCall]
    /\ ahead = -1 /\ telegram \in BOOLEAN
    /\ copies = [e \in Events |-> 0] /\ expired = {} /\ lost = {}
    /\ budget = [crashes |-> 0, slow |-> 0]

\* No pass is running JavaScript: timers, answers and other code may run.
Quiet == \A p \in Passes : passes[p].phase # "claiming"

(***************************************************************************)
(* recordEvent and routeStoredEvent, in one transaction: a new event gets  *)
(* a pending delivery.  A repeated event leaves its delivery as it is.     *)
(***************************************************************************)
NewRow == [status |-> "pending", attempts |-> 0, holder |-> NoPass,
           ttl |-> -1, fresh |-> FALSE]

Record(e) ==
    /\ Quiet /\ e \notin events \cup old
    /\ \A x \in Events : x < e => x \in events \cup old
    /\ rows' = [x \in Recorded \cup {e} |-> IF x = e THEN NewRow ELSE rows[x]]
    /\ events' = events \cup {e}
    /\ UNCHANGED <<old, passes, ahead, telegram, copies, expired, lost, budget>>

(***************************************************************************)
(* One call of processOutboxOnce                                           *)
(***************************************************************************)
\* A boundary that is later than that of every earlier pass.
Boundary == IF ahead >= 0 THEN ahead + 1 ELSE 0

\* last_attempt_at < boundary, for a boundary `lead' ahead of the clock.
AttemptedBefore(lead) == {e \in Recorded : lead > 0 \/ ~rows[e].fresh}

BeginPass(p, n) ==
    /\ Quiet /\ passes[p].phase = "none" /\ Boundary <= MaxLead
    /\ ahead' = Boundary
    /\ passes' = [passes EXCEPT ![p] =
                    [NoCall EXCEPT !.phase = "claiming", !.items = n,
                                   !.lead = Boundary,
                                   !.retryable = AttemptedBefore(Boundary)]]
    /\ UNCHANGED <<rows, events, old, telegram, copies, expired, lost, budget>>

\* The rows that claimDeliveryLease may take, for a pass boundary.
\* Mutants: the retry limit, the expiry of the lease or the boundary is not
\* compared.
ClaimableWithoutLimit(retryable) ==
    {e \in Recorded :
       \/ rows[e].status = "pending"
       \/ rows[e].status = "sending" /\ rows[e].ttl < 0
       \/ rows[e].status = "failed" /\ e \in retryable}
ClaimableWhileSending(retryable) ==
    {e \in Recorded :
       \/ rows[e].status \in {"pending", "sending"}
       \/ /\ rows[e].status = "failed"
          /\ rows[e].attempts < MaxRetries /\ e \in retryable}
ClaimablePendingOnly(retryable) ==
    {e \in Recorded :
       \/ rows[e].status = "pending"
       \/ /\ rows[e].status = "failed"
          /\ rows[e].attempts < MaxRetries /\ e \in retryable}
Claimable(retryable) ==
    {e \in Recorded :
       \/ rows[e].status = "pending"
       \/ rows[e].status = "sending" /\ rows[e].ttl < 0
       \/ /\ rows[e].status = "failed"
          /\ rows[e].attempts < MaxRetries /\ e \in retryable}

NextRow(retryable) ==
    {e \in Claimable(retryable) : \A x \in Claimable(retryable) : e <= x}

Released(row, status) ==
    [row EXCEPT !.status = status, !.holder = NoPass, !.ttl = -1]

\* The loop of the pass goes on in the same turn; `failing' is the row that
\* this item failed.
NextItem(pass, failing) ==
    IF pass.items = 1 THEN NoCall
    ELSE [pass EXCEPT !.phase = "claiming", !.items = @ - 1,
                      !.event = NoEvent, !.arrived = FALSE,
                      !.failedHere = @ \cup failing]

\* last_attempt_at becomes now, which is before the boundary of the passes
\* that lead the clock only.
Touched(e) ==
    [p \in Passes |->
       [passes[p] EXCEPT !.retryable =
          IF passes[p].lead > 0 THEN @ \cup {e} ELSE @ \ {e}]]

\* claimDeliveryLease; without an event or a notifier the row fails at once.
Claim(p, e) ==
    /\ passes[p].phase = "claiming" /\ e \in NextRow(passes[p].retryable)
    /\ LET held == [rows[e] EXCEPT !.status = "sending", !.holder = p,
                      !.ttl = LeaseDuration, !.attempts = @ + 1, !.fresh = TRUE]
       IN IF e \in events /\ telegram
          THEN /\ rows' = [rows EXCEPT ![e] = held]
               /\ passes' = [Touched(e) EXCEPT ![p].phase = "sending",
                                               ![p].event = e]
          ELSE /\ rows' = [rows EXCEPT ![e] =
                     Released(held, IF e \in events THEN "failed" ELSE "silenced")]
               /\ passes' = [Touched(e) EXCEPT ![p] = NextItem(@, {e})]
    /\ UNCHANGED <<events, old, ahead, telegram, copies, expired, lost, budget>>

NothingToClaim(p) ==
    /\ passes[p].phase = "claiming" /\ Claimable(passes[p].retryable) = {}
    /\ passes' = [passes EXCEPT ![p] = NoCall]
    /\ UNCHANGED <<rows, events, old, ahead, telegram, copies, expired, lost, budget>>

\* The message reaches the chat.  The transport repeats a request whose answer
\* it lost, so one send can arrive more than once.
Arrive(p) ==
    /\ Quiet /\ passes[p].phase = "sending"
    /\ passes' = [passes EXCEPT ![p].arrived = TRUE]
    /\ LET e == passes[p].event IN
         /\ copies' = [copies EXCEPT ![e] = IF @ = 2 THEN 2 ELSE @ + 1]
         /\ lost' = IF passes[p].arrived THEN lost \cup {e} ELSE lost
    /\ UNCHANGED <<rows, events, old, ahead, telegram, expired, budget>>

\* markDeliverySent or markDeliveryFailed, fenced by the lease token.
Holds(p, e) == e \in Recorded /\ rows[e].status = "sending" /\ rows[e].holder = p

\* Mutant: the answer is applied without the fence.
AnswerUnfenced(p, ok) ==
    /\ Quiet /\ passes[p].phase = "sending" /\ (ok => passes[p].arrived)
    /\ LET e == passes[p].event IN
         /\ rows' = [x \in Recorded |->
              IF x = e THEN Released(rows[e], IF ok THEN "sent" ELSE "failed")
                       ELSE rows[x]]
         /\ passes' = [passes EXCEPT ![p] = NextItem(@, IF ok THEN {} ELSE {e})]
         /\ lost' = IF passes[p].arrived /\ ~ok THEN lost \cup {e} ELSE lost
    /\ UNCHANGED <<events, old, ahead, telegram, copies, expired, budget>>

\* Mutant: a send that failed is taken for one that arrived.
AnswerAlwaysSent(p, ok) ==
    /\ Quiet /\ passes[p].phase = "sending" /\ (ok => passes[p].arrived)
    /\ LET e == passes[p].event IN
         /\ rows' = IF Holds(p, e)
                    THEN [rows EXCEPT ![e] = Released(@, "sent")] ELSE rows
         /\ passes' = [passes EXCEPT ![p] = NextItem(@, {})]
         /\ lost' = lost
    /\ UNCHANGED <<events, old, ahead, telegram, copies, expired, budget>>

\* The send resolves (then the message has arrived) or rejects.
Answer(p, ok) ==
    /\ Quiet /\ passes[p].phase = "sending" /\ (ok => passes[p].arrived)
    /\ LET e == passes[p].event IN
         /\ rows' = IF Holds(p, e)
                    THEN [rows EXCEPT ![e] = Released(@, IF ok THEN "sent" ELSE "failed")]
                    ELSE rows
         /\ passes' = [passes EXCEPT ![p] =
              NextItem(@, IF Holds(p, e) /\ ~ok THEN {e} ELSE {})]
         /\ lost' = IF passes[p].arrived /\ ~ok THEN lost \cup {e} ELSE lost
    /\ UNCHANGED <<events, old, ahead, telegram, copies, expired, budget>>

(***************************************************************************)
(* The clock, retention and crashes                                        *)
(***************************************************************************)
Later(n, floor) == IF n > floor THEN n - 1 ELSE floor

\* Passes whose lease runs out with this tick.
Overtaken == {p \in Passes : /\ passes[p].phase = "sending"
                             /\ Holds(p, passes[p].event)
                             /\ rows[passes[p].event].ttl = 0}

Tick ==
    /\ budget.slow + Cardinality(Overtaken) <= MaxSlow
    /\ budget' = [budget EXCEPT !.slow = @ + Cardinality(Overtaken)]
    /\ rows' = [e \in Recorded |->
                  [rows[e] EXCEPT !.ttl = Later(@, -1), !.fresh = FALSE]]
    /\ expired' = expired \cup
         {e \in Recorded : rows[e].status = "sending" /\ rows[e].ttl = 0}
    /\ ahead' = Later(ahead, -1)
    /\ passes' = [p \in Passes |-> [passes[p] EXCEPT !.lead = Later(@, 0)]]
    /\ UNCHANGED <<events, old, telegram, copies, lost>>

\* An event gets older than retentionDays.
Age(e) ==
    /\ e \in events \ old /\ old' = old \cup {e}
    /\ UNCHANGED <<rows, events, passes, ahead, telegram, copies, expired, lost,
                   budget>>

\* pruneRetention: the settled deliveries of old events, then the old events
\* that have no delivery left.
\* Mutant: a delivery that is being sent does not keep its event.
PruneSending ==
    /\ Quiet
    /\ rows' = [e \in {x \in Recorded : x \in old => rows[x].status \notin
                        {"sent", "silenced"}} |-> rows[e]]
    /\ events' = {e \in events : e \in old => e \in DOMAIN rows'
                                     /\ rows[e].status # "sending"}
    /\ UNCHANGED <<old, passes, ahead, telegram, copies, expired, lost, budget>>

Prune ==
    /\ Quiet
    /\ rows' = [e \in {x \in Recorded : x \in old => rows[x].status \notin
                        {"sent", "silenced"}} |-> rows[e]]
    /\ events' = {e \in events : e \in old => e \in DOMAIN rows'}
    /\ UNCHANGED <<old, passes, ahead, telegram, copies, expired, lost, budget>>

\* The process dies and is started again; only the database survives.
Restart ==
    /\ budget.crashes < MaxCrashes
    /\ budget' = [budget EXCEPT !.crashes = @ + 1]
    /\ passes' = [p \in Passes |-> NoCall] /\ ahead' = -1 /\ telegram' \in BOOLEAN
    /\ UNCHANGED <<rows, events, old, copies, expired, lost>>

StartPass == \E p \in Passes, n \in MaxItems : BeginPass(p, n)
Claiming == \E p \in Passes : NothingToClaim(p) \/ \E e \in Recorded : Claim(p, e)

Next ==
    \/ \E e \in Events : Record(e) \/ Age(e)
    \/ StartPass \/ Claiming \/ Tick \/ Prune \/ Restart
    \/ \E p \in Passes : Arrive(p) \/ \E ok \in BOOLEAN : Answer(p, ok)

Spec == Init /\ [][Next]_vars

(***************************************************************************)
(* Fairness: a turn of the event loop ends, a send has timeouts, the clock *)
(* advances, and passes recur: every poll of the coordinator whose probe   *)
(* succeeds ends in one (coordinator.ts:287), even if it recorded nothing. *)
(***************************************************************************)
Fairness ==
    /\ WF_vars(Claiming) /\ SF_vars(StartPass) /\ SF_vars(Tick)
    /\ \A p \in Passes : WF_vars(\E ok \in BOOLEAN : Answer(p, ok))

FairSpec == Spec /\ Fairness

(***************************************************************************)
(* Properties                                                              *)
(***************************************************************************)
\* A delivery marked sent reached the chat: never on the strength of another
\* delivery's answer, a stale one or a failure; and every delivery has its
\* event, whatever pruneRetention removed while the delivery was being sent.
SentArrived ==
    /\ Recorded \subseteq events
    /\ \A e \in Recorded : rows[e].status = "sent" => copies[e] > 0

\* At most one send of an event at a time, as many attempts as the limit allows
\* and one copy in the chat, unless a lease ran out during a send or, for the
\* copy, the answer to a send was lost.
DuplicateNeedsCause ==
    \A e \in Events :
      /\ Cardinality({p \in Passes : passes[p].phase = "sending" /\ passes[p].event = e})
           > 1 => e \in expired
      /\ e \in Recorded /\ rows[e].attempts > MaxRetries => e \in expired
      /\ copies[e] > 1 => e \in expired \cup lost

\* What is marked sent arrived, and is never claimed or failed again.
SentStays ==
    /\ []SentArrived
    /\ [][\A e \in Recorded \cap DOMAIN rows' :
            rows[e].status = "sent" => rows'[e].status = "sent"]_vars

Settled(e) ==
    e \in Recorded =>
      \/ rows[e].status \in {"sent", "silenced"}
      \/ rows[e].status = "failed" /\ rows[e].attempts >= MaxRetries

\* Every recorded delivery is sent, or its retries are used up: a crash in a
\* send, a lost lease or an older delivery that keeps failing never strand it.
EveryDeliverySettles == \A e \in Events : e \in Recorded ~> Settled(e)

\* delivery.ts:149 says: "The same-pass guard (a row failed during THIS call)
\* still holds because the boundary is fixed for the whole call."
SamePassGuard ==
    [][\A p \in Passes : \A e \in passes[p].failedHere :
         rows'[e].attempts > rows[e].attempts =>
           \E q \in Passes \ {p} : passes[q].phase = "claiming"]_vars

\* types.ts:647 says of deliveriesOlderThan that it "applies ONLY to terminal
\* deliveries (sent, failed, silenced, throttled)": a prune removes the old
\* deliveries in these states, once a failed one has no retry left.
PruneTakesTerminal ==
    [][Prune => \A e \in DOMAIN rows' \cap old :
         ~(rows[e].status = "failed" /\ rows[e].attempts >= MaxRetries)]_vars
=============================================================================
