------------------------- MODULE CollectorAdmission -------------------------
(***************************************************************************)
(* A request at the hub's collector endpoint (src/collector/server.ts):    *)
(* its admission leases, its awaits and the deadline it races with.        *)
(*                                                                         *)
(* handleCollectorRequest races the core of the request with a timer.  The *)
(* core awaits the identity of the peer, the body and the key; between two *)
(* awaits it runs to completion.  (It also awaits the registration, which  *)
(* is a synchronous look-up: no timer and no other request runs meanwhile, *)
(* so arrival and admission are one step.)  When the timer wins, the core  *)
(* goes on behind the answered request until it finds the signal aborted.  *)
(* A tick of the clock is the time in which a host earns a token.          *)
(***************************************************************************)
EXTENDS Integers, FiniteSets, FiniteSetsExt

CONSTANTS
    Requests, Hosts,
    MaxInFlight,       \* requests admitted at once: 8
    Burst,             \* tokens of a fresh bucket: 2
    IdleTicks,         \* a bucket unseen for that long is purged: 120 s
    MaxTrackedHosts

NoHost == "none"

ASSUME AdmissionAssumption ==
    /\ NoHost \notin Hosts
    /\ {MaxInFlight, Burst, IdleTicks, MaxTrackedHosts} \subseteq Nat \ {0}
    /\ Burst <= IdleTicks       \* an idle bucket is full before it is purged

VARIABLES
    req,               \* the requests
    globalInFlight,    \* #globalInFlight
    buckets,           \* #hosts: tracked host -> [tokens, idle, inFlight]
    committed,         \* the requests whose batch is in the database
    debt               \* history: admissions of a host that time has not repaid

vars == <<req, globalInFlight, buckets, committed, debt>>

Request ==
    [phase : {"unsent", "whois", "body", "key", "ended"},
     host : Hosts \cup {NoHost},
     global : BOOLEAN, local : BOOLEAN,   \* the leases it was given
     released : BOOLEAN, aborted : BOOLEAN,
     answer : {"none", "refused", "timeout", "served"}]
\* idle: ticks since lastSeenMs (always equal to lastRefillMs).
Bucket == [tokens : 0 .. Burst, idle : 0 .. IdleTicks, inFlight : Nat]

Unsent == [phase |-> "unsent", host |-> NoHost, global |-> FALSE, local |-> FALSE,
           released |-> FALSE, aborted |-> FALSE, answer |-> "none"]

Tracked == DOMAIN buckets

TypeOK ==
    /\ req \in [Requests -> Request]
    /\ globalInFlight \in Nat
    /\ Tracked \subseteq Hosts /\ \A h \in Tracked : buckets[h] \in Bucket
    /\ committed \subseteq Requests /\ debt \in [Hosts -> Nat]

Init ==
    /\ req = [r \in Requests |-> Unsent]
    /\ globalInFlight = 0 /\ buckets = [h \in {} |-> 0]
    /\ committed = {} /\ debt = [h \in Hosts |-> 0]

(***************************************************************************)
(* CollectorAdmissionController                                            *)
(***************************************************************************)
FreshBucket == [tokens |-> Burst, idle |-> 0, inFlight |-> 0]

\* Mutant: a bucket is purged under the request it admitted.
PurgedBusy == [h \in {x \in Tracked : buckets[x].idle < IdleTicks} |-> buckets[h]]
\* acquireHost forgets the buckets that are idle for long.
PurgedIdle ==
    [h \in {x \in Tracked : buckets[x].inFlight > 0 \/ buckets[x].idle < IdleTicks}
       |-> buckets[h]]

AtMost(n, ceiling) == IF n < ceiling THEN n ELSE ceiling

\* Mutant: the time since the last refill is credited again and again.
RefilledTwice(b) == [b EXCEPT !.tokens = AtMost(@ + b.idle, Burst)]
Refilled(b) == [b EXCEPT !.tokens = AtMost(@ + b.idle, Burst), !.idle = 0]

\* The bucket that acquireHost looks at; a new host may find no room.
HostBucket(h) ==
    IF h \in DOMAIN PurgedIdle THEN {Refilled(buckets[h])}
    ELSE IF Cardinality(DOMAIN PurgedIdle) < MaxTrackedHosts THEN {FreshBucket}
    ELSE {}

With(h, b) == [x \in DOMAIN PurgedIdle \cup {h} |-> IF x = h THEN b ELSE PurgedIdle[x]]

Admissible(b) == b.tokens >= 1 /\ b.inFlight < 1

(***************************************************************************)
(* releaseAdmissionState: once per request, both leases                    *)
(***************************************************************************)
\* Mutant: the `released' flag is not kept.
ReleaseAgain(r) ==
    /\ globalInFlight' = globalInFlight - (IF req[r].global THEN 1 ELSE 0)
    /\ buckets' = IF req[r].local
                  THEN [buckets EXCEPT ![req[r].host].inFlight = @ - 1]
                  ELSE buckets

Release(r) ==
    IF req[r].released THEN UNCHANGED <<globalInFlight, buckets>>
    ELSE /\ globalInFlight' = globalInFlight - (IF req[r].global THEN 1 ELSE 0)
         /\ buckets' = IF req[r].local
                       THEN [buckets EXCEPT ![req[r].host].inFlight = @ - 1]
                       ELSE buckets

\* The core ends; its answer counts unless the timer answered before.
Ended(s, answer) ==
    [s EXCEPT !.phase = "ended", !.released = TRUE,
              !.answer = IF @ = "none" THEN answer ELSE @]

(***************************************************************************)
(* The core: handleCollectorRequestCore                                    *)
(***************************************************************************)
\* The headers were valid; the request is admitted or refused (429).
Busy(r, h) ==
    /\ req[r].phase = "unsent" /\ globalInFlight >= MaxInFlight
    /\ req' = [req EXCEPT ![r] = Ended([Unsent EXCEPT !.host = h], "refused")]
    /\ UNCHANGED <<globalInFlight, buckets, committed, debt>>

RateLimited(r, h) ==
    /\ req[r].phase = "unsent" /\ globalInFlight < MaxInFlight
    /\ \/ HostBucket(h) = {} /\ buckets' = PurgedIdle
       \/ \E b \in HostBucket(h) : ~Admissible(b) /\ buckets' = With(h, b)
    /\ req' = [req EXCEPT ![r] = Ended([Unsent EXCEPT !.host = h, !.global = TRUE],
                                       "refused")]
    /\ UNCHANGED <<globalInFlight, committed, debt>>

Admit(r, h) ==
    /\ req[r].phase = "unsent" /\ globalInFlight < MaxInFlight
    /\ \E b \in HostBucket(h) :
         /\ Admissible(b)
         /\ buckets' = With(h, [b EXCEPT !.tokens = @ - 1, !.inFlight = @ + 1])
    /\ globalInFlight' = globalInFlight + 1
    /\ req' = [req EXCEPT ![r] = [Unsent EXCEPT !.phase = "whois", !.host = h,
                                    !.global = TRUE, !.local = TRUE]]
    /\ debt' = [debt EXCEPT ![h] = @ + 1]
    /\ UNCHANGED committed

\* An await rejects, a check refuses, or the signal is found aborted.
Refuse(r) ==
    /\ req[r].phase \in {"whois", "body", "key"}
    /\ Release(r)
    /\ req' = [req EXCEPT ![r] = Ended(@, "refused")]
    /\ UNCHANGED <<committed, debt>>

\* The key's role, the peer's identity and the body are in order.
Identified(r) ==
    /\ req[r].phase = "whois" /\ ~req[r].aborted
    /\ req' = [req EXCEPT ![r].phase = "body"]
    /\ UNCHANGED <<globalInFlight, buckets, committed, debt>>

BodyRead(r) ==
    /\ req[r].phase = "body"
    /\ req' = [req EXCEPT ![r].phase = "key"]
    /\ UNCHANGED <<globalInFlight, buckets, committed, debt>>

\* From the key to the transaction nothing is awaited.
\* Mutant: the signal is not looked at after the last await.
PersistAborted(r) ==
    /\ req[r].phase = "key"
    /\ Release(r)
    /\ req' = [req EXCEPT ![r] = Ended(@, "served")]
    /\ committed' = committed \cup {r}
    /\ UNCHANGED debt

Persist(r) ==
    /\ req[r].phase = "key" /\ ~req[r].aborted
    /\ Release(r)
    /\ req' = [req EXCEPT ![r] = Ended(@, "served")]
    /\ committed' = committed \cup {r}
    /\ UNCHANGED debt

\* Mutant: the timer leaves the leases to the core.
DeadlineKeepsLeases(r) ==
    /\ req[r].phase \in {"whois", "body", "key"} /\ req[r].answer = "none"
    /\ req' = [req EXCEPT ![r].aborted = TRUE, ![r].answer = "timeout"]
    /\ UNCHANGED <<globalInFlight, buckets, committed, debt>>

\* The timer: abort, release, answer 503.
Deadline(r) ==
    /\ req[r].phase \in {"whois", "body", "key"} /\ req[r].answer = "none"
    /\ Release(r)
    /\ req' = [req EXCEPT ![r].aborted = TRUE, ![r].released = TRUE,
                          ![r].answer = "timeout"]
    /\ UNCHANGED <<committed, debt>>

Tick ==
    /\ buckets' = [h \in Tracked |->
                     [buckets[h] EXCEPT !.idle = AtMost(@ + 1, IdleTicks)]]
    /\ debt' = [h \in Hosts |-> IF debt[h] = 0 THEN 0 ELSE debt[h] - 1]
    /\ UNCHANGED <<req, globalInFlight, committed>>

Next ==
    \/ \E r \in Requests, h \in Hosts : Busy(r, h) \/ RateLimited(r, h) \/ Admit(r, h)
    \/ \E r \in Requests : \/ Refuse(r) \/ Identified(r) \/ BodyRead(r)
                           \/ Persist(r) \/ Deadline(r)
    \/ Tick

Spec == Init /\ [][Next]_vars

\* The timer of a request fires, whatever the awaits of its core do.
FairSpec == Spec /\ \A r \in Requests : WF_vars(Deadline(r))

(***************************************************************************)
(* Properties                                                              *)
(***************************************************************************)
Holds(r) == req[r].global /\ ~req[r].released

\* The books of the admission are right.  The counters are the leases that are
\* out: none is leaked when the timer fires in the middle of an await, none is
\* returned twice when the core ends after the timer, and a bucket that is
\* purged takes no lease with it.  A host has one request in flight, and in any
\* period is admitted at most Burst times more than the tokens it earned.
LeasesAccounted ==
    /\ globalInFlight = Cardinality({r \in Requests : Holds(r)})
    /\ \A h \in Tracked : buckets[h].inFlight =
         Cardinality({r \in Requests : Holds(r) /\ req[r].host = h})
    /\ \A r \in Requests : Holds(r) => req[r].host \in Tracked
    /\ \A r, q \in Requests :
         r # q /\ Holds(r) /\ Holds(q) => req[r].host # req[q].host
    /\ \A h \in Hosts : debt[h] <= Burst

\* A batch enters the database under the leases of its request, hence one at
\* a time for a host, and never once the deadline has answered the request:
\* what a 503 request_timeout said stays true.
CommitUnderLease ==
    [][\A r \in committed' \ committed : Holds(r) /\ req'[r].answer = "served"]_vars

\* The leases come back although an await may hang for ever.
LeasesReturn == \A r \in Requests : Holds(r) ~> ~Holds(r)
=============================================================================
