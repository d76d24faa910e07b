-------------------------- MODULE CollectorPipeline --------------------------
(***************************************************************************)
(* A collector and the hub: the daemon's batches of one session            *)
(* (src/collector/daemon.ts), the upload of the oldest one                 *)
(* (src/collector/client.ts), the network, and the hub's ledger and        *)
(* newer-only merge (src/collector/server.ts, src/observatory/store.ts).   *)
(*                                                                         *)
(* The queue's crash safety is the subject of CollectorQueue; here it is a *)
(* set of batches and the durable halt flag.  A request lives in a slot,   *)
(* on its way or as its answer, and outlives the client that gave it up:   *)
(* it may be handled late, and after a newer one.                          *)
(***************************************************************************)
EXTENDS Integers, FiniteSets

CONSTANTS
    Batches,           \* batch ids, in the order they are collected in
    Keys,              \* signing keys, in the order they are rotated in
    Slots,             \* bound: requests on the network at once
    MaxActive          \* bound: last activity of the session

NoSlot == "none"
NoBatch == 0
NoKey == 0

ASSUME PipelineAssumption ==
    /\ Batches \subseteq Nat \ {NoBatch}
    /\ Keys \subseteq Nat \ {NoKey} /\ 1 \in Keys
    /\ NoSlot \notin Slots /\ MaxActive \in Nat

VARIABLES
    source,            \* the session as the collector's adapter sees it
    content,           \* the session in each batch
    queued, halted,    \* the durable queue: its batches and the halt flag
    attempt,           \* the slot of the upload under way
    key,               \* the collector's keyId
    slots,             \* requests and answers on the network
    ledger,            \* observatory_collector_batches: batch -> key
    session, watermark,\* the hub's row of the session; its newest batch
    acked, merges      \* history: the acknowledged batches; how often persistBatch
                       \* went on to merge each batch

client == <<queued, halted, attempt, key>>
hub == <<ledger, session, watermark>>
vars == <<source, content, client, slots, hub, acked, merges>>

\* last_active_at and whether the state is closed; known: the row exists.
Session == [active : 0 .. MaxActive, closed : BOOLEAN]
Row == [active : 0 .. MaxActive, closed : BOOLEAN, known : BOOLEAN]
Verdicts == {"accepted", "duplicate", "conflict", "poison", "auth", "retry"}
Slot == [stage : {"free", "request", "answer"}, batch : Batches \cup {NoBatch},
         key : Keys \cup {NoKey}, verdict : Verdicts \cup {"none"}]
Free == [stage |-> "free", batch |-> NoBatch, key |-> NoKey, verdict |-> "none"]

Collected == DOMAIN content
Applied == DOMAIN ledger

TypeOK ==
    /\ source \in Session
    /\ Collected \subseteq Batches /\ \A b \in Collected : content[b] \in Session
    /\ queued \subseteq Batches /\ halted \in BOOLEAN
    /\ attempt \in Slots \cup {NoSlot} /\ key \in Keys
    /\ slots \in [Slots -> Slot]
    /\ Applied \subseteq Batches /\ \A b \in Applied : ledger[b] \in Keys
    /\ session \in Row /\ watermark \in Batches \cup {NoBatch}
    /\ acked \subseteq Batches /\ merges \in [Batches -> Nat]

Init ==
    /\ source = [active |-> 0, closed |-> FALSE]
    /\ content = [b \in {} |-> 0]
    /\ queued = {} /\ halted = FALSE /\ attempt = NoSlot /\ key = 1
    /\ slots = [s \in Slots |-> Free]
    /\ ledger = [b \in {} |-> 0]
    /\ session = [active |-> 0, closed |-> FALSE, known |-> FALSE]
    /\ watermark = NoBatch
    /\ acked = {} /\ merges = [b \in Batches |-> 0]

(***************************************************************************)
(* The collector                                                           *)
(***************************************************************************)
\* A message arrives in the session (a closed one is resumed by it), or the
\* session stops being active.
Work ==
    /\ source.active < MaxActive
    /\ source' = [active |-> source.active + 1, closed |-> FALSE]
    /\ UNCHANGED <<content, client, slots, hub, acked, merges>>

Close ==
    /\ ~source.closed /\ source' = [source EXCEPT !.closed = TRUE]
    /\ UNCHANGED <<content, client, slots, hub, acked, merges>>

\* A cycle of the daemon enqueues the session as it is now; a halted queue
\* ends the cycle before that.
Collect(b) ==
    /\ ~halted /\ b \notin Collected
    /\ \A x \in Batches : x < b => x \in Collected
    /\ content' = [x \in Collected \cup {b} |-> IF x = b THEN source ELSE content[x]]
    /\ queued' = queued \cup {b}
    /\ UNCHANGED <<source, halted, attempt, key, slots, hub, acked, merges>>

Head == {b \in queued : \A x \in queued : b <= x}

\* drainStep hands the oldest batch to uploadQueuedBatch: one attempt.
Upload(s, b) ==
    /\ ~halted /\ attempt = NoSlot /\ b \in Head /\ slots[s].stage = "free"
    /\ attempt' = s
    /\ slots' = [slots EXCEPT ![s] =
                   [stage |-> "request", batch |-> b, key |-> key, verdict |-> "none"]]
    /\ UNCHANGED <<source, content, queued, halted, key, hub, acked, merges>>

\* The total timeout, or a transport error.
GiveUpAttempt ==
    /\ attempt # NoSlot /\ attempt' = NoSlot
    /\ UNCHANGED <<source, content, queued, halted, key, slots, hub, acked, merges>>

\* The batch is purged, evicted or found damaged.
Drop(b) ==
    /\ b \in Head /\ queued' = queued \ {b}
    /\ UNCHANGED <<source, content, halted, attempt, key, slots, hub, acked, merges>>

\* drainStep and the disposition of the answer.  A batch that was dropped
\* meanwhile is gone: its unlink fails.
Disposed(s, delivered, discarded) ==
    /\ attempt = s /\ slots[s].stage = "answer"
    /\ attempt' = NoSlot /\ slots' = [slots EXCEPT ![s] = Free]
    /\ LET b == slots[s].batch
           verdict == slots[s].verdict
       IN /\ queued' = IF verdict \in delivered \cup discarded
                       THEN queued \ {b} ELSE queued
          /\ acked' = IF verdict \in delivered /\ b \in queued
                      THEN acked \cup {b} ELSE acked
          /\ halted' = (halted \/ verdict = "conflict")
    /\ UNCHANGED <<source, content, key, hub, merges>>

\* Mutants: a deferred batch counts as delivered; a duplicate is tried again.
ReceiveAny(s) == Disposed(s, {"accepted", "duplicate", "retry"}, {"poison"})
ReceiveAcceptedOnly(s) == Disposed(s, {"accepted"}, {"poison"})

Receive(s) == Disposed(s, {"accepted", "duplicate"}, {"poison"})

\* The collector is restarted, with a key that the operator rotated or not.
Restart(k) ==
    /\ k >= key /\ key' = k /\ attempt' = NoSlot
    /\ UNCHANGED <<source, content, queued, halted, slots, hub, acked, merges>>

(***************************************************************************)
(* The network                                                             *)
(***************************************************************************)
Lose(s) ==
    /\ slots[s].stage # "free"
    /\ slots' = [slots EXCEPT ![s] = Free]
    /\ UNCHANGED <<source, content, client, hub, acked, merges>>

(***************************************************************************)
(* The hub                                                                 *)
(***************************************************************************)
Answered(r, verdict) ==
    [stage |-> "answer", batch |-> r.batch, key |-> r.key, verdict |-> verdict]
Answer(s, verdict) == slots' = [slots EXCEPT ![s] = Answered(slots[s], verdict)]

\* Refused before the transaction: 429, 5xx (retry), 401 (auth), 400, 413 and
\* 422 (poison).
Refuse(s, verdict) ==
    /\ slots[s].stage = "request" /\ verdict \in {"retry", "auth", "poison"}
    /\ Answer(s, verdict)
    /\ UNCHANGED <<source, content, client, hub, acked, merges>>

\* persistBatch takes a session that is newer and does not reopen a closed
\* one, or that closes it.
\* Mutants: the newest activity alone decides; the last arrival does.
NewerByActivity(new, row) == ~row.known \/ new.active > row.active
NewerAlways(new, row) == TRUE
Newer(new, row) ==
    \/ ~row.known
    \/ new.active > row.active /\ (row.closed => new.closed)
    \/ new.active = row.active /\ ~row.closed /\ new.closed

Merge(b) ==
    /\ session' = IF Newer(content[b], session)
                  THEN [active |-> content[b].active, closed |-> content[b].closed,
                        known |-> TRUE]
                  ELSE session
    /\ watermark' = IF b > watermark THEN b ELSE watermark

\* Mutants: every claim is new; every repeated claim is a conflict.
ClaimNew(b, k) == "accepted"
ClaimOnce(b, k) == IF b \notin Applied THEN "accepted" ELSE "conflict"

\* claimCollectorBatch: the row of the ledger decides; the body of a batch
\* never changes, so only the key can differ.
Claim(b, k) ==
    IF b \notin Applied THEN "accepted"
    ELSE IF ledger[b] = k THEN "duplicate" ELSE "conflict"

\* The transaction of persistBatch, and its answer.
Persist(s) ==
    /\ slots[s].stage = "request"
    /\ LET b == slots[s].batch
           outcome == Claim(b, slots[s].key)
       IN /\ Answer(s, outcome)
          /\ IF outcome = "accepted"
             THEN /\ ledger' = [x \in Applied \cup {b} |->
                                  IF x = b THEN slots[s].key ELSE ledger[x]]
                  /\ Merge(b) /\ merges' = [merges EXCEPT ![b] = @ + 1]
             ELSE UNCHANGED <<hub, merges>>
    /\ UNCHANGED <<source, content, client, acked>>

Next ==
    \/ Work \/ Close \/ GiveUpAttempt
    \/ \E b \in Batches : Collect(b) \/ Drop(b)
    \/ \E k \in Keys : Restart(k)
    \/ \E s \in Slots :
         \/ \E b \in Batches : Upload(s, b)
         \/ Receive(s) \/ Lose(s) \/ Persist(s)
         \/ \E verdict \in Verdicts : Refuse(s, verdict)

Spec == Init /\ [][Next]_vars

(***************************************************************************)
(* Fairness: the daemon drains in every cycle, an attempt times out, lost  *)
(* requests leave the network, and a hub that is asked again and again     *)
(* answers with a verdict some time, in time.                              *)
(***************************************************************************)
Current == {attempt} \cap Slots
Fairness ==
    /\ WF_vars(GiveUpAttempt)
    /\ SF_vars(\E s \in Slots, b \in Batches : Upload(s, b))
    /\ \A s \in Slots : SF_vars(Lose(s) /\ s # attempt)
    /\ SF_vars(\E s \in Current : Persist(s))
    /\ SF_vars(\E s \in Current : slots[s].verdict \notin {"retry", "auth"} /\ Receive(s))

FairSpec == Spec /\ Fairness

(***************************************************************************)
(* Properties                                                              *)
(***************************************************************************)
\* The promise: the detailed pipeline implements BatchDelivery.
Delivery == INSTANCE BatchDelivery WITH outstanding <- queued, applications <- merges

Delivers == Delivery!Spec

\* The hub's row of a session never goes back in time and a closed session is
\* never reopened, however late and in whatever order batches arrive.
HubNeverRegresses ==
    [][/\ session.known => session'.known
       /\ session.active <= session'.active
       /\ session.closed => session'.closed
       /\ watermark <= watermark']_vars

\* Once a batch has arrived that says the session is closed, and no batch with
\* a later activity has, the hub shows the session as that batch has it.
HubShowsClose ==
    \A b \in Applied :
      /\ content[b].closed
      /\ \A x \in Applied : content[x].active <= content[b].active
      => session.closed /\ session.active = content[b].active

\* The queue halts only on a batch that the hub has, applied under a key that
\* was rotated since: a conflict loses nothing, and without rotation, however
\* often an answer is lost and the batch sent again, there is none.
HaltIsRotation ==
    halted => \E b \in Applied : ledger[b] < key /\ b \notin acked

\* A collector that keeps running gets rid of every batch, or it is halted.
EveryBatchSettles ==
    \A b \in Batches : b \in queued ~> b \notin queued \/ halted
=============================================================================
