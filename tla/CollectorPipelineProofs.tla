----------------------- MODULE CollectorPipelineProofs -----------------------
(***************************************************************************)
(* What holds of the pipeline for any number of batches, keys and requests *)
(* on the network: it implements BatchDelivery, a halt is explained by a   *)
(* rotated key, and the hub's row of a session only moves forward.         *)
(***************************************************************************)
EXTENDS CollectorPipeline, TLAPS

(***************************************************************************)
(* The inductive invariant                                                 *)
(***************************************************************************)
\* Batches go from the queue to the ledger and are acknowledged after that.
BatchInv ==
    /\ queued \subseteq Collected /\ Applied \subseteq Collected
    /\ acked \subseteq Applied /\ queued \cap acked = {}
    /\ \A b \in Batches : merges[b] = IF b \in Applied THEN 1 ELSE 0
    /\ \A b \in Applied : ledger[b] <= key

\* What a request and an answer on the network say of the hub.
TrafficInv ==
    \A s \in Slots : slots[s].stage # "free" =>
      /\ slots[s].batch \in Collected
      /\ slots[s].key \in Keys /\ slots[s].key <= key
      /\ slots[s].stage = "answer" =>
           /\ slots[s].verdict \in {"accepted", "duplicate"} =>
                slots[s].batch \in Applied
           /\ slots[s].verdict = "conflict" =>
                slots[s].batch \in Applied /\ ledger[slots[s].batch] # slots[s].key

\* The upload under way uses the collector's key for a batch that is not
\* acknowledged; a halted queue has none.
AttemptInv ==
    attempt # NoSlot =>
      /\ ~halted
      /\ slots[attempt].stage # "free" =>
           slots[attempt].key = key /\ slots[attempt].batch \notin acked

\* The hub's row has the last activity of a batch that it applied.
RowInv ==
    /\ session.known => \E x \in Applied : content[x].active = session.active
    /\ ~session.known => Applied = {} /\ session.active = 0 /\ ~session.closed

PipelineInv == TypeOK /\ BatchInv /\ TrafficInv /\ AttemptInv

(***************************************************************************)
(* Typing                                                                  *)
(***************************************************************************)
LEMMA SlotTyping ==
  /\ Free \in Slot
  /\ \A b \in Batches, k \in Keys :
       [stage |-> "request", batch |-> b, key |-> k, verdict |-> "none"] \in Slot
  /\ \A r \in Slot, verdict \in Verdicts : Answered(r, verdict) \in Slot
BY DEF Free, Slot, Answered

\* An answer replaces the request in its slot.
LEMMA AnswerEffect ==
  ASSUME TypeOK, NEW s \in Slots, NEW verdict \in Verdicts, Answer(s, verdict)
  PROVE  /\ slots' \in [Slots -> Slot]
         /\ \A r \in Slots \ {s} : slots'[r] = slots[r]
         /\ slots'[s] = Answered(slots[s], verdict)
<1>1. Answered(slots[s], verdict) \in Slot
  BY SlotTyping DEF TypeOK
<1> QED
  BY <1>1 DEF TypeOK, Answer

\* The transaction of persistBatch: a new batch enters the ledger under the
\* key of its request and is merged, any other changes nothing.
LEMMA PersistEffect ==
  ASSUME TypeOK, NEW s \in Slots, Persist(s), slots[s].batch \in Batches,
         slots[s].key \in Keys
  PROVE  LET b == slots[s].batch IN
         /\ Answer(s, Claim(b, slots[s].key)) /\ Claim(b, slots[s].key) \in Verdicts
         /\ b \notin Applied =>
              /\ Claim(b, slots[s].key) = "accepted"
              /\ Applied' = Applied \cup {b} /\ ledger'[b] = slots[s].key
              /\ \A x \in Applied : ledger'[x] = ledger[x]
              /\ merges' = [merges EXCEPT ![b] = @ + 1] /\ Merge(b)
         /\ b \in Applied =>
              /\ UNCHANGED <<hub, merges>>
              /\ Claim(b, slots[s].key) =
                   IF ledger[b] = slots[s].key THEN "duplicate" ELSE "conflict"
BY DEF Persist, Claim, Verdicts, Applied

\* Every variable keeps its type.
LEMMA TypeStep == TypeOK /\ TrafficInv /\ BatchInv /\ [Next]_vars => TypeOK'
<1> SUFFICES ASSUME TypeOK, TrafficInv, BatchInv, [Next]_vars PROVE TypeOK'
  OBVIOUS
<1>0. MaxActive \in Nat /\ NoSlot \notin Slots
  BY PipelineAssumption
<1>1. CASE Work
  <2>1. source.active + 1 \in 0 .. MaxActive
    BY <1>0, <1>1 DEF TypeOK, Session, Work
  <2>2. source' \in Session
    BY <1>1, <2>1 DEF Work, Session
  <2> QED
    BY <1>1, <2>2 DEF TypeOK, Work, client, hub, Collected, Applied
<1>2. CASE Close
  <2>1. source' \in Session
    BY <1>2 DEF TypeOK, Close, Session
  <2> QED
    BY <1>2, <2>1 DEF TypeOK, Close, client, hub, Collected, Applied
<1>3. CASE GiveUpAttempt
  BY <1>3 DEF TypeOK, GiveUpAttempt, hub, Collected, Applied
<1>4. ASSUME NEW b \in Batches, Collect(b) PROVE TypeOK'
  BY <1>4 DEF TypeOK, Collect, hub, Collected, Applied
<1>5. ASSUME NEW b \in Batches, Drop(b) PROVE TypeOK'
  BY <1>5 DEF TypeOK, Drop, hub, Collected, Applied
<1>6. ASSUME NEW k \in Keys, Restart(k) PROVE TypeOK'
  BY <1>6 DEF TypeOK, Restart, hub, Collected, Applied
<1>7. ASSUME NEW s \in Slots, NEW b \in Batches, Upload(s, b) PROVE TypeOK'
  <2>1. slots' \in [Slots -> Slot]
    BY <1>7, SlotTyping DEF TypeOK, Upload
  <2> QED
    BY <1>7, <2>1 DEF TypeOK, Upload, hub, Collected, Applied
<1>8. ASSUME NEW s \in Slots, Receive(s) PROVE TypeOK'
  <2>1. slots' \in [Slots -> Slot]
    BY <1>8, SlotTyping DEF TypeOK, Receive, Disposed
  <2>2. queued' \subseteq queued /\ acked' \subseteq acked \cup queued
        /\ halted' \in BOOLEAN
    BY <1>8 DEF TypeOK, Receive, Disposed
  <2> QED
    BY <1>8, <2>1, <2>2 DEF TypeOK, Receive, Disposed, hub, Collected, Applied
<1>9. ASSUME NEW s \in Slots, Lose(s) PROVE TypeOK'
  <2>1. slots' \in [Slots -> Slot]
    BY <1>9, SlotTyping DEF TypeOK, Lose
  <2> QED
    BY <1>9, <2>1 DEF TypeOK, Lose, client, hub, Collected, Applied
<1>10. ASSUME NEW s \in Slots, NEW verdict \in Verdicts, Refuse(s, verdict)
       PROVE  TypeOK'
  <2>1. slots' \in [Slots -> Slot]
    BY <1>10, AnswerEffect DEF Refuse
  <2> QED
    BY <1>10, <2>1 DEF TypeOK, Refuse, client, hub, Collected, Applied
<1>11. ASSUME NEW s \in Slots, Persist(s) PROVE TypeOK'
  <2> DEFINE b == slots[s].batch
  <2>1. b \in Collected /\ b \in Batches /\ slots[s].key \in Keys
    BY <1>11 DEF Persist, TrafficInv, TypeOK
  <2>2. slots' \in [Slots -> Slot]
    BY <1>11, <2>1, AnswerEffect, PersistEffect
  <2>3. Applied' \subseteq Batches /\ (\A x \in Applied' : ledger'[x] \in Keys)
        /\ merges' \in [Batches -> Nat]
    <3>1. merges[b] + 1 \in Nat
      BY <2>1 DEF TypeOK
    <3> QED
      BY <1>11, <2>1, <3>1, PersistEffect DEF TypeOK, hub, Applied
  <2>4. session' \in Row /\ watermark' \in Batches \cup {NoBatch}
    <3>1. content[b] \in Session
      BY <2>1 DEF TypeOK
    <3>2. CASE Merge(b)
      BY <2>1, <3>1, <3>2 DEF TypeOK, Merge, Session, Row
    <3>3. CASE UNCHANGED hub
      BY <3>3 DEF TypeOK, hub
    <3> QED
      BY <1>11, <2>1, <3>2, <3>3, PersistEffect
  <2> QED
    BY <1>11, <2>2, <2>3, <2>4 DEF TypeOK, Persist, client, Collected
<1>12. CASE UNCHANGED vars
  BY <1>12 DEF TypeOK, vars, client, hub, Collected, Applied
<1> QED
  BY <1>1, <1>2, <1>3, <1>4, <1>5, <1>6, <1>7, <1>8, <1>9, <1>10, <1>11, <1>12
  DEF Next

(***************************************************************************)
(* The invariant is preserved                                              *)
(***************************************************************************)
\* Batches go forward: into the queue, into the ledger, out of the queue as
\* acknowledged only when the hub answered that it has them.
LEMMA BatchStep == PipelineInv /\ [Next]_vars => BatchInv'
<1> SUFFICES ASSUME PipelineInv, [Next]_vars PROVE BatchInv'
  OBVIOUS
<1> USE DEF PipelineInv
<1>1. CASE Work \/ Close \/ GiveUpAttempt \/ UNCHANGED vars
  BY <1>1 DEF BatchInv, Work, Close, GiveUpAttempt, vars, client, hub, Collected, Applied
<1>2. ASSUME NEW b \in Batches, Collect(b) PROVE BatchInv'
  <2>1. b \notin Applied /\ b \notin acked /\ Collected' = Collected \cup {b}
    BY <1>2 DEF BatchInv, Collect, Collected
  <2> QED
    BY <1>2, <2>1 DEF BatchInv, Collect, hub, Applied
<1>3. ASSUME NEW b \in Batches, Drop(b) PROVE BatchInv'
  BY <1>3 DEF BatchInv, Drop, hub, Collected, Applied
<1>4. ASSUME NEW k \in Keys, Restart(k) PROVE BatchInv'
  <2>1. k \in Nat /\ key \in Nat /\ key <= k /\ key' = k
    BY <1>4, PipelineAssumption DEF TypeOK, Restart
  <2>2. \A b \in Applied : ledger[b] \in Nat
    BY PipelineAssumption DEF TypeOK
  <2>3. \A b \in Applied : ledger[b] <= k
    BY <2>1, <2>2 DEF BatchInv
  <2> QED
    BY <1>4, <2>3 DEF BatchInv, Restart, hub, Collected, Applied
<1>5. ASSUME NEW s \in Slots, NEW b \in Batches, Upload(s, b) PROVE BatchInv'
  BY <1>5 DEF BatchInv, Upload, hub, Collected, Applied
<1>6. ASSUME NEW s \in Slots, Receive(s) PROVE BatchInv'
  <2> DEFINE b == slots[s].batch
  <2>1. \/ queued' = queued /\ acked' = acked
        \/ queued' = queued \ {b} /\ acked' = acked
        \/ queued' = queued \ {b} /\ acked' = acked \cup {b} /\ b \in Applied
    BY <1>6 DEF TrafficInv, Receive, Disposed
  <2> QED
    BY <1>6, <2>1 DEF BatchInv, Receive, Disposed, hub, Collected, Applied
<1>7. ASSUME NEW s \in Slots, Lose(s) PROVE BatchInv'
  BY <1>7 DEF BatchInv, Lose, client, hub, Collected, Applied
<1>8. ASSUME NEW s \in Slots, NEW verdict \in Verdicts, Refuse(s, verdict)
      PROVE  BatchInv'
  BY <1>8 DEF BatchInv, Refuse, client, hub, Collected, Applied
<1>9. ASSUME NEW s \in Slots, Persist(s) PROVE BatchInv'
  <2> DEFINE b == slots[s].batch
  <2>1. b \in Collected /\ b \in Batches /\ slots[s].key \in Keys
        /\ slots[s].key <= key
    BY <1>9 DEF Persist, TrafficInv, TypeOK
  <2>2. UNCHANGED <<content, queued, acked, key>>
    BY <1>9 DEF Persist, client
  <2>3. CASE b \in Applied
    BY <1>9, <2>1, <2>2, <2>3, PersistEffect DEF BatchInv, hub, Collected, Applied
  <2>4. CASE b \notin Applied
    <3>1. Applied' = Applied \cup {b} /\ ledger'[b] = slots[s].key
          /\ (\A x \in Applied : ledger'[x] = ledger[x])
          /\ merges' = [merges EXCEPT ![b] = @ + 1]
      BY <1>9, <2>1, <2>4, PersistEffect
    <3>2. \A x \in Batches : merges'[x] = IF x \in Applied' THEN 1 ELSE 0
      BY <2>1, <2>4, <3>1 DEF BatchInv, TypeOK
    <3>3. \A x \in Applied' : ledger'[x] <= key'
      BY <2>1, <2>2, <3>1 DEF BatchInv
    <3> QED
      BY <2>1, <2>2, <3>1, <3>2, <3>3 DEF BatchInv, Collected
  <2> QED
    BY <2>3, <2>4
<1> QED
  BY <1>1, <1>2, <1>3, <1>4, <1>5, <1>6, <1>7, <1>8, <1>9 DEF Next

\* A slot that is as before, or free, says the same of a hub that kept its
\* ledger and of a collector that kept its batches and its key.
LEMMA TrafficKept ==
  ASSUME TypeOK, TrafficInv, UNCHANGED <<content, key, ledger>>,
         \A s \in Slots : slots'[s] = slots[s] \/ slots'[s] = Free
  PROVE  TrafficInv'
BY DEF TrafficInv, Free, Collected, Applied

\* What is on the network stays true of the hub, which never takes a batch out
\* of its ledger and never changes its key there.
LEMMA TrafficStep == PipelineInv /\ [Next]_vars => TrafficInv'
<1> SUFFICES ASSUME PipelineInv, [Next]_vars PROVE TrafficInv'
  OBVIOUS
<1> USE DEF PipelineInv
<1>1. CASE Work \/ Close \/ GiveUpAttempt \/ UNCHANGED vars
  BY <1>1 DEF TrafficInv, Work, Close, GiveUpAttempt, vars, client, hub, Collected, Applied
<1>2. ASSUME NEW b \in Batches, Collect(b) PROVE TrafficInv'
  <2>1. Collected \subseteq Collected'
    BY <1>2 DEF Collect, Collected
  <2> QED
    BY <1>2, <2>1 DEF TrafficInv, Collect, hub, Applied
<1>3. ASSUME NEW b \in Batches, Drop(b) PROVE TrafficInv'
  BY <1>3, TrafficKept DEF Drop, hub
<1>4. ASSUME NEW k \in Keys, Restart(k) PROVE TrafficInv'
  <2>1. k \in Nat /\ key \in Nat /\ key <= k /\ key' = k /\ Keys \subseteq Nat
    BY <1>4, PipelineAssumption DEF TypeOK, Restart
  <2>2. \A n \in Keys : n <= key => n <= key'
    BY <2>1
  <2> QED
    BY <1>4, <2>2 DEF TrafficInv, Restart, hub, Collected, Applied
<1>5. ASSUME NEW s \in Slots, NEW b \in Batches, Upload(s, b) PROVE TrafficInv'
  <2>1. b \in Collected /\ key \in Keys /\ key <= key
    BY <1>5, PipelineAssumption DEF Upload, Head, BatchInv, TypeOK
  <2>2. slots'[s] = [stage |-> "request", batch |-> b, key |-> key, verdict |-> "none"]
    BY <1>5 DEF Upload, TypeOK
  <2>3. \A r \in Slots \ {s} : slots'[r] = slots[r]
    BY <1>5 DEF Upload, TypeOK
  <2> QED
    BY <1>5, <2>1, <2>2, <2>3 DEF TrafficInv, Upload, hub, Collected, Applied
<1>6. ASSUME NEW s \in Slots, Receive(s) PROVE TrafficInv'
  BY <1>6, TrafficKept DEF Receive, Disposed, hub, TypeOK
<1>7. ASSUME NEW s \in Slots, Lose(s) PROVE TrafficInv'
  BY <1>7, TrafficKept DEF Lose, client, hub, TypeOK
<1>8. ASSUME NEW s \in Slots, NEW verdict \in Verdicts, Refuse(s, verdict)
      PROVE  TrafficInv'
  <2>1. slots'[s] = Answered(slots[s], verdict)
        /\ \A r \in Slots \ {s} : slots'[r] = slots[r]
    BY <1>8, AnswerEffect DEF Refuse
  <2>2. slots[s].stage # "free"
    BY <1>8 DEF Refuse
  <2> QED
    BY <1>8, <2>1, <2>2 DEF TrafficInv, Refuse, Answered, client, hub, Collected, Applied
<1>9. ASSUME NEW s \in Slots, Persist(s) PROVE TrafficInv'
  <2> DEFINE b == slots[s].batch
             outcome == Claim(b, slots[s].key)
  <2>1. b \in Collected /\ b \in Batches /\ slots[s].key \in Keys
        /\ slots[s].key <= key
    BY <1>9 DEF Persist, TrafficInv, TypeOK
  <2>2. UNCHANGED <<content, key>>
    BY <1>9 DEF Persist, client
  <2>3. Applied \subseteq Applied' /\ b \in Applied'
        /\ (\A x \in Applied : ledger'[x] = ledger[x])
    BY <1>9, <2>1, PersistEffect DEF hub, Applied
  <2>4. slots'[s] = Answered(slots[s], outcome)
        /\ \A r \in Slots \ {s} : slots'[r] = slots[r]
    BY <1>9, <2>1, PersistEffect, AnswerEffect
  <2>5. outcome = "conflict" => b \in Applied /\ ledger[b] # slots[s].key
    BY <1>9, <2>1, PersistEffect
  <2>6. \A r \in Slots \ {s} : slots[r].stage # "free" =>
          /\ slots[r].batch \in Collected'
          /\ slots[r].key \in Keys /\ slots[r].key <= key'
          /\ slots[r].stage = "answer" =>
               /\ slots[r].verdict \in {"accepted", "duplicate"} =>
                    slots[r].batch \in Applied'
               /\ slots[r].verdict = "conflict" =>
                    slots[r].batch \in Applied' /\ ledger'[slots[r].batch] # slots[r].key
    BY <2>2, <2>3 DEF TrafficInv, Collected
  <2>7. slots'[s].batch = b /\ slots'[s].key = slots[s].key
        /\ slots'[s].verdict = outcome
    BY <2>4 DEF Answered
  <2>8. /\ slots'[s].batch \in Collected'
        /\ slots'[s].key \in Keys /\ slots'[s].key <= key'
        /\ slots'[s].batch \in Applied'
        /\ slots'[s].verdict = "conflict" => ledger'[slots'[s].batch] # slots'[s].key
    BY <2>1, <2>2, <2>3, <2>5, <2>7 DEF Collected
  <2> QED
    BY <2>4, <2>6, <2>8 DEF TrafficInv
<1> QED
  BY <1>1, <1>2, <1>3, <1>4, <1>5, <1>6, <1>7, <1>8, <1>9 DEF Next

\* An attempt is made under the collector's key, which only a restart changes;
\* its batch is acknowledged by its own answer and by no other.
LEMMA AttemptStep == PipelineInv /\ [Next]_vars => AttemptInv'
<1> SUFFICES ASSUME PipelineInv, [Next]_vars PROVE AttemptInv'
  OBVIOUS
<1> USE DEF PipelineInv
<1>0. NoSlot \notin Slots /\ attempt \in Slots \cup {NoSlot}
  BY PipelineAssumption DEF TypeOK
<1>1. CASE Work \/ Close \/ UNCHANGED vars
  BY <1>1 DEF AttemptInv, Work, Close, vars, client
<1>2. CASE GiveUpAttempt \/ (\E k \in Keys : Restart(k)) \/ (\E s \in Slots : Receive(s))
  BY <1>2 DEF AttemptInv, GiveUpAttempt, Restart, Receive, Disposed
<1>3. CASE \E b \in Batches : Collect(b) \/ Drop(b)
  BY <1>3 DEF AttemptInv, Collect, Drop
<1>4. ASSUME NEW s \in Slots, NEW b \in Batches, Upload(s, b) PROVE AttemptInv'
  <2>1. slots'[s].batch = b /\ slots'[s].key = key /\ attempt' = s
    BY <1>4 DEF Upload, TypeOK
  <2>2. b \notin acked
    BY <1>4 DEF Upload, Head, BatchInv
  <2> QED
    BY <1>4, <2>1, <2>2 DEF AttemptInv, Upload
<1>5. ASSUME NEW s \in Slots, Lose(s) PROVE AttemptInv'
  <2>1. \A r \in Slots : slots'[r] = slots[r] \/ slots'[r].stage = "free"
    BY <1>5 DEF Lose, TypeOK, Free
  <2> QED
    BY <1>0, <1>5, <2>1 DEF AttemptInv, Lose, client
<1>6. ASSUME NEW s \in Slots, NEW verdict \in Verdicts, Answer(s, verdict),
             slots[s].stage # "free", UNCHANGED <<halted, attempt, key, acked>>
      PROVE  AttemptInv'
  <2>1. \A r \in Slots : slots[r].stage # "free" =>
          slots'[r].batch = slots[r].batch /\ slots'[r].key = slots[r].key
    <3>1. slots'[s] = Answered(slots[s], verdict)
          /\ \A r \in Slots \ {s} : slots'[r] = slots[r]
      BY <1>6, AnswerEffect
    <3> QED
      BY <3>1 DEF Answered
  <2>2. \A r \in Slots : slots[r].stage = "free" => slots'[r] = slots[r]
    BY <1>6, AnswerEffect
  <2> QED
    BY <1>0, <1>6, <2>1, <2>2 DEF AttemptInv
<1>7. ASSUME NEW s \in Slots, NEW verdict \in Verdicts, Refuse(s, verdict)
      PROVE  AttemptInv'
  BY <1>6, <1>7 DEF Refuse, client
<1>8. ASSUME NEW s \in Slots, Persist(s) PROVE AttemptInv'
  <2>1. slots[s].batch \in Batches /\ slots[s].key \in Keys
    BY <1>8 DEF Persist, TrafficInv, TypeOK
  <2> QED
    BY <1>6, <1>8, <2>1, PersistEffect DEF Persist, client
<1> QED
  BY <1>1, <1>2, <1>3, <1>4, <1>5, <1>7, <1>8 DEF Next

LEMMA InitialInv == Init => PipelineInv
<1> SUFFICES ASSUME Init PROVE PipelineInv
  OBVIOUS
<1>1. TypeOK
  <2>1. source \in Session /\ session \in Row
    BY PipelineAssumption DEF Init, Session, Row
  <2>2. slots \in [Slots -> Slot]
    BY SlotTyping DEF Init
  <2> QED
    BY <2>1, <2>2, PipelineAssumption DEF Init, TypeOK, Collected, Applied
<1>2. BatchInv
  BY DEF Init, BatchInv, Collected, Applied
<1>3. TrafficInv
  BY DEF Init, TrafficInv, Free
<1>4. AttemptInv
  BY DEF Init, AttemptInv
<1> QED
  BY <1>1, <1>2, <1>3, <1>4 DEF PipelineInv

\* The bookkeeping of queue, network and ledger agrees in every state that
\* daemon.ts, client.ts and claimCollectorBatch reach between them.
THEOREM BookkeepingCorrect == Spec => []PipelineInv
<1>1. Init => PipelineInv
  BY InitialInv
<1>2. PipelineInv /\ [Next]_vars => PipelineInv'
  BY TypeStep, BatchStep, TrafficStep, AttemptStep DEF PipelineInv
<1> QED
  BY <1>1, <1>2, PTL DEF Spec

\* Every variable of collector, network and hub keeps its type.
THEOREM TypeCorrect == Spec => []TypeOK
<1>1. PipelineInv => TypeOK
  BY DEF PipelineInv
<1> QED
  BY <1>1, BookkeepingCorrect, PTL

(***************************************************************************)
(* The pipeline implements BatchDelivery                                   *)
(***************************************************************************)
\* Only Collect, Drop, Receive and Persist are steps of the promise.
LEMMA DeliveryStep == PipelineInv /\ [Next]_vars => [Delivery!Next]_(Delivery!vars)
<1> SUFFICES ASSUME PipelineInv, [Next]_vars PROVE [Delivery!Next]_(Delivery!vars)
  OBVIOUS
<1> USE DEF PipelineInv, Delivery!vars, Delivery!Next
<1>1. CASE Work \/ Close \/ GiveUpAttempt \/ UNCHANGED vars
  BY <1>1 DEF Work, Close, GiveUpAttempt, vars, client
<1>2. ASSUME NEW b \in Batches, Collect(b) PROVE Delivery!Submit(b)
  <2>1. b \notin Applied /\ b \notin acked /\ b \notin queued
    BY <1>2 DEF BatchInv, Collect
  <2>2. merges[b] = 0
    BY <2>1 DEF BatchInv
  <2> QED
    BY <1>2, <2>1, <2>2 DEF Collect, Delivery!Submit
<1>3. ASSUME NEW b \in Batches, Drop(b) PROVE Delivery!GiveUp(b)
  BY <1>3 DEF Drop, Head, Delivery!GiveUp
<1>4. ASSUME NEW k \in Keys, Restart(k) PROVE UNCHANGED Delivery!vars
  BY <1>4 DEF Restart
<1>5. ASSUME NEW s \in Slots, NEW b \in Batches, Upload(s, b)
      PROVE  UNCHANGED Delivery!vars
  BY <1>5 DEF Upload
<1>6. ASSUME NEW s \in Slots, Receive(s)
      PROVE  \/ UNCHANGED Delivery!vars
             \/ \E b \in Batches : Delivery!Acknowledge(b) \/ Delivery!GiveUp(b)
  <2> DEFINE b == slots[s].batch
  <2>1. merges' = merges
    BY <1>6 DEF Receive, Disposed
  <2>2. CASE b \notin queued
    BY <1>6, <2>1, <2>2 DEF Receive, Disposed
  <2>3. CASE b \in queued /\ slots[s].verdict \in {"accepted", "duplicate"}
    <3>1. b \in Batches /\ b \in Applied
      BY <1>6, <2>3 DEF Receive, Disposed, TrafficInv, TypeOK
    <3>2. merges[b] = 1
      BY <3>1 DEF BatchInv
    <3>3. Delivery!Acknowledge(b)
      BY <1>6, <2>1, <2>3, <3>2 DEF Receive, Disposed, Delivery!Acknowledge
    <3> QED
      BY <3>1, <3>3
  <2>4. CASE b \in queued /\ slots[s].verdict = "poison"
    <3>1. b \in Batches
      BY <2>4 DEF TypeOK
    <3>2. Delivery!GiveUp(b)
      BY <1>6, <2>1, <2>4 DEF Receive, Disposed, Delivery!GiveUp
    <3> QED
      BY <3>1, <3>2
  <2>5. CASE slots[s].verdict \notin {"accepted", "duplicate", "poison"}
    BY <1>6, <2>1, <2>5 DEF Receive, Disposed
  <2> QED
    BY <2>2, <2>3, <2>4, <2>5
<1>7. ASSUME NEW s \in Slots, Lose(s) PROVE UNCHANGED Delivery!vars
  BY <1>7 DEF Lose, client
<1>8. ASSUME NEW s \in Slots, NEW verdict \in Verdicts, Refuse(s, verdict)
      PROVE  UNCHANGED Delivery!vars
  BY <1>8 DEF Refuse, client
<1>9. ASSUME NEW s \in Slots, Persist(s)
      PROVE  UNCHANGED Delivery!vars \/ \E b \in Batches : Delivery!Apply(b)
  <2> DEFINE b == slots[s].batch
  <2>1. b \in Batches /\ slots[s].key \in Keys
    BY <1>9 DEF Persist, TrafficInv, TypeOK
  <2>2. queued' = queued /\ acked' = acked
    BY <1>9 DEF Persist, client
  <2>3. CASE b \in Applied
    BY <1>9, <2>1, <2>2, <2>3, PersistEffect
  <2>4. CASE b \notin Applied
    <3>1. merges[b] = 0 /\ merges' = [merges EXCEPT ![b] = @ + 1]
      BY <1>9, <2>1, <2>4, PersistEffect DEF BatchInv
    <3>2. merges' = [merges EXCEPT ![b] = 1]
      BY <3>1
    <3>3. Delivery!Apply(b)
      BY <2>2, <3>1, <3>2 DEF Delivery!Apply
    <3> QED
      BY <2>1, <3>3
  <2> QED
    BY <2>3, <2>4
<1> QED
  BY <1>1, <1>2, <1>3, <1>4, <1>5, <1>6, <1>7, <1>8, <1>9 DEF Next

\* Across lost answers, repeated uploads, late requests, restarts and rotated
\* keys a batch is applied at most once and acknowledged only after that.
THEOREM DeliversCorrect == Spec => Delivers
<1>1. Init => Delivery!Init
  BY DEF Init, Delivery!Init
<1>2. PipelineInv /\ [Next]_vars => [Delivery!Next]_(Delivery!vars)
  BY DeliveryStep
<1> QED
  BY <1>1, <1>2, BookkeepingCorrect, PTL DEF Spec, Delivers, Delivery!Spec

(***************************************************************************)
(* A halt is explained by a rotated key                                    *)
(***************************************************************************)
\* The conflict that halts the queue was answered to a batch that the ledger
\* has under an older key; afterwards nothing is uploaded or acknowledged.
LEMMA HaltStep == PipelineInv /\ HaltIsRotation /\ [Next]_vars => HaltIsRotation'
<1> SUFFICES ASSUME PipelineInv, HaltIsRotation, [Next]_vars, halted'
             PROVE  \E b \in Applied' : ledger'[b] < key' /\ b \notin acked'
  BY DEF HaltIsRotation
<1> USE DEF PipelineInv
<1>k. Keys \subseteq Nat /\ key \in Nat /\ (\A b \in Applied : ledger[b] \in Nat)
  BY PipelineAssumption DEF TypeOK
<1>h. halted => \E b \in Applied : ledger[b] < key /\ b \notin acked
  BY DEF HaltIsRotation
<1>1. CASE halted' = halted /\ UNCHANGED <<ledger, key, acked>>
  BY <1>1, <1>h DEF Applied
<1>2. ASSUME NEW k \in Keys, Restart(k)
      PROVE  \E b \in Applied' : ledger'[b] < key' /\ b \notin acked'
  <2>1. halted /\ UNCHANGED <<ledger, acked>> /\ key' = k /\ key <= k /\ k \in Nat
    BY <1>2, <1>k DEF Restart, hub
  <2>2. PICK b \in Applied : ledger[b] < key /\ b \notin acked
    BY <1>h, <2>1
  <2>3. ledger[b] < k
    BY <1>k, <2>1, <2>2
  <2> QED
    BY <2>1, <2>2, <2>3 DEF Applied
<1>3. ASSUME NEW s \in Slots, Receive(s)
      PROVE  \E b \in Applied' : ledger'[b] < key' /\ b \notin acked'
  <2> DEFINE b == slots[s].batch
  <2>1. attempt = s /\ slots[s].stage = "answer" /\ UNCHANGED <<ledger, key>>
    BY <1>3 DEF Receive, Disposed, hub
  <2>2. ~halted /\ slots[s].key = key /\ b \notin acked
    BY <2>1, PipelineAssumption DEF AttemptInv
  <2>3. slots[s].verdict = "conflict" /\ acked' = acked
    BY <1>3, <2>2 DEF Receive, Disposed
  <2>4. b \in Applied /\ ledger[b] # key /\ ledger[b] <= key
    BY <2>1, <2>2, <2>3 DEF TrafficInv, BatchInv
  <2>5. ledger[b] < key
    BY <1>k, <2>4
  <2> QED
    BY <2>1, <2>2, <2>3, <2>4, <2>5 DEF Applied
<1>4. ASSUME NEW s \in Slots, Persist(s)
      PROVE  \E b \in Applied' : ledger'[b] < key' /\ b \notin acked'
  <2>1. slots[s].batch \in Batches /\ slots[s].key \in Keys
    BY <1>4 DEF Persist, TrafficInv, TypeOK
  <2>2. Applied \subseteq Applied' /\ (\A x \in Applied : ledger'[x] = ledger[x])
    BY <1>4, <2>1, PersistEffect DEF hub, Applied
  <2>3. halted /\ UNCHANGED <<key, acked>>
    BY <1>4 DEF Persist, client
  <2> QED
    BY <1>h, <2>2, <2>3
<1>5. CASE Work \/ Close \/ GiveUpAttempt \/ UNCHANGED vars
           \/ (\E b \in Batches : Collect(b) \/ Drop(b))
  BY <1>1, <1>5 DEF Work, Close, GiveUpAttempt, Collect, Drop, vars, client, hub
<1>6. CASE \E s \in Slots : \/ \E b \in Batches : Upload(s, b)
                            \/ Lose(s)
                            \/ \E verdict \in Verdicts : Refuse(s, verdict)
  BY <1>1, <1>6 DEF Upload, Lose, Refuse, client, hub
<1> QED
  BY <1>2, <1>3, <1>4, <1>5, <1>6 DEF Next

\* The queue halts only on a batch the hub has under a key rotated since, and
\* that batch is still to be acknowledged (drainStep, "conflict-halt").
THEOREM HaltCorrect == Spec => []HaltIsRotation
<1>1. Init => HaltIsRotation
  BY DEF Init, HaltIsRotation
<1>2. PipelineInv /\ HaltIsRotation /\ [Next]_vars => HaltIsRotation'
  BY HaltStep
<1> QED
  BY <1>1, <1>2, BookkeepingCorrect, PTL DEF Spec

(***************************************************************************)
(* The hub's row of the session                                            *)
(***************************************************************************)
\* Every step of the hub is that of persistBatch on a batch that is new.
LEMMA RowChange ==
  ASSUME PipelineInv, [Next]_vars
  PROVE  \/ UNCHANGED <<session, watermark, ledger>>
         \/ \E b \in Collected \ Applied :
              /\ content[b] \in Session /\ Merge(b) /\ UNCHANGED content
              /\ Applied' = Applied \cup {b}
<1> USE DEF PipelineInv
<1>1. ASSUME NEW s \in Slots, Persist(s)
      PROVE  \/ UNCHANGED hub
             \/ \E b \in Collected \ Applied :
                  /\ content[b] \in Session /\ Merge(b) /\ UNCHANGED content
                  /\ Applied' = Applied \cup {b}
  <2> DEFINE b == slots[s].batch
  <2>1. b \in Collected /\ b \in Batches /\ slots[s].key \in Keys /\ content[b] \in Session
    BY <1>1 DEF Persist, TrafficInv, TypeOK
  <2>2. content' = content
    BY <1>1 DEF Persist
  <2>3. CASE b \in Applied
    BY <1>1, <2>1, <2>3, PersistEffect
  <2>4. CASE b \notin Applied
    BY <1>1, <2>1, <2>2, <2>4, PersistEffect
  <2> QED
    BY <2>3, <2>4
<1>2. CASE Work \/ Close \/ GiveUpAttempt \/ UNCHANGED vars
           \/ (\E b \in Batches : Collect(b) \/ Drop(b)) \/ (\E k \in Keys : Restart(k))
  BY <1>2 DEF Work, Close, GiveUpAttempt, Collect, Drop, Restart, vars, hub
<1>3. CASE \E s \in Slots : \/ \E b \in Batches : Upload(s, b)
                            \/ Lose(s) \/ Receive(s)
                            \/ \E verdict \in Verdicts : Refuse(s, verdict)
  BY <1>3 DEF Upload, Lose, Refuse, Receive, Disposed, hub
<1> QED
  BY <1>1, <1>2, <1>3 DEF Next, hub

\* A batch that is not applied keeps its content when others are collected.
LEMMA ContentKept ==
  ASSUME [Next]_vars
  PROVE  \A x \in Collected : content'[x] = content[x]
BY DEF Next, Work, Close, GiveUpAttempt, Collect, Drop, Restart, Upload, Receive,
       Disposed, Lose, Refuse, Persist, vars, Collected

LEMMA RowStep ==
  PipelineInv /\ RowInv /\ HubShowsClose /\ [Next]_vars
    => RowInv' /\ HubShowsClose'
<1> SUFFICES ASSUME PipelineInv, RowInv, HubShowsClose, [Next]_vars
             PROVE  RowInv' /\ HubShowsClose'
  OBVIOUS
<1>1. CASE UNCHANGED <<session, watermark, ledger>>
  <2>1. Applied' = Applied /\ Applied \subseteq Collected
    BY <1>1 DEF Applied, PipelineInv, BatchInv
  <2>2. \A x \in Applied : content'[x] = content[x]
    BY <2>1, ContentKept
  <2>3. RowInv'
    BY <1>1, <2>1, <2>2 DEF RowInv
  <2>4. HubShowsClose'
    BY <1>1, <2>1, <2>2 DEF HubShowsClose
  <2> QED
    BY <2>3, <2>4
<1>2. ASSUME NEW n \in Collected \ Applied, content[n] \in Session, Merge(n),
             UNCHANGED content, Applied' = Applied \cup {n}
      PROVE  RowInv' /\ HubShowsClose'
  <2>1. /\ session.active \in Int /\ session.known \in BOOLEAN
        /\ session.closed \in BOOLEAN
        /\ \A x \in Applied \cup {n} : content[x].active \in Int
        /\ \A x \in Applied \cup {n} : content[x].closed \in BOOLEAN
    BY <1>2, PipelineAssumption DEF PipelineInv, BatchInv, TypeOK, Row, Session
  <2>2. /\ Newer(content[n], session) =>
             /\ session'.active = content[n].active
             /\ session'.closed = content[n].closed /\ session'.known
        /\ ~Newer(content[n], session) => session' = session /\ session.known
    BY <1>2 DEF Merge, Newer
  <2>3. RowInv'
    BY <1>2, <2>2 DEF RowInv
  <2>4. ASSUME NEW b \in Applied \cup {n}, content[b].closed,
               \A x \in Applied \cup {n} : content[x].active <= content[b].active
        PROVE  session'.closed /\ session'.active = content[b].active
    <3>1. session.known => session.active <= content[b].active
      BY <2>4 DEF RowInv
    <3>2. CASE b = n
      <4>1. CASE ~session.known \/ session.active # content[n].active
        BY <2>1, <2>2, <2>4, <3>1, <3>2, <4>1 DEF Newer
      <4>2. CASE session.known /\ session.active = content[n].active
        BY <2>1, <2>2, <2>4, <3>2, <4>2 DEF Newer
      <4> QED
        BY <4>1, <4>2
    <3>3. CASE b \in Applied
      <4>1. session.closed /\ session.active = content[b].active /\ session.known
        BY <2>4, <3>3 DEF HubShowsClose, RowInv
      <4>2. ~Newer(content[n], session)
        <5>1. ~(content[n].active > session.active)
          BY <2>1, <2>4, <4>1
        <5> QED
          BY <4>1, <5>1 DEF Newer
      <4> QED
        BY <2>2, <4>1, <4>2
    <3> QED
      BY <2>4, <3>2, <3>3
  <2>5. HubShowsClose'
    BY <1>2, <2>4 DEF HubShowsClose
  <2> QED
    BY <2>3, <2>5
<1> QED
  BY <1>1, <1>2, RowChange

\* Whatever the order batches arrive in, a close that is the latest news of
\* the session is what the hub shows (persistBatch, newer-only sessions).
THEOREM CloseCorrect == Spec => []HubShowsClose
<1>1. Init => RowInv /\ HubShowsClose
  BY DEF Init, RowInv, HubShowsClose, Applied
<1>2. PipelineInv /\ RowInv /\ HubShowsClose /\ [Next]_vars
        => RowInv' /\ HubShowsClose'
  BY RowStep
<1> QED
  BY <1>1, <1>2, BookkeepingCorrect, PTL DEF Spec

\* The hub's row of the session and the host's watermark never go back.
LEMMA RegressStep ==
  ASSUME PipelineInv, RowInv, [Next]_vars
  PROVE  /\ session.known => session'.known
         /\ session.active <= session'.active
         /\ session.closed => session'.closed
         /\ watermark <= watermark'
<1>1. session.active \in Int /\ watermark \in Int /\ Batches \subseteq Nat
  BY PipelineAssumption DEF PipelineInv, TypeOK, Row, NoBatch
<1>2. CASE UNCHANGED <<session, watermark, ledger>>
  BY <1>1, <1>2
<1>3. ASSUME NEW n \in Collected \ Applied, content[n] \in Session, Merge(n)
      PROVE  /\ session.known => session'.known
             /\ session.active <= session'.active
             /\ session.closed => session'.closed
             /\ watermark <= watermark'
  <2>1. content[n].active \in Int /\ 0 <= content[n].active
        /\ content[n].closed \in BOOLEAN /\ session.closed \in BOOLEAN
    BY <1>3, PipelineAssumption DEF Session, PipelineInv, TypeOK, Row
  <2>2. n \in Nat
    BY <1>1 DEF PipelineInv, TypeOK
  <2>3. watermark <= watermark'
    BY <1>1, <1>3, <2>2 DEF Merge
  <2>4. CASE Newer(content[n], session)
    <3>1. session'.active = content[n].active /\ session'.known
          /\ session'.closed = content[n].closed
      BY <1>3, <2>4 DEF Merge
    <3>2. session.active <= content[n].active /\ (session.closed => content[n].closed)
      BY <1>1, <2>1, <2>4 DEF Newer, RowInv
    <3> QED
      BY <2>3, <3>1, <3>2
  <2>5. CASE ~Newer(content[n], session)
    BY <1>1, <1>3, <2>3, <2>5 DEF Merge
  <2> QED
    BY <2>4, <2>5
<1> QED
  BY <1>2, <1>3, RowChange

\* However late and in whatever order batches arrive, the hub's row of a
\* session never goes back in time and a closed session is never reopened.
THEOREM NeverRegresses == Spec => HubNeverRegresses
<1>1. Init => RowInv /\ HubShowsClose
  BY DEF Init, RowInv, HubShowsClose, Applied
<1>2. PipelineInv /\ RowInv /\ HubShowsClose /\ [Next]_vars
        => RowInv' /\ HubShowsClose'
  BY RowStep
<1>3. PipelineInv /\ RowInv /\ [Next]_vars
        => [/\ session.known => session'.known
            /\ session.active <= session'.active
            /\ session.closed => session'.closed
            /\ watermark <= watermark']_vars
  BY RegressStep
<1> QED
  BY <1>1, <1>2, <1>3, BookkeepingCorrect, PTL DEF Spec, HubNeverRegresses
=============================================================================
