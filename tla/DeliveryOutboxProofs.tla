------------------------- MODULE DeliveryOutboxProofs -------------------------
(***************************************************************************)
(* That the outbox sends every notification once unless a lease ran out or *)
(* an answer was lost, and that "sent" is the truth and stays: for any     *)
(* number of passes and events and any limits.                             *)
(***************************************************************************)
EXTENDS DeliveryOutbox, FiniteSetTheorems, TLAPS

Sends(p, e) == passes[p].phase = "sending" /\ passes[p].event = e

\* What a pass knows of itself.
CallInv(x) ==
    /\ x.phase # "none" => x.items # 0
    /\ x.phase = "sending" => x.event \in Events
    /\ x.phase # "sending" => ~x.arrived

CallsInv == \A p \in Passes : CallInv(passes[p])

\* A delivery that has its copy in the chat is settled, or about to be: the
\* only pass that could still fail it knows of the copy.
Delivered(e) ==
    \/ e \notin Recorded /\ e \in old
    \/ e \in Recorded /\ rows[e].status = "sent"
    \/ /\ e \in Recorded /\ rows[e].status = "sending"
       /\ \A p \in Passes : Sends(p, e) => passes[p].arrived

\* A delivery whose lease never ran out in a send belongs to the pass that
\* sends it, and has used as many attempts as it was given.
Fenced(e) ==
    /\ \A p \in Passes : Sends(p, e) => Holds(p, e)
    /\ e \in Recorded =>
         /\ rows[e].attempts <= MaxRetries
         /\ rows[e].status = "pending" => rows[e].attempts = 0
         /\ rows[e].status = "sending" => rows[e].ttl >= 0

EventInv(e) ==
    /\ e \notin expired => Fenced(e)
    /\ e \notin expired \cup lost => copies[e] = 0 \/ (copies[e] = 1 /\ Delivered(e))

\* What was sent, or is being sent, was recorded once and is not recorded again.
KnownInv ==
    /\ \A e \in Events : copies[e] > 0 => e \in events \cup old
    /\ \A p \in Passes : /\ passes[p].phase = "sending" => passes[p].event \in events \cup old
                         /\ passes[p].arrived => copies[passes[p].event] > 0

OutboxInv ==
    /\ TypeOK /\ CallsInv /\ KnownInv /\ SentArrived
    /\ \A e \in Events : EventInv(e)

-----------------------------------------------------------------------------

\* An event whose delivery and senders a step leaves alone keeps its invariant;
\* a lease may run out, if that is noted.
LEMMA EventFrame ==
    ASSUME NEW e \in Events, EventInv(e), e \in Recorded' <=> e \in Recorded,
           e \in Recorded => /\ rows'[e].status = rows[e].status
                             /\ rows'[e].attempts = rows[e].attempts
                             /\ rows'[e].holder = rows[e].holder
                             /\ \/ rows'[e].ttl = rows[e].ttl
                                \/ rows[e].status = "sending" /\ e \notin expired'
                                     => rows'[e].ttl >= 0,
           \A p \in Passes : Sends(p, e)' =>
             Sends(p, e) /\ passes'[p].arrived = passes[p].arrived,
           copies'[e] = copies[e],
           expired \subseteq expired', lost \subseteq lost', old \subseteq old'
    PROVE  EventInv(e)'
<1>1. e \notin expired' => Fenced(e)'
  BY DEF EventInv, Fenced, Holds
<1>2. Delivered(e) => Delivered(e)'
  BY DEF Delivered
<1> QED
  BY <1>1, <1>2 DEF EventInv

\* The next item of a pass: the pass goes on or is over, and sends nothing.
LEMMA NextItemIs ==
    ASSUME NEW x \in Pass, CallInv(x), x.phase # "none", NEW failing \in SUBSET Events
    PROVE  /\ NextItem(x, failing) \in Pass /\ CallInv(NextItem(x, failing))
           /\ NextItem(x, failing).phase # "sending"
<1>1. x.items \in Nat \ {0}
  BY DEF CallInv, Pass
<1>2. CASE x.items = 1
  <2>1. NoCall \in Pass
    <3>1. 0 \in 0 .. MaxLead
      BY OutboxAssumption
    <3> QED
      BY <3>1 DEF NoCall, Pass
  <2> QED
    BY <1>2, <2>1 DEF NextItem, NoCall, CallInv
<1>3. CASE x.items # 1
  <2>1. x.items - 1 \in Nat /\ x.items - 1 # 0
    BY <1>1, <1>3
  <2> DEFINE y == [x EXCEPT !.phase = "claiming", !.items = @ - 1,
                            !.event = NoEvent, !.arrived = FALSE,
                            !.failedHere = @ \cup failing]
  <2>2. y \in Pass
    BY <2>1 DEF Pass
  <2>3. y.phase = "claiming" /\ y.items = x.items - 1 /\ y.arrived = FALSE
    BY DEF Pass
  <2>4. NextItem(x, failing) = y
    BY <1>3 DEF NextItem
  <2> HIDE DEF y
  <2> QED
    BY <2>1, <2>2, <2>3, <2>4 DEF CallInv
<1> QED
  BY <1>2, <1>3

\* One pass goes on; the others are as they were.
LEMMA CallStep ==
    ASSUME TypeOK, CallsInv, NEW p \in Passes, NEW y \in Pass, CallInv(y),
           passes' = [passes EXCEPT ![p] = y]
    PROVE  /\ passes' \in [Passes -> Pass] /\ CallsInv'
           /\ passes'[p] = y /\ \A q \in Passes \ {p} : passes'[q] = passes[q]
BY DEF TypeOK, CallsInv

\* A call that has not begun, or is over.
LEMMA NoCallIs == NoCall \in Pass /\ CallInv(NoCall) /\ NoCall.phase = "none"
<1>1. 0 \in 0 .. MaxLead
  BY OutboxAssumption
<1> QED
  BY <1>1 DEF NoCall, Pass, CallInv

\* A call that begins, before its first claim.
LEMMA BegunIs ==
    ASSUME NEW n \in Nat \ {0}, NEW lead \in 0 .. MaxLead, NEW S \in SUBSET Events
    PROVE  LET y == [NoCall EXCEPT !.phase = "claiming", !.items = n,
                                   !.lead = lead, !.retryable = S]
           IN  y \in Pass /\ CallInv(y) /\ y.phase # "sending"
<1> DEFINE y == [NoCall EXCEPT !.phase = "claiming", !.items = n,
                               !.lead = lead, !.retryable = S]
<1>1. NoCall \in Pass
  BY NoCallIs
<1>2. y \in Pass
  BY <1>1 DEF Pass
<1>3. y.phase = "claiming" /\ y.items = n /\ y.arrived = FALSE
  BY DEF NoCall
<1> HIDE DEF y
<1>4. CallInv(y)
  BY <1>3 DEF CallInv
<1> QED
  BY <1>2, <1>3, <1>4 DEF y

\* The outbox is empty when it is first used.
LEMMA OutboxInit == Init => OutboxInv
<1> SUFFICES ASSUME Init PROVE OutboxInv
  OBVIOUS
<1>0. Recorded = {}
  BY DEF Init, Recorded
<1>1. TypeOK
  BY <1>0, NoCallIs, OutboxAssumption DEF Init, TypeOK
<1>2. CallsInv
  BY NoCallIs DEF Init, CallsInv
<1>3. KnownInv /\ SentArrived
  BY <1>0 DEF Init, KnownInv, NoCall, SentArrived
<1>4. ASSUME NEW e \in Events PROVE EventInv(e)
  <2>1. \A p \in Passes : ~Sends(p, e)
    BY DEF Init, Sends, NoCall
  <2> QED
    BY <1>0, <2>1 DEF Init, EventInv, Fenced
<1> QED
  BY <1>1, <1>2, <1>3, <1>4 DEF OutboxInv

\* A new event's delivery: nobody sends it and the chat has no copy of it.
LEMMA RecordStep ==
    ASSUME OutboxInv, NEW e \in Events, Record(e)
    PROVE  OutboxInv'
<1> USE DEF OutboxInv
<1>1. /\ e \notin events \cup old /\ events' = events \cup {e}
      /\ UNCHANGED <<old, passes, ahead, telegram, copies, expired, lost, budget>>
  BY DEF Record
<1>2. /\ Recorded' = Recorded \cup {e} /\ rows'[e] = NewRow
      /\ \A x \in Recorded : x # e /\ rows'[x] = rows[x]
  <2>1. rows' = [x \in Recorded \cup {e} |-> IF x = e THEN NewRow ELSE rows[x]]
    BY DEF Record
  <2>2. e \notin Recorded
    BY <1>1 DEF SentArrived
  <2> QED
    BY <2>1, <2>2 DEF Recorded
<1>3. NewRow \in Row
  BY OutboxAssumption DEF NewRow, Row, Statuses
<1>4. TypeOK'
  BY <1>1, <1>2, <1>3 DEF TypeOK
<1>5. CallsInv' /\ KnownInv'
  BY <1>1 DEF CallsInv, KnownInv
<1>6. SentArrived'
  BY <1>1, <1>2 DEF SentArrived, NewRow
<1>7. EventInv(e)'
  <2>1. copies[e] = 0 /\ \A p \in Passes : ~Sends(p, e)
    BY <1>1 DEF KnownInv, Sends, TypeOK
  <2>2. /\ rows'[e].status = "pending" /\ rows'[e].attempts = 0 /\ e \in Recorded'
        /\ MaxRetries \in Nat
    BY <1>2, OutboxAssumption DEF NewRow
  <2>3. Fenced(e)'
    BY <1>1, <2>1, <2>2 DEF Fenced, Sends
  <2> QED
    BY <1>1, <2>1, <2>3 DEF EventInv
<1>8. ASSUME NEW x \in Events, x # e PROVE EventInv(x)'
  <2>1. EventInv(x) /\ (x \in Recorded' <=> x \in Recorded)
    BY <1>2, <1>8
  <2> QED
    BY <1>1, <1>2, <2>1, EventFrame DEF Sends
<1> QED
  BY <1>4, <1>5, <1>6, <1>7, <1>8

\* A pass that begins, ends, or vanishes in a crash sends nothing.
LEMMA PassStep ==
    ASSUME OutboxInv, StartPass \/ Restart \/ \E p \in Passes : NothingToClaim(p)
    PROVE  OutboxInv'
<1> USE DEF OutboxInv
<1>1. UNCHANGED <<rows, events, old, copies, expired, lost>>
  BY DEF StartPass, BeginPass, Restart, NothingToClaim
<1>2. /\ passes' \in [Passes -> Pass] /\ CallsInv'
      /\ \A q \in Passes : passes'[q] = passes[q] \/ passes'[q].phase # "sending"
      /\ ahead' \in -1 .. MaxLead /\ telegram' \in BOOLEAN
      /\ budget' \in [crashes : Nat, slow : Nat]
  <2>1. ASSUME NEW p \in Passes, NEW n \in MaxItems, BeginPass(p, n)
        PROVE  <1>2!:
    <3>1. Boundary \in 0 .. MaxLead
      BY <2>1, OutboxAssumption DEF BeginPass, Boundary, TypeOK
    <3>2. AttemptedBefore(Boundary) \in SUBSET Events /\ n \in Nat \ {0}
      BY OutboxAssumption DEF AttemptedBefore, TypeOK
    <3>3. PICK y \in Pass :
            /\ CallInv(y) /\ y.phase # "sending"
            /\ passes' = [passes EXCEPT ![p] = y]
      BY <2>1, <3>1, <3>2, BegunIs DEF BeginPass
    <3>4. /\ passes' \in [Passes -> Pass] /\ CallsInv'
          /\ \A q \in Passes : passes'[q] = passes[q] \/ passes'[q].phase # "sending"
      BY <3>3, CallStep
    <3>5. ahead' = Boundary /\ UNCHANGED <<telegram, budget>>
      BY <2>1 DEF BeginPass
    <3> QED
      BY <3>1, <3>4, <3>5, OutboxAssumption DEF TypeOK
  <2>2. ASSUME NEW p \in Passes, NothingToClaim(p) PROVE <1>2!:
    BY <2>2, CallStep, NoCallIs DEF NothingToClaim, TypeOK
  <2>3. CASE Restart
    <3>1. passes' = [p \in Passes |-> NoCall] /\ ahead' = -1 /\ telegram' \in BOOLEAN
          /\ budget' = [budget EXCEPT !.crashes = @ + 1]
      BY <2>3 DEF Restart
    <3>2. budget' \in [crashes : Nat, slow : Nat]
      BY <3>1 DEF TypeOK
    <3> QED
      BY <3>1, <3>2, NoCallIs, OutboxAssumption DEF CallsInv
  <2> QED
    BY <2>1, <2>2, <2>3 DEF StartPass
<1>3. TypeOK' /\ SentArrived'
  BY <1>1, <1>2 DEF TypeOK, SentArrived, Recorded
<1>4. KnownInv'
  BY <1>1, <1>2 DEF KnownInv, CallsInv, CallInv
<1>5. ASSUME NEW e \in Events PROVE EventInv(e)'
  <2>1. EventInv(e)
    OBVIOUS
  <2>2. \A p \in Passes : Sends(p, e)' =>
          Sends(p, e) /\ passes'[p].arrived = passes[p].arrived
    BY <1>2 DEF Sends
  <2> QED
    BY <1>1, <2>1, <2>2, EventFrame DEF Recorded
<1> QED
  BY <1>2, <1>3, <1>4, <1>5

\* What retention removes is settled: nobody sends it, unless its lease ran out.
LEMMA PruneStep ==
    ASSUME OutboxInv, Prune
    PROVE  OutboxInv'
<1> USE DEF OutboxInv
<1>1. UNCHANGED <<old, passes, ahead, telegram, copies, expired, lost, budget>>
  BY DEF Prune
<1>2. /\ Recorded' = {x \in Recorded : x \in old => rows[x].status \notin {"sent", "silenced"}}
      /\ \A x \in Recorded' : x \in Recorded /\ rows'[x] = rows[x]
      /\ events' = {x \in events : x \in old => x \in Recorded'}
  BY DEF Prune, Recorded
<1>3. TypeOK'
  BY <1>1, <1>2 DEF TypeOK
<1>4. CallsInv' /\ SentArrived' /\ KnownInv'
  BY <1>1, <1>2 DEF CallsInv, SentArrived, KnownInv
<1>5. ASSUME NEW e \in Events PROVE EventInv(e)'
  <2>1. EventInv(e)
    OBVIOUS
  <2>2. CASE e \in Recorded \ Recorded'
    <3>1. e \in old /\ rows[e].status \in {"sent", "silenced"}
      BY <1>2, <2>2
    <3>2. e \notin expired => \A p \in Passes : ~Sends(p, e)
      BY <2>1, <3>1 DEF EventInv, Fenced, Holds
    <3>3. Delivered(e)'
      BY <1>1, <2>2, <3>1 DEF Delivered
    <3>4. e \notin expired' => Fenced(e)'
      BY <1>1, <2>2, <3>2 DEF Fenced, Sends
    <3> QED
      BY <1>1, <2>1, <3>3, <3>4 DEF EventInv
  <2>3. CASE e \notin Recorded \ Recorded'
    <3>1. e \in Recorded' <=> e \in Recorded
      BY <1>2, <2>3
    <3> QED
      BY <1>1, <1>2, <2>1, <3>1, EventFrame DEF Sends
  <2> QED
    BY <2>2, <2>3
<1> QED
  BY <1>3, <1>4, <1>5

\* An event gets old.
LEMMA AgeStep ==
    ASSUME OutboxInv, NEW x \in Events, Age(x)
    PROVE  OutboxInv'
<1> USE DEF OutboxInv
<1>1. /\ UNCHANGED <<rows, events, passes, ahead, telegram, copies, expired, lost, budget>>
      /\ old \subseteq old' /\ old' \subseteq Events
  BY DEF Age, TypeOK
<1>2. TypeOK' /\ CallsInv' /\ SentArrived' /\ KnownInv'
  BY <1>1 DEF TypeOK, CallsInv, SentArrived, KnownInv, Recorded
<1>3. ASSUME NEW e \in Events PROVE EventInv(e)'
  BY <1>1, EventFrame DEF Recorded, Sends
<1> QED
  BY <1>2, <1>3

\* A tick: a lease that runs out in a send is noted.
LEMMA TickStep ==
    ASSUME OutboxInv, Tick
    PROVE  OutboxInv'
<1> USE DEF OutboxInv
<1>1. /\ UNCHANGED <<events, old, telegram, copies, lost>> /\ ahead' = Later(ahead, -1)
      /\ expired' = expired \cup
           {e \in Recorded : rows[e].status = "sending" /\ rows[e].ttl = 0}
  BY DEF Tick
<1>2. Recorded' = Recorded
  BY DEF Tick, Recorded
<1>3. ASSUME NEW e \in Recorded
      PROVE  /\ rows'[e] \in Row
             /\ rows'[e].status = rows[e].status /\ rows'[e].attempts = rows[e].attempts
             /\ rows'[e].holder = rows[e].holder /\ rows'[e].ttl = Later(rows[e].ttl, -1)
  <2>1. rows[e] \in Row /\ rows[e].ttl \in -1 .. LeaseDuration /\ LeaseDuration \in Nat
    BY OutboxAssumption DEF TypeOK, Row
  <2>2. Later(rows[e].ttl, -1) \in -1 .. LeaseDuration
    BY <2>1 DEF Later
  <2>3. rows'[e] = [rows[e] EXCEPT !.ttl = Later(@, -1), !.fresh = FALSE]
    BY DEF Tick
  <2> QED
    BY <2>1, <2>2, <2>3 DEF Row
<1>4. ASSUME NEW p \in Passes
      PROVE  /\ passes'[p] \in Pass /\ passes'[p].phase = passes[p].phase
             /\ passes'[p].event = passes[p].event /\ passes'[p].items = passes[p].items
             /\ passes'[p].arrived = passes[p].arrived
  <2>1. passes[p] \in Pass /\ passes[p].lead \in 0 .. MaxLead /\ MaxLead \in Nat
    BY OutboxAssumption DEF TypeOK, Pass
  <2>2. Later(passes[p].lead, 0) \in 0 .. MaxLead
    BY <2>1 DEF Later
  <2>3. passes'[p] = [passes[p] EXCEPT !.lead = Later(@, 0)]
    BY DEF Tick
  <2> QED
    BY <2>1, <2>2, <2>3 DEF Pass
<1>5. passes' \in [Passes -> Pass] /\ CallsInv'
  <2>1. passes' = [p \in Passes |-> passes'[p]]
    BY DEF Tick
  <2>2. CallsInv'
    BY <1>4 DEF CallsInv, CallInv
  <2> QED
    BY <1>4, <2>1, <2>2
<1>6. ahead' \in -1 .. MaxLead /\ budget' \in [crashes : Nat, slow : Nat]
  <2>1. ahead \in -1 .. MaxLead /\ MaxLead \in Nat
    BY OutboxAssumption DEF TypeOK
  <2>2. Cardinality(Overtaken) \in Nat
    <3>1. Overtaken \subseteq Passes
      BY DEF Overtaken
    <3> QED
      BY <3>1, OutboxAssumption, FS_Subset, FS_CardinalityType
  <2>3. budget' = [budget EXCEPT !.slow = @ + Cardinality(Overtaken)]
    BY DEF Tick
  <2>4. budget' \in [crashes : Nat, slow : Nat]
    BY <2>2, <2>3 DEF TypeOK
  <2> QED
    BY <1>1, <2>1, <2>4 DEF Later
<1>7. TypeOK' /\ SentArrived'
  BY <1>1, <1>2, <1>3, <1>5, <1>6 DEF TypeOK, SentArrived
<1>8. KnownInv'
  BY <1>1, <1>4 DEF KnownInv
<1>9. ASSUME NEW e \in Events PROVE EventInv(e)'
  <2>1. ASSUME e \in Recorded
        PROVE  \/ rows'[e].ttl = rows[e].ttl
               \/ rows[e].status = "sending" /\ e \notin expired' => rows'[e].ttl >= 0
    <3>1. rows[e].ttl \in -1 .. LeaseDuration
      BY <2>1 DEF TypeOK, Row
    <3>2. rows[e].status = "sending" /\ e \notin expired' => rows[e].ttl > 0
      BY <1>1, <2>1, <3>1 DEF EventInv, Fenced
    <3> QED
      BY <1>3, <2>1, <3>1, <3>2 DEF Later
  <2>2. \A p \in Passes : Sends(p, e)' =>
          Sends(p, e) /\ passes'[p].arrived = passes[p].arrived
    BY <1>4 DEF Sends
  <2>3. /\ EventInv(e) /\ copies'[e] = copies[e]
        /\ expired \subseteq expired' /\ lost \subseteq lost' /\ old \subseteq old'
    BY <1>1
  <2> QED
    BY <1>2, <1>3, <2>1, <2>2, <2>3, EventFrame
<1> QED
  BY <1>5, <1>7, <1>8, <1>9

\* A message arrives: a second copy of it has an expired lease or a lost answer.
LEMMA ArriveStep ==
    ASSUME OutboxInv, NEW p \in Passes, Arrive(p)
    PROVE  OutboxInv'
<1> USE DEF OutboxInv
<1>0. PICK e \in Events : e = passes[p].event
  BY DEF Arrive, CallsInv, CallInv
<1> DEFINE y == [passes[p] EXCEPT !.arrived = TRUE]
<1>1. /\ passes[p].phase = "sending" /\ passes[p] \in Pass /\ CallInv(passes[p])
      /\ Sends(p, e)
  BY <1>0 DEF Arrive, TypeOK, CallsInv, CallInv, Sends
<1>2. y \in Pass /\ y.phase = "sending" /\ y.event = e /\ y.items = passes[p].items /\ y.arrived
  BY <1>0, <1>1 DEF Pass
<1>3. CallInv(y)
  BY <1>1, <1>2 DEF CallInv
<1>4. passes' = [passes EXCEPT ![p] = y]
  BY DEF Arrive, TypeOK
<1>5. /\ UNCHANGED <<rows, events, old, ahead, telegram, expired, budget>>
      /\ copies' = [copies EXCEPT ![e] = IF @ = 2 THEN 2 ELSE @ + 1]
      /\ lost' = IF passes[p].arrived THEN lost \cup {e} ELSE lost
  BY <1>0 DEF Arrive
<1> HIDE DEF y
<1>6. /\ passes' \in [Passes -> Pass] /\ CallsInv'
      /\ passes'[p] = y /\ \A q \in Passes \ {p} : passes'[q] = passes[q]
  BY <1>2, <1>3, <1>4, CallStep
<1>7. /\ copies' \in [Events -> 0 .. 2] /\ copies'[e] > 0
      /\ copies[e] = 0 => copies'[e] = 1
      /\ \A x \in Events \ {e} : copies'[x] = copies[x]
  BY <1>1, <1>5 DEF TypeOK
<1>8. TypeOK'
  BY <1>1, <1>5, <1>6, <1>7 DEF TypeOK, Recorded
<1>9. SentArrived'
  BY <1>5, <1>7 DEF SentArrived, TypeOK, Recorded
<1>10. KnownInv'
  <2>1. e \in events \cup old
    BY <1>0, <1>1 DEF KnownInv
  <2>2. \A q \in Passes \ {p} : passes[q].arrived => passes[q].event \in Events
    BY DEF CallsInv, CallInv
  <2> QED
    BY <1>1, <1>2, <1>5, <1>6, <1>7, <2>1, <2>2 DEF KnownInv
<1>11. EventInv(e)'
  <2>1. Fenced(e) => Fenced(e)'
    BY <1>1, <1>2, <1>5, <1>6 DEF Fenced, Sends, Holds, Recorded
  <2>2. ASSUME e \notin expired \cup lost'
        PROVE  copies'[e] = 1 /\ Delivered(e)'
    <3>1. ~passes[p].arrived /\ Fenced(e)
      BY <1>5, <2>2 DEF EventInv
    <3>2. Holds(p, e) /\ \A q \in Passes : Sends(q, e) => q = p
      BY <1>1, <3>1 DEF Fenced, Holds
    <3>3. copies[e] = 0
      BY <1>1, <1>5, <2>2, <3>1, <3>2 DEF EventInv, Delivered, Holds
    <3>4. Delivered(e)'
      <4>1. \A q \in Passes : Sends(q, e)' => passes'[q].arrived
        BY <1>2, <1>6, <3>2 DEF Sends
      <4> QED
        BY <1>5, <3>2, <4>1 DEF Delivered, Holds, Recorded
    <3> QED
      BY <1>7, <3>3, <3>4
  <2> QED
    BY <1>5, <2>1, <2>2 DEF EventInv
<1>12. ASSUME NEW x \in Events, x # e PROVE EventInv(x)'
  <2>1. \A q \in Passes : Sends(q, x)' =>
          Sends(q, x) /\ passes'[q].arrived = passes[q].arrived
    BY <1>2, <1>6, <1>12 DEF Sends
  <2>2. /\ EventInv(x) /\ copies'[x] = copies[x]
        /\ expired \subseteq expired' /\ lost \subseteq lost' /\ old \subseteq old'
    BY <1>5, <1>7, <1>12
  <2> QED
    BY <1>5, <2>1, <2>2, EventFrame DEF Recorded
<1> QED
  BY <1>6, <1>8, <1>9, <1>10, <1>11, <1>12

\* The rows of the other events stay as they are.
OthersKept(e) == \A x \in Recorded \ {e} : rows'[x] = rows[x]

\* A row that changes hands or is released: a row of the table.
LEMMA ReleasedIs ==
    ASSUME NEW row \in Row, NEW status \in Statuses
    PROVE  /\ Released(row, status) \in Row /\ Released(row, status).status = status
           /\ Released(row, status).attempts = row.attempts
<1>1. -1 \in -1 .. LeaseDuration
  BY OutboxAssumption
<1> QED
  BY <1>1 DEF Released, Row

\* The answer to a send, in time or behind the end of the lease.
LEMMA AnswerStep ==
    ASSUME OutboxInv, NEW p \in Passes, NEW ok \in BOOLEAN, Answer(p, ok)
    PROVE  OutboxInv'
<1> USE DEF OutboxInv
<1>0. PICK e \in Events : e = passes[p].event
  BY DEF Answer, CallsInv, CallInv
<1> DEFINE status == IF ok THEN "sent" ELSE "failed"
           failing == IF Holds(p, e) /\ ~ok THEN {e} ELSE {}
           y == NextItem(passes[p], failing)
<1>1. /\ passes[p].phase = "sending" /\ passes[p] \in Pass /\ CallInv(passes[p])
      /\ Sends(p, e) /\ (ok => passes[p].arrived)
  BY <1>0 DEF Answer, TypeOK, CallsInv, Sends
<1>2. failing \in SUBSET Events
  OBVIOUS
<1>3. passes' = [passes EXCEPT ![p] = y]
  BY <1>0 DEF Answer
<1>4. /\ UNCHANGED <<events, old, ahead, telegram, copies, expired, budget>>
      /\ rows' = IF Holds(p, e) THEN [rows EXCEPT ![e] = Released(@, status)] ELSE rows
      /\ lost' = IF passes[p].arrived /\ ~ok THEN lost \cup {e} ELSE lost
  BY <1>0 DEF Answer
<1> HIDE DEF failing
<1>5. y \in Pass /\ CallInv(y) /\ y.phase # "sending"
  BY <1>1, <1>2, NextItemIs
<1> HIDE DEF y
<1>6. /\ passes' \in [Passes -> Pass] /\ CallsInv'
      /\ passes'[p] = y /\ \A q \in Passes \ {p} : passes'[q] = passes[q]
  BY <1>3, <1>5, CallStep
<1>7. /\ Recorded' = Recorded /\ OthersKept(e)
      /\ ~Holds(p, e) => rows' = rows
      /\ Holds(p, e) => /\ rows'[e] \in Row /\ rows'[e].status = status
                        /\ rows'[e].attempts = rows[e].attempts
  <2>1. CASE Holds(p, e)
    <3>1. e \in Recorded /\ rows[e] \in Row /\ status \in Statuses
      BY <2>1 DEF Holds, TypeOK, Statuses
    <3>2. Recorded' = Recorded /\ OthersKept(e) /\ rows'[e] = Released(rows[e], status)
      BY <1>4, <2>1, <3>1 DEF Recorded, OthersKept
    <3> QED
      BY <2>1, <3>1, <3>2, ReleasedIs
  <2>2. CASE ~Holds(p, e)
    BY <1>4, <2>2 DEF Recorded, OthersKept
  <2> QED
    BY <2>1, <2>2
<1>8. TypeOK'
  <2>1. \A x \in Recorded : rows'[x] \in Row
    BY <1>7 DEF OthersKept, TypeOK
  <2> QED
    BY <1>4, <1>6, <1>7, <2>1 DEF TypeOK
<1>9. SentArrived'
  <2>1. ok => copies[e] > 0
    BY <1>0, <1>1 DEF KnownInv
  <2> QED
    BY <1>4, <1>7, <2>1 DEF SentArrived, OthersKept
<1>10. KnownInv'
  BY <1>4, <1>5, <1>6 DEF KnownInv, CallInv
<1>11. EventInv(e)'
  <2>1. ASSUME e \notin expired PROVE Fenced(e)'
    <3>1. Fenced(e) /\ Holds(p, e)
      BY <1>1, <2>1 DEF EventInv, Fenced
    <3>2. \A q \in Passes : ~Sends(q, e)'
      BY <1>5, <1>6, <3>1 DEF Fenced, Sends, Holds
    <3>3. rows'[e].attempts = rows[e].attempts /\ rows'[e].status \in {"sent", "failed"}
      BY <1>7, <3>1
    <3> QED
      BY <1>7, <3>1, <3>2, <3>3 DEF Fenced
  <2>2. ASSUME e \notin expired \cup lost', copies[e] # 0
        PROVE  copies[e] = 1 /\ Delivered(e)'
    <3>1. Holds(p, e) /\ copies[e] = 1 /\ Delivered(e)
      BY <1>1, <1>4, <2>2 DEF EventInv, Fenced
    <3>2. passes[p].arrived
      BY <1>1, <3>1 DEF Delivered, Holds
    <3>3. ok
      BY <1>4, <2>2, <3>2
    <3> QED
      BY <1>7, <3>1, <3>3 DEF Delivered, Holds
  <2> QED
    BY <1>4, <2>1, <2>2 DEF EventInv
<1>12. ASSUME NEW x \in Events, x # e PROVE EventInv(x)'
  <2>1. \A q \in Passes : Sends(q, x)' =>
          Sends(q, x) /\ passes'[q].arrived = passes[q].arrived
    BY <1>5, <1>6 DEF Sends
  <2>2. /\ EventInv(x) /\ copies'[x] = copies[x]
        /\ expired \subseteq expired' /\ lost \subseteq lost' /\ old \subseteq old'
    BY <1>4
  <2> QED
    BY <1>7, <1>12, <2>1, <2>2, EventFrame DEF OthersKept
<1> QED
  BY <1>6, <1>8, <1>9, <1>10, <1>11, <1>12

\* The attempt is noted in what the passes may retry, and in nothing else.
LEMMA TouchedIs ==
    ASSUME TypeOK, CallsInv, NEW e \in Events
    PROVE  /\ Touched(e) \in [Passes -> Pass]
           /\ \A q \in Passes : /\ Touched(e)[q].phase = passes[q].phase
                                /\ Touched(e)[q].event = passes[q].event
                                /\ Touched(e)[q].arrived = passes[q].arrived
                                /\ CallInv(Touched(e)[q])
<1>1. ASSUME NEW q \in Passes
      PROVE  /\ Touched(e)[q] \in Pass /\ Touched(e)[q].phase = passes[q].phase
             /\ Touched(e)[q].event = passes[q].event
             /\ Touched(e)[q].arrived = passes[q].arrived
             /\ CallInv(Touched(e)[q])
  <2> DEFINE S == IF passes[q].lead > 0 THEN passes[q].retryable \cup {e}
                                        ELSE passes[q].retryable \ {e}
  <2>1. passes[q] \in Pass /\ S \in SUBSET Events
    BY DEF TypeOK, Pass
  <2>2. Touched(e)[q] = [passes[q] EXCEPT !.retryable = S]
    BY DEF Touched
  <2> HIDE DEF S
  <2>3. /\ Touched(e)[q] \in Pass /\ Touched(e)[q].phase = passes[q].phase
        /\ Touched(e)[q].event = passes[q].event
        /\ Touched(e)[q].arrived = passes[q].arrived
        /\ Touched(e)[q].items = passes[q].items
    BY <2>1, <2>2 DEF Pass
  <2> QED
    BY <2>3 DEF CallsInv, CallInv
<1>2. Touched(e) = [q \in Passes |-> Touched(e)[q]]
  BY DEF Touched
<1> QED
  BY <1>1, <1>2

\* The row as a claim takes it.
LEMMA HeldIs ==
    ASSUME NEW row \in Row, NEW p \in Passes
    PROVE  LET held == [row EXCEPT !.status = "sending", !.holder = p,
                          !.ttl = LeaseDuration, !.attempts = @ + 1, !.fresh = TRUE]
           IN  /\ held \in Row /\ held.status = "sending" /\ held.holder = p
               /\ held.ttl = LeaseDuration /\ held.attempts = row.attempts + 1
<1> DEFINE n == row.attempts + 1
           held == [row EXCEPT !.status = "sending", !.holder = p,
                      !.ttl = LeaseDuration, !.attempts = n, !.fresh = TRUE]
<1>1. LeaseDuration \in -1 .. LeaseDuration /\ "sending" \in Statuses /\ n \in Nat
  BY OutboxAssumption DEF Statuses, Row
<1> HIDE DEF n
<1>2. /\ held \in Row /\ held.status = "sending" /\ held.holder = p
      /\ held.ttl = LeaseDuration /\ held.attempts = n
  BY <1>1 DEF Row
<1> QED
  BY <1>2 DEF n

\* A claim: unless a lease ran out, nobody else sends the event, no copy of it
\* is in the chat, and an attempt is left.
LEMMA ClaimStep ==
    ASSUME OutboxInv, NEW p \in Passes, NEW e \in Recorded, Claim(p, e)
    PROVE  OutboxInv'
<1> USE DEF OutboxInv
<1> DEFINE held == [rows[e] EXCEPT !.status = "sending", !.holder = p,
                      !.ttl = LeaseDuration, !.attempts = @ + 1, !.fresh = TRUE]
           failed == IF e \in events THEN "failed" ELSE "silenced"
           y == [Touched(e)[p] EXCEPT !.phase = "sending", !.event = e]
           z == NextItem(Touched(e)[p], {e})
<1>1. e \in Events /\ rows[e] \in Row /\ e \in events /\ passes[p].phase = "claiming"
  BY DEF TypeOK, SentArrived, Claim
<1>2. /\ held \in Row /\ held.status = "sending" /\ held.holder = p
      /\ held.ttl = LeaseDuration /\ held.attempts = rows[e].attempts + 1
  BY <1>1, HeldIs
<1>3. /\ Released(held, failed) \in Row /\ Released(held, failed).status = failed
      /\ Released(held, failed).attempts = rows[e].attempts + 1
  <2>1. failed \in Statuses
    BY DEF Statuses
  <2> HIDE DEF held, failed
  <2> QED
    BY <1>2, <2>1, ReleasedIs
<1>4. /\ Touched(e) \in [Passes -> Pass]
      /\ \A q \in Passes : /\ Touched(e)[q].phase = passes[q].phase
                           /\ Touched(e)[q].event = passes[q].event
                           /\ Touched(e)[q].arrived = passes[q].arrived
                           /\ CallInv(Touched(e)[q])
  BY <1>1, TouchedIs
<1>5. /\ y \in Pass /\ CallInv(y) /\ y.phase = "sending" /\ y.event = e /\ ~y.arrived
  <2>1. /\ Touched(e)[p] \in Pass /\ ~Touched(e)[p].arrived /\ Touched(e)[p].items # 0
    BY <1>1, <1>4 DEF CallInv
  <2>2. /\ y \in Pass /\ y.phase = "sending" /\ y.event = e
        /\ y.arrived = Touched(e)[p].arrived /\ y.items = Touched(e)[p].items
    BY <1>1, <2>1 DEF Pass
  <2> HIDE DEF y
  <2> QED
    BY <1>1, <2>1, <2>2 DEF CallInv
<1>6. z \in Pass /\ CallInv(z) /\ z.phase # "sending" /\ ~z.arrived
  <2>1. Touched(e)[p] \in Pass /\ CallInv(Touched(e)[p]) /\ Touched(e)[p].phase # "none"
    BY <1>1, <1>4
  <2>2. z \in Pass /\ CallInv(z) /\ z.phase # "sending"
    BY <1>1, <2>1, NextItemIs
  <2> QED
    BY <2>2 DEF CallInv
<1>7. UNCHANGED <<events, old, ahead, telegram, copies, expired, lost, budget>>
  BY DEF Claim
<1> HIDE DEF held, y, z
\* What was done to the row and to the pass.
<1>8. PICK r \in Row, w \in Pass :
        /\ rows' = [rows EXCEPT ![e] = r] /\ passes' = [Touched(e) EXCEPT ![p] = w]
        /\ CallInv(w) /\ ~w.arrived /\ r.attempts = rows[e].attempts + 1
        /\ \/ /\ r.status = "sending" /\ r.holder = p /\ r.ttl = LeaseDuration
              /\ w.phase = "sending" /\ w.event = e
           \/ r.status \in {"failed", "silenced"} /\ w.phase # "sending"
  <2>1. CASE e \in events /\ telegram
    <3>1. rows' = [rows EXCEPT ![e] = held]
      BY <2>1 DEF Claim, held
    <3>2. passes' = [Touched(e) EXCEPT ![p] = y]
      BY <1>4, <2>1 DEF Claim, y
    <3> QED
      BY <1>2, <1>5, <3>1, <3>2
  <2>2. CASE ~(e \in events /\ telegram)
    <3>1. rows' = [rows EXCEPT ![e] = Released(held, failed)]
      BY <2>2 DEF Claim, held
    <3>2. passes' = [Touched(e) EXCEPT ![p] = z]
      BY <1>4, <2>2 DEF Claim, z
    <3> QED
      BY <1>3, <1>6, <3>1, <3>2
  <2> QED
    BY <2>1, <2>2
<1>9. Recorded' = Recorded /\ rows'[e] = r /\ OthersKept(e)
  BY <1>8 DEF Recorded, OthersKept
<1>10. /\ passes' \in [Passes -> Pass] /\ passes'[p] = w
       /\ \A q \in Passes \ {p} : passes'[q] = Touched(e)[q]
  BY <1>4, <1>8
<1>11. TypeOK'
  <2>1. \A x \in Recorded : rows'[x] \in Row
    BY <1>9 DEF OthersKept, TypeOK
  <2> QED
    BY <1>7, <1>9, <1>10, <2>1 DEF TypeOK
<1>12. CallsInv'
  BY <1>4, <1>8, <1>10 DEF CallsInv
<1>13. SentArrived'
  BY <1>7, <1>8, <1>9 DEF SentArrived, OthersKept
<1>14. KnownInv'
  BY <1>1, <1>4, <1>7, <1>8, <1>10 DEF KnownInv
<1>15. ASSUME e \notin expired
       PROVE  /\ rows[e].status \in {"pending", "failed"}
              /\ rows[e].attempts + 1 <= MaxRetries
              /\ \A q \in Passes : ~Sends(q, e)
  <2>1. Fenced(e)
    BY <1>1, <1>15 DEF EventInv
  <2>2. /\ rows[e].attempts \in Nat /\ rows[e].ttl \in -1 .. LeaseDuration
        /\ MaxRetries \in Nat \ {0}
    BY <1>1, OutboxAssumption DEF Row
  <2>3. e \in Claimable(passes[p].retryable)
    BY DEF Claim, NextRow
  <2>4. /\ rows[e].status \in {"pending", "failed"}
        /\ rows[e].status = "failed" => rows[e].attempts < MaxRetries
    BY <2>1, <2>2, <2>3 DEF Claimable, Fenced
  <2> QED
    BY <2>1, <2>2, <2>4 DEF Fenced, Holds
<1>16. EventInv(e)'
  <2>1. ASSUME e \notin expired PROVE Fenced(e)'
    <3>1. \A q \in Passes : Sends(q, e)' => q = p /\ w.phase = "sending"
      BY <1>4, <1>10, <1>15, <2>1 DEF Sends
    <3>2. \A q \in Passes : Sends(q, e)' => Holds(q, e)'
      BY <1>8, <1>9, <3>1 DEF Holds
    <3>3. /\ r.attempts <= MaxRetries /\ r.status # "pending"
          /\ r.status = "sending" => r.ttl >= 0
      BY <1>8, <1>15, <2>1, OutboxAssumption
    <3> QED
      BY <1>9, <3>2, <3>3 DEF Fenced
  <2>2. ASSUME e \notin expired \cup lost PROVE copies[e] = 0
    BY <1>1, <1>15, <2>2 DEF EventInv, Delivered
  <2> QED
    BY <1>7, <2>1, <2>2 DEF EventInv
<1>17. ASSUME NEW x \in Events, x # e PROVE EventInv(x)'
  <2>1. \A q \in Passes : Sends(q, x)' =>
          Sends(q, x) /\ passes'[q].arrived = passes[q].arrived
    BY <1>4, <1>8, <1>10, <1>17 DEF Sends
  <2>2. EventInv(x)
    OBVIOUS
  <2> QED
    BY <1>7, <1>9, <1>17, <2>1, <2>2, EventFrame DEF OthersKept
<1> QED
  BY <1>11, <1>12, <1>13, <1>14, <1>16, <1>17

-----------------------------------------------------------------------------

\* Every step of the outbox keeps its invariant.
LEMMA OutboxStep == OutboxInv /\ [Next]_vars => OutboxInv'
<1> SUFFICES ASSUME OutboxInv, [Next]_vars PROVE OutboxInv'
  OBVIOUS
<1>1. ASSUME NEW e \in Events, Record(e) \/ Age(e) PROVE OutboxInv'
  BY <1>1, RecordStep, AgeStep
<1>2. CASE StartPass \/ Restart \/ \E p \in Passes : NothingToClaim(p)
  BY <1>2, PassStep
<1>3. ASSUME NEW p \in Passes, NEW e \in Recorded, Claim(p, e) PROVE OutboxInv'
  BY <1>3, ClaimStep
<1>4. CASE Tick
  BY <1>4, TickStep
<1>5. CASE Prune
  BY <1>5, PruneStep
<1>6. ASSUME NEW p \in Passes, Arrive(p) \/ \E ok \in BOOLEAN : Answer(p, ok)
      PROVE  OutboxInv'
  BY <1>6, ArriveStep, AnswerStep
<1>7. CASE UNCHANGED vars
  BY <1>7 DEF vars, OutboxInv, TypeOK, CallsInv, KnownInv, SentArrived, EventInv, Fenced,
              Delivered, Sends, Holds, Recorded
<1> QED
  BY <1>1, <1>2, <1>3, <1>4, <1>5, <1>6, <1>7 DEF Next, Claiming

\* With the lease of its pass as fence, an event has one sender, as many
\* attempts as it was given and one copy.
LEMMA CausesTold == OutboxInv => DuplicateNeedsCause
<1> SUFFICES ASSUME OutboxInv, NEW e \in Events
             PROVE  /\ Cardinality({p \in Passes : passes[p].phase = "sending"
                                                     /\ passes[p].event = e})
                         > 1 => e \in expired
                    /\ e \in Recorded /\ rows[e].attempts > MaxRetries => e \in expired
                    /\ copies[e] > 1 => e \in expired \cup lost
  BY DEF DuplicateNeedsCause
<1> USE DEF OutboxInv
<1> DEFINE senders == {p \in Passes : passes[p].phase = "sending" /\ passes[p].event = e}
<1>1. ASSUME e \notin expired PROVE ~(Cardinality(senders) > 1)
  <2>1. \A p, q \in senders : p = q
    BY <1>1 DEF EventInv, Fenced, Sends, Holds
  <2>2. CASE senders = {}
    BY <2>2, FS_EmptySet
  <2>3. CASE senders # {}
    <3>1. PICK p \in senders : TRUE
      BY <2>3
    <3>2. senders = {p}
      BY <2>1, <3>1
    <3>3. Cardinality(senders) = 1
      BY <3>2, FS_Singleton
    <3> QED
      BY <3>3
  <2> QED
    BY <2>2, <2>3
<1>2. ASSUME e \in Recorded, e \notin expired PROVE ~(rows[e].attempts > MaxRetries)
  BY <1>2, OutboxAssumption DEF EventInv, Fenced, TypeOK, Row
<1>3. ASSUME e \notin expired \cup lost PROVE ~(copies[e] > 1)
  BY <1>3 DEF EventInv
<1> QED
  BY <1>1, <1>2, <1>3

-----------------------------------------------------------------------------

\* The table and the passes keep their types.
THEOREM OutboxTyped == Spec => []TypeOK
<1>1. OutboxInv => TypeOK
  BY DEF OutboxInv
<1> QED
  BY <1>1, OutboxInit, OutboxStep, PTL DEF Spec

\* A message is sent by one pass at a time, as often as the retry limit allows
\* and once, unless a lease ran out during a send or an answer was lost: under
\* every interleaving of passes, answers, crashes and retention.
THEOREM DuplicatesCaused == Spec => []DuplicateNeedsCause
BY OutboxInit, OutboxStep, CausesTold, PTL DEF Spec

\* What is marked sent has reached the chat, and stays marked for as long as
\* the delivery is kept.
THEOREM SentIsTrue == Spec => SentStays
<1>1. OutboxInv => SentArrived
  BY DEF OutboxInv
<1>2. ASSUME OutboxInv, [Next]_vars
      PROVE  [\A e \in Recorded \cap DOMAIN rows' :
                rows[e].status = "sent" => rows'[e].status = "sent"]_vars
  <2> SUFFICES ASSUME NEW e \in Recorded, e \in DOMAIN rows', rows[e].status = "sent",
                      Next
               PROVE  rows'[e].status = "sent"
    BY <1>2
  <2>1. e \in events
    BY <1>2 DEF OutboxInv, SentArrived
  <2>2. ASSUME NEW x \in Events, Record(x) PROVE rows'[e].status = "sent"
    <3>1. x # e /\ rows' = [y \in Recorded \cup {x} |-> IF y = x THEN NewRow ELSE rows[y]]
      BY <2>1, <2>2 DEF Record
    <3> QED
      BY <3>1
  <2>3. ASSUME NEW p \in Passes, NEW x \in Recorded, Claim(p, x)
        PROVE  rows'[e].status = "sent"
    <3>1. x # e
      BY <2>3 DEF Claim, NextRow, Claimable
    <3> QED
      BY <2>3, <3>1 DEF Claim, Recorded
  <2>4. CASE Tick
    <3>1. rows[e] \in Row
      BY <1>2 DEF OutboxInv, TypeOK
    <3>2. rows'[e] = [rows[e] EXCEPT !.ttl = Later(@, -1), !.fresh = FALSE]
      BY <2>4 DEF Tick
    <3> QED
      BY <3>1, <3>2 DEF Row
  <2>5. CASE Prune
    BY <2>5 DEF Prune
  <2>6. ASSUME NEW p \in Passes, NEW ok \in BOOLEAN, Answer(p, ok)
        PROVE  rows'[e].status = "sent"
    BY <2>6 DEF Answer, Holds, Recorded
  <2>7. CASE UNCHANGED rows
    BY <2>7
  <2> QED
    BY <2>2, <2>3, <2>4, <2>5, <2>6, <2>7
       DEF Next, StartPass, Claiming, BeginPass, NothingToClaim, Age, Restart, Arrive
<1> QED
  BY <1>1, <1>2, OutboxInit, OutboxStep, PTL DEF Spec, SentStays
=============================================================================
