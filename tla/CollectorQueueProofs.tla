------------------------ MODULE CollectorQueueProofs ------------------------
(***************************************************************************)
(* What holds of the batch queue for every value of its constants: its     *)
(* state copies can always be recovered, a reported conflict halt stands   *)
(* and stops the uploads, the generation a restart would adopt never goes  *)
(* back, drops are counted, and batches are uploaded in their order.       *)
(***************************************************************************)
EXTENDS CollectorQueue, FiniteSetTheorems, TLAPS

(***************************************************************************)
(* Typing                                                                  *)
(***************************************************************************)

\* A state that is persisted, recovered or kept is well typed.
LEMMA StateTyping ==
  ASSUME TypeOK
  PROVE  /\ Fresh \in State
         /\ [Fresh EXCEPT !.gen = 1] \in State
         /\ CountDrop(mem) \in State
         /\ \A h \in BOOLEAN : SetHalted(mem, h) \in State
         /\ Recovered \in State
<1>1. Fresh \in State /\ [Fresh EXCEPT !.gen = 1] \in State
  BY DEF Fresh, State
<1>m. mem \in State
  BY DEF TypeOK
<1>n. mem.gen + 1 \in Nat /\ mem.dropped + 1 \in Nat
  BY <1>m DEF State
<1>2. CountDrop(mem) \in State
  BY <1>m, <1>n DEF CountDrop, State
<1>3. \A h \in BOOLEAN : SetHalted(mem, h) \in State
  BY <1>m, <1>n DEF SetHalted, State
<1>4. Recovered \in State
  BY DEF TypeOK, Recovered, Decoded, Copy, State
<1> QED
  BY <1>1, <1>2, <1>3, <1>4

\* An operation that begins, that persists, that moves on to its second write
\* or back to its body is well typed.
LEMMA OpTyping ==
  /\ Idle \in Operation
  /\ \A b \in Batches, size \in Sizes : Op("enqueue", b, size) \in Operation
  /\ \A name \in Names \ {"enqueue"}, b \in Batches \cup {NoBatch} :
       /\ Op(name, b, 0) \in Operation
       /\ \A s \in State : [Op(name, b, 0) EXCEPT !.phase = "backup", !.next = s]
                              \in Operation
  /\ \A o \in Operation, s \in State :
       /\ [o EXCEPT !.phase = "backup", !.next = s] \in Operation
       /\ [o EXCEPT !.phase = "primary"] \in Operation
       /\ [o EXCEPT !.phase = "body", !.next = s] \in Operation
<1>0. Fresh \in State
  BY DEF Fresh, State
<1>1. Idle \in Operation
  BY <1>0 DEF Idle, Operation, Names
<1>2. \A b \in Batches, size \in Sizes : Op("enqueue", b, size) \in Operation
  BY <1>0 DEF Idle, Op, Operation, Names, Counting
<1>3. \A name \in Names \ {"enqueue"}, b \in Batches \cup {NoBatch} :
        Op(name, b, 0) \in Operation
  BY <1>0 DEF Idle, Op, Operation
<1>4. \A o \in Operation, s \in State :
        /\ [o EXCEPT !.phase = "backup", !.next = s] \in Operation
        /\ [o EXCEPT !.phase = "primary"] \in Operation
        /\ [o EXCEPT !.phase = "body", !.next = s] \in Operation
  BY DEF Operation
<1> QED
  BY <1>1, <1>2, <1>3, <1>4

\* A failing write is counted in the budget.
LEMMA OutcomeTyping ==
  ASSUME TypeOK, NEW o, Outcome(o)
  PROVE  budget' \in Budget
BY DEF TypeOK, Outcome, Budget

\* An operation ends by an exception or normally.
LEMMA EndTyping ==
  ASSUME TypeOK, Throw \/ Finish
  PROVE  /\ op' \in Operation /\ inFlight' \in BOOLEAN
         /\ upload' \in Batches \cup {NoBatch}
         /\ status' \in {"down", "loading", "running", "repair"}
BY OpTyping DEF TypeOK, Throw, Finish

LEMMA RemoveTyping ==
  ASSUME TypeOK, NEW o, NEW b \in DOMAIN files,
         NEW what \in {"acked", "dropped", "cleared"}, Remove(o, b, what)
  PROVE  /\ DOMAIN files' \subseteq Batches
         /\ \A x \in DOMAIN files' : files'[x] \in File
         /\ fate' \in [Batches -> Fates]
BY DEF TypeOK, Remove, Fates

LEMMA EncodedTyping == \A s \in State : Encoded(s) \in Copy
BY DEF State, Encoded, Copy

\* Every variable keeps its type, whatever crashes, failing writes and damage
\* the queue goes through.
LEMMA TypeStep == TypeOK /\ [Next]_vars => TypeOK'
<1> SUFFICES ASSUME TypeOK, [Next]_vars PROVE TypeOK'
  OBVIOUS
<1>s. /\ Fresh \in State /\ [Fresh EXCEPT !.gen = 1] \in State
      /\ CountDrop(mem) \in State /\ SetHalted(mem, TRUE) \in State
      /\ SetHalted(mem, FALSE) \in State /\ Recovered \in State
  BY StateTyping
<1>c. /\ MaxRetries \in Nat /\ MinDrainInterval \in Nat /\ AuthBackoff \in Nat
      /\ MaxRetention \in Nat
  BY QueueAssumption
<1>z. 0 \in 0 .. MaxRetries /\ 0 \in Nat
  BY <1>c
<1>n. /\ Counting \subseteq Names /\ "clear" \in Names /\ "unhalt" \in Names
      /\ "load" \in Names /\ "poison" \in Names /\ "halt" \in Names
  BY DEF Names, Draining
<1>1. CASE Start
  BY <1>1, <1>s, <1>n, OpTyping DEF TypeOK, Start, disk
<1>2. CASE Crash
  <2>1. budget' \in Budget
    <3>1. budget \in Budget /\ budget' = [budget EXCEPT !.crashes = @ + 1]
      BY <1>2 DEF TypeOK, Crash
    <3>2. budget.crashes + 1 \in Nat
      BY <3>1 DEF Budget
    <3> QED
      BY <3>1, <3>2 DEF Budget
  <2>2. primary' \in Copy /\ backup' \in Copy /\ DOMAIN files' \subseteq Batches
        /\ \A b \in DOMAIN files' : files'[b] \in File
    BY <1>2 DEF TypeOK, Crash, disk
  <2>3. inFlight' \in BOOLEAN /\ haltOwed' \in BOOLEAN
    BY <1>2 DEF TypeOK, Crash
  <2> QED
    BY <1>2, <2>1, <2>2, <2>3, <1>s, <1>z, OpTyping DEF TypeOK, Crash
<1>3. ASSUME NEW o \in Outcomes, WriteBackup(o) PROVE TypeOK'
  <2>1. backup' \in Copy
    <3>1. backup \in Copy /\ op.next \in State
      BY DEF TypeOK, Operation
    <3> QED
      BY <1>3, <3>1, EncodedTyping DEF WriteBackup
  <2>2. mem' \in State /\ op' \in Operation /\ inFlight' \in BOOLEAN
        /\ upload' \in Batches \cup {NoBatch}
        /\ status' \in {"down", "loading", "running", "repair"}
    <3>1. CASE o = "done"
      <4>1. op.next \in State
        BY DEF TypeOK, Operation
      <4> QED
        BY <1>3, <3>1, <4>1, OpTyping DEF TypeOK, WriteBackup, Stay
    <3>2. CASE o # "done"
      BY <1>3, <3>2, EndTyping DEF TypeOK, WriteBackup
    <3> QED BY <3>1, <3>2
  <2> QED
    BY <1>3, <2>1, <2>2, OutcomeTyping DEF TypeOK, WriteBackup
<1>4. ASSUME NEW o \in Outcomes, WritePrimary(o) PROVE TypeOK'
  <2>1. primary' \in Copy
    BY <1>4, EncodedTyping DEF TypeOK, WritePrimary
  <2>2. op' \in Operation /\ inFlight' \in BOOLEAN
        /\ upload' \in Batches \cup {NoBatch}
        /\ status' \in {"down", "loading", "running", "repair"}
    <3>1. CASE o = "done" /\ op.name \in Counting
      BY <1>4, <3>1, <1>s, OpTyping DEF TypeOK, WritePrimary, Stay
    <3>2. CASE ~(o = "done" /\ op.name \in Counting)
      BY <1>4, <3>2, EndTyping DEF WritePrimary
    <3> QED BY <3>1, <3>2
  <2>3. retries' \in 0 .. MaxRetries /\ wait' \in Nat /\ haltOwed' \in BOOLEAN
    <3>1. haltOwed' \in {haltOwed, haltOwed \/ op.name = "halt"}
          /\ retries' \in {0, retries} /\ wait' \in {MinDrainInterval, 0, wait}
      BY <1>4 DEF WritePrimary
    <3>2. haltOwed \in BOOLEAN /\ retries \in 0 .. MaxRetries /\ wait \in Nat
      BY DEF TypeOK
    <3>3. haltOwed' \in BOOLEAN
      BY <3>1, <3>2
    <3>4. retries' \in 0 .. MaxRetries /\ wait' \in Nat
      BY <3>1, <3>2, <1>c, <1>z
    <3> QED
      BY <3>3, <3>4
  <2> QED
    BY <1>4, <2>1, <2>2, <2>3, OutcomeTyping DEF TypeOK, WritePrimary
<1>d. ASSUME NEW o, Outcome(o), NEW b \in DOMAIN files, Remove(o, b, "dropped"),
             IF o = "done" THEN Persist(CountDrop(mem)) /\ Stay ELSE Throw,
             UNCHANGED <<primary, backup, mem, retries, wait, haltOwed>>
      PROVE TypeOK'
  <2>1. op' \in Operation /\ inFlight' \in BOOLEAN
        /\ upload' \in Batches \cup {NoBatch}
        /\ status' \in {"down", "loading", "running", "repair"}
    <3>1. CASE o = "done"
      BY <1>d, <3>1, <1>s, OpTyping DEF TypeOK, Persist, Stay
    <3>2. CASE o # "done"
      BY <1>d, <3>2, EndTyping
    <3> QED BY <3>1, <3>2
  <2> QED
    BY <1>d, <2>1, OutcomeTyping, RemoveTyping DEF TypeOK
<1>5. ASSUME NEW o \in Outcomes, PurgeOne(o) PROVE TypeOK'
  BY <1>5, <1>d DEF PurgeOne, Oldest
<1>6. ASSUME NEW o \in Outcomes, EvictOldest(o) PROVE TypeOK'
  BY <1>6, <1>d DEF EvictOldest, Oldest
<1>7. ASSUME NEW o \in Outcomes, StoreBatch(o) PROVE TypeOK'
  <2>1. DOMAIN files' \subseteq Batches /\ fate' \in [Batches -> Fates]
        /\ \A x \in DOMAIN files' : files'[x] \in File
    <3>1. op.batch \in Batches /\ op.size \in Sizes
      BY <1>7 DEF TypeOK, Operation, StoreBatch, Purged
    <3>2. fate' \in [Batches -> Fates]
      BY <1>7, <3>1 DEF TypeOK, StoreBatch, Fates
    <3>3. CASE o = "failed"
      BY <1>7, <3>2, <3>3 DEF TypeOK, StoreBatch
    <3>4. CASE o # "failed"
      <4>1. [age |-> 0, size |-> op.size, ok |-> TRUE] \in File
        BY <3>1, <1>c DEF File
      <4>2. /\ DOMAIN files' = DOMAIN files \cup {op.batch}
            /\ \A x \in DOMAIN files' :
                 files'[x] = IF x = op.batch
                             THEN [age |-> 0, size |-> op.size, ok |-> TRUE]
                             ELSE files[x]
        BY <1>7, <3>4 DEF StoreBatch
      <4> QED
        BY <3>1, <3>2, <4>1, <4>2 DEF TypeOK
    <3> QED
      BY <3>3, <3>4
  <2>2. Throw \/ Finish
    BY <1>7 DEF StoreBatch
  <2> QED
    BY <1>7, <2>1, <2>2, EndTyping, OutcomeTyping DEF TypeOK, StoreBatch
<1>8. ASSUME NEW o \in Outcomes, DropCorrupt(o) PROVE TypeOK'
  BY <1>8, <1>d DEF DropCorrupt, Oldest
<1>9. ASSUME NEW o \in Outcomes, ClearOne(o) PROVE TypeOK'
  <2>1. op' \in Operation /\ inFlight' \in BOOLEAN
        /\ upload' \in Batches \cup {NoBatch}
        /\ status' \in {"down", "loading", "running", "repair"}
    BY <1>9, EndTyping DEF TypeOK, ClearOne, Stay
  <2>2. PICK b \in DOMAIN files : Remove(o, b, "cleared")
    BY <1>9 DEF ClearOne, Oldest
  <2> QED
    BY <1>9, <2>1, <2>2, OutcomeTyping, RemoveTyping DEF TypeOK, ClearOne
<1>10. CASE LoadFresh
  BY <1>10, <1>s, OpTyping DEF TypeOK, LoadFresh, Persist, disk, volatile
<1>11. CASE LoadSelect
  <2>1. op' \in Operation /\ inFlight' \in BOOLEAN
        /\ upload' \in Batches \cup {NoBatch}
        /\ status' \in {"down", "loading", "running", "repair"}
    BY <1>11, <1>s, EndTyping, OpTyping DEF TypeOK, LoadSelect, Persist, Stay
  <2> QED
    BY <1>11, <2>1, <1>s DEF TypeOK, LoadSelect, disk
<1>12. CASE LoadRefused
  BY <1>12, OpTyping DEF TypeOK, LoadRefused, disk, volatile
<1>13. CASE EndSize
  BY <1>13, EndTyping DEF TypeOK, EndSize, disk
<1>14. CASE EndScan
  BY <1>14, EndTyping DEF TypeOK, EndScan, disk
<1>15. CASE StartUpload
  BY <1>15, OpTyping DEF TypeOK, StartUpload, Oldest, disk
<1>16. CASE ClearState
  BY <1>16, <1>s, OpTyping DEF TypeOK, ClearState, Persist, disk, volatile
<1>17. ASSUME NEW o \in Outcomes, Acknowledged(o) PROVE TypeOK'
  <2>1. upload \in DOMAIN files /\ Remove(o, upload, "acked") /\ Outcome(o)
    BY <1>17 DEF Acknowledged
  <2>2. retries' \in 0 .. MaxRetries /\ wait' \in Nat
    BY <1>17, <1>c DEF TypeOK, Acknowledged
  <2> QED
    BY <1>17, <2>1, <2>2, RemoveTyping, OutcomeTyping, OpTyping
    DEF TypeOK, Acknowledged, EndDrain
<1>18. ASSUME NEW o \in Outcomes, Poisoned(o) PROVE TypeOK'
  <2>1. upload \in DOMAIN files /\ Remove(o, upload, "dropped") /\ Outcome(o)
    BY <1>18 DEF Poisoned
  <2>2. op' \in Operation
    BY <1>18, <1>s, <1>n, OpTyping DEF TypeOK, Poisoned
  <2> QED
    BY <1>18, <2>1, <2>2, RemoveTyping, OutcomeTyping DEF TypeOK, Poisoned
<1>19. CASE Gone
  BY <1>19, OpTyping DEF TypeOK, Gone, EndDrain, disk
<1>20. CASE Conflict
  BY <1>20, <1>s, <1>n, OpTyping DEF TypeOK, Conflict, disk
<1>21. CASE Unauthorized
  BY <1>21, <1>c, OpTyping DEF TypeOK, Unauthorized, EndDrain, disk
<1>22. CASE Retry
  <2>1. retries' \in 0 .. MaxRetries
    BY <1>22, <1>c DEF TypeOK, Retry, Smaller
  <2>2. wait' \in Nat
    <3>1. PICK jitter \in 0 .. BaseDelay(retries + 1), after \in RetryAfters :
            wait' = Backoff(jitter, after)
      BY <1>22 DEF Retry
    <3>2. jitter \in Nat /\ after \in Nat /\ MinBackoff \in Nat /\ MaxBackoff \in Nat
      BY QueueAssumption
    <3> QED
      BY <3>1, <3>2 DEF Backoff, Smaller, Larger
  <2> QED
    BY <1>22, <2>1, <2>2, OpTyping DEF TypeOK, Retry, EndDrain, disk
<1>23. CASE Tick
  <2>1. DOMAIN files' \subseteq Batches /\ \A x \in DOMAIN files' : files'[x] \in File
    BY <1>23, <1>c DEF TypeOK, Tick, File, Smaller
  <2>2. wait' \in Nat
    BY <1>23 DEF TypeOK, Tick, Larger
  <2> QED
    BY <1>23, <2>1, <2>2 DEF TypeOK, Tick
<1>24. ASSUME NEW b \in Batches, NEW size \in Sizes, BeginEnqueue(b, size)
       PROVE TypeOK'
  BY <1>24, <1>n, OpTyping DEF TypeOK, BeginEnqueue, Begin, Counting, disk
<1>25. ASSUME NEW name, BeginScan(name) PROVE TypeOK'
  BY <1>25, <1>n, OpTyping DEF TypeOK, BeginScan, Begin, Counting, disk
<1>26. CASE BeginDrain
  BY <1>26, <1>n, OpTyping DEF TypeOK, BeginDrain, Begin, Counting, disk
<1>o. Order => budget' \in Budget
  BY DEF Order, TypeOK, Budget
<1>27. CASE BeginUnhalt
  BY <1>27, <1>s, <1>n, <1>o, OpTyping DEF TypeOK, BeginUnhalt, Begin, disk
<1>28. CASE BeginClear
  BY <1>28, <1>n, <1>o, OpTyping DEF TypeOK, BeginClear, Begin, disk
<1>29. CASE ResetRetries
  BY <1>29, <1>c, <1>o DEF TypeOK, ResetRetries, disk
<1>m. /\ [budget EXCEPT !.damage = @ + 1] \in Budget
      /\ \A x \in BOOLEAN :
           [budget EXCEPT !.damage = @ + 1, !.ruined = x] \in Budget
  <2>1. [budget EXCEPT !.damage = @ + 1] \in Budget
    BY DEF TypeOK, Budget
  <2>2. ASSUME NEW x \in BOOLEAN
        PROVE  [budget EXCEPT !.damage = @ + 1, !.ruined = x] \in Budget
    <3>1. [budget EXCEPT !.damage = @ + 1, !.ruined = x]
            = [[budget EXCEPT !.damage = @ + 1] EXCEPT !.ruined = x]
      OBVIOUS
    <3> QED
      BY <2>1, <3>1 DEF Budget
  <2> QED
    BY <2>1, <2>2
<1>b. budget.ruined \in BOOLEAN
  BY DEF TypeOK, Budget
<1>30. CASE DamageCopy
  <2>1. primary' \in Copy /\ backup' \in Copy
    <3>1. Unread("damaged") \in Copy
      BY DEF Unread, Copy
    <3> QED
      BY <1>30, <3>1 DEF TypeOK, DamageCopy
  <2> QED
    BY <1>30, <2>1, <1>m, <1>b DEF TypeOK, DamageCopy, volatile
<1>31. CASE DamageFile
  <2>1. DOMAIN files' \subseteq Batches /\ \A x \in DOMAIN files' : files'[x] \in File
    BY <1>31 DEF TypeOK, DamageFile, File
  <2> QED
    BY <1>31, <2>1, <1>m DEF TypeOK, DamageFile, volatile
<1>32. CASE UNCHANGED vars
  BY <1>32 DEF TypeOK, vars
<1> QED
  BY <1>1, <1>2, <1>3, <1>4, <1>5, <1>6, <1>7, <1>8, <1>9, <1>10, <1>11, <1>12,
     <1>13, <1>14, <1>15, <1>16, <1>17, <1>18, <1>19, <1>20, <1>21, <1>22, <1>23,
     <1>24, <1>25, <1>26, <1>27, <1>28, <1>29, <1>30, <1>31, <1>32
  DEF Next, Step, Write, Settle, GetStats

\* The queue is well typed in every reachable state.
THEOREM TypeCorrect == Spec => []TypeOK
<1>1. Init => TypeOK
  <2> SUFFICES ASSUME Init PROVE TypeOK
    OBVIOUS
  <2>1. primary \in Copy /\ backup \in Copy /\ mem \in State
    BY DEF Init, Unread, Copy, Fresh, State
  <2>2. budget \in Budget /\ fate \in [Batches -> Fates]
    BY DEF Init, Budget, Fates
  <2>3. MaxRetries \in Nat
    BY QueueAssumption
  <2>4. DOMAIN files = {}
    BY DEF Init
  <2>5. 0 \in 0 .. MaxRetries /\ 0 \in Nat
    BY <2>3
  <2>6. inFlight \in BOOLEAN /\ haltOwed \in BOOLEAN
    BY DEF Init
  <2> QED
    BY <2>1, <2>2, <2>4, <2>5, <2>6, OpTyping DEF Init, TypeOK
<1> QED
  BY <1>1, TypeStep, PTL DEF Spec

(***************************************************************************)
(* The state copies                                                        *)
(***************************************************************************)

\* The fields of the operations that the actions build.
LEMMA OpFields ==
  /\ Idle.name = "none" /\ Idle.phase = "body"
  /\ \A name, b, size :
       /\ Op(name, b, size).name = name /\ Op(name, b, size).phase = "body"
       /\ \A s : LET o == [Op(name, b, size) EXCEPT !.phase = "backup", !.next = s]
                 IN  o.name = name /\ o.phase = "backup" /\ o.next = s
  /\ \A o \in Operation : \A s :
       /\ LET p == [o EXCEPT !.phase = "backup", !.next = s]
          IN  p.name = o.name /\ p.phase = "backup" /\ p.next = s
       /\ LET p == [o EXCEPT !.phase = "primary"]
          IN  p.name = o.name /\ p.phase = "primary" /\ p.next = o.next
       /\ LET p == [o EXCEPT !.phase = "body", !.next = s]
          IN  p.name = o.name /\ p.phase = "body" /\ p.next = s
BY DEF Idle, Op, Operation

\* A state survives being written and read, and only its own copy equals it.
LEMMA CopyFields ==
  /\ \A s \in State : /\ Valid(Encoded(s)) /\ Encoded(s).gen = s.gen
                      /\ Encoded(s).halted = s.halted
  /\ \A c \in Copy : Valid(c) => Encoded(Decoded(c)) = c
  /\ \A c : Decoded(c).gen = c.gen /\ Decoded(c).halted = c.halted
  /\ ~Valid(Unread("missing")) /\ ~Valid(Unread("damaged"))
  /\ \A s \in State, h \in BOOLEAN :
       /\ CountDrop(s).gen = s.gen + 1 /\ CountDrop(s).halted = s.halted
       /\ SetHalted(s, h).gen = s.gen + 1 /\ SetHalted(s, h).halted = h
<1>1. \A s \in State : /\ Valid(Encoded(s)) /\ Encoded(s).gen = s.gen
                       /\ Encoded(s).halted = s.halted
  BY DEF Encoded, Valid
<1>2. \A c \in Copy : Valid(c) => Encoded(Decoded(c)) = c
  BY DEF Encoded, Decoded, Valid, Copy
<1>3. \A c : Decoded(c).gen = c.gen /\ Decoded(c).halted = c.halted
  BY DEF Decoded
<1>4. ~Valid(Unread("missing")) /\ ~Valid(Unread("damaged"))
  BY DEF Valid, Unread
<1>5. \A s \in State, h \in BOOLEAN :
        /\ CountDrop(s).gen = s.gen + 1 /\ CountDrop(s).halted = s.halted
        /\ SetHalted(s, h).gen = s.gen + 1 /\ SetHalted(s, h).halted = h
  BY DEF CountDrop, SetHalted, State
<1> QED
  BY <1>1, <1>2, <1>3, <1>4, <1>5

\* What CopiesInv gives loadState: something to adopt, unless nothing was ever
\* written.
LEMMA CopiesRecoverable ==
  ASSUME TypeOK, CopiesInv
  PROVE  /\ ReadableInv /\ ~budget.ruined =>
              Recoverable \/ (primary.is = "missing" /\ backup.is = "missing")
         /\ Recoverable => Recovered \in {Decoded(primary), Decoded(backup)}
         /\ Recoverable /\ Valid(primary) =>
              primary.gen < Recovered.gen \/ primary = Encoded(Recovered)
         /\ Recoverable /\ Valid(backup) => backup.gen <= Recovered.gen
<1>1. primary \in Copy /\ backup \in Copy /\ primary.gen \in Nat /\ backup.gen \in Nat
  BY DEF TypeOK, Copy
<1> QED
  BY <1>1, CopyFields DEF CopiesInv, ReadableInv, Recoverable, Recovered

\* A step that ends an operation by an exception or normally, or begins one
\* whose first write is still to come, without touching a copy or memory.
LEMMA QuietCopies ==
  ASSUME TypeOK, CopiesInv, UNCHANGED <<primary, backup, mem, status>>,
         op.name # "load",
         op'.phase = "body", op'.name # "load",
         status \in {"down", "repair"} => op' = Idle
  PROVE  CopiesInv'
BY DEF CopiesInv, Attached, Valid, Encoded

\* The invariant of the two copies survives every step.
LEMMA CopiesStep ==
  TypeOK /\ TypeOK' /\ CopiesInv /\ [Next]_vars => CopiesInv'
<1> SUFFICES ASSUME TypeOK, TypeOK', CopiesInv, [Next]_vars PROVE CopiesInv'
  OBVIOUS
<1>t. /\ op \in Operation /\ mem \in State /\ op.next \in State
      /\ mem.gen \in Nat /\ mem.dropped \in Nat /\ op.next.gen \in Nat
      /\ primary \in Copy /\ backup \in Copy
      /\ primary.gen \in Nat /\ backup.gen \in Nat
  BY DEF TypeOK, Operation, State, Copy
<1>c. CountDrop(mem).gen = mem.gen + 1 /\ SetHalted(mem, TRUE).gen = mem.gen + 1
      /\ SetHalted(mem, FALSE).gen = mem.gen + 1
  BY <1>t, CopyFields
<1>x. ASSUME NEW s, Persist(s)
      PROVE  op'.phase = "backup" /\ op'.name = op.name /\ op'.next = s
  BY <1>x, <1>t, OpFields DEF Persist
<1>q. ASSUME UNCHANGED <<primary, backup, mem, status>>, op.name # "load",
             op' = Idle
      PROVE  CopiesInv'
  BY <1>q, QuietCopies, OpFields
<1>b. ASSUME UNCHANGED <<primary, backup, mem, status>>, status = "running",
             NEW name, NEW b, NEW size, name # "load", op' = Op(name, b, size)
      PROVE  CopiesInv'
  BY <1>b, QuietCopies, OpFields DEF CopiesInv
<1>p. ASSUME UNCHANGED <<primary, backup, mem, status>>, status = "running",
             op.phase = "body",
             op'.phase = "backup", op'.name # "load", op'.next.gen = mem.gen + 1
      PROVE  CopiesInv'
  BY <1>p, <1>t DEF CopiesInv, Attached, Valid, Encoded
<1>1. CASE Start
  BY <1>1, OpFields, CopyFields DEF CopiesInv, Attached, Start, disk, Valid
<1>2. CASE Crash
  BY <1>2, OpFields DEF CopiesInv, Attached, Crash, disk, Valid
<1>3. ASSUME NEW o \in Outcomes, WriteBackup(o) PROVE CopiesInv'
  <2>1. op.phase = "backup" /\ Attached
    BY <1>3 DEF WriteBackup, CopiesInv, Attached, Idle
  <2>2. Valid(Encoded(op.next)) /\ Encoded(op.next).gen = op.next.gen
    BY <1>t, CopyFields
  <2>3. UNCHANGED primary /\ (Valid(primary) =>
             primary.gen < op.next.gen \/ primary = Encoded(op.next))
    <3>1. UNCHANGED primary /\ (op.next = mem \/ op.next.gen = mem.gen + 1)
          /\ (Valid(primary) => primary.gen < mem.gen \/ primary = Encoded(mem))
      BY <1>3, <2>1 DEF WriteBackup, CopiesInv
    <3> QED
      BY <3>1, <1>t, CopyFields
  <2>4. CASE o = "done"
    <3>1. backup' = Encoded(op.next) /\ mem' = op.next /\ status' = status
          /\ op' = [op EXCEPT !.phase = "primary"]
      BY <1>3, <2>4 DEF WriteBackup, Stay
    <3>2. op'.phase = "primary" /\ op'.name = op.name
      BY <3>1, <1>t, OpFields
    <3> QED
      BY <2>1, <2>2, <2>3, <3>1, <3>2, <1>t DEF CopiesInv, Attached, Valid
  <2>5. CASE o # "done"
    <3>1. mem' = mem /\ op' = Idle /\ backup' \in {backup, Encoded(op.next)}
          /\ status' = IF op.name = "load" THEN "down" ELSE status
      BY <1>3, <2>5 DEF WriteBackup, Throw
    <3> QED
      BY <2>1, <2>2, <2>3, <3>1, <1>t, OpFields DEF CopiesInv, Attached, Valid
  <2> QED
    BY <2>4, <2>5
<1>4. ASSUME NEW o \in Outcomes, WritePrimary(o) PROVE CopiesInv'
  <2>1. op.phase = "primary" /\ Attached
    BY <1>4 DEF WritePrimary, CopiesInv, Attached, Idle
  <2>2. Valid(Encoded(mem)) /\ Encoded(mem).gen = mem.gen
    BY <1>t, CopyFields
  <2>3. UNCHANGED <<backup, mem>> /\ primary' \in {primary, Encoded(mem)}
    BY <1>4 DEF WritePrimary
  <2>4. CASE o = "done" /\ op.name \in Counting
    <3>1. op' = [op EXCEPT !.phase = "body", !.next = Fresh] /\ status' = status
      BY <1>4, <2>4 DEF WritePrimary, Stay
    <3>2. op'.phase = "body" /\ op'.name = op.name
      BY <3>1, <1>t, OpFields
    <3> QED
      BY <2>1, <2>2, <2>3, <2>4, <3>1, <3>2, <1>t
      DEF CopiesInv, Attached, Valid, Counting
  <2>5. CASE ~(o = "done" /\ op.name \in Counting)
    <3>1. /\ op' = Idle
          /\ \/ status' = "running"
             \/ op.name # "load" /\ status' = status
             \/ op.name = "load" /\ status' = "down"
      BY <1>4, <2>5 DEF WritePrimary, Throw, Finish
    <3> QED
      BY <2>1, <2>2, <2>3, <3>1, <1>t, OpFields DEF CopiesInv, Attached, Valid
  <2> QED
    BY <2>4, <2>5
<1>d. ASSUME NEW o, op.name \in Counting \cup {"clear"}, op.phase = "body",
             IF o = "done" THEN Persist(CountDrop(mem)) /\ Stay ELSE Throw,
             UNCHANGED <<primary, backup, mem>>
      PROVE  CopiesInv'
  <2>1. op.name # "load" /\ status = "running"
    BY <1>d, OpFields DEF Counting, CopiesInv, Idle
  <2>2. CASE o = "done"
    BY <1>d, <2>1, <2>2, <1>p, <1>x, <1>c DEF Stay
  <2>3. CASE o # "done"
    BY <1>d, <2>1, <2>3, <1>q DEF Throw
  <2> QED
    BY <2>2, <2>3
<1>5. ASSUME NEW o \in Outcomes, PurgeOne(o) PROVE CopiesInv'
  BY <1>5, <1>d DEF PurgeOne
<1>6. ASSUME NEW o \in Outcomes, EvictOldest(o) PROVE CopiesInv'
  BY <1>6, <1>d DEF EvictOldest, Purged, Counting
<1>7. ASSUME NEW o \in Outcomes, StoreBatch(o) PROVE CopiesInv'
  <2>1. op.name = "enqueue" /\ status = "running"
    BY <1>7 DEF StoreBatch, Purged, CopiesInv, Idle
  <2>2. op' = Idle /\ status' = status /\ UNCHANGED <<primary, backup, mem>>
    BY <1>7, <2>1 DEF StoreBatch, Throw, Finish
  <2> QED
    BY <2>1, <2>2, <1>q
<1>8. ASSUME NEW o \in Outcomes, DropCorrupt(o) PROVE CopiesInv'
  BY <1>8, <1>d DEF DropCorrupt, Purged, Counting
<1>9. ASSUME NEW o \in Outcomes, ClearOne(o) PROVE CopiesInv'
  BY <1>9, <1>q DEF ClearOne, Stay, Throw, CopiesInv, Attached
<1>10. CASE LoadFresh
  <2>1. op'.phase = "backup" /\ op'.name = "load" /\ op'.next.gen = 1
    <3>1. [Fresh EXCEPT !.gen = 1].gen = 1
      BY DEF Fresh
    <3> QED
      BY <1>10, <3>1, <1>x DEF LoadFresh, Loading
  <2> QED
    BY <1>10, <2>1, <1>t
    DEF LoadFresh, Loading, CopiesInv, Attached, Valid, Fresh, disk, volatile
<1>11. CASE LoadSelect
  <2>1. /\ mem' = Recovered /\ Recoverable /\ UNCHANGED <<primary, backup>>
        /\ op.name = "load" /\ status = "loading" /\ mem'.gen \in Nat
    BY <1>11 DEF LoadSelect, Loading, disk, CopiesInv, TypeOK, State
  <2>2. Valid(primary) => primary.gen < mem'.gen \/ primary = Encoded(mem')
    BY <2>1, CopiesRecoverable
  <2>3. Valid(backup) => backup.gen <= mem'.gen
    BY <2>1, CopiesRecoverable
  <2>4. CASE primary = backup
    <3>1. op' = Idle /\ status' = "running"
      BY <1>11, <2>4 DEF LoadSelect, Finish
    <3> QED
      BY <2>1, <2>2, <2>3, <3>1, <1>t, OpFields DEF CopiesInv, Attached, Valid
  <2>5. CASE primary # backup
    <3>1. op'.phase = "backup" /\ op'.name = "load" /\ op'.next = mem'
          /\ status' = "loading"
      BY <1>11, <2>1, <2>5, <1>x DEF LoadSelect, Stay
    <3> QED
      BY <2>1, <2>2, <2>3, <3>1, <1>t DEF CopiesInv, Attached, Valid
  <2> QED
    BY <2>4, <2>5
<1>12. CASE LoadRefused
  BY <1>12, OpFields DEF LoadRefused, CopiesInv, Attached, Valid, disk, volatile
<1>13. CASE EndSize
  BY <1>13, <1>q DEF EndSize, Purged, Finish, disk, CopiesInv, Idle
<1>14. CASE EndScan
  BY <1>14, <1>q DEF EndScan, Purged, Finish, disk, CopiesInv, Idle
<1>15. CASE StartUpload
  BY <1>15, <1>q DEF StartUpload, Purged, disk
<1>16. CASE ClearState
  <2>1. op'.phase = "backup" /\ op'.name = "clear" /\ op'.next.gen = mem.gen + 1
    BY <1>16, <1>x, <1>c DEF ClearState
  <2>2. status = "running"
    BY <1>16 DEF ClearState, CopiesInv, Idle
  <2> QED
    BY <1>16, <2>1, <2>2, <1>p DEF ClearState, disk, volatile
<1>17. ASSUME NEW o \in Outcomes, Acknowledged(o) PROVE CopiesInv'
  BY <1>17, <1>q, OpFields DEF Acknowledged, EndDrain, Uploading, Ready
<1>18. ASSUME NEW o \in Outcomes, Poisoned(o) PROVE CopiesInv'
  BY <1>18, <1>q, <1>p, <1>c, OpFields DEF Poisoned, Uploading, Ready
<1>19. CASE Gone
  BY <1>19, <1>q, OpFields DEF Gone, EndDrain, Uploading, Ready, disk
<1>20. CASE Conflict
  BY <1>20, <1>p, <1>c, OpFields DEF Conflict, Uploading, Ready, disk
<1>21. CASE Unauthorized
  BY <1>21, <1>q, OpFields DEF Unauthorized, EndDrain, Uploading, Ready, disk
<1>22. CASE Retry
  BY <1>22, <1>q, OpFields DEF Retry, EndDrain, Uploading, Ready, disk
<1>23. CASE Tick
  BY <1>23, <1>q, OpFields DEF Tick
<1>24. ASSUME NEW b \in Batches, NEW size \in Sizes, BeginEnqueue(b, size)
       PROVE CopiesInv'
  BY <1>24, <1>b DEF BeginEnqueue, Begin, Ready, disk
<1>25. ASSUME NEW name, BeginScan(name) PROVE CopiesInv'
  BY <1>25, <1>b DEF BeginScan, Begin, Ready, disk
<1>26. CASE BeginDrain
  BY <1>26, <1>b DEF BeginDrain, Begin, Ready, disk
<1>27. CASE BeginUnhalt
  BY <1>27, <1>p, <1>c, OpFields DEF BeginUnhalt, Begin, Ready, disk
<1>28. CASE BeginClear
  BY <1>28, <1>b DEF BeginClear, Begin, Ready, disk
<1>29. CASE ResetRetries
  BY <1>29, <1>q, OpFields DEF ResetRetries, Ready, disk
<1>30. CASE DamageCopy
  BY <1>30, CopyFields DEF DamageCopy, CopiesInv, Attached, volatile
<1>31. CASE DamageFile
  BY <1>31 DEF DamageFile, CopiesInv, Attached, Valid, volatile
<1>32. CASE UNCHANGED vars
  BY <1>32 DEF CopiesInv, Attached, vars, Valid
<1> QED
  BY <1>1, <1>2, <1>3, <1>4, <1>5, <1>6, <1>7, <1>8, <1>9, <1>10, <1>11, <1>12,
     <1>13, <1>14, <1>15, <1>16, <1>17, <1>18, <1>19, <1>20, <1>21, <1>22, <1>23,
     <1>24, <1>25, <1>26, <1>27, <1>28, <1>29, <1>30, <1>31, <1>32
  DEF Next, Step, Write, Settle, GetStats

\* The two state copies are always in the order that loadState can resolve.
THEOREM CopiesCorrect == Spec => []CopiesInv
<1>1. Init => CopiesInv
  BY OpFields DEF Init, CopiesInv, Attached, Valid, Unread
<1> QED
  BY <1>1, CopiesStep, TypeCorrect, PTL DEF Spec

\* Only the two writes of a persist and damage change a state copy.
LEMMA CopiesChange ==
  ASSUME [Next]_vars
  PROVE  \/ UNCHANGED <<primary, backup>>
         \/ \E o \in Outcomes : WriteBackup(o) \/ WritePrimary(o)
         \/ DamageCopy
BY DEF Next, vars, Start, Crash, Step, Write, Settle, GetStats, disk, Tick,
       PurgeOne, EvictOldest, StoreBatch, DropCorrupt, ClearOne, LoadFresh,
       LoadSelect, LoadRefused, EndSize, EndScan, StartUpload, ClearState,
       Acknowledged, Poisoned, Gone, Conflict, Unauthorized, Retry,
       BeginEnqueue, BeginScan, BeginDrain, BeginUnhalt, BeginClear, Begin,
       ResetRetries, DamageFile

\* Only damage ruins the state, and only a refused start asks for a repair.
LEMMA RuinChange ==
  ASSUME TypeOK, [Next]_vars
  PROVE  /\ DamageCopy \/ budget'.ruined = budget.ruined
         /\ LoadRefused \/ status' # "repair" \/ status' = status
<1>1. /\ budget \in Budget
      /\ [budget EXCEPT !.crashes = @ + 1].ruined = budget.ruined
      /\ [budget EXCEPT !.faults = @ + 1].ruined = budget.ruined
      /\ [budget EXCEPT !.damage = @ + 1].ruined = budget.ruined
      /\ [budget EXCEPT !.orders = @ + 1].ruined = budget.ruined
  BY DEF TypeOK, Budget
<1>2. \A o : Outcome(o) => budget'.ruined = budget.ruined
  BY <1>1 DEF Outcome
<1>3. Order => budget'.ruined = budget.ruined
  BY <1>1 DEF Order
<1>4. Throw \/ Finish \/ Stay => status' # "repair" \/ status' = status
  BY DEF Throw, Finish, Stay
<1>5. ASSUME NEW o \in Outcomes,
             \/ WriteBackup(o) \/ WritePrimary(o) \/ PurgeOne(o)
             \/ EvictOldest(o) \/ StoreBatch(o) \/ DropCorrupt(o) \/ ClearOne(o)
      PROVE  budget'.ruined = budget.ruined /\ (status' # "repair" \/ status' = status)
  <2>1. Outcome(o)
    BY <1>5 DEF WriteBackup, WritePrimary, PurgeOne, EvictOldest, StoreBatch,
                DropCorrupt, ClearOne
  <2>2. Throw \/ Finish \/ Stay
    <3>1. CASE WriteBackup(o) \/ StoreBatch(o)
      BY <3>1 DEF WriteBackup, StoreBatch
    <3>2. CASE PurgeOne(o) \/ EvictOldest(o) \/ DropCorrupt(o) \/ ClearOne(o)
      BY <3>2 DEF PurgeOne, EvictOldest, DropCorrupt, ClearOne
    <3>3. CASE WritePrimary(o)
      <4>1. CASE o # "done"
        BY <3>3, <4>1 DEF WritePrimary
      <4>2. CASE o = "done" /\ op.name \in Counting
        BY <3>3, <4>2 DEF WritePrimary
      <4>3. CASE o = "done" /\ op.name \notin Counting
        BY <3>3, <4>3 DEF WritePrimary
      <4> QED
        BY <4>1, <4>2, <4>3
    <3> QED
      BY <1>5, <3>1, <3>2, <3>3
  <2> QED
    BY <2>1, <2>2, <1>2, <1>4
<1>6. CASE LoadFresh \/ LoadSelect \/ LoadRefused \/ EndSize \/ EndScan \/ StartUpload
             \/ ClearState
  BY <1>6, <1>4
  DEF LoadFresh, LoadSelect, LoadRefused, EndSize, EndScan, StartUpload, ClearState
<1>7. CASE Settle
  BY <1>7, <1>2
  DEF Settle, Acknowledged, Poisoned, Gone, Conflict, Unauthorized, Retry
<1>8. CASE \/ BeginDrain \/ GetStats \/ BeginScan("peek") \/ BeginUnhalt \/ BeginClear
           \/ ResetRetries \/ \E b \in Batches, size \in Sizes : BeginEnqueue(b, size)
  BY <1>8, <1>3
  DEF BeginDrain, GetStats, BeginScan, BeginUnhalt, BeginClear, ResetRetries,
      BeginEnqueue, Begin
<1>9. CASE Start \/ Crash \/ Tick \/ DamageFile \/ UNCHANGED vars
  BY <1>9, <1>1 DEF Start, Crash, Tick, DamageFile, vars
<1>10. CASE Write
  BY <1>10, <1>5 DEF Write
<1>11. CASE DamageCopy
  BY <1>11 DEF DamageCopy
<1> QED
  BY <1>6, <1>7, <1>8, <1>9, <1>10, <1>11 DEF Next, Step

\* A copy stays readable, or nothing was ever written.
LEMMA ReadableStep ==
  TypeOK /\ CopiesInv /\ ReadableInv /\ [Next]_vars => ReadableInv'
<1> SUFFICES ASSUME TypeOK, CopiesInv, ReadableInv, [Next]_vars, ~budget'.ruined
             PROVE  ReadableInv'
  BY DEF ReadableInv
<1>1. CASE DamageCopy
  <2>1. ~budget.ruined /\ Valid(primary) /\ Valid(backup)
    <3>1. PICK x \in {budget.ruined, TRUE} :
            /\ budget' = [budget EXCEPT !.damage = @ + 1, !.ruined = x]
            /\ x = IF Valid(primary) /\ Valid(backup) THEN budget.ruined ELSE TRUE
      BY <1>1 DEF DamageCopy
    <3>2. budget'.ruined = x
      BY <3>1 DEF TypeOK, Budget
    <3> QED
      BY <3>1, <3>2
  <2>2. Valid(primary)' \/ Valid(backup)'
    BY <1>1, <2>1 DEF DamageCopy, Valid
  <2> QED
    BY <1>1, <2>1, <2>2 DEF DamageCopy, ReadableInv
<1>2. CASE ~DamageCopy
  <2>1. ~budget.ruined
    BY <1>2, RuinChange
  <2>2. status' # "repair"
    <3>1. ~LoadRefused
      BY <2>1, CopiesRecoverable DEF LoadRefused
    <3> QED
      BY <2>1, <3>1, RuinChange DEF ReadableInv
  <2>3. CASE UNCHANGED <<primary, backup>>
    BY <2>1, <2>2, <2>3 DEF ReadableInv, Valid
  <2>4. CASE \E o \in Outcomes : WriteBackup(o) \/ WritePrimary(o)
    <3>1. /\ mem \in State /\ op.next \in State
          /\ \A s \in State : Valid(Encoded(s))
      BY CopyFields DEF TypeOK, Operation
    <3>2. \/ primary' = primary /\ backup' \in {backup, Encoded(op.next)}
          \/ backup' = backup /\ primary' \in {primary, Encoded(mem)}
      BY <2>4 DEF WriteBackup, WritePrimary
    <3> QED
      BY <2>1, <2>2, <3>1, <3>2 DEF ReadableInv, Valid
  <2> QED
    BY <1>2, <2>3, <2>4, CopiesChange
<1> QED
  BY <1>1, <1>2

\* After any crash, any failing write and damage to one of two readable copies
\* the next start finds a state it accepts: it never throws
\* STATE_REPAIR_REQUIRED.
THEOREM AlwaysRecoverable == Spec => []StateRecoverable
<1>1. Init => ReadableInv
  BY DEF Init, ReadableInv, Unread
<1>2. TypeOK /\ CopiesInv /\ ReadableInv => StateRecoverable
  BY CopiesRecoverable DEF ReadableInv, StateRecoverable
<1> QED
  BY <1>1, <1>2, ReadableStep, CopiesCorrect, TypeCorrect, PTL DEF Spec

(***************************************************************************)
(* The conflict halt                                                       *)
(***************************************************************************)

\* The halt flag of the copies, of memory and of a pending state survives
\* every step: only the operator's orders clear it, and they end the promise.
LEMMA HaltStep ==
  TypeOK /\ TypeOK' /\ CopiesInv /\ HaltInv /\ [Next]_vars => HaltInv'
<1> SUFFICES ASSUME TypeOK, TypeOK', CopiesInv, HaltInv, [Next]_vars PROVE HaltInv'
  OBVIOUS
<1>t. /\ op \in Operation /\ mem \in State /\ op.next \in State
      /\ primary \in Copy /\ backup \in Copy
  BY DEF TypeOK, Operation
<1>c. /\ CountDrop(mem).halted = mem.halted /\ SetHalted(mem, TRUE).halted = TRUE
      /\ \A s \in State : Valid(Encoded(s)) /\ Encoded(s).halted = s.halted
  BY <1>t, CopyFields
<1>x. ASSUME NEW s, Persist(s)
      PROVE  op'.phase = "backup" /\ op'.name = op.name /\ op'.next = s
  BY <1>x, <1>t, OpFields DEF Persist
<1>q. ASSUME UNCHANGED <<primary, backup, mem, haltOwed, status>>,
             status = "running" \/ ~Attached',
             op'.name \notin {"unhalt", "clear", "halt"}, op'.phase = "body"
      PROVE  HaltInv'
  BY <1>q DEF HaltInv, Readable, Valid, Attached
<1>p. ASSUME UNCHANGED <<primary, backup, mem, haltOwed, status>>,
             status = "running", op'.phase = "backup",
             mem.halted => op'.next.halted,
             op'.name = "halt" => op'.next.halted,
             haltOwed => op'.name \notin {"unhalt", "clear"}
      PROVE  HaltInv'
  BY <1>p DEF HaltInv, Readable, Valid, Attached
<1>i. ASSUME UNCHANGED <<primary, backup, mem, haltOwed, status>>, op' = Idle,
             op.name # "load"
      PROVE  HaltInv'
  BY <1>i, OpFields DEF HaltInv, CopiesInv, Readable, Valid, Attached
<1>1. CASE Start
  BY <1>1, OpFields DEF Start, HaltInv, Readable, Valid, Attached, disk
<1>2. CASE Crash
  BY <1>2, OpFields DEF Crash, HaltInv, Readable, Valid, Attached, disk
<1>3. ASSUME NEW o \in Outcomes, WriteBackup(o) PROVE HaltInv'
  <2>1. /\ op.phase = "backup" /\ Attached /\ UNCHANGED <<primary, haltOwed>>
        /\ backup' \in {backup, Encoded(op.next)}
    BY <1>3 DEF WriteBackup, CopiesInv, Attached, Idle
  <2>2. Valid(Encoded(op.next)) /\ Encoded(op.next).halted = op.next.halted
    BY <1>t, <1>c
  <2>3. haltOwed => primary'.is # "missing" /\ \A c \in Readable' : c.halted
    BY <2>1, <2>2 DEF HaltInv, Readable, Valid
  <2>4. CASE o = "done"
    <3>1. mem' = op.next /\ op' = [op EXCEPT !.phase = "primary"]
      BY <1>3, <2>4 DEF WriteBackup
    <3>2. op'.phase = "primary" /\ op'.name = op.name
      BY <3>1, <1>t, OpFields
    <3> QED
      BY <2>1, <2>3, <3>1, <3>2 DEF HaltInv
  <2>5. CASE o # "done"
    <3>1. mem' = mem /\ op' = Idle
      BY <1>3, <2>5 DEF WriteBackup, Throw
    <3> QED
      BY <2>1, <2>3, <3>1, OpFields DEF HaltInv
  <2> QED
    BY <2>4, <2>5
<1>4. ASSUME NEW o \in Outcomes, WritePrimary(o) PROVE HaltInv'
  <2>1. /\ op.phase = "primary" /\ Attached /\ UNCHANGED <<backup, mem>>
        /\ primary' \in {primary, Encoded(mem)}
        /\ Valid(backup) => backup = Encoded(mem)
    BY <1>4 DEF WritePrimary, CopiesInv, Attached, Idle
  <2>2. Valid(Encoded(mem)) /\ Encoded(mem).halted = mem.halted
    BY <1>t, <1>c
  <2>3. haltOwed => primary'.is # "missing" /\ \A c \in Readable' : c.halted
    BY <2>1, <2>2 DEF HaltInv, Readable, Valid
  <2>4. CASE o = "done" /\ op.name \in Counting
    <3>1. op' = [op EXCEPT !.phase = "body", !.next = Fresh] /\ haltOwed' = haltOwed
      BY <1>4, <2>4 DEF WritePrimary
    <3>2. op'.phase = "body" /\ op'.name = op.name
      BY <3>1, <1>t, OpFields
    <3> QED
      BY <2>1, <2>3, <2>4, <3>1, <3>2 DEF HaltInv, Counting
  <2>5. CASE o = "done" /\ op.name \notin Counting
    <3>1. op' = Idle /\ primary' = Encoded(mem)
          /\ haltOwed' = (haltOwed \/ op.name = "halt")
      BY <1>4, <2>5 DEF WritePrimary, Finish
    <3>2. CASE op.name = "halt"
      <4>1. mem.halted
        BY <2>1, <3>2 DEF HaltInv
      <4>2. primary'.is # "missing" /\ \A c \in Readable' : c.halted
        BY <2>1, <2>2, <3>1, <4>1 DEF Readable, Valid
      <4>3. mem'.halted /\ op'.name = "none" /\ op'.phase = "body"
        BY <2>1, <3>1, <4>1, OpFields
      <4> QED
        BY <4>2, <4>3 DEF HaltInv
    <3>3. CASE op.name # "halt"
      BY <2>1, <2>3, <3>1, <3>3, OpFields DEF HaltInv
    <3> QED
      BY <3>2, <3>3
  <2>6. CASE o # "done"
    <3>1. op' = Idle /\ haltOwed' = haltOwed
      BY <1>4, <2>6 DEF WritePrimary, Throw
    <3> QED
      BY <2>1, <2>3, <3>1, OpFields DEF HaltInv
  <2> QED
    BY <2>4, <2>5, <2>6
<1>d. ASSUME NEW o, op.name \in Counting, op.phase = "body",
             IF o = "done" THEN Persist(CountDrop(mem)) /\ Stay ELSE Throw,
             UNCHANGED <<primary, backup, mem, haltOwed>>
      PROVE  HaltInv'
  <2>1. op.name \notin {"load", "halt", "unhalt", "clear"} /\ status = "running"
    BY <1>d, OpFields DEF Counting, CopiesInv
  <2>2. CASE o = "done"
    BY <1>d, <2>1, <2>2, <1>p, <1>x, <1>c DEF Stay
  <2>3. CASE o # "done"
    BY <1>d, <2>1, <2>3, <1>i DEF Throw
  <2> QED
    BY <2>2, <2>3
<1>5. ASSUME NEW o \in Outcomes, PurgeOne(o) PROVE HaltInv'
  BY <1>5, <1>d DEF PurgeOne
<1>6. ASSUME NEW o \in Outcomes, EvictOldest(o) PROVE HaltInv'
  BY <1>6, <1>d DEF EvictOldest, Purged, Counting
<1>7. ASSUME NEW o \in Outcomes, StoreBatch(o) PROVE HaltInv'
  <2>1. op.name = "enqueue" /\ status = "running"
    BY <1>7, OpFields DEF StoreBatch, Purged, CopiesInv
  <2>2. op' = Idle /\ status' = status /\ UNCHANGED <<primary, backup, mem, haltOwed>>
    BY <1>7, <2>1 DEF StoreBatch, Throw, Finish
  <2> QED
    BY <2>1, <2>2, <1>i
<1>8. ASSUME NEW o \in Outcomes, DropCorrupt(o) PROVE HaltInv'
  BY <1>8, <1>d DEF DropCorrupt, Purged, Counting
<1>9. ASSUME NEW o \in Outcomes, ClearOne(o) PROVE HaltInv'
  <2>1. op.name = "clear" /\ UNCHANGED <<primary, backup, mem, haltOwed>>
        /\ (UNCHANGED <<op, status>> \/ Throw)
    BY <1>9 DEF ClearOne, Stay
  <2>2. CASE UNCHANGED <<op, status>>
    BY <2>1, <2>2 DEF HaltInv, Readable, Valid, Attached
  <2>3. CASE Throw
    BY <2>1, <2>3, <1>i DEF Throw
  <2> QED
    BY <2>1, <2>2, <2>3
<1>10. CASE LoadFresh
  <2>1. ~haltOwed
    BY <1>10 DEF LoadFresh, HaltInv, Readable, Valid
  <2>2. op'.name = "load" /\ haltOwed' = haltOwed
    BY <1>10, <1>x DEF LoadFresh, Loading
  <2> QED
    BY <2>1, <2>2 DEF HaltInv
<1>11. CASE LoadSelect
  <2>1. /\ mem' = Recovered /\ Recoverable /\ UNCHANGED <<primary, backup, haltOwed>>
        /\ op.name = "load"
    BY <1>11 DEF LoadSelect, Loading, disk
  <2>2. haltOwed => mem'.halted
    BY <2>1, CopyFields DEF Recoverable, Recovered, HaltInv, Readable
  <2>3. \/ op' = Idle
        \/ op'.name = "load" /\ op'.next = mem'
    BY <1>11, <2>1, <1>x DEF LoadSelect, Finish
  <2> QED
    BY <2>1, <2>2, <2>3, OpFields DEF HaltInv, Readable, Valid
<1>12. CASE LoadRefused
  BY <1>12, OpFields
  DEF LoadRefused, HaltInv, Readable, Attached, Valid, disk, volatile
<1>13. CASE EndSize
  BY <1>13, <1>i, OpFields DEF EndSize, Purged, Finish, disk, CopiesInv
<1>14. CASE EndScan
  BY <1>14, <1>i, OpFields DEF EndScan, Purged, Finish, disk, CopiesInv
<1>15. CASE StartUpload
  BY <1>15, <1>i DEF StartUpload, Purged, disk
<1>16. CASE ClearState
  <2>1. op'.phase = "backup" /\ op'.name = "clear" /\ ~haltOwed /\ haltOwed' = haltOwed
    BY <1>16, <1>x DEF ClearState, HaltInv
  <2> QED
    BY <2>1 DEF HaltInv
<1>17. ASSUME NEW o \in Outcomes, Acknowledged(o) PROVE HaltInv'
  BY <1>17, <1>i, OpFields DEF Acknowledged, EndDrain, Uploading, Ready
<1>18. ASSUME NEW o \in Outcomes, Poisoned(o) PROVE HaltInv'
  BY <1>18, <1>i, <1>p, <1>c, OpFields DEF Poisoned, Uploading, Ready
<1>19. CASE Gone
  BY <1>19, <1>i, OpFields DEF Gone, EndDrain, Uploading, Ready, disk
<1>20. CASE Conflict
  <2>1. /\ UNCHANGED <<primary, backup, mem, haltOwed, status>> /\ status = "running"
        /\ op' = [Op("halt", upload, 0) EXCEPT
                     !.phase = "backup", !.next = SetHalted(mem, TRUE)]
    BY <1>20 DEF Conflict, Uploading, Ready, disk
  <2>2. op'.phase = "backup" /\ op'.name = "halt" /\ op'.next = SetHalted(mem, TRUE)
    BY <2>1, OpFields
  <2>3. op'.next.halted
    BY <2>2, <1>c
  <2> QED
    BY <2>1, <2>2, <2>3, <1>p
<1>21. CASE Unauthorized
  BY <1>21, <1>i, OpFields DEF Unauthorized, EndDrain, Uploading, Ready, disk
<1>22. CASE Retry
  BY <1>22, <1>i, OpFields DEF Retry, EndDrain, Uploading, Ready, disk
<1>23. CASE Tick
  <2>1. UNCHANGED <<primary, backup, mem, haltOwed, status>> /\ op' = Idle /\ op = Idle
    BY <1>23 DEF Tick
  <2> QED
    BY <2>1, <1>i, OpFields
<1>24. ASSUME NEW b \in Batches, NEW size \in Sizes, BeginEnqueue(b, size)
       PROVE HaltInv'
  BY <1>24, <1>q, OpFields DEF BeginEnqueue, Begin, Ready, disk
<1>25. ASSUME NEW name, BeginScan(name) PROVE HaltInv'
  BY <1>25, <1>q, OpFields DEF BeginScan, Begin, Ready, disk
<1>26. CASE BeginDrain
  BY <1>26, <1>q, OpFields DEF BeginDrain, Begin, Ready, disk
<1>27. CASE BeginUnhalt
  <2>1. haltOwed' = FALSE /\ op' = [Op("unhalt", NoBatch, 0) EXCEPT
                            !.phase = "backup", !.next = SetHalted(mem, FALSE)]
    BY <1>27 DEF BeginUnhalt, Begin
  <2>2. op'.name = "unhalt"
    BY <2>1, OpFields
  <2> QED
    BY <2>1, <2>2 DEF HaltInv
<1>28. CASE BeginClear
  <2>1. haltOwed' = FALSE /\ op' = Op("clear", NoBatch, 0)
    BY <1>28 DEF BeginClear, Begin
  <2>2. op'.name = "clear"
    BY <2>1, OpFields
  <2> QED
    BY <2>1, <2>2 DEF HaltInv
<1>29. CASE ResetRetries
  BY <1>29, <1>i, OpFields DEF ResetRetries, Ready, disk
<1>30. CASE DamageCopy
  BY <1>30, CopyFields DEF DamageCopy, HaltInv, Readable, Attached, Unread, Valid, volatile
<1>31. CASE DamageFile
  BY <1>31 DEF DamageFile, HaltInv, Readable, Attached, Valid, volatile
<1>32. CASE UNCHANGED vars
  <2>1. UNCHANGED <<primary, backup, mem, op, status, haltOwed>>
    BY <1>32 DEF vars
  <2>2. Readable' = Readable /\ Attached' = Attached
    BY <2>1 DEF Readable, Valid, Attached
  <2> QED
    BY <2>1, <2>2 DEF HaltInv
<1> QED
  BY <1>1, <1>2, <1>3, <1>4, <1>5, <1>6, <1>7, <1>8, <1>9, <1>10, <1>11, <1>12,
     <1>13, <1>14, <1>15, <1>16, <1>17, <1>18, <1>19, <1>20, <1>21, <1>22, <1>23,
     <1>24, <1>25, <1>26, <1>27, <1>28, <1>29, <1>30, <1>31, <1>32
  DEF Next, Step, Write, Settle, GetStats

\* A conflict halt that drainStep reported is in every readable copy until the
\* operator resumes the queue.
THEOREM HaltCorrect == Spec => []HaltStands
<1>1. Init => HaltInv
  BY OpFields DEF Init, HaltInv
<1>2. HaltInv => HaltStands
  BY DEF HaltInv, HaltStands
<1> QED
  BY <1>1, <1>2, HaltStep, CopiesCorrect, TypeCorrect, PTL DEF Spec

(***************************************************************************)
(* Generations                                                             *)
(***************************************************************************)

\* A step that damages no copy leaves a state at least as new as before.
LEMMA GenerationStep ==
  TypeOK /\ TypeOK' /\ CopiesInv /\ [Next]_vars
    => (Recoverable /\ budget'.damage = budget.damage
          => Recovered.gen <= Recovered'.gen)
<1> SUFFICES ASSUME TypeOK, TypeOK', CopiesInv, [Next]_vars, Recoverable,
                    budget'.damage = budget.damage
             PROVE  Recovered.gen <= Recovered'.gen
  OBVIOUS
<1>t. /\ mem \in State /\ mem.gen \in Nat /\ op.next \in State /\ op.next.gen \in Nat
      /\ primary \in Copy /\ backup \in Copy
      /\ primary.gen \in Nat /\ backup.gen \in Nat /\ budget \in Budget
  BY DEF TypeOK, Operation, State, Copy
<1>r. /\ Valid(primary) \/ Valid(backup)
      /\ Recovered.gen = IF Valid(primary) /\ (Valid(backup) => backup.gen <= primary.gen)
                         THEN primary.gen ELSE backup.gen
      /\ Recovered'.gen = IF Valid(primary)' /\ (Valid(backup)' => backup'.gen <= primary'.gen)
                          THEN primary'.gen ELSE backup'.gen
  BY DEF Recoverable, Recovered, Decoded
<1>e. /\ Valid(Encoded(mem)) /\ Encoded(mem).gen = mem.gen
      /\ Valid(Encoded(op.next)) /\ Encoded(op.next).gen = op.next.gen
  BY <1>t, CopyFields
<1>1. CASE UNCHANGED <<primary, backup>>
  BY <1>1, <1>r, <1>t DEF Valid
<1>2. ASSUME NEW o \in Outcomes, WriteBackup(o) PROVE Recovered.gen <= Recovered'.gen
  <2>1. /\ op.phase = "backup" /\ Attached /\ primary' = primary
        /\ backup' \in {backup, Encoded(op.next)}
    BY <1>2 DEF WriteBackup, CopiesInv, Attached, Idle
  <2>2. /\ Valid(backup) => backup.gen <= op.next.gen
        /\ Valid(primary) => primary.gen <= op.next.gen
    BY <2>1, <1>t, <1>e DEF CopiesInv
  <2> QED
    BY <2>1, <2>2, <1>r, <1>e, <1>t DEF Valid
<1>3. ASSUME NEW o \in Outcomes, WritePrimary(o) PROVE Recovered.gen <= Recovered'.gen
  <2>1. /\ op.phase = "primary" /\ Attached /\ backup' = backup
        /\ primary' \in {primary, Encoded(mem)}
    BY <1>3 DEF WritePrimary, CopiesInv, Attached, Idle
  <2>2. /\ Valid(backup) => backup = Encoded(mem)
        /\ Valid(primary) => primary.gen <= mem.gen
    BY <2>1, <1>t, <1>e DEF CopiesInv
  <2> QED
    BY <2>1, <2>2, <1>r, <1>e, <1>t DEF Valid
<1>4. CASE DamageCopy
  <2>1. \E x : budget' = [budget EXCEPT !.damage = @ + 1, !.ruined = x]
    BY <1>4 DEF DamageCopy
  <2> QED
    BY <2>1, <1>t DEF Budget
<1> QED
  BY <1>1, <1>2, <1>3, <1>4, CopiesChange

\* The state that a restart would adopt never goes back to an older one.
THEOREM GenerationsCorrect == Spec => GenerationsGrow
<1>1. TypeOK /\ TypeOK' /\ CopiesInv /\ [Next]_vars
        => [Recoverable /\ budget'.damage = budget.damage
              => Recovered.gen <= Recovered'.gen]_vars
  BY GenerationStep
<1> QED
  BY <1>1, CopiesCorrect, TypeCorrect, PTL DEF Spec, GenerationsGrow

(***************************************************************************)
(* No upload after a conflict                                              *)
(***************************************************************************)

\* While a reported conflict stands no drain is under way: drainStep ended with
\* the report, and the next one reads the halt flag before it begins.
DrainsStop == haltOwed => op.name # "drain"

\* Where a drain or the promise of a halt comes from: a drain begins in
\* BeginDrain only, and the promise is made by the step that ends the operation.
LEMMA DrainChange ==
  ASSUME TypeOK, [Next]_vars
  PROVE  /\ \/ op'.name # "drain" \/ op'.name = op.name
            \/ BeginDrain /\ status = "running" /\ haltOwed' = haltOwed
         /\ ~haltOwed' \/ haltOwed' = haltOwed \/ op' = Idle
         /\ upload' \in {upload, NoBatch} \/ (StartUpload /\ op.name = "drain")
<1>t. op \in Operation
  BY DEF TypeOK
<1>x. ASSUME NEW s, Persist(s)
      PROVE  op'.name = op.name
  BY <1>x, <1>t, OpFields DEF Persist
<1>e. /\ Throw \/ Finish => op' = Idle
      /\ Throw \/ Finish \/ Stay => upload' = upload
  BY DEF Throw, Finish, Stay
<1>1. CASE Start \/ Crash \/ LoadRefused \/ Tick \/ ResetRetries \/ UNCHANGED vars
  BY <1>1, OpFields
  DEF Start, Crash, LoadRefused, Tick, ResetRetries, vars, volatile
<1>2. ASSUME NEW o \in Outcomes, WriteBackup(o)
      PROVE  op'.name \in {"none", op.name} /\ haltOwed' = haltOwed /\ upload' = upload
  <2>1. op' = Idle \/ op' = [op EXCEPT !.phase = "primary"]
    BY <1>2, <1>e DEF WriteBackup
  <2>2. op'.name \in {"none", op.name}
    <3>1. CASE op' = Idle
      BY <3>1, OpFields
    <3>2. CASE op' = [op EXCEPT !.phase = "primary"]
      BY <3>2, <1>t, OpFields
    <3> QED
      BY <2>1, <3>1, <3>2
  <2> QED
    BY <1>2, <2>2, <1>e DEF WriteBackup
<1>3. ASSUME NEW o \in Outcomes, WritePrimary(o)
      PROVE  /\ op'.name \in {"none", op.name} /\ upload' = upload
             /\ haltOwed' = haltOwed \/ op' = Idle
  <2>1. CASE o # "done"
    BY <1>3, <2>1, <1>e, OpFields DEF WritePrimary
  <2>2. CASE o = "done" /\ op.name \in Counting
    <3>1. op' = [op EXCEPT !.phase = "body", !.next = Fresh]
      BY <1>3, <2>2 DEF WritePrimary
    <3>2. op'.name = op.name
      BY <3>1, <1>t, OpFields
    <3> QED
      BY <1>3, <2>2, <3>2, <1>e DEF WritePrimary
  <2>3. CASE o = "done" /\ op.name \notin Counting
    BY <1>3, <2>3, <1>e, OpFields DEF WritePrimary
  <2> QED
    BY <2>1, <2>2, <2>3
<1>4. ASSUME NEW o \in Outcomes,
             PurgeOne(o) \/ EvictOldest(o) \/ StoreBatch(o) \/ DropCorrupt(o) \/ ClearOne(o)
      PROVE  op'.name \in {"none", op.name} /\ haltOwed' = haltOwed /\ upload' = upload
  <2>1. CASE PurgeOne(o) \/ EvictOldest(o) \/ DropCorrupt(o)
    BY <2>1, <1>x, <1>e, OpFields DEF PurgeOne, EvictOldest, DropCorrupt
  <2>2. CASE StoreBatch(o) \/ ClearOne(o)
    BY <2>2, <1>e, OpFields DEF StoreBatch, ClearOne
  <2> QED
    BY <1>4, <2>1, <2>2
<1>5. CASE LoadFresh \/ LoadSelect \/ EndSize \/ EndScan \/ ClearState
  BY <1>5, <1>x, <1>e, OpFields
  DEF LoadFresh, LoadSelect, EndSize, EndScan, ClearState, volatile
<1>6. CASE StartUpload
  BY <1>6, OpFields DEF StartUpload, Purged
<1>7. CASE Settle
  <2>1. upload' = NoBatch /\ haltOwed' = haltOwed
    BY <1>7 DEF Settle, Acknowledged, Poisoned, Gone, Conflict, Unauthorized, Retry,
                EndDrain
  <2>2. \/ op' = Idle
        \/ op' = [Op("poison", upload, 0) EXCEPT
                     !.phase = "backup", !.next = CountDrop(mem)]
        \/ op' = [Op("halt", upload, 0) EXCEPT
                     !.phase = "backup", !.next = SetHalted(mem, TRUE)]
    BY <1>7 DEF Settle, Acknowledged, Poisoned, Gone, Conflict, Unauthorized, Retry,
                EndDrain
  <2>3. op'.name \in {"none", "poison", "halt"}
    <3>1. CASE op' = Idle
      BY <3>1, OpFields
    <3>2. ASSUME NEW name, NEW s,
                 op' = [Op(name, upload, 0) EXCEPT !.phase = "backup", !.next = s]
          PROVE  op'.name = name
      BY <3>2, OpFields
    <3> QED
      BY <2>2, <3>1, <3>2
  <2> QED
    BY <2>1, <2>3
<1>8. CASE \/ GetStats \/ BeginScan("peek") \/ BeginUnhalt \/ BeginClear
           \/ \E b \in Batches, size \in Sizes : BeginEnqueue(b, size)
  <2>1. upload' = upload /\ (haltOwed' = haltOwed \/ ~haltOwed')
    BY <1>8 DEF GetStats, BeginScan, BeginUnhalt, BeginClear, BeginEnqueue
  <2>2. \/ op' = [Op("unhalt", NoBatch, 0) EXCEPT
                     !.phase = "backup", !.next = SetHalted(mem, FALSE)]
        \/ \E name \in {"enqueue", "size", "peek", "clear"} : \E b, size :
               op' = Op(name, b, size)
    BY <1>8 DEF GetStats, BeginScan, BeginUnhalt, BeginClear, BeginEnqueue, Begin
  <2>3. op'.name \in {"unhalt", "enqueue", "size", "peek", "clear"}
    <3>1. ASSUME NEW s,
                 op' = [Op("unhalt", NoBatch, 0) EXCEPT !.phase = "backup", !.next = s]
          PROVE  op'.name = "unhalt"
      BY <3>1, OpFields
    <3>2. ASSUME NEW name, NEW b, NEW size, op' = Op(name, b, size)
          PROVE  op'.name = name
      BY <3>2, OpFields
    <3> QED
      BY <2>2, <3>1, <3>2
  <2> QED
    BY <2>1, <2>3
<1>9. CASE BeginDrain
  BY <1>9 DEF BeginDrain, Begin, Ready
<1>10. CASE DamageCopy \/ DamageFile
  BY <1>10 DEF DamageCopy, DamageFile, volatile
<1> QED
  BY <1>1, <1>2, <1>3, <1>4, <1>5, <1>6, <1>7, <1>8, <1>9, <1>10, OpFields
  DEF Next, Step, Write

\* The halt flag in memory keeps drains from beginning under the promise.
LEMMA DrainsStopStep ==
  TypeOK /\ HaltInv /\ DrainsStop /\ [Next]_vars => DrainsStop'
<1> SUFFICES ASSUME TypeOK, HaltInv, DrainsStop, [Next]_vars, haltOwed',
                    op'.name = "drain"
             PROVE  FALSE
  BY DEF DrainsStop
<1>1. op' # Idle
  BY OpFields
<1>2. haltOwed
  BY <1>1, DrainChange
<1>3. BeginDrain /\ status = "running"
  BY <1>2, DrainChange DEF DrainsStop
<1> QED
  BY <1>2, <1>3 DEF BeginDrain, HaltInv, Attached

\* After drainStep reported a conflict nothing is uploaded before the operator
\* resumes the queue, across crashes and restarts.
THEOREM ConflictStopsUploads == Spec => NoUploadAfterConflict
<1>1. Init => HaltInv /\ DrainsStop
  BY OpFields DEF Init, HaltInv, DrainsStop
<1>2. TypeOK /\ DrainsStop /\ [Next]_vars
        => [haltOwed /\ haltOwed' => upload' \in {upload, NoBatch}]_vars
  BY DrainChange DEF DrainsStop
<1> QED
  BY <1>1, <1>2, HaltStep, DrainsStopStep, CopiesCorrect, TypeCorrect, PTL
  DEF Spec, NoUploadAfterConflict

(***************************************************************************)
(* The drop count                                                          *)
(***************************************************************************)

\* Every crash and every failing write can cost one count.
Slack == budget.crashes + budget.faults
Near(x, k) == x <= Dropped /\ Dropped <= x + k

\* A batch has a file for as long as it is queued, and one that is being
\* enqueued was never in the queue.
FateInv ==
    /\ \A b \in Batches : b \in DOMAIN files <=> fate[b] = "queued"
    /\ op.name = "enqueue" => fate[op.batch] = "unused"

\* The drop counts of the copies, of memory and of the state being persisted:
\* from the unlink to the first durable write only the pending state counts the
\* drop, from there to the second one memory and the backup do.
Unsettled == IF op.phase = "body" THEN 0 ELSE 1
Uncounted == IF op.phase = "backup" THEN 1 ELSE 0
CountInv ==
    /\ Valid(primary) => Near(primary.dropped, Slack + Unsettled)
    /\ Valid(backup) => Near(backup.dropped, Slack + Unsettled)
    /\ Attached => Near(mem.dropped, Slack + Uncounted)
    /\ op.phase = "backup" => Near(op.next.dropped, Slack)
    /\ primary.is = "missing" /\ backup.is = "missing" =>
         Dropped = 0 /\ status # "running"

\* The counts are numbers.
LEMMA CountTyping ==
  ASSUME TypeOK
  PROVE  /\ Dropped \in Nat /\ Slack \in Nat
         /\ Unsettled \in {0, 1} /\ Uncounted \in {0, 1}
         /\ primary.dropped \in Nat /\ backup.dropped \in Nat
         /\ mem.dropped \in Nat /\ op.next.dropped \in Nat
<1>1. Dropped \in Nat
  <2>1. IsFiniteSet({b \in Batches : fate[b] = "dropped"})
    BY QueueAssumption, FS_Subset, {b \in Batches : fate[b] = "dropped"} \subseteq Batches
  <2> QED
    BY <2>1, FS_CardinalityType DEF Dropped
<1>2. Slack \in Nat
  BY DEF TypeOK, Budget, Slack
<1>3. primary.dropped \in Nat /\ backup.dropped \in Nat
  BY DEF TypeOK, Copy
<1>4. mem.dropped \in Nat /\ op.next.dropped \in Nat
  BY DEF TypeOK, Operation, State
<1> QED
  BY <1>1, <1>2, <1>3, <1>4 DEF Unsettled, Uncounted

\* Dropping a batch that was not dropped raises the number by one.
LEMMA DropOne ==
  ASSUME TypeOK, NEW b \in Batches, fate[b] # "dropped",
         fate' = [fate EXCEPT ![b] = "dropped"]
  PROVE  Dropped' = Dropped + 1
<1> DEFINE D == {x \in Batches : fate[x] = "dropped"}
<1>1. IsFiniteSet(D) /\ b \notin D
  BY QueueAssumption, FS_Subset, D \subseteq Batches
<1>2. {x \in Batches : fate'[x] = "dropped"} = D \cup {b}
  BY DEF TypeOK
<1>3. Cardinality(D \cup {b}) = Cardinality(D) + 1
  BY <1>1, FS_AddElement
<1> QED
  BY <1>2, <1>3 DEF Dropped

\* Any other fate leaves it.
LEMMA DropNone ==
  ASSUME \A x \in Batches : fate'[x] = "dropped" <=> fate[x] = "dropped"
  PROVE  Dropped' = Dropped
<1>1. {x \in Batches : fate'[x] = "dropped"} = {x \in Batches : fate[x] = "dropped"}
  OBVIOUS
<1> QED
  BY <1>1 DEF Dropped

\* The unlink of a batch that is in the queue.
LEMMA RemoveDrops ==
  ASSUME TypeOK, FateInv, NEW o, NEW b \in DOMAIN files,
         NEW what \in {"acked", "dropped", "cleared"}, Remove(o, b, what)
  PROVE  Dropped' = Dropped + (IF what = "dropped" /\ o # "failed" THEN 1 ELSE 0)
<1>b. b \in Batches /\ fate[b] = "queued" /\ Dropped \in Nat
  BY CountTyping DEF TypeOK, FateInv
<1>1. CASE o = "failed"
  BY <1>1, <1>b, DropNone DEF Remove
<1>2. CASE o # "failed" /\ what = "dropped"
  BY <1>2, <1>b, DropOne DEF Remove
<1>3. CASE o # "failed" /\ what # "dropped"
  <2>1. fate' = [fate EXCEPT ![b] = what]
    BY <1>3 DEF Remove
  <2>2. \A x \in Batches : fate'[x] = "dropped" <=> fate[x] = "dropped"
    BY <2>1, <1>b, <1>3 DEF TypeOK
  <2> QED
    BY <2>2, <1>b, <1>3, DropNone
<1> QED
  BY <1>1, <1>2, <1>3

\* A write that fails is one more to excuse; the other bounds excuse nothing.
LEMMA SlackChange ==
  ASSUME TypeOK
  PROVE  /\ \A o : Outcome(o) => Slack' = Slack + (IF o = "done" THEN 0 ELSE 1)
         /\ budget' = [budget EXCEPT !.crashes = @ + 1] => Slack' = Slack + 1
         /\ Order \/ UNCHANGED budget => Slack' = Slack
         /\ budget' = [budget EXCEPT !.damage = @ + 1] => Slack' = Slack
         /\ \A x : budget' = [budget EXCEPT !.damage = @ + 1, !.ruined = x]
                     => Slack' = Slack
<1>1. budget \in Budget /\ budget.crashes \in Nat /\ budget.faults \in Nat
  BY DEF TypeOK, Budget
<1>2. \A o : Outcome(o) => Slack' = Slack + (IF o = "done" THEN 0 ELSE 1)
  BY <1>1 DEF Outcome, Slack, Budget
<1>3. budget' = [budget EXCEPT !.crashes = @ + 1] => Slack' = Slack + 1
  BY <1>1 DEF Slack, Budget
<1>4. Order \/ UNCHANGED budget => Slack' = Slack
  BY <1>1 DEF Order, Slack, Budget
<1>5. budget' = [budget EXCEPT !.damage = @ + 1] => Slack' = Slack
  BY <1>1 DEF Slack, Budget
<1>6. \A x : budget' = [budget EXCEPT !.damage = @ + 1, !.ruined = x] => Slack' = Slack
  BY <1>1 DEF Slack, Budget
<1> QED
  BY <1>2, <1>3, <1>4, <1>5, <1>6

\* What can become of the batches in a step: one is unlinked or stored, or all
\* keep their files and their fates.
LEMMA FateChange ==
  ASSUME TypeOK, [Next]_vars
  PROVE  /\ \/ DOMAIN files' = DOMAIN files /\ fate' = fate
            \/ \E o \in Outcomes, b \in DOMAIN files, what \in {"acked", "dropped", "cleared"} :
                 Remove(o, b, what)
            \/ \E o \in Outcomes : StoreBatch(o)
         /\ \/ op'.name # "enqueue"
            \/ op'.name = op.name /\ op'.batch = op.batch
            \/ op'.name = "enqueue" /\ fate[op'.batch] = "unused" /\ fate' = fate
<1>t. op \in Operation
  BY DEF TypeOK
<1>i. Idle.name # "enqueue"
  BY OpFields
<1>o. \A name, b, size :
        /\ Op(name, b, size).name = name /\ Op(name, b, size).batch = b
        /\ \A s : [Op(name, b, size) EXCEPT !.phase = "backup", !.next = s].name = name
  BY DEF Op, Idle
<1>x. ASSUME NEW s, Persist(s)
      PROVE  op'.name = op.name /\ op'.batch = op.batch
  BY <1>x, <1>t DEF Persist, Operation
<1>e. Throw \/ Finish => op'.name # "enqueue"
  BY <1>i DEF Throw, Finish
<1>d. ASSUME Throw \/ op' = op \/ Persist(CountDrop(mem))
      PROVE  op'.name = "enqueue" => op'.name = op.name /\ op'.batch = op.batch
  <2>1. CASE Persist(CountDrop(mem))
    BY <2>1, <1>x
  <2> QED
    BY <1>d, <2>1, <1>e
<1>1. CASE Start \/ Crash \/ LoadRefused \/ ResetRetries \/ UNCHANGED vars
  BY <1>1, <1>i, <1>o DEF Start, Crash, LoadRefused, ResetRetries, vars, disk, volatile
<1>2. ASSUME NEW o \in Outcomes, WriteBackup(o)
      PROVE  /\ UNCHANGED <<files, fate>>
             /\ op'.name = "enqueue" => op'.name = op.name /\ op'.batch = op.batch
  <2>1. op' = [op EXCEPT !.phase = "primary"] \/ Throw
    BY <1>2 DEF WriteBackup
  <2>2. op'.name = "enqueue" => op'.name = op.name /\ op'.batch = op.batch
    <3>1. CASE Throw \/ Finish
      BY <3>1, <1>e
    <3>2. CASE ~(Throw \/ Finish)
      BY <2>1, <3>2, <1>t DEF Operation
    <3> QED
      BY <3>1, <3>2
  <2> QED
    BY <1>2, <2>2 DEF WriteBackup
<1>3. ASSUME NEW o \in Outcomes, WritePrimary(o)
      PROVE  /\ UNCHANGED <<files, fate>>
             /\ op'.name = "enqueue" => op'.name = op.name /\ op'.batch = op.batch
  <2>1. op' = [op EXCEPT !.phase = "body", !.next = Fresh] \/ Throw \/ Finish
    <3>1. CASE o # "done"
      BY <1>3, <3>1 DEF WritePrimary
    <3>2. CASE o = "done" /\ op.name \in Counting
      BY <1>3, <3>2 DEF WritePrimary
    <3>3. CASE o = "done" /\ op.name \notin Counting
      BY <1>3, <3>3 DEF WritePrimary
    <3> QED
      BY <3>1, <3>2, <3>3
  <2>2. op'.name = "enqueue" => op'.name = op.name /\ op'.batch = op.batch
    <3>1. CASE Throw \/ Finish
      BY <3>1, <1>e
    <3>2. CASE ~(Throw \/ Finish)
      BY <2>1, <3>2, <1>t DEF Operation
    <3> QED
      BY <3>1, <3>2
  <2> QED
    BY <1>3, <2>2 DEF WritePrimary
<1>4. ASSUME NEW o \in Outcomes, PurgeOne(o) \/ EvictOldest(o) \/ DropCorrupt(o)
      PROVE  /\ \E b \in DOMAIN files : Remove(o, b, "dropped")
             /\ op'.name = "enqueue" => op'.name = op.name /\ op'.batch = op.batch
  BY <1>4, <1>d DEF PurgeOne, EvictOldest, DropCorrupt, Oldest
<1>5. ASSUME NEW o \in Outcomes, ClearOne(o)
      PROVE  /\ \E b \in DOMAIN files : Remove(o, b, "cleared")
             /\ op'.name = "enqueue" => op'.name = op.name /\ op'.batch = op.batch
  BY <1>5, <1>d DEF ClearOne, Oldest
<1>6. ASSUME NEW o \in Outcomes, StoreBatch(o)
      PROVE  op'.name # "enqueue"
  BY <1>6, <1>e DEF StoreBatch
<1>7. CASE LoadFresh \/ LoadSelect \/ EndSize \/ EndScan \/ ClearState
  BY <1>7, <1>e, <1>x DEF LoadFresh, LoadSelect, EndSize, EndScan, ClearState, disk
<1>8. CASE StartUpload
  BY <1>8, <1>i DEF StartUpload, disk
<1>9. ASSUME NEW o \in Outcomes, Acknowledged(o)
      PROVE  /\ \E b \in DOMAIN files : Remove(o, b, "acked")
             /\ op'.name # "enqueue"
  BY <1>9, <1>i DEF Acknowledged, EndDrain
<1>10. ASSUME NEW o \in Outcomes, Poisoned(o)
      PROVE  /\ \E b \in DOMAIN files : Remove(o, b, "dropped")
             /\ op'.name # "enqueue"
  <2>1. \/ op' = Idle
        \/ op' = [Op("poison", upload, 0) EXCEPT
                     !.phase = "backup", !.next = CountDrop(mem)]
    BY <1>10 DEF Poisoned
  <2>2. op'.name # "enqueue"
    <3>1. CASE op' = Idle
      BY <3>1, <1>i
    <3>2. CASE op' = [Op("poison", upload, 0) EXCEPT
                       !.phase = "backup", !.next = CountDrop(mem)]
      <4>1. op'.name = "poison"
        BY <3>2, <1>o
      <4> QED
        BY <4>1
    <3> QED
      BY <2>1, <3>1, <3>2
  <2> QED
    BY <1>10, <2>2 DEF Poisoned
<1>11. CASE Gone \/ Unauthorized \/ Retry
  BY <1>11, <1>i DEF Gone, Unauthorized, Retry, EndDrain, disk
<1>12. CASE Conflict
  <2>1. op'.name = "halt"
    BY <1>12, <1>o DEF Conflict
  <2> QED
    BY <1>12, <2>1 DEF Conflict, disk
<1>13. CASE Tick \/ DamageFile \/ DamageCopy
  BY <1>13 DEF Tick, DamageFile, DamageCopy, volatile
<1>14. ASSUME NEW b \in Batches, NEW size \in Sizes, BeginEnqueue(b, size)
       PROVE  /\ UNCHANGED <<files, fate>>
              /\ op'.name = "enqueue" /\ fate[op'.batch] = "unused"
  BY <1>14, <1>o DEF BeginEnqueue, Begin, disk
<1>15. CASE GetStats \/ BeginScan("peek") \/ BeginDrain \/ BeginClear
  <2>1. \E name \in {"size", "peek", "drain", "clear"} : op' = Op(name, NoBatch, 0)
    BY <1>15 DEF GetStats, BeginScan, BeginDrain, BeginClear, Begin
  <2>2. op'.name # "enqueue"
    BY <2>1, <1>o
  <2> QED
    BY <1>15, <2>2 DEF GetStats, BeginScan, BeginDrain, BeginClear, Begin, disk
<1>16. CASE BeginUnhalt
  <2>1. op'.name = "unhalt"
    BY <1>16, <1>o DEF BeginUnhalt, Begin
  <2> QED
    BY <1>16, <2>1 DEF BeginUnhalt, Begin, disk
<1> QED
  BY <1>1, <1>2, <1>3, <1>4, <1>5, <1>6, <1>7, <1>8, <1>9, <1>10, <1>11, <1>12,
     <1>13, <1>14, <1>15, <1>16
  DEF Next, Step, Write, Settle

\* Files and fates stay together.
LEMMA FateStep ==
  TypeOK /\ FateInv /\ [Next]_vars => FateInv'
<1> SUFFICES ASSUME TypeOK, FateInv, [Next]_vars PROVE FateInv'
  OBVIOUS
<1>t. fate \in [Batches -> Fates] /\ DOMAIN files \subseteq Batches /\ op \in Operation
  BY DEF TypeOK
<1>1. CASE DOMAIN files' = DOMAIN files /\ fate' = fate
  BY <1>1, FateChange DEF FateInv
<1>2. ASSUME NEW o \in Outcomes, NEW b \in DOMAIN files,
             NEW what \in {"acked", "dropped", "cleared"}, Remove(o, b, what)
      PROVE  FateInv'
  <2>1. CASE o = "failed"
    BY <1>2, <2>1, FateChange DEF FateInv, Remove
  <2>2. CASE o # "failed"
    <3>1. DOMAIN files' = DOMAIN files \ {b} /\ fate' = [fate EXCEPT ![b] = what]
      BY <1>2, <2>2 DEF Remove
    <3>2. b \in Batches /\ fate[b] = "queued"
      BY <1>t DEF FateInv
    <3>3. \A x \in Batches : x \in DOMAIN files' <=> fate'[x] = "queued"
      BY <1>t, <3>1, <3>2 DEF FateInv
    <3>4. \A x : x # b => fate'[x] = fate[x]
      BY <1>t, <3>1 
    <3>5. op'.name = "enqueue" => fate'[op'.batch] = "unused"
      <4>1. CASE op'.name = op.name /\ op'.batch = op.batch
        BY <4>1, <3>2, <3>4 DEF FateInv
      <4>2. CASE fate[op'.batch] = "unused" /\ fate' = fate
        BY <4>2
      <4> QED
        BY <4>1, <4>2, FateChange
    <3> QED
      BY <3>3, <3>5 DEF FateInv
  <2> QED
    BY <2>1, <2>2
<1>3. ASSUME NEW o \in Outcomes, StoreBatch(o)
      PROVE  FateInv'
  <2>1. op'.name # "enqueue"
    BY <1>3, OpFields DEF StoreBatch, Throw, Finish
  <2>2. op.batch \in Batches
    BY <1>3, <1>t DEF StoreBatch, Purged, Operation
  <2>3. CASE o = "failed"
    BY <1>3, <2>1, <2>3 DEF StoreBatch, FateInv
  <2>4. CASE o # "failed"
    <3>1. DOMAIN files' = DOMAIN files \cup {op.batch}
          /\ fate' = [fate EXCEPT ![op.batch] = "queued"]
      BY <1>3, <2>4 DEF StoreBatch
    <3> QED
      BY <1>t, <2>1, <2>2, <3>1 DEF FateInv
  <2> QED
    BY <2>3, <2>4
<1> QED
  BY <1>1, <1>2, <1>3, FateChange

\* A copy, a state in memory and a pending state carry the same drop count.
LEMMA CountFields ==
  /\ \A s \in State : Valid(Encoded(s)) /\ Encoded(s).dropped = s.dropped
  /\ \A c : Decoded(c).dropped = c.dropped
  /\ \A s \in State, h \in BOOLEAN :
       CountDrop(s).dropped = s.dropped + 1 /\ SetHalted(s, h).dropped = s.dropped
  /\ Fresh.dropped = 0 /\ [Fresh EXCEPT !.gen = 1].dropped = 0
<1>1. \A s \in State : Valid(Encoded(s)) /\ Encoded(s).dropped = s.dropped
  BY DEF Encoded, Valid
<1>2. \A c : Decoded(c).dropped = c.dropped
  BY DEF Decoded
<1>3. \A s \in State, h \in BOOLEAN :
        CountDrop(s).dropped = s.dropped + 1 /\ SetHalted(s, h).dropped = s.dropped
  BY DEF CountDrop, SetHalted, State
<1> QED
  BY <1>1, <1>2, <1>3 DEF Fresh

\* The counts of a step that touches no batch and fails no write.
LEMMA SameDrops ==
  ASSUME UNCHANGED <<fate, budget>>
  PROVE  Dropped' = Dropped /\ Slack' = Slack
BY DEF Dropped, Slack

\* No step lets the drop counts go astray: a drop is unlinked first and counted
\* next, and what comes between is a crash or a failing write.
LEMMA CountStep ==
  TypeOK /\ TypeOK' /\ CopiesInv /\ FateInv /\ CountInv /\ [Next]_vars => CountInv'
<1> SUFFICES ASSUME TypeOK, TypeOK', CopiesInv, FateInv, CountInv, [Next]_vars
             PROVE  CountInv'
  OBVIOUS
<1>t. /\ op \in Operation /\ mem \in State /\ op.next \in State
      /\ primary \in Copy /\ backup \in Copy
  BY DEF TypeOK, Operation
<1>n. /\ Dropped \in Nat /\ Slack \in Nat /\ Dropped' \in Nat /\ Slack' \in Nat
      /\ primary.dropped \in Nat /\ backup.dropped \in Nat
      /\ mem.dropped \in Nat /\ op.next.dropped \in Nat
  <2>1. (Dropped \in Nat /\ Slack \in Nat)'
    BY CountTyping, PTL
  <2> QED
    BY <2>1, CountTyping
<1>x. ASSUME NEW s, Persist(s)
      PROVE  op'.phase = "backup" /\ op'.name = op.name /\ op'.next = s
  BY <1>x, <1>t, OpFields DEF Persist
<1>f. /\ CountDrop(mem).dropped = mem.dropped + 1
      /\ SetHalted(mem, TRUE).dropped = mem.dropped
      /\ SetHalted(mem, FALSE).dropped = mem.dropped
  BY <1>t, CountFields
<1>s. ASSUME NEW o, Outcome(o) PROVE Slack' \in {Slack, Slack + 1}
  <2>1. Slack' = Slack + (IF o = "done" THEN 0 ELSE 1)
    BY <1>s, SlackChange
  <2>2. CASE o = "done"
    BY <2>1, <2>2, <1>n
  <2>3. CASE o # "done"
    BY <2>1, <2>3, <1>n
  <2> QED
    BY <2>2, <2>3
\* Steps between two bodies, and the end of a load that is refused.
<1>q. ASSUME UNCHANGED <<primary, backup>>, op.phase = "body", op'.phase = "body",
             Dropped' = Dropped, Slack' \in {Slack, Slack + 1},
             Attached' => Attached /\ mem' = mem,
             status' = "running" => status = "running"
      PROVE  CountInv'
  BY <1>q, <1>n DEF CountInv, Near, Unsettled, Uncounted, Valid
\* Steps that open a persist which counts no drop.
<1>p. ASSUME UNCHANGED <<primary, backup, mem, status>>, status = "running",
             op.phase = "body", op'.phase = "backup",
             Dropped' = Dropped, Slack' = Slack, op'.next.dropped = mem.dropped
      PROVE  CountInv'
  BY <1>p, <1>n DEF CountInv, Near, Unsettled, Uncounted, Attached, Valid
\* Steps that unlink a batch and open the persist of the next count.
<1>u. ASSUME UNCHANGED <<primary, backup, mem, status>>, status = "running",
             op.phase = "body", op'.phase = "backup",
             Dropped' = Dropped + 1, Slack' = Slack,
             op'.next.dropped = mem.dropped + 1
      PROVE  CountInv'
  BY <1>u, <1>n DEF CountInv, Near, Unsettled, Uncounted, Attached, Valid
\* Steps that unlink a batch, or try to, and fail.
<1>w. ASSUME UNCHANGED <<primary, backup, mem, status>>, status = "running",
             op.phase = "body", op'.phase = "body",
             Dropped' \in {Dropped, Dropped + 1}, Slack' = Slack + 1
      PROVE  CountInv'
  BY <1>w, <1>n DEF CountInv, Near, Unsettled, Uncounted, Attached, Valid
<1>1. CASE Start
  <2>1. op.phase = "body" /\ op'.phase = "body" /\ op'.name = "load"
    BY <1>1, OpFields DEF Start, CopiesInv
  <2>2. ~Attached' /\ UNCHANGED <<primary, backup, fate, budget>> /\ status' = "loading"
    BY <1>1, <2>1 DEF Start, Attached, disk
  <2> QED
    BY <2>1, <2>2, <1>q, SameDrops
<1>2. CASE Crash
  <2>1. /\ op'.phase = "body" /\ ~Attached' /\ UNCHANGED <<primary, backup, fate>>
        /\ status' = "down" /\ budget' = [budget EXCEPT !.crashes = @ + 1]
    BY <1>2, OpFields DEF Crash, Attached, disk
  <2>2. Slack' = Slack + 1 /\ Dropped' = Dropped
    BY <2>1, SlackChange, DropNone
  <2> QED
    BY <2>1, <2>2, <1>n DEF CountInv, Near, Unsettled, Uncounted, Valid
<1>3. ASSUME NEW o \in Outcomes, WriteBackup(o) PROVE CountInv'
  <2>1. op.phase = "backup" /\ Attached /\ primary' = primary
    BY <1>3 DEF WriteBackup, CopiesInv, Attached, Idle
  <2>2. /\ Dropped' = Dropped /\ Slack' = Slack + (IF o = "done" THEN 0 ELSE 1)
        /\ o \in {"done", "failed", "late"}
    BY <1>3, SlackChange, DropNone DEF WriteBackup, Outcomes
  <2>3. Valid(Encoded(op.next)) /\ Encoded(op.next).dropped = op.next.dropped
    BY <1>t, CountFields
  <2>4. /\ backup' \in {backup, Encoded(op.next)}
        /\ Near(op.next.dropped, Slack)
        /\ Near(mem.dropped, Slack + 1)
        /\ Valid(primary) => Near(primary.dropped, Slack + 1)
        /\ Valid(backup) => Near(backup.dropped, Slack + 1)
    BY <1>3, <2>1 DEF WriteBackup, CountInv, Unsettled, Uncounted
  <2>5. backup'.is = "missing" => backup.is = "missing"
    BY <2>3, <2>4 DEF Valid
  <2>6. CASE o = "done"
    <3>1. /\ backup' = Encoded(op.next) /\ mem' = op.next
          /\ op' = [op EXCEPT !.phase = "primary"] /\ status' = status
      BY <1>3, <2>6 DEF WriteBackup, Stay
    <3>2. op'.phase = "primary"
      BY <3>1, <1>t, OpFields
    <3>3. Unsettled' = 1 /\ Uncounted' = 0
      BY <3>2 DEF Unsettled, Uncounted
    <3>4. backup'.is # "missing"
      BY <3>1, <2>3 DEF Valid
    <3> QED
      BY <2>1, <2>2, <2>3, <2>4, <2>6, <3>1, <3>2, <3>3, <3>4, <1>n
      DEF CountInv, Near, Valid
  <2>7. CASE o # "done"
    <3>1. status' = "running" => status = "running"
      BY <1>3, <2>7, OpFields DEF WriteBackup, Throw
    <3>2. mem' = mem /\ op'.phase = "body"
      BY <1>3, <2>7, OpFields DEF WriteBackup, Throw
    <3>3. Unsettled' = 0 /\ Uncounted' = 0 /\ Slack' = Slack + 1
      BY <3>2, <2>2, <2>7 DEF Unsettled, Uncounted
    <3>4. Valid(backup)' => Near(backup'.dropped, Slack + 1)
      BY <2>3, <2>4, <1>n DEF Near, Valid
    <3>5. primary'.is = "missing" /\ backup'.is = "missing"
            => Dropped = 0 /\ status' # "running"
      BY <2>1, <2>5, <3>1, <1>3, <2>7 DEF CountInv, WriteBackup, Throw
    <3> QED
      BY <2>1, <2>2, <2>4, <3>2, <3>3, <3>4, <3>5, <1>n
      DEF CountInv, Near, Valid
  <2> QED
    BY <2>6, <2>7
<1>4. ASSUME NEW o \in Outcomes, WritePrimary(o) PROVE CountInv'
  <2>1. op.phase = "primary" /\ Attached /\ backup' = backup /\ mem' = mem
    BY <1>4 DEF WritePrimary, CopiesInv, Attached, Idle
  <2>2. /\ Dropped' = Dropped /\ Slack' = Slack + (IF o = "done" THEN 0 ELSE 1)
        /\ o \in {"done", "failed", "late"}
    BY <1>4, SlackChange, DropNone DEF WritePrimary, Outcomes
  <2>3. Valid(Encoded(mem)) /\ Encoded(mem).dropped = mem.dropped
    BY <1>t, CountFields
  <2>4. /\ primary' \in {primary, Encoded(mem)}
        /\ Near(mem.dropped, Slack)
        /\ Valid(primary) => Near(primary.dropped, Slack + 1)
        /\ Valid(backup) => backup = Encoded(mem)
    <3>1. primary' \in {primary, Encoded(mem)}
      BY <1>4 DEF WritePrimary
    <3>2. Unsettled = 1 /\ Uncounted = 0
      BY <2>1 DEF Unsettled, Uncounted
    <3>3. Near(mem.dropped, Slack)
      BY <2>1, <3>2, <1>n DEF CountInv, Near
    <3> QED
      BY <2>1, <3>1, <3>2, <3>3 DEF CountInv, CopiesInv
  <2>5. op'.phase = "body"
    <3>1. CASE o # "done"
      BY <1>4, <3>1, OpFields DEF WritePrimary, Throw
    <3>2. CASE o = "done" /\ op.name \in Counting
      <4>1. op' = [op EXCEPT !.phase = "body", !.next = Fresh]
        BY <1>4, <3>2 DEF WritePrimary
      <4> QED
        BY <4>1, <1>t, OpFields
    <3>3. CASE o = "done" /\ op.name \notin Counting
      BY <1>4, <3>3, OpFields DEF WritePrimary, Finish
    <3> QED
      BY <3>1, <3>2, <3>3
  <2>6. Unsettled' = 0 /\ Uncounted' = 0
    BY <2>5 DEF Unsettled, Uncounted
  <2>7. CASE o = "done"
    <3>1. primary' = Encoded(mem)
      BY <1>4, <2>7 DEF WritePrimary
    <3> QED
      BY <2>1, <2>2, <2>3, <2>4, <2>5, <2>6, <2>7, <3>1, <1>n DEF CountInv, Near, Valid
  <2>8. CASE o # "done"
    <3>1. status' = "running" => status = "running"
      BY <1>4, <2>8 DEF WritePrimary, Throw
    <3>2. primary'.is = "missing" => primary.is = "missing"
      BY <2>3, <2>4 DEF Valid
    <3>3. primary'.is = "missing" /\ backup'.is = "missing"
            => Dropped = 0 /\ status' # "running"
      BY <2>1, <3>1, <3>2 DEF CountInv
    <3> QED
      BY <2>1, <2>2, <2>3, <2>4, <2>5, <2>6, <2>8, <3>3, <1>n DEF CountInv, Near, Valid
  <2> QED
    BY <2>7, <2>8
<1>d. ASSUME NEW o \in Outcomes, Outcome(o), op.name \in Counting, op.phase = "body",
             NEW b \in DOMAIN files, Remove(o, b, "dropped"),
             IF o = "done" THEN Persist(CountDrop(mem)) /\ Stay ELSE Throw,
             UNCHANGED <<primary, backup, mem>>
      PROVE  CountInv'
  <2>1. status = "running" /\ op.name # "load"
    BY <1>d, OpFields DEF Counting, CopiesInv
  <2>2. /\ Dropped' = Dropped + (IF o # "failed" THEN 1 ELSE 0)
        /\ Slack' = Slack + (IF o = "done" THEN 0 ELSE 1)
    BY <1>d, RemoveDrops, SlackChange
  <2>3. CASE o = "done"
    <3>1. op'.phase = "backup" /\ op'.next.dropped = mem.dropped + 1 /\ status' = status
      BY <1>d, <2>3, <1>x, <1>f DEF Stay
    <3> QED
      BY <1>d, <2>1, <2>2, <2>3, <3>1, <1>n, <1>u
  <2>4. CASE o # "done"
    <3>1. op'.phase = "body" /\ status' = status
      BY <1>d, <2>1, <2>4, OpFields DEF Throw
    <3> QED
      BY <1>d, <2>1, <2>2, <2>4, <3>1, <1>n, <1>w
  <2> QED
    BY <2>3, <2>4
<1>5. ASSUME NEW o \in Outcomes, PurgeOne(o) PROVE CountInv'
  BY <1>5, <1>d DEF PurgeOne, Oldest
<1>6. ASSUME NEW o \in Outcomes, EvictOldest(o) PROVE CountInv'
  BY <1>6, <1>d DEF EvictOldest, Purged, Counting, Oldest
<1>7. ASSUME NEW o \in Outcomes, StoreBatch(o) PROVE CountInv'
  <2>1. op.name = "enqueue" /\ op.phase = "body" /\ op.batch \in Batches
        /\ UNCHANGED <<primary, backup, mem>>
    BY <1>7, <1>t DEF StoreBatch, Purged, Operation
  <2>2. status = "running" /\ op' = Idle /\ status' = status
    BY <1>7, <2>1, OpFields DEF StoreBatch, Throw, Finish, CopiesInv
  <2>3. Dropped' = Dropped
    <3>1. fate' = fate \/ fate' = [fate EXCEPT ![op.batch] = "queued"]
      BY <1>7 DEF StoreBatch
    <3>2. fate[op.batch] = "unused"
      BY <2>1 DEF FateInv
    <3>3. \A x \in Batches : fate'[x] = "dropped" <=> fate[x] = "dropped"
      BY <2>1, <3>1, <3>2 DEF TypeOK
    <3> QED
      BY <3>3, DropNone
  <2>4. Slack' \in {Slack, Slack + 1}
    BY <1>7, <1>s DEF StoreBatch
  <2> QED
    BY <2>1, <2>2, <2>3, <2>4, <1>q, OpFields DEF Attached
<1>8. ASSUME NEW o \in Outcomes, DropCorrupt(o) PROVE CountInv'
  BY <1>8, <1>d DEF DropCorrupt, Purged, Counting, Oldest
<1>9. ASSUME NEW o \in Outcomes, ClearOne(o) PROVE CountInv'
  <2>1. op.name = "clear" /\ op.phase = "body" /\ UNCHANGED <<primary, backup, mem>>
        /\ Outcome(o)
    BY <1>9 DEF ClearOne
  <2>2. status = "running" /\ status' = status /\ op'.phase = "body"
    BY <1>9, <2>1, OpFields DEF ClearOne, Throw, Stay, CopiesInv
  <2>3. Dropped' = Dropped
    <3>1. PICK b \in DOMAIN files : Remove(o, b, "cleared")
      BY <1>9 DEF ClearOne, Oldest
    <3> QED
      BY <3>1, RemoveDrops, <1>n
  <2>4. Slack' \in {Slack, Slack + 1}
    BY <2>1, <1>s
  <2> QED
    BY <2>1, <2>2, <2>3, <2>4, <1>q DEF Attached
<1>10. CASE LoadFresh
  <2>1. /\ UNCHANGED <<primary, backup, mem, status, fate, budget>> /\ mem = Fresh
        /\ op.phase = "body" /\ primary.is = "missing" /\ backup.is = "missing"
        /\ status = "loading" /\ Persist([Fresh EXCEPT !.gen = 1])
    BY <1>10 DEF LoadFresh, Loading, CopiesInv, disk, volatile
  <2>2. Dropped' = Dropped /\ Slack' = Slack /\ Dropped = 0
    BY <2>1, SameDrops DEF CountInv
  <2>3. op'.phase = "backup" /\ op'.next.dropped = 0 /\ mem.dropped = 0
    BY <2>1, <1>x, CountFields
  <2> QED
    BY <2>1, <2>2, <2>3, <1>n DEF CountInv, Near, Unsettled, Uncounted, Valid
<1>11. CASE LoadSelect
  <2>1. /\ UNCHANGED <<primary, backup, fate, budget>> /\ mem' = Recovered
        /\ op.phase = "body" /\ Recoverable
    BY <1>11 DEF LoadSelect, Loading, disk
  <2>2. Dropped' = Dropped /\ Slack' = Slack
    BY <2>1, SameDrops
  <2>3. Near(Recovered.dropped, Slack) /\ Recovered.dropped \in Nat
    <3>1. \/ Valid(primary) /\ Recovered.dropped = primary.dropped
          \/ Valid(backup) /\ Recovered.dropped = backup.dropped
      BY <2>1, CountFields DEF Recoverable, Recovered
    <3> QED
      BY <2>1, <3>1, <1>n DEF CountInv, Unsettled
  <2>4. ~(primary'.is = "missing" /\ backup'.is = "missing")
    BY <2>1 DEF Recoverable, Valid
  <2>5. CASE op' = Idle
    BY <2>1, <2>2, <2>3, <2>4, <2>5, OpFields, <1>n
    DEF CountInv, Near, Unsettled, Uncounted, Valid
  <2>6. CASE Persist(Recovered)
    <3>1. op'.phase = "backup" /\ op'.next.dropped = Recovered.dropped
      BY <2>6, <1>x
    <3> QED
      BY <2>1, <2>2, <2>3, <2>4, <3>1, <1>n
      DEF CountInv, Near, Unsettled, Uncounted, Valid
  <2> QED
    BY <1>11, <2>5, <2>6 DEF LoadSelect, Finish
<1>12. CASE LoadRefused
  <2>1. /\ UNCHANGED <<primary, backup, fate, budget>> /\ op' = Idle /\ status' = "repair"
        /\ op.phase = "body"
    BY <1>12 DEF LoadRefused, Loading, disk
  <2> QED
    BY <2>1, <1>q, SameDrops, OpFields DEF Attached
<1>13. CASE EndSize
  <2>1. UNCHANGED <<primary, backup, mem, fate, budget>> /\ op' = Idle
        /\ op.phase = "body" /\ op.name = "size"
    BY <1>13 DEF EndSize, Purged, Finish, disk
  <2>2. status = "running"
    BY <2>1, OpFields DEF CopiesInv
  <2> QED
    BY <2>1, <2>2, <1>q, SameDrops, OpFields DEF Attached
<1>14. CASE EndScan
  <2>1. UNCHANGED <<primary, backup, mem, fate, budget>> /\ op' = Idle
        /\ op.phase = "body" /\ op.name \in {"peek", "drain"}
    BY <1>14 DEF EndScan, Purged, Finish, disk
  <2>2. status = "running"
    BY <2>1, OpFields DEF CopiesInv
  <2> QED
    BY <2>1, <2>2, <1>q, SameDrops, OpFields DEF Attached
<1>15. CASE StartUpload
  <2>1. UNCHANGED <<primary, backup, mem, status, fate, budget>> /\ op' = Idle
        /\ op.phase = "body"
    BY <1>15 DEF StartUpload, Purged, disk
  <2> QED
    BY <2>1, <1>q, SameDrops, OpFields DEF Attached
<1>16. CASE ClearState
  <2>1. UNCHANGED <<primary, backup, mem, status, fate, budget>>
        /\ Persist(SetHalted(mem, FALSE)) /\ op.phase = "body" /\ op.name = "clear"
    BY <1>16 DEF ClearState, disk, volatile
  <2>2. status = "running"
    BY <2>1, OpFields DEF CopiesInv
  <2>3. op'.phase = "backup" /\ op'.next.dropped = mem.dropped
    BY <2>1, <1>x, <1>f
  <2> QED
    BY <2>1, <2>2, <2>3, <1>p, SameDrops
<1>r. Ready => status = "running" /\ op.phase = "body"
  BY OpFields DEF Ready
<1>17. ASSUME NEW o \in Outcomes, Acknowledged(o) PROVE CountInv'
  <2>1. /\ Remove(o, upload, "acked") /\ upload \in DOMAIN files /\ Outcome(o) /\ Ready
        /\ op' = Idle /\ UNCHANGED <<primary, backup, mem, status>>
    BY <1>17 DEF Acknowledged, EndDrain, Uploading
  <2>2. Dropped' = Dropped /\ Slack' \in {Slack, Slack + 1}
    BY <2>1, RemoveDrops, <1>s, <1>n
  <2> QED
    BY <2>1, <2>2, <1>r, <1>q, OpFields DEF Attached
<1>18. ASSUME NEW o \in Outcomes, Poisoned(o) PROVE CountInv'
  <2>1. /\ Remove(o, upload, "dropped") /\ upload \in DOMAIN files /\ Outcome(o) /\ Ready
        /\ UNCHANGED <<primary, backup, mem, status>>
    BY <1>18 DEF Poisoned, Uploading
  <2>2. /\ Dropped' = Dropped + (IF o # "failed" THEN 1 ELSE 0)
        /\ Slack' = Slack + (IF o = "done" THEN 0 ELSE 1)
    BY <2>1, RemoveDrops, SlackChange
  <2>3. CASE o = "done"
    <3>1. op' = [Op("poison", upload, 0) EXCEPT
                   !.phase = "backup", !.next = CountDrop(mem)]
      BY <1>18, <2>3 DEF Poisoned
    <3>2. op'.phase = "backup" /\ op'.next = CountDrop(mem)
      BY <3>1, OpFields
    <3>3. op'.next.dropped = mem.dropped + 1
      BY <3>2, <1>f
    <3> QED
      BY <2>1, <2>2, <2>3, <3>2, <3>3, <1>r, <1>n, <1>u
  <2>4. CASE o # "done"
    <3>1. op' = Idle
      BY <1>18, <2>4 DEF Poisoned
    <3> QED
      BY <2>1, <2>2, <2>4, <3>1, <1>r, <1>n, <1>w, OpFields
  <2> QED
    BY <2>3, <2>4
<1>k. ASSUME Ready, op'.phase = "body", UNCHANGED <<primary, backup, mem, status, fate>>,
             Order \/ UNCHANGED budget
      PROVE  CountInv'
  BY <1>k, <1>r, <1>q, SlackChange, DropNone DEF Attached
<1>19. CASE Gone \/ Unauthorized \/ Retry
  BY <1>19, <1>k, OpFields DEF Gone, Unauthorized, Retry, EndDrain, Uploading, disk
<1>20. CASE Conflict
  <2>1. /\ UNCHANGED <<primary, backup, mem, status, fate, budget>> /\ Ready
        /\ op' = [Op("halt", upload, 0) EXCEPT
                    !.phase = "backup", !.next = SetHalted(mem, TRUE)]
    BY <1>20 DEF Conflict, Uploading, disk
  <2>2. op'.phase = "backup" /\ op'.next = SetHalted(mem, TRUE)
    BY <2>1, OpFields
  <2>3. op'.next.dropped = mem.dropped
    BY <2>2, <1>f
  <2> QED
    BY <2>1, <2>2, <2>3, <1>r, <1>p, SameDrops
<1>21. CASE Tick
  <2>1. UNCHANGED <<primary, backup, mem, status, fate, budget>> /\ op' = Idle /\ op = Idle
    BY <1>21 DEF Tick
  <2> QED
    BY <2>1, <1>q, SameDrops, OpFields DEF Attached
<1>22. ASSUME NEW b \in Batches, NEW size \in Sizes, BeginEnqueue(b, size)
       PROVE CountInv'
  BY <1>22, <1>k, OpFields DEF BeginEnqueue, Begin, disk
<1>23. ASSUME NEW name, BeginScan(name) PROVE CountInv'
  BY <1>23, <1>k, OpFields DEF BeginScan, Begin, disk
<1>24. CASE BeginDrain
  BY <1>24, <1>k, OpFields DEF BeginDrain, Begin, disk
<1>25. CASE BeginUnhalt
  <2>1. /\ UNCHANGED <<primary, backup, mem, status, fate>> /\ Ready /\ Order
        /\ op' = [Op("unhalt", NoBatch, 0) EXCEPT
                    !.phase = "backup", !.next = SetHalted(mem, FALSE)]
    BY <1>25 DEF BeginUnhalt, Begin, disk
  <2>2. op'.phase = "backup" /\ op'.next = SetHalted(mem, FALSE)
    BY <2>1, OpFields
  <2>3. op'.next.dropped = mem.dropped
    BY <2>2, <1>f
  <2> QED
    BY <2>1, <2>2, <2>3, <1>r, <1>p, SlackChange, DropNone
<1>26. CASE BeginClear
  BY <1>26, <1>k, OpFields DEF BeginClear, Begin, disk
<1>27. CASE ResetRetries
  BY <1>27, <1>k, <1>r DEF ResetRetries, disk
<1>28. CASE DamageCopy
  <2>1. UNCHANGED <<mem, status, fate, op>> /\ Slack' = Slack
    BY <1>28, SlackChange DEF DamageCopy, volatile
  <2>2. Dropped' = Dropped /\ Attached' = Attached
    BY <2>1, DropNone DEF Attached
  <2>3. /\ Valid(primary)' => primary' = primary /\ Valid(primary)
        /\ Valid(backup)' => backup' = backup /\ Valid(backup)
        /\ ~(primary'.is = "missing" /\ backup'.is = "missing")
    BY <1>28 DEF DamageCopy, Unread, Valid
  <2> QED
    BY <2>1, <2>2, <2>3 DEF CountInv, Near, Unsettled, Uncounted
<1>29. CASE DamageFile
  <2>1. UNCHANGED <<primary, backup, mem, status, fate, op>> /\ Slack' = Slack
    BY <1>29, SlackChange DEF DamageFile, volatile
  <2>2. Dropped' = Dropped /\ Attached' = Attached
    BY <2>1, DropNone DEF Attached
  <2> QED
    BY <2>1, <2>2 DEF CountInv, Near, Unsettled, Uncounted, Valid
<1>30. CASE UNCHANGED vars
  <2>1. UNCHANGED <<primary, backup, mem, status, fate, op, budget>>
    BY <1>30 DEF vars
  <2>2. Dropped' = Dropped /\ Attached' = Attached /\ Slack' = Slack
    BY <2>1, SameDrops DEF Attached
  <2> QED
    BY <2>1, <2>2 DEF CountInv, Near, Unsettled, Uncounted, Valid
<1> QED
  BY <1>1, <1>2, <1>3, <1>4, <1>5, <1>6, <1>7, <1>8, <1>9, <1>10, <1>11, <1>12,
     <1>13, <1>14, <1>15, <1>16, <1>17, <1>18, <1>19, <1>20, <1>21, <1>22, <1>23,
     <1>24, <1>25, <1>26, <1>27, <1>28, <1>29, <1>30
  DEF Next, Step, Write, Settle, GetStats

\* queue_dropped_total counts every dropped batch at most once and no other, and
\* misses at most one per crash or failing write.
THEOREM DropsCounted == Spec => []DropCountBounds
<1>1. Init => FateInv /\ CountInv
  <2> SUFFICES ASSUME Init PROVE FateInv /\ CountInv
    OBVIOUS
  <2>1. FateInv
    BY OpFields DEF Init, FateInv
  <2>2. {b \in Batches : fate[b] = "dropped"} = {}
    BY DEF Init
  <2>3. Dropped = 0
    BY <2>2, FS_EmptySet DEF Dropped
  <2>4. CountInv
    BY <2>3, OpFields, CountFields DEF Init, CountInv, Valid, Unread, Attached
  <2> QED
    BY <2>1, <2>4
<1>2. TypeOK /\ CountInv => DropCountBounds
  <2> SUFFICES ASSUME TypeOK, CountInv, Recoverable
               PROVE  /\ Recovered.dropped <= Dropped
                      /\ Dropped <= Recovered.dropped + budget.crashes + budget.faults
                                      + Unsettled
    BY DEF DropCountBounds, Unsettled
  <2>1. \/ Valid(primary) /\ Recovered.dropped = primary.dropped
        \/ Valid(backup) /\ Recovered.dropped = backup.dropped
    BY CountFields DEF Recoverable, Recovered
  <2>2. Near(Recovered.dropped, Slack + Unsettled) /\ Recovered.dropped \in Nat
    BY <2>1, CountTyping DEF CountInv
  <2>3. budget.crashes \in Nat /\ budget.faults \in Nat
    BY DEF TypeOK, Budget
  <2> QED
    BY <2>2, <2>3, CountTyping DEF Near, Slack
<1> QED
  BY <1>1, <1>2, FateStep, CountStep, CopiesCorrect, TypeCorrect, PTL DEF Spec

(***************************************************************************)
(* First in, first out                                                     *)
(***************************************************************************)

\* A batch that is being uploaded was queued, so that no enqueue under way can
\* bring it back as a young one.
OldestInv ==
    /\ upload # NoBatch => fate[upload] # "unused"
    /\ InFlightIsOldest

\* How the uploaded batch and the files of a step hang together: an upload is the
\* oldest readable file, or there was one before and no batch is new to it.
LEMMA FilesChange ==
  ASSUME TypeOK, [Next]_vars
  PROVE  \/ /\ upload' \in {upload, NoBatch}
            /\ \/ files' = files
               \/ \E b \in DOMAIN files : files' = [x \in DOMAIN files \ {b} |-> files[x]]
         \/ /\ upload' = upload
            /\ Tick \/ DamageFile \/ \E o \in Outcomes : StoreBatch(o)
         \/ StartUpload
<1>r. \A o, b, what : Remove(o, b, what) =>
        files' = files \/ files' = [x \in DOMAIN files \ {b} |-> files[x]]
  BY DEF Remove
<1>e. Throw \/ Finish \/ Stay => upload' = upload
  BY DEF Throw, Finish, Stay
<1>1. CASE Start \/ Crash \/ LoadRefused \/ ResetRetries \/ DamageCopy \/ UNCHANGED vars
  BY <1>1 DEF Start, Crash, LoadRefused, ResetRetries, DamageCopy, vars, disk, volatile
<1>2. ASSUME NEW o \in Outcomes, WriteBackup(o) \/ WritePrimary(o)
      PROVE  files' = files /\ upload' = upload
  <2>1. CASE WriteBackup(o)
    BY <2>1, <1>e DEF WriteBackup
  <2>2. CASE WritePrimary(o)
    <3>1. Throw \/ Stay \/ Finish
      <4>1. CASE o # "done"
        BY <2>2, <4>1 DEF WritePrimary
      <4>2. CASE o = "done" /\ op.name \in Counting
        BY <2>2, <4>2 DEF WritePrimary
      <4>3. CASE o = "done" /\ op.name \notin Counting
        BY <2>2, <4>3 DEF WritePrimary
      <4> QED
        BY <4>1, <4>2, <4>3
    <3> QED
      BY <2>2, <3>1, <1>e DEF WritePrimary
  <2> QED
    BY <1>2, <2>1, <2>2
<1>3. ASSUME NEW o \in Outcomes,
             PurgeOne(o) \/ EvictOldest(o) \/ DropCorrupt(o) \/ ClearOne(o)
      PROVE  /\ upload' = upload
             /\ \/ files' = files
                \/ \E b \in DOMAIN files : files' = [x \in DOMAIN files \ {b} |-> files[x]]
  <2>1. \E b \in DOMAIN files : \E what : Remove(o, b, what)
    BY <1>3 DEF PurgeOne, EvictOldest, DropCorrupt, ClearOne, Oldest
  <2>2. upload' = upload
    BY <1>3, <1>e DEF PurgeOne, EvictOldest, DropCorrupt, ClearOne
  <2> QED
    BY <2>1, <2>2, <1>r
<1>4. ASSUME NEW o \in Outcomes, StoreBatch(o)
      PROVE  upload' = upload
  BY <1>4, <1>e DEF StoreBatch
<1>5. CASE LoadFresh \/ LoadSelect \/ EndSize \/ EndScan \/ ClearState
  BY <1>5, <1>e DEF LoadFresh, LoadSelect, EndSize, EndScan, ClearState, disk, volatile
<1>6. CASE Settle
  <2>1. upload' = NoBatch
    BY <1>6 DEF Settle, Acknowledged, Poisoned, Gone, Conflict, Unauthorized, Retry,
                EndDrain
  <2>2. \/ files' = files
        \/ \E o, what : upload \in DOMAIN files /\ Remove(o, upload, what)
    BY <1>6 DEF Settle, Acknowledged, Poisoned, Gone, Conflict, Unauthorized, Retry, disk
  <2> QED
    BY <2>1, <2>2, <1>r
<1>7. CASE \/ GetStats \/ BeginScan("peek") \/ BeginUnhalt \/ BeginClear \/ BeginDrain
           \/ \E b \in Batches, size \in Sizes : BeginEnqueue(b, size)
  BY <1>7 DEF GetStats, BeginScan, BeginUnhalt, BeginClear, BeginDrain, BeginEnqueue,
              Begin, disk
<1>8. CASE Tick \/ DamageFile
  BY <1>8 DEF Tick, DamageFile, volatile
<1> QED
  BY <1>1, <1>2, <1>3, <1>4, <1>5, <1>6, <1>7, <1>8
  DEF Next, Step, Write

\* Nothing that is enqueued, purged, cleared or damaged, and no time that passes,
\* makes a readable batch older than the one in flight.
LEMMA OldestStep ==
  TypeOK /\ TypeOK' /\ FateInv /\ OldestInv /\ [Next]_vars => OldestInv'
<1> SUFFICES ASSUME TypeOK, TypeOK', FateInv, OldestInv, [Next]_vars PROVE OldestInv'
  OBVIOUS
<1>t. /\ DOMAIN files \subseteq Batches /\ \A b \in DOMAIN files : files[b] \in File
      /\ fate \in [Batches -> Fates] /\ upload \in Batches \cup {NoBatch}
      /\ NoBatch \notin Batches /\ MaxRetention \in Nat
  BY QueueAssumption DEF TypeOK
<1>a. \A b \in DOMAIN files : files[b].age \in Nat
  BY <1>t DEF File
<1>f. \A b \in Batches : fate[b] # "unused" => fate'[b] # "unused"
  <2>1. CASE fate' = fate
    BY <2>1
  <2>2. CASE \E o \in Outcomes, b \in DOMAIN files, what \in {"acked", "dropped", "cleared"} :
               Remove(o, b, what)
    BY <2>2, <1>t DEF Remove
  <2>3. CASE \E o \in Outcomes : StoreBatch(o)
    BY <2>3, <1>t DEF StoreBatch
  <2> QED
    BY <2>1, <2>2, <2>3, FateChange
<1>u. upload' # NoBatch => fate'[upload'] # "unused"
  <2>1. CASE upload' \in {upload, NoBatch}
    BY <2>1, <1>f, <1>t DEF OldestInv
  <2>2. CASE StartUpload
    <3>1. upload' \in DOMAIN files /\ fate' = fate
      BY <2>2 DEF StartUpload, Oldest
    <3> QED
      BY <3>1, <1>t DEF FateInv
  <2> QED
    BY <2>1, <2>2, FilesChange
<1>1. CASE /\ upload' \in {upload, NoBatch}
           /\ \/ files' = files
              \/ \E b \in DOMAIN files : files' = [x \in DOMAIN files \ {b} |-> files[x]]
  <2>1. DOMAIN files' \subseteq DOMAIN files /\ \A x \in DOMAIN files' : files'[x] = files[x]
    BY <1>1
  <2>2. InFlightIsOldest'
    BY <1>1, <1>t, <2>1 DEF OldestInv, InFlightIsOldest
  <2> QED
    BY <2>2, <1>u DEF OldestInv
<1>2. CASE upload' = upload /\ Tick
  <2>1. /\ DOMAIN files' = DOMAIN files
        /\ \A b \in DOMAIN files : /\ files'[b].ok = files[b].ok
                                   /\ files'[b].age = Smaller(files[b].age + 1, MaxRetention + 1)
    BY <1>2, <1>t DEF Tick, File
  <2>2. \A m, n \in Nat : m <= n => Smaller(m + 1, MaxRetention + 1) <= Smaller(n + 1, MaxRetention + 1)
    BY <1>t DEF Smaller
  <2>3. InFlightIsOldest'
    BY <1>2, <1>a, <2>1, <2>2 DEF OldestInv, InFlightIsOldest
  <2> QED
    BY <2>3, <1>u DEF OldestInv
<1>3. CASE upload' = upload /\ DamageFile
  <2>1. PICK b \in DOMAIN files : files' = [files EXCEPT ![b].ok = FALSE]
    BY <1>3 DEF DamageFile
  <2>2. /\ DOMAIN files' = DOMAIN files
        /\ \A x \in DOMAIN files : /\ files'[x].age = files[x].age
                                   /\ files'[x].ok => files[x].ok
    BY <2>1, <1>t DEF File
  <2>3. InFlightIsOldest'
    BY <1>3, <2>2 DEF OldestInv, InFlightIsOldest
  <2> QED
    BY <2>3, <1>u DEF OldestInv
<1>4. ASSUME upload' = upload, NEW o \in Outcomes, StoreBatch(o) PROVE OldestInv'
  <2>1. CASE files' = files
    <3>1. InFlightIsOldest'
      BY <1>4, <2>1 DEF OldestInv, InFlightIsOldest
    <3> QED
      BY <3>1, <1>u DEF OldestInv
  <2>2. CASE files' # files
    <3>1. /\ DOMAIN files' = DOMAIN files \cup {op.batch}
          /\ files'[op.batch].age = 0
          /\ \A x \in DOMAIN files \ {op.batch} : files'[x] = files[x]
      BY <1>4, <2>2 DEF StoreBatch
    <3>2. op.name = "enqueue" /\ op.batch \in Batches /\ fate[op.batch] = "unused"
      BY <1>4 DEF StoreBatch, Purged, TypeOK, Operation, FateInv
    <3>3. op.batch \notin DOMAIN files /\ upload # op.batch
      BY <3>2, <1>t DEF FateInv, OldestInv
    <3>4. InFlightIsOldest'
      <4> SUFFICES ASSUME upload \in DOMAIN files', NEW b \in DOMAIN files', files'[b].ok
                   PROVE  files'[b].age <= files'[upload].age
        BY <1>4 DEF InFlightIsOldest
      <4>1. upload \in DOMAIN files /\ files'[upload] = files[upload]
        BY <3>1, <3>3
      <4>2. CASE b = op.batch
        BY <3>1, <4>1, <4>2, <1>a
      <4>3. CASE b # op.batch
        BY <3>1, <4>1, <4>3 DEF OldestInv, InFlightIsOldest
      <4> QED
        BY <4>2, <4>3
    <3> QED
      BY <3>4, <1>u DEF OldestInv
  <2> QED
    BY <2>1, <2>2
<1>5. CASE StartUpload
  <2>1. upload' \in Oldest /\ files' = files
    BY <1>5 DEF StartUpload, disk
  <2>2. \A x \in DOMAIN files \ {upload'} :
          files[upload'].age > files[x].age \/ files[upload'].age = files[x].age
    BY <2>1 DEF Oldest, Older
  <2>3. InFlightIsOldest'
    BY <2>1, <2>2, <1>a DEF InFlightIsOldest, Oldest
  <2> QED
    BY <2>3, <1>u DEF OldestInv
<1> QED
  BY <1>1, <1>2, <1>3, <1>4, <1>5, FilesChange

\* First in, first out: what is uploaded is the oldest readable batch for as long
\* as the upload lasts.
THEOREM UploadsInOrder == Spec => []InFlightIsOldest
<1>1. Init => FateInv /\ OldestInv
  BY OpFields DEF Init, FateInv, OldestInv, InFlightIsOldest
<1>2. OldestInv => InFlightIsOldest
  BY DEF OldestInv
<1> QED
  BY <1>1, <1>2, FateStep, OldestStep, TypeCorrect, PTL DEF Spec
=============================================================================
