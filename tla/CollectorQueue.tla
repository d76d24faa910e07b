--------------------------- MODULE CollectorQueue ---------------------------
(***************************************************************************)
(* The collector's durable batch queue (src/collector/queue.ts): one file  *)
(* per batch plus two copies of the queue state, state.json (primary) and  *)
(* state.backup.json (backup).                                             *)
(*                                                                         *)
(* JavaScript runs a queue operation to completion unless it awaits, and   *)
(* the only await is the upload of drainStep.  The process can die between *)
(* any two durable writes though, and each write can fail, so the step of  *)
(* this model is one durable write: `op' is the operation whose writes are *)
(* under way, and no other operation starts until it ends.  The temporary  *)
(* file of writeAtomic is not modelled: rename makes a write appear whole  *)
(* or not at all.  Time is relative: a batch has an age, the next drain a  *)
(* waiting time.                                                           *)
(***************************************************************************)
EXTENDS Integers, FiniteSets, FiniteSetsExt

CONSTANTS
    Batches,           \* batch ids; their order stands for that of the UUIDs
    Sizes,             \* sizes of a batch file
    MaxBatches, MaxTotalBytes, MaxRetention,
    MinDrainInterval, MinBackoff, MaxBackoff, AuthBackoff,
    RetryAfters,       \* the Retry-After values a hub sends (0: none)
    MaxRetries,        \* bound: consecutiveRetries is not counted further
    MaxCrashes, MaxFaults, MaxDamage, MaxOrders
                       \* bounds: crashes, failing writes, damaged files and
                       \* orders of the operator

NoBatch == 0

ASSUME QueueAssumption ==
    /\ Batches \subseteq Nat \ {NoBatch} /\ IsFiniteSet(Batches)
    /\ Sizes \subseteq Nat \ {0} /\ RetryAfters \subseteq Nat
    /\ {MaxBatches, MaxTotalBytes, MaxRetention, MinDrainInterval, MinBackoff,
        MaxBackoff, AuthBackoff, MaxRetries} \subseteq Nat \ {0}
    /\ MinBackoff <= MaxBackoff
    /\ {MaxCrashes, MaxFaults, MaxDamage, MaxOrders} \subseteq Nat

VARIABLES
    primary, backup,   \* the two state copies on disk
    files,             \* the batch files on disk: id -> [age, size, ok]
    status,            \* "down", "loading", "running" or "repair"
    mem,               \* the state in memory, with its generation
    op,                \* the operation whose durable writes are under way
    inFlight, upload,  \* drainStep's latch and the batch it is uploading
    retries, wait,     \* consecutiveRetries, nextDrainAllowedAt - clock()
    fate,              \* history: what became of every batch id
    haltOwed,          \* history: a conflict halt was reported, no order since
    budget             \* crashes, faults, damage and orders so far; ruined:
                       \* the only readable state copy was damaged

disk == <<primary, backup, files>>
volatile == <<mem, inFlight, upload, retries, wait>>
vars == <<primary, backup, files, status, mem, op, inFlight, upload, retries,
          wait, fate, haltOwed, budget>>

State == [gen : Nat, dropped : Nat, halted : BOOLEAN]
Copy == [is : {"missing", "damaged", "valid"},
         gen : Nat, dropped : Nat, halted : BOOLEAN]
File == [age : 0 .. MaxRetention + 1, size : Sizes, ok : BOOLEAN]

Fresh == [gen |-> 0, dropped |-> 0, halted |-> FALSE]
Unread(what) == [is |-> what, gen |-> 0, dropped |-> 0, halted |-> FALSE]
Encoded(s) ==
    [is |-> "valid", gen |-> s.gen, dropped |-> s.dropped, halted |-> s.halted]
Decoded(c) == [gen |-> c.gen, dropped |-> c.dropped, halted |-> c.halted]
Valid(c) == c.is = "valid"

\* Mutants: persist under the old generation; forget the rest of the state.
CountDropSameGeneration(s) == [s EXCEPT !.dropped = @ + 1]
CountDropOnly(s) == [s EXCEPT !.gen = @ + 1, !.dropped = @ + 1, !.halted = FALSE]
\* The drop count and the halt flag of `s' under the next generation.
CountDrop(s) == [s EXCEPT !.gen = @ + 1, !.dropped = @ + 1]
SetHalted(s, h) == [s EXCEPT !.gen = @ + 1, !.halted = h]

Idle == [name |-> "none", phase |-> "body", next |-> Fresh,
         batch |-> NoBatch, size |-> 0]
Op(name, b, size) == [Idle EXCEPT !.name = name, !.batch = b, !.size = size]
Counting == {"enqueue", "size", "peek", "drain"}
Draining == {"drain", "poison", "halt"}
Names == Counting \cup Draining \cup {"none", "load", "unhalt", "clear"}
Operation ==
    {o \in [name : Names, phase : {"body", "backup", "primary"}, next : State,
            batch : Batches \cup {NoBatch}, size : Sizes \cup {0}] :
       o.name = "enqueue" => o.batch \in Batches /\ o.size \in Sizes}
Budget == [crashes : Nat, faults : Nat, damage : Nat, orders : Nat,
           ruined : BOOLEAN]
Fates == {"unused", "queued", "acked", "dropped", "cleared"}

TypeOK ==
    /\ primary \in Copy /\ backup \in Copy
    /\ DOMAIN files \subseteq Batches
    /\ \A b \in DOMAIN files : files[b] \in File
    /\ status \in {"down", "loading", "running", "repair"}
    /\ mem \in State
    /\ op \in Operation
    /\ inFlight \in BOOLEAN /\ upload \in Batches \cup {NoBatch}
    /\ retries \in 0 .. MaxRetries /\ wait \in Nat
    /\ fate \in [Batches -> Fates] /\ haltOwed \in BOOLEAN
    /\ budget \in Budget

Init ==
    /\ primary = Unread("missing") /\ backup = Unread("missing")
    /\ files = [b \in {} |-> 0]
    /\ status = "down" /\ mem = Fresh /\ op = Idle
    /\ inFlight = FALSE /\ upload = NoBatch /\ retries = 0 /\ wait = 0
    /\ fate = [b \in Batches |-> "unused"] /\ haltOwed = FALSE
    /\ budget = [crashes |-> 0, faults |-> 0, damage |-> 0, orders |-> 0,
                 ruined |-> FALSE]

(***************************************************************************)
(* Helpers over the batch files                                            *)
(***************************************************************************)
OlderById(a, b) == a < b      \* Mutant: the order of the ids alone
Older(a, b) ==
    \/ files[a].age > files[b].age
    \/ files[a].age = files[b].age /\ a < b
Oldest == {b \in DOMAIN files : \A x \in DOMAIN files \ {b} : Older(b, x)}
\* Mutant: a halted queue is not purged.
ExpiredUnlessHalted ==
    {b \in DOMAIN files : files[b].age > MaxRetention /\ ~mem.halted}
Expired == {b \in DOMAIN files : files[b].age > MaxRetention}
TotalBytes == MapThenSumSet(LAMBDA b : files[b].size, DOMAIN files)
\* Mutant: the new batch is not counted.
OverLimitOffByOne(size) ==
    Cardinality(DOMAIN files) > MaxBatches \/ TotalBytes > MaxTotalBytes
OverLimit(size) ==
    \/ Cardinality(DOMAIN files) + 1 > MaxBatches
    \/ TotalBytes + size > MaxTotalBytes

(***************************************************************************)
(* Durable writes.  A write is done, or it throws: "failed" left the disk  *)
(* as it was, "late" changed it and then failed to sync the directory.     *)
(***************************************************************************)
Outcome(o) ==
    /\ o \in {"done", "failed", "late"}
    /\ o # "done" => budget.faults < MaxFaults
    /\ budget' = IF o = "done" THEN budget ELSE [budget EXCEPT !.faults = @ + 1]

\* An exception leaves the operation; drainStep's `finally' drops the latch,
\* and a constructor that throws leaves no queue.
Throw ==
    /\ op' = Idle
    /\ status' = IF op.name = "load" THEN "down" ELSE status
    /\ inFlight' = (inFlight /\ op.name \notin Draining)
    /\ UNCHANGED upload

Finish ==
    /\ op' = Idle
    /\ status' = "running"
    /\ inFlight' = (inFlight /\ op.name \notin Draining)
    /\ UNCHANGED upload

Stay == UNCHANGED <<status, inFlight, upload>>

Remove(o, b, what) ==
    IF o = "failed" THEN UNCHANGED <<files, fate>>
    ELSE /\ files' = [x \in DOMAIN files \ {b} |-> files[x]]
         /\ fate' = [fate EXCEPT ![b] = what]

Persist(s) == op' = [op EXCEPT !.phase = "backup", !.next = s]

\* persistState, first write; memory takes the new state once it is durable.
WriteBackup(o) ==
    /\ op.phase = "backup" /\ Outcome(o)
    /\ backup' = IF o = "failed" THEN backup ELSE Encoded(op.next)
    /\ IF o = "done"
       THEN mem' = op.next /\ op' = [op EXCEPT !.phase = "primary"] /\ Stay
       ELSE Throw /\ UNCHANGED mem
    /\ UNCHANGED <<primary, files, retries, wait, fate, haltOwed>>

\* persistState, second write, and what its caller does next: a purge, an
\* eviction or a scan goes on, the other operations end.
WritePrimary(o) ==
    /\ op.phase = "primary" /\ Outcome(o)
    /\ primary' = IF o = "failed" THEN primary ELSE Encoded(mem)
    /\ CASE o # "done" -> Throw /\ UNCHANGED <<retries, wait, haltOwed>>
         [] o = "done" /\ op.name \in Counting ->
              /\ op' = [op EXCEPT !.phase = "body", !.next = Fresh]
              /\ Stay /\ UNCHANGED <<retries, wait, haltOwed>>
         [] OTHER ->
              /\ Finish
              /\ haltOwed' = (haltOwed \/ op.name = "halt")
              /\ retries' = IF op.name \in {"poison", "clear"} THEN 0 ELSE retries
              /\ wait' = CASE op.name = "poison" -> MinDrainInterval
                           [] op.name = "clear" -> 0
                           [] OTHER -> wait
    /\ UNCHANGED <<backup, files, mem, fate>>

(***************************************************************************)
(* Start-up: the constructor, run by every start of the collector          *)
(***************************************************************************)
Start ==
    /\ status = "down"
    /\ status' = "loading" /\ op' = Op("load", NoBatch, 0) /\ mem' = Fresh
    /\ UNCHANGED <<disk, inFlight, upload, retries, wait, fate, haltOwed, budget>>

Loading == op.name = "load" /\ op.phase = "body"

LoadFresh ==
    /\ Loading /\ primary.is = "missing" /\ backup.is = "missing"
    /\ Persist([Fresh EXCEPT !.gen = 1])
    /\ UNCHANGED <<disk, volatile, status, fate, haltOwed, budget>>

\* The valid copy of the highest generation, unless the other copy is valid
\* too and differs under the same generation.
Readable == {c \in {primary, backup} : Valid(c)}
Recoverable ==
    /\ Valid(primary) \/ Valid(backup)
    /\ Valid(primary) /\ Valid(backup) /\ primary.gen = backup.gen
         => primary = backup
Recovered ==
    Decoded(IF Valid(primary) /\ (Valid(backup) => backup.gen <= primary.gen)
            THEN primary ELSE backup)

\* Mutant: the primary copy is trusted whenever it is readable.
LoadPrimary ==
    /\ Loading /\ Recoverable
    /\ LET state == IF Valid(primary) THEN Decoded(primary) ELSE Recovered IN
         /\ mem' = state
         /\ IF primary = backup THEN Finish ELSE Persist(state) /\ Stay
    /\ UNCHANGED <<disk, retries, wait, fate, haltOwed, budget>>

\* loadState adopts the newest copy, and rewrites both when they differ.
LoadSelect ==
    /\ Loading /\ Recoverable
    /\ mem' = Recovered
    /\ IF primary = backup
       THEN Finish
       ELSE Persist(Recovered) /\ Stay
    /\ UNCHANGED <<disk, retries, wait, fate, haltOwed, budget>>

\* STATE_REPAIR_REQUIRED: an operator has to repair the directory.
LoadRefused ==
    /\ Loading /\ ~Recoverable
    /\ ~(primary.is = "missing" /\ backup.is = "missing")
    /\ status' = "repair" /\ op' = Idle
    /\ UNCHANGED <<disk, volatile, fate, haltOwed, budget>>

Crash ==
    /\ status \in {"loading", "running"} /\ budget.crashes < MaxCrashes
    /\ status' = "down" /\ op' = Idle
    /\ mem' = Fresh /\ inFlight' = FALSE /\ upload' = NoBatch
    /\ retries' = 0 /\ wait' = 0
    /\ budget' = [budget EXCEPT !.crashes = @ + 1]
    /\ UNCHANGED <<disk, fate, haltOwed>>

(***************************************************************************)
(* Operations.  Each begins when no other one is running.                  *)
(***************************************************************************)
Ready == status = "running" /\ op = Idle

Begin(o) ==
    /\ Ready /\ op' = o
    /\ UNCHANGED <<disk, status, mem, retries, wait, fate>>

BeginEnqueue(b, size) ==
    /\ fate[b] = "unused" /\ size <= MaxTotalBytes
    /\ Begin(Op("enqueue", b, size))
    /\ UNCHANGED <<inFlight, upload, haltOwed, budget>>

BeginScan(name) ==       \* size, totalBytes and getStats; peek
    /\ name \in {"size", "peek"}
    /\ Begin(Op(name, NoBatch, 0))
    /\ UNCHANGED <<inFlight, upload, haltOwed, budget>>

\* Mutant: the halt flag is not read.
BeginDrainHalted ==
    /\ ~inFlight /\ wait = 0
    /\ Begin(Op("drain", NoBatch, 0))
    /\ inFlight' = TRUE
    /\ UNCHANGED <<upload, haltOwed, budget>>

BeginDrain ==
    /\ ~mem.halted /\ ~inFlight /\ wait = 0
    /\ Begin(Op("drain", NoBatch, 0))
    /\ inFlight' = TRUE
    /\ UNCHANGED <<upload, haltOwed, budget>>

\* The operator's orders; unhalt persists at once.
Order == budget' = [budget EXCEPT !.orders = @ + 1] /\ budget.orders < MaxOrders

BeginUnhalt ==
    /\ Begin([Op("unhalt", NoBatch, 0) EXCEPT
                  !.phase = "backup", !.next = SetHalted(mem, FALSE)])
    /\ haltOwed' = FALSE /\ Order
    /\ UNCHANGED <<inFlight, upload>>

BeginClear ==
    /\ Begin(Op("clear", NoBatch, 0))
    /\ haltOwed' = FALSE /\ Order
    /\ UNCHANGED <<inFlight, upload>>

ResetRetries ==
    /\ Ready /\ retries' = 0 /\ wait' = 0 /\ Order
    /\ UNCHANGED <<disk, status, mem, op, inFlight, upload, fate, haltOwed>>

\* purgeExpiredBatches runs first in every counting operation.
PurgeOne(o) ==
    /\ op.name \in Counting /\ op.phase = "body" /\ Outcome(o)
    /\ \E b \in Expired \cap Oldest : Remove(o, b, "dropped")
    /\ IF o = "done" THEN Persist(CountDrop(mem)) /\ Stay ELSE Throw
    /\ UNCHANGED <<primary, backup, mem, retries, wait, haltOwed>>

Purged(names) == op.name \in names /\ op.phase = "body" /\ Expired = {}

\* Mutant: the drop is counted although the unlink failed.
EvictCountsFailure(o) ==
    /\ Purged({"enqueue"}) /\ OverLimit(op.size)
    /\ Outcome(o) /\ \E b \in Oldest : Remove(o, b, "dropped")
    /\ Persist(CountDrop(mem)) /\ Stay
    /\ UNCHANGED <<primary, backup, mem, retries, wait, haltOwed>>

EvictOldest(o) ==
    /\ Purged({"enqueue"}) /\ OverLimit(op.size)
    /\ Outcome(o) /\ \E b \in Oldest : Remove(o, b, "dropped")
    /\ IF o = "done" THEN Persist(CountDrop(mem)) /\ Stay ELSE Throw
    /\ UNCHANGED <<primary, backup, mem, retries, wait, haltOwed>>

StoreBatch(o) ==
    /\ Purged({"enqueue"}) /\ ~OverLimit(op.size) /\ Outcome(o)
    /\ IF o = "failed" THEN UNCHANGED <<files, fate>>
       ELSE /\ files' = [x \in DOMAIN files \cup {op.batch} |->
                           IF x = op.batch
                           THEN [age |-> 0, size |-> op.size, ok |-> TRUE]
                           ELSE files[x]]
            /\ fate' = [fate EXCEPT ![op.batch] = "queued"]
    /\ IF o = "done" THEN Finish ELSE Throw
    /\ UNCHANGED <<primary, backup, mem, retries, wait, haltOwed>>

EndSize ==
    /\ Purged({"size"}) /\ Finish
    /\ UNCHANGED <<disk, mem, retries, wait, fate, haltOwed, budget>>

\* readBatchFile drops a batch whose file is damaged.
DropCorrupt(o) ==
    /\ Purged({"peek", "drain"}) /\ Outcome(o)
    /\ \E b \in Oldest : ~files[b].ok /\ Remove(o, b, "dropped")
    /\ IF o = "done" THEN Persist(CountDrop(mem)) /\ Stay ELSE Throw
    /\ UNCHANGED <<primary, backup, mem, retries, wait, haltOwed>>

\* peek returns the first readable batch, drainStep uploads it; an empty
\* queue ends both.
EndScan ==
    /\ Purged({"peek", "drain"})
    /\ \A b \in Oldest : op.name = "peek" /\ files[b].ok
    /\ Finish
    /\ UNCHANGED <<disk, mem, retries, wait, fate, haltOwed, budget>>

StartUpload ==
    /\ Purged({"drain"})
    /\ \E b \in Oldest : files[b].ok /\ upload' = b
    /\ op' = Idle
    /\ UNCHANGED <<disk, mem, status, inFlight, retries, wait, fate, haltOwed,
                   budget>>

(***************************************************************************)
(* The upload settles.  By then other operations may have purged, evicted  *)
(* or cleared the batch: its unlink then fails and drainStep throws.       *)
(***************************************************************************)
Uploading == Ready /\ upload # NoBatch
EndDrain == upload' = NoBatch /\ inFlight' = FALSE /\ op' = Idle

Gone ==                 \* accepted, duplicate or poison
    /\ Uploading /\ upload \notin DOMAIN files /\ EndDrain
    /\ UNCHANGED <<disk, status, mem, retries, wait, fate, haltOwed, budget>>

Acknowledged(o) ==      \* accepted or duplicate
    /\ Uploading /\ upload \in DOMAIN files /\ Outcome(o) /\ EndDrain
    /\ Remove(o, upload, "acked")
    /\ IF o = "done" THEN retries' = 0 /\ wait' = MinDrainInterval
                     ELSE UNCHANGED <<retries, wait>>
    /\ UNCHANGED <<primary, backup, status, mem, haltOwed>>

Poisoned(o) ==
    /\ Uploading /\ upload \in DOMAIN files /\ Outcome(o)
    /\ Remove(o, upload, "dropped")
    /\ upload' = NoBatch /\ inFlight' = (o = "done")
    /\ op' = IF o = "done"
             THEN [Op("poison", upload, 0) EXCEPT
                      !.phase = "backup", !.next = CountDrop(mem)]
             ELSE Idle
    /\ UNCHANGED <<primary, backup, status, mem, retries, wait, haltOwed>>

Conflict ==
    /\ Uploading /\ upload' = NoBatch
    /\ op' = [Op("halt", upload, 0) EXCEPT
                 !.phase = "backup", !.next = SetHalted(mem, TRUE)]
    /\ UNCHANGED <<disk, status, mem, inFlight, retries, wait, fate, haltOwed,
                   budget>>

Unauthorized ==
    /\ Uploading /\ EndDrain /\ wait' = AuthBackoff
    /\ UNCHANGED <<disk, status, mem, retries, fate, haltOwed, budget>>

Larger(a, b) == IF a > b THEN a ELSE b
Smaller(a, b) == IF a < b THEN a ELSE b

\* The delay after a failure: full jitter over a base that doubles with each
\* failure, never below the floor or the hub's Retry-After, never above the
\* ceiling.
Backoff(jitter, retryAfter) ==
    Smaller(MaxBackoff, Larger(Larger(MinBackoff, jitter), retryAfter))
BaseDelay(n) == Smaller(MaxBackoff, MinBackoff * 2 ^ Smaller(n - 1, 30))

Retry ==                \* the uploader threw, or asked for a retry
    /\ Uploading /\ EndDrain
    /\ retries' = Smaller(retries + 1, MaxRetries)
    /\ \E jitter \in 0 .. BaseDelay(retries + 1), after \in RetryAfters :
         wait' = Backoff(jitter, after)
    /\ UNCHANGED <<disk, status, mem, fate, haltOwed, budget>>

\* clear unlinks every batch and then persists the kept drop count.
ClearOne(o) ==
    /\ op.name = "clear" /\ op.phase = "body" /\ Outcome(o)
    /\ \E b \in Oldest : Remove(o, b, "cleared")
    /\ IF o = "done" THEN UNCHANGED op /\ Stay ELSE Throw
    /\ UNCHANGED <<primary, backup, mem, retries, wait, haltOwed>>

ClearState ==
    /\ op.name = "clear" /\ op.phase = "body" /\ DOMAIN files = {}
    /\ Persist(SetHalted(mem, FALSE))
    /\ UNCHANGED <<disk, volatile, status, fate, haltOwed, budget>>

(***************************************************************************)
(* The environment: time, and damage to a file on disk.                    *)
(***************************************************************************)
Tick ==
    /\ op = Idle
    /\ files' = [b \in DOMAIN files |->
                   [files[b] EXCEPT !.age = Smaller(@ + 1, MaxRetention + 1)]]
    /\ wait' = Larger(wait - 1, 0)
    /\ UNCHANGED <<primary, backup, status, mem, op, inFlight, upload, retries,
                   fate, haltOwed, budget>>

DamageCopy ==
    /\ budget.damage < MaxDamage
    /\ \/ Valid(primary) /\ primary' = Unread("damaged") /\ UNCHANGED backup
       \/ Valid(backup) /\ backup' = Unread("damaged") /\ UNCHANGED primary
    /\ budget' = [budget EXCEPT !.damage = @ + 1,
                     !.ruined = IF Valid(primary) /\ Valid(backup) THEN @ ELSE TRUE]
    /\ UNCHANGED <<files, status, volatile, op, fate, haltOwed>>

DamageFile ==
    /\ budget.damage < MaxDamage
    /\ budget' = [budget EXCEPT !.damage = @ + 1]
    /\ \E b \in DOMAIN files : files' = [files EXCEPT ![b].ok = FALSE]
    /\ UNCHANGED <<primary, backup, status, volatile, op, fate, haltOwed>>

Outcomes == {"done", "failed", "late"}

\* The writes of the operation under way.
Write == \E o \in Outcomes :
    \/ WriteBackup(o)
    \/ WritePrimary(o)
    \/ PurgeOne(o)
    \/ EvictOldest(o)
    \/ StoreBatch(o)
    \/ DropCorrupt(o)
    \/ ClearOne(o)

Step == Write \/ LoadFresh \/ LoadSelect \/ LoadRefused \/ EndSize \/ EndScan
              \/ StartUpload \/ ClearState

Settle ==
    \/ \E o \in Outcomes : Acknowledged(o) \/ Poisoned(o)
    \/ Gone \/ Conflict \/ Unauthorized \/ Retry

GetStats == BeginScan("size")

Next ==
    \/ Start \/ Crash \/ Step \/ Settle \/ Tick
    \/ \E b \in Batches, size \in Sizes : BeginEnqueue(b, size)
    \/ GetStats \/ BeginScan("peek")
    \/ BeginDrain \/ BeginUnhalt \/ BeginClear \/ ResetRetries
    \/ DamageCopy \/ DamageFile

Spec == Init /\ [][Next]_vars

(***************************************************************************)
(* Fairness: an operation runs to completion, the supervisor restarts the  *)
(* collector, an upload has a total timeout, the clock advances, and every *)
(* cycle of the daemon reads the statistics (daemon.ts:167) even when the  *)
(* queue is halted.                                                        *)
(***************************************************************************)
Fairness ==
    /\ WF_vars(Step) /\ WF_vars(Start) /\ WF_vars(Settle)
    /\ SF_vars(Tick) /\ SF_vars(GetStats)

FairSpec == Spec /\ Fairness

(***************************************************************************)
(* Properties                                                              *)
(***************************************************************************)
Dropped == Cardinality({b \in Batches : fate[b] = "dropped"})

\* loadState never finds a state it refuses: not after a crash between the
\* two writes of persistState or of a repair, not after writes that failed or
\* half succeeded, and not when one of two readable copies was damaged.
StateRecoverable ==
  ~budget.ruined =>
    /\ status # "repair"
    /\ Recoverable \/ (primary.is = "missing" /\ backup.is = "missing")

\* The strengthening of the two invariants on the state copies: the backup is
\* never behind the primary, memory is never behind the primary and at most
\* one generation behind the backup, and between the two writes of a persist
\* the backup is the state in memory.
Attached == status = "running" \/ (status = "loading" /\ op.phase # "body")

CopiesInv ==
    /\ Valid(primary) /\ Valid(backup) => primary.gen < backup.gen \/ primary = backup
    /\ \/ status \in {"loading", "running"}
       \/ status \in {"down", "repair"} /\ op = Idle
    /\ status = "loading" <=> op.name = "load"
    /\ op.name = "load" /\ op.phase = "body" => mem = Fresh
    /\ Attached /\ Valid(primary) => primary.gen < mem.gen \/ primary = Encoded(mem)
    /\ Attached /\ Valid(backup) => backup.gen <= mem.gen + 1
    /\ op.phase = "backup" =>
         /\ op.next = mem \/ op.next.gen = mem.gen + 1
         /\ Valid(backup) => backup.gen <= op.next.gen
    /\ op.phase = "primary" /\ Valid(backup) => backup = Encoded(mem)

\* A copy is readable, or nothing was ever written.
ReadableInv ==
  ~budget.ruined =>
    /\ status # "repair"
    /\ \/ Valid(primary) \/ Valid(backup)
       \/ primary.is = "missing" /\ backup.is = "missing"

\* The same for the halt flag: once owed, it is set in every copy, in memory
\* and in the state being persisted, and no order of the operator is running.
HaltInv ==
    /\ haltOwed =>
         /\ primary.is # "missing" /\ \A c \in Readable : c.halted
         /\ Attached => mem.halted
         /\ op.phase = "backup" => op.next.halted
         /\ op.name \notin {"unhalt", "clear"}
    /\ op.name = "halt" =>
         /\ op.phase = "backup" => op.next.halted
         /\ op.phase = "primary" => mem.halted
         /\ op.phase # "body"

\* queue_dropped_total never counts a batch twice or one that is still
\* queued or was acknowledged, and it misses at most one per crash or failed
\* write (the file is unlinked before the count is persisted).
DropCountBounds ==
    Recoverable =>
      /\ Recovered.dropped <= Dropped
      /\ Dropped <= Recovered.dropped + budget.crashes + budget.faults
                      + (IF op.phase = "body" THEN 0 ELSE 1)

\* A conflict halt that drainStep reported stands, in every readable copy,
\* until the operator resumes the queue: no drop counted later, no crash and
\* no damaged copy clears it.
HaltStands ==
    haltOwed => \A c \in Readable : c.halted

\* After a reported conflict no upload starts before the operator's order,
\* across restarts too.
NoUploadAfterConflict ==
    [][haltOwed /\ haltOwed' => upload' \in {upload, NoBatch}]_vars

\* The directory stays within both limits of the configuration.
WithinLimits ==
    Cardinality(DOMAIN files) <= MaxBatches /\ TotalBytes <= MaxTotalBytes

\* First in, first out: what is uploaded is the oldest readable batch for as
\* long as the upload lasts, whatever is enqueued or purged meanwhile.
InFlightIsOldest ==
    upload \in DOMAIN files =>
      \A b \in DOMAIN files : files[b].ok => files[b].age <= files[upload].age

\* The generation that a restart would adopt never goes back, except by
\* damage to a copy: a reader of the statistics never sees an older state.
GenerationsGrow ==
    [][Recoverable /\ budget'.damage = budget.damage
         => Recovered.gen <= Recovered'.gen]_vars

\* The queue serves within its limits, oldest first, and every batch leaves it:
\* by an acknowledgement, a drop, the operator's clear, or because its
\* retention time is over, halted or not.
QueueServes ==
    /\ [](WithinLimits /\ InFlightIsOldest)
    /\ \A b \in Batches : fate[b] = "queued" ~> fate[b] # "queued"
=============================================================================
