--------------------------- MODULE CollectorDaemon ---------------------------
(***************************************************************************)
(* The collector's daemon (src/collector/daemon.ts) over the pages of the  *)
(* session adapter (src/collector/session-adapter.ts).  OMP writes its     *)
(* statistics while a cycle reads them: the rows of a page and the         *)
(* messages of each session are statements of their own.  Awaits race the  *)
(* deadline of the cycle; a drain that loses goes on behind the cycles.    *)
(***************************************************************************)
EXTENDS Integers, FiniteSets, SequencesExt

CONSTANTS
    Sessions,        \* the primary keys of file_offsets: 1 .. n
    PageSize,        \* sessionLimit
    MaxWrites,       \* bound: writes of OMP
    MaxStops         \* bound: calls of stop()

VARIABLES
    source,          \* file_offsets and messages: what a read of each session meets
    cycle,           \* runOnce: where it is, its cursor, page and reports
    uploading,       \* the drain's latch
    halted,          \* the queue's halt flag
    sched,           \* started, the timer's handle and the timers pending
    writes, stops    \* for the bounds

vars == <<source, cycle, uploading, halted, sched, writes, stops>>

\* `capped': too many messages; `corrupt': a row that validation refuses.
Contents == {"absent", "sound", "capped", "corrupt"}
Places == {"off", "queue", "key", "page", "rows", "enqueue", "failed", "drain"}

Idle == [at |-> "off", cursor |-> 0, rows |-> <<>>, page |-> <<>>, more |-> FALSE,
         failure |-> FALSE, reported |-> [s \in Sessions |-> 0], steady |-> {}]

TypeOK ==
    /\ source \in [Sessions -> Contents]
    /\ cycle.at \in Places /\ cycle.reported \in [Sessions -> 0 .. 2]
    /\ cycle.rows \in Seq(Sessions) /\ cycle.page \in Seq(Sessions)
    /\ cycle.steady \subseteq Sessions
    /\ uploading \in BOOLEAN /\ halted \in BOOLEAN
    /\ sched \in [started : BOOLEAN, handle : BOOLEAN, pending : 0 .. 3]

Init ==
    /\ source = [s \in Sessions |-> "sound"]
    /\ cycle = Idle
    /\ uploading = FALSE /\ halted = FALSE
    /\ sched = [started |-> FALSE, handle |-> FALSE, pending |-> 0]
    /\ writes = 0 /\ stops = 0

Present == {s \in Sessions : source[s] # "absent"}

(***************************************************************************)
(* Scheduling                                                              *)
(***************************************************************************)
\* Mutant: an armed timer does not keep another one from being armed.
ScheduleAgain(s) ==
    IF s.started THEN [s EXCEPT !.handle = TRUE, !.pending = @ + 1] ELSE s
ScheduleNext(s) ==
    IF s.started /\ ~s.handle THEN [s EXCEPT !.handle = TRUE, !.pending = @ + 1] ELSE s

Start ==
    /\ ~sched.started
    /\ sched' = ScheduleNext([sched EXCEPT !.started = TRUE])
    /\ UNCHANGED <<source, cycle, uploading, halted, writes, stops>>

\* A cycle ends in any case behind its promise: the next one is scheduled.
EndCycle == cycle' = Idle /\ sched' = ScheduleNext(sched)

Waiting == cycle.at \in {"queue", "key", "enqueue", "failed", "drain"}

\* stop() aborts the cycle and clears the timer it knows.
Stop ==
    /\ sched.started /\ stops < MaxStops
    /\ stops' = stops + 1
    /\ sched' = [started |-> FALSE, handle |-> FALSE,
                 pending |-> sched.pending - (IF sched.handle THEN 1 ELSE 0)]
    /\ cycle' = IF Waiting THEN Idle ELSE cycle
    /\ UNCHANGED <<source, uploading, halted, writes>>

\* A timer that finds a cycle in flight skips its own.
Fire ==
    /\ sched.pending > 0
    /\ LET fired == [sched EXCEPT !.handle = FALSE, !.pending = @ - 1]
       IN  IF cycle.at = "off"
           THEN /\ cycle' = [Idle EXCEPT !.at = "queue", !.steady = Present]
                /\ sched' = fired
           ELSE UNCHANGED cycle /\ sched' = ScheduleNext(fired)
    /\ UNCHANGED <<source, uploading, halted, writes, stops>>

\* Mutant: the loader of the key is awaited without the signal.
DeadlineUnlessKey ==
    /\ Waiting /\ cycle.at # "key" /\ EndCycle
    /\ UNCHANGED <<source, uploading, halted, writes, stops>>
\* The deadline aborts whatever the cycle awaits; the drain goes on.
Deadline ==
    /\ Waiting /\ EndCycle
    /\ UNCHANGED <<source, uploading, halted, writes, stops>>

(***************************************************************************)
(* One cycle                                                               *)
(***************************************************************************)
Go(to) == cycle' = [cycle EXCEPT !.at = to] /\ UNCHANGED sched

OpenQueue ==
    /\ cycle.at = "queue"
    /\ IF halted THEN EndCycle ELSE Go("key")
    /\ UNCHANGED <<source, uploading, halted, writes, stops>>

LoadIdentityKey ==
    /\ cycle.at = "key" /\ Go("page")
    /\ UNCHANGED <<source, uploading, halted, writes, stops>>

\* One row more than the page tells whether there is another one.
After(cursor) == SetToSortSeq({s \in Present : s > cursor}, <)
Page(cursor) == LET all == After(cursor)
                IN  SubSeq(all, 1, IF Len(all) < PageSize THEN Len(all) ELSE PageSize)
HasMore(cursor) == Len(After(cursor)) > PageSize
\* Mutant: the cursor is the row that was read to see whether there are more.
NextCursorAhead(cursor) == After(cursor)[PageSize + 1]
NextCursor(cursor) == Last(Page(cursor))

QueryPage ==
    /\ cycle.at = "page"
    /\ cycle' = [cycle EXCEPT !.at = "rows", !.rows = Page(cycle.cursor), !.page = <<>>,
                              !.more = HasMore(cycle.cursor),
                              !.cursor = IF HasMore(@) THEN NextCursor(@) ELSE @]
    /\ UNCHANGED <<source, uploading, halted, sched, writes, stops>>

Corrupt(s) == source[s] = "corrupt"

\* A page that cannot be read is dropped as a whole and ends the collection.
Unreadable ==
    /\ cycle.at \in {"page", "rows"}
    /\ \/ cycle.at = "page"
       \/ cycle.rows # <<>> /\ Corrupt(Head(cycle.rows))
    /\ cycle' = [cycle EXCEPT !.at = "failed", !.failure = TRUE]
    /\ UNCHANGED <<source, uploading, halted, sched, writes, stops>>

\* Sessions too large to sum up are left out, and make the cycle a failed one.
ReadSession ==
    /\ cycle.at = "rows" /\ cycle.rows # <<>>
    /\ LET s == Head(cycle.rows)
       IN  /\ ~Corrupt(s)
           /\ cycle' = [cycle EXCEPT !.rows = Tail(@),
                          !.page = IF source[s] = "capped" THEN @ ELSE Append(@, s),
                          !.failure = @ \/ source[s] = "capped"]
    /\ UNCHANGED <<source, uploading, halted, sched, writes, stops>>

AfterPage(c) ==
    [c EXCEPT !.page = <<>>,
              !.at = IF c.more THEN "page" ELSE IF c.failure THEN "failed" ELSE "drain"]

EndPage ==
    /\ cycle.at = "rows" /\ cycle.rows = <<>>
    /\ IF cycle.page = <<>> THEN cycle' = AfterPage(cycle) /\ UNCHANGED sched
                            ELSE Go("enqueue")
    /\ UNCHANGED <<source, uploading, halted, writes, stops>>

EnqueueBatch ==
    /\ cycle.at = "enqueue"
    /\ cycle' = AfterPage([cycle EXCEPT !.reported =
                    [s \in Sessions |-> @[s] + Cardinality({i \in DOMAIN cycle.page :
                                                             cycle.page[i] = s})]])
    /\ UNCHANGED <<source, uploading, halted, sched, writes, stops>>

EnqueueFailure ==
    /\ cycle.at = "failed" /\ Go("drain")
    /\ UNCHANGED <<source, uploading, halted, writes, stops>>

\* Behind an abandoned drain the step reports `in_flight' at once.
Drain ==
    /\ cycle.at = "drain"
    /\ \/ ~uploading /\ uploading' = TRUE /\ UNCHANGED <<cycle, sched>>
       \/ EndCycle /\ UNCHANGED uploading
    /\ UNCHANGED <<source, halted, writes, stops>>

\* An upload ends by an answer or its own timeout, with or without its cycle.
UploadEnds ==
    /\ uploading /\ uploading' = FALSE
    /\ halted' \in BOOLEAN
    /\ IF cycle.at = "drain" THEN EndCycle ELSE UNCHANGED <<cycle, sched>>
    /\ UNCHANGED <<source, writes, stops>>

\* OMP adds, extends and drops sessions.
Write ==
    /\ writes < MaxWrites /\ writes' = writes + 1
    /\ \E s \in Sessions, c \in Contents :
         /\ source[s] # c
         /\ source' = [source EXCEPT ![s] = c]
         /\ cycle' = IF c = "absent" THEN [cycle EXCEPT !.steady = @ \ {s}] ELSE cycle
    /\ UNCHANGED <<uploading, halted, sched, stops>>

Work == \/ OpenQueue \/ QueryPage \/ Unreadable \/ ReadSession \/ EndPage

Next ==
    \/ Start \/ Stop \/ Fire \/ Deadline \/ Work \/ LoadIdentityKey
    \/ EnqueueBatch \/ EnqueueFailure \/ Drain \/ UploadEnds \/ Write

\* Timers fire, the deadline's too, and code that awaits nothing runs on.
Fairness == WF_vars(Fire) /\ WF_vars(Deadline) /\ WF_vars(Work)

Spec == Init /\ [][Next]_vars /\ Fairness

(***************************************************************************)
(* Properties                                                              *)
(***************************************************************************)
\* The pages of a cycle overlap and miss nothing while OMP adds and drops
\* sessions around the cursor: no session is reported twice, and a cycle that
\* reaches its drain unharmed has reported all that were there throughout.
EachOnce ==
    /\ \A s \in Sessions : cycle.reported[s] <= 1
    /\ cycle.at = "drain" /\ ~cycle.failure
         => \A s \in cycle.steady : cycle.reported[s] = 1

\* The daemon keeps collecting until it is stopped: whatever its cycle awaits
\* may hang, and still another cycle begins.  After stop() none does, whatever
\* timer is left over, however stop, start and the end of a cycle follow.
KeepsCycling ==
    /\ [][cycle.at = "off" /\ cycle'.at # "off" => sched.started]_vars
    /\ sched.started ~> (cycle.at = "queue" \/ ~sched.started)
=============================================================================
