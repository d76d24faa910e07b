--------------------------- MODULE CheckCyclesProofs ---------------------------
(***************************************************************************)
(* That one cycle runs at a time, that a challenge shown is one of the     *)
(* running worker, and that a closed transport has no process: for any     *)
(* accounts, challenges and stops.                                         *)
(***************************************************************************)
EXTENDS CheckCycles, SequenceTheorems, WellFoundedInduction, TLAPS

\* A cycle under way has claimed the slot and has accounts left; what it checks
\* or records is one of them.
CycleInv ==
    /\ {claimed, running, cancelReq, aborted} \subseteq BOOLEAN
    /\ pc \in Pcs /\ todo \subseteq Accounts /\ acct \in Accounts \cup {NoAccount}
    /\ pc # "idle" => claimed /\ todo # {}
    /\ pc \in {"check", "record"} => acct \in todo

\* What a worker that has shown so many challenges can have written.
Lines(shown) == [kind : {"challenge", "complete"}, id : 1 .. shown]

\* A worker runs during the check of its account only, and its output tells of
\* the challenges it has shown.
WorkInv ==
    /\ wk \in [phase : Live \cup {"none", "exited", "killed"},
               shown : 0 .. MaxChallenges, asked : BOOLEAN]
    /\ wk.phase # "none" => pc = "check"
    /\ pipe \in Seq(Lines(wk.shown))
    /\ pc # "check" => pipe = <<>>
    /\ broker \in [Accounts -> 0 .. MaxChallenges]
    /\ ChallengesCurrent

\* A read is for the account that the minute loop waits for.
ReadInv ==
    /\ poll \in [pc : {"idle", "next", "fetch", "read"}, todo : SUBSET Accounts,
                 acct : Accounts \cup {NoAccount}]
    /\ reader \in [proc : {"none", "up"}, req : {"none", "queued", "open"},
                   closed : {"no", "asked", "done"}]
    /\ poll.pc \in {"fetch", "read"} => poll.acct \in Accounts
    /\ reader.req # "none" => poll.pc = "read"
    /\ NoReaderAfterClose

DiskInv ==
    /\ session \subseteq Accounts /\ monitor \subseteq Accounts
    /\ profile \in [Accounts -> {"free", "worker", "orphan", "reader"}]
    /\ down \in BOOLEAN /\ stops \in 0 .. MaxStops

ChecksInv == CycleInv /\ WorkInv /\ ReadInv /\ DiskInv

-----------------------------------------------------------------------------

\* The account that is next in the run order is one of those left.
LEMMA FirstIs ==
    ASSUME NEW S \in SUBSET Accounts, S # {}
    PROVE  First(S) \in S
<1> DEFINE R == {ss \in Nat \X Nat : ss[1] < ss[2]}
<1>1. IsWellFoundedOn(R, Nat)
  BY NatLessThanWellFounded DEF OpToRel
<1>2. S \subseteq Nat
  BY CheckAssumption
<1>3. PICK a \in S : \A b \in S : ~ <<b, a>> \in R
  BY <1>1, <1>2, WFMin
<1>4. ASSUME NEW b \in S PROVE a <= b
  <2>1. a \in Nat /\ b \in Nat /\ <<b, a>> \notin R
    BY <1>2, <1>3
  <2>2. ~(b < a)
    BY <2>1
  <2> QED
    BY <2>1, <2>2
<1> QED
  BY <1>4 DEF First

\* The steps that move the cycle.
LEMMA CycleMoves ==
    ASSUME Next
    PROVE  \/ Prepare \/ Ended \/ StartCheck \/ CheckEnds
           \/ Recorded \/ StopCycle \/ UNCHANGED cycleVars
           \/ /\ UNCHANGED <<running, cancelReq, aborted, acct>>
              /\ \/ UNCHANGED <<claimed, pc, todo>>
                 \/ \E S \in SUBSET Accounts : S # {} /\ Claim(S)
                 \/ reader.req = "open" /\ Claim({poll.acct})
<1>1. CASE Cycle
  BY <1>1 DEF Cycle, PrepareFails, SkipRest, Consume, RunLost
<1>2. CASE Worker
  BY <1>2 DEF Worker, Launch, LaunchFails, Login, MobileChallenge, SliderChallenge, Show,
              Authenticated, Verified, Collected, WorkerFails, Killed, OrphanExits
<1>3. CASE Poll
  BY <1>3 DEF Poll, PollStart, PollAccount, PollEnds, Fetched, Blocked, ReadRequest,
              ReadOpens, ReadOk, ReadDead, ReadFails, CloseReader, Heal, cycleVars
<1>4. CASE Environment
  <2>1. CASE RunCycle
    <3>1. \A a \in Accounts : {a} \in SUBSET Accounts /\ {a} # {}
      OBVIOUS
    <3>2. Accounts \in SUBSET Accounts /\ Accounts # {}
      BY CheckAssumption
    <3> QED
      BY <2>1, <3>1, <3>2 DEF RunCycle
  <2>2. CASE Grant
    BY <2>2, CheckAssumption DEF Grant
  <2>3. CASE StopCycle
    BY <2>3
  <2>4. CASE CheckTimeout \/ SessionExpires \/ Shutdown \/ \E a \in Accounts : ChallengeExpires(a)
    BY <2>4 DEF CheckTimeout, SessionExpires, Shutdown, ChallengeExpires
  <2> QED
    BY <1>4, <2>1, <2>2, <2>3, <2>4 DEF Environment
<1> QED
  BY <1>1, <1>2, <1>3, <1>4 DEF Next

\* The cycle keeps its invariant: only a free slot is claimed.
LEMMA CycleStep ==
    ASSUME CycleInv, ReadInv, Next
    PROVE  CycleInv'
<1> USE DEF CycleInv, Pcs
<1>1. CASE Prepare
  BY <1>1 DEF Prepare
<1>2. CASE Ended
  BY <1>2 DEF Ended
<1>3. CASE StartCheck
  BY <1>3, FirstIs DEF StartCheck
<1>4. CASE CheckEnds
  BY <1>4 DEF CheckEnds
<1>5. CASE Recorded
  BY <1>5 DEF Recorded, Ended
<1>6. CASE StopCycle
  BY <1>6 DEF StopCycle
<1>7. CASE UNCHANGED cycleVars
  BY <1>7 DEF cycleVars
<1>8. ASSUME NEW S \in SUBSET Accounts, S # {}, Claim(S),
             UNCHANGED <<running, cancelReq, aborted, acct>>
      PROVE  CycleInv'
  BY <1>8 DEF Claim
<1>9. ASSUME reader.req = "open" PROVE {poll.acct} \in SUBSET Accounts /\ {poll.acct} # {}
  BY <1>9 DEF ReadInv
<1>10. CASE UNCHANGED <<running, cancelReq, aborted, acct>> /\ UNCHANGED <<claimed, pc, todo>>
  BY <1>10
<1> QED
  BY <1>1, <1>2, <1>3, <1>4, <1>5, <1>6, <1>7, <1>8, <1>9, <1>10, CycleMoves

\* A step that leaves the worker, its output and the challenges alone, and no
\* check begins or ends with it.
Apart ==
    /\ UNCHANGED workVars
    /\ \/ UNCHANGED <<pc, acct>>
       \/ pc # "check" /\ pc' # "check"
       \/ ~claimed /\ pc' = "load"

\* A worker that goes on to another phase, and may complete its challenge.
Onward ==
    /\ wk.phase \in Live /\ UNCHANGED <<broker, pc, acct>>
    /\ \E phase \in Live \cup {"exited", "killed"} : Phase(phase)
    /\ pipe' = pipe \/ pipe' = pipe \o Completion

\* The steps that move the worker, its output or its challenges.
LEMMA WorkMoves ==
    ASSUME Next
    PROVE  \/ StartCheck \/ StopCycle \/ CheckTimeout \/ Consume \/ CheckEnds
           \/ \E a \in Accounts : ChallengeExpires(a)
           \/ \E phase \in Live : Show(phase)
           \/ Onward \/ Apart
<1> USE DEF Live
<1>1. CASE Cycle
  BY <1>1 DEF Cycle, Prepare, PrepareFails, SkipRest, RunLost, Recorded, Ended, Apart
<1>2. CASE Worker
  <2>1. CASE \/ Launch \/ LaunchFails \/ Login \/ Authenticated \/ Verified \/ Collected
             \/ WorkerFails \/ Killed
    BY <2>1 DEF Launch, LaunchFails, Login, Authenticated, Verified, Collected,
                WorkerFails, Killed, Onward, cycleVars
  <2>2. CASE \E a \in Accounts : OrphanExits(a)
    BY <2>2 DEF OrphanExits, Apart, cycleVars
  <2> QED
    BY <1>2, <2>1, <2>2 DEF Worker, MobileChallenge, SliderChallenge
<1>3. CASE Poll
  BY <1>3 DEF Poll, PollStart, PollAccount, PollEnds, Fetched, Blocked, ReadRequest,
              ReadOpens, ReadOk, ReadDead, ReadFails, CloseReader, Heal, Claim, cycleVars,
              Apart
<1>4. CASE Environment
  BY <1>4 DEF Environment, RunCycle, Grant, Claim, SessionExpires, Shutdown, Apart, cycleVars
<1> QED
  BY <1>1, <1>2, <1>3, <1>4 DEF Next

\* What was written stays legible when the worker shows more.
LEMMA LinesGrow ==
    ASSUME NEW n \in Nat, NEW m \in Nat, n <= m, NEW s \in Seq(Lines(n))
    PROVE  s \in Seq(Lines(m))
<1>1. Lines(n) \subseteq Lines(m)
  BY DEF Lines
<1> QED
  BY <1>1, SeqMonotonic

\* The line that completes the challenge shown, if there is one.
LEMMA CompletionIs ==
    ASSUME WorkInv
    PROVE  /\ Completion \in Seq(Lines(wk.shown))
           /\ pipe \o Completion \in Seq(Lines(wk.shown))
<1>1. Completion \in Seq(Lines(wk.shown))
  <2>1. CASE wk.shown = NoChallenge
    BY <2>1, EmptySeq DEF Completion
  <2>2. CASE wk.shown # NoChallenge
    <3>1. wk.shown \in 1 .. wk.shown
      BY <2>2 DEF WorkInv, NoChallenge
    <3>2. [kind |-> "complete", id |-> wk.shown] \in Lines(wk.shown)
      BY <3>1 DEF Lines
    <3> QED
      BY <2>2, <3>2 DEF Completion
  <2> QED
    BY <2>1, <2>2
<1> QED
  BY <1>1, ConcatProperties DEF WorkInv

\* The worker keeps its invariant: no challenge outlives the check.
LEMMA WorkStep ==
    ASSUME CycleInv, WorkInv, Next
    PROVE  WorkInv'
<1> USE DEF NoChallenge, WorkInv
<1>0. MaxChallenges \in Nat
  BY CheckAssumption
<1>1. CASE StartCheck
  <2>1. pc = "pick" /\ pc' = "check" /\ pipe' = <<>> /\ broker' = broker
        /\ wk' = [NoWorker EXCEPT !.phase = "launch"]
    BY <1>1 DEF StartCheck
  <2>2. wk' = [phase |-> "launch", shown |-> 0, asked |-> FALSE]
    BY <2>1 DEF NoWorker
  <2>3. ChallengesCurrent'
    BY <2>1 DEF ChallengesCurrent
  <2>4. pipe' \in Seq(Lines(wk'.shown))
    BY <2>1, EmptySeq
  <2>5. wk' \in [phase : Live \cup {"none", "exited", "killed"},
                 shown : 0 .. MaxChallenges, asked : BOOLEAN]
    BY <1>0, <2>2 DEF Live
  <2> QED
    BY <2>1, <2>3, <2>4, <2>5
<1>2. CASE StopCycle \/ CheckTimeout
  <2>1. wk' = wk \/ wk' = [wk EXCEPT !.asked = TRUE]
    BY <1>2 DEF StopCycle, CheckTimeout
  <2>2. wk'.shown = wk.shown /\ wk'.phase = wk.phase
        /\ wk' \in [phase : Live \cup {"none", "exited", "killed"},
                    shown : 0 .. MaxChallenges, asked : BOOLEAN]
    BY <2>1
  <2>3. UNCHANGED <<pipe, broker, pc, acct>>
    BY <1>2 DEF StopCycle, CheckTimeout, cycleVars
  <2> QED
    BY <2>2, <2>3 DEF ChallengesCurrent
<1>3. CASE Consume
  <2>1. /\ pc = "check" /\ pipe # <<>> /\ pipe' = Tail(pipe) /\ UNCHANGED <<pc, acct, wk>>
        /\ broker' = [broker EXCEPT ![acct] =
                        IF Head(pipe).kind = "challenge" THEN Head(pipe).id
                        ELSE IF @ = Head(pipe).id THEN NoChallenge ELSE @]
    BY <1>3 DEF Consume, cycleVars
  <2>2. Head(pipe) \in Lines(wk.shown) /\ pipe' \in Seq(Lines(wk.shown))
    BY <2>1, HeadTailProperties
  <2>3. Head(pipe).id \in 1 .. wk.shown /\ Head(pipe).id \in 0 .. MaxChallenges
    BY <1>0, <2>2 DEF Lines
  <2>4. acct \in Accounts
    BY <2>1 DEF CycleInv
  <2>5. broker' \in [Accounts -> 0 .. MaxChallenges]
    BY <1>0, <2>1, <2>3, <2>4
  <2>6. ChallengesCurrent'
    <3>1. \A a \in Accounts \ {acct} : broker'[a] = broker[a] /\ broker[a] = NoChallenge
      BY <2>1, <2>4 DEF ChallengesCurrent
    <3>2. broker[acct] # NoChallenge => broker[acct] <= wk.shown
      BY <2>4 DEF ChallengesCurrent
    <3>3. broker'[acct] # NoChallenge => broker'[acct] <= wk.shown
      BY <2>1, <2>3, <2>4, <3>2
    <3> QED
      BY <2>1, <3>1, <3>3 DEF ChallengesCurrent
  <2> QED
    BY <2>1, <2>2, <2>5, <2>6
<1>4. CASE CheckEnds
  <2>1. /\ pc = "check" /\ pipe = <<>> /\ pipe' = pipe /\ wk' = NoWorker
        /\ acct' = acct /\ pc' = "record"
        /\ broker' = [broker EXCEPT ![acct] = NoChallenge]
    BY <1>4 DEF CheckEnds
  <2>2. ChallengesCurrent'
    BY <2>1 DEF ChallengesCurrent
  <2>3. pipe' \in Seq(Lines(wk'.shown))
    BY <2>1, EmptySeq
  <2>4. /\ wk'.phase = "none"
        /\ wk' \in [phase : Live \cup {"none", "exited", "killed"},
                    shown : 0 .. MaxChallenges, asked : BOOLEAN]
    BY <1>0, <2>1 DEF NoWorker
  <2>5. broker' \in [Accounts -> 0 .. MaxChallenges]
    <3>1. acct \in Accounts /\ NoChallenge \in 0 .. MaxChallenges
      BY <1>0, <2>1 DEF CycleInv
    <3> QED
      BY <2>1, <3>1
  <2> QED
    BY <2>1, <2>2, <2>3, <2>4, <2>5
<1>5. ASSUME NEW a \in Accounts, ChallengeExpires(a) PROVE WorkInv'
  <2>1. UNCHANGED <<wk, pipe, pc, acct>> /\ broker' = [broker EXCEPT ![a] = NoChallenge]
    BY <1>5 DEF ChallengeExpires, cycleVars
  <2>2. ChallengesCurrent'
    BY <2>1 DEF ChallengesCurrent
  <2> QED
    BY <1>0, <2>1, <2>2
<1>6. ASSUME NEW phase \in Live, Show(phase) PROVE WorkInv'
  <2>1. /\ wk.phase \in Live /\ wk.shown < MaxChallenges /\ UNCHANGED <<broker, pc, acct>>
        /\ wk' = [wk EXCEPT !.shown = @ + 1]
        /\ pipe' = pipe \o Completion \o <<[kind |-> "challenge", id |-> wk.shown + 1]>>
    BY <1>6 DEF Show, cycleVars
  <2>2. wk.shown \in Nat /\ wk.shown + 1 \in 0 .. MaxChallenges
    BY <1>0, <2>1
  <2>3. /\ wk'.shown = wk.shown + 1 /\ wk'.phase = wk.phase
        /\ wk' \in [phase : Live \cup {"none", "exited", "killed"},
                    shown : 0 .. MaxChallenges, asked : BOOLEAN]
    BY <2>1, <2>2
  <2>4. pipe \o Completion \in Seq(Lines(wk'.shown))
    BY <2>2, <2>3, CompletionIs, LinesGrow
  <2>5. <<[kind |-> "challenge", id |-> wk.shown + 1]>> \in Seq(Lines(wk'.shown))
    <3>1. wk.shown + 1 \in 1 .. wk'.shown
      BY <2>2, <2>3
    <3>2. [kind |-> "challenge", id |-> wk.shown + 1] \in Lines(wk'.shown)
      BY <3>1 DEF Lines
    <3> QED
      BY <3>2
  <2>6. pipe' \in Seq(Lines(wk'.shown))
    BY <2>1, <2>4, <2>5, ConcatProperties
  <2>7. pc = "check" /\ pc' = "check"
    BY <2>1 DEF Live
  <2>8. ChallengesCurrent'
    BY <1>0, <2>1, <2>2, <2>3 DEF ChallengesCurrent
  <2> QED
    BY <2>1, <2>3, <2>6, <2>7, <2>8
<1>7. CASE Onward
  <2>1. PICK phase \in Live \cup {"exited", "killed"} : wk' = [wk EXCEPT !.phase = phase]
    BY <1>7 DEF Onward, Phase
  <2>2. /\ wk'.shown = wk.shown
        /\ wk' \in [phase : Live \cup {"none", "exited", "killed"},
                    shown : 0 .. MaxChallenges, asked : BOOLEAN]
    BY <2>1
  <2>3. UNCHANGED <<broker, pc, acct>> /\ pc = "check"
    BY <1>7 DEF Onward, Live
  <2>4. pipe' \in Seq(Lines(wk.shown))
    BY <1>7, CompletionIs DEF Onward
  <2> QED
    BY <2>2, <2>3, <2>4 DEF ChallengesCurrent
<1>8. CASE Apart
  <2>1. UNCHANGED <<wk, pipe, broker>>
    BY <1>8 DEF Apart, workVars
  <2>2. (pc = "check" <=> pc' = "check") /\ (pc = "check" => acct' = acct)
    BY <1>8 DEF Apart, CycleInv
  <2> QED
    BY <2>1, <2>2 DEF ChallengesCurrent
<1> QED
  BY <1>1, <1>2, <1>3, <1>4, <1>5, <1>6, <1>7, <1>8, WorkMoves

\* The minute loop goes on to the next account.
LEMMA PollNextIs ==
    ASSUME ReadInv, PollNext
    PROVE  /\ poll' \in [pc : {"idle", "next", "fetch", "read"}, todo : SUBSET Accounts,
                         acct : Accounts \cup {NoAccount}]
           /\ poll'.pc = "next"
BY DEF ReadInv, PollNext

\* The minute loop and the transport keep their invariant: a request that waited
\* finds the transport closed.
LEMMA ReadStep ==
    ASSUME ReadInv, Next
    PROVE  ReadInv'
<1> USE DEF ReadInv, NoReaderAfterClose
<1>1. CASE PollStart
  BY <1>1 DEF PollStart
<1>2. CASE PollAccount
  <2> DEFINE a == First(poll.todo)
  <2>1. poll.pc = "next" /\ poll.todo # {} /\ reader' = reader
    BY <1>2 DEF PollAccount
  <2>2. a \in Accounts
    BY <2>1, FirstIs
  <2>3. \/ poll' = [poll EXCEPT !.pc = "fetch", !.acct = a]
        \/ poll' = [poll EXCEPT !.todo = @ \ {a}]
    BY <1>2 DEF PollAccount
  <2> HIDE DEF a
  <2> QED
    BY <2>1, <2>2, <2>3
<1>3. CASE PollEnds
  BY <1>3 DEF PollEnds, NoPoll
<1>4. CASE Fetched
  BY <1>4 DEF Fetched, PollNext
<1>5. CASE Blocked
  <2>1. CASE reader.closed # "no"
    BY <1>5, <2>1, PollNextIs DEF Blocked
  <2>2. CASE reader.closed = "no"
    <3>1. /\ poll.pc = "fetch" /\ poll' = [poll EXCEPT !.pc = "read"]
          /\ reader' = [reader EXCEPT !.req = "queued"]
      BY <1>5, <2>2 DEF Blocked
    <3>2. poll'.acct = poll.acct /\ poll'.pc = "read" /\ poll'.todo = poll.todo
      BY <3>1
    <3> QED
      BY <3>1, <3>2
  <2> QED
    BY <2>1, <2>2
<1>6. CASE ReadRequest
  <2>1. CASE reader.closed # "no"
    <3>1. PollNext /\ reader' = [reader EXCEPT !.req = "none"]
      BY <1>6, <2>1 DEF ReadRequest, ReaderStarts
    <3> QED
      BY <3>1, PollNextIs
  <2>2. CASE reader.closed = "no"
    <3>1. /\ reader.req = "queued" /\ poll' = poll
          /\ reader' = [reader EXCEPT !.proc = "up", !.req = "open"]
      BY <1>6, <2>2 DEF ReadRequest, ReaderStarts
    <3>2. reader'.closed = "no"
      BY <2>2, <3>1
    <3> QED
      BY <3>1, <3>2
  <2> QED
    BY <2>1, <2>2
<1>7. CASE ReadOk
  BY <1>7 DEF ReadOk, PollNext
<1>8. CASE ReadDead
  BY <1>8 DEF ReadDead, PollNext
<1>9. CASE ReadFails
  BY <1>9 DEF ReadFails, PollNext
<1>10. CASE CloseReader
  BY <1>10 DEF CloseReader
<1>11. CASE Shutdown
  BY <1>11 DEF Shutdown
<1>12. CASE UNCHANGED readVars
  BY <1>12 DEF readVars
<1> QED
  BY <1>1, <1>2, <1>3, <1>4, <1>5, <1>6, <1>7, <1>8, <1>9, <1>10, <1>11, <1>12
     DEF Next, Cycle, Prepare, PrepareFails, StartCheck, SkipRest, Consume, CheckEnds,
         RunLost, Recorded, Worker, Launch, LaunchFails, Login, MobileChallenge,
         SliderChallenge, Show, Authenticated, Verified, Collected, WorkerFails, Killed,
         OrphanExits, Poll, ReadOpens, Environment, RunCycle, Grant, StopCycle,
         CheckTimeout, SessionExpires, ChallengeExpires

\* The files and the profiles belong to accounts.
LEMMA DiskStep ==
    ASSUME CycleInv, WorkInv, ReadInv, DiskInv, Next
    PROVE  DiskInv'
<1>1. wk.phase # "none" => acct \in Accounts
  BY DEF WorkInv, CycleInv
<1>2. /\ session' \subseteq Accounts /\ monitor' \subseteq Accounts
      /\ profile' \in [Accounts -> {"free", "worker", "orphan", "reader"}]
  <2> USE DEF DiskInv
  <2>1. CASE UNCHANGED diskVars
    BY <2>1 DEF diskVars
  <2>2. CASE Launch \/ Login \/ Authenticated \/ Verified \/ Collected \/ WorkerFails \/ Killed
    BY <1>1, <2>2 DEF Launch, Login, Authenticated, Verified, Collected, WorkerFails,
                      Killed, LoggedOut, Free, Live
  <2>3. ASSUME NEW a \in Accounts, OrphanExits(a) PROVE <1>2!:
    BY <2>3 DEF OrphanExits, Free
  <2>4. CASE ReadOpens \/ ReadOk \/ ReadDead \/ ReadFails
    BY <2>4 DEF ReadOpens, ReadOk, ReadDead, ReadFails, Free
  <2>5. CASE SessionExpires
    BY <2>5 DEF SessionExpires
  <2> QED
    BY <2>1, <2>2, <2>3, <2>4, <2>5
       DEF Next, Cycle, Prepare, PrepareFails, StartCheck, SkipRest, Consume, CheckEnds,
           RunLost, Recorded, Worker, LaunchFails, MobileChallenge, SliderChallenge, Show,
           Poll, PollStart, PollAccount, PollEnds, Fetched, Blocked, ReadRequest,
           CloseReader, Environment, RunCycle, Grant, StopCycle, CheckTimeout, Shutdown,
           ChallengeExpires
<1>3. down' \in BOOLEAN /\ stops' \in 0 .. MaxStops
  <2> USE CheckAssumption DEF DiskInv
  <2>1. CASE StopCycle
    BY <2>1 DEF StopCycle
  <2>2. CASE Shutdown
    BY <2>2 DEF Shutdown
  <2>3. CASE UNCHANGED <<down, stops>>
    BY <2>3
  <2> QED
    BY <2>1, <2>2, <2>3
       DEF Next, Cycle, Prepare, PrepareFails, StartCheck, SkipRest, Consume, CheckEnds,
           RunLost, Recorded, Worker, Launch, LaunchFails, Login, MobileChallenge,
           SliderChallenge, Show, Authenticated, Verified, Collected, WorkerFails, Killed,
           OrphanExits, Poll, PollStart, PollAccount, PollEnds, Fetched, Blocked,
           ReadRequest, ReadOpens, ReadOk, ReadDead, ReadFails, CloseReader, Environment,
           RunCycle, Grant, CheckTimeout, SessionExpires, ChallengeExpires
<1> QED
  BY <1>2, <1>3 DEF DiskInv

-----------------------------------------------------------------------------

\* Nothing runs when the hub starts.
LEMMA ChecksInit == Init => ChecksInv
<1> SUFFICES ASSUME Init PROVE ChecksInv
  OBVIOUS
<1> USE CheckAssumption DEF Init
<1>1. CycleInv
  BY DEF CycleInv, Pcs
<1>2. WorkInv
  <2>1. wk \in [phase : Live \cup {"none", "exited", "killed"},
                shown : 0 .. MaxChallenges, asked : BOOLEAN] /\ wk.phase = "none"
    BY DEF NoWorker
  <2>2. pipe \in Seq(Lines(wk.shown))
    BY EmptySeq
  <2> QED
    BY <2>1, <2>2 DEF WorkInv, ChallengesCurrent, NoChallenge
<1>3. ReadInv
  BY DEF ReadInv, NoReaderAfterClose, NoPoll
<1>4. DiskInv
  <2>1. 0 \in 0 .. MaxStops
    OBVIOUS
  <2>2. profile \in [Accounts -> {"free", "worker", "orphan", "reader"}]
    OBVIOUS
  <2> QED
    BY <2>1, <2>2 DEF DiskInv
<1> QED
  BY <1>1, <1>2, <1>3, <1>4 DEF ChecksInv

\* Every step of the cycle, the worker, the loop and the environment.
LEMMA ChecksStep == ChecksInv /\ [Next]_vars => ChecksInv'
<1>1. ASSUME ChecksInv, Next PROVE ChecksInv'
  BY <1>1, CycleStep, WorkStep, ReadStep, DiskStep DEF ChecksInv
<1>2. ASSUME ChecksInv, UNCHANGED vars PROVE ChecksInv'
  BY <1>2 DEF vars, ChecksInv, CycleInv, WorkInv, ReadInv, DiskInv, ChallengesCurrent,
              NoReaderAfterClose
<1> QED
  BY <1>1, <1>2

\* The invariant gives the types of the module.
LEMMA ChecksTyped == ChecksInv => TypeOK
<1> SUFFICES ASSUME ChecksInv PROVE TypeOK
  OBVIOUS
<1>1. pipe \in Seq([kind : {"challenge", "complete"}, id : 1 .. MaxChallenges])
  <2>1. wk.shown \in 0 .. MaxChallenges /\ MaxChallenges \in Nat
    BY CheckAssumption DEF ChecksInv, WorkInv
  <2>2. pipe \in Seq(Lines(MaxChallenges))
    BY <2>1, LinesGrow DEF ChecksInv, WorkInv
  <2> QED
    BY <2>2 DEF Lines
<1> QED
  BY <1>1 DEF ChecksInv, CycleInv, WorkInv, ReadInv, DiskInv, TypeOK

-----------------------------------------------------------------------------

\* The variables keep their types.
THEOREM CheckTypes == Spec => []TypeOK
BY ChecksInit, ChecksStep, ChecksTyped, PTL DEF Spec

\* One cycle at a time: whoever asks for a cycle, the operator, the grant loop or
\* a heal, is turned away until the `finally' of the running one has run.
THEOREM OneCycleAtATime == Spec => OneCycle
<1>1. ASSUME ChecksInv, [Next]_vars
      PROVE  [pc # "idle" /\ pc' = "load" => pc = "load" /\ todo' = todo]_vars
  <2> SUFFICES ASSUME Next, pc # "idle", pc' = "load"
               PROVE  pc = "load" /\ todo' = todo
    BY <1>1
  <2>1. claimed
    BY <1>1 DEF ChecksInv, CycleInv
  <2> QED
    BY <2>1, CycleMoves DEF Prepare, Ended, StartCheck, CheckEnds, Recorded, StopCycle,
                            cycleVars, Claim
<1> QED
  BY <1>1, ChecksInit, ChecksStep, PTL DEF Spec, OneCycle

\* A challenge that is shown as waiting for the operator is one that the running
\* worker published.
THEOREM ChallengesAreCurrent == Spec => []ChallengesCurrent
<1>1. ChecksInv => ChallengesCurrent
  BY DEF ChecksInv, WorkInv
<1> QED
  BY <1>1, ChecksInit, ChecksStep, PTL DEF Spec

\* No read process outlives the transport.
THEOREM ReaderStaysClosed == Spec => []NoReaderAfterClose
<1>1. ChecksInv => NoReaderAfterClose
  BY DEF ChecksInv, ReadInv
<1> QED
  BY <1>1, ChecksInit, ChecksStep, PTL DEF Spec
=============================================================================
