---------------------------- MODULE CheckCycles ----------------------------
(***************************************************************************)
(* The hub's account checks: CheckCoordinator (src/coordinator.ts), the    *)
(* browser worker that logs an account in and reads it                     *)
(* (scripts/agentrouter-worker.mjs, supervised by src/account-checker.ts), *)
(* the challenges it publishes, and the minute loop that reads the kept    *)
(* session through a second browser (src/endpoint-poller.ts,               *)
(* src/agentrouter-session.ts, scripts/agentrouter-read-session-worker.mjs)*)
(*                                                                         *)
(* A step is what runs between two awaits.  The cycle, the poll loop, the  *)
(* worker process and the read worker interleave; the operator starts and  *)
(* stops cycles.  An account's Chrome profile is held by one browser.      *)
(***************************************************************************)
EXTENDS Naturals, Sequences, FiniteSets

CONSTANTS
    Accounts,          \* the enabled accounts; their order is the run order
    Reuse,             \* settings.reusePersistentSession
    MaxChallenges,     \* bound: challenges of one worker
    MaxStops           \* bound: cycles the operator stops

ASSUME CheckAssumption ==
    /\ Accounts \subseteq Nat \ {0} /\ IsFiniteSet(Accounts) /\ Accounts # {}
    /\ Reuse \in BOOLEAN
    /\ MaxChallenges \in Nat /\ MaxStops \in Nat

NoAccount == 0
NoChallenge == 0

VARIABLES
    claimed, running,  \* cycleClaimed, status.running
    cancelReq,         \* status.cancellationRequested
    aborted,           \* the cycle's AbortController fired
    pc, todo, acct,    \* where runCycle awaits, the accounts left, the current
    wk, pipe,          \* the worker process; its messages not consumed yet
    broker,            \* the challenge shown for each account
    session,           \* the accounts logged in to AgentRouter
    monitor,           \* the accounts with a saved monitor session
    profile,           \* who holds each account's Chrome profile
    poll, reader,      \* the minute loop; the read-session transport
    down, stops        \* shutdown began; cycles stopped so far

cycleVars == <<claimed, running, cancelReq, aborted, pc, todo, acct>>
workVars == <<wk, pipe, broker>>
readVars == <<poll, reader>>
diskVars == <<session, monitor, profile>>
vars == <<claimed, running, cancelReq, aborted, pc, todo, acct, wk, pipe, broker,
          session, monitor, profile, poll, reader, down, stops>>

Pcs == {"idle", "load", "pick", "check", "record"}
Live == {"launch", "login", "auth", "verify", "collect"}
NoWorker == [phase |-> "none", shown |-> 0, asked |-> FALSE]
NoPoll == [pc |-> "idle", todo |-> {}, acct |-> NoAccount]

TypeOK ==
    /\ {claimed, running, cancelReq, aborted, down} \subseteq BOOLEAN
    /\ pc \in Pcs /\ todo \subseteq Accounts /\ acct \in Accounts \cup {NoAccount}
    /\ wk \in [phase : Live \cup {"none", "exited", "killed"},
               shown : 0 .. MaxChallenges, asked : BOOLEAN]
    /\ pipe \in Seq([kind : {"challenge", "complete"}, id : 1 .. MaxChallenges])
    /\ broker \in [Accounts -> 0 .. MaxChallenges]
    /\ session \subseteq Accounts /\ monitor \subseteq Accounts
    /\ profile \in [Accounts -> {"free", "worker", "orphan", "reader"}]
    /\ poll \in [pc : {"idle", "next", "fetch", "read"}, todo : SUBSET Accounts,
                 acct : Accounts \cup {NoAccount}]
    /\ reader \in [proc : {"none", "up"}, req : {"none", "queued", "open"},
                   closed : {"no", "asked", "done"}]
    /\ stops \in 0 .. MaxStops

Init ==
    /\ claimed = FALSE /\ running = FALSE /\ cancelReq = FALSE /\ aborted = FALSE
    /\ pc = "idle" /\ todo = {} /\ acct = NoAccount
    /\ wk = NoWorker /\ pipe = <<>> /\ broker = [a \in Accounts |-> NoChallenge]
    /\ session = {} /\ monitor = {} /\ profile = [a \in Accounts |-> "free"]
    /\ poll = NoPoll /\ down = FALSE /\ stops = 0
    /\ reader = [proc |-> "none", req |-> "none", closed |-> "no"]

First(S) == CHOOSE a \in S : \A b \in S : a <= b

(***************************************************************************)
(* The cycle                                                               *)
(***************************************************************************)
\* Mutant: the status is looked at, which is set two awaits later.
ClaimByStatus(targets) ==
    IF running THEN UNCHANGED <<claimed, pc, todo>>
    ELSE claimed' = TRUE /\ pc' = "load" /\ todo' = targets
\* runCycle up to its first await; a second caller is turned away.
Claim(targets) ==
    IF claimed THEN UNCHANGED <<claimed, pc, todo>>
    ELSE claimed' = TRUE /\ pc' = "load" /\ todo' = targets

\* The `finally' of runCycle.
Ended ==
    /\ claimed' = FALSE /\ running' = FALSE /\ aborted' = FALSE
    /\ pc' = "idle" /\ todo' = {} /\ acct' = NoAccount
    /\ UNCHANGED cancelReq

\* The dashboard starts a cycle of all accounts or of one.
RunCycle ==
    /\ ~claimed /\ \E targets \in {Accounts} \cup {{a} : a \in Accounts} : Claim(targets)
    /\ UNCHANGED <<running, cancelReq, aborted, acct, workVars, diskVars, readVars,
                   down, stops>>

\* Mutant: a stopped cycle suspends the grant loop too.
GrantUnlessCancelled ==
    /\ ~down /\ ~running /\ ~claimed /\ ~cancelReq /\ Claim(Accounts)
    /\ UNCHANGED <<running, cancelReq, aborted, acct, workVars, diskVars, readVars,
                   down, stops>>
\* The grant loop's interval is over.
Grant ==
    /\ ~down /\ ~running /\ ~claimed /\ Claim(Accounts)
    /\ UNCHANGED <<running, cancelReq, aborted, acct, workVars, diskVars, readVars,
                   down, stops>>

\* Settings and accounts are read; the status is set and the controller made.
Prepare ==
    /\ pc = "load"
    /\ running' = TRUE /\ cancelReq' = FALSE /\ aborted' = FALSE /\ pc' = "pick"
    /\ UNCHANGED <<claimed, todo, acct, workVars, diskVars, readVars, down, stops>>

\* A file is unreadable, or no enabled account is left: nothing was started.
PrepareFails ==
    /\ pc = "load" /\ Ended
    /\ UNCHANGED <<workVars, diskVars, readVars, down, stops>>

\* The next account: its worker process is spawned and told to start.
StartCheck ==
    /\ pc = "pick" /\ ~aborted
    /\ acct' = First(todo) /\ pc' = "check"
    /\ wk' = [NoWorker EXCEPT !.phase = "launch"] /\ pipe' = <<>>
    /\ UNCHANGED <<claimed, running, cancelReq, aborted, todo, broker, diskVars,
                   readVars, down, stops>>

SkipRest ==
    /\ pc = "pick" /\ aborted /\ Ended
    /\ UNCHANGED <<workVars, diskVars, readVars, down, stops>>

\* stopCycle aborts the controller; the listener asks the worker to stop.
StopCycle ==
    /\ running /\ stops < MaxStops
    /\ cancelReq' = TRUE /\ aborted' = TRUE /\ stops' = stops + 1
    /\ wk' = IF pc = "check" THEN [wk EXCEPT !.asked = TRUE] ELSE wk
    /\ UNCHANGED <<claimed, running, pc, todo, acct, pipe, broker, diskVars, readVars,
                   down>>

\* Mutant: the clock of a check stands while a challenge is shown.
CheckTimeoutUnlessShown ==
    /\ pc = "check" /\ ~wk.asked /\ broker[acct] = NoChallenge
    /\ wk' = [wk EXCEPT !.asked = TRUE]
    /\ UNCHANGED <<cycleVars, pipe, broker, diskVars, readVars, down, stops>>
\* The total timeout of a check: the worker is asked to stop.
CheckTimeout ==
    /\ pc = "check" /\ ~wk.asked /\ wk' = [wk EXCEPT !.asked = TRUE]
    /\ UNCHANGED <<cycleVars, pipe, broker, diskVars, readVars, down, stops>>

\* A line of the worker's output: a challenge is published, which replaces
\* the account's earlier one, or the published challenge is completed.
Consume ==
    /\ pc = "check" /\ pipe # <<>> /\ pipe' = Tail(pipe)
    /\ broker' = [broker EXCEPT ![acct] =
                    IF Head(pipe).kind = "challenge" THEN Head(pipe).id
                    ELSE IF @ = Head(pipe).id THEN NoChallenge ELSE @]
    /\ UNCHANGED <<cycleVars, wk, diskVars, readVars, down, stops>>

ChallengeExpires(a) ==
    /\ broker[a] # NoChallenge /\ broker' = [broker EXCEPT ![a] = NoChallenge]
    /\ UNCHANGED <<cycleVars, wk, pipe, diskVars, readVars, down, stops>>

\* Mutant: the challenges of the account stay published.
CheckEndsOnly ==
    /\ pc = "check" /\ wk.phase \in {"exited", "killed"} /\ pipe = <<>>
    /\ wk' = NoWorker /\ UNCHANGED broker
    /\ pc' = "record"
    /\ UNCHANGED <<claimed, running, cancelReq, aborted, todo, acct, pipe, diskVars,
                   readVars, down, stops>>
\* The process has exited and its output is read: a result, or an error that
\* the coordinator turns into a failed snapshot.  Only a result has a token.
CheckEnds ==
    /\ pc = "check" /\ wk.phase \in {"exited", "killed"} /\ pipe = <<>>
    /\ wk' = NoWorker /\ broker' = [broker EXCEPT ![acct] = NoChallenge]
    /\ pc' = "record"
    /\ UNCHANGED <<claimed, running, cancelReq, aborted, todo, acct, pipe, diskVars,
                   readVars, down, stops>>

\* The database is closed by a shutdown, or a notification throws: the cycle
\* ends and the accounts left are not checked.
RunLost ==
    /\ pc = "record" /\ Ended
    /\ UNCHANGED <<workVars, diskVars, readVars, down, stops>>

\* Token saved, run saved, notified and recorded: the next account, unless it was the last one or
\* the cycle was stopped.
Recorded ==
    /\ pc = "record"
    /\ IF aborted \/ todo = {acct} THEN Ended
       ELSE /\ pc' = "pick" /\ todo' = todo \ {acct} /\ acct' = NoAccount
            /\ UNCHANGED <<claimed, running, cancelReq, aborted>>
    /\ UNCHANGED <<workVars, diskVars, readVars, down, stops>>

(***************************************************************************)
(* The worker process                                                      *)
(***************************************************************************)
Phase(p) == wk' = [wk EXCEPT !.phase = p]
Free(a) == profile' = [profile EXCEPT ![a] = "free"]
Completion == IF wk.shown = NoChallenge THEN <<>>
              ELSE <<[kind |-> "complete", id |-> wk.shown]>>
\* The site's session ends, or its cookies are dropped from the profile.
LoggedOut == session \ {acct}
\* All workers share one debugging port.
PortFree == \A a \in Accounts : profile[a] \notin {"worker", "orphan"}

Launch ==
    /\ wk.phase = "launch" /\ profile[acct] = "free" /\ PortFree
    /\ profile' = [profile EXCEPT ![acct] = "worker"] /\ Phase("login")
    /\ UNCHANGED <<cycleVars, pipe, broker, session, monitor, readVars, down, stops>>

\* Chrome does not come up twice, for one because a reader has the profile.
LaunchFails ==
    /\ wk.phase = "launch" /\ Phase("exited")
    /\ UNCHANGED <<cycleVars, pipe, broker, diskVars, readVars, down, stops>>

\* The login page; a session found there is logged out or its cookies dropped.
Login ==
    /\ wk.phase = "login" /\ Phase("auth")
    /\ session' = LoggedOut
    /\ UNCHANGED <<cycleVars, pipe, broker, monitor, profile, readVars, down, stops>>

\* A challenge is published; it replaces the one shown before.
Show(phase) ==
    /\ wk.phase = phase /\ wk.shown < MaxChallenges
    /\ wk' = [wk EXCEPT !.shown = @ + 1]
    /\ pipe' = pipe \o Completion \o <<[kind |-> "challenge", id |-> wk.shown + 1]>>
    /\ UNCHANGED <<cycleVars, broker, diskVars, readVars, down, stops>>
\* GitHub Mobile asks for approval.
MobileChallenge == Show("auth")
\* The WAF answers the first API call with its slider.
SliderChallenge == Show("verify")

Authenticated ==
    /\ wk.phase = "auth" /\ Phase("verify")
    /\ session' = session \cup {acct} /\ pipe' = pipe \o Completion
    /\ UNCHANGED <<cycleVars, broker, monitor, profile, readVars, down, stops>>

\* The API confirms the user; the session is saved for the reader.
Verified ==
    /\ wk.phase = "verify" /\ Phase("collect")
    /\ monitor' = monitor \cup {acct} /\ pipe' = pipe \o Completion
    /\ UNCHANGED <<cycleVars, broker, session, profile, readVars, down, stops>>

\* Console, wallet and token are read; the session is kept, or logged out
\* and the saved one removed.  A cancellation is not looked at any more.
Collected ==
    /\ wk.phase = "collect" /\ Phase("exited") /\ Free(acct)
    /\ IF Reuse THEN UNCHANGED <<session, monitor>>
       ELSE session' = LoggedOut /\ monitor' = monitor \ {acct}
    /\ UNCHANGED <<cycleVars, pipe, broker, readVars, down, stops>>

\* Any step throws, the cancellation among them.  A logged-in page is logged
\* out, if that succeeds; the saved monitor session stays behind.
WorkerFails ==
    /\ wk.phase \in Live \ {"launch"} /\ Phase("exited") /\ Free(acct)
    /\ pipe' = pipe \o Completion
    /\ session' \in {session, LoggedOut}
    /\ UNCHANGED <<cycleVars, broker, monitor, readVars, down, stops>>

\* Twenty seconds after the request to stop, or a crash: the process is gone,
\* and the Chrome host notices its closed input a little later.
Killed ==
    /\ wk.phase \in Live /\ Phase("killed")
    /\ profile' = [profile EXCEPT ![acct] = IF @ = "worker" THEN "orphan" ELSE @]
    /\ UNCHANGED <<cycleVars, pipe, broker, session, monitor, readVars, down, stops>>

OrphanExits(a) ==
    /\ profile[a] = "orphan" /\ Free(a)
    /\ UNCHANGED <<cycleVars, workVars, session, monitor, readVars, down, stops>>

(***************************************************************************)
(* The minute loop and the read-session transport                          *)
(***************************************************************************)
PollStart ==
    /\ poll.pc = "idle" /\ ~down /\ ~running
    /\ poll' = [pc |-> "next", todo |-> Accounts, acct |-> NoAccount]
    /\ UNCHANGED <<cycleVars, workVars, diskVars, reader, down, stops>>

PollNext == poll' = [poll EXCEPT !.pc = "next", !.todo = @ \ {poll.acct},
                                 !.acct = NoAccount]

\* An account without a saved session is passed over.
PollAccount ==
    /\ poll.pc = "next" /\ poll.todo # {}
    /\ LET a == First(poll.todo) IN
         poll' = IF a \in monitor THEN [poll EXCEPT !.pc = "fetch", !.acct = a]
                 ELSE [poll EXCEPT !.todo = @ \ {a}]
    /\ UNCHANGED <<cycleVars, workVars, diskVars, reader, down, stops>>

PollEnds ==
    /\ poll.pc = "next" /\ poll.todo = {} /\ poll' = NoPoll
    /\ UNCHANGED <<cycleVars, workVars, diskVars, reader, down, stops>>

\* The plain request with the saved cookies: values, or an error.
Fetched ==
    /\ poll.pc = "fetch" /\ PollNext
    /\ UNCHANGED <<cycleVars, workVars, diskVars, reader, down, stops>>

\* Mutant: the request that waits does not look at `closed' again.
ReaderStartsOpen ==
    /\ reader.req = "queued"
    /\ reader' = [reader EXCEPT !.proc = "up", !.req = "open"]
    /\ UNCHANGED poll
\* The request's turn: a closed transport refuses it, else the process is
\* spawned if need be and the read browser started on the account's profile.
ReaderStarts ==
    /\ reader.req = "queued"
    /\ IF reader.closed # "no"
       THEN reader' = [reader EXCEPT !.req = "none"] /\ PollNext
       ELSE reader' = [reader EXCEPT !.proc = "up", !.req = "open"] /\ UNCHANGED poll

\* The page was not JSON: the request is put on the transport's queue.
Blocked ==
    /\ poll.pc = "fetch"
    /\ IF reader.closed # "no" THEN PollNext /\ UNCHANGED reader
       ELSE /\ poll' = [poll EXCEPT !.pc = "read"]
            /\ reader' = [reader EXCEPT !.req = "queued"]
    /\ UNCHANGED <<cycleVars, workVars, diskVars, down, stops>>

ReadRequest ==
    /\ ReaderStarts
    /\ UNCHANGED <<cycleVars, workVars, diskVars, down, stops>>

ReadOpens ==
    /\ reader.req = "open" /\ profile[poll.acct] = "free"
    /\ profile' = [profile EXCEPT ![poll.acct] = "reader"]
    /\ UNCHANGED <<cycleVars, workVars, session, monitor, readVars, down, stops>>

ReadOk ==
    /\ reader.req = "open" /\ profile[poll.acct] = "reader" /\ poll.acct \in session
    /\ Free(poll.acct) /\ reader' = [reader EXCEPT !.req = "none"] /\ PollNext
    /\ UNCHANGED <<cycleVars, workVars, session, monitor, down, stops>>

\* healAgentRouterSession, up to its first await: never while a cycle runs or
\* after one was cancelled, and not again within ten minutes.
Heal(a) ==
    \/ UNCHANGED <<claimed, pc, todo>>
    \/ ~running /\ ~cancelReq /\ Claim({a})

\* Nothing readable after a reload: the session counts as dead.  A failed
\* request stops the read process.
ReadDead ==
    /\ reader.req = "open" /\ profile[poll.acct] = "reader"
    /\ Free(poll.acct) /\ reader' = [reader EXCEPT !.req = "none", !.proc = "none"]
    /\ PollNext /\ Heal(poll.acct)
    /\ UNCHANGED <<running, cancelReq, aborted, acct, workVars, session, monitor,
                   down, stops>>

\* The browser does not start, or no answer comes in time.
ReadFails ==
    /\ reader.req = "open"
    /\ profile' = [profile EXCEPT ![poll.acct] = IF @ = "reader" THEN "free" ELSE @]
    /\ reader' = [reader EXCEPT !.req = "none", !.proc = "none"] /\ PollNext
    /\ UNCHANGED <<cycleVars, workVars, session, monitor, down, stops>>

\* close() waits its turn behind the request, then stops the process.
CloseReader ==
    /\ reader.closed = "asked" /\ reader.req # "open"
    /\ reader' = [reader EXCEPT !.proc = "none", !.closed = "done"]
    /\ UNCHANGED <<cycleVars, workVars, diskVars, poll, down, stops>>

(***************************************************************************)
(* The environment                                                         *)
(***************************************************************************)
SessionExpires ==
    /\ \E a \in session : session' = session \ {a}
    /\ UNCHANGED <<cycleVars, workVars, monitor, profile, readVars, down, stops>>

Shutdown ==
    /\ ~down /\ down' = TRUE /\ reader' = [reader EXCEPT !.closed = "asked"]
    /\ UNCHANGED <<cycleVars, workVars, diskVars, poll, stops>>

Cycle == Prepare \/ PrepareFails \/ StartCheck \/ SkipRest \/ Consume \/ CheckEnds
         \/ RunLost \/ Recorded
Worker == Launch \/ LaunchFails \/ Login \/ MobileChallenge \/ SliderChallenge
          \/ Authenticated
          \/ Verified \/ Collected \/ WorkerFails \/ Killed
          \/ \E a \in Accounts : OrphanExits(a)
Poll == PollStart \/ PollAccount \/ PollEnds \/ Fetched \/ Blocked \/ ReadRequest
        \/ ReadOpens \/ ReadOk \/ ReadDead \/ ReadFails \/ CloseReader
Environment == RunCycle \/ Grant \/ StopCycle \/ CheckTimeout
               \/ SessionExpires \/ Shutdown \/ \E a \in Accounts : ChallengeExpires(a)

Next == Cycle \/ Worker \/ Poll \/ Environment

Spec == Init /\ [][Next]_vars

(***************************************************************************)
(* Fairness: the awaits of a cycle settle; the total timeout fires and the *)
(* hard kill follows it; the grant loop goes round and finds no cycle now  *)
(* and then; files are readable and a check is recorded some time when     *)
(* tried again and again.                                                  *)
(***************************************************************************)
Fairness ==
    /\ WF_vars(Cycle) /\ WF_vars(CheckTimeout)
    /\ WF_vars(wk.asked /\ Killed) /\ WF_vars(Poll)
    /\ \A a \in Accounts : WF_vars(OrphanExits(a))
    /\ SF_vars(Grant) /\ SF_vars(todo = Accounts /\ Prepare)
    /\ SF_vars(todo # {acct} /\ Recorded)

FairSpec == Spec /\ Fairness

(***************************************************************************)
(* Properties                                                              *)
(***************************************************************************)
\* One cycle at a time, and so one worker on the debugging port: a cycle is
\* never replaced before its `finally' ran, by the operator, the grant loop
\* or a heal that starts while another caller awaits the settings.
OneCycle ==
    [][pc # "idle" /\ pc' = "load" => pc = "load" /\ todo' = todo]_vars

\* What the dashboard shows as waiting for the operator is a challenge of the
\* worker that is running now: none outlives its check, whether the worker
\* completed it, died or was killed with lines in the pipe.
ChallengesCurrent ==
    \A a \in Accounts : broker[a] # NoChallenge =>
      pc = "check" /\ acct = a /\ broker[a] <= wk.shown

\* Once the transport is closed, no read process is spawned or left behind.
NoReaderAfterClose == reader.closed = "done" => reader.proc = "none"

\* Every enabled account is checked again and again, though a stopped cycle
\* keeps the minute loop from healing sessions and the operator, the heals and
\* failing cycles keep taking the one slot.
AccountsChecked ==
    \A a \in Accounts : []<>(down \/ (pc = "check" /\ acct = a))
=============================================================================
