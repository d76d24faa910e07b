------------------------------ MODULE LiveView ------------------------------
(***************************************************************************)
(* How the dashboard (src/web/dashboard.js) keeps the observatory's data   *)
(* up to date: the event stream schedules a refresh of the families of an  *)
(* event, a timer that re-arms itself refreshes behind it, a ticker polls  *)
(* the live snapshot, and the user's reloads run beside them.  Answers are *)
(* applied as they come, an older one over a newer one too.                *)
(***************************************************************************)
EXTENDS Naturals

CONSTANTS
    MaxChanges,      \* bound: changes on the server
    MaxFailures,     \* bound: requests that fail, events and streams that are lost
    MaxLoads         \* bound: loadObservatory, and the refresh buttons

VARIABLES
    version,         \* the server's data
    data,            \* state.observatory
    fetches,         \* what each requester waits for
    pending, timer,  \* pendingRefreshFamilies and fallbackTimer
    stream, wire,    \* the EventSource, and the events it has not handed over
    changes, failures, loads  \* for the bounds

vars == <<version, data, fetches, pending, timer, stream, wire, changes, failures, loads>>

\* `quotas' stands for the families of the live snapshot, `events' for the others.
Families == {"quotas", "events"}
Live == {"quotas"}
Requesters == {"timer", "ticker", "load"}
Waiting == MaxChanges + 1      \* a request not answered
Failed == MaxChanges + 2       \* null: an error
Idle == [asked |-> {}, answers |-> [f \in Families |-> Waiting]]

TypeOK ==
    /\ version \in [Families -> 0 .. MaxChanges] /\ data \in [Families -> 0 .. MaxChanges]
    /\ \A r \in Requesters : fetches[r].asked \subseteq Families
    /\ pending \subseteq Families /\ timer \in BOOLEAN
    /\ stream \in {"open", "retry"} /\ wire \subseteq Families

Init ==
    /\ version = [f \in Families |-> 0] /\ data = [f \in Families |-> 0]
    /\ fetches = [r \in Requesters |-> Idle]
    /\ pending = {} /\ timer = FALSE
    /\ stream = "retry" /\ wire = {}
    /\ changes = 0 /\ failures = 0 /\ loads = 0

(***************************************************************************)
(* The stream                                                              *)
(***************************************************************************)
eventRefreshFamilies(f) == {f, "events"}

\* The event of a change goes out on an open stream only.
Change(f) ==
    /\ changes < MaxChanges /\ changes' = changes + 1
    /\ version' = [g \in Families |->
                     IF g \in eventRefreshFamilies(f) THEN version[g] + 1 ELSE version[g]]
    /\ wire' = IF stream = "open" THEN wire \cup {f} ELSE wire
    /\ UNCHANGED <<data, fetches, pending, timer, stream, failures, loads>>

handleStreamEvent(f) ==
    /\ f \in wire /\ wire' = wire \ {f}
    /\ pending' = pending \cup eventRefreshFamilies(f)
    /\ timer' = TRUE
    /\ UNCHANGED <<version, data, fetches, stream, changes, failures, loads>>

\* onopen and onerror schedule a refresh of their own.
connectObservatoryStream ==
    /\ stream = "retry" /\ stream' = "open" /\ timer' = TRUE
    /\ UNCHANGED <<version, data, fetches, pending, wire, changes, failures, loads>>

StreamFails ==
    /\ stream = "open" /\ failures < MaxFailures
    /\ stream' = "retry" /\ wire' = {} /\ timer' = TRUE
    /\ failures' = failures + 1
    /\ UNCHANGED <<version, data, fetches, pending, changes, loads>>

(***************************************************************************)
(* Requests                                                                *)
(***************************************************************************)
Ask(r, families) ==
    fetches' = [fetches EXCEPT ![r] = [Idle EXCEPT !.asked = families]]
InFlight(r) == fetches[r].asked # {}

\* A refresh under way puts the timer off.
scheduleObservatoryRefresh ==
    /\ timer
    /\ IF InFlight("timer")
       THEN UNCHANGED <<fetches, pending, timer>>
       ELSE /\ Ask("timer", IF pending = {} THEN Families ELSE pending)
            /\ pending' = {} /\ timer' = FALSE
    /\ UNCHANGED <<version, data, stream, wire, changes, failures, loads>>

startLiveTicker ==
    /\ ~InFlight("ticker") /\ Ask("ticker", Live)
    /\ UNCHANGED <<version, data, pending, timer, stream, wire, changes, failures, loads>>

loadObservatory(families) ==
    /\ ~InFlight("load") /\ loads < MaxLoads /\ loads' = loads + 1
    /\ Ask("load", families)
    /\ UNCHANGED <<version, data, pending, timer, stream, wire, changes, failures>>

Missing(r) == {f \in fetches[r].asked : fetches[r].answers[f] = Waiting}

Answer(r, f) ==
    /\ f \in Missing(r)
    /\ \E v \in {version[f], Failed} :
        /\ v = Failed => failures < MaxFailures
        /\ failures' = IF v = Failed THEN failures + 1 ELSE failures
        /\ fetches' = [fetches EXCEPT ![r].answers[f] = v]
    /\ UNCHANGED <<version, data, pending, timer, stream, wire, changes, loads>>

\* Mutant: a refresh whose request failed does not arm the timer again.
RearmedIfSound(r) ==
    \/ timer
    \/ r = "timer" /\ \A f \in fetches[r].asked : fetches[r].answers[f] # Failed
\* The `finally' of the timer's refresh.
Rearmed(r) == timer \/ r = "timer"

\* Promise.all: every answer is applied once the last is in.
refreshObservatoryFamilies(r) ==
    /\ InFlight(r) /\ Missing(r) = {}
    /\ data' = [f \in Families |->
                  IF f \in fetches[r].asked /\ fetches[r].answers[f] # Failed
                  THEN fetches[r].answers[f] ELSE data[f]]
    /\ fetches' = [fetches EXCEPT ![r] = Idle]
    /\ timer' = Rearmed(r)
    /\ UNCHANGED <<version, pending, stream, wire, changes, failures, loads>>

Next ==
    \/ \E f \in Families : Change(f) \/ handleStreamEvent(f)
    \/ connectObservatoryStream \/ StreamFails
    \/ scheduleObservatoryRefresh \/ startLiveTicker
    \/ \E families \in {{"quotas"}, {"events"}, Families} : loadObservatory(families)
    \/ \E r \in Requesters : refreshObservatoryFamilies(r) \/ \E f \in Families : Answer(r, f)

Spec == Init /\ [][Next]_vars

\* Timers of the page fire, the browser hands events over, reconnects, and settles
\* every request.
Fairness ==
    /\ WF_vars(connectObservatoryStream) /\ WF_vars(scheduleObservatoryRefresh)
    /\ \A f \in Families : WF_vars(handleStreamEvent(f))
    /\ \A r \in Requesters : /\ WF_vars(refreshObservatoryFamilies(r))
                             /\ \A f \in Families : WF_vars(Answer(r, f))

FairSpec == Spec /\ Fairness

\* Whatever the stream loses and in whatever order the answers come, the page ends up
\* with the server's data once that stops changing.
Refreshed == <>[](data = version)
=============================================================================
