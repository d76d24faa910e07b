---------------------------- MODULE Screenshots ----------------------------
(***************************************************************************)
(* The screenshots of failed checks (src/screenshot-retention.ts and the   *)
(* worker's capture): written under the account's id and the time, named   *)
(* by the run that is stored afterwards, served by the dashboard, pruned   *)
(* when the process starts and deleted with their account.                 *)
(***************************************************************************)
EXTENDS Naturals, SequencesExt

CONSTANTS
    Owners,              \* account ids: sequences of what their hyphens separate
    Retention,           \* 14 days
    MaxNow, MaxRemovals, MaxFaults   \* bounds

VARIABLES
    now,
    root,                \* the directory as it is on disk
    shots,               \* its files: owner, time and whether they are complete
    named,               \* the screenshots that a run names
    pass,                \* a prune or a removal that goes through the directory
    worker,              \* the capture of a worker
    served,              \* what the dashboard answered with
    swept, due, cut,     \* taken by a removal; to be taken by it; cut short
    removals, faults     \* for the bounds

vars == <<now, root, shots, named, pass, worker, served, swept, due, cut, removals, faults>>

\* Absent, with other permissions, as it should be, or replaced by a link.
Roots == {"missing", "loose", "secure", "link"}
NoPass == [op |-> "none", left |-> {}, own |-> {}]
NoCapture == [at |-> "none"]
NameOf(s) == [owner |-> s.owner, at |-> s.at]
NamesOf(set) == {NameOf(s) : s \in set}

TypeOK ==
    /\ root \in Roots /\ now \in 0 .. MaxNow
    /\ \A s \in shots : s.owner \in Owners /\ s.at \in 0 .. now /\ s.whole \in BOOLEAN
    /\ pass.op \in {"none", "prune", "remove"} /\ pass.left \subseteq [owner : Owners, at : Nat]

\* After the first prune.
Init ==
    /\ now = 0 /\ root \in {"secure", "link"} /\ shots = {} /\ named = {}
    /\ pass = NoPass /\ worker = NoCapture
    /\ served = {} /\ swept = {} /\ due = {} /\ cut = {}
    /\ removals = 0 /\ faults = 0

Fault == faults < MaxFaults /\ faults' = faults + 1
\* The prune is awaited before any check and any request.
Up == pass.op # "prune"

\* Who writes into the directory creates it and sets its mode, the others take it as
\* it is; a link, here or above, is refused to all.
openSecureScreenshotRoot(createIfMissing) ==
    IF createIfMissing /\ root \in {"missing", "loose"} THEN "secure" ELSE root
isSecure == openSecureScreenshotRoot(FALSE) = "secure"

\* Someone restores the directory, or moves it.
rootChanges ==
    /\ Fault /\ root' \in Roots \ {root}
    /\ root' \in {"secure", "loose"} \/ shots = {}
    /\ UNCHANGED <<now, shots, named, pass, worker, served, swept, due, cut, removals>>

(***************************************************************************)
(* A capture: created under a name of its own, written, named by the run   *)
(***************************************************************************)
startCapture(owner) ==
    /\ Up /\ worker.at = "none" /\ now < MaxNow /\ now' = now + 1
    /\ root' = openSecureScreenshotRoot(TRUE)
    /\ IF root' = "secure"
       THEN /\ shots' = shots \cup {[owner |-> owner, at |-> now', whole |-> FALSE]}
            /\ worker' = [at |-> "open", owner |-> owner, time |-> now']
       ELSE UNCHANGED <<shots, worker>>
    /\ UNCHANGED <<named, pass, served, swept, due, cut, removals, faults>>

Captured == {s \in shots : worker.at # "none" /\ s.owner = worker.owner /\ s.at = worker.time}

\* Mutant: what could not be written stays.
CleanedKept(captured) == {}
\* A write that fails takes its file away.
Cleaned(captured) == captured

writeScreenshot ==
    /\ worker.at = "open"
    /\ \/ /\ shots' = (shots \ Captured) \cup {[s EXCEPT !.whole = TRUE] : s \in Captured}
          /\ worker' = [worker EXCEPT !.at = "written"] /\ UNCHANGED faults
       \/ Fault /\ shots' = shots \ Cleaned(Captured) /\ worker' = NoCapture
    /\ UNCHANGED <<now, root, named, pass, served, swept, due, cut, removals>>

\* The run is stored with the path, whatever became of the file by then.
saveRun ==
    /\ worker.at = "written" /\ worker' = NoCapture
    /\ named' = named \cup {[owner |-> worker.owner, at |-> worker.time]}
    /\ UNCHANGED <<now, root, shots, pass, served, swept, due, cut, removals, faults>>

CutShort == NamesOf({s \in Captured : ~s.whole})

\* A stop or a timeout kills the worker wherever it is.
killed ==
    /\ worker.at # "none" /\ Fault /\ worker' = NoCapture
    /\ cut' = cut \cup CutShort
    /\ UNCHANGED <<now, root, shots, named, pass, served, swept, due, removals>>

\* The dashboard links what the runs name.
Linked(s) == NameOf(s) \in named
\* A refused root and a missing file are errors.
readSecureScreenshotFile(s) == isSecure /\ s \notin served /\ served' = served \cup {s}

getScreenshot(s) ==
    /\ Up /\ Linked(s) /\ readSecureScreenshotFile(s)
    /\ UNCHANGED <<now, root, shots, named, pass, worker, swept, due, cut, removals, faults>>

(***************************************************************************)
(* Removal and prune list the directory, then unlink the files one by one  *)
(***************************************************************************)
\* Mutant: only what a run names.
OfNamed(id) == {n \in named : n.owner = id}
\* All that begin with the id and a hyphen: those of a longer id as well.
Of(id) == NamesOf({s \in shots : IsPrefix(id, s.owner)})

deleteAccountScreenshots(id) ==
    /\ pass.op = "none" /\ removals < MaxRemovals /\ removals' = removals + 1
    /\ isSecure
    /\ pass' = [op |-> "remove", left |-> Of(id),
                own |-> NamesOf({s \in shots : s.owner = id})]
    /\ UNCHANGED <<now, root, shots, named, worker, served, swept, due, cut, faults>>

\* Mutant: the day of the cutoff goes too.
ExpiredAtCutoff(s) == s.at + Retention <= now
\* The time in the name is before the cutoff.
Expired(s) == s.at + Retention < now

\* The process ends, and with it all that is under way; the next one prunes, if the
\* root is not refused.
pruneOnce ==
    /\ Fault
    /\ root' = openSecureScreenshotRoot(TRUE)
    /\ pass' = IF root' = "secure"
               THEN [op |-> "prune", left |-> NamesOf({s \in shots : Expired(s)}), own |-> {}]
               ELSE NoPass
    /\ worker' = NoCapture /\ cut' = cut \cup CutShort
    /\ UNCHANGED <<now, shots, named, served, swept, due, removals>>

unlinkNext ==
    /\ \E n \in pass.left :
         /\ shots' = {s \in shots : NameOf(s) # n}
         /\ pass' = [pass EXCEPT !.left = @ \ {n}]
         /\ swept' = IF pass.op = "remove" THEN swept \cup {n} ELSE swept
    /\ UNCHANGED <<now, root, named, worker, served, due, cut, removals, faults>>

\* All is done, or a file cannot be unlinked: the rest stays, which is logged or ignored.
passEnds ==
    /\ pass.op # "none" /\ pass' = NoPass
    /\ \/ pass.left = {} /\ due' = due \cup pass.own /\ UNCHANGED faults
       \/ pass.left # {} /\ Fault /\ UNCHANGED due
    /\ UNCHANGED <<now, root, shots, named, worker, served, swept, cut, removals>>

TimePasses ==
    /\ now < MaxNow /\ now' = now + 1
    /\ UNCHANGED <<root, shots, named, pass, worker, served, swept, due, cut, removals, faults>>

Next ==
    \/ \E o \in Owners : startCapture(o) \/ deleteAccountScreenshots(o)
    \/ \E s \in shots : getScreenshot(s)
    \/ writeScreenshot \/ saveRun \/ killed \/ unlinkNext \/ passEnds \/ pruneOnce
    \/ rootChanges \/ TimePasses

Spec == Init /\ [][Next]_vars

(***************************************************************************)
(* Properties                                                              *)
(***************************************************************************)
\* What a run names is there and whole until it is older than the retention or a
\* removal takes it, and is served whole; a removal that ends leaves nothing the account had when it
\* began; and a screenshot that is not whole is being written or was cut short.
ShotsThere ==
    /\ \A n \in named :
         \/ \E s \in shots : NameOf(s) = n /\ s.whole
         \/ n.at + Retention < now
         \/ n \in swept
    /\ \A s \in served : s.whole
    /\ due \cap NamesOf(shots) = {}
    /\ \A s \in shots : s.whole \/ NameOf(s) \in cut \/ (worker.at = "open" /\ s \in Captured)
=============================================================================
