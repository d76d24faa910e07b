---------------------------- MODULE AccountFiles ----------------------------
(***************************************************************************)
(* The accounts and the sessions kept of each on disk: the account file    *)
(* (src/accounts.ts), which every editor reads, changes and replaces       *)
(* without a lock, and the saved sessions and the browser profile, which   *)
(* the worker of a check writes (scripts/agentrouter-worker.mjs) and the   *)
(* removal of the account deletes one after the other (src/dashboard.ts).  *)
(***************************************************************************)
EXTENDS Naturals, SequencesExt

CONSTANTS
    Usernames,           \* GitHub names: sequences of what their hyphens separate
    Editors,             \* requests to the dashboard under way at a time
    MaxAccounts,         \* 100
    MaxEdits, MaxChecks, MaxFaults   \* bounds

VARIABLES
    accounts,            \* the account file
    jobs,                \* of the editors and of the cycle that saves a token
    cycle,               \* the accounts loaded for a cycle, `running', and its worker
    files,               \* what the workers wrote: kind, id and account it was for
    born,                \* accounts ever added; each has its number
    excused,             \* ids with a removal that was cut short or overlapped
    edits, checks, faults

vars == <<accounts, jobs, cycle, files, born, excused, edits, checks, faults>>

Kinds == {"state", "monitor", "profile"}
NoId == <<>>
NoJob == [op |-> "none"]
NoCycle == [running |-> FALSE, selected |-> <<>>, at |-> "idle"]
Writers == Editors \cup {"cycle"}

IdsOf(list) == {list[i].id : i \in DOMAIN list}
Numbers(list) == {list[i].number : i \in DOMAIN list}

TypeOK ==
    /\ Len(accounts) <= MaxAccounts /\ Numbers(accounts) \subseteq 1 .. born
    /\ cycle.at \in {"idle", "loaded", "check", "token"}
    /\ \A f \in files : f.kind \in Kinds /\ f.number \in 1 .. born

Init ==
    /\ accounts = <<>> /\ jobs = [w \in Writers |-> NoJob] /\ cycle = NoCycle
    /\ files = {} /\ born = 0 /\ excused = {}
    /\ edits = 0 /\ checks = 0 /\ faults = 0

Fault == faults < MaxFaults /\ faults' = faults + 1

(***************************************************************************)
(* The account file                                                        *)
(***************************************************************************)
\* The name, with a random part behind it if the id is taken.
createId(user, existing) ==
    IF user \in IdsOf(existing) THEN Append(user, ToString(born + 1)) ELSE user

\* A name and a password, of the request or of the account as it was.
validateStoredAccount(account) == account.user # NoId /\ account.password

Known(list, requested) == SelectInSeq(list, LAMBDA a : a.id = requested)

\* The account that is asked for; a new one may bring an id, and gets one otherwise.
Requested(list, requested, user, password) ==
    LET known == Known(list, requested)
    IN  IF known = 0
        THEN [id |-> IF requested = NoId THEN createId(user, list) ELSE requested,
              user |-> user, password |-> password, number |-> born + 1]
        ELSE [list[known] EXCEPT !.user = IF user = NoId THEN @ ELSE user]

\* The accounts with this one in the place of the one that was named, or at the end.
Upserted(list, requested, account) ==
    LET known == Known(list, requested)
    IN  IF known > 0 THEN [list EXCEPT ![known] = account] ELSE Append(list, account)

\* No two accounts share an id or a name, and they are not too many.
normalizeFile(list) ==
    /\ Len(list) <= MaxAccounts
    /\ \A i, j \in DOMAIN list : list[i].id = list[j].id \/ list[i].user = list[j].user => i = j

\* load: the file as it is now.  What is written later is the file of then, changed.
upsert(e, requested, user, password) ==
    /\ jobs[e].op = "none" /\ edits < MaxEdits /\ edits' = edits + 1
    /\ LET account == Requested(accounts, requested, user, password)
           list == Upserted(accounts, requested, account)
       IN  /\ validateStoredAccount(account) /\ normalizeFile(list)
           /\ jobs' = [jobs EXCEPT ![e] = [op |-> "upsert", list |-> list, stale |-> FALSE]]
           /\ born' = IF Len(list) > Len(accounts) THEN born + 1 ELSE born
    /\ UNCHANGED <<accounts, cycle, files, excused, checks, faults>>

Removing == {jobs[w].id : w \in {v \in Writers : jobs[v].op = "remove"}}
Selected == IdsOf(cycle.selected)

\* Mutant: a check under way is no obstacle.
MayRemoveAlways == TRUE
MayRemove == ~cycle.running

\* DELETE looks at the coordinator once: a cycle that has loaded its accounts runs later.
\* The file has an id once, so that one account is filtered out.
remove(e, id) ==
    /\ jobs[e].op = "none" /\ MayRemove
    /\ id \in IdsOf(accounts) \ Removing
    /\ jobs' = [jobs EXCEPT ![e] = [op |-> "remove", id |-> id, next |-> "file", stale |-> FALSE,
                                    list |-> RemoveAt(accounts, Known(accounts, id))]]
    /\ excused' = IF ~cycle.running /\ id \in Selected THEN excused \cup {id} ELSE excused
    /\ UNCHANGED <<accounts, cycle, files, born, edits, checks, faults>>

Unwritten(j) == j.op \in {"upsert", "token"} \/ (j.op = "remove" /\ j.next = "file")
Outdated(j) == IF Unwritten(j) THEN [j EXCEPT !.stale = TRUE] ELSE j

\* The accounts that are left, or the end of the cycle.
nextAccount ==
    IF Len(cycle.selected) = 1 THEN NoCycle
    ELSE [cycle EXCEPT !.selected = Tail(@), !.at = "loaded"]

\* The file is replaced, with all that another writer did in between.
write(w) ==
    LET j == jobs[w]
    IN  /\ Unwritten(j)
        /\ accounts' = j.list
        /\ jobs' = [v \in Writers |->
                     IF v # w THEN Outdated(jobs[v])
                     ELSE IF j.op # "remove" THEN NoJob
                     ELSE [j EXCEPT !.next = "state", !.list = <<>>, !.stale = FALSE]]
        /\ excused' = IF j.stale THEN excused \cup IdsOf(accounts) \cup IdsOf(j.list)
                      ELSE excused
        /\ cycle' = IF w = "cycle" THEN nextAccount ELSE cycle
        /\ UNCHANGED <<files, born, edits, checks, faults>>

\* Mutant: the monitor's session is left behind.
AfterWithoutMonitor(kind) == [state |-> "profile", profile |-> "done"][kind]
After(kind) == [state |-> "monitor", monitor |-> "profile", profile |-> "done"][kind]

\* The rest of a removal, until the screenshots.  An error other than a missing file
\* is answered at once, and what follows is not done.
deleteFiles(e) ==
    LET j == jobs[e]
        next == After(j.next)
    IN  /\ j.op = "remove" /\ j.next \in Kinds
        /\ \/ /\ files' = {f \in files : ~(f.kind = j.next /\ f.id = j.id)}
              /\ jobs' = [jobs EXCEPT ![e] = IF next = "done" THEN NoJob
                                             ELSE [j EXCEPT !.next = next]]
              /\ UNCHANGED <<excused, faults>>
           \/ /\ Fault /\ excused' = excused \cup {j.id}
              /\ jobs' = [jobs EXCEPT ![e] = NoJob] /\ UNCHANGED files
        /\ UNCHANGED <<accounts, cycle, born, edits, checks>>

(***************************************************************************)
(* A cycle and its workers                                                 *)
(***************************************************************************)
\* The accounts are loaded before the coordinator is seen running.
loadAccounts ==
    /\ cycle.at = "idle" /\ checks < MaxChecks /\ checks' = checks + 1
    /\ \E list \in {accounts} \cup {<<accounts[i]>> : i \in DOMAIN accounts} :
         /\ list # <<>>
         /\ cycle' = [NoCycle EXCEPT !.selected = list, !.at = "loaded"]
         /\ excused' = excused \cup (Removing \cap IdsOf(list))
    /\ UNCHANGED <<accounts, jobs, files, born, edits, faults>>

startCheck ==
    /\ cycle.at = "loaded"
    /\ cycle' = [cycle EXCEPT !.running = TRUE, !.at = "check"]
    /\ UNCHANGED <<accounts, jobs, files, born, excused, edits, checks, faults>>

Account == Head(cycle.selected)
File(kind) == [kind |-> kind, id |-> Account.id, number |-> Account.number]
\* A session replaces the one before, a profile holds what the browser ever put there.
Written(kind) ==
    {f \in files : f.kind = "profile" \/ ~(f.kind = kind /\ f.id = Account.id)}
        \cup {File(kind)}

\* Launch, sign-in and capture of the session, in this order; a logout drops the last.
runWorker ==
    /\ cycle.at = "check"
    /\ \/ files' = Written("profile")
       \/ File("profile") \in files /\ files' = Written("state")
       \/ File("state") \in files /\ files' = Written("monitor")
       \/ files' = {f \in files : ~(f.kind = "monitor" /\ f.id = Account.id)}
    /\ files' # files
    /\ UNCHANGED <<accounts, jobs, cycle, born, excused, edits, checks, faults>>

\* The check ends, killed or not.  The token it found is saved into the file as it is
\* by then, if the account is still in it.
checkEnds ==
    /\ cycle.at = "check"
    /\ \/ /\ Account.id \in IdsOf(accounts)
          /\ jobs' = [jobs EXCEPT !["cycle"] = [op |-> "token", list |-> accounts,
                                                stale |-> FALSE]]
          /\ cycle' = [cycle EXCEPT !.at = "token"]
       \/ cycle' = nextAccount /\ UNCHANGED jobs
    /\ UNCHANGED <<accounts, files, born, excused, edits, checks, faults>>

\* The process ends and is started again.
Restart ==
    /\ Fault
    /\ jobs' = [w \in Writers |-> NoJob] /\ cycle' = NoCycle
    /\ excused' = excused \cup Removing
    /\ UNCHANGED <<accounts, files, born, edits, checks>>

Next ==
    \/ \E e \in Editors :
         \/ \E requested \in {NoId} \cup Usernames \cup IdsOf(accounts),
               user \in {NoId} \cup Usernames, password \in BOOLEAN :
                 upsert(e, requested, user, password)
         \/ \E id \in IdsOf(accounts) : remove(e, id)
         \/ deleteFiles(e)
    \/ \E w \in Writers : write(w)
    \/ loadAccounts \/ startCheck \/ runWorker \/ checkEnds
    \/ Restart

Spec == Init /\ [][Next]_vars

(***************************************************************************)
(* Properties                                                              *)
(***************************************************************************)
\* However the writers interleave, the file can be loaded again; and an account never
\* finds the sessions or the profile of another that had its id before, unless the
\* removal of that one failed, ended with the process, or overlapped with a check of
\* it or another edit of the file.
FilesKept ==
    /\ normalizeFile(accounts)
    /\ \A i \in DOMAIN accounts :
         LET a == accounts[i]
         IN  a.id \notin excused \cup Removing =>
               \A f \in files : f.id = a.id => f.number = a.number
=============================================================================
