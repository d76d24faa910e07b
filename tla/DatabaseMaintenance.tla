------------------------- MODULE DatabaseMaintenance -------------------------
(***************************************************************************)
(* The operator's tools on the database of the checks: db-backup.mjs,      *)
(* db-restore.mjs and the clean-up of db-audit.mjs, which deletes the      *)
(* false zero runs after a backup of its own, under the lock files of      *)
(* db-maintenance.mjs.  The server goes on recording runs meanwhile.  A    *)
(* row is a run; the odd ones are false zeros.  Files are named after what *)
(* the operator gives or the clock says, so two may get one name; tools    *)
(* may die anywhere, and then leave their lock files behind.               *)
(***************************************************************************)
EXTENDS Naturals, FiniteSets

CONSTANTS Tools, Names, MaxRuns, MaxDeaths

VARIABLES live, copies, locks, writer, tool, removed, deaths

vars == <<live, copies, locks, writer, tool, removed, deaths>>

\* acquireMaintenanceLocks sorts the directories; the backups lie in one, the
\* database and what is restored in the other.
Directories == <<"backups", "data">>

Rest == [op |-> "none", at |-> "rest"]

Nobody == 0

\* No file of that name.
Absent == {0}

FalseZero(run) == run % 2 = 1

Init ==
    /\ live = {1} /\ copies = [name \in Names |-> Absent]
    /\ locks = {} /\ writer = Nobody
    /\ tool = [t \in Tools |-> Rest]
    /\ removed = {} /\ deaths = 0

\* The server records a run; a transaction that writes makes it wait.
Record ==
    /\ writer = Nobody
    /\ Cardinality(live \cup removed) < MaxRuns
    /\ live' = live \cup {Cardinality(live \cup removed) + 1}
    /\ UNCHANGED <<copies, locks, writer, tool, removed, deaths>>

-----------------------------------------------------------------------------

Moves(t, state) == tool' = [tool EXCEPT ![t] = state]

\* The finally clauses: an open transaction is rolled back, the locks are
\* released; the staged file is removed.
Ends(t) ==
    /\ Moves(t, Rest)
    /\ writer' = IF writer = t THEN Nobody ELSE writer
    /\ locks' = locks \ tool[t].held
    /\ UNCHANGED deaths

\* A tool is called; the name of the target is the operator's or the clock's.
Call(t) ==
    /\ tool[t] = Rest
    /\ \E op \in {"backup", "restore", "clean"}, name \in Names, source \in Names:
           /\ op = "restore" => copies[source] # Absent /\ source # name
           /\ Moves(t, [op |-> op, at |-> "lock", name |-> name, held |-> {},
                        source |-> IF op = "restore" THEN source ELSE name, staged |-> {}])
    /\ UNCHANGED <<live, copies, locks, writer, removed, deaths>>

\* One lock file, created exclusively; if it is there the tool gives up.
Lock(t) ==
    /\ tool[t].at = "lock"
    /\ LET first == tool[t].held = {}
           next == IF first THEN Directories[1] ELSE Directories[2]
       IN  IF next \in locks
           THEN Ends(t)
           ELSE /\ locks' = locks \cup {next}
                /\ Moves(t, [tool[t] EXCEPT !.held = @ \cup {next},
                       !.at = IF first THEN "lock"
                              ELSE IF tool[t].op = "clean" THEN "begin" ELSE "check"])
                /\ UNCHANGED <<writer, deaths>>
    /\ UNCHANGED <<live, copies, removed>>

\* runLegacyAudit: BEGIN IMMEDIATE, so that nobody writes until the COMMIT;
\* BeginLater takes the write lock with the DELETE only.  Without false zeros
\* it commits at once.
BeginLater(t) ==
    /\ tool[t].at = "begin" /\ writer = Nobody
    /\ IF \E run \in live: FalseZero(run)
       THEN Moves(t, [tool[t] EXCEPT !.at = "check"]) /\ UNCHANGED <<locks, writer, deaths>>
       ELSE Ends(t)
    /\ UNCHANGED <<live, copies, removed>>

Begin(t) ==
    /\ tool[t].at = "begin" /\ writer = Nobody
    /\ IF \E run \in live: FalseZero(run)
       THEN /\ Moves(t, [tool[t] EXCEPT !.at = "check"]) /\ writer' = t
            /\ UNCHANGED <<locks, deaths>>
       ELSE Ends(t)
    /\ UNCHANGED <<live, copies, removed>>

\* assertDestinationClean, first and again after the snapshot.
Clean(t) == copies[tool[t].name] = Absent

Check(t) ==
    /\ tool[t].at = "check"
    /\ IF Clean(t)
       THEN Moves(t, [tool[t] EXCEPT !.at = "snapshot"]) /\ UNCHANGED <<locks, writer, deaths>>
       ELSE Ends(t)
    /\ UNCHANGED <<live, copies, removed>>

\* VACUUM INTO the staged file: what is committed in the database, or the
\* backup that is restored.
Snapshot(t) ==
    /\ tool[t].at = "snapshot"
    /\ Moves(t, [tool[t] EXCEPT !.at = "publish",
                     !.staged = IF tool[t].op = "restore" THEN copies[tool[t].source] ELSE live])
    /\ UNCHANGED <<live, copies, locks, writer, removed, deaths>>

\* link refuses an existing target.
Publish(t) ==
    /\ tool[t].at = "publish"
    /\ IF Clean(t)
       THEN /\ copies' = [copies EXCEPT ![tool[t].name] = tool[t].staged]
            /\ Moves(t, [tool[t] EXCEPT !.at = "finish"])
            /\ UNCHANGED <<locks, writer, deaths>>
       ELSE Ends(t) /\ UNCHANGED copies
    /\ UNCHANGED <<live, removed>>

\* The checks after the publication, and for the clean-up the DELETE with the
\* predicate of now, and the COMMIT.
Finish(t) ==
    /\ tool[t].at = "finish"
    /\ IF tool[t].op = "clean"
       THEN /\ live' = {run \in live: ~FalseZero(run)}
            /\ removed' = removed \cup {run \in live: FalseZero(run)}
       ELSE UNCHANGED <<live, removed>>
    /\ Ends(t)
    /\ UNCHANGED copies

\* A file of that name appears by other means, a copy of the database.
Appear(name) ==
    /\ copies[name] = Absent
    /\ copies' = [copies EXCEPT ![name] = live]
    /\ UNCHANGED <<live, locks, writer, tool, removed, deaths>>

\* A tool dies: SQLite rolls its transaction back, its lock files stay.
Die(t) ==
    /\ tool[t] # Rest /\ deaths < MaxDeaths
    /\ Moves(t, Rest) /\ deaths' = deaths + 1
    /\ writer' = IF writer = t THEN Nobody ELSE writer
    /\ UNCHANGED <<live, copies, locks, removed>>

\* The operator removes lock files that no running tool holds.
Unlock ==
    /\ locks # {} /\ \A t \in Tools: tool[t] # Rest => tool[t].held = {}
    /\ locks' = {}
    /\ UNCHANGED <<live, copies, writer, tool, removed, deaths>>

Next ==
    \/ Record \/ Unlock \/ \E name \in Names: Appear(name)
    \/ \E t \in Tools:
           \/ Call(t) \/ Lock(t) \/ Begin(t) \/ Check(t)
           \/ Snapshot(t) \/ Publish(t) \/ Finish(t) \/ Die(t)

Spec == Init /\ [][Next]_vars

-----------------------------------------------------------------------------

\* Every run that the clean-up deleted is in a published copy
\* (db-audit.mjs:261-278): the server may record another false zero between
\* the backup and the DELETE, another tool may publish under the same name,
\* and a tool may die at any step.
DeletedBackedUp == \A run \in removed: \E name \in Names: run \in copies[name]
=============================================================================
