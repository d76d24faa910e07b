---------------------- MODULE DatabaseMaintenanceProofs ----------------------
(***************************************************************************)
(* That the clean-up of the database deletes nothing it has not backed up, *)
(* for any number of tools, names, runs and deaths.                        *)
(***************************************************************************)
EXTENDS DatabaseMaintenance, FiniteSetTheorems, TLAPS

\* What a tool remembers.
States ==
    [op : {"backup", "restore", "clean"},
     at : {"lock", "begin", "check", "snapshot", "publish", "finish"},
     name : Names, held : SUBSET {"backups", "data"}, source : Names, staged : SUBSET Nat]

MaintenanceType ==
    /\ tool \in [Tools -> States \cup {Rest}]
    /\ copies \in [Names -> SUBSET Nat]
    /\ live \in SUBSET (Nat \ {0}) /\ IsFiniteSet(live)
    /\ removed \in SUBSET (Nat \ {0}) /\ IsFiniteSet(removed)

Cleaning(t, places) == tool[t].op = "clean" /\ tool[t].at \in places

\* From its BEGIN IMMEDIATE to its COMMIT the clean-up holds the write lock, so
\* that what it staged, and then published, is what is in the database.
WriterInv ==
    \A t \in Tools :
        /\ Cleaning(t, {"check", "snapshot", "publish", "finish"}) => writer = t
        /\ Cleaning(t, {"publish"}) => tool[t].staged = live
        /\ Cleaning(t, {"finish"}) => copies[tool[t].name] = live

MaintenanceInv == MaintenanceType /\ WriterInv /\ DeletedBackedUp

-----------------------------------------------------------------------------

\* The database holds a run, and no tool is at work.
LEMMA MaintenanceInit == Init => MaintenanceInv
<1> SUFFICES ASSUME Init PROVE MaintenanceInv
  OBVIOUS
<1>1. IsFiniteSet({1}) /\ IsFiniteSet({})
  BY FS_EmptySet, FS_Singleton
<1>2. MaintenanceType
  BY <1>1 DEF Init, MaintenanceType, Absent
<1>3. WriterInv /\ DeletedBackedUp
  BY DEF Init, WriterInv, DeletedBackedUp, Cleaning, Rest
<1> QED
  BY <1>2, <1>3 DEF MaintenanceInv

\* A tool that moves to a state it may remember, or to rest, keeps the type.
LEMMA MovesTyped ==
    ASSUME MaintenanceType, NEW t \in Tools, NEW state \in States \cup {Rest}, Moves(t, state)
    PROVE  tool' \in [Tools -> States \cup {Rest}]
BY DEF MaintenanceType, Moves

\* A tool that is at work remembers where.
LEMMA AtWork ==
    ASSUME MaintenanceType, NEW t \in Tools, tool[t].at # "rest"
    PROVE  tool[t] \in States
BY DEF MaintenanceType, Rest

\* The new run has a number that a set of that size need not hold.
LEMMA NextRun ==
    ASSUME MaintenanceType
    PROVE  Cardinality(live \cup removed) + 1 \in Nat \ {0}
<1>1. IsFiniteSet(live \cup removed)
  BY FS_Union DEF MaintenanceType
<1>2. Cardinality(live \cup removed) \in Nat
  BY <1>1, FS_CardinalityType
<1> QED
  BY <1>2

\* Every step keeps the type.
LEMMA MaintenanceTyped ==
    ASSUME MaintenanceType, [Next]_vars
    PROVE  MaintenanceType'
<1> USE DEF MaintenanceType
<1>1. CASE Record
  <2>1. IsFiniteSet(live')
    BY <1>1, FS_AddElement DEF Record
  <2> QED
    BY <1>1, <2>1, NextRun DEF Record
<1>2. CASE Unlock
  BY <1>2 DEF Unlock
<1>3. ASSUME NEW name \in Names, Appear(name) PROVE MaintenanceType'
  BY <1>3 DEF Appear
<1>4. ASSUME NEW t \in Tools, Call(t) PROVE MaintenanceType'
  <2>1. PICK op \in {"backup", "restore", "clean"}, name \in Names, source \in Names :
          Moves(t, [op |-> op, at |-> "lock", name |-> name, held |-> {},
                    source |-> IF op = "restore" THEN source ELSE name, staged |-> {}])
    BY <1>4 DEF Call
  <2>2. tool' \in [Tools -> States \cup {Rest}]
    BY <2>1 DEF Moves, States
  <2> QED
    BY <1>4, <2>2 DEF Call
<1>5. ASSUME NEW t \in Tools, Lock(t) PROVE MaintenanceType'
  <2>1. tool[t] \in States
    BY <1>5, AtWork DEF Lock
  <2> DEFINE next == IF tool[t].held = {} THEN Directories[1] ELSE Directories[2]
             at == IF tool[t].held = {} THEN "lock"
                   ELSE IF tool[t].op = "clean" THEN "begin" ELSE "check"
             locked == [tool[t] EXCEPT !.held = @ \cup {next}, !.at = at]
  <2>2. Moves(t, Rest) \/ Moves(t, locked)
    BY <1>5 DEF Lock, Ends
  <2>3. next \in {"backups", "data"}
    BY DEF Directories
  <2>4. at \in {"lock", "begin", "check"}
    OBVIOUS
  <2> HIDE DEF next, at
  <2>5. locked \in States
    BY <2>1, <2>3, <2>4 DEF States
  <2> HIDE DEF locked
  <2>6. tool' \in [Tools -> States \cup {Rest}]
    BY <2>2, <2>5, MovesTyped
  <2> QED
    BY <1>5, <2>6 DEF Lock
<1>6. ASSUME NEW t \in Tools, Begin(t) PROVE MaintenanceType'
  <2>1. tool[t] \in States
    BY <1>6, AtWork DEF Begin
  <2>2. tool' \in [Tools -> States \cup {Rest}]
    BY <1>6, <2>1 DEF Begin, Ends, Moves, States
  <2> QED
    BY <1>6, <2>2 DEF Begin
<1>7. ASSUME NEW t \in Tools, Check(t) PROVE MaintenanceType'
  <2>1. tool[t] \in States
    BY <1>7, AtWork DEF Check
  <2>2. tool' \in [Tools -> States \cup {Rest}]
    BY <1>7, <2>1 DEF Check, Ends, Moves, States
  <2> QED
    BY <1>7, <2>2 DEF Check
<1>8. ASSUME NEW t \in Tools, Snapshot(t) PROVE MaintenanceType'
  <2>1. tool[t] \in States
    BY <1>8, AtWork DEF Snapshot
  <2>2. live \in SUBSET Nat /\ copies[tool[t].source] \in SUBSET Nat
    BY <2>1 DEF States
  <2>3. tool' \in [Tools -> States \cup {Rest}]
    BY <1>8, <2>1, <2>2 DEF Snapshot, Moves, States
  <2> QED
    BY <1>8, <2>3 DEF Snapshot
<1>9. ASSUME NEW t \in Tools, Publish(t) PROVE MaintenanceType'
  <2>1. tool[t] \in States
    BY <1>9, AtWork DEF Publish
  <2>2. tool' \in [Tools -> States \cup {Rest}]
    BY <1>9, <2>1 DEF Publish, Ends, Moves, States
  <2>3. copies' \in [Names -> SUBSET Nat]
    BY <1>9, <2>1 DEF Publish, States
  <2> QED
    BY <1>9, <2>2, <2>3 DEF Publish
<1>10. ASSUME NEW t \in Tools, Finish(t) PROVE MaintenanceType'
  <2>1. tool' \in [Tools -> States \cup {Rest}]
    BY <1>10 DEF Finish, Ends, Moves
  <2> DEFINE zeros == {run \in live : FalseZero(run)}
             rows  == {run \in live : ~FalseZero(run)}
  <2>2. IsFiniteSet(rows) /\ IsFiniteSet(removed \cup zeros)
    <3>1. zeros \subseteq live /\ rows \subseteq live
      OBVIOUS
    <3>2. IsFiniteSet(zeros) /\ IsFiniteSet(rows)
      BY <3>1, FS_Subset
    <3> QED
      BY <3>2, FS_Union
  <2>3. \/ live' = live /\ removed' = removed
        \/ live' = rows /\ removed' = removed \cup zeros
    BY <1>10 DEF Finish
  <2>4. /\ live' \in SUBSET (Nat \ {0}) /\ IsFiniteSet(live')
        /\ removed' \in SUBSET (Nat \ {0}) /\ IsFiniteSet(removed')
    BY <2>2, <2>3
  <2> QED
    BY <1>10, <2>1, <2>4 DEF Finish
<1>11. ASSUME NEW t \in Tools, Die(t) PROVE MaintenanceType'
  <2>1. tool' \in [Tools -> States \cup {Rest}]
    BY <1>11 DEF Die, Moves
  <2> QED
    BY <1>11, <2>1 DEF Die
<1>12. CASE UNCHANGED vars
  BY <1>12 DEF vars
<1> QED
  BY <1>1, <1>2, <1>3, <1>4, <1>5, <1>6, <1>7, <1>8, <1>9, <1>10, <1>11, <1>12 DEF Next

-----------------------------------------------------------------------------

\* A step of one tool that changes neither the database nor a copy, keeps the
\* write lock unless the tool had it, and leaves the tool where the clean-up
\* needs nothing of it or has what it needs, keeps WriterInv.
LEMMA ToolMoved ==
    ASSUME MaintenanceType, WriterInv, NEW t \in Tools, NEW state, Moves(t, state),
           live' = live, copies' = copies,
           writer' = writer \/ writer = t \/ writer = Nobody, Nobody \notin Tools,
           Cleaning(t, {"check", "snapshot", "publish", "finish"})' => writer' = t,
           Cleaning(t, {"publish"})' => state.staged = live,
           Cleaning(t, {"finish"})' => copies[state.name] = live
    PROVE  WriterInv'
<1> SUFFICES ASSUME NEW u \in Tools
             PROVE  /\ Cleaning(u, {"check", "snapshot", "publish", "finish"})' => writer' = u
                    /\ Cleaning(u, {"publish"})' => tool'[u].staged = live'
                    /\ Cleaning(u, {"finish"})' => copies'[tool'[u].name] = live'
  BY DEF WriterInv
<1>1. CASE u = t
  <2>1. tool'[t] = state
    BY DEF Moves, MaintenanceType
  <2> QED
    BY <1>1, <2>1
<1>2. CASE u # t
  <2>1. tool'[u] = tool[u]
    BY <1>2 DEF Moves, MaintenanceType
  <2>2. Cleaning(u, {"check", "snapshot", "publish", "finish"}) => writer' = u
    BY <1>2 DEF WriterInv
  <2> QED
    BY <2>1, <2>2 DEF WriterInv, Cleaning
<1> QED
  BY <1>1, <1>2

\* What a tool that moves to rest leaves behind.
LEMMA ToolRests ==
    ASSUME MaintenanceType, WriterInv, NEW t \in Tools, Moves(t, Rest),
           live' = live, copies' = copies,
           writer' = IF writer = t THEN Nobody ELSE writer, Nobody \notin Tools
    PROVE  WriterInv'
<1>1. tool'[t] = Rest
  BY DEF Moves, MaintenanceType
<1>2. ~Cleaning(t, {"check", "snapshot", "publish", "finish"})'
      /\ ~Cleaning(t, {"publish"})' /\ ~Cleaning(t, {"finish"})'
  BY <1>1 DEF Cleaning, Rest
<1> QED
  BY <1>2, ToolMoved

\* Every step keeps what the write lock protects.
LEMMA WriterKept ==
    ASSUME MaintenanceType, WriterInv, [Next]_vars, Nobody \notin Tools
    PROVE  WriterInv'
<1>1. CASE Record
  BY <1>1 DEF Record, WriterInv, Cleaning
<1>2. CASE Unlock
  BY <1>2 DEF Unlock, WriterInv, Cleaning
<1>3. ASSUME NEW name \in Names, Appear(name) PROVE WriterInv'
  <2> SUFFICES ASSUME NEW t \in Tools, Cleaning(t, {"finish"})
               PROVE  copies'[tool[t].name] = live
    BY <1>3 DEF Appear, WriterInv, Cleaning
  <2>1. copies[tool[t].name] = live /\ live # Absent
    BY DEF WriterInv, MaintenanceType, Absent
  <2>2. tool[t] \in States
    BY AtWork DEF Cleaning
  <2>3. tool[t].name \in Names
    BY <2>2 DEF States
  <2> QED
    BY <1>3, <2>1, <2>3 DEF Appear, MaintenanceType
<1>4. ASSUME NEW t \in Tools, Call(t) PROVE WriterInv'
  <2>1. PICK op \in {"backup", "restore", "clean"}, name \in Names, source \in Names :
          Moves(t, [op |-> op, at |-> "lock", name |-> name, held |-> {},
                    source |-> IF op = "restore" THEN source ELSE name, staged |-> {}])
    BY <1>4 DEF Call
  <2>2. tool'[t].at = "lock"
    BY <2>1 DEF Moves, MaintenanceType
  <2>3. ~Cleaning(t, {"check", "snapshot", "publish", "finish"})'
        /\ ~Cleaning(t, {"publish"})' /\ ~Cleaning(t, {"finish"})'
    BY <2>2 DEF Cleaning
  <2> QED
    BY <1>4, <2>1, <2>3, ToolMoved DEF Call
<1>5. ASSUME NEW t \in Tools, Lock(t) PROVE WriterInv'
  <2>1. CASE Ends(t)
    BY <1>5, <2>1, ToolRests DEF Lock, Ends
  <2>2. CASE ~Ends(t)
    <3>1. PICK state : /\ Moves(t, state) /\ writer' = writer
                       /\ state.at \in {"lock", "begin"} \/ state.op # "clean"
      <4>1. tool[t] \in States
        BY <1>5, AtWork DEF Lock
      <4> DEFINE next == IF tool[t].held = {} THEN Directories[1] ELSE Directories[2]
                 at == IF tool[t].held = {} THEN "lock"
                       ELSE IF tool[t].op = "clean" THEN "begin" ELSE "check"
                 locked == [tool[t] EXCEPT !.held = @ \cup {next}, !.at = at]
      <4>2. Moves(t, locked) /\ writer' = writer
        BY <1>5, <2>2 DEF Lock
      <4>3. locked.at = at /\ locked.op = tool[t].op
        BY <4>1 DEF States
      <4>4. at \in {"lock", "begin"} \/ tool[t].op # "clean"
        OBVIOUS
      <4> QED
        BY <4>2, <4>3, <4>4
    <3>2. tool'[t] = state
      BY <3>1 DEF Moves, MaintenanceType
    <3>3. ~Cleaning(t, {"check", "snapshot", "publish", "finish"})'
          /\ ~Cleaning(t, {"publish"})' /\ ~Cleaning(t, {"finish"})'
      BY <3>1, <3>2 DEF Cleaning
    <3> QED
      BY <1>5, <3>1, <3>3, ToolMoved DEF Lock
  <2> QED
    BY <2>1, <2>2
<1>6. ASSUME NEW t \in Tools, Begin(t) PROVE WriterInv'
  <2>1. CASE Ends(t)
    BY <1>6, <2>1, ToolRests DEF Begin, Ends
  <2>2. CASE ~Ends(t)
    <3>1. Moves(t, [tool[t] EXCEPT !.at = "check"]) /\ writer = Nobody /\ writer' = t
      BY <1>6, <2>2 DEF Begin
    <3>2. tool[t] \in States
      BY <1>6, AtWork DEF Begin
    <3>3. tool'[t].at = "check"
      BY <3>1, <3>2 DEF Moves, MaintenanceType, States
    <3>4. ~Cleaning(t, {"publish"})' /\ ~Cleaning(t, {"finish"})'
      BY <3>3 DEF Cleaning
    <3> QED
      BY <1>6, <3>1, <3>4, ToolMoved DEF Begin
  <2> QED
    BY <2>1, <2>2
<1>7. ASSUME NEW t \in Tools, Check(t) PROVE WriterInv'
  <2>1. CASE Ends(t)
    BY <1>7, <2>1, ToolRests DEF Check, Ends
  <2>2. CASE ~Ends(t)
    <3>1. Moves(t, [tool[t] EXCEPT !.at = "snapshot"]) /\ writer' = writer
      BY <1>7, <2>2 DEF Check
    <3>2. tool[t] \in States
      BY <1>7, AtWork DEF Check
    <3>3. tool'[t].at = "snapshot" /\ tool'[t].op = tool[t].op
      BY <3>1, <3>2 DEF Moves, MaintenanceType, States
    <3>4. Cleaning(t, {"check", "snapshot", "publish", "finish"})' => writer' = t
      BY <1>7, <3>1, <3>3 DEF Cleaning, Check, WriterInv
    <3>5. ~Cleaning(t, {"publish"})' /\ ~Cleaning(t, {"finish"})'
      BY <3>3 DEF Cleaning
    <3> QED
      BY <1>7, <3>1, <3>4, <3>5, ToolMoved DEF Check
  <2> QED
    BY <2>1, <2>2
<1>8. ASSUME NEW t \in Tools, Snapshot(t) PROVE WriterInv'
  <2> DEFINE taken == IF tool[t].op = "restore" THEN copies[tool[t].source] ELSE live
             state == [tool[t] EXCEPT !.at = "publish", !.staged = taken]
  <2>1. Moves(t, state) /\ writer' = writer
    BY <1>8 DEF Snapshot
  <2>2. tool[t] \in States
    BY <1>8, AtWork DEF Snapshot
  <2>3. state.at = "publish" /\ state.op = tool[t].op /\ state.staged = taken
    BY <2>2 DEF States
  <2>4. tool'[t] = state
    BY <2>1 DEF Moves, MaintenanceType
  <2> HIDE DEF state
  <2>5. Cleaning(t, {"check", "snapshot", "publish", "finish"})' => writer' = t
    BY <1>8, <2>1, <2>3, <2>4 DEF Cleaning, Snapshot, WriterInv
  <2>6. Cleaning(t, {"publish"})' => state.staged = live
    BY <2>3, <2>4 DEF Cleaning
  <2>7. ~Cleaning(t, {"finish"})'
    BY <2>3, <2>4 DEF Cleaning
  <2> QED
    BY <1>8, <2>1, <2>5, <2>6, <2>7, ToolMoved DEF Snapshot
<1>9. ASSUME NEW t \in Tools, Publish(t) PROVE WriterInv'
  <2>1. CASE Clean(t)
    <3>1. /\ copies' = [copies EXCEPT ![tool[t].name] = tool[t].staged]
          /\ Moves(t, [tool[t] EXCEPT !.at = "finish"]) /\ writer' = writer /\ live' = live
      BY <1>9, <2>1 DEF Publish
    <3>2. tool[t] \in States
      BY <1>9, AtWork DEF Publish
    <3>3. tool'[t] = [tool[t] EXCEPT !.at = "finish"]
      BY <3>1 DEF Moves, MaintenanceType
    <3>4. /\ tool'[t].at = "finish" /\ tool'[t].op = tool[t].op
          /\ tool'[t].name = tool[t].name /\ tool[t].name \in Names
      BY <3>2, <3>3 DEF States
    <3>5. Cleaning(t, {"finish"})' => writer = t /\ tool[t].staged = live
      BY <1>9, <3>4 DEF Cleaning, Publish, WriterInv
    <3>6. copies'[tool[t].name] = tool[t].staged
      BY <3>1, <3>4 DEF MaintenanceType
    <3> SUFFICES ASSUME NEW u \in Tools
                 PROVE  /\ Cleaning(u, {"check", "snapshot", "publish", "finish"})' => writer' = u
                        /\ Cleaning(u, {"publish"})' => tool'[u].staged = live'
                        /\ Cleaning(u, {"finish"})' => copies'[tool'[u].name] = live'
      BY DEF WriterInv
    <3>7. CASE u = t
      BY <3>1, <3>4, <3>5, <3>6, <3>7 DEF Cleaning
    <3>8. CASE u # t
      <4>1. tool'[u] = tool[u]
        BY <3>1, <3>8 DEF Moves, MaintenanceType
      <4>2. Cleaning(u, {"finish"}) => copies'[tool[u].name] = live
        <5>1. SUFFICES ASSUME Cleaning(u, {"finish"}) PROVE copies'[tool[u].name] = live
          OBVIOUS
        <5>2. copies[tool[u].name] = live /\ live # Absent
          BY <5>1 DEF WriterInv, MaintenanceType, Absent
        <5>3. tool[u] \in States
          BY <5>1, AtWork DEF Cleaning
        <5>4. tool[u].name \in Names /\ tool[u].name # tool[t].name
          BY <2>1, <5>2, <5>3 DEF States, Clean
        <5> QED
          BY <3>1, <5>2, <5>4 DEF MaintenanceType
      <4> QED
        BY <3>1, <4>1, <4>2 DEF WriterInv, Cleaning
    <3> QED
      BY <3>7, <3>8
  <2>2. CASE ~Clean(t)
    BY <1>9, <2>2, ToolRests DEF Publish, Ends
  <2> QED
    BY <2>1, <2>2
<1>10. ASSUME NEW t \in Tools, Finish(t) PROVE WriterInv'
  <2>1. CASE tool[t].op = "clean"
    <3>1. writer = t
      BY <1>10, <2>1 DEF Finish, Cleaning, WriterInv
    <3> SUFFICES ASSUME NEW u \in Tools
                 PROVE  /\ ~Cleaning(u, {"check", "snapshot", "publish", "finish"})'
                        /\ ~Cleaning(u, {"publish"})' /\ ~Cleaning(u, {"finish"})'
      BY DEF WriterInv
    <3>2. CASE u = t
      <4>1. tool'[u] = Rest
        BY <1>10, <3>2 DEF Finish, Ends, Moves, MaintenanceType
      <4> QED
        BY <4>1 DEF Cleaning, Rest
    <3>3. CASE u # t
      <4>1. tool'[u] = tool[u]
        BY <1>10, <3>3 DEF Finish, Ends, Moves, MaintenanceType
      <4> QED
        BY <3>1, <3>3, <4>1 DEF Cleaning, WriterInv
    <3> QED
      BY <3>2, <3>3
  <2>2. CASE tool[t].op # "clean"
    BY <1>10, <2>2, ToolRests DEF Finish, Ends
  <2> QED
    BY <2>1, <2>2
<1>11. ASSUME NEW t \in Tools, Die(t) PROVE WriterInv'
  BY <1>11, ToolRests DEF Die
<1>12. CASE UNCHANGED vars
  BY <1>12 DEF vars, WriterInv, Cleaning
<1> QED
  BY <1>1, <1>2, <1>3, <1>4, <1>5, <1>6, <1>7, <1>8, <1>9, <1>10, <1>11, <1>12 DEF Next

-----------------------------------------------------------------------------

\* A published copy is neither overwritten nor removed.
LEMMA CopiesStay ==
    ASSUME MaintenanceType, [Next]_vars, NEW name \in Names, copies[name] # Absent
    PROVE  copies'[name] = copies[name]
<1>1. ASSUME NEW other \in Names, Appear(other) PROVE copies'[name] = copies[name]
  BY <1>1 DEF Appear, MaintenanceType
<1>2. ASSUME NEW t \in Tools, Publish(t) PROVE copies'[name] = copies[name]
  BY <1>2 DEF Publish, Clean, MaintenanceType
<1>3. ASSUME NEW t \in Tools,
             Call(t) \/ Lock(t) \/ Begin(t) \/ Check(t) \/ Snapshot(t) \/ Finish(t) \/ Die(t)
      PROVE  copies' = copies
  BY <1>3 DEF Call, Lock, Begin, Check, Snapshot, Finish, Die
<1>4. CASE Record \/ Unlock \/ UNCHANGED vars
  BY <1>4 DEF Record, Unlock, vars
<1> QED
  BY <1>1, <1>2, <1>3, <1>4 DEF Next

\* A step deletes a run only as the end of a clean-up, whose copy holds it.
LEMMA BackedUpKept ==
    ASSUME MaintenanceType, WriterInv, DeletedBackedUp, [Next]_vars
    PROVE  DeletedBackedUp'
<1> SUFFICES ASSUME NEW run \in removed' PROVE \E name \in Names : run \in copies'[name]
  BY DEF DeletedBackedUp
<1>1. \E name \in Names : run \in copies[name] /\ copies[name] # Absent
  <2>1. CASE run \in removed
    BY <2>1 DEF DeletedBackedUp, MaintenanceType, Absent
  <2>2. CASE run \notin removed
    <3>1. removed' # removed
      BY <2>2
    <3>2. PICK t \in Tools : Finish(t)
      BY <3>1 DEF Next, vars, Record, Unlock, Appear, Call, Lock, Begin, Check, Snapshot,
                  Publish, Die
    <3>3. Cleaning(t, {"finish"}) /\ run \in live
      BY <2>2, <3>2 DEF Finish, Cleaning
    <3>4. copies[tool[t].name] = live /\ live # Absent
      BY <3>3 DEF WriterInv, MaintenanceType, Absent
    <3>5. tool[t] \in States
      BY <3>3, AtWork DEF Cleaning
    <3>6. tool[t].name \in Names
      BY <3>5 DEF States
    <3> QED
      BY <3>3, <3>4, <3>6
  <2> QED
    BY <2>1, <2>2
<1> QED
  BY <1>1, CopiesStay

\* Every run that the clean-up of db-audit.mjs deleted is in a published copy,
\* however many tools run, die and leave their locks behind, whatever names
\* they use, and however many runs the server records meanwhile.
THEOREM DeletedBackedUpCorrect ==
    ASSUME Nobody \notin Tools
    PROVE  Spec => []DeletedBackedUp
<1>1. Init => MaintenanceInv
  BY MaintenanceInit
<1>2. MaintenanceInv /\ [Next]_vars => MaintenanceInv'
  BY MaintenanceTyped, WriterKept, BackedUpKept DEF MaintenanceInv
<1>3. MaintenanceInv => DeletedBackedUp
  BY DEF MaintenanceInv
<1> QED
  BY <1>1, <1>2, <1>3, PTL DEF Spec
=============================================================================
