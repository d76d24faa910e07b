--------------------------- MODULE SnapshotImport ---------------------------
(***************************************************************************)
(* The import of a sealed database of the old checker into the observatory *)
(* (legacy-importer.ts, importLegacySnapshot of observatory/store.ts).     *)
(* Importers copy the file, read the copy, look at the file again and      *)
(* write in one transaction; meanwhile the old checker may open and change *)
(* the file.  A content has one run, perhaps a later endpoint observation  *)
(* and perhaps a grant (2 is a grant whose amount is not positive); usage  *)
(* points and balances take the way of the runs.  A content stands for its *)
(* SHA-256 too.                                                            *)
(***************************************************************************)
EXTENDS Naturals, FiniteSets

CONSTANTS Importers, Secrets, MaxEdits, MaxImports

VARIABLES file, importer, ledger, items, rows, edits, imports

vars == <<file, importer, ledger, items, rows, edits, imports>>

Contents == [run: 1..2, endpoint: 0..2, grant: 0..2]

\* What a copy taken during a write may hold: no content at all.
Torn == [run |-> 0, endpoint |-> 0, grant |-> 0]

Idle == [phase |-> "idle"]

\* loadProjection: the rows of a content; the account carries the label of
\* its latest row.
Projected(content) ==
    {<<"run", content.run>>,
     <<"account", IF content.endpoint # 0 THEN content.endpoint ELSE content.run>>}
    \cup {row \in {<<"endpoint", content.endpoint>>, <<"grant", content.grant>>}: row[2] # 0}

\* A row that requireSafeInteger and its like refuse fails the whole import.
Invalid(content) == content.grant = 2

\* sameFileIdentity: device, inode, size and the time of the last change.
SameFile(identity) == file.stamp = identity

-----------------------------------------------------------------------------

Init ==
    /\ \E c \in Contents: file = [content |-> c, stamp |-> 0, sidecar |-> FALSE]
    /\ importer = [p \in Importers |-> Idle]
    /\ ledger = {} /\ items = {} /\ rows = {}
    /\ edits = 0 /\ imports = 0

\* The old checker opens the file (its -wal appears), writes to it and closes.
OpenSource ==
    /\ ~file.sidecar /\ edits < MaxEdits
    /\ file' = [file EXCEPT !.sidecar = TRUE]
    /\ UNCHANGED <<importer, ledger, items, rows, edits, imports>>

WriteSource ==
    /\ file.sidecar /\ edits < MaxEdits
    /\ \E c \in Contents \ {file.content}:
           file' = [file EXCEPT !.content = c, !.stamp = @ + 1]
    /\ edits' = edits + 1
    /\ UNCHANGED <<importer, ledger, items, rows, imports>>

CloseSource ==
    /\ file.sidecar
    /\ file' = [file EXCEPT !.sidecar = FALSE]
    /\ UNCHANGED <<importer, ledger, items, rows, edits, imports>>

-----------------------------------------------------------------------------

Goes(p, state) ==
    /\ importer' = [importer EXCEPT ![p] = state]
    /\ UNCHANGED <<file, edits>>

\* An error is thrown; the finally clause removes the copy.
Refuse(p) == Goes(p, Idle) /\ UNCHANGED <<ledger, items, rows, imports>>

\* validateOptions, and the head of stageImmutableSource: the operator names
\* the hash of the file as it is now, or of what it was.
Begin(p) ==
    /\ importer[p] = Idle /\ imports < MaxImports
    /\ \E expected \in {file.content} \cup {b.content: b \in ledger}, secret \in Secrets:
           Goes(p, [phase |-> "begun", expected |-> expected, secret |-> secret])
    /\ imports' = imports + 1
    /\ UNCHANGED <<ledger, items, rows>>

\* assertNoSidecars, then the file is opened and its identity noted.
OpenFile(p) ==
    /\ importer[p].phase = "begun"
    /\ IF file.sidecar
       THEN Refuse(p)
       ELSE /\ Goes(p, [phase |-> "opened", expected |-> importer[p].expected,
                        secret |-> importer[p].secret, identity |-> file.stamp])
            /\ UNCHANGED <<ledger, items, rows, imports>>

Sealed(copy, expected) == copy = expected

\* stageImmutableSource: the copy is hashed while it is written; a copy
\* taken while the checker writes may be torn.
Stage(p) ==
    /\ importer[p].phase = "opened"
    /\ \E copy \in {file.content} \cup (IF file.sidecar THEN {Torn} ELSE {}):
           IF Sealed(copy, importer[p].expected) /\ ~file.sidecar
           THEN /\ Goes(p, [importer[p] EXCEPT !.phase = "staged"])
                /\ UNCHANGED <<ledger, items, rows, imports>>
           ELSE Refuse(p)

\* loadProjection on the copy, verifyImmutableSource on the file.
Verify(p) ==
    /\ importer[p].phase = "staged"
    /\ IF /\ SameFile(importer[p].identity) /\ ~file.sidecar
          /\ file.content = importer[p].expected /\ ~Invalid(importer[p].expected)
       THEN /\ Goes(p, [importer[p] EXCEPT !.phase = "verified"])
            /\ UNCHANGED <<ledger, items, rows, imports>>
       ELSE Refuse(p)

\* opaqueSourceKey: the key of a row depends on the operator's secret.
Item(secret, row) == [secret |-> secret, row |-> row[1], value |-> row[2]]

\* importLegacySnapshot: a row imported before with another projection.
\* ConflictingInBatch looks only where the duplicate of a batch is looked for.
ConflictingInBatch(secret, projection) ==
    /\ \E b \in ledger: Projected(b.content) = projection
    /\ \E row \in projection, item \in items:
           item.secret = secret /\ item.row = row[1] /\ item.value # row[2]

Conflicting(secret, projection) ==
    \E row \in projection, item \in items:
        item.secret = secret /\ item.row = row[1] /\ item.value # row[2]

\* recordAgentRouterRun and its like: an upsert at the row's own id; a grant's
\* id is made with the secret.
Destination(secret, row) == IF row[1] = "grant" THEN <<"grant", secret>> ELSE <<row[1]>>

Recorded(secret, fresh) ==
    {r \in rows: \A row \in fresh: r.at # Destination(secret, row)}
    \cup {[at |-> Destination(secret, row), value |-> row[2]]: row \in fresh}

\* importLegacySnapshot, one transaction: a batch imported before is a
\* duplicate or a conflict and writes nothing, like a row that conflicts;
\* rows known under their key are not written again.
Commit(p) ==
    /\ importer[p].phase = "verified"
    /\ LET secret == importer[p].secret
           content == importer[p].expected
           projection == Projected(content)
           fresh == {row \in projection:
                        ~\E i \in items: i.secret = secret /\ i.row = row[1]}
       IN  /\ Goes(p, Idle)
           /\ IF \/ \E b \in ledger: b.content = content
                 \/ Conflicting(secret, projection)
              THEN UNCHANGED <<ledger, items, rows>>
              ELSE /\ ledger' = ledger \cup {[content |-> content, secret |-> secret]}
                   /\ items' = items \cup {Item(secret, row): row \in fresh}
                   /\ rows' = Recorded(secret, fresh)
    /\ UNCHANGED imports

\* The process dies; a transaction that was not committed leaves nothing.
Die(p) == importer[p] # Idle /\ Refuse(p)

Next ==
    \/ OpenSource \/ WriteSource \/ CloseSource
    \/ \E p \in Importers:
           Begin(p) \/ OpenFile(p) \/ Stage(p) \/ Verify(p) \/ Commit(p) \/ Die(p)

Spec == Init /\ [][Next]_vars

-----------------------------------------------------------------------------

\* A batch in the ledger stands for all the rows of the file whose hash the
\* operator gave, with the values they have there, whatever was imported
\* before or since, and, as long as one secret is used, the destination
\* holds just these values (store.ts:4021-4159): no batch is marked completed
\* over rows that it did not bring.
ImportsMatch ==
    /\ \A b \in ledger: \A row \in Projected(b.content): Item(b.secret, row) \in items
    /\ Cardinality({b.secret: b \in ledger}) = 1 =>
           \A i \in items: [at |-> Destination(i.secret, <<i.row, i.value>>),
                            value |-> i.value] \in rows
=============================================================================
