-------------------------- MODULE ObservatoryProofs --------------------------
(***************************************************************************)
(* Safety properties of the parts, proved of the composition that the run  *)
(* checks: of a part's variables the composition takes the steps of the    *)
(* part and no others.  Each part has a section: its inductive invariant,  *)
(* one lemma per action, the theorem.  AlertProofs has the parts that tell *)
(* of something.  The database tools have a proof module of their own, of  *)
(* which Observatory and this module have an instance each; the lemma of a *)
(* step expands both, after which they are one formula.                    *)
(***************************************************************************)
EXTENDS Observatory, SequenceTheorems, FiniteSetTheorems, WellFoundedInduction, TLAPS

Tooling == INSTANCE DatabaseMaintenanceProofs WITH MaxRuns <- MaxToolRuns

\* A step of the tools is one of the module that the proofs extend.
LEMMA ToolsStep == Maintenance!Next => Tooling!Next
BY DEF Maintenance!Next, Tooling!Next,
      Maintenance!Absent, Tooling!Absent, Maintenance!Nobody, Tooling!Nobody,
      Maintenance!Rest, Tooling!Rest, Maintenance!FalseZero, Tooling!FalseZero,
      Maintenance!Directories, Tooling!Directories, Maintenance!Moves, Tooling!Moves,
      Maintenance!Ends, Tooling!Ends, Maintenance!Clean, Tooling!Clean,
      Maintenance!Cardinality, Tooling!Cardinality, Maintenance!Record, Tooling!Record,
      Maintenance!Call, Tooling!Call, Maintenance!Lock, Tooling!Lock,
      Maintenance!Begin, Tooling!Begin, Maintenance!Check, Tooling!Check,
      Maintenance!Snapshot, Tooling!Snapshot, Maintenance!Publish, Tooling!Publish,
      Maintenance!Finish, Tooling!Finish, Maintenance!Appear, Tooling!Appear,
      Maintenance!Die, Tooling!Die, Maintenance!Unlock, Tooling!Unlock

\* Every run that the clean-up of db-audit.mjs deleted is in a published copy, in
\* every behaviour of the composition.
THEOREM DeletedBackedUpHolds == Spec => []DeletedBackedUp
<1>1. Init => Tooling!MaintenanceInv
  <2>1. Maintenance!Init => Tooling!Init
    BY DEF Maintenance!Init, Maintenance!Absent, Maintenance!Nobody, Maintenance!Rest,
           Tooling!Init, Tooling!Absent, Tooling!Nobody, Tooling!Rest
  <2> QED
    BY <2>1, Tooling!MaintenanceInit DEF Init
<1>2. Tooling!MaintenanceInv /\ [Next]_vars => Tooling!MaintenanceInv'
  <2>1. [Next]_vars => [Tooling!Next]_(Tooling!vars)
    BY ToolsStep DEF Next, vars, Only, maintenanceVars, Tooling!vars
  <2>2. Tooling!Nobody \notin Tools
    BY ObservatoryAssumption DEF Tooling!Nobody
  <2> QED
    BY <2>1, <2>2, Tooling!MaintenanceTyped, Tooling!WriterKept, Tooling!BackedUpKept
       DEF Tooling!MaintenanceInv
<1>3. Tooling!MaintenanceInv => DeletedBackedUp
  BY DEF Tooling!MaintenanceInv, Tooling!DeletedBackedUp, DeletedBackedUp,
         Maintenance!DeletedBackedUp
<1> QED
  BY <1>1, <1>2, <1>3, PTL DEF Spec

(***************************************************************************)
(* The logins of the direct accounts                                       *)
(***************************************************************************)

LoginType ==
    /\ now \in Nat /\ loginRequests \in Nat
    /\ pendingStates \subseteq [nonce : Nonces, expiresAt : Nat]
    /\ exchanging \in [Nonces -> {0, 1}]
    /\ redeemed \subseteq [nonce : Nonces, nth : Nat, at : Nat, expiresAt : Nat]
    /\ \A a \in added : a.nonce \in Nonces

\* A nonce is kept, then at Google, then answered, and never two of these.
NonceInv ==
    /\ \A p, q \in pendingStates : p.nonce = q.nonce => p = q
    /\ \A p \in pendingStates, r \in redeemed : p.nonce # r.nonce
    /\ \A n \in Nonces : exchanging[n] = 1 => \E r \in redeemed : r.nonce = n
    /\ \A a \in added : exchanging[a.nonce] = 0 /\ \E r \in redeemed : r.nonce = a.nonce

LoginInv == LoginType /\ NonceInv /\ Logins!VerifierOnce

\* A start keeps a verifier under a nonce that nothing knows.
LEMMA StartKeeps ==
    ASSUME StateTtl \in Nat, LoginInv, NEW n \in Nonces, Logins!authorizeAntigravityStart(n)
    PROVE  LoginInv'
<1> DEFINE new == [nonce |-> n, expiresAt |-> now + StateTtl]
<1> USE DEF LoginInv
<1>1. /\ \A p \in pendingStates : p.nonce # n
      /\ \A r \in redeemed : r.nonce # n
  BY DEF Logins!authorizeAntigravityStart, Logins!Known
<1>2. new \in [nonce : Nonces, expiresAt : Nat] /\ new.nonce = n
  BY DEF LoginType
<1> HIDE DEF new
<1>3. \A p \in pendingStates' : p \in pendingStates \/ p = new
  BY DEF Logins!authorizeAntigravityStart, Logins!Live, new
<1>4. UNCHANGED <<now, exchanging, redeemed, added>> /\ loginRequests' = loginRequests + 1
  BY DEF Logins!authorizeAntigravityStart
<1>5. LoginType'
  BY <1>2, <1>3, <1>4 DEF LoginType
<1>6. NonceInv'
  BY <1>1, <1>2, <1>3, <1>4 DEF NonceInv
<1> QED
  BY <1>4, <1>5, <1>6 DEF Logins!VerifierOnce

\* An exchange forgets the nonce before it asks Google.
LEMMA ExchangeRedeems ==
    ASSUME LoginInv, NEW n \in Nonces, Logins!exchangeAntigravityCode(n)
    PROVE  LoginInv'
<1> USE DEF LoginInv
<1>1. PICK p \in pendingStates :
        /\ p.nonce = n
        /\ pendingStates' = pendingStates \ {p}
        /\ IF p.expiresAt <= now
           THEN UNCHANGED <<exchanging, redeemed>>
           ELSE /\ exchanging' = [exchanging EXCEPT ![n] = @ + 1]
                /\ redeemed' = redeemed \cup {[nonce |-> n, nth |-> loginRequests, at |-> now,
                                               expiresAt |-> p.expiresAt]}
  BY DEF Logins!exchangeAntigravityCode
<1>2. UNCHANGED <<now, added>> /\ loginRequests' = loginRequests + 1
  BY DEF Logins!exchangeAntigravityCode
<1>3. CASE p.expiresAt <= now
  <2>1. UNCHANGED <<exchanging, redeemed>>
    BY <1>1, <1>3
  <2>2. LoginType' /\ NonceInv'
    BY <1>1, <1>2, <2>1 DEF LoginType, NonceInv
  <2> QED
    BY <1>2, <2>1, <2>2 DEF Logins!VerifierOnce
<1>4. CASE ~(p.expiresAt <= now)
  <2> DEFINE new == [nonce |-> n, nth |-> loginRequests, at |-> now, expiresAt |-> p.expiresAt]
  <2>1. redeemed' = redeemed \cup {new} /\ exchanging' = [exchanging EXCEPT ![n] = @ + 1]
    BY <1>1, <1>4
  <2>2. new.nonce = n /\ new.at < new.expiresAt
    BY <1>4 DEF LoginType
  <2>3. new \in [nonce : Nonces, nth : Nat, at : Nat, expiresAt : Nat]
    BY DEF LoginType
  <2> HIDE DEF new
  <2>4. \A r \in redeemed : r.nonce # n
    BY <1>1 DEF NonceInv
  <2>5. exchanging[n] = 0 /\ \A a \in added : a.nonce # n
    BY <2>4 DEF NonceInv, LoginType
  <2>6. exchanging' \in [Nonces -> {0, 1}] /\ exchanging'[n] = 1
        /\ \A m \in Nonces \ {n} : exchanging'[m] = exchanging[m]
    BY <2>1, <2>5 DEF LoginType
  <2>7. redeemed' \subseteq [nonce : Nonces, nth : Nat, at : Nat, expiresAt : Nat]
    BY <2>1, <2>3 DEF LoginType
  <2>8. LoginType'
    BY <1>1, <1>2, <2>6, <2>7 DEF LoginType
  <2>9. NonceInv'
    <3>1. \A q \in pendingStates' : q \in pendingStates /\ q.nonce # n
      BY <1>1 DEF NonceInv
    <3>2. \A m \in Nonces : exchanging'[m] = 1 => \E r \in redeemed' : r.nonce = m
      BY <2>1, <2>2, <2>6 DEF NonceInv
    <3>3. \A a \in added : exchanging'[a.nonce] = 0 /\ \E r \in redeemed' : r.nonce = a.nonce
      BY <2>1, <2>5, <2>6 DEF NonceInv, LoginType
    <3> QED
      BY <1>2, <2>1, <2>2, <3>1, <3>2, <3>3 DEF NonceInv
  <2>10. Logins!VerifierOnce'
    BY <1>2, <2>1, <2>2, <2>4 DEF Logins!VerifierOnce
  <2> QED
    BY <2>8, <2>9, <2>10
<1> QED
  BY <1>3, <1>4

\* The answer adds one account at most.
LEMMA AnswerAdds ==
    ASSUME LoginInv, NEW n \in Nonces, Logins!Exchanged(n)
    PROVE  LoginInv'
<1> USE DEF LoginInv
<1>1. /\ exchanging[n] = 1
      /\ exchanging' = [exchanging EXCEPT ![n] = @ - 1]
      /\ UNCHANGED <<now, pendingStates, redeemed, loginRequests>>
  BY DEF Logins!Exchanged, LoginType
<1>2. PICK a : a.nonce = n /\ added' \in {added, added \cup {a}}
  <2> DEFINE a == [nonce |-> n, nth |-> Logins!Cardinality(added)]
  <2>1. a.nonce = n /\ added' \in {added, added \cup {a}}
    BY DEF Logins!Exchanged
  <2> QED
    BY <2>1
<1>3. exchanging' \in [Nonces -> {0, 1}] /\ exchanging'[n] = 0
      /\ \A m \in Nonces \ {n} : exchanging'[m] = exchanging[m]
  BY <1>1 DEF LoginType
<1>4. \A b \in added : b.nonce # n
  BY <1>1 DEF NonceInv
<1>5. LoginType'
  BY <1>1, <1>2, <1>3 DEF LoginType
<1>6. NonceInv'
  BY <1>1, <1>2, <1>3 DEF NonceInv, LoginType
<1>7. Logins!VerifierOnce'
  BY <1>1, <1>2, <1>4 DEF Logins!VerifierOnce
<1> QED
  BY <1>5, <1>6, <1>7

\* Nothing is pending before the first start.
LEMMA LoginInit == Logins!Init => LoginInv
BY DEF Logins!Init, LoginInv, LoginType, NonceInv, Logins!VerifierOnce

\* Every step keeps the invariant, a restart and the clock among them.
LEMMA LoginKept ==
    ASSUME StateTtl \in Nat, LoginInv, [Logins!Next]_(Logins!vars)
    PROVE  LoginInv'
<1>1. CASE Logins!Tick
  BY <1>1 DEF Logins!Tick, LoginInv, LoginType, NonceInv, Logins!VerifierOnce
<1>2. CASE Logins!Restart
  BY <1>2 DEF Logins!Restart, LoginInv, LoginType, NonceInv, Logins!VerifierOnce
<1>3. CASE UNCHANGED Logins!vars
  BY <1>3 DEF Logins!vars, LoginInv, LoginType, NonceInv, Logins!VerifierOnce
<1> QED
  BY <1>1, <1>2, <1>3, StartKeeps, ExchangeRedeems, AnswerAdds DEF Logins!Next

\* The verifier of a login is redeemed once and before it expires, and one login
\* adds one account (oauth.ts:5-6), whatever is pasted how often, however
\* many exchanges overlap, and across restarts.
THEOREM VerifierOnceHolds == Spec => []VerifierOnce
<1>1. Init => LoginInv
  BY LoginInit DEF Init
<1>2. LoginInv /\ [Next]_vars => LoginInv'
  <2>1. [Next]_vars => [Logins!Next]_(Logins!vars)
    BY DEF Next, vars, Only, loginVars, Logins!vars
  <2> QED
    BY <2>1, ObservatoryAssumption, LoginKept
<1>3. LoginInv => VerifierOnce
  BY DEF LoginInv, VerifierOnce
<1> QED
  BY <1>1, <1>2, <1>3, PTL DEF Spec

(***************************************************************************)
(* The import of an old database                                           *)
(***************************************************************************)

\* A batch has all its rows among the items; an item has one value under its
\* secret and comes from a batch of that secret; and as long as there is one
\* secret the destination holds what the items say.
OneSecret == \A b, c \in ledger : b.secret = c.secret
InRows(i) == [at |-> Import!Destination(i.secret, <<i.row, i.value>>), value |-> i.value]
ImportInv ==
    /\ \A b \in ledger : \A entry \in Import!Projected(b.content) :
         Import!Item(b.secret, entry) \in items
    /\ \A i \in items : /\ i = [secret |-> i.secret, row |-> i.row, value |-> i.value]
                        /\ \E b \in ledger : b.secret = i.secret
    /\ \A i, j \in items : i.secret = j.secret /\ i.row = j.row => i.value = j.value
    /\ OneSecret => \A i \in items : InRows(i) \in rows
    /\ IsFiniteSet({b.secret : b \in ledger})

\* A content has one row of each kind at most.
LEMMA ProjectedOnce ==
  ASSUME NEW c
  PROVE  \A r, q \in Import!Projected(c) :
           /\ r = <<r[1], r[2]>>
           /\ r[1] = q[1] => r = q
BY DEF Import!Projected

\* PolicyRows of different kinds go to different places.
LEMMA PlacesDiffer ==
  \A s, r, q : r[1] # q[1] => Import!Destination(s, r) # Import!Destination(s, q)
<1> SUFFICES ASSUME NEW s, NEW r, NEW q, r[1] # q[1]
             PROVE  Import!Destination(s, r) # Import!Destination(s, q)
  OBVIOUS
<1>1. \A x : Import!Destination(s, x)[1] = x[1]
  BY DEF Import!Destination
<1> QED
  BY <1>1

\* The transaction of an import, in which all that is new gets its item and its
\* row.
LEMMA CommitKept ==
  ASSUME ImportInv, NEW p, Import!Commit(p)
  PROVE  ImportInv'
<1> DEFINE secret == importer[p].secret
           content == importer[p].expected
           projection == Import!Projected(content)
           fresh == {entry \in projection :
                       ~\E i \in items : i.secret = secret /\ i.row = entry[1]}
<1>1. CASE UNCHANGED <<ledger, items, rows>>
  BY <1>1 DEF ImportInv, OneSecret, InRows
<1>2. CASE ~UNCHANGED <<ledger, items, rows>>
  <2>1. /\ ~Import!Conflicting(secret, projection)
        /\ ledger' = ledger \cup {[content |-> content, secret |-> secret]}
        /\ items' = items \cup {Import!Item(secret, entry) : entry \in fresh}
        /\ rows' = Import!Recorded(secret, fresh)
    BY <1>2 DEF Import!Commit
  <2>2. \A entry \in projection : Import!Item(secret, entry) \in items'
    <3> SUFFICES ASSUME NEW entry \in projection, entry \notin fresh
                 PROVE  Import!Item(secret, entry) \in items
      BY <2>1
    <3>1. PICK i \in items : i.secret = secret /\ i.row = entry[1]
      OBVIOUS
    <3>2. i.value = entry[2]
      BY <2>1, <3>1 DEF Import!Conflicting
    <3>3. i = [secret |-> secret, row |-> entry[1], value |-> entry[2]]
      BY <3>1, <3>2 DEF ImportInv
    <3> QED
      BY <3>3 DEF Import!Item
  <2>n. \A i \in items' : i \in items \/ \E entry \in fresh : i = Import!Item(secret, entry)
    BY <2>1
  <2>3. \A i \in items' : /\ i = [secret |-> i.secret, row |-> i.row, value |-> i.value]
                          /\ \E b \in ledger' : b.secret = i.secret
    <3> SUFFICES ASSUME NEW i \in items'
                 PROVE  /\ i = [secret |-> i.secret, row |-> i.row, value |-> i.value]
                        /\ \E b \in ledger' : b.secret = i.secret
      OBVIOUS
    <3>1. CASE i \in items
      BY <2>1, <3>1 DEF ImportInv
    <3>2. ASSUME NEW entry \in fresh, i = Import!Item(secret, entry)
          PROVE  /\ i = [secret |-> i.secret, row |-> i.row, value |-> i.value]
                 /\ \E b \in ledger' : b.secret = i.secret
      <4>1. i.secret = secret /\ i.row = entry[1] /\ i.value = entry[2]
        BY <3>2 DEF Import!Item
      <4>2. [content |-> content, secret |-> secret] \in ledger'
        BY <2>1
      <4> QED
        BY <3>2, <4>1, <4>2 DEF Import!Item
    <3> QED
      BY <2>n, <3>1, <3>2
  <2>4. \A i, j \in items' : i.secret = j.secret /\ i.row = j.row => i.value = j.value
    <3>1. \A entry \in fresh : \A i \in items :
            ~(i.secret = Import!Item(secret, entry).secret
               /\ i.row = Import!Item(secret, entry).row)
      BY DEF Import!Item
    <3>2. \A r, q \in fresh : Import!Item(secret, r).row = Import!Item(secret, q).row
            => Import!Item(secret, r) = Import!Item(secret, q)
      BY ProjectedOnce DEF Import!Item
    <3>3. \A i, j \in items : i.secret = j.secret /\ i.row = j.row => i.value = j.value
      BY DEF ImportInv
    <3> HIDE DEF fresh
    <3> QED
      BY <2>n, <3>1, <3>2, <3>3
  <2>5. ASSUME OneSecret' PROVE \A i \in items' : InRows(i) \in rows'
    <3>1. \A b \in ledger : b.secret = secret
      BY <2>1, <2>5 DEF OneSecret
    <3>2. \A i \in items : i.secret = secret /\ InRows(i) \in rows
      BY <3>1 DEF ImportInv, OneSecret
    <3>3. ASSUME NEW i \in items PROVE InRows(i) \in rows'
      <4>1. \A entry \in fresh : i.row # entry[1]
        BY <3>2
      <4>2. \A entry \in fresh : InRows(i).at # Import!Destination(secret, entry)
        BY <3>2, <4>1, PlacesDiffer DEF InRows
      <4> QED
        BY <2>1, <3>2, <4>2 DEF Import!Recorded
    <3>4. ASSUME NEW entry \in fresh PROVE InRows(Import!Item(secret, entry)) \in rows'
      <4>1. entry = <<entry[1], entry[2]>>
        BY ProjectedOnce
      <4>2. InRows(Import!Item(secret, entry))
              = [at |-> Import!Destination(secret, entry), value |-> entry[2]]
        BY <4>1 DEF InRows, Import!Item
      <4> QED
        BY <2>1, <4>2 DEF Import!Recorded
    <3> QED
      BY <2>n, <3>3, <3>4
  <2>6. IsFiniteSet({b.secret : b \in ledger'})
    <3>1. {b.secret : b \in ledger'} = {b.secret : b \in ledger} \cup {secret}
      <4> DEFINE new == [content |-> content, secret |-> secret]
      <4>1. new.secret = secret /\ ledger' = ledger \cup {new}
        BY <2>1
      <4> HIDE DEF new, secret, content
      <4> QED
        BY <4>1
    <3> QED
      <4> DEFINE used == {b.secret : b \in ledger}
      <4>1. IsFiniteSet(used)
        BY DEF ImportInv
      <4>2. {b.secret : b \in ledger'} = used \cup {secret}
        BY <3>1
      <4> HIDE DEF secret, used
      <4>3. IsFiniteSet(used \cup {secret})
        BY <4>1, FS_AddElement
      <4> QED
        BY <4>2, <4>3
  <2>7. \A b \in ledger' : \A entry \in Import!Projected(b.content) :
          Import!Item(b.secret, entry) \in items'
    <3>1. \A b \in ledger : \A entry \in Import!Projected(b.content) :
            Import!Item(b.secret, entry) \in items'
      BY <2>1 DEF ImportInv
    <3>2. \A b \in ledger' : b \in ledger \/ (b.content = content /\ b.secret = secret)
      BY <2>1
    <3> QED
      BY <2>2, <3>1, <3>2
  <2> HIDE DEF secret, content, projection, fresh
  <2> QED
    BY <2>3, <2>4, <2>5, <2>6, <2>7 DEF ImportInv, InRows
<1> QED
  BY <1>1, <1>2

\* Nothing but the transaction writes.
LEMMA ImportKept ==
  ASSUME ImportInv, [Import!Next]_(Import!vars)
  PROVE  ImportInv'
<1>1. CASE UNCHANGED <<ledger, items, rows>>
  BY <1>1 DEF ImportInv, OneSecret, InRows
<1>2. CASE \E p \in Importers : Import!Commit(p)
  BY <1>2, CommitKept
<1> QED
  BY <1>1, <1>2
  DEF Import!Next, Import!vars, Import!OpenSource, Import!WriteSource, Import!CloseSource,
      Import!Begin, Import!OpenFile, Import!Stage, Import!Verify, Import!Die, Import!Refuse,
      Import!Goes

\* No batch is marked completed over rows that it did not bring, and as long as
\* one secret is used the destination holds just the values that were imported.
THEOREM ImportsMatchHolds == Spec => []ImportsMatch
<1>1. Init => ImportInv
  BY FS_EmptySet DEF Init, Import!Init, ImportInv
<1>2. ImportInv /\ [Next]_vars => ImportInv'
  <2>1. [Next]_vars => [Import!Next]_(Import!vars)
    BY DEF Next, vars, Only, importVars, Import!vars
  <2> QED
    BY <2>1, ImportKept
<1>3. ImportInv => ImportsMatch
  <2> SUFFICES ASSUME ImportInv, Import!Cardinality({b.secret : b \in ledger}) = 1,
                      NEW i \in items
               PROVE  InRows(i) \in rows
    BY DEF ImportInv, ImportsMatch, Import!ImportsMatch, InRows
  <2>1. Cardinality({b.secret : b \in ledger}) = 1
    BY DEF Import!Cardinality, Cardinality
  <2>2. PICK s : {b.secret : b \in ledger} = {s}
    BY <2>1, FS_Singleton DEF ImportInv
  <2>3. \A b \in ledger : b.secret = s
    BY <2>2
  <2> QED
    BY <2>3 DEF ImportInv, OneSecret
<1> QED
  BY <1>1, <1>2, <1>3, PTL DEF Spec

(***************************************************************************)
(* The account page                                                        *)
(***************************************************************************)

\* The page and the two loadCores have their fields, an answer awaited is a
\* request for one account, and what AccountShown says already stands on its own.
PageFields == [listed : SUBSET Listed, selected : Listed \cup {Page!None},
               panel : {"account", "other"}, request : Nat,
               shown : [id : Listed \cup {Page!None}, request : Nat], failed : BOOLEAN]
CoreFields == [at : {"idle", "save", "remove", "sent", "read"}, list : SUBSET Listed,
               again : BOOLEAN, id : Listed \cup {Page!None}]
PageInv ==
    /\ server \subseteq Listed
    /\ page \in PageFields
    /\ loads \subseteq [id : Listed \cup {Page!None}, request : Nat]
    /\ cores \in [Page!Callers -> CoreFields]
    /\ Page!AccountShown

\* A page after an account was selected or another view opened.
LEMMA PageMoves ==
  ASSUME NEW p \in PageFields, NEW a \in Listed \cup {Page!None}
  PROVE  /\ Page!Selecting(p, a) \in PageFields
         /\ Page!showView(p) \in PageFields /\ Page!showView(p).panel = "other"
<1>1. p.request + 1 \in Nat
  BY DEF PageFields
<1>2. \A id \in Listed \cup {Page!None}, to \in {"account", "other"}, n \in Nat :
        [p EXCEPT !.selected = id, !.panel = to, !.request = n, !.failed = FALSE] \in PageFields
  <2> HIDE DEF Page!None
  <2> QED
    BY DEF PageFields
<1>3. Page!None \in Listed \cup {Page!None}
  OBVIOUS
<1>4. Page!Selecting(p, a) \in PageFields /\ Page!showView(p) \in PageFields
  BY <1>1, <1>2, <1>3 DEF Page!Selecting, Page!showView
<1>5. Page!showView(p).panel = "other"
  BY DEF Page!showView, PageFields
<1> QED
  BY <1>4, <1>5

\* The button of an account, its granularity, and the views without an account.
LEMMA PageClicked ==
  ASSUME PageInv, (\E a \in Listed : Page!selectAccount(a)) \/ Page!OtherView
  PROVE  PageInv'
<1>1. ASSUME NEW a \in Listed, Page!selectAccount(a)
      PROVE  PageInv'
  <2>1. page' = Page!Selecting(page, a) /\ page' \in PageFields
    BY <1>1, PageMoves DEF Page!selectAccount, PageInv
  <2>2. Page!Load(page') \in [id : Listed \cup {Page!None}, request : Nat]
    BY <2>1 DEF PageFields, Page!Load
  <2>3. loads' = loads \cup {Page!Load(page')} /\ UNCHANGED <<server, cores>>
    BY <1>1 DEF Page!selectAccount
  <2>4. Page!Load(page)' \in loads'
    BY <2>3 DEF Page!Load
  <2> QED
    BY <2>1, <2>2, <2>3, <2>4 DEF PageInv, Page!AccountShown
<1>2. CASE Page!OtherView
  <2>1. page' = Page!showView(page) /\ page' \in PageFields /\ page'.panel = "other"
    BY <1>2, PageMoves DEF Page!OtherView, PageInv
  <2> QED
    BY <1>2, <2>1 DEF PageInv, Page!AccountShown, Page!OtherView
<1> QED
  BY <1>1, <1>2

\* The answer of a view: rendered when it is the one asked for last.
LEMMA PageAnswered ==
  ASSUME PageInv, NEW l \in loads, Page!Loaded(l) \/ Page!LoadFails(l)
  PROVE  PageInv'
<1> DEFINE kept == UNCHANGED <<server, cores>> /\ loads' = loads \ {l}
<1>1. kept
  BY DEF Page!Loaded, Page!LoadFails
<1>2. l \in [id : Listed \cup {Page!None}, request : Nat]
  BY DEF PageInv
<1>3. CASE Page!Loaded(l) /\ Page!Wanted(l)
  <2>1. page' = [page EXCEPT !.shown = l]
    BY <1>3 DEF Page!Loaded
  <2>2. /\ page' \in PageFields /\ page'.shown = l
        /\ page'.selected = page.selected /\ page'.request = page.request
    BY <1>2, <2>1 DEF PageInv, PageFields
  <2>3. Page!Load(page)' = l
    BY <1>2, <1>3, <2>2 DEF Page!Wanted, Page!Load
  <2> QED
    BY <1>1, <2>2, <2>3 DEF PageInv, Page!AccountShown
<1>4. CASE Page!Loaded(l) /\ ~Page!Wanted(l)
  <2>1. page' = page /\ l # Page!Load(page)
    BY <1>4 DEF Page!Loaded, Page!Wanted, Page!Load
  <2> QED
    BY <1>1, <2>1 DEF PageInv, Page!AccountShown, Page!Load
<1>5. CASE Page!LoadFails(l)
  <2>1. page' = [page EXCEPT !.failed = @ \/ Page!Load(page) = l]
    BY <1>5 DEF Page!LoadFails
  <2>2. /\ page' \in PageFields
        /\ page'.panel = page.panel /\ page'.shown = page.shown
        /\ page'.selected = page.selected /\ page'.request = page.request
        /\ page'.failed = (page.failed \/ Page!Load(page) = l)
    BY <2>1 DEF PageInv, PageFields
  <2>3. Page!Load(page)' = Page!Load(page)
    BY <2>2 DEF Page!Load
  <2> QED
    BY <1>1, <2>2, <2>3 DEF PageInv, Page!AccountShown
<1> QED
  BY <1>3, <1>4, <1>5

\* The dialogs and the reloads of the list.
LEMMA PageReloaded ==
  ASSUME PageInv,
         \/ Page!Refresh \/ Page!removeSelectedAccount \/ Page!Edited
         \/ \E a \in Listed : Page!saveAccount(a)
         \/ \E c \in Page!Callers : Page!Read(c) \/ Page!loadCore(c) \/ Page!CoreFails(c)
  PROVE  PageInv'
<1> USE DEF Page!Callers, Page!Idle, Page!Sent
<1>f. page \in PageFields /\ cores \in [Page!Callers -> CoreFields]
  BY DEF PageInv
<1>1. CASE Page!Refresh
  <2>1. cores' \in [Page!Callers -> CoreFields] /\ cores'["dialog"] = cores["dialog"]
    BY <1>1, <1>f DEF Page!Refresh, CoreFields
  <2> QED
    BY <1>1, <2>1 DEF PageInv, Page!Refresh, Page!AccountShown, Page!Load
<1>2. CASE Page!removeSelectedAccount \/ \E a \in Listed : Page!saveAccount(a)
  <2>1. /\ cores' \in [Page!Callers -> CoreFields] /\ cores'["dialog"].at # "idle"
        /\ UNCHANGED <<page, loads>> /\ server' \subseteq Listed
    <3>1. CASE Page!removeSelectedAccount
      BY <3>1, <1>f DEF Page!removeSelectedAccount, CoreFields, PageInv, Page!None
    <3>2. ASSUME NEW a \in Listed, Page!saveAccount(a)
          PROVE  /\ cores' \in [Page!Callers -> CoreFields] /\ cores'["dialog"].at # "idle"
                 /\ UNCHANGED <<page, loads>> /\ server' \subseteq Listed
      BY <3>2, <1>f DEF Page!saveAccount, CoreFields, PageInv
    <3> QED
      BY <1>2, <3>1, <3>2
  <2> QED
    BY <2>1 DEF PageInv, Page!AccountShown
<1>3. CASE Page!Edited
  <2>1. /\ cores' \in [Page!Callers -> CoreFields] /\ cores'["dialog"].at # "idle"
        /\ UNCHANGED <<server, loads>>
    BY <1>3, <1>f DEF Page!Edited, CoreFields
  <2>2. page' \in PageFields
    BY <1>3, <1>f DEF Page!Edited, PageFields, CoreFields
  <2> QED
    BY <2>1, <2>2 DEF PageInv, Page!AccountShown
<1>4. ASSUME NEW c \in Page!Callers, Page!Read(c) PROVE PageInv'
  <2>1. /\ cores' \in [Page!Callers -> CoreFields]
        /\ cores'["dialog"].at = "idle" => cores["dialog"].at = "idle"
    BY <1>4, <1>f DEF Page!Read, CoreFields, PageInv
  <2> QED
    BY <1>4, <2>1 DEF PageInv, Page!Read, Page!AccountShown, Page!Load
<1>5. ASSUME NEW c \in Page!Callers, Page!loadCore(c) PROVE PageInv'
  <2> DEFINE p == [page EXCEPT !.listed = cores[c].list]
  <2>1. p \in PageFields /\ p.selected = page.selected /\ p.request = page.request
    BY <1>f DEF PageFields, CoreFields
  <2>2. cores' \in [Page!Callers -> CoreFields] /\ UNCHANGED server
    BY <1>5, <1>f DEF Page!loadCore, CoreFields
  <2>3. CASE cores[c].again /\ page.selected \in cores[c].list
    <3>1. page' = Page!Selecting(p, page.selected) /\ loads' = loads \cup {Page!Load(page')}
      BY <1>5, <2>3 DEF Page!loadCore
    <3>2. page' \in PageFields
      <4>1. page.selected \in Listed \cup {Page!None}
        BY <1>f DEF PageFields
      <4> HIDE DEF p
      <4> QED
        BY <2>1, <3>1, <4>1, PageMoves
    <3>3. Page!Load(page') \in [id : Listed \cup {Page!None}, request : Nat]
      BY <3>2 DEF PageFields, Page!Load
    <3>4. Page!Load(page)' \in loads'
      BY <3>1 DEF Page!Load
    <3> QED
      BY <2>2, <3>1, <3>2, <3>3, <3>4 DEF PageInv, Page!AccountShown
  <2>4. CASE ~(cores[c].again /\ page.selected \in cores[c].list)
    <3>1. page' = Page!showView(p) /\ loads' = loads
      BY <1>5, <2>4 DEF Page!loadCore
    <3>2. page' \in PageFields /\ page'.panel = "other"
      <4> HIDE DEF p
      <4> QED
        BY <2>1, <3>1, PageMoves
    <3> QED
      BY <2>2, <3>1, <3>2 DEF PageInv, Page!AccountShown
  <2> QED
    BY <2>3, <2>4
<1>6. ASSUME NEW c \in Page!Callers, Page!CoreFails(c) PROVE PageInv'
  <2>1. /\ cores' \in [Page!Callers -> CoreFields] /\ UNCHANGED <<server, loads>>
        /\ c # "dialog" => cores'["dialog"] = cores["dialog"]
    BY <1>6, <1>f DEF Page!CoreFails, CoreFields
  <2>2. page' = [page EXCEPT !.failed = @ \/ c = "dialog"]
    BY <1>6 DEF Page!CoreFails
  <2>3. /\ page' \in PageFields
        /\ page'.panel = page.panel /\ page'.shown = page.shown
        /\ page'.selected = page.selected /\ page'.request = page.request
        /\ page'.failed = (page.failed \/ c = "dialog")
    BY <2>2, <1>f DEF PageFields
  <2>4. Page!Load(page)' = Page!Load(page)
    BY <2>3 DEF Page!Load
  <2> QED
    BY <2>1, <2>3, <2>4 DEF PageInv, Page!AccountShown
<1> QED
  BY <1>1, <1>2, <1>3, <1>4, <1>5, <1>6

\* What the page shows is what was asked for last, in every behaviour of the
\* composition and for every set of accounts.
THEOREM AccountShownHolds == Spec => []AccountShown
<1>1. Init => PageInv
  <2> SUFFICES ASSUME Init PROVE PageInv
    OBVIOUS
  <2>1. page \in PageFields /\ server \subseteq Listed /\ page.panel = "other"
    BY DEF Init, Page!Init, PageFields, Page!None
  <2>2. cores \in [Page!Callers -> CoreFields] /\ loads = {}
    BY DEF Init, Page!Init, CoreFields, Page!Idle, Page!None
  <2> QED
    BY <2>1, <2>2 DEF PageInv, Page!AccountShown
<1>2. PageInv /\ [Next]_vars => PageInv'
  <2> SUFFICES ASSUME PageInv, [Page!Next]_(Page!vars) PROVE PageInv'
    BY DEF Next, vars, Only, pageVars, Page!vars
  <2>1. CASE UNCHANGED Page!vars
    BY <2>1 DEF PageInv, Page!vars, Page!AccountShown, Page!Load
  <2> QED
    BY <2>1, PageClicked, PageAnswered, PageReloaded DEF Page!Next
<1>3. PageInv => AccountShown
  BY DEF PageInv, AccountShown
<1> QED
  BY <1>1, <1>2, <1>3, PTL DEF Spec

(***************************************************************************)
(* The gains of the direct accounts                                        *)
(***************************************************************************)

\* A set of numbers has a least one.
LEMMA LeastOf ==
  ASSUME NEW T \in SUBSET Nat, T # {}
  PROVE  \E x \in T : \A y \in T : x <= y
<1> DEFINE R == {ss \in Nat \X Nat : ss[1] < ss[2]}
<1>1. IsWellFoundedOn(R, Nat)
  BY NatLessThanWellFounded DEF OpToRel
<1> HIDE DEF R
<1>2. PICK x \in T : \A y \in T : ~(<<y, x>> \in R)
  BY <1>1, WFMin
<1>3. \A y \in T : ~(y < x)
  <2> SUFFICES ASSUME NEW y \in T, y < x PROVE FALSE
    OBVIOUS
  <2>1. <<y, x>> \in R
    BY DEF R
  <2> QED
    BY <1>2, <2>1
<1> QED
  BY <1>3

\* Where the credits of an account are now above an amount, they rose to every
\* amount in between.
RoseFrom(a, v, w) == \A n \in Nat : v < n /\ n <= w => [of |-> a, amount |-> n] \in rises
Covered(a, v) == v # Direct!Unknown => RoseFrom(a, v, credits[a])

Amounts == Nat \cup {Direct!Unknown}
ProbeFields == [at : {"idle", "asked", "known", "catalog", "ingest", "failed", "report"},
                of : Nat, seen : Amounts, previous : Amounts]
AnyProvider == {"chatgpt", "commandcode"}

\* The snapshot and what a probe was told were the credits once, the one before
\* the other, as long as the probes of an account do not overlap.
GainInv ==
    /\ provider \in AnyProvider
    /\ todo \subseteq Accounts
    /\ credits \in [Accounts -> Nat]
    /\ snap \in [Accounts -> [credits : Amounts, failures : Int]]
    /\ probe \in [Direct!Probers -> ProbeFields]
    /\ \A p \in Direct!Probers : probe[p].at # "idle" => probe[p].of \in Accounts
    /\ \A p, q \in Direct!Probers :
         p # q /\ probe[p].at # "idle" /\ probe[q].at # "idle" => probe[p].of # probe[q].of
    /\ \A a \in Accounts : Covered(a, snap[a].credits)
    /\ \A p \in Direct!Probers : probe[p].at \in {"known", "ingest"} =>
         Covered(probe[p].of, probe[p].seen)
    /\ \A p \in Direct!Probers :
         /\ probe[p].at = "known" /\ probe[p].seen # Direct!Unknown
         /\ snap[probe[p].of].credits # Direct!Unknown
         => RoseFrom(probe[p].of, snap[probe[p].of].credits, probe[p].seen)
    /\ gainsTold \subseteq rises

\* The parts of it that a step of a probe can disturb.
ProbeInv(p) ==
    /\ probe[p] \in ProbeFields
    /\ probe[p].at # "idle" => probe[p].of \in Accounts
    /\ probe[p].at \in {"known", "ingest"} => Covered(probe[p].of, probe[p].seen)
    /\ /\ probe[p].at = "known" /\ probe[p].seen # Direct!Unknown
       /\ snap[probe[p].of].credits # Direct!Unknown
       => RoseFrom(probe[p].of, snap[probe[p].of].credits, probe[p].seen)

\* A step of one probe that leaves the accounts and the credits of the snapshots
\* alone, of the account it was about or one that the other is not.
LEMMA ProbeMoves ==
  ASSUME GainInv, NEW p \in Direct!Probers, NEW r,
         probe' = [probe EXCEPT ![p] = r],
         UNCHANGED <<provider, credits, rises>>,
         snap' \in [Accounts -> [credits : Amounts, failures : Int]],
         \A a \in Accounts : snap'[a].credits = snap[a].credits,
         todo' \subseteq Accounts, gainsTold' \subseteq rises,
         ProbeInv(p)',
         \/ r.at = "idle"
         \/ probe[p].at # "idle" /\ r.of = probe[p].of
         \/ \A q \in Direct!Probers \ {p} : probe[q].of # r.of
  PROVE  GainInv'
<1>1. /\ probe \in [Direct!Probers -> ProbeFields] /\ r \in ProbeFields
      /\ probe'[p] = r /\ \A q \in Direct!Probers \ {p} : probe'[q] = probe[q]
  BY DEF GainInv, ProbeInv
<1>2. probe' \in [Direct!Probers -> ProbeFields]
  BY <1>1
<1>3. \A q \in Direct!Probers : ProbeInv(q)'
  BY <1>1 DEF GainInv, ProbeInv, Covered, RoseFrom
<1>4. \A q \in Direct!Probers, s \in Direct!Probers :
        q # s /\ probe'[q].at # "idle" /\ probe'[s].at # "idle" => probe'[q].of # probe'[s].of
  BY <1>1 DEF GainInv
<1>5. \A a \in Accounts : Covered(a, snap[a].credits)'
  BY DEF GainInv, Covered, RoseFrom
<1>6. /\ provider' \in AnyProvider /\ credits' \in [Accounts -> Nat]
      /\ snap' \in [Accounts -> [credits : Amounts, failures : Int]]
      /\ todo' \subseteq Accounts /\ gainsTold' \subseteq rises'
  BY DEF GainInv
<1> QED
  BY <1>2, <1>3, <1>4, <1>5, <1>6 DEF GainInv, ProbeInv

\* The credits of an account go up and down.
LEMMA CreditsMove ==
  ASSUME GainInv, Direct!Earned \/ Direct!Spent
  PROVE  GainInv'
<1>1. PICK a \in Accounts :
        /\ \/ /\ credits' = [credits EXCEPT ![a] = @ + 1]
              /\ rises' = rises \cup {[of |-> a, amount |-> credits[a] + 1]}
           \/ credits' = [credits EXCEPT ![a] = @ - 1] /\ credits[a] > 0 /\ rises' = rises
        /\ UNCHANGED <<provider, snap, gainsTold, probe, todo>>
  BY DEF Direct!Earned, Direct!Spent
<1>2. credits \in [Accounts -> Nat]
  BY DEF GainInv
<1>3. credits' \in [Accounts -> Nat] /\ rises \subseteq rises'
  BY <1>1, <1>2
<1>4. ASSUME NEW b \in Accounts, NEW v, Covered(b, v)
      PROVE  Covered(b, v)'
  <2> SUFFICES ASSUME v # Direct!Unknown, NEW n \in Nat, v < n, n <= credits'[b]
               PROVE  [of |-> b, amount |-> n] \in rises'
    BY DEF Covered, RoseFrom
  <2>1. CASE n <= credits[b]
    BY <1>3, <1>4, <2>1 DEF Covered, RoseFrom
  <2>2. CASE ~(n <= credits[b])
    <3>1. b = a /\ n = credits[a] + 1
      BY <1>1, <1>2, <2>2
    <3>2. rises' = rises \cup {[of |-> a, amount |-> credits[a] + 1]}
      BY <1>1, <1>2, <2>2, <3>1
    <3> QED
      BY <3>1, <3>2
  <2> QED
    BY <2>1, <2>2
<1>5. \A b, v, w : RoseFrom(b, v, w) => RoseFrom(b, v, w)'
  BY <1>3 DEF RoseFrom
<1>6. /\ \A b \in Accounts : Covered(b, snap[b].credits)'
      /\ \A p \in Direct!Probers : probe[p].at \in {"known", "ingest"} =>
           Covered(probe[p].of, probe[p].seen)'
  BY <1>1, <1>4 DEF GainInv
<1> QED
  BY <1>1, <1>3, <1>5, <1>6 DEF GainInv

\* A probe begins: of an account that is there, and that the other is not about.
LEMMA ProbeBegins ==
  ASSUME GainInv, NEW p \in Direct!Probers, NEW a \in Accounts, Direct!Asking(p, a),
         ~overlapped', todo' \subseteq Accounts,
         UNCHANGED <<provider, credits, rises, snap, gainsTold>>
  PROVE  GainInv'
<1> DEFINE r == [Direct!Idle EXCEPT !.at = "asked", !.of = a]
<1>1. probe' = [probe EXCEPT ![p] = r] /\ \A q \in Direct!Probers \ {p} : probe[q].of # a
  BY DEF Direct!Asking
<1>2. r \in ProbeFields /\ r.at = "asked" /\ r.of = a
  BY ObservatoryAssumption DEF Direct!Idle, ProbeFields, Amounts
<1>3. probe'[p] = r
  BY <1>1 DEF GainInv
<1>4. ProbeInv(p)'
  BY <1>2, <1>3 DEF ProbeInv
<1>5. snap' \in [Accounts -> [credits : Amounts, failures : Int]]
  BY DEF GainInv
<1>6. gainsTold' \subseteq rises
  BY DEF GainInv
<1> HIDE DEF r
<1> QED
  BY <1>1, <1>2, <1>4, <1>5, <1>6, ProbeMoves

\* A probe ends, or ends in a failure that is to be stored.
LEMMA ProbeEnds ==
  ASSUME GainInv, NEW p \in Direct!Probers, NEW r,
         probe' = [probe EXCEPT ![p] = r],
         \/ r = Direct!Idle
         \/ probe[p].at # "idle" /\ r = [probe[p] EXCEPT !.at = "failed"]
         \/ probe[p].at # "idle" /\ r = [probe[p] EXCEPT !.at = "report"],
         UNCHANGED <<provider, credits, rises, gainsTold>>, todo' \subseteq Accounts,
         snap' \in [Accounts -> [credits : Amounts, failures : Int]],
         \A a \in Accounts : snap'[a].credits = snap[a].credits
  PROVE  GainInv'
<1>1. probe[p] \in ProbeFields /\ (probe[p].at # "idle" => probe[p].of \in Accounts)
  BY DEF GainInv
<1>2. CASE r = Direct!Idle
  <2>1. r \in ProbeFields /\ r.at = "idle"
    BY <1>2 DEF Direct!Idle, ProbeFields, Amounts
  <2> QED
    BY <2>1, ProbeMoves DEF ProbeInv, GainInv
<1>3. CASE r # Direct!Idle
  <2>1. r \in ProbeFields /\ r.at \in {"failed", "report"} /\ r.of = probe[p].of
    BY <1>1, <1>3 DEF ProbeFields
  <2>2. probe[p].at # "idle"
    BY <1>3
  <2> QED
    BY <1>1, <2>1, <2>2, ProbeMoves DEF ProbeInv, GainInv
<1> QED
  BY <1>2, <1>3

\* The credits are told, and compared with the snapshot.
LEMMA ProbeAnswered ==
  ASSUME GainInv, NEW p \in Direct!Probers, Direct!Answered(p)
  PROVE  GainInv'
<1>1. /\ probe[p] \in ProbeFields /\ probe[p].of \in Accounts /\ probe[p].at = "asked"
      /\ UNCHANGED <<provider, credits, rises, snap, gainsTold, todo>>
  BY DEF GainInv, Direct!Answered, Direct!outside
<1>2. /\ snap' \in [Accounts -> [credits : Amounts, failures : Int]]
      /\ \A a \in Accounts : snap'[a].credits = snap[a].credits
      /\ todo' \subseteq Accounts /\ gainsTold' \subseteq rises
  BY <1>1 DEF GainInv
<1>3. CASE Direct!Fails(p)
  <2>1. PICK r : /\ probe' = [probe EXCEPT ![p] = r]
                 /\ r = Direct!Idle \/ r = [probe[p] EXCEPT !.at = "failed"]
    BY <1>3 DEF Direct!Fails
  <2> QED
    BY <1>1, <1>2, <2>1, ProbeEnds
<1>4. ASSUME NEW seen \in {credits[probe[p].of], Direct!Unknown},
             probe' = [probe EXCEPT ![p].at = "known", ![p].seen = seen]
      PROVE  GainInv'
  <2>0. PICK a \in Accounts : a = probe[p].of
    BY <1>1
  <2> DEFINE r == [probe[p] EXCEPT !.at = "known", !.seen = seen]
  <2>1. seen \in Amounts /\ credits[a] \in Nat
    BY <1>1, <2>0, <1>4 DEF GainInv, Amounts
  <2>2. probe' = [probe EXCEPT ![p] = r]
    BY <1>4 DEF GainInv
  <2>3. r \in ProbeFields /\ r.at = "known" /\ r.of = a /\ r.seen = seen
    BY <1>1, <2>0, <2>1 DEF ProbeFields
  <2>4. probe'[p] = r
    BY <2>2 DEF GainInv
  <2>5. Covered(a, seen)'
    BY <1>1, <1>4, <2>0, <2>1 DEF Covered, RoseFrom, Amounts, Direct!Unknown
  <2>6. snap'[a].credits # Direct!Unknown /\ seen # Direct!Unknown
          => (\A n \in Nat : snap'[a].credits < n /\ n <= seen
                             => [of |-> a, amount |-> n] \in rises')
    <3>1. snap[a].credits # Direct!Unknown => RoseFrom(a, snap[a].credits, credits[a])
      BY DEF GainInv, Covered
    <3>2. seen # Direct!Unknown => seen = credits[a]
      BY <1>4, <2>0
    <3> QED
      BY <1>1, <3>1, <3>2 DEF RoseFrom
  <2>7. ProbeInv(p)'
    <3> HIDE DEF r
    <3> QED
      BY <1>1, <2>3, <2>4, <2>5, <2>6 DEF ProbeInv, RoseFrom
  <2> HIDE DEF r
  <2> QED
    BY <1>1, <1>2, <2>0, <2>2, <2>3, <2>7, ProbeMoves
<1> QED
  BY <1>3, <1>4 DEF Direct!Answered

\* A gain is announced, of ChatGPT or Command Code; a probe of the latter may fail first.
LEMMA ProbeCompared ==
  ASSUME GainInv, NEW p \in Direct!Probers, Direct!ChatgptProbe(p) \/ Direct!CommandCodeProbe(p)
  PROVE  GainInv'
<1>1. /\ probe[p] \in ProbeFields /\ probe[p].of \in Accounts /\ probe[p].at = "known"
      /\ UNCHANGED <<provider, credits, rises, snap, todo>> /\ provider # "antigravity"
  BY DEF GainInv, AnyProvider, Direct!ChatgptProbe, Direct!CommandCodeProbe, Direct!outside
<1>2. /\ snap' \in [Accounts -> [credits : Amounts, failures : Int]]
      /\ \A a \in Accounts : snap'[a].credits = snap[a].credits
      /\ todo' \subseteq Accounts
  BY <1>1 DEF GainInv
<1>3. CASE Direct!Fails(p) /\ UNCHANGED gainsTold
  <2>1. PICK r : /\ probe' = [probe EXCEPT ![p] = r]
                 /\ r = Direct!Idle \/ r = [probe[p] EXCEPT !.at = "failed"]
    BY <1>3 DEF Direct!Fails
  <2> QED
    BY <1>1, <1>2, <1>3, <2>1, ProbeEnds
<1>4. CASE /\ Direct!Announce(p, Direct!getSnapshot(probe[p].of).credits)
           /\ probe' = [probe EXCEPT ![p].at = "ingest"]
  <2>0. PICK a \in Accounts, seen \in Amounts : a = probe[p].of /\ seen = probe[p].seen
    BY <1>1 DEF ProbeFields
  <2> DEFINE r == [probe[p] EXCEPT !.at = "ingest"]
             previous == snap[a].credits
  <2>1. probe' = [probe EXCEPT ![p] = r]
    BY <1>4 DEF GainInv
  <2>2. r \in ProbeFields /\ r.at = "ingest" /\ r.of = a /\ r.seen = seen
    BY <1>1, <2>0 DEF ProbeFields
  <2>3. probe'[p] = r
    BY <2>1 DEF GainInv
  <2>4. Covered(a, seen)'
    BY <1>1, <2>0 DEF GainInv, Covered, RoseFrom
  <2>5. gainsTold' \subseteq rises
    <3>1. Direct!getSnapshot(a) = snap[a]
      BY <1>1, <2>0 DEF Direct!getSnapshot
    <3>2. CASE seen # Direct!Unknown /\ previous # Direct!Unknown /\ seen > previous
      <4>1. seen \in Nat
        BY <3>2 DEF Amounts
      <4>2. previous \in Nat
        BY <2>0, <3>2 DEF GainInv, Amounts
      <4>3. RoseFrom(a, previous, seen)
        BY <1>1, <2>0, <3>2 DEF GainInv
      <4>4. [of |-> a, amount |-> seen] \in rises
        BY <3>2, <4>1, <4>2, <4>3 DEF RoseFrom
      <4>5. gainsTold' \subseteq gainsTold \cup {[of |-> a, amount |-> seen]}
        BY <1>4, <2>0 DEF Direct!Announce
      <4> QED
        BY <4>4, <4>5 DEF GainInv
    <3>3. CASE ~(seen # Direct!Unknown /\ previous # Direct!Unknown /\ seen > previous)
      <4>1. gainsTold' = gainsTold
        BY <1>4, <2>0, <3>1, <3>3 DEF Direct!Announce
      <4> QED
        BY <4>1 DEF GainInv
    <3> QED
      BY <3>2, <3>3
  <2>6. ProbeInv(p)'
    <3> HIDE DEF r
    <3> QED
      BY <1>1, <2>2, <2>3, <2>4 DEF ProbeInv
  <2> HIDE DEF r
  <2> QED
    BY <1>1, <1>2, <2>0, <2>1, <2>2, <2>5, <2>6, ProbeMoves
<1> QED
  BY <1>3, <1>4 DEF Direct!ChatgptProbe, Direct!CommandCodeProbe

\* What was told becomes the snapshot.
LEMMA ProbeStored ==
  ASSUME GainInv, NEW p \in Direct!Probers, Direct!Ingested(p)
  PROVE  GainInv'
<1>1. /\ probe[p] \in ProbeFields /\ probe[p].of \in Accounts /\ probe[p].at = "ingest"
      /\ UNCHANGED <<provider, credits, rises, gainsTold, todo>>
  BY DEF GainInv, Direct!Ingested, Direct!outside
<1>2. CASE Direct!Fails(p) /\ UNCHANGED snap
  <2>1. PICK r : /\ probe' = [probe EXCEPT ![p] = r]
                 /\ r = Direct!Idle \/ r = [probe[p] EXCEPT !.at = "failed"]
    BY <1>2 DEF Direct!Fails
  <2>2. /\ snap' \in [Accounts -> [credits : Amounts, failures : Int]]
        /\ \A b \in Accounts : snap'[b].credits = snap[b].credits
        /\ todo' \subseteq Accounts
    BY <1>1, <1>2 DEF GainInv
  <2> QED
    BY <1>1, <2>1, <2>2, ProbeEnds
<1>3. CASE /\ snap' = [snap EXCEPT ![probe[p].of] =
                        [credits |-> Direct!Kept(probe[p].seen), failures |-> 0]]
           /\ probe' = [probe EXCEPT ![p] = Direct!Idle]
  <2>0. PICK a \in Accounts, seen \in Amounts : a = probe[p].of /\ seen = probe[p].seen
    BY <1>1 DEF ProbeFields
  <2>1. Direct!Kept(seen) = seen
    BY DEF GainInv, AnyProvider, Direct!Kept, Direct!ChatgptKept, Direct!CommandCodeKept
  <2>2. Covered(a, seen)'
    BY <1>1, <2>0 DEF GainInv, Covered, RoseFrom
  <2>3. /\ snap' \in [Accounts -> [credits : Amounts, failures : Int]]
        /\ snap'[a].credits = seen
        /\ \A b \in Accounts \ {a} : snap'[b] = snap[b]
    BY <1>1, <1>3, <2>0, <2>1 DEF GainInv
  <2>4. \A b \in Accounts : Covered(b, snap[b].credits)'
    <3>1. \A b \in Accounts : b # a => Covered(b, snap[b].credits)'
      BY <1>1, <2>3 DEF GainInv, Covered, RoseFrom
    <3>2. snap'[a].credits = seen => Covered(a, snap[a].credits)'
      BY <2>2 DEF Covered
    <3> QED
      BY <2>3, <3>1, <3>2
  <2>5. /\ probe' \in [Direct!Probers -> ProbeFields] /\ probe'[p].at = "idle"
        /\ \A q \in Direct!Probers \ {p} : probe'[q] = probe[q]
    BY <1>3 DEF GainInv, Direct!Idle, ProbeFields, Amounts
  <2>6. \A q \in Direct!Probers \ {p} : probe[q].at # "idle" =>
          probe[q].of \in Accounts \ {a}
    BY <1>1, <2>0 DEF GainInv
  <2>7. \A q \in Direct!Probers : ProbeInv(q)'
    <3>1. ASSUME NEW q \in Direct!Probers \ {p} PROVE ProbeInv(q)'
      BY <1>1, <2>3, <2>5, <2>6 DEF GainInv, ProbeInv, Covered, RoseFrom
    <3> QED
      BY <2>5, <3>1 DEF ProbeInv
  <2>8. \A q \in Direct!Probers, s \in Direct!Probers :
          q # s /\ probe'[q].at # "idle" /\ probe'[s].at # "idle" => probe'[q].of # probe'[s].of
    BY <2>5 DEF GainInv
  <2> QED
    BY <1>1, <2>3, <2>4, <2>5, <2>7, <2>8 DEF GainInv, ProbeInv
<1> QED
  BY <1>2, <1>3 DEF Direct!Ingested

\* Every step, as long as the probes of an account have not overlapped.
LEMMA GainKept ==
  ASSUME GainInv, ~overlapped', Direct!Next
  PROVE  GainInv'
<1> DEFINE still == /\ UNCHANGED <<provider, credits, rises, snap, gainsTold, probe>>
                    /\ todo' \subseteq Accounts
<1>1. still => GainInv'
  BY DEF GainInv, Covered, RoseFrom
<1>2. /\ snap \in [Accounts -> [credits : Amounts, failures : Int]]
      /\ todo \subseteq Accounts /\ provider # "antigravity"
  BY DEF GainInv, AnyProvider
<1>3. ASSUME NEW a \in Accounts,
             Direct!upsertAccount(a) \/ Direct!setAccountEnabled(a) \/ Direct!removeAccount(a)
      PROVE  GainInv'
  BY <1>1, <1>2, <1>3 DEF Direct!upsertAccount, Direct!setAccountEnabled,
                          Direct!removeAccount, Direct!Edit
<1>4. ASSUME NEW a \in Accounts, Direct!ProbeOne(a) PROVE GainInv'
  <2>1. "hand" \in Direct!Probers
    BY DEF Direct!Probers
  <2> QED
    BY <1>2, <1>4, <2>1, ProbeBegins DEF Direct!ProbeOne, Direct!outside
<1>5. ASSUME NEW p \in Direct!Probers, Direct!probeAll(p) \/ Direct!RoundEnds(p) PROVE GainInv'
  BY <1>1, <1>2, <1>5 DEF Direct!probeAll, Direct!RoundEnds, Direct!outside
<1>6. ASSUME NEW p \in Direct!Probers, Direct!NextAccount(p) PROVE GainInv'
  <2>1. Direct!Min(todo) \in Accounts
    <3>1. \E x \in todo : \A y \in todo : x <= y
      BY <1>2, <1>6, LeastOf, ObservatoryAssumption DEF Direct!NextAccount
    <3> QED
      BY <1>2, <3>1 DEF Direct!Min
  <2> QED
    BY <1>1, <1>2, <1>6, <2>1, ProbeBegins DEF Direct!NextAccount, Direct!outside
<1>7. ASSUME NEW p \in Direct!Probers, Direct!persistFailure(p) PROVE GainInv'
  <2>1. /\ UNCHANGED <<provider, credits, rises, gainsTold, todo>>
        /\ probe[p].at # "idle" /\ probe[p].of \in Accounts
        /\ probe \in [Direct!Probers -> ProbeFields]
    BY <1>7 DEF GainInv, Direct!persistFailure, Direct!outside
  <2>2. \/ probe' = [probe EXCEPT ![p] = Direct!Idle]
        \/ probe' = [probe EXCEPT ![p] = [probe[p] EXCEPT !.at = "report"]]
    BY <1>7, <2>1 DEF Direct!persistFailure
  <2>3. /\ snap' \in [Accounts -> [credits : Amounts, failures : Int]]
        /\ \A a \in Accounts : snap'[a].credits = snap[a].credits
    <3>1. CASE UNCHANGED snap
      BY <1>2, <3>1
    <3>2. CASE snap' = [snap EXCEPT ![probe[p].of].failures =
                          IF @ < MaxProbeFailures THEN @ + 1 ELSE @]
      BY <1>2, <2>1, <3>2
    <3> QED
      BY <1>7, <3>1, <3>2 DEF Direct!persistFailure
  <2>4. PICK r : /\ probe' = [probe EXCEPT ![p] = r]
                 /\ r = Direct!Idle \/ r = [probe[p] EXCEPT !.at = "report"]
    BY <2>2
  <2> QED
    BY <1>2, <2>1, <2>3, <2>4, ProbeEnds
<1>8. ASSUME NEW p \in Direct!Probers, Direct!Reported(p) PROVE GainInv'
  <2>1. /\ UNCHANGED <<provider, credits, rises, gainsTold, snap>>
        /\ probe' = [probe EXCEPT ![p] = Direct!Idle] /\ todo' \subseteq Accounts
    BY <1>2, <1>8 DEF Direct!Reported, Direct!outside
  <2> QED
    BY <1>2, <2>1, ProbeEnds
<1>9. \A p \in Direct!Probers : ~Direct!AntigravityProbe(p)
  BY <1>2 DEF Direct!AntigravityProbe
<1> QED
  BY <1>3, <1>4, <1>5, <1>6, <1>7, <1>8, <1>9, CreditsMove, ProbeAnswered, ProbeCompared,
     ProbeStored DEF Direct!Next, Direct!ProbeStep

\* Of ChatGPT and Command Code a gain is announced only when the credits rose to
\* that amount, unless two probes of one account overlapped.
THEOREM GainsRoseHolds == Spec => []GainsRose
<1> DEFINE Inv == /\ provider \in AnyProvider \cup {"antigravity"}
                  /\ provider = "antigravity" \/ overlapped \/ GainInv
<1>1. Init => Inv
  <2> SUFFICES ASSUME Init, provider # "antigravity" PROVE GainInv
    BY DEF Init, Direct!Init, Direct!Providers, AnyProvider
  <2>1. probe \in [Direct!Probers -> ProbeFields] /\ \A p \in Direct!Probers : probe[p].at = "idle"
    BY DEF Init, Direct!Init, Direct!Idle, ProbeFields, Amounts
  <2>2. /\ snap \in [Accounts -> [credits : Amounts, failures : Int]]
        /\ \A a \in Accounts : snap[a].credits = Direct!Unknown
    BY DEF Init, Direct!Init, Direct!NoSnapshot, Amounts
  <2>3. credits \in [Accounts -> Nat]
    BY DEF Init, Direct!Init
  <2>4. provider \in AnyProvider /\ todo \subseteq Accounts /\ gainsTold \subseteq rises
    BY DEF Init, Direct!Init, Direct!Providers, AnyProvider
  <2> QED
    BY <2>1, <2>2, <2>3, <2>4 DEF GainInv, Covered
<1>2. Inv /\ [Next]_vars => Inv'
  <2> SUFFICES ASSUME Inv, [Direct!Next]_(Direct!vars) PROVE Inv'
    BY DEF Next, vars, Only, directVars, Direct!vars, Direct!outside
  <2>1. CASE UNCHANGED Direct!vars
    BY <2>1 DEF Direct!vars, Direct!outside, GainInv, Covered, RoseFrom
  <2>2. CASE Direct!Next
    <3>1. provider' = provider /\ (overlapped => overlapped')
      <4>1. ASSUME NEW a \in Accounts, Direct!upsertAccount(a) \/ Direct!setAccountEnabled(a)
                                       \/ Direct!removeAccount(a)
            PROVE  UNCHANGED <<provider, overlapped>>
        BY <4>1 DEF Direct!upsertAccount, Direct!setAccountEnabled, Direct!removeAccount,
                    Direct!Edit
      <4>2. ASSUME NEW a \in Accounts, Direct!ProbeOne(a)
            PROVE  provider' = provider /\ (overlapped => overlapped')
        BY <4>2 DEF Direct!ProbeOne, Direct!Asking, Direct!outside
      <4>3. ASSUME NEW p \in Direct!Probers, Direct!NextAccount(p)
            PROVE  provider' = provider /\ (overlapped => overlapped')
        <5>1. provider' = provider
          BY <4>3 DEF Direct!NextAccount, Direct!outside
        <5>2. CASE UNCHANGED overlapped
          BY <5>1, <5>2
        <5>3. CASE Direct!Asking(p, Direct!Min(todo))
          BY <5>1, <5>3 DEF Direct!Asking
        <5> QED
          BY <4>3, <5>2, <5>3 DEF Direct!NextAccount
      <4>4. ASSUME NEW p \in Direct!Probers,
                   \/ Direct!probeAll(p) \/ Direct!RoundEnds(p) \/ Direct!Answered(p)
                   \/ Direct!AntigravityProbe(p) \/ Direct!ChatgptProbe(p)
                   \/ Direct!CommandCodeProbe(p) \/ Direct!Ingested(p)
                   \/ Direct!persistFailure(p) \/ Direct!Reported(p)
            PROVE  UNCHANGED <<provider, overlapped>>
        BY <4>4 DEF Direct!probeAll, Direct!RoundEnds, Direct!Answered, Direct!AntigravityProbe,
                    Direct!ChatgptProbe, Direct!CommandCodeProbe, Direct!Ingested,
                    Direct!persistFailure, Direct!Reported, Direct!outside
      <4>5. CASE Direct!Earned \/ Direct!Spent
        <5>1. UNCHANGED <<provider, overlapped>>
          BY <4>5 DEF Direct!Earned, Direct!Spent
        <5> QED
          BY <5>1
      <4> QED
        BY <2>2, <4>1, <4>2, <4>3, <4>4, <4>5 DEF Direct!Next, Direct!ProbeStep
    <3> QED
      BY <2>2, <3>1, GainKept
  <2> QED
    BY <2>1, <2>2
<1>3. Inv => GainsRose
  BY DEF GainInv, GainsRose, Direct!GainsRose
<1> QED
  BY <1>1, <1>2, <1>3, PTL DEF Spec

(***************************************************************************)
(* The commands                                                            *)
(***************************************************************************)

\* The updates up to this one are passed: what is fetched comes after it.
PassedUpTo == IF lastOffset > confirmed THEN lastOffset - 1 ELSE confirmed

\* All that is passed is done with, the batch follows it without a gap, and as long
\* as the listener has not been stopped nothing behind it was answered.
ListenerInv ==
    /\ kind \in Seq(Listener!Kinds) /\ answers \in Seq(Nat) /\ Len(answers) = Len(kind)
    /\ order \in Seq(Nat) /\ batch \in Seq(Nat) /\ stops \in Nat
    /\ confirmed \in 0 .. Len(kind) /\ lastOffset \in 0 .. Len(kind) + 1
    /\ state = "handling" => batch # <<>>
    /\ \A i \in DOMAIN batch : batch[i] = PassedUpTo + i /\ batch[i] <= Len(kind)
    /\ \A u \in 1 .. PassedUpTo : kind[u] = "foreign" \/ answers[u] > 0
    /\ IF order = <<>> THEN PassedUpTo = 0 ELSE PassedUpTo <= order[Len(order)]
    /\ \A i \in DOMAIN order : i > 1 => order[i] <= order[i - 1] + 1
    /\ stops = 0 => \A u \in DOMAIN answers :
                      answers[u] <= 1 /\ (u > PassedUpTo => answers[u] = 0)

\* Where the invariant puts what is passed.
LEMMA PassedTyped ==
  ASSUME ListenerInv
  PROVE  /\ PassedUpTo \in 0 .. Len(kind) /\ Len(kind) \in Nat
         /\ confirmed <= PassedUpTo /\ lastOffset <= PassedUpTo + 1
         /\ confirmed \in Nat /\ lastOffset \in Nat
BY DEF ListenerInv, PassedUpTo

\* A message of the chat changes nothing that is passed.
LEMMA ArriveKept ==
  ASSUME ListenerInv, NEW k \in Listener!Kinds, Listener!Arrive(k)
  PROVE  ListenerInv'
<1>1. /\ kind' = Append(kind, k) /\ answers' = Append(answers, 0)
      /\ UNCHANGED <<confirmed, lastOffset, batch, state, order, stops>>
  BY DEF Listener!Arrive
<1>2. kind \in Seq(Listener!Kinds) /\ answers \in Seq(Nat) /\ Len(answers) = Len(kind)
  BY DEF ListenerInv
<1>3. /\ kind' \in Seq(Listener!Kinds) /\ answers' \in Seq(Nat)
      /\ Len(kind') = Len(kind) + 1 /\ Len(answers') = Len(kind')
      /\ \A u \in 1 .. Len(kind) : kind'[u] = kind[u] /\ answers'[u] = answers[u]
      /\ answers'[Len(kind) + 1] = 0
      /\ DOMAIN answers' = 1 .. Len(kind) + 1 /\ DOMAIN answers = 1 .. Len(kind)
  BY <1>1, <1>2
<1>4. PassedUpTo' = PassedUpTo
  BY <1>1 DEF PassedUpTo
<1>5. /\ confirmed' \in 0 .. Len(kind') /\ lastOffset' \in 0 .. Len(kind') + 1
      /\ \A i \in DOMAIN batch : batch[i] <= Len(kind')
  <2>1. Len(kind) \in Nat
    BY PassedTyped
  <2>2. confirmed \in 0 .. Len(kind) /\ lastOffset \in 0 .. Len(kind) + 1
    BY DEF ListenerInv
  <2>3. \A i \in DOMAIN batch : batch[i] \in Nat /\ batch[i] <= Len(kind)
    <3>1. batch \in Seq(Nat) /\ \A i \in DOMAIN batch : batch[i] <= Len(kind)
      BY DEF ListenerInv
    <3> QED
      BY <3>1
  <2>4. \A i \in DOMAIN batch : batch[i] <= Len(kind')
    BY <1>3, <2>1, <2>3
  <2> QED
    BY <1>1, <1>3, <2>1, <2>2, <2>4
<1>6. \A u \in 1 .. PassedUpTo' : kind'[u] = "foreign" \/ answers'[u] > 0
  <2> SUFFICES ASSUME NEW u \in 1 .. PassedUpTo
               PROVE  kind'[u] = "foreign" \/ answers'[u] > 0
    BY <1>4
  <2>1. u \in 1 .. Len(kind)
    BY PassedTyped
  <2>2. kind[u] = "foreign" \/ answers[u] > 0
    BY DEF ListenerInv
  <2> QED
    BY <1>3, <2>1, <2>2
<1>7. stops = 0 => \A u \in DOMAIN answers' :
                     answers'[u] <= 1 /\ (u > PassedUpTo => answers'[u] = 0)
  <2> SUFFICES ASSUME stops = 0, NEW u \in 1 .. Len(kind) + 1
               PROVE  answers'[u] <= 1 /\ (u > PassedUpTo => answers'[u] = 0)
    BY <1>3
  <2>1. CASE u = Len(kind) + 1
    BY <1>3, <2>1
  <2>2. CASE u # Len(kind) + 1
    <3>1. u \in 1 .. Len(kind)
      BY <2>2, PassedTyped
    <3>2. answers[u] <= 1 /\ (u > PassedUpTo => answers[u] = 0)
      BY <1>3, <3>1 DEF ListenerInv
    <3> QED
      BY <1>3, <3>1, <3>2
  <2> QED
    BY <2>1, <2>2
<1> QED
  BY <1>1, <1>3, <1>4, <1>5, <1>6, <1>7 DEF ListenerInv

\* A fetch confirms what is passed and asks for what follows.
LEMMA FetchKept ==
  ASSUME ListenerInv, Listener!getUpdates
  PROVE  ListenerInv'
<1>1. UNCHANGED <<kind, lastOffset, answers, order, stops>>
  BY DEF Listener!getUpdates
<1>2. confirmed' = PassedUpTo
  <2>1. confirmed \in Int /\ lastOffset - 1 \in Int
    BY PassedTyped
  <2>2. \E x \in {confirmed, lastOffset - 1} : \A y \in {confirmed, lastOffset - 1} : x >= y
    BY <2>1
  <2> DEFINE m == Listener!Max({confirmed, lastOffset - 1})
  <2>3. m \in {confirmed, lastOffset - 1} /\ m >= confirmed /\ m >= lastOffset - 1
    BY <2>2 DEF Listener!Max
  <2>4. confirmed' = m
    BY DEF Listener!getUpdates
  <2> HIDE DEF m
  <2> QED
    BY <2>1, <2>3, <2>4, PassedTyped DEF PassedUpTo
<1>3. PassedUpTo' = PassedUpTo
  BY <1>1, <1>2, PassedTyped DEF PassedUpTo
<1>4. \/ batch' = batch /\ state' # "handling"
      \/ /\ batch' \in Seq(Nat) /\ (state' = "handling" => batch' # <<>>)
         /\ \A i \in DOMAIN batch' : batch'[i] = PassedUpTo + i /\ batch'[i] <= Len(kind)
  <2>1. CASE UNCHANGED batch /\ state' = "backoff"
    BY <2>1
  <2>2. ASSUME batch' = [i \in 1 .. Listener!Min({BatchLimit, Len(kind) - confirmed'})
                           |-> confirmed' + i],
               state' = IF batch' = <<>> THEN "fetching" ELSE "handling"
        PROVE  /\ batch' \in Seq(Nat) /\ (state' = "handling" => batch' # <<>>)
               /\ \A i \in DOMAIN batch' : batch'[i] = PassedUpTo + i /\ batch'[i] <= Len(kind)
    <3> DEFINE rest == Len(kind) - PassedUpTo
               n == Listener!Min({BatchLimit, rest})
    <3>1. BatchLimit \in Nat /\ rest \in Nat /\ PassedUpTo \in Nat
      BY PassedTyped, ObservatoryAssumption
    <3>2. n \in Nat /\ n <= rest
      <4>1. \E x \in {BatchLimit, rest} : \A y \in {BatchLimit, rest} : x <= y
        BY <3>1
      <4>2. n \in {BatchLimit, rest} /\ n <= rest
        BY <4>1 DEF Listener!Min
      <4> QED
        BY <3>1, <4>2
    <3>3. batch' = [i \in 1 .. n |-> PassedUpTo + i]
      BY <1>2, <2>2
    <3>4. PassedUpTo + rest = Len(kind)
      BY PassedTyped
    <3> HIDE DEF n, rest
    <3>5. \A i \in 1 .. n : PassedUpTo + i \in Nat /\ PassedUpTo + i <= Len(kind)
      BY <3>1, <3>2, <3>4
    <3>6. batch' \in Seq(Nat)
      BY <3>2, <3>3, <3>5
    <3> QED
      BY <2>2, <3>3, <3>5, <3>6
  <2> QED
    BY <2>1, <2>2 DEF Listener!getUpdates
<1>5. confirmed' \in 0 .. Len(kind)
  BY <1>2, PassedTyped
<1> QED
  BY <1>1, <1>3, <1>4, <1>5 DEF ListenerInv

\* An update that is done with is the one after those passed, and is passed itself.
LEMMA AdvanceKept ==
  ASSUME ListenerInv, state = "handling", Listener!Advance(Head(batch)),
         UNCHANGED <<kind, confirmed, stops>>,
         answers' \in Seq(Nat), Len(answers') = Len(answers),
         \A u \in DOMAIN answers : u # Head(batch) => answers'[u] = answers[u],
         \/ kind[Head(batch)] = "foreign" /\ answers' = answers
         \/ answers'[Head(batch)] = answers[Head(batch)] + 1
  PROVE  ListenerInv'
<1>0. /\ batch \in Seq(Nat) /\ batch # <<>> /\ order \in Seq(Nat)
      /\ answers \in Seq(Nat) /\ Len(answers) = Len(kind) /\ kind \in Seq(Listener!Kinds)
      /\ confirmed \in 0 .. Len(kind) /\ stops \in Nat
  BY DEF ListenerInv
<1>1. PICK update \in Nat : update = Head(batch)
  BY <1>0
<1>2. PICK d \in Nat : d = PassedUpTo
  BY PassedTyped
<1>3. update = d + 1 /\ update <= Len(kind)
  BY <1>0, <1>1, <1>2 DEF ListenerInv
<1>4. lastOffset' = update + 1
  BY <1>1, <1>2, <1>3, PassedTyped DEF Listener!Advance, Listener!Passed
<1>5. PassedUpTo' = d + 1
  BY <1>2, <1>3, <1>4, PassedTyped DEF PassedUpTo
<1>6. /\ batch' = Tail(batch) /\ order' = Append(order, update)
      /\ state' = IF Len(batch) = 1 THEN "fetching" ELSE "handling"
  BY <1>1 DEF Listener!Advance
<1>7. /\ batch' \in Seq(Nat) /\ (state' = "handling" => batch' # <<>>)
      /\ \A i \in DOMAIN batch' : batch'[i] = d + 1 + i /\ batch'[i] <= Len(kind)
  <2>1. /\ batch' \in Seq(Nat) /\ Len(batch') = Len(batch) - 1
        /\ \A i \in DOMAIN batch' : batch'[i] = batch[i + 1] /\ i + 1 \in DOMAIN batch
    BY <1>0, <1>6
  <2>2. \A i \in DOMAIN batch : batch[i] = d + i /\ batch[i] <= Len(kind)
    BY <1>2 DEF ListenerInv
  <2>3. \A i \in DOMAIN batch' : batch'[i] = d + 1 + i /\ batch'[i] <= Len(kind)
    BY <2>1, <2>2
  <2>4. state' = "handling" => batch' # <<>>
    <3>1. Len(batch) \in Nat /\ Len(batch) # 0
      BY <1>0
    <3>2. state' = "handling" => Len(batch') # 0
      BY <1>6, <2>1, <3>1
    <3> QED
      BY <3>2
  <2> QED
    BY <2>1, <2>3, <2>4
<1>8. \A u \in 1 .. d + 1 : kind[u] = "foreign" \/ answers'[u] > 0
  <2> SUFFICES ASSUME NEW u \in 1 .. d + 1 PROVE kind[u] = "foreign" \/ answers'[u] > 0
    OBVIOUS
  <2>1. u \in DOMAIN answers /\ answers[u] \in Nat /\ update \in DOMAIN answers
    <3>1. DOMAIN answers = 1 .. Len(kind) /\ Len(kind) \in Nat
      BY <1>0
    <3>2. u \in 1 .. Len(kind) /\ update \in 1 .. Len(kind)
      BY <1>2, <1>3, <3>1
    <3> QED
      BY <1>0, <3>1, <3>2
  <2>2. CASE u = update
    BY <1>1, <2>1, <2>2
  <2>3. CASE u # update
    <3>1. u \in 1 .. PassedUpTo
      BY <1>2, <1>3, <2>3
    <3>2. kind[u] = "foreign" \/ answers[u] > 0
      BY <3>1 DEF ListenerInv
    <3> QED
      BY <1>1, <2>1, <2>3, <3>2
  <2> QED
    BY <2>2, <2>3
<1>9. /\ order' \in Seq(Nat) /\ order' # <<>> /\ order'[Len(order')] = d + 1
      /\ \A i \in DOMAIN order' : i > 1 => order'[i] <= order'[i - 1] + 1
  <2>1. /\ order' \in Seq(Nat) /\ Len(order') = Len(order) + 1 /\ order'[Len(order) + 1] = update
        /\ \A i \in 1 .. Len(order) : order'[i] = order[i]
        /\ DOMAIN order' = 1 .. Len(order) + 1 /\ DOMAIN order = 1 .. Len(order)
        /\ Len(order) \in Nat
    BY <1>0, <1>6
  <2>2. ASSUME NEW i \in DOMAIN order', i > 1 PROVE order'[i] <= order'[i - 1] + 1
    <3>1. CASE i \in DOMAIN order
      <4>1. order[i] <= order[i - 1] + 1
        BY <2>2, <3>1 DEF ListenerInv
      <4>2. i - 1 \in 1 .. Len(order) /\ i \in 1 .. Len(order)
        BY <2>1, <2>2, <3>1
      <4> QED
        BY <2>1, <4>1, <4>2
    <3>2. CASE i = Len(order) + 1
      <4>1. order # <<>> /\ Len(order) \in 1 .. Len(order) /\ i - 1 = Len(order)
        BY <1>0, <2>1, <2>2, <3>2
      <4>n. order[Len(order)] \in Nat
        BY <1>0, <4>1
      <4>2. d <= order[Len(order)]
        BY <1>2, <4>1 DEF ListenerInv
      <4>3. order'[i] = update /\ order'[i - 1] = order[Len(order)]
        BY <2>1, <3>2, <4>1
      <4> QED
        BY <1>3, <4>n, <4>2, <4>3
    <3> QED
      BY <2>1, <3>1, <3>2
  <2> QED
    BY <1>3, <2>1, <2>2
<1>10. stops = 0 => \A u \in DOMAIN answers' :
                      answers'[u] <= 1 /\ (u > d + 1 => answers'[u] = 0)
  <2> SUFFICES ASSUME stops = 0, NEW u \in DOMAIN answers'
               PROVE  answers'[u] <= 1 /\ (u > d + 1 => answers'[u] = 0)
    OBVIOUS
  <2>1. u \in DOMAIN answers /\ u \in Nat /\ update \in DOMAIN answers
    <3>1. /\ DOMAIN answers = 1 .. Len(kind) /\ DOMAIN answers' = 1 .. Len(kind)
          /\ Len(kind) \in Nat
      BY <1>0
    <3>2. update \in 1 .. Len(kind)
      BY <1>2, <1>3, <3>1
    <3> QED
      BY <3>1, <3>2
  <2>2. \A v \in DOMAIN answers : answers[v] <= 1 /\ (v > d => answers[v] = 0)
    BY <1>2 DEF ListenerInv
  <2>3. CASE u = update
    BY <1>1, <1>3, <2>1, <2>2, <2>3
  <2>4. CASE u # update
    BY <1>1, <2>1, <2>2, <2>4
  <2> QED
    BY <2>3, <2>4
<1>11. lastOffset' \in 0 .. Len(kind) + 1
  BY <1>3, <1>4, PassedTyped
<1>12. \A i \in DOMAIN batch' : batch'[i] = PassedUpTo' + i /\ batch'[i] <= Len(kind')
  BY <1>5, <1>7
<1>13. \A u \in 1 .. PassedUpTo' : kind'[u] = "foreign" \/ answers'[u] > 0
  BY <1>5, <1>8
<1>14. IF order' = <<>> THEN PassedUpTo' = 0 ELSE PassedUpTo' <= order'[Len(order')]
  BY <1>2, <1>5, <1>9
<1>15. stops' = 0 => \A u \in DOMAIN answers' :
                       answers'[u] <= 1 /\ (u > PassedUpTo' => answers'[u] = 0)
  BY <1>5, <1>10
<1> QED
  BY <1>0, <1>7, <1>9, <1>11, <1>12, <1>13, <1>14, <1>15 DEF ListenerInv

\* An answer that fails, and the steps of the listener around it, pass nothing.
LEMMA ListenKept ==
  ASSUME ListenerInv, Listener!Listen
  PROVE  ListenerInv'
<1>1. CASE Listener!Ignore
  BY <1>1, AdvanceKept DEF Listener!Ignore, ListenerInv
<1>2. CASE Listener!processCommandUpdate
  <2>1. state = "handling" /\ UNCHANGED <<kind, confirmed, stops>>
    BY <1>2 DEF Listener!processCommandUpdate
  <2>2. CASE UNCHANGED <<lastOffset, batch, state, answers, order>>
    BY <2>1, <2>2 DEF ListenerInv, PassedUpTo
  <2>3. CASE /\ answers' = [answers EXCEPT ![Head(batch)] = @ + 1]
             /\ Listener!Advance(Head(batch))
    <3>1. answers \in Seq(Nat) /\ batch \in Seq(Nat) /\ batch # <<>>
      BY <2>1 DEF ListenerInv
    <3>2. Head(batch) \in DOMAIN answers
      <4>1. Head(batch) = PassedUpTo + 1 /\ Head(batch) <= Len(kind) /\ Len(answers) = Len(kind)
        BY <2>1 DEF ListenerInv
      <4> QED
        BY <3>1, <4>1, PassedTyped
    <3>3. /\ answers' \in Seq(Nat) /\ Len(answers') = Len(answers)
          /\ \A u \in DOMAIN answers : u # Head(batch) => answers'[u] = answers[u]
          /\ answers'[Head(batch)] = answers[Head(batch)] + 1
      BY <2>3, <3>1, <3>2
    <3> QED
      BY <2>1, <2>3, <3>3, AdvanceKept
  <2>4. CASE /\ lastOffset' = Listener!PassedOnFailure(lastOffset, Head(batch))
             /\ batch' = <<>> /\ state' = "backoff" /\ UNCHANGED <<answers, order>>
    BY <2>1, <2>4 DEF ListenerInv, PassedUpTo, Listener!PassedOnFailure
  <2> QED
    BY <1>2, <2>2, <2>3, <2>4 DEF Listener!processCommandUpdate
<1>3. CASE Listener!Wait \/ Listener!startCommandListener
  BY <1>3 DEF ListenerInv, PassedUpTo, Listener!Wait, Listener!startCommandListener
<1> QED
  BY <1>1, <1>2, <1>3, FetchKept DEF Listener!Listen

\* The end of the listener forgets what was passed but not confirmed.
LEMMA StopKept ==
  ASSUME ListenerInv, Listener!Stop
  PROVE  ListenerInv'
<1>1. /\ stops' = stops + 1 /\ state' = "stopped" /\ batch' = <<>> /\ lastOffset' = 0
      /\ UNCHANGED <<kind, confirmed, answers, order>>
  BY DEF Listener!Stop
<1>2. PassedUpTo' = confirmed /\ confirmed <= PassedUpTo
  BY <1>1, PassedTyped DEF PassedUpTo
<1>3. \A u \in 1 .. confirmed : kind[u] = "foreign" \/ answers[u] > 0
  BY <1>2, PassedTyped DEF ListenerInv
<1>4. IF order = <<>> THEN confirmed = 0 ELSE confirmed <= order[Len(order)]
  <2>1. CASE order = <<>>
    BY <1>2, <2>1, PassedTyped DEF ListenerInv
  <2>2. CASE order # <<>>
    <3>1. order[Len(order)] \in Nat /\ PassedUpTo <= order[Len(order)]
      BY <2>2 DEF ListenerInv
    <3> QED
      BY <1>2, <2>2, <3>1, PassedTyped
  <2> QED
    BY <2>1, <2>2
<1>5. stops' # 0 /\ stops' \in Nat
  BY <1>1 DEF ListenerInv
<1>6. lastOffset' \in 0 .. Len(kind) + 1
  BY <1>1, PassedTyped
<1> QED
  BY <1>1, <1>2, <1>3, <1>4, <1>5, <1>6 DEF ListenerInv

\* "without message loss": no update is confirmed before it was done with, they are
\* done with in their order, and without a stop no command is answered twice.
THEOREM NoCommandLostHolds == Spec => []NoCommandLost
<1>1. Init => ListenerInv
  <2> SUFFICES ASSUME Init PROVE ListenerInv
    OBVIOUS
  <2>1. /\ kind = <<>> /\ answers = <<>> /\ order = <<>> /\ batch = <<>>
        /\ confirmed = 0 /\ lastOffset = 0 /\ state = "fetching" /\ stops = 0
    BY DEF Init, Listener!Init
  <2>2. PassedUpTo = 0
    BY <2>1 DEF PassedUpTo
  <2> QED
    BY <2>1, <2>2 DEF ListenerInv
<1>2. ListenerInv /\ [Next]_vars => ListenerInv'
  <2> SUFFICES ASSUME ListenerInv, [Listener!Next]_(Listener!vars) PROVE ListenerInv'
    BY DEF Next, vars, Only, listenerVars, Listener!vars
  <2>1. CASE UNCHANGED Listener!vars
    BY <2>1 DEF ListenerInv, PassedUpTo, Listener!vars
  <2> QED
    BY <2>1, ArriveKept, ListenKept, StopKept DEF Listener!Next
<1>3. ListenerInv => NoCommandLost
  <2> SUFFICES ASSUME ListenerInv PROVE NoCommandLost
    OBVIOUS
  <2>1. \A u \in 1 .. confirmed : kind[u] = "foreign" \/ answers[u] > 0
    BY PassedTyped DEF ListenerInv
  <2> QED
    BY <2>1 DEF ListenerInv, NoCommandLost, Listener!NoCommandLost
<1> QED
  BY <1>1, <1>2, <1>3, PTL DEF Spec

(***************************************************************************)
(* The screenshots                                                         *)
(***************************************************************************)

ShotNames == [owner : Ids, at : Nat]
ShotFiles == [owner : Ids, at : Nat, whole : BOOLEAN]
Of(s) == Shots!NameOf(s)
Captor == [owner |-> worker.owner, at |-> worker.time]
Gone(n) == n.at + KeptFor < shotTime \/ n \in swept

\* Nothing has a name of a later time: the next capture has one of its own.
ShotTypes ==
    /\ shotTime \in Nat
    /\ shots \subseteq ShotFiles /\ named \subseteq ShotNames /\ due \subseteq ShotNames
    /\ pass \in [op : {"none", "prune", "remove"}, left : SUBSET ShotNames,
                 own : SUBSET ShotNames]
    /\ \A s \in shots : s.at <= shotTime
    /\ \A n \in named \cup due \cup pass.own : n.at <= shotTime
    /\ worker.at \in {"none", "open", "written"}
    /\ worker.at # "none" =>
         /\ worker = [at |-> worker.at, owner |-> worker.owner, time |-> worker.time]
         /\ Captor \in ShotNames /\ worker.time <= shotTime /\ Captor \notin named

\* A capture has its file until a removal takes it; a prune goes through what has
\* expired, without a worker; what a removal is to delete and has passed is gone.
ShotFacts ==
    /\ worker.at # "none" => Gone(Captor) \/ \E s \in shots : Of(s) = Captor
    /\ worker.at = "written" => \A s \in shots : Of(s) = Captor => s.whole
    /\ pass.op = "none" => pass.left = {}
    /\ pass.op = "prune" => worker.at = "none" /\ \A n \in pass.left : n.at + KeptFor < shotTime
    /\ \A n \in pass.own : n \in pass.left \/ \A s \in shots : Of(s) # n
    /\ \A s \in shots : Of(s) \in named => s.whole

\* What ShotsThere says, in terms of the names.
ShotClaims ==
    /\ \A n \in named : Gone(n) \/ \E s \in shots : Of(s) = n /\ s.whole
    /\ \A s \in served : s.whole
    /\ \A s \in shots : Of(s) \notin due
    /\ \A s \in shots : s.whole \/ Of(s) \in cut \/ (worker.at = "open" /\ Of(s) = Captor)

ShotInv == ShotTypes /\ ShotFacts /\ ShotClaims

\* The files of the capture are those of its name.
LEMMA CapturedAre ==
  ASSUME ShotInv
  PROVE  Shots!Captured = {s \in shots : worker.at # "none" /\ Of(s) = Captor}
BY DEF Shots!Captured, Of, Shots!NameOf, Captor

\* A capture that begins takes a name that nothing has.
LEMMA CaptureKept ==
  ASSUME ShotInv, NEW o \in Ids, Shots!startCapture(o)
  PROVE  ShotInv'
<1>1. /\ worker.at = "none" /\ pass.op # "prune" /\ shotTime \in Nat /\ shotTime' = shotTime + 1
      /\ UNCHANGED <<named, pass, served, swept, due, cut>>
  BY DEF Shots!startCapture, Shots!Up, ShotInv, ShotTypes
<1>2. \A n : Gone(n) => n \in swept \/ n.at + KeptFor < shotTime
  BY DEF Gone
<1>3. \A n \in ShotNames : Gone(n) => Gone(n)'
  BY <1>1, ObservatoryAssumption DEF Gone, ShotNames
<1>4. CASE UNCHANGED <<shots, worker>>
  <2>1. ShotTypes'
    BY <1>1, <1>4 DEF ShotInv, ShotTypes, ShotNames, ShotFiles
  <2>2. ShotFacts'
    BY <1>1, <1>4 DEF ShotInv, ShotFacts
  <2>3. ShotClaims'
    BY <1>1, <1>3, <1>4 DEF ShotInv, ShotClaims, ShotTypes
  <2> QED
    BY <2>1, <2>2, <2>3 DEF ShotInv
<1>5. ASSUME shots' = shots \cup {[owner |-> o, at |-> shotTime', whole |-> FALSE]},
             worker' = [at |-> "open", owner |-> o, time |-> shotTime']
      PROVE  ShotInv'
  <2> DEFINE x == [owner |-> o, at |-> shotTime + 1, whole |-> FALSE]
             name == [owner |-> o, at |-> shotTime + 1]
  <2>1. /\ shots' = shots \cup {x} /\ x \in ShotFiles /\ Of(x) = name /\ name \in ShotNames
        /\ x.whole = FALSE /\ x.at = shotTime + 1
    BY <1>1, <1>5 DEF ShotFiles, ShotNames, Of, Shots!NameOf
  <2>2. Captor' = name /\ worker'.at = "open" /\ worker'.time = shotTime + 1
    BY <1>1, <1>5 DEF Captor
  <2>3. \A n \in named \cup due \cup pass.own : n # name
    BY <1>1 DEF ShotInv, ShotTypes, ShotNames
  <2>4. \A s \in shots : Of(s) # name
    BY <1>1 DEF ShotInv, ShotTypes, ShotFiles, Of, Shots!NameOf
  <2>5. ShotTypes'
    <3>1. shots' \subseteq ShotFiles /\ \A s \in shots' : s.at <= shotTime'
      <4> HIDE DEF x
      <4> QED
        BY <1>1, <2>1 DEF ShotInv, ShotTypes, ShotFiles
    <3>2. \A n \in named \cup due \cup pass.own : n.at <= shotTime'
      BY <1>1 DEF ShotInv, ShotTypes, ShotNames
    <3>3. /\ worker' = [at |-> worker'.at, owner |-> worker'.owner, time |-> worker'.time]
          /\ worker'.time <= shotTime'
      BY <1>1, <1>5
    <3>4. Captor' \in ShotNames /\ Captor' \notin named'
      BY <1>1, <2>1, <2>2, <2>3
    <3> QED
      BY <1>1, <2>2, <3>1, <3>2, <3>3, <3>4 DEF ShotInv, ShotTypes
  <2> HIDE DEF x, name
  <2>6. ShotFacts'
    BY <1>1, <2>1, <2>2, <2>3, <2>4 DEF ShotInv, ShotFacts
  <2>7. ShotClaims'
    <3>1. \A n \in named' : Gone(n)' \/ \E s \in shots' : Of(s) = n /\ s.whole
      BY <1>1, <1>3, <2>1 DEF ShotInv, ShotClaims, ShotTypes
    <3>2. \A s \in shots : s.whole \/ Of(s) \in cut
      BY <1>1 DEF ShotInv, ShotClaims
    <3> QED
      BY <1>1, <2>1, <2>2, <2>3, <3>1, <3>2 DEF ShotInv, ShotClaims
  <2> QED
    BY <2>5, <2>6, <2>7 DEF ShotInv
<1> QED
  BY <1>4, <1>5 DEF Shots!startCapture

\* The file is written, or taken away again.
LEMMA WriteKept ==
  ASSUME ShotInv, Shots!writeScreenshot
  PROVE  ShotInv'
<1>1. /\ worker.at = "open" /\ UNCHANGED <<shotTime, named, pass, served, swept, due, cut>>
      /\ pass.op # "prune"
  BY DEF Shots!writeScreenshot, ShotInv, ShotFacts
<1>2. Shots!Captured = {s \in shots : Of(s) = Captor}
  BY <1>1, CapturedAre
<1>3. \A n : Gone(n)' <=> Gone(n)
  BY <1>1 DEF Gone
<1>4. CASE /\ shots' = (shots \ Shots!Captured)
                         \cup {[s EXCEPT !.whole = TRUE] : s \in Shots!Captured}
           /\ worker' = [worker EXCEPT !.at = "written"]
  <2>1. \A s \in ShotFiles : /\ [s EXCEPT !.whole = TRUE] \in ShotFiles
                             /\ [s EXCEPT !.whole = TRUE].whole
                             /\ [s EXCEPT !.whole = TRUE].at = s.at
                             /\ Of([s EXCEPT !.whole = TRUE]) = Of(s)
    BY DEF ShotFiles, Of, Shots!NameOf
  <2>2. /\ \A s \in shots' : \/ s \in shots /\ Of(s) # Captor
                             \/ /\ s.whole /\ s \in ShotFiles /\ Of(s) = Captor
                                /\ \E y \in shots : Of(y) = Captor /\ s.at = y.at
        /\ \A s \in shots : \E y \in shots' : Of(y) = Of(s) /\ (s.whole => y.whole)
    <3>1. /\ shots \subseteq ShotFiles
          /\ shots' = {s \in shots : Of(s) # Captor}
                       \cup {[s EXCEPT !.whole = TRUE] : s \in {y \in shots : Of(y) = Captor}}
      BY <1>2, <1>4 DEF ShotInv, ShotTypes
    <3>2. ASSUME NEW s \in shots'
          PROVE  \/ s \in shots /\ Of(s) # Captor
                 \/ /\ s.whole /\ s \in ShotFiles /\ Of(s) = Captor
                    /\ \E y \in shots : Of(y) = Captor /\ s.at = y.at
      <4>1. CASE s \in shots /\ Of(s) # Captor
        BY <4>1
      <4>2. ASSUME NEW y \in shots, Of(y) = Captor, s = [y EXCEPT !.whole = TRUE]
            PROVE  /\ s.whole /\ s \in ShotFiles /\ Of(s) = Captor
                   /\ \E z \in shots : Of(z) = Captor /\ s.at = z.at
        BY <2>1, <3>1, <4>2
      <4> QED
        BY <3>1, <4>1, <4>2
    <3>3. ASSUME NEW s \in shots
          PROVE  \E y \in shots' : Of(y) = Of(s) /\ (s.whole => y.whole)
      <4>1. CASE Of(s) # Captor
        BY <3>1, <4>1
      <4>2. CASE Of(s) = Captor
        <5>1. [s EXCEPT !.whole = TRUE] \in shots'
          BY <3>1, <4>2
        <5> QED
          BY <2>1, <3>1, <5>1
      <4> QED
        BY <4>1, <4>2
    <3> QED
      BY <3>2, <3>3
  <2>3. /\ worker'.at = "written" /\ worker'.owner = worker.owner /\ worker'.time = worker.time
        /\ worker' = [at |-> worker'.at, owner |-> worker'.owner, time |-> worker'.time]
    BY <1>1, <1>4 DEF ShotInv, ShotTypes
  <2>4. Captor' = Captor
    BY <2>3 DEF Captor
  <2>5. ShotTypes'
    BY <1>1, <2>2, <2>3, <2>4 DEF ShotInv, ShotTypes
  <2>6. ShotFacts'
    BY <1>1, <1>3, <2>2, <2>3, <2>4 DEF ShotInv, ShotFacts
  <2>7. ShotClaims'
    BY <1>1, <1>3, <2>2, <2>3, <2>4 DEF ShotInv, ShotClaims
  <2> QED
    BY <2>5, <2>6, <2>7 DEF ShotInv
<1>5. CASE shots' = shots \ Shots!Cleaned(Shots!Captured) /\ worker' = Shots!NoCapture
  <2>1. /\ shots' = {s \in shots : Of(s) # Captor} /\ worker'.at = "none"
    BY <1>2, <1>5 DEF Shots!Cleaned, Shots!NoCapture
  <2>2. Captor \notin named
    BY <1>1 DEF ShotInv, ShotTypes
  <2>3. ShotTypes'
    BY <1>1, <2>1 DEF ShotInv, ShotTypes
  <2>4. ShotFacts'
    BY <1>1, <2>1 DEF ShotInv, ShotFacts
  <2>5. ShotClaims'
    BY <1>1, <1>3, <2>1, <2>2 DEF ShotInv, ShotClaims
  <2> QED
    BY <2>3, <2>4, <2>5 DEF ShotInv
<1> QED
  BY <1>4, <1>5 DEF Shots!writeScreenshot

\* The run is stored with the name.
LEMMA NameKept ==
  ASSUME ShotInv, Shots!saveRun
  PROVE  ShotInv'
<1>1. /\ worker.at = "written" /\ worker' = Shots!NoCapture /\ worker'.at = "none"
      /\ named' = named \cup {Captor}
      /\ UNCHANGED <<shotTime, shots, pass, served, swept, due, cut>>
  BY DEF Shots!saveRun, Shots!NoCapture, Captor
<1>2. \A n : Gone(n)' <=> Gone(n)
  BY <1>1 DEF Gone
<1>3. Captor \in ShotNames /\ Captor.at <= shotTime
  BY <1>1 DEF ShotInv, ShotTypes, Captor
<1>4. ShotTypes'
  BY <1>1, <1>3 DEF ShotInv, ShotTypes
<1>5. ShotFacts'
  BY <1>1 DEF ShotInv, ShotFacts
<1>6. ShotClaims'
  BY <1>1, <1>2 DEF ShotInv, ShotClaims, ShotFacts
<1> QED
  BY <1>4, <1>5, <1>6 DEF ShotInv

\* A worker that is killed, and the end of the process.
LEMMA KillKept ==
  ASSUME ShotInv, Shots!killed \/ Shots!pruneOnce
  PROVE  ShotInv'
<1>1. /\ worker'.at = "none"
      /\ cut' = cut \cup Shots!CutShort
      /\ UNCHANGED <<shotTime, shots, named, served, swept, due>>
  <2>1. CASE Shots!killed
    BY <2>1 DEF Shots!killed, Shots!NoCapture
  <2>2. CASE Shots!pruneOnce
    BY <2>2 DEF Shots!pruneOnce, Shots!NoCapture
  <2> QED
    BY <2>1, <2>2
<1>2. \A s \in shots : ~s.whole /\ worker.at = "open" /\ Of(s) = Captor => Of(s) \in cut'
  BY <1>1, CapturedAre DEF Shots!CutShort, Shots!NamesOf, Of
<1>3. \A n : Gone(n)' <=> Gone(n)
  BY <1>1 DEF Gone
<1>4. \/ pass' = pass /\ pass.op # "prune"
      \/ pass' = pass /\ worker.at # "none"
      \/ /\ pass' \in [op : {"none", "prune", "remove"}, left : SUBSET ShotNames,
                       own : SUBSET ShotNames]
         /\ pass'.own = {} /\ pass'.op # "remove"
         /\ pass'.op = "none" => pass'.left = {}
         /\ \A n \in pass'.left : n.at + KeptFor < shotTime
  <2>1. CASE Shots!killed
    BY <2>1 DEF Shots!killed
  <2>2. CASE Shots!pruneOnce
    <3> DEFINE old == Shots!NamesOf({s \in shots : Shots!Expired(s)})
    <3>1. old \subseteq ShotNames /\ \A n \in old : n.at + KeptFor < shotTime
      BY DEF ShotInv, ShotTypes, ShotFiles, ShotNames, Shots!NamesOf, Shots!NameOf, Shots!Expired
    <3>2. pass' = [op |-> "prune", left |-> old, own |-> {}] \/ pass' = Shots!NoPass
      BY <2>2 DEF Shots!pruneOnce
    <3> HIDE DEF old
    <3> QED
      BY <3>1, <3>2 DEF Shots!NoPass
  <2> QED
    BY <2>1, <2>2
<1>5. ShotTypes'
  BY <1>1, <1>4 DEF ShotInv, ShotTypes
<1>6. ShotFacts'
  BY <1>1, <1>3, <1>4 DEF ShotInv, ShotFacts
<1>7. ShotClaims'
  BY <1>1, <1>2, <1>3 DEF ShotInv, ShotClaims
<1> QED
  BY <1>5, <1>6, <1>7 DEF ShotInv

\* A removal begins with all files of the account's own.
LEMMA RemovalKept ==
  ASSUME ShotInv, NEW o \in Ids, Shots!deleteAccountScreenshots(o)
  PROVE  ShotInv'
<1>1. /\ pass.op = "none"
      /\ pass' = [op |-> "remove", left |-> Shots!Of(o),
                  own |-> Shots!NamesOf({s \in shots : s.owner = o})]
      /\ UNCHANGED <<shotTime, shots, named, worker, served, swept, due, cut>>
  BY DEF Shots!deleteAccountScreenshots
<1>2. Shots!IsPrefix(o, o)
  BY DEF Ids, Shots!IsPrefix
<1>3. /\ pass'.op = "remove" /\ pass'.own \subseteq pass'.left /\ pass'.left \subseteq ShotNames
      /\ \A n \in pass'.own : n.at <= shotTime
      /\ pass' \in [op : {"none", "prune", "remove"}, left : SUBSET ShotNames,
                    own : SUBSET ShotNames]
  <2> DEFINE all == Shots!Of(o)
             mine == Shots!NamesOf({s \in shots : s.owner = o})
  <2>1. mine \subseteq all
    BY <1>2 DEF Shots!Of, Shots!NamesOf
  <2>2. all \subseteq ShotNames /\ \A n \in all : n.at <= shotTime
    BY DEF ShotInv, ShotTypes, ShotFiles, ShotNames, Shots!Of, Shots!NamesOf, Shots!NameOf
  <2> HIDE DEF all, mine
  <2> QED
    BY <1>1, <2>1, <2>2 DEF all, mine
<1>4. \A n : Gone(n)' <=> Gone(n)
  BY <1>1 DEF Gone
<1>5. Captor' = Captor
  BY <1>1 DEF Captor
<1>6. ShotTypes'
  BY <1>1, <1>3, <1>5 DEF ShotInv, ShotTypes
<1>7. ShotFacts'
  BY <1>1, <1>3, <1>4, <1>5 DEF ShotInv, ShotFacts
<1>8. ShotClaims'
  BY <1>1, <1>4, <1>5 DEF ShotInv, ShotClaims
<1> QED
  BY <1>6, <1>7, <1>8 DEF ShotInv

\* One file is unlinked: one that has expired, or one that is marked as swept.
LEMMA UnlinkKept ==
  ASSUME ShotInv, Shots!unlinkNext
  PROVE  ShotInv'
<1>1. PICK n \in pass.left :
        /\ shots' = {s \in shots : Of(s) # n}
        /\ pass' = [pass EXCEPT !.left = @ \ {n}]
        /\ swept' = IF pass.op = "remove" THEN swept \cup {n} ELSE swept
        /\ UNCHANGED <<shotTime, named, worker, served, due, cut>>
  BY DEF Shots!unlinkNext, Of
<1>2. /\ pass' \in [op : {"none", "prune", "remove"}, left : SUBSET ShotNames,
                    own : SUBSET ShotNames]
      /\ pass'.op = pass.op /\ pass'.own = pass.own /\ pass'.left = pass.left \ {n}
  BY <1>1 DEF ShotInv, ShotTypes
<1>3. pass.op \in {"none", "prune", "remove"} /\ n \in ShotNames
  BY DEF ShotInv, ShotTypes
<1>4. Gone(n)'
  BY <1>1, <1>3 DEF ShotInv, ShotFacts, Gone
<1>5. \A m : Gone(m) => Gone(m)'
  BY <1>1 DEF Gone
<1>6. Captor' = Captor
  BY <1>1 DEF Captor
<1>7. ShotTypes'
  BY <1>1, <1>2, <1>6 DEF ShotInv, ShotTypes
<1>8. ShotFacts'
  BY <1>1, <1>2, <1>4, <1>5, <1>6 DEF ShotInv, ShotFacts
<1>9. ShotClaims'
  BY <1>1, <1>4, <1>5, <1>6 DEF ShotInv, ShotClaims
<1> QED
  BY <1>7, <1>8, <1>9 DEF ShotInv

\* The end of a pass, an answer of the dashboard, and what happens outside.
LEMMA OthersKept ==
  ASSUME ShotInv, \/ Shots!passEnds \/ Shots!rootChanges \/ Shots!TimePasses
                  \/ \E s \in shots : Shots!getScreenshot(s)
  PROVE  ShotInv'
<1>1. UNCHANGED <<shots, named, worker, swept, cut>>
  BY DEF Shots!passEnds, Shots!rootChanges, Shots!TimePasses, Shots!getScreenshot,
         Shots!readSecureScreenshotFile
<1>2. Captor' = Captor
  BY <1>1 DEF Captor
<1>3. CASE Shots!passEnds
  <2>1. /\ pass' = Shots!NoPass /\ UNCHANGED <<shotTime, served>>
        /\ due' = due \/ (pass.left = {} /\ due' = due \cup pass.own)
    BY <1>3 DEF Shots!passEnds
  <2>2. \A n : Gone(n)' <=> Gone(n)
    BY <1>1, <2>1 DEF Gone
  <2>3. due' \subseteq due \cup pass.own /\ \A s \in shots : Of(s) \notin due'
    BY <2>1 DEF ShotInv, ShotFacts, ShotClaims
  <2>4. ShotTypes'
    BY <1>1, <1>2, <2>1, <2>3 DEF ShotInv, ShotTypes, Shots!NoPass
  <2>5. ShotFacts'
    BY <1>1, <1>2, <2>1, <2>2 DEF ShotInv, ShotFacts, Shots!NoPass
  <2>6. ShotClaims'
    BY <1>1, <1>2, <2>1, <2>2, <2>3 DEF ShotInv, ShotClaims
  <2> QED
    BY <2>4, <2>5, <2>6 DEF ShotInv
<1>4. CASE Shots!rootChanges
  BY <1>1, <1>2, <1>4 DEF Shots!rootChanges, ShotInv, ShotTypes, ShotFacts, ShotClaims, Gone
<1>5. CASE Shots!TimePasses
  <2>1. shotTime' = shotTime + 1 /\ shotTime \in Nat /\ UNCHANGED <<pass, served, due>>
    BY <1>5 DEF Shots!TimePasses, ShotInv, ShotTypes
  <2>2. \A n \in ShotNames : /\ n.at <= shotTime => n.at <= shotTime'
                             /\ n.at + KeptFor < shotTime => n.at + KeptFor < shotTime'
                             /\ Gone(n) => Gone(n)'
    BY <1>1, <2>1, ObservatoryAssumption DEF ShotNames, Gone
  <2>3. \A s \in ShotFiles : s.at <= shotTime => s.at <= shotTime'
    BY <2>1 DEF ShotFiles
  <2>4. ShotTypes'
    <3>1. worker.time <= shotTime /\ Captor \in ShotNames => worker.time <= shotTime'
      BY <2>1 DEF ShotNames, Captor
    <3> QED
      BY <1>1, <1>2, <2>1, <2>2, <2>3, <3>1 DEF ShotInv, ShotTypes
  <2>5. ShotFacts'
    BY <1>1, <1>2, <2>1, <2>2 DEF ShotInv, ShotFacts, ShotTypes
  <2>6. ShotClaims'
    BY <1>1, <1>2, <2>1, <2>2 DEF ShotInv, ShotClaims, ShotTypes
  <2> QED
    BY <2>4, <2>5, <2>6 DEF ShotInv
<1>6. ASSUME NEW s \in shots, Shots!getScreenshot(s) PROVE ShotInv'
  <2>1. UNCHANGED <<shotTime, pass, due>> /\ served' = served \cup {s} /\ Of(s) \in named
    BY <1>6 DEF Shots!getScreenshot, Shots!readSecureScreenshotFile, Shots!Linked, Of
  <2>2. s.whole
    BY <2>1 DEF ShotInv, ShotFacts
  <2>3. \A n : Gone(n)' <=> Gone(n)
    BY <1>1, <2>1 DEF Gone
  <2> QED
    BY <1>1, <1>2, <2>1, <2>2, <2>3 DEF ShotInv, ShotTypes, ShotFacts, ShotClaims
<1> QED
  BY <1>3, <1>4, <1>5, <1>6

\* What a run names is there until it expires or is removed, and is served whole.
THEOREM ShotsThereHolds == Spec => []ShotsThere
<1>1. Init => ShotInv
  <2> SUFFICES ASSUME Init PROVE ShotInv
    OBVIOUS
  <2>1. /\ shotTime = 0 /\ shots = {} /\ named = {} /\ served = {} /\ due = {}
        /\ pass = Shots!NoPass /\ worker = Shots!NoCapture
    BY DEF Init, Shots!Init
  <2> QED
    BY <2>1 DEF ShotInv, ShotTypes, ShotFacts, ShotClaims, Shots!NoPass, Shots!NoCapture
<1>2. ShotInv /\ [Next]_vars => ShotInv'
  <2> SUFFICES ASSUME ShotInv, [Shots!Next]_(Shots!vars) PROVE ShotInv'
    BY DEF Next, vars, Only, shotVars, Shots!vars
  <2>1. CASE UNCHANGED Shots!vars
    BY <2>1 DEF ShotInv, ShotTypes, ShotFacts, ShotClaims, Shots!vars, Captor, Gone
  <2> QED
    BY <2>1, CaptureKept, WriteKept, NameKept, KillKept, RemovalKept, UnlinkKept, OthersKept
    DEF Shots!Next
<1>3. ShotInv => ShotsThere
  <2> SUFFICES ASSUME ShotInv PROVE Shots!ShotsThere
    BY DEF ShotsThere
  <2>1. \A n \in named : \/ \E s \in shots : Shots!NameOf(s) = n /\ s.whole
                         \/ n.at + KeptFor < shotTime \/ n \in swept
    BY DEF ShotInv, ShotClaims, Gone, Of
  <2>2. due \cap Shots!NamesOf(shots) = {}
    BY DEF ShotInv, ShotClaims, Of, Shots!NamesOf
  <2>3. \A s \in shots : \/ s.whole \/ Shots!NameOf(s) \in cut
                         \/ worker.at = "open" /\ s \in Shots!Captured
    BY CapturedAre DEF ShotInv, ShotClaims, Of
  <2> QED
    BY <2>1, <2>2, <2>3 DEF Shots!ShotsThere, ShotInv, ShotClaims
<1> QED
  BY <1>1, <1>2, <1>3, PTL DEF Spec

(***************************************************************************)
(* The account file and the sessions                                       *)
(***************************************************************************)

\* An account of the file, and a request or a cycle that is about to write it.
AnyName == {Files!NoId} \cup Ids
AnyId == AnyName \cup {Append(u, Files!ToString(n)) : u \in AnyName, n \in Nat}
FileRows == [id : AnyId, user : AnyName, password : BOOLEAN, number : Nat]
Writes == [op : {"upsert", "token"}, list : Seq(FileRows), stale : BOOLEAN]
Removals == [op : {"remove"}, id : AnyId, next : {"file"} \cup Files!Kinds,
             stale : BOOLEAN, list : Seq(FileRows)]

\* Ids that no removal is about to take, or has left behind.
Settled(x) == x \notin excused \cup Files!Removing
Stands(list, x, n) == \E i \in DOMAIN list : list[i].id = x /\ list[i].number = n

\* What a removal has still to delete.
Left(next) == CASE next = "monitor" -> {"monitor", "profile"}
                [] next = "profile" -> {"profile"}
                [] OTHER -> Files!Kinds

FileTypes ==
    /\ accounts \in Seq(FileRows) /\ born \in Nat
    /\ jobs \in [Files!Writers -> {Files!NoJob} \cup Writes \cup Removals]
    /\ cycle \in [running : BOOLEAN, selected : Seq(FileRows),
                  at : {"idle", "loaded", "check", "token"}]
    /\ cycle.at # "idle" => cycle.selected # <<>>
    /\ jobs["cycle"].op = "none" \/ (jobs["cycle"].op = "token" /\ cycle.at = "token")
    /\ \A f \in files : f.kind \in Files!Kinds

\* What is in the file, or is about to be, can be loaded; and what is to be written
\* has every account of the file, unless another writer came in between or it is
\* the one to be removed.
FileLists ==
    /\ Files!normalizeFile(accounts)
    /\ \A w \in Files!Writers : Files!Unwritten(jobs[w]) =>
         /\ Files!normalizeFile(jobs[w].list)
         /\ jobs[w].stale \/ \A i \in DOMAIN accounts :
              \/ jobs[w].op = "remove" /\ accounts[i].id = jobs[w].id
              \/ Stands(jobs[w].list, accounts[i].id, accounts[i].number)

\* Sessions on disk, and the accounts of a cycle that may write more of them, are
\* those of an account in the file.
FileOwners ==
    /\ \A f \in files : Settled(f.id) => Stands(accounts, f.id, f.number)
    /\ \A i \in DOMAIN cycle.selected :
         LET a == cycle.selected[i]
         IN  /\ Settled(a.id) => Stands(accounts, a.id, a.number)
             /\ a.id \in Files!Removing => a.id \in excused

\* An id is removed once at a time, and what its removal has passed is gone.
FileRemovals ==
    /\ \A v, w \in Files!Writers :
         jobs[v].op = "remove" /\ jobs[w].op = "remove" /\ jobs[v].id = jobs[w].id => v = w
    /\ \A w \in Files!Writers : jobs[w].op = "remove" /\ jobs[w].id \notin excused =>
         \A f \in files : f.id = jobs[w].id => f.kind \in Left(jobs[w].next)

FileInv == FileTypes /\ FileLists /\ FileOwners /\ FileRemovals

\* Where an account is found: its place, or 0.
LEMMA KnownIs ==
  ASSUME NEW l, Len(l) \in Nat, NEW x
  PROVE  LET k == Files!Known(l, x)
         IN  \/ k = 0 /\ \A i \in 1 .. Len(l) : l[i].id # x
             \/ k \in 1 .. Len(l) /\ l[k].id = x
<1> DEFINE I == {i \in 1 .. Len(l) : l[i].id = x}
<1>1. Files!Known(l, x) = IF I # {} THEN Files!Min(I) ELSE 0
  BY DEF Files!Known, Files!SelectInSeq
<1>2. CASE I = {}
  BY <1>1, <1>2
<1>3. CASE I # {}
  <2>0. I \in SUBSET Nat
    OBVIOUS
  <2>1. PICK d \in I : \A e \in I : d <= e
    <3> HIDE DEF I
    <3> QED
      BY <1>3, <2>0, LeastOf
  <2>2. Files!Min(I) \in I
    BY <2>1 DEF Files!Min
  <2> QED
    BY <1>1, <1>3, <2>2
<1> QED
  BY <1>2, <1>3

\* A list without its k-th account.
LEMMA RemovedIs ==
  ASSUME NEW l \in Seq(FileRows), NEW k \in 1 .. Len(l)
  PROVE  LET m == Files!RemoveAt(l, k)
         IN  /\ m \in Seq(FileRows) /\ Len(m) = Len(l) - 1
             /\ \A i \in 1 .. Len(m) : m[i] = IF i < k THEN l[i] ELSE l[i + 1]
<1> DEFINE n == Len(l)
           a == SubSeq(l, 1, k - 1)
           b == SubSeq(l, k + 1, n)
           m == Files!RemoveAt(l, k)
<1>1. n \in Nat /\ k \in 1 .. n /\ \A i \in 1 .. n : l[i] \in FileRows
  OBVIOUS
<1>2. m = a \o b
  BY DEF Files!RemoveAt
<1> HIDE DEF n
<1>3. /\ a \in Seq(FileRows) /\ Len(a) = IF 1 <= k - 1 THEN k - 1 - 1 + 1 ELSE 0
      /\ \A i \in 1 .. k - 1 - 1 + 1 : a[i] = l[1 + i - 1]
  BY <1>1, SubSeqProperties
<1>4. /\ b \in Seq(FileRows) /\ Len(b) = IF k + 1 <= n THEN n - (k + 1) + 1 ELSE 0
      /\ \A i \in 1 .. n - (k + 1) + 1 : b[i] = l[k + 1 + i - 1]
  BY <1>1, SubSeqProperties
<1> HIDE DEF a, b, m
<1>5. m \in Seq(FileRows) /\ Len(m) = Len(a) + Len(b)
      /\ \A i \in 1 .. Len(a) + Len(b) : m[i] = IF i <= Len(a) THEN a[i] ELSE b[i - Len(a)]
  BY <1>2, <1>3, <1>4, ConcatProperties
<1>6. Len(a) = k - 1 /\ Len(b) = n - k /\ Len(m) = n - 1
  <2>1. Len(a) = IF 1 <= k - 1 THEN k - 1 - 1 + 1 ELSE 0
    BY <1>3
  <2>2. Len(b) = IF k + 1 <= n THEN n - (k + 1) + 1 ELSE 0
    BY <1>4
  <2>3. Len(m) = Len(a) + Len(b)
    BY <1>5
  <2> QED
    BY <1>1, <2>1, <2>2, <2>3
<1>7. ASSUME NEW i \in 1 .. n - 1 PROVE m[i] = IF i < k THEN l[i] ELSE l[i + 1]
  <2>1. m[i] = IF i <= k - 1 THEN a[i] ELSE b[i - (k - 1)]
    <3>1. i \in 1 .. Len(a) + Len(b)
      BY <1>1, <1>6
    <3> QED
      BY <1>5, <1>6, <3>1
  <2>2. CASE i < k
    <3>1. i \in 1 .. k - 1 - 1 + 1 /\ 1 + i - 1 = i /\ i <= k - 1
      BY <1>1, <2>2
    <3> QED
      BY <1>3, <2>1, <2>2, <3>1
  <2>3. CASE ~(i < k)
    <3>1. /\ i - (k - 1) \in 1 .. n - (k + 1) + 1 /\ k + 1 + (i - (k - 1)) - 1 = i + 1
          /\ ~(i <= k - 1)
      BY <1>1, <2>3
    <3>2. b[i - (k - 1)] = l[k + 1 + (i - (k - 1)) - 1]
      BY <1>4, <3>1
    <3> QED
      BY <2>1, <2>3, <3>1, <3>2
  <2> QED
    BY <2>2, <2>3
<1> QED
  BY <1>5, <1>6, <1>7 DEF m, n

\* A list without one of its accounts is a list, and has all the others.
LEMMA WithoutIs ==
  ASSUME NEW l \in Seq(FileRows), Files!normalizeFile(l), NEW x \in Files!IdsOf(l)
  PROVE  LET m == Files!RemoveAt(l, Files!Known(l, x))
         IN  /\ m \in Seq(FileRows) /\ Files!normalizeFile(m)
             /\ \A i \in DOMAIN l : l[i].id # x => Stands(m, l[i].id, l[i].number)
<1> DEFINE k == Files!Known(l, x)
           m == Files!RemoveAt(l, k)
<1>1. Len(l) \in Nat /\ DOMAIN l = 1 .. Len(l) /\ \A i \in 1 .. Len(l) : l[i] \in FileRows
  OBVIOUS
<1>2. k \in 1 .. Len(l) /\ l[k].id = x
  BY <1>1, KnownIs DEF Files!IdsOf
<1> HIDE DEF k
<1>3. m \in Seq(FileRows) /\ Len(m) = Len(l) - 1
      /\ \A i \in 1 .. Len(m) : m[i] = IF i < k THEN l[i] ELSE l[i + 1]
  BY <1>2, RemovedIs
<1>4. m \in Seq(FileRows) /\ Len(m) = Len(l) - 1
  BY <1>3
<1>5. \A i \in 1 .. Len(m) : m[i] = IF i < k THEN l[i] ELSE l[i + 1]
  BY <1>3
<1> HIDE DEF m
<1>6. Files!normalizeFile(m)
  <2>1. Len(m) <= MaxAccounts
    BY <1>1, <1>4, ObservatoryAssumption DEF Files!normalizeFile
  <2>2. ASSUME NEW i \in DOMAIN m, NEW j \in DOMAIN m, m[i].id = m[j].id \/ m[i].user = m[j].user
        PROVE  i = j
    <3> DEFINE Source(n) == IF n < k THEN n ELSE n + 1
    <3>1. /\ i \in 1 .. Len(m) /\ j \in 1 .. Len(m)
      BY <1>4
    <3>2. /\ Source(i) \in DOMAIN l /\ Source(j) \in DOMAIN l
          /\ m[i] = l[Source(i)] /\ m[j] = l[Source(j)]
      BY <1>1, <1>2, <1>4, <1>5, <3>1
    <3>3. Source(i) = Source(j)
      BY <2>2, <3>2 DEF Files!normalizeFile
    <3> QED
      BY <1>2, <3>1, <3>3
  <2> QED
    BY <2>1, <2>2 DEF Files!normalizeFile
<1>7. ASSUME NEW i \in DOMAIN l, l[i].id # x PROVE Stands(m, l[i].id, l[i].number)
  <2>1. i # k /\ i \in 1 .. Len(l)
    BY <1>1, <1>2, <1>7
  <2>2. CASE i < k
    BY <1>2, <1>4, <1>5, <2>1, <2>2 DEF Stands
  <2>3. CASE i > k
    <3>1. i - 1 \in DOMAIN m /\ m[i - 1] = l[i]
      BY <1>2, <1>4, <1>5, <2>1, <2>3
    <3> QED
      BY <3>1 DEF Stands
  <2> QED
    BY <1>2, <2>1, <2>2, <2>3
<1> QED
  BY <1>4, <1>6, <1>7 DEF m, k

\* A list with an account added or changed has every account it had.
LEMMA UpsertedIs ==
  ASSUME NEW l \in Seq(FileRows), born \in Nat, NEW x \in AnyId, NEW u \in AnyName,
         NEW p \in BOOLEAN
  PROVE  LET m == Files!Upserted(l, x, Files!Requested(l, x, u, p))
         IN  /\ m \in Seq(FileRows)
             /\ \A i \in DOMAIN l : Stands(m, l[i].id, l[i].number)
<1> DEFINE k == Files!Known(l, x)
           r == Files!Requested(l, x, u, p)
           m == Files!Upserted(l, x, r)
<1>1. Len(l) \in Nat /\ DOMAIN l = 1 .. Len(l) /\ \A i \in 1 .. Len(l) : l[i] \in FileRows
  OBVIOUS
<1>2. k = 0 \/ (k \in 1 .. Len(l) /\ l[k].id = x)
  BY <1>1, KnownIs
<1>3. CASE k = 0
  <2>1. Files!createId(u, l) \in AnyId
    BY DEF Files!createId, AnyId
  <2>2. r \in FileRows
    BY <1>3, <2>1 DEF Files!Requested, FileRows
  <2>3. m = Append(l, r)
    BY <1>3 DEF Files!Upserted
  <2> HIDE DEF r, m
  <2>4. m \in Seq(FileRows) /\ DOMAIN m = 1 .. Len(l) + 1 /\ \A i \in DOMAIN l : m[i] = l[i]
    BY <1>1, <2>2, <2>3
  <2>5. \A i \in DOMAIN l : i \in DOMAIN m
    BY <1>1, <2>4
  <2> QED
    BY <2>4, <2>5 DEF Stands, m, r
<1>4. CASE k # 0
  <2>1. k \in 1 .. Len(l) /\ l[k] \in FileRows
    BY <1>1, <1>2, <1>4
  <2>2. r = [l[k] EXCEPT !.user = IF u = Files!NoId THEN @ ELSE u]
    BY <1>4 DEF Files!Requested
  <2>3. r \in FileRows /\ r.id = l[k].id /\ r.number = l[k].number
    BY <2>1, <2>2 DEF FileRows
  <2>4. m = [l EXCEPT ![k] = r]
    BY <2>1 DEF Files!Upserted
  <2> HIDE DEF r, m, k
  <2>5. m \in Seq(FileRows) /\ DOMAIN m = DOMAIN l
    BY <1>1, <2>1, <2>3, <2>4
  <2>6. \A i \in DOMAIN l : m[i].id = l[i].id /\ m[i].number = l[i].number
    BY <1>1, <2>1, <2>3, <2>4
  <2> QED
    BY <2>5, <2>6 DEF Stands, m, r, k
<1> QED
  BY <1>3, <1>4

\* What a request or the cycle has under way.
LEMMA JobIs ==
  ASSUME FileTypes, NEW w \in Files!Writers
  PROVE  /\ jobs[w].op \in {"none", "upsert", "token", "remove"}
         /\ jobs[w].op = "none" <=> jobs[w] = Files!NoJob
         /\ jobs[w].op \in {"upsert", "token"} <=> jobs[w] \in Writes
         /\ jobs[w].op = "remove" <=> jobs[w] \in Removals
         /\ Files!Unwritten(jobs[w]) =>
              /\ jobs[w].op # "none"
              /\ jobs[w].list \in Seq(FileRows) /\ jobs[w].stale \in BOOLEAN
<1>1. jobs[w] = Files!NoJob \/ jobs[w] \in Writes \/ jobs[w] \in Removals
  BY DEF FileTypes
<1>2. jobs[w] = Files!NoJob => jobs[w].op = "none"
  BY DEF Files!NoJob
<1>3. jobs[w] \in Writes => /\ jobs[w].op \in {"upsert", "token"}
                            /\ jobs[w].list \in Seq(FileRows) /\ jobs[w].stale \in BOOLEAN
  BY DEF Writes
<1>4. jobs[w] \in Removals => /\ jobs[w].op = "remove"
                              /\ jobs[w].list \in Seq(FileRows) /\ jobs[w].stale \in BOOLEAN
  BY DEF Removals
<1> QED
  BY <1>1, <1>2, <1>3, <1>4 DEF Files!Unwritten

\* The ids that are being removed.
LEMMA RemovingIs ==
  /\ \A x : x \in Files!Removing <=>
       \E w \in Files!Writers : jobs[w].op = "remove" /\ jobs[w].id = x
  /\ \A x : x \in Files!Removing' <=>
       \E w \in Files!Writers : jobs'[w].op = "remove" /\ jobs'[w].id = x
BY DEF Files!Removing

\* What FileLists says of one job.
ListOf(w) ==
    Files!Unwritten(jobs[w]) =>
      /\ Files!normalizeFile(jobs[w].list)
      /\ jobs[w].stale \/ \A i \in DOMAIN accounts :
           \/ jobs[w].op = "remove" /\ accounts[i].id = jobs[w].id
           \/ Stands(jobs[w].list, accounts[i].id, accounts[i].number)

\* A step that leaves the file alone and begins one job.
LEMMA ListKept ==
  ASSUME FileInv, accounts' = accounts, NEW e,
         \A w \in Files!Writers : w # e => jobs'[w] = jobs[w], ListOf(e)'
  PROVE  FileLists'
<1>1. Files!normalizeFile(accounts)'
  BY DEF FileInv, FileLists, Files!normalizeFile
<1>2. ASSUME NEW w \in Files!Writers, w # e PROVE ListOf(w)'
  <2>1. ListOf(w)
    BY DEF FileInv, FileLists, ListOf
  <2>2. jobs'[w] = jobs[w]
    BY <1>2
  <2> QED
    BY <2>1, <2>2 DEF ListOf, Files!normalizeFile, Files!Unwritten, Stands
<1>3. \A w \in Files!Writers : ListOf(w)'
  BY <1>2
<1> QED
  BY <1>1, <1>3 DEF FileLists, ListOf

\* An edit computes its list from the file as it is.
LEMMA UpsertKept ==
  ASSUME FileInv, NEW e \in Editors, NEW x \in {Files!NoId} \cup Ids \cup Files!IdsOf(accounts),
         NEW u \in {Files!NoId} \cup Ids, NEW p \in BOOLEAN, Files!upsert(e, x, u, p)
  PROVE  FileInv'
<1> DEFINE list == Files!Upserted(accounts, x, Files!Requested(accounts, x, u, p))
           j == [op |-> "upsert", list |-> list, stale |-> FALSE]
<1>1. /\ jobs[e].op = "none" /\ Files!normalizeFile(list) /\ jobs' = [jobs EXCEPT ![e] = j]
      /\ born' \in {born, born + 1} /\ UNCHANGED <<accounts, cycle, files, excused>>
  BY DEF Files!upsert
<1>2. e \in Files!Writers /\ e # "cycle" /\ "cycle" \in Files!Writers
  BY ObservatoryAssumption DEF Files!Writers
<1>3. accounts \in Seq(FileRows) /\ born \in Nat /\ DOMAIN jobs = Files!Writers
  BY DEF FileInv, FileTypes
<1>4. x \in AnyId /\ u \in AnyName
  <2>0. \A i \in DOMAIN accounts : accounts[i] \in FileRows
    BY <1>3
  <2>1. \A i \in DOMAIN accounts : accounts[i].id \in AnyId
    BY <2>0 DEF FileRows
  <2>2. Files!IdsOf(accounts) \subseteq AnyId
    BY <2>1 DEF Files!IdsOf
  <2> QED
    BY <2>2 DEF AnyId, AnyName
<1>5. list \in Seq(FileRows) /\ \A i \in DOMAIN accounts :
        Stands(list, accounts[i].id, accounts[i].number)
  BY <1>3, <1>4, UpsertedIs
<1> HIDE DEF list
<1>6. j \in Writes
  BY <1>5 DEF Writes
<1>7. /\ jobs'[e] = j /\ j.op = "upsert" /\ j.list = list
      /\ \A w \in Files!Writers : w # e => jobs'[w] = jobs[w]
  BY <1>1, <1>2, <1>3
<1>8. \A y : y \in Files!Removing' <=> y \in Files!Removing
  BY <1>1, <1>2, <1>7, RemovingIs
<1> HIDE DEF j
<1>9. FileTypes'
  <2>1. jobs' \in [Files!Writers -> {Files!NoJob} \cup Writes \cup Removals]
    BY <1>1, <1>6 DEF FileInv, FileTypes
  <2>2. jobs'["cycle"] = jobs["cycle"]
    BY <1>2, <1>7
  <2> QED
    BY <1>1, <2>1, <2>2 DEF FileInv, FileTypes
<1>10. FileLists'
  <2>1. ListOf(e)'
    BY <1>1, <1>5, <1>7 DEF ListOf, Files!normalizeFile, Stands
  <2> QED
    BY <1>1, <1>7, <2>1, ListKept
<1>11. FileOwners'
  BY <1>1, <1>8 DEF FileInv, FileOwners, Settled, Stands
<1>12. FileRemovals'
  BY <1>1, <1>7 DEF FileInv, FileRemovals
<1> QED
  BY <1>9, <1>10, <1>11, <1>12 DEF FileInv

\* A removal that begins while a cycle has loaded its accounts is noted.
LEMMA RemoveKept ==
  ASSUME FileInv, NEW e \in Editors, NEW x \in Files!IdsOf(accounts), Files!remove(e, x)
  PROVE  FileInv'
<1> DEFINE list == Files!RemoveAt(accounts, Files!Known(accounts, x))
           j == [op |-> "remove", id |-> x, next |-> "file", stale |-> FALSE, list |-> list]
<1>1. /\ jobs[e].op = "none" /\ x \notin Files!Removing /\ jobs' = [jobs EXCEPT ![e] = j]
      /\ excused \subseteq excused' /\ (x \in Files!Selected => x \in excused')
      /\ UNCHANGED <<accounts, cycle, files, born>>
  BY DEF Files!remove, Files!MayRemove
<1>2. e \in Files!Writers /\ e # "cycle" /\ "cycle" \in Files!Writers
  BY ObservatoryAssumption DEF Files!Writers
<1>3. /\ accounts \in Seq(FileRows) /\ DOMAIN jobs = Files!Writers
      /\ Files!normalizeFile(accounts)
  BY DEF FileInv, FileTypes, FileLists
<1>4. x \in AnyId
  <2>0. \A i \in DOMAIN accounts : accounts[i] \in FileRows
    BY <1>3
  <2>1. \A i \in DOMAIN accounts : accounts[i].id \in AnyId
    BY <2>0 DEF FileRows
  <2> QED
    BY <2>1 DEF Files!IdsOf
<1>5. /\ list \in Seq(FileRows) /\ Files!normalizeFile(list)
      /\ \A i \in DOMAIN accounts : accounts[i].id # x =>
           Stands(list, accounts[i].id, accounts[i].number)
  BY <1>3, WithoutIs
<1> HIDE DEF list
<1>6. j \in Removals
  BY <1>4, <1>5 DEF Removals
<1>7. /\ jobs'[e] = j /\ j.op = "remove" /\ j.list = list /\ j.id = x /\ j.next = "file"
      /\ \A w \in Files!Writers : w # e => jobs'[w] = jobs[w]
  BY <1>1, <1>2, <1>3
<1>8. \A y : y \in Files!Removing' <=> y \in Files!Removing \/ y = x
  BY <1>1, <1>2, <1>7, RemovingIs
<1> HIDE DEF j
<1>9. FileTypes'
  <2>1. jobs' \in [Files!Writers -> {Files!NoJob} \cup Writes \cup Removals]
    BY <1>1, <1>6 DEF FileInv, FileTypes
  <2>2. jobs'["cycle"] = jobs["cycle"]
    BY <1>2, <1>7
  <2> QED
    BY <1>1, <2>1, <2>2 DEF FileInv, FileTypes
<1>10. FileLists'
  <2>1. ListOf(e)'
    BY <1>1, <1>5, <1>7 DEF ListOf, Files!normalizeFile, Stands
  <2> QED
    BY <1>1, <1>7, <2>1, ListKept
<1>11. FileOwners'
  <2>1. \A y : Settled(y)' => Settled(y)
    BY <1>1, <1>8 DEF Settled
  <2>2. \A i \in DOMAIN cycle.selected : cycle.selected[i].id \in Files!Selected
    BY DEF Files!Selected, Files!IdsOf
  <2> QED
    BY <1>1, <1>8, <2>1, <2>2 DEF FileInv, FileOwners, Stands
<1>12. FileRemovals'
  <2>1. \A w \in Files!Writers : jobs[w].op = "remove" => jobs[w].id # x
    BY <1>1, RemovingIs
  <2>2. \A f \in files : f.kind \in Left("file")
    BY DEF FileInv, FileTypes, Left
  <2> QED
    BY <1>1, <1>7, <2>1, <2>2 DEF FileInv, FileRemovals
<1> QED
  BY <1>9, <1>10, <1>11, <1>12 DEF FileInv

\* A job that another writer's write made old.
LEMMA OutdatedIs ==
  ASSUME FileTypes, NEW v \in Files!Writers
  PROVE  LET j == Files!Outdated(jobs[v])
         IN  /\ j \in {Files!NoJob} \cup Writes \cup Removals /\ j.op = jobs[v].op
             /\ j.op = "remove" => j.id = jobs[v].id /\ j.next = jobs[v].next
             /\ Files!Unwritten(j) =>
                  Files!Unwritten(jobs[v]) /\ j.list = jobs[v].list /\ j.stale
<1> DEFINE j == Files!Outdated(jobs[v])
<1>1. jobs[v] \in {Files!NoJob} \cup Writes \cup Removals
  BY DEF FileTypes
<1>2. CASE ~Files!Unwritten(jobs[v])
  <2>1. j = jobs[v]
    BY <1>2 DEF Files!Outdated
  <2> QED
    BY <1>1, <1>2, <2>1
<1>3. CASE Files!Unwritten(jobs[v]) /\ jobs[v] \in Writes
  <2>1. j = [jobs[v] EXCEPT !.stale = TRUE]
    BY <1>3 DEF Files!Outdated
  <2> HIDE DEF j
  <2>2. /\ j \in Writes /\ j.op = jobs[v].op /\ j.op # "remove"
        /\ j.list = jobs[v].list /\ j.stale
    BY <1>3, <2>1 DEF Writes
  <2> QED
    BY <1>3, <2>2 DEF j
<1>4. CASE Files!Unwritten(jobs[v]) /\ jobs[v] \in Removals
  <2>1. j = [jobs[v] EXCEPT !.stale = TRUE]
    BY <1>4 DEF Files!Outdated
  <2> HIDE DEF j
  <2>2. /\ j \in Removals /\ j.op = jobs[v].op /\ j.list = jobs[v].list /\ j.stale
        /\ j.id = jobs[v].id /\ j.next = jobs[v].next
    BY <1>4, <2>1 DEF Removals
  <2> QED
    BY <1>4, <2>2 DEF j
<1>5. Files!Unwritten(jobs[v]) => jobs[v] # Files!NoJob
  BY DEF Files!Unwritten, Files!NoJob
<1> QED
  BY <1>1, <1>2, <1>3, <1>4, <1>5

\* The cycle goes on with the accounts that are left, or ends.
LEMMA NextAccountIs ==
  ASSUME FileTypes, cycle.selected # <<>>
  PROVE  LET c == Files!nextAccount
         IN  /\ c \in [running : BOOLEAN, selected : Seq(FileRows),
                       at : {"idle", "loaded", "check", "token"}]
             /\ c.at # "idle" => c.selected # <<>>
             /\ \A i \in DOMAIN c.selected : \E k \in DOMAIN cycle.selected :
                  c.selected[i] = cycle.selected[k]
<1> DEFINE s == cycle.selected
           c == Files!nextAccount
<1>1. /\ cycle \in [running : BOOLEAN, selected : Seq(FileRows),
                    at : {"idle", "loaded", "check", "token"}]
      /\ s \in Seq(FileRows) /\ s # <<>>
  BY DEF FileTypes
<1>2. /\ Len(s) \in Nat \ {0} /\ DOMAIN s = 1 .. Len(s)
      /\ Tail(s) \in Seq(FileRows) /\ Len(Tail(s)) = Len(s) - 1
      /\ \A i \in 1 .. Len(s) - 1 : Tail(s)[i] = s[i + 1]
  BY <1>1
<1>3. CASE Len(s) = 1
  <2>1. c = [running |-> FALSE, selected |-> <<>>, at |-> "idle"]
    BY <1>3 DEF Files!nextAccount, Files!NoCycle
  <2> HIDE DEF c
  <2>2. c.selected = <<>> /\ DOMAIN c.selected = {} /\ c.at = "idle"
    BY <2>1
  <2>3. <<>> \in Seq(FileRows)
    OBVIOUS
  <2> QED
    BY <2>1, <2>2, <2>3 DEF c
<1>4. CASE Len(s) # 1
  <2>1. c = [cycle EXCEPT !.selected = Tail(s), !.at = "loaded"]
    BY <1>4 DEF Files!nextAccount
  <2> HIDE DEF c
  <2>2. /\ c \in [running : BOOLEAN, selected : Seq(FileRows),
                  at : {"idle", "loaded", "check", "token"}]
        /\ c.selected = Tail(s)
    BY <1>1, <1>2, <2>1
  <2>3. \A i \in 1 .. Len(s) - 1 : i + 1 \in DOMAIN s
    BY <1>2
  <2>4. DOMAIN c.selected = 1 .. Len(s) - 1 /\ c.selected # <<>>
    <3>1. Len(c.selected) = Len(s) - 1 /\ Len(s) - 1 \in Nat \ {0}
      BY <1>2, <1>4, <2>2
    <3>2. DOMAIN c.selected = 1 .. Len(c.selected)
      BY <1>2, <2>2
    <3>3. c.selected # <<>>
      <4>1. c.selected = <<>> => Len(c.selected) = 0
        BY EmptySeq
      <4> QED
        BY <3>1, <4>1
    <3> QED
      BY <3>1, <3>2, <3>3
  <2> QED
    BY <1>2, <2>2, <2>3, <2>4 DEF c
<1> QED
  BY <1>3, <1>4

\* A write of a list that is not stale takes every settled account over, one that is
\* stale leaves none.
LEMMA FileWrittenKept ==
  ASSUME FileInv, NEW w \in Files!Writers, Files!write(w)
  PROVE  FileInv'
<1> DEFINE j == jobs[w]
           rest == [j EXCEPT !.next = "state", !.list = <<>>, !.stale = FALSE]
<1>1. /\ Files!Unwritten(j) /\ accounts' = j.list /\ UNCHANGED <<files, born>>
      /\ jobs' = [v \in Files!Writers |->
                    IF v # w THEN Files!Outdated(jobs[v])
                    ELSE IF j.op # "remove" THEN Files!NoJob ELSE rest]
      /\ excused' = IF j.stale
                    THEN excused \cup Files!IdsOf(accounts) \cup Files!IdsOf(j.list)
                    ELSE excused
      /\ cycle' = IF w = "cycle" THEN Files!nextAccount ELSE cycle
  BY DEF Files!write
<1>2. FileTypes /\ FileLists /\ FileOwners /\ FileRemovals
  BY DEF FileInv
<1>3. /\ \A v \in Files!Writers : v # w => jobs'[v] = Files!Outdated(jobs[v])
      /\ j.op # "remove" => jobs'[w] = Files!NoJob
      /\ j.op = "remove" => jobs'[w] = rest
  BY <1>1
<1>4. /\ j.op \in {"upsert", "token", "remove"} /\ j.list \in Seq(FileRows)
      /\ j.op = "remove" <=> j \in Removals
      /\ j.op = "remove" => j.next = "file"
  <2>1. j.op = "remove" => j.next = "file"
    BY <1>1 DEF Files!Unwritten
  <2> QED
    BY <1>1, <1>2, <2>1, JobIs
<1>5. j.op = "remove" =>
        rest \in Removals /\ rest.op = "remove" /\ rest.id = j.id /\ rest.next = "state"
  <2>1. <<>> \in Seq(FileRows) /\ "state" \in Files!Kinds
    BY DEF Files!Kinds
  <2> QED
    BY <1>4, <2>1 DEF Removals
<1> HIDE DEF rest
<1>6. Files!NoJob.op = "none" /\ ~Files!Unwritten(Files!NoJob)
  BY DEF Files!NoJob, Files!Unwritten
<1>7. \A v \in Files!Writers :
        /\ jobs'[v] \in {Files!NoJob} \cup Writes \cup Removals
        /\ jobs'[v].op = "remove" <=> jobs[v].op = "remove"
        /\ jobs'[v].op = "remove" =>
             /\ jobs'[v].id = jobs[v].id
             /\ jobs'[v].next = IF v = w THEN "state" ELSE jobs[v].next
        /\ Files!Unwritten(jobs'[v]) =>
             Files!Unwritten(jobs[v]) /\ jobs'[v].list = jobs[v].list /\ jobs'[v].stale
  <2> SUFFICES ASSUME NEW v \in Files!Writers
               PROVE  /\ jobs'[v] \in {Files!NoJob} \cup Writes \cup Removals
                      /\ jobs'[v].op = "remove" <=> jobs[v].op = "remove"
                      /\ jobs'[v].op = "remove" =>
                           /\ jobs'[v].id = jobs[v].id
                           /\ jobs'[v].next = IF v = w THEN "state" ELSE jobs[v].next
                      /\ Files!Unwritten(jobs'[v]) =>
                           /\ Files!Unwritten(jobs[v])
                           /\ jobs'[v].list = jobs[v].list /\ jobs'[v].stale
    OBVIOUS
  <2>1. CASE v # w
    BY <1>2, <1>3, <2>1, OutdatedIs
  <2>2. CASE v = w /\ j.op # "remove"
    BY <1>3, <1>6, <2>2
  <2>3. CASE v = w /\ j.op = "remove"
    <3>1. ~Files!Unwritten(rest)
      BY <1>5, <2>3 DEF Files!Unwritten
    <3> QED
      BY <1>3, <1>5, <2>3, <3>1
  <2> QED
    BY <2>1, <2>2, <2>3
<1>8. \A y : y \in Files!Removing' <=> y \in Files!Removing
  BY <1>7, RemovingIs
<1>9. excused \subseteq excused'
  BY <1>1
<1>10. w = "cycle" => cycle.selected # <<>> /\ j.op = "token"
  BY <1>2, <1>4 DEF FileTypes
<1>11. \A i \in DOMAIN cycle'.selected : \E k \in DOMAIN cycle.selected :
         cycle'.selected[i] = cycle.selected[k]
  BY <1>1, <1>2, <1>10, NextAccountIs
<1>12. FileTypes'
  <2>1. jobs' \in [Files!Writers -> {Files!NoJob} \cup Writes \cup Removals]
    BY <1>1, <1>7
  <2>2. /\ cycle' \in [running : BOOLEAN, selected : Seq(FileRows),
                       at : {"idle", "loaded", "check", "token"}]
        /\ cycle'.at # "idle" => cycle'.selected # <<>>
    BY <1>1, <1>2, <1>10, NextAccountIs DEF FileTypes
  <2>3. jobs'["cycle"].op = "none" \/ (jobs'["cycle"].op = "token" /\ cycle'.at = "token")
    <3>1. CASE w = "cycle"
      BY <1>3, <1>6, <1>10, <3>1
    <3>2. CASE w # "cycle"
      <4>1. "cycle" \in Files!Writers
        BY DEF Files!Writers
      <4>2. jobs'["cycle"].op = jobs["cycle"].op
        BY <1>2, <1>3, <3>2, <4>1, OutdatedIs
      <4> QED
        BY <1>1, <1>2, <3>2, <4>2 DEF FileTypes
    <3> QED
      BY <3>1, <3>2
  <2> QED
    BY <1>1, <1>2, <1>4, <2>1, <2>2, <2>3 DEF FileTypes
<1>13. FileLists'
  <2>1. Files!normalizeFile(accounts)'
    BY <1>1, <1>2 DEF FileLists, Files!normalizeFile
  <2>2. ASSUME NEW v \in Files!Writers PROVE ListOf(v)'
    <3>1. Files!Unwritten(jobs[v]) => Files!normalizeFile(jobs[v].list)
      BY <1>2 DEF FileLists
    <3>2. Files!Unwritten(jobs'[v]) => Files!normalizeFile(jobs'[v].list) /\ jobs'[v].stale
      BY <1>7, <3>1
    <3> QED
      BY <3>2 DEF ListOf, Files!normalizeFile, Files!Unwritten
  <2> QED
    BY <2>1, <2>2 DEF FileLists, ListOf
<1> DEFINE Free(x) == x \notin excused' /\ x \notin Files!Removing'
<1>14. ASSUME NEW x, NEW n, Free(x), Stands(accounts, x, n) PROVE Stands(accounts', x, n)
  <2>1. PICK i \in DOMAIN accounts : accounts[i].id = x /\ accounts[i].number = n
    BY <1>14 DEF Stands
  <2>2. ~j.stale
    BY <1>1, <1>14, <2>1 DEF Files!IdsOf
  <2>3. ~(j.op = "remove" /\ j.id = x)
    BY <1>8, <1>14, RemovingIs
  <2>4. \/ j.op = "remove" /\ accounts[i].id = j.id
        \/ Stands(j.list, accounts[i].id, accounts[i].number)
    BY <1>1, <1>2, <2>2 DEF FileLists
  <2> QED
    BY <1>1, <2>1, <2>3, <2>4
<1>15. FileOwners'
  <2>1. \A x : Free(x) => Settled(x)
    BY <1>8, <1>9 DEF Settled
  <2>2. ASSUME NEW f \in files, Free(f.id) PROVE Stands(accounts', f.id, f.number)
    BY <1>2, <1>14, <2>1, <2>2 DEF FileOwners
  <2>3. ASSUME NEW k \in DOMAIN cycle.selected
        PROVE  /\ Free(cycle.selected[k].id) =>
                    Stands(accounts', cycle.selected[k].id, cycle.selected[k].number)
               /\ cycle.selected[k].id \in Files!Removing' => cycle.selected[k].id \in excused'
    BY <1>2, <1>8, <1>9, <1>14, <2>1 DEF FileOwners
  <2>4. \A i \in DOMAIN cycle'.selected :
          /\ Free(cycle'.selected[i].id) =>
               Stands(accounts', cycle'.selected[i].id, cycle'.selected[i].number)
          /\ cycle'.selected[i].id \in Files!Removing' => cycle'.selected[i].id \in excused'
    BY <1>11, <2>3
  <2> QED
    BY <1>1, <2>2, <2>4 DEF FileOwners, Settled, Stands
<1>16. FileRemovals'
  <2>1. Left("state") = Left("file")
    BY DEF Left
  <2> QED
    BY <1>1, <1>2, <1>4, <1>7, <1>9, <2>1 DEF FileRemovals
<1> QED
  BY <1>12, <1>13, <1>15, <1>16 DEF FileInv

\* What is left of the types when only one job, the sessions and the notes change.
LEMMA JobTyped ==
  ASSUME FileTypes, NEW e \in Editors, NEW j \in {Files!NoJob} \cup Writes \cup Removals,
         jobs' = [jobs EXCEPT ![e] = j], UNCHANGED <<accounts, cycle, born>>,
         \A f \in files' : f.kind \in Files!Kinds
  PROVE  /\ FileTypes' /\ e \in Files!Writers /\ jobs'[e] = j
         /\ \A v \in Files!Writers : v # e => jobs'[v] = jobs[v]
<1>1. e \in Files!Writers /\ e # "cycle" /\ "cycle" \in Files!Writers
  BY ObservatoryAssumption DEF Files!Writers
<1>2. /\ jobs' \in [Files!Writers -> {Files!NoJob} \cup Writes \cup Removals]
      /\ jobs'[e] = j /\ \A v \in Files!Writers : v # e => jobs'[v] = jobs[v]
  BY <1>1 DEF FileTypes
<1>3. jobs'["cycle"] = jobs["cycle"]
  BY <1>1, <1>2
<1> QED
  BY <1>1, <1>2, <1>3 DEF FileTypes

\* A removal goes on with the next of its files, and is over when none is left.
LEMMA DeleteKept ==
  ASSUME FileInv, NEW e \in Editors, Files!deleteFiles(e)
  PROVE  FileInv'
<1> DEFINE j == jobs[e]
           next == Files!After(j.next)
<1>1. /\ j.op = "remove" /\ j.next \in Files!Kinds
      /\ UNCHANGED <<accounts, cycle, born>>
      /\ \/ /\ files' = {f \in files : ~(f.kind = j.next /\ f.id = j.id)}
            /\ jobs' = [jobs EXCEPT ![e] = IF next = "done" THEN Files!NoJob
                                           ELSE [j EXCEPT !.next = next]]
            /\ excused' = excused
         \/ /\ excused' = excused \cup {j.id} /\ files' = files
            /\ jobs' = [jobs EXCEPT ![e] = Files!NoJob]
  BY DEF Files!deleteFiles
<1>2. FileTypes /\ FileLists /\ FileOwners /\ FileRemovals
  BY DEF FileInv
<1>3. e \in Files!Writers
  BY DEF Files!Writers
<1>4. j \in Removals
  BY <1>1, <1>2, <1>3, JobIs
<1>5. files' \subseteq files /\ excused \subseteq excused'
  BY <1>1
<1>6. \A f \in files' : f.kind \in Files!Kinds
  BY <1>2, <1>5 DEF FileTypes
<1>7. Files!NoJob.op = "none" /\ ~Files!Unwritten(Files!NoJob)
  BY DEF Files!NoJob, Files!Unwritten
<1>8. j.id \in Files!Removing
  BY <1>1, <1>3, RemovingIs
\* The removal is over, or was cut short.
<1>9. CASE jobs' = [jobs EXCEPT ![e] = Files!NoJob]
  <2>1. /\ FileTypes' /\ jobs'[e] = Files!NoJob
        /\ \A v \in Files!Writers : v # e => jobs'[v] = jobs[v]
    BY <1>1, <1>2, <1>6, <1>9, JobTyped
  <2>2. FileLists'
    BY <1>1, <1>7, <2>1, ListKept DEF ListOf
  <2>3. \A y : y \in Files!Removing' <=> y \in Files!Removing /\ y # j.id
    <3>1. \A v \in Files!Writers : jobs[v].op = "remove" /\ jobs[v].id = j.id => v = e
      BY <1>1, <1>2, <1>3 DEF FileRemovals
    <3> QED
      BY <1>1, <1>3, <1>7, <2>1, <3>1, RemovingIs
  <2>4. \A y : y \notin excused' /\ y \notin Files!Removing' => Settled(y) \/ y = j.id
    BY <1>5, <2>3 DEF Settled
  <2>5. j.id \notin excused' => \A f \in files' : f.id # j.id
    <3> SUFFICES ASSUME j.id \notin excused', NEW f \in files', f.id = j.id PROVE FALSE
      OBVIOUS
    <3>1. /\ f \in files /\ f.kind # j.next /\ next = "done"
      BY <1>1, <1>4, <1>9, <2>1, <1>7 DEF Removals
    <3>2. j.next = "profile"
      BY <1>1, <3>1 DEF Files!After, Files!Kinds
    <3>3. f.kind \in Left("profile")
      BY <1>1, <1>2, <1>3, <1>5, <3>1, <3>2 DEF FileRemovals
    <3> QED
      BY <3>1, <3>2, <3>3 DEF Left
  <2>6. FileOwners'
    <3>1. ASSUME NEW f \in files', f.id \notin excused', f.id \notin Files!Removing'
          PROVE  Stands(accounts, f.id, f.number)
      BY <1>2, <1>5, <2>4, <2>5, <3>1 DEF FileOwners
    <3>2. ASSUME NEW i \in DOMAIN cycle.selected
          PROVE  LET a == cycle.selected[i]
                 IN  /\ a.id \notin excused' /\ a.id \notin Files!Removing' =>
                          Stands(accounts, a.id, a.number)
                     /\ a.id \in Files!Removing' => a.id \in excused'
      BY <1>2, <1>5, <1>8, <2>3, <2>4 DEF FileOwners
    <3> QED
      BY <1>1, <3>1, <3>2 DEF FileOwners, Settled, Stands
  <2>7. FileRemovals'
    BY <1>2, <1>5, <1>7, <2>1 DEF FileRemovals
  <2> QED
    BY <2>1, <2>2, <2>6, <2>7 DEF FileInv
\* There is more to delete.
<1>10. CASE jobs' # [jobs EXCEPT ![e] = Files!NoJob]
  <2> DEFINE k == [j EXCEPT !.next = next]
  <2>1. /\ files' = {f \in files : ~(f.kind = j.next /\ f.id = j.id)}
        /\ next # "done" /\ jobs' = [jobs EXCEPT ![e] = k] /\ excused' = excused
    BY <1>1, <1>10
  <2>2. \/ j.next = "state" /\ next = "monitor"
        \/ j.next = "monitor" /\ next = "profile"
    BY <1>1, <2>1 DEF Files!After, Files!Kinds
  <2>3. k \in Removals /\ k.op = "remove" /\ k.id = j.id /\ k.next = next
    <3>1. next \in Files!Kinds
      BY <2>2 DEF Files!Kinds
    <3> HIDE DEF next
    <3> QED
      BY <1>4, <3>1 DEF Removals
  <2>4. ~Files!Unwritten(k)
    BY <2>2, <2>3 DEF Files!Unwritten
  <2> HIDE DEF k
  <2>5. /\ FileTypes' /\ jobs'[e] = k
        /\ \A v \in Files!Writers : v # e => jobs'[v] = jobs[v]
    BY <1>1, <1>2, <1>6, <2>1, <2>3, JobTyped
  <2>6. FileLists'
    BY <1>1, <2>4, <2>5, ListKept DEF ListOf
  <2>7. \A y : y \in Files!Removing' <=> y \in Files!Removing
    BY <1>1, <1>3, <2>3, <2>5, RemovingIs
  <2>8. FileOwners'
    BY <1>1, <1>2, <1>5, <2>1, <2>7 DEF FileOwners, Settled, Stands
  <2>9. FileRemovals'
    <3>1. ASSUME NEW v \in Files!Writers, NEW w \in Files!Writers,
                 jobs'[v].op = "remove", jobs'[w].op = "remove", jobs'[v].id = jobs'[w].id
          PROVE  v = w
      BY <1>1, <1>2, <1>3, <2>3, <2>5, <3>1 DEF FileRemovals
    <3>2. ASSUME NEW w \in Files!Writers, jobs'[w].op = "remove", jobs'[w].id \notin excused',
                 NEW f \in files', f.id = jobs'[w].id
          PROVE  f.kind \in Left(jobs'[w].next)
      <4>1. CASE w = e
        <5>1. f \in files /\ f.id = j.id /\ f.kind # j.next /\ f.kind \in Left(j.next)
          BY <1>1, <1>2, <1>3, <2>1, <2>3, <2>5, <3>2, <4>1 DEF FileRemovals
        <5>2. f.kind \in Files!Kinds
          BY <1>6
        <5> QED
          BY <2>2, <2>3, <2>5, <4>1, <5>1, <5>2 DEF Left, Files!Kinds
      <4>2. CASE w # e
        BY <1>2, <1>5, <2>1, <2>5, <3>2, <4>2 DEF FileRemovals
      <4> QED
        BY <4>1, <4>2
    <3> QED
      BY <3>1, <3>2 DEF FileRemovals
  <2> QED
    BY <2>5, <2>6, <2>8, <2>9 DEF FileInv
<1> QED
  BY <1>9, <1>10

\* A step of the cycle leaves the file, the sessions and the requests alone.
LEMMA CycleStep ==
  ASSUME FileInv, UNCHANGED <<accounts, jobs, files, born>>, excused \subseteq excused',
         cycle' \in [running : BOOLEAN, selected : Seq(FileRows),
                     at : {"idle", "loaded", "check", "token"}],
         cycle'.at # "idle" => cycle'.selected # <<>>,
         cycle.at = "token" => jobs["cycle"].op = "none" \/ cycle'.at = "token",
         \A i \in DOMAIN cycle'.selected :
           LET a == cycle'.selected[i]
           IN  \/ \E k \in DOMAIN cycle.selected : a = cycle.selected[k]
               \/ /\ \E k \in DOMAIN accounts : a = accounts[k]
                  /\ a.id \in Files!Removing => a.id \in excused'
  PROVE  FileInv'
<1>1. FileTypes /\ FileLists /\ FileOwners /\ FileRemovals
  BY DEF FileInv
<1>2. FileTypes'
  BY <1>1 DEF FileTypes
<1>3. FileLists'
  BY <1>1 DEF FileLists, Files!normalizeFile, Stands
<1>4. \A y : y \in Files!Removing' <=> y \in Files!Removing
  BY RemovingIs
<1>5. FileOwners'
  <2>1. ASSUME NEW f \in files, f.id \notin excused', f.id \notin Files!Removing'
        PROVE  Stands(accounts, f.id, f.number)
    BY <1>1, <1>4, <2>1 DEF FileOwners, Settled
  <2>2. ASSUME NEW i \in DOMAIN cycle'.selected
        PROVE  LET a == cycle'.selected[i]
               IN  /\ a.id \notin excused' /\ a.id \notin Files!Removing' =>
                        Stands(accounts, a.id, a.number)
                   /\ a.id \in Files!Removing' => a.id \in excused'
    <3>1. CASE \E k \in DOMAIN cycle.selected : cycle'.selected[i] = cycle.selected[k]
      BY <1>1, <1>4, <3>1 DEF FileOwners, Settled
    <3>2. CASE /\ \E k \in DOMAIN accounts : cycle'.selected[i] = accounts[k]
               /\ cycle'.selected[i].id \in Files!Removing => cycle'.selected[i].id \in excused'
      BY <1>4, <3>2 DEF Stands
    <3> QED
      BY <3>1, <3>2
  <2> QED
    BY <2>1, <2>2 DEF FileOwners, Settled, Stands
<1>6. FileRemovals'
  BY <1>1 DEF FileRemovals
<1> QED
  BY <1>2, <1>3, <1>5, <1>6 DEF FileInv

\* A cycle loads all accounts, or the one it is asked for.
LEMMA AccountsLoadedKept ==
  ASSUME FileInv, Files!loadAccounts
  PROVE  FileInv'
<1>1. PICK list \in {accounts} \cup {<<accounts[i]>> : i \in DOMAIN accounts} :
        /\ list # <<>> /\ cycle.at = "idle" /\ UNCHANGED <<accounts, jobs, files, born>>
        /\ cycle' = [Files!NoCycle EXCEPT !.selected = list, !.at = "loaded"]
        /\ excused' = excused \cup (Files!Removing \cap Files!IdsOf(list))
  BY DEF Files!loadAccounts
<1>2. accounts \in Seq(FileRows)
  BY DEF FileInv, FileTypes
<1>3. /\ list \in Seq(FileRows)
      /\ \A i \in DOMAIN list : \E k \in DOMAIN accounts : list[i] = accounts[k]
  <2>1. CASE list = accounts
    BY <1>2, <2>1
  <2>2. ASSUME NEW n \in DOMAIN accounts, list = <<accounts[n]>>
        PROVE  /\ list \in Seq(FileRows)
               /\ \A i \in DOMAIN list : \E k \in DOMAIN accounts : list[i] = accounts[k]
    <3>1. accounts[n] \in FileRows
      BY <1>2
    <3>2. list \in Seq(FileRows) /\ DOMAIN list = {1} /\ list[1] = accounts[n]
      BY <2>2, <3>1
    <3> QED
      BY <3>2
  <2> QED
    BY <1>1, <2>1, <2>2
<1>4. \A i \in DOMAIN list : list[i].id \in Files!IdsOf(list)
  BY DEF Files!IdsOf
<1> HIDE DEF FileRows
<1>5. cycle' = [running |-> FALSE, selected |-> list, at |-> "loaded"]
  BY <1>1 DEF Files!NoCycle
<1>6. /\ cycle'.selected = list /\ cycle'.at = "loaded"
      /\ cycle' \in [running : BOOLEAN, selected : Seq(FileRows),
                     at : {"idle", "loaded", "check", "token"}]
  BY <1>3, <1>5
<1>7. ASSUME NEW i \in DOMAIN cycle'.selected
      PROVE  LET a == cycle'.selected[i]
             IN  /\ \E k \in DOMAIN accounts : a = accounts[k]
                 /\ a.id \in Files!Removing => a.id \in excused'
  BY <1>1, <1>3, <1>4, <1>6
<1>8. list # <<>> /\ cycle.at = "idle" /\ UNCHANGED <<accounts, jobs, files, born>>
      /\ excused \subseteq excused'
  BY <1>1
<1> QED
  BY <1>6, <1>7, <1>8, CycleStep

\* The cycle is seen to run.
LEMMA CheckStartedKept ==
  ASSUME FileInv, Files!startCheck
  PROVE  FileInv'
<1>1. /\ cycle.at = "loaded" /\ cycle' = [cycle EXCEPT !.running = TRUE, !.at = "check"]
      /\ UNCHANGED <<accounts, jobs, files, born, excused>>
  BY DEF Files!startCheck
<1>2. /\ cycle \in [running : BOOLEAN, selected : Seq(FileRows),
                    at : {"idle", "loaded", "check", "token"}]
      /\ cycle.selected # <<>>
  BY <1>1 DEF FileInv, FileTypes
<1>3. /\ cycle' \in [running : BOOLEAN, selected : Seq(FileRows),
                     at : {"idle", "loaded", "check", "token"}]
      /\ cycle'.selected = cycle.selected
  BY <1>1, <1>2
<1> QED
  BY <1>1, <1>2, <1>3, CycleStep

\* A worker writes for the account that it was started for, or leaves what was there.
LEMMA FilesWritten ==
  ASSUME NEW what \in Files!Kinds, NEW f \in Files!Written(what)
  PROVE  \/ f \in files
         \/ f.kind \in Files!Kinds /\ f.id = Files!Account.id /\ f.number = Files!Account.number
<1>1. CASE f \in files
  BY <1>1
<1>2. CASE f = Files!File(what)
  <2>1. f = [kind |-> what, id |-> Files!Account.id, number |-> Files!Account.number]
    BY <1>2 DEF Files!File
  <2> QED
    BY <2>1
<1> QED
  BY <1>1, <1>2 DEF Files!Written

\* A worker writes for an account that the cycle has loaded.
LEMMA WorkerKept ==
  ASSUME FileInv, Files!runWorker
  PROVE  FileInv'
<1> DEFINE a == cycle.selected[1]
<1>1. FileTypes /\ FileLists /\ FileOwners /\ FileRemovals
  BY DEF FileInv
<1>2. cycle.at = "check" /\ UNCHANGED <<accounts, jobs, cycle, born, excused>>
  BY DEF Files!runWorker
<1>3. 1 \in DOMAIN cycle.selected /\ Files!Account = a
  <2>1. cycle.selected \in Seq(FileRows) /\ cycle.selected # <<>>
    BY <1>1, <1>2 DEF FileTypes
  <2> QED
    BY <2>1 DEF Files!Account
<1>4. /\ Settled(a.id) => Stands(accounts, a.id, a.number)
      /\ a.id \in Files!Removing => a.id \in excused
  BY <1>1, <1>3 DEF FileOwners
<1>5. \A f \in files' : f \in files \/ (f.kind \in Files!Kinds /\ f.id = a.id /\ f.number = a.number)
  <2>1. ASSUME NEW what \in {"profile", "state", "monitor"}, files' = Files!Written(what)
        PROVE  \A f \in files' :
                 f \in files \/ (f.kind \in Files!Kinds /\ f.id = a.id /\ f.number = a.number)
    <3>1. what \in Files!Kinds
      BY DEF Files!Kinds
    <3> QED
      BY <1>3, <2>1, <3>1, FilesWritten
  <2>2. ASSUME files' = {f \in files : ~(f.kind = "monitor" /\ f.id = Files!Account.id)}
        PROVE  \A f \in files' : f \in files
    BY <2>2
  <2>3. \/ \E what \in {"profile", "state", "monitor"} : files' = Files!Written(what)
        \/ files' = {f \in files : ~(f.kind = "monitor" /\ f.id = Files!Account.id)}
    BY DEF Files!runWorker
  <2> QED
    BY <2>1, <2>2, <2>3
<1> HIDE DEF a
<1>6. \A y : y \in Files!Removing' <=> y \in Files!Removing
  BY <1>2, RemovingIs
<1>7. FileTypes'
  BY <1>1, <1>2, <1>5 DEF FileTypes
<1>8. FileLists'
  BY <1>1, <1>2 DEF FileLists, Files!normalizeFile, Stands
<1>9. FileOwners'
  <2>1. \A x : x \notin excused' /\ x \notin Files!Removing' => Settled(x)
    BY <1>2, <1>6 DEF Settled
  <2>2. ASSUME NEW f \in files', f.id \notin excused', f.id \notin Files!Removing'
        PROVE  Stands(accounts, f.id, f.number)
    BY <1>1, <1>4, <1>5, <2>1, <2>2 DEF FileOwners
  <2>3. \A i \in DOMAIN cycle.selected :
          LET b == cycle.selected[i]
          IN  /\ b.id \notin excused' /\ b.id \notin Files!Removing' =>
                   Stands(accounts, b.id, b.number)
              /\ b.id \in Files!Removing' => b.id \in excused'
    BY <1>1, <1>2, <1>6, <2>1 DEF FileOwners
  <2> QED
    BY <1>2, <2>2, <2>3 DEF FileOwners, Settled, Stands
<1>10. FileRemovals'
  <2>1. \A w \in Files!Writers : jobs[w].op = "remove" => jobs[w].id \in Files!Removing
    BY RemovingIs
  <2> QED
    BY <1>1, <1>2, <1>4, <1>5, <2>1 DEF FileRemovals
<1> QED
  BY <1>7, <1>8, <1>9, <1>10 DEF FileInv

\* A check ends with a token to save, or without.
LEMMA CheckEndedKept ==
  ASSUME FileInv, Files!checkEnds
  PROVE  FileInv'
<1>1. FileTypes /\ FileLists /\ FileOwners /\ FileRemovals
  BY DEF FileInv
<1>2. /\ cycle.at = "check" /\ UNCHANGED <<accounts, files, born, excused>>
      /\ cycle \in [running : BOOLEAN, selected : Seq(FileRows),
                    at : {"idle", "loaded", "check", "token"}]
      /\ cycle.selected # <<>> /\ jobs["cycle"].op = "none"
  BY <1>1 DEF Files!checkEnds, FileTypes
<1>3. CASE cycle' = Files!nextAccount /\ UNCHANGED jobs
  BY <1>1, <1>2, <1>3, NextAccountIs, CycleStep
<1> DEFINE j == [op |-> "token", list |-> accounts, stale |-> FALSE]
<1>4. CASE cycle' = [cycle EXCEPT !.at = "token"] /\ jobs' = [jobs EXCEPT !["cycle"] = j]
  <2>1. /\ cycle' \in [running : BOOLEAN, selected : Seq(FileRows),
                       at : {"idle", "loaded", "check", "token"}]
        /\ cycle'.selected = cycle.selected /\ cycle'.at = "token"
    BY <1>2, <1>4
  <2>2. "cycle" \in Files!Writers
    BY DEF Files!Writers
  <2>3. j \in Writes /\ j.op = "token" /\ j.list = accounts
    BY <1>1 DEF FileTypes, Writes
  <2> HIDE DEF j
  <2>4. /\ jobs' \in [Files!Writers -> {Files!NoJob} \cup Writes \cup Removals]
        /\ jobs'["cycle"] = j
        /\ \A w \in Files!Writers : w # "cycle" => jobs'[w] = jobs[w]
    BY <1>1, <1>4, <2>2, <2>3 DEF FileTypes
  <2>5. \A y : y \in Files!Removing' <=> y \in Files!Removing
    BY <1>2, <2>2, <2>3, <2>4, RemovingIs
  <2>6. FileTypes'
    BY <1>1, <1>2, <2>1, <2>3, <2>4 DEF FileTypes
  <2>7. FileLists'
    <3>1. ListOf("cycle")'
      BY <1>1, <1>2, <2>3, <2>4 DEF ListOf, FileLists, Files!normalizeFile, Stands
    <3> QED
      BY <1>2, <2>4, <3>1, ListKept
  <2>8. FileOwners'
    BY <1>1, <1>2, <2>1, <2>5 DEF FileOwners, Settled, Stands
  <2>9. FileRemovals'
    BY <1>1, <1>2, <2>3, <2>4 DEF FileRemovals
  <2> QED
    BY <2>6, <2>7, <2>8, <2>9 DEF FileInv
<1> QED
  BY <1>3, <1>4 DEF Files!checkEnds

\* The process ends in the middle of removals.
LEMMA ProcessEndsKept ==
  ASSUME FileInv, Files!Restart
  PROVE  FileInv'
<1>1. /\ jobs' = [w \in Files!Writers |-> Files!NoJob] /\ cycle' = Files!NoCycle
      /\ excused' = excused \cup Files!Removing /\ UNCHANGED <<accounts, files, born>>
  BY DEF Files!Restart
<1>2. FileTypes /\ FileLists /\ FileOwners /\ FileRemovals
  BY DEF FileInv
<1>3. Files!NoJob.op = "none" /\ ~Files!Unwritten(Files!NoJob) /\ "cycle" \in Files!Writers
  BY DEF Files!NoJob, Files!Unwritten, Files!Writers
<1>4. cycle'.selected = <<>> /\ DOMAIN cycle'.selected = {} /\ cycle'.at = "idle"
  BY <1>1 DEF Files!NoCycle
<1>5. FileTypes'
  <2>1. <<>> \in Seq(FileRows)
    BY EmptySeq
  <2>2. cycle' \in [running : BOOLEAN, selected : Seq(FileRows),
                    at : {"idle", "loaded", "check", "token"}]
    BY <1>1, <2>1 DEF Files!NoCycle
  <2> QED
    BY <1>1, <1>2, <1>3, <1>4, <2>2 DEF FileTypes
<1>6. FileLists'
  BY <1>1, <1>2, <1>3 DEF FileLists, Files!normalizeFile
<1>7. FileOwners'
  <2>1. \A x : x \notin excused' => Settled(x)
    BY <1>1 DEF Settled
  <2> QED
    BY <1>1, <1>2, <1>4, <2>1 DEF FileOwners, Settled, Stands
<1>8. FileRemovals'
  BY <1>1, <1>3 DEF FileRemovals
<1> QED
  BY <1>5, <1>6, <1>7, <1>8 DEF FileInv

\* The account file can always be loaded, and no account finds the sessions of another
\* that had its id before, but for the removals that accounts.ts and dashboard.ts cut
\* short or let overlap.
THEOREM FilesKeptHolds == Spec => []FilesKept
<1>1. Init => FileInv
  <2> SUFFICES ASSUME Files!Init PROVE FileInv
    BY DEF Init
  <2>1. /\ accounts = <<>> /\ jobs = [w \in Files!Writers |-> Files!NoJob]
        /\ cycle = [running |-> FALSE, selected |-> <<>>, at |-> "idle"]
        /\ files = {} /\ born = 0
    BY DEF Files!Init, Files!NoCycle
  <2>2. Files!NoJob.op = "none" /\ ~Files!Unwritten(Files!NoJob) /\ "cycle" \in Files!Writers
    BY DEF Files!NoJob, Files!Unwritten, Files!Writers
  <2>3. <<>> \in Seq(FileRows) /\ Len(<<>>) = 0 /\ DOMAIN <<>> = {}
    BY EmptySeq
  <2>4. FileTypes
    BY <2>1, <2>2, <2>3 DEF FileTypes
  <2>5. FileLists
    BY <2>1, <2>2, <2>3, ObservatoryAssumption DEF FileLists, Files!normalizeFile
  <2>6. FileOwners
    BY <2>1, <2>3 DEF FileOwners
  <2>7. FileRemovals
    BY <2>1, <2>2 DEF FileRemovals
  <2> QED
    BY <2>4, <2>5, <2>6, <2>7 DEF FileInv
<1>2. FileInv /\ [Next]_vars => FileInv'
  <2> SUFFICES ASSUME FileInv, [Files!Next]_(Files!vars) PROVE FileInv'
    BY DEF Next, vars, Only, fileVars, Files!vars
  <2>1. CASE UNCHANGED Files!vars
    <3>1. UNCHANGED <<accounts, jobs, cycle, files, born, excused>>
      BY <2>1 DEF Files!vars
    <3>2. \A y : y \in Files!Removing' <=> y \in Files!Removing
      BY <3>1, RemovingIs
    <3>3. FileTypes' /\ FileRemovals'
      BY <3>1 DEF FileInv, FileTypes, FileRemovals
    <3>4. FileLists'
      BY <3>1 DEF FileInv, FileLists, Files!normalizeFile, Stands
    <3>5. FileOwners'
      BY <3>1, <3>2 DEF FileInv, FileOwners, Settled, Stands
    <3> QED
      BY <3>3, <3>4, <3>5 DEF FileInv
  <2>2. ASSUME NEW e \in Editors, NEW x \in {Files!NoId} \cup Ids \cup Files!IdsOf(accounts),
               NEW u \in {Files!NoId} \cup Ids, NEW p \in BOOLEAN, Files!upsert(e, x, u, p)
        PROVE  FileInv'
    BY <2>2, UpsertKept
  <2>3. ASSUME NEW e \in Editors, NEW x \in Files!IdsOf(accounts), Files!remove(e, x)
        PROVE  FileInv'
    BY <2>3, RemoveKept
  <2>4. ASSUME NEW e \in Editors, Files!deleteFiles(e) PROVE FileInv'
    BY <2>4, DeleteKept
  <2>5. ASSUME NEW w \in Files!Writers, Files!write(w) PROVE FileInv'
    BY <2>5, FileWrittenKept
  <2>6. CASE Files!loadAccounts
    BY <2>6, AccountsLoadedKept
  <2>7. CASE Files!startCheck
    BY <2>7, CheckStartedKept
  <2>8. CASE Files!runWorker
    BY <2>8, WorkerKept
  <2>9. CASE Files!checkEnds
    BY <2>9, CheckEndedKept
  <2>10. CASE Files!Restart
    BY <2>10, ProcessEndsKept
  <2> QED
    BY <2>1, <2>2, <2>3, <2>4, <2>5, <2>6, <2>7, <2>8, <2>9, <2>10 DEF Files!Next
<1>3. FileInv => FilesKept
  <2> SUFFICES ASSUME FileInv PROVE Files!FilesKept
    BY DEF FilesKept
  <2>1. Files!normalizeFile(accounts)
    BY DEF FileInv, FileLists
  <2>2. ASSUME NEW i \in DOMAIN accounts, accounts[i].id \notin excused \cup Files!Removing,
               NEW f \in files, f.id = accounts[i].id
        PROVE  f.number = accounts[i].number
    <3>1. PICK k \in DOMAIN accounts : accounts[k].id = f.id /\ accounts[k].number = f.number
      BY <2>2 DEF FileInv, FileOwners, Settled, Stands
    <3> QED
      BY <2>1, <2>2, <3>1 DEF Files!normalizeFile
  <2> QED
    BY <2>1, <2>2 DEF Files!FilesKept
<1> QED
  BY <1>1, <1>2, <1>3, PTL DEF Spec
=============================================================================
