--------------------------- MODULE DirectAccounts ---------------------------
(***************************************************************************)
(* The accounts of one provider that the hub asks itself (the collectors   *)
(* under src/antigravity, src/chatgpt and src/commandcode): a polling loop *)
(* probes them one after the other, the dashboard probes one or all by     *)
(* hand at any time.  A probe compares the credits it is told with those   *)
(* of the last snapshot, announces a gain, hands its observations on and   *)
(* stores a new snapshot, with awaits in between.  An answer may leave     *)
(* the credits out.                                                        *)
(***************************************************************************)
EXTENDS Integers, FiniteSetsExt

CONSTANTS
    Accounts,              \* integers, in the order of their creation
    MaxCredits,            \* bound: the credits of an account
    MaxFailures,           \* bound: the consecutive failures that are counted
    MaxEdits               \* bound: what the operator does

VARIABLES
    provider,
    account,               \* the row: whether it is enabled
    credits,               \* at the provider
    rises,                 \* the amounts that the credits of an account rose to
    snap,                  \* the snapshots
    told,                  \* reset_credit_increased: accounts and amounts
    probe,                 \* the probe of the loop and the one made by hand
    probing,               \* the latch of probeAll
    round, todo,           \* who is in probeAll, and the accounts it has left
    polling,               \* whether the loop goes on
    overlapped,            \* two probes of one account met
    edits                  \* for the bound

outside == <<provider, account, credits, rises, edits>>
vars == <<outside, snap, told, probe, probing, round, todo, polling, overlapped>>

Providers == {"antigravity", "chatgpt", "commandcode"}
Probers == {"loop", "hand"}
Unknown == -1
NoSnapshot == [credits |-> Unknown, failures |-> 0]
Idle == [at |-> "idle", of |-> 0, seen |-> Unknown, previous |-> Unknown]

TypeOK ==
    /\ provider \in Providers
    /\ account \in [Accounts -> {"none", "on", "off", "removed"}]
    /\ snap \in [Accounts -> [credits : Unknown .. MaxCredits, failures : 0 .. MaxFailures]]
    /\ \A p \in Probers :
         probe[p].at \in {"idle", "asked", "known", "catalog", "ingest", "failed", "report"}
    /\ probing \in BOOLEAN /\ round \in Probers \cup {"nobody"} /\ todo \subseteq Accounts

Init ==
    /\ provider \in Providers
    /\ account = [a \in Accounts |-> "none"]
    /\ credits \in [Accounts -> 0 .. MaxCredits] /\ rises = {} /\ told = {}
    /\ snap = [a \in Accounts |-> NoSnapshot]
    /\ probe = [p \in Probers |-> Idle]
    /\ probing = FALSE /\ round = "nobody" /\ todo = {} /\ polling = TRUE
    /\ overlapped = FALSE /\ edits = 0

(***************************************************************************)
(* The operator and the provider                                           *)
(***************************************************************************)
Edit(a, from, to) ==
    /\ edits < MaxEdits /\ edits' = edits + 1
    /\ account[a] \in from /\ account' = [account EXCEPT ![a] = to]
    /\ UNCHANGED <<provider, credits, rises, snap, told, probe, probing, round, todo,
                   polling, overlapped>>

\* Every account that is added has a new id.
upsertAccount(a) == Edit(a, {"none"}, "on")
setAccountEnabled(a) == Edit(a, {"on"}, "off") \/ Edit(a, {"off"}, "on")
\* The database does not enforce foreign keys: the snapshot stays.
removeAccount(a) == Edit(a, {"on", "off"}, "removed")

Earned == \E a \in Accounts :
    /\ credits[a] < MaxCredits /\ [of |-> a, amount |-> credits[a] + 1] \notin rises
    /\ credits' = [credits EXCEPT ![a] = @ + 1]
    /\ rises' = rises \cup {[of |-> a, amount |-> credits[a] + 1]}
    /\ UNCHANGED <<provider, account, edits, snap, told, probe, probing, round, todo,
                   polling, overlapped>>

Spent == \E a \in Accounts :
    /\ credits[a] > 0 /\ credits' = [credits EXCEPT ![a] = @ - 1]
    /\ UNCHANGED <<provider, account, rises, edits, snap, told, probe, probing, round, todo,
                   polling, overlapped>>

(***************************************************************************)
(* probeAll, with its latch                                                *)
(***************************************************************************)
\* A call that finds the latch taken returns at once.
probeAll(p) ==
    /\ ~probing /\ probe[p] = Idle
    /\ p = "loop" => polling
    /\ probing' = TRUE /\ round' = p /\ todo' = {a \in Accounts : account[a] = "on"}
    /\ UNCHANGED <<outside, snap, told, probe, polling, overlapped>>

Asking(p, a) ==
    /\ probe' = [probe EXCEPT ![p] = [Idle EXCEPT !.at = "asked", !.of = a]]
    /\ overlapped' = (overlapped \/ \E q \in Probers \ {p} : probe[q].of = a)

\* An account that was removed meanwhile is not probed.
NextAccount(p) ==
    /\ round = p /\ probe[p] = Idle /\ todo # {}
    /\ todo' = todo \ {Min(todo)}
    /\ IF account[Min(todo)] = "removed" THEN UNCHANGED <<probe, overlapped>>
                                         ELSE Asking(p, Min(todo))
    /\ UNCHANGED <<outside, snap, told, probing, round, polling>>

RoundEnds(p) ==
    /\ round = p /\ probe[p] = Idle /\ todo = {}
    /\ round' = "nobody" /\ probing' = FALSE
    /\ UNCHANGED <<outside, snap, told, probe, todo, polling, overlapped>>

\* Mutant: the latch is given back only at the end of a round.
ThrownKept(p) == round' = "nobody" /\ UNCHANGED probing
\* An exception leaves probeAll through its finally.
Thrown(p) == round' = "nobody" /\ probing' = FALSE

ProbeOne(a) ==
    /\ account[a] \in {"on", "off"} /\ probe["hand"] = Idle /\ round # "hand"
    /\ Asking("hand", a)
    /\ UNCHANGED <<outside, snap, told, probing, round, todo, polling>>

(***************************************************************************)
(* One probe                                                               *)
(***************************************************************************)
\* Mutant: credits that are not known are stored as none.
KeptZero(seen) == IF seen = Unknown THEN 0 ELSE seen
\* What the snapshot keeps of the credits.
AntigravityKept(seen) == IF seen = Unknown THEN 0 ELSE seen
ChatgptKept(seen) == seen
CommandCodeKept(seen) == seen
Kept(seen) == CASE provider = "antigravity" -> AntigravityKept(seen)
                [] provider = "chatgpt"     -> ChatgptKept(seen)
                [] provider = "commandcode" -> CommandCodeKept(seen)

\* A failure of a round is stored and handed on, one by hand only answered.
Fails(p) == probe' = [probe EXCEPT ![p] = IF round = p THEN [@ EXCEPT !.at = "failed"]
                                                         ELSE Idle]

\* The request that tells the credits has ended.
Answered(p) ==
    /\ probe[p].at = "asked"
    /\ \/ Fails(p)
       \/ \E seen \in {credits[probe[p].of], Unknown} :
            probe' = [probe EXCEPT ![p].at = "known", ![p].seen = seen]
    /\ UNCHANGED <<outside, snap, told, probing, round, todo, polling, overlapped>>

Announce(p, previous) ==
    LET q == probe[p]
    IN  told' = IF q.seen # Unknown /\ previous # Unknown /\ q.seen > previous
                THEN told \cup {[of |-> q.of, amount |-> q.seen]} ELSE told

\* Antigravity's store finds no snapshot without its account.
getSnapshot(a) ==
    IF provider = "antigravity" /\ account[a] = "removed" THEN NoSnapshot ELSE snap[a]

\* The other requests have ended.  The catalog is asked for between the look at
\* the snapshot and the comparison.
AntigravityProbe(p) ==
    /\ provider = "antigravity"
    /\ \/ /\ probe[p].at = "known"
          /\ \/ Fails(p)
             \/ probe' = [probe EXCEPT ![p].at = "catalog",
                                       ![p].previous = getSnapshot(probe[p].of).credits]
          /\ UNCHANGED told
       \/ /\ probe[p].at = "catalog"
          /\ Announce(p, probe[p].previous)
          /\ probe' = [probe EXCEPT ![p].at = "ingest"]
    /\ UNCHANGED <<outside, snap, probing, round, todo, polling, overlapped>>

ChatgptProbe(p) ==
    /\ provider = "chatgpt" /\ probe[p].at = "known"
    /\ Announce(p, getSnapshot(probe[p].of).credits)
    /\ probe' = [probe EXCEPT ![p].at = "ingest"]
    /\ UNCHANGED <<outside, snap, probing, round, todo, polling, overlapped>>

CommandCodeProbe(p) ==
    /\ provider = "commandcode" /\ probe[p].at = "known"
    /\ \/ Fails(p) /\ UNCHANGED told
       \/ /\ Announce(p, getSnapshot(probe[p].of).credits)
          /\ probe' = [probe EXCEPT ![p].at = "ingest"]
    /\ UNCHANGED <<outside, snap, probing, round, todo, polling, overlapped>>

\* The ingest has ended; saveSnapshot.
Ingested(p) ==
    /\ probe[p].at = "ingest"
    /\ \/ Fails(p) /\ UNCHANGED snap
       \/ /\ snap' = [snap EXCEPT ![probe[p].of] =
                        [credits |-> Kept(probe[p].seen), failures |-> 0]]
          /\ probe' = [probe EXCEPT ![p] = Idle]
    /\ UNCHANGED <<outside, told, probing, round, todo, polling, overlapped>>

persistFailure(p) ==
    /\ probe[p].at = "failed"
    /\ IF account[probe[p].of] = "removed"
       THEN probe' = [probe EXCEPT ![p] = Idle] /\ UNCHANGED snap
       ELSE /\ snap' = [snap EXCEPT ![probe[p].of].failures =
                          IF @ < MaxFailures THEN @ + 1 ELSE @]
            /\ probe' = [probe EXCEPT ![p].at = "report"]
    /\ UNCHANGED <<outside, told, probing, round, todo, polling, overlapped>>

\* The ingest of a failure; when it fails in turn, its exception ends the round
\* and, when that is the loop's, the loop.
Reported(p) ==
    /\ probe[p].at = "report"
    /\ probe' = [probe EXCEPT ![p] = Idle]
    /\ \/ UNCHANGED <<probing, round, todo, polling>>
       \/ Thrown(p) /\ todo' = {} /\ polling' = (polling /\ p # "loop")
    /\ UNCHANGED <<outside, snap, told, overlapped>>

ProbeStep(p) ==
    \/ NextAccount(p) \/ RoundEnds(p) \/ Answered(p) \/ AntigravityProbe(p)
    \/ ChatgptProbe(p) \/ CommandCodeProbe(p) \/ Ingested(p) \/ persistFailure(p)
    \/ Reported(p)

Next ==
    \/ \E a \in Accounts :
         upsertAccount(a) \/ setAccountEnabled(a) \/ removeAccount(a) \/ ProbeOne(a)
    \/ \E p \in Probers : probeAll(p) \/ ProbeStep(p)
    \/ Earned \/ Spent

\* Every request has its timeout, and the loop its interval.
Fairness == WF_vars(probeAll("loop")) /\ \A p \in Probers : WF_vars(ProbeStep(p))

Spec == Init /\ [][Next]_vars
FairSpec == Spec /\ Fairness

(***************************************************************************)
(* Properties                                                              *)
(***************************************************************************)
\* A gain is announced only when the credits rose to that amount: for ChatGPT
\* and Command Code, when no two probes of one account overlapped.
GainsRose == provider = "antigravity" \/ overlapped \/ told \subseteq rises

\* "increases emit reset_credit_increased events" (antigravity/collector.ts:11):
\* an account whose credits never rose has gained none.
AntigravityGainsRose ==
    provider = "antigravity" /\ ~overlapped => \A g \in told : \E r \in rises : r.of = g.of

\* Whoever is in probeAll leaves it, also when the report of a failure fails:
\* no later round finds the latch taken for ever.
LatchReturns == probing ~> ~probing
=============================================================================
