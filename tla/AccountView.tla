---------------------------- MODULE AccountView ----------------------------
(***************************************************************************)
(* The account page of the dashboard (src/web/dashboard.js).  Its answers  *)
(* come in any order and may fail, the list of accounts is reloaded behind *)
(* it by the coordinator's refresh and by the dialogs, and every reload    *)
(* selects an account again or leaves the page.                            *)
(***************************************************************************)
EXTENDS Naturals, FiniteSets

CONSTANTS
    Accounts,        \* the ids the server may list
    MaxRequest,      \* bound: the views asked for by the user
    MaxEdits         \* bound: accounts saved or removed

VARIABLES
    server,          \* the accounts the server lists
    page,            \* selectedId, the panel, viewRequest, what is rendered
    loads,           \* the answers selectAccount waits for
    cores,           \* loadCore, under refresh and under a dialog, until its list is in
    clicks, edits    \* for the bounds

vars == <<server, page, loads, cores, clicks, edits>>

None == 0            \* null: no account
Callers == {"refresh", "dialog"}
\* `asked': DELETE or POST under way; `sent', `read': before and after the server reads its list.
Idle == [at |-> "idle", list |-> {}, again |-> FALSE, id |-> None]

TypeOK ==
    /\ server \subseteq Accounts
    /\ page.listed \subseteq Accounts /\ page.selected \in Accounts \cup {None}
    /\ page.panel \in {"account", "other"} /\ page.request \in Nat
    /\ page.shown \in [id : Accounts \cup {None}, request : Nat]
    /\ loads \subseteq [id : Accounts, request : Nat]
    /\ \A c \in Callers : /\ cores[c].at \in {"idle", "save", "remove", "sent", "read"}
                          /\ cores[c].list \subseteq Accounts

Init ==
    /\ server \in SUBSET Accounts
    /\ page = [listed |-> server, selected |-> None, panel |-> "other", request |-> 1,
               shown |-> [id |-> None, request |-> 0], failed |-> FALSE]
    /\ loads = {} /\ cores = [c \in Callers |-> Idle]
    /\ clicks = 0 /\ edits = 0

(***************************************************************************)
(* The views                                                               *)
(***************************************************************************)
Selecting(p, id) ==
    [p EXCEPT !.selected = id, !.panel = "account", !.request = @ + 1, !.failed = FALSE]
showView(p) ==
    [p EXCEPT !.selected = None, !.panel = "other", !.request = @ + 1, !.failed = FALSE]

Load(p) == [id |-> p.selected, request |-> p.request]

\* The button of an account, and another granularity of the one selected.
selectAccount(id) ==
    /\ id \in page.listed \/ (id = page.selected /\ id # None)
    /\ clicks < MaxRequest /\ clicks' = clicks + 1
    /\ page' = Selecting(page, id)
    /\ loads' = loads \cup {Load(page')}
    /\ UNCHANGED <<server, cores, edits>>

OtherView ==
    /\ clicks < MaxRequest /\ clicks' = clicks + 1
    /\ page' = showView(page)
    /\ UNCHANGED <<server, loads, cores, edits>>

\* Mutant: the answer is only matched with the account.
WantedById(l) == page.selected = l.id
Wanted(l) == page.selected = l.id /\ page.request = l.request

Loaded(l) ==
    /\ l \in loads /\ loads' = loads \ {l}
    /\ page' = IF Wanted(l) THEN [page EXCEPT !.shown = l] ELSE page
    /\ UNCHANGED <<server, cores, clicks, edits>>

\* A toast; what was rendered before stays.
LoadFails(l) ==
    /\ l \in loads /\ loads' = loads \ {l}
    /\ page' = [page EXCEPT !.failed = @ \/ Load(page) = l]
    /\ UNCHANGED <<server, cores, clicks, edits>>

(***************************************************************************)
(* loadCore                                                                *)
(***************************************************************************)
Sent(again, id) == [Idle EXCEPT !.at = "sent", !.again = again, !.id = id]

\* refresh: one at a time, after a cycle of checks.
Refresh ==
    /\ cores["refresh"].at = "idle" /\ edits < MaxEdits
    /\ cores' = [cores EXCEPT !["refresh"] = Sent(TRUE, None)]
    /\ edits' = edits + 1
    /\ UNCHANGED <<server, page, loads, clicks>>

saveAccount(id) ==
    /\ cores["dialog"].at = "idle" /\ edits < MaxEdits
    /\ server' = server \cup {id}
    /\ cores' = [cores EXCEPT !["dialog"] = [Idle EXCEPT !.at = "save", !.id = id]]
    /\ edits' = edits + 1
    /\ UNCHANGED <<page, loads, clicks>>

removeSelectedAccount ==
    /\ cores["dialog"].at = "idle" /\ edits < MaxEdits
    /\ page.selected \in page.listed
    /\ server' = server \ {page.selected}
    /\ cores' = [cores EXCEPT !["dialog"] = [Idle EXCEPT !.at = "remove"]]
    /\ edits' = edits + 1
    /\ UNCHANGED <<page, loads, clicks>>

\* The answer of the POST selects the account saved, that of the DELETE none; both reload.
Edited ==
    LET c == cores["dialog"] IN
    /\ c.at \in {"save", "remove"}
    /\ page' = [page EXCEPT !.selected = c.id]
    /\ cores' = [cores EXCEPT !["dialog"] = Sent(c.at = "save", c.id)]
    /\ UNCHANGED <<server, loads, clicks, edits>>

Read(c) ==
    /\ cores[c].at = "sent"
    /\ cores' = [cores EXCEPT ![c].at = "read", ![c].list = server]
    /\ UNCHANGED <<server, page, loads, clicks, edits>>

loadCore(c) ==
    LET p == [page EXCEPT !.listed = cores[c].list]
        again == cores[c].again /\ page.selected \in cores[c].list IN
    /\ cores[c].at = "read"
    /\ cores' = [cores EXCEPT ![c] = Idle]
    /\ page' = IF again THEN Selecting(p, page.selected) ELSE showView(p)
    /\ loads' = IF again THEN loads \cup {Load(page')} ELSE loads
    /\ UNCHANGED <<server, clicks, edits>>

\* The old list and the old detail stay.
CoreFails(c) ==
    /\ cores[c].at \in {"sent", "read"}
    /\ cores' = [cores EXCEPT ![c] = Idle]
    /\ page' = [page EXCEPT !.failed = @ \/ c = "dialog"]
    /\ UNCHANGED <<server, loads, clicks, edits>>

Next ==
    \/ \E id \in Accounts : selectAccount(id) \/ saveAccount(id)
    \/ OtherView \/ Refresh \/ removeSelectedAccount \/ Edited
    \/ \E l \in loads : Loaded(l) \/ LoadFails(l)
    \/ \E c \in Callers : Read(c) \/ loadCore(c) \/ CoreFails(c)

Spec == Init /\ [][Next]_vars

\* Once every answer is in and none failed, the account page renders the account
\* that is selected, and what was asked for last: an answer asked for earlier, for
\* another account or another granularity, never stays on the page.
AccountShown ==
    page.panel = "account" /\ page.selected # None /\ ~page.failed
        /\ Load(page) \notin loads /\ cores["dialog"].at = "idle"
    => page.shown = Load(page)
=============================================================================
