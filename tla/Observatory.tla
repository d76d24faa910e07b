---------------------------- MODULE Observatory ----------------------------
(***************************************************************************)
(* The alerts of the hub and the tools around its data: quotas, providers, *)
(* policies, digests, grants, balances, direct accounts and their logins,  *)
(* commands, imports, maintenance, the account page, the account file and  *)
(* the screenshots.  Each module has tables or state of its own, so that a *)
(* behaviour here is one of a single part, chosen at the start; the other  *)
(* parts keep one of their initial states.                                 *)
(***************************************************************************)
EXTENDS Integers

CONSTANTS
    Levels, MaxObserved,
    FailureThreshold, MaxEpoch,
    Hour, Day, Interval, Retention, MaxClock, MaxBack,
    RepeatedFailures, MaxRuns, MaxGrants, MaxPolls, MaxCrashes,
    Accounts, MaxCredits, MaxProbeFailures, MaxAccountEdits,
    Nonces, StateTtl, MaxNow, MaxLoginRequests,
    MaxUpdates, BatchLimit, Pages, MaxSendFailures, MaxStops,
    Importers, Secrets, MaxFileEdits, MaxImports,
    Tools, Names, MaxToolRuns, MaxDeaths,
    Listed, MaxRequest, MaxPageEdits,
    Resets, Lefts, LowRemaining, CodexFailures, MaxFaults,
    CheckBalances, LowBalance, RearmedBalance, LargeDrop, MaxChecks, MaxSteps,
    Editors, MaxAccounts, MaxNames, MaxCycles, MaxErrors,
    KeptFor, MaxShotTime, MaxRemovals, MaxShotFaults

\* Tools are told apart from nobody, balances from none (-1); accounts are numbered
\* as they were created.
ASSUME ObservatoryAssumption ==
    /\ 0 \notin Tools /\ Accounts \subseteq Nat /\ Levels \subseteq 0 .. 100
    /\ StateTtl \in Nat /\ BatchLimit \in Nat /\ KeptFor \in Nat
    /\ "cycle" \notin Editors /\ MaxAccounts \in Nat
    /\ CheckBalances \subseteq Int \ {-1} /\ LargeDrop \in Int
    /\ LowBalance \in Int /\ RearmedBalance \in Int /\ LowBalance <= RearmedBalance

VARIABLES
    part,
    tracker, window, quotaEvents,
    row, incidents, open,
    rules,
    clock, schedule, watermark, digests, claims, routed, back,
    runs, grants, mem, disk, run, poll, grantsTold, mishaps, polls, crashes,
    provider, account, credits, rises, snap, gainsTold, probe, probing, round, todo,
    polling, overlapped, accountEdits,
    now, pendingStates, exchanging, redeemed, added, loginRequests,
    kind, confirmed, lastOffset, batch, state, sent, answers, order, sendFailures, stops,
    file, importer, ledger, items, rows, fileEdits, imports,
    live, copies, locks, writer, tool, removed, deaths,
    server, page, loads, cores, clicks, pageEdits,
    codexFile, codexPoll, watched, lows, owed, alarms, faults, codexCrashes,
    up, checkClock, checkRuns, creditRows, grantRows, pending, checkRows, balances, observed,
    alerts, endpoints, mirrored, reported, setBacks, losses,
    accounts, jobs, cycle, files, born, excused, nameEdits, checks, errors,
    shotTime, root, shots, named, pass, worker, served, swept, due, cut, removals, shotFaults

quotaVars == <<tracker, window, quotaEvents>>
providerVars == <<row, incidents, open>>
digestVars == <<clock, schedule, watermark, digests, claims, routed, back>>
grantVars == <<runs, grants, mem, disk, run, poll, grantsTold, mishaps, polls, crashes>>
directVars == <<provider, account, credits, rises, snap, gainsTold, probe, probing, round,
                todo, polling, overlapped, accountEdits>>
loginVars == <<now, pendingStates, exchanging, redeemed, added, loginRequests>>
listenerVars == <<kind, confirmed, lastOffset, batch, state, sent, answers, order,
                  sendFailures, stops>>
importVars == <<file, importer, ledger, items, rows, fileEdits, imports>>
maintenanceVars == <<live, copies, locks, writer, tool, removed, deaths>>
pageVars == <<server, page, loads, cores, clicks, pageEdits>>
codexVars == <<codexFile, codexPoll, watched, lows, owed, alarms, faults, codexCrashes>>
ledgerVars == <<up, checkClock, checkRuns, creditRows, grantRows, pending, checkRows, balances,
                observed, alerts, endpoints, mirrored, reported, setBacks, losses>>
fileVars == <<accounts, jobs, cycle, files, born, excused, nameEdits, checks, errors>>
shotVars == <<shotTime, root, shots, named, pass, worker, served, swept, due, cut, removals,
              shotFaults>>
vars == <<part, quotaVars, providerVars, rules, digestVars, grantVars, directVars, loginVars,
          listenerVars, importVars, maintenanceVars, pageVars, codexVars, ledgerVars, fileVars,
          shotVars>>

Quota == INSTANCE QuotaAlerts WITH events <- quotaEvents
Provider == INSTANCE ProviderAlerts WITH told <- incidents
Policies == INSTANCE NotificationPolicies
Digests == INSTANCE DigestSlots WITH events <- digests
Grants == INSTANCE GrantAlerts WITH told <- grantsTold
Direct == INSTANCE DirectAccounts WITH
    told <- gainsTold, edits <- accountEdits,
    MaxFailures <- MaxProbeFailures, MaxEdits <- MaxAccountEdits
Logins == INSTANCE DirectLogins WITH
    requests <- loginRequests, MaxRequests <- MaxLoginRequests
Listener == INSTANCE CommandListener WITH
    failures <- sendFailures, MaxFailures <- MaxSendFailures
Import == INSTANCE SnapshotImport WITH edits <- fileEdits, MaxEdits <- MaxFileEdits
Maintenance == INSTANCE DatabaseMaintenance WITH MaxRuns <- MaxToolRuns
Page == INSTANCE AccountView WITH
    edits <- pageEdits, Accounts <- Listed, MaxEdits <- MaxPageEdits
Codex == INSTANCE CodexQuota WITH
    file <- codexFile, poll <- codexPoll, crashes <- codexCrashes,
    RepeatedFailures <- CodexFailures

Ledger == INSTANCE BalanceLedger WITH
    clock <- checkClock, runs <- checkRuns, credits <- creditRows, copies <- checkRows,
    tracker <- balances, back <- setBacks, Rearmed <- RearmedBalance,
    Balances <- CheckBalances
Ids == {<<"a">>, <<"a", "b">>}
Files == INSTANCE AccountFiles WITH
    Usernames <- Ids, MaxEdits <- MaxNames, MaxChecks <- MaxCycles, MaxFaults <- MaxErrors,
    edits <- nameEdits, faults <- errors
Shots == INSTANCE Screenshots WITH
    Owners <- Ids, Retention <- KeptFor, MaxNow <- MaxShotTime, MaxFaults <- MaxShotFaults,
    now <- shotTime, faults <- shotFaults

Parts == {"quota", "provider", "policies", "digests", "grants", "direct", "logins",
          "listener", "import", "maintenance", "page", "codex", "ledger", "files", "shots"}

Init ==
    /\ part \in Parts
    /\ Quota!Init /\ Provider!Init /\ Policies!Init /\ Digests!Init /\ Grants!Init
    /\ Direct!Init /\ Logins!Init /\ Listener!Init /\ Import!Init /\ Maintenance!Init
    /\ Page!Init /\ Codex!Init /\ Ledger!Init /\ Files!Init /\ Shots!Init
    /\ part # "direct" => provider = "antigravity" /\ credits = [a \in Accounts |-> 0]
    /\ part # "import" => file.content = [run |-> 1, endpoint |-> 0, grant |-> 0]
    /\ part # "page" => server = {}
    /\ part # "ledger" => checkRuns = <<>>
    /\ part # "shots" => root = "secure"

\* The steps of one part: the others stand still.
Only(p) ==
    /\ part = p /\ part' = part
    /\ p # "quota" => UNCHANGED quotaVars
    /\ p # "provider" => UNCHANGED providerVars
    /\ p # "policies" => UNCHANGED rules
    /\ p # "digests" => UNCHANGED digestVars
    /\ p # "grants" => UNCHANGED grantVars
    /\ p # "direct" => UNCHANGED directVars
    /\ p # "logins" => UNCHANGED loginVars
    /\ p # "listener" => UNCHANGED listenerVars
    /\ p # "import" => UNCHANGED importVars
    /\ p # "maintenance" => UNCHANGED maintenanceVars
    /\ p # "page" => UNCHANGED pageVars
    /\ p # "codex" => UNCHANGED codexVars
    /\ p # "ledger" => UNCHANGED ledgerVars
    /\ p # "files" => UNCHANGED fileVars
    /\ p # "shots" => UNCHANGED shotVars

Next ==
    \/ Only("quota") /\ Quota!Next
    \/ Only("provider") /\ Provider!Next
    \/ Only("policies") /\ Policies!Next
    \/ Only("digests") /\ Digests!Next
    \/ Only("grants") /\ Grants!Next
    \/ Only("direct") /\ Direct!Next
    \/ Only("logins") /\ Logins!Next
    \/ Only("listener") /\ Listener!Next
    \/ Only("import") /\ Import!Next
    \/ Only("maintenance") /\ Maintenance!Next
    \/ Only("page") /\ Page!Next
    \/ Only("codex") /\ Codex!Next
    \/ Only("ledger") /\ Ledger!Next
    \/ Only("files") /\ Files!Next
    \/ Only("shots") /\ Shots!Next

Spec == Init /\ [][Next]_vars

AlertsTold == Quota!DropsTold /\ Provider!OutagesClosed /\ []Codex!DropToldOnce
SpecificRowDecides == Policies!SpecificRowDecides
DigestsOnce == Digests!DigestsOnce
GrantsTold == Grants!GrantsTold
GainsRose == Direct!GainsRose
VerifierOnce == Logins!VerifierOnce
NoCommandLost == Listener!NoCommandLost
ImportsMatch == Import!ImportsMatch
DeletedBackedUp == Maintenance!DeletedBackedUp
AccountShown == Page!AccountShown
LedgerAgrees == Ledger!LedgerAgrees
FilesKept == Files!FilesKept
ShotsThere == Shots!ShotsThere
=============================================================================
