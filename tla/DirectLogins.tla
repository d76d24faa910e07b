---------------------------- MODULE DirectLogins ----------------------------
(***************************************************************************)
(* The login that adds an Antigravity account (antigravity/oauth.ts, the   *)
(* two routes of antigravity/api.ts): a start keeps a PKCE verifier under  *)
(* a nonce, the exchange redeems it with the code that the operator pastes *)
(* back.  The operator may paste twice, late, or after a restart, which    *)
(* forgets the verifiers.                                                  *)
(***************************************************************************)
EXTENDS Naturals, FiniteSets

CONSTANTS Nonces, StateTtl, MaxNow, MaxRequests

VARIABLES now, pendingStates, exchanging, redeemed, added, requests

vars == <<now, pendingStates, exchanging, redeemed, added, requests>>

Init ==
    /\ now = 0 /\ pendingStates = {} /\ exchanging = [n \in Nonces |-> 0]
    /\ redeemed = {} /\ added = {} /\ requests = 0

Known == {p.nonce: p \in pendingStates}

\* cleanupExpiredStates, at every start only.
Live == {p \in pendingStates: p.expiresAt > now}

\* authorizeAntigravityStart: nonces are never used again.
authorizeAntigravityStart(n) ==
    /\ n \notin Known \cup {r.nonce: r \in redeemed} /\ exchanging[n] = 0
    /\ requests < MaxRequests /\ requests' = requests + 1
    /\ pendingStates' = Live \cup {[nonce |-> n, expiresAt |-> now + StateTtl]}
    /\ UNCHANGED <<now, exchanging, redeemed, added>>

\* An exchange that forgets the nonce only when it has expired.
ExchangeKeeping(n) ==
    /\ requests < MaxRequests /\ requests' = requests + 1
    /\ \E p \in pendingStates:
           /\ p.nonce = n
           /\ IF p.expiresAt <= now
              THEN pendingStates' = pendingStates \ {p} /\ UNCHANGED <<exchanging, redeemed>>
              ELSE /\ exchanging' = [exchanging EXCEPT ![n] = @ + 1]
                   /\ redeemed' = redeemed \cup {[nonce |-> n, nth |-> requests, at |-> now,
                                                  expiresAt |-> p.expiresAt]}
                   /\ UNCHANGED pendingStates
    /\ UNCHANGED <<now, added>>

\* The part of exchangeAntigravityCode before its await: an unknown nonce is
\* refused, a known one is forgotten, and an expired one refused.  redeemed
\* notes each request to Google with the verifier.
exchangeAntigravityCode(n) ==
    /\ requests < MaxRequests /\ requests' = requests + 1
    /\ \E p \in pendingStates:
           /\ p.nonce = n
           /\ pendingStates' = pendingStates \ {p}
           /\ IF p.expiresAt <= now
              THEN UNCHANGED <<exchanging, redeemed>>
              ELSE /\ exchanging' = [exchanging EXCEPT ![n] = @ + 1]
                   /\ redeemed' = redeemed \cup {[nonce |-> n, nth |-> requests, at |-> now,
                                                  expiresAt |-> p.expiresAt]}
    /\ UNCHANGED <<now, added>>

\* exchangeAuthorizationCode answers; with tokens the route stores an account
\* under a new id.
Exchanged(n) ==
    /\ exchanging[n] > 0
    /\ exchanging' = [exchanging EXCEPT ![n] = @ - 1]
    /\ \/ added' = added \cup {[nonce |-> n, nth |-> Cardinality(added)]}
       \/ UNCHANGED added
    /\ UNCHANGED <<now, pendingStates, redeemed, requests>>

Tick ==
    /\ now < MaxNow
    /\ now' = now + 1
    /\ UNCHANGED <<pendingStates, exchanging, redeemed, added, requests>>

\* The process restarts; the verifiers were in its memory.
Restart ==
    /\ pendingStates # {} \/ \E n \in Nonces: exchanging[n] > 0
    /\ pendingStates' = {}
    /\ exchanging' = [n \in Nonces |-> 0]
    /\ UNCHANGED <<now, redeemed, added, requests>>

Next ==
    \/ Tick \/ Restart
    \/ \E n \in Nonces:
           authorizeAntigravityStart(n) \/ exchangeAntigravityCode(n) \/ Exchanged(n)

Spec == Init /\ [][Next]_vars

-----------------------------------------------------------------------------

\* oauth.ts:5-6, "The verifier is single-use and expires": of two exchanges
\* with one state, overlapping or one after the other, one at most reaches
\* Google, none after the five minutes, and one login adds one account.
VerifierOnce ==
    /\ \A r \in redeemed: r.at < r.expiresAt
    /\ \A r1, r2 \in redeemed: r1.nonce = r2.nonce => r1 = r2
    /\ \A a1, a2 \in added: a1.nonce = a2.nonce => a1 = a2
=============================================================================
